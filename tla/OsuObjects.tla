------------------------------ MODULE OsuObjects ------------------------------
(***************************************************************************)
(* The objects that an osu! map is rated by: convert_objects with nested   *)
(* slider objects, reflections, and the stacking of objects at one place.  *)
(* Positions are pairs of integers.                                        *)
(***************************************************************************)
EXTENDS MapObjects

Playfield == <<512, 384>>
StackDistance == 3

Plus(p, q) == <<p[1] + q[1], p[2] + q[2]>>

\* Euclidean distance below StackDistance
Near(p, q) ==
    (p[1] - q[1]) * (p[1] - q[1]) + (p[2] - q[2]) * (p[2] - q[2]) < StackDistance * StackDistance

------------------------------------------------------------------------------
(* OsuSlider::new: positions are relative to the slider. *)

\* SliderEventsIter: ticks of one span at multiples of tick_dist, none at a
\* place that is reached less than 10 ms before the end of the span
TicksOf(len, tick_dist, span_duration) ==
    {n \in 1 .. len \div tick_dist : n * tick_dist < len /\ (len - n * tick_dist) * span_duration > 10 * len}

\* The part of the way a span has covered at its n-th tick, by time
TickTime(len, tick_dist, span_duration, span, n) ==
    LET covered == IF span % 2 = 0 THEN n * tick_dist ELSE len - n * tick_dist
    IN  span * span_duration + (covered * span_duration) \div len

Nested(kind, start_time, pos) == [kind |-> kind, start_time |-> start_time, pos |-> pos]

\* Ticks, repeats and the tail in the order of their spans
NestedObjects(map, h) ==
    LET slider   == h.slider
        len      == slider.len
        spans    == slider.span_count
        duration == SpanDuration(map, h)
        velocity == SliderVelocity(map, h.start_time)
        dist     == IF map.version < 8 THEN 100 ELSE velocity
        ticks    == IF GeneratesTicks(map, h.start_time) THEN TicksOf(len, dist, duration) ELSE {}
        Tick(span, n) ==
            Nested("tick", h.start_time + TickTime(len, dist, duration, span, n),
                   <<(slider.delta[1] * n * dist) \div len, (slider.delta[2] * n * dist) \div len>>)
        EndOf(span) == IF span % 2 = 0 THEN slider.delta ELSE <<0, 0>>
        Ordered(span) ==
            IF span % 2 = 0 THEN SetToSortSeq(ticks, <) ELSE SetToSortSeq(ticks, >)
        Span(span) ==
            Append([k \in 1 .. Cardinality(ticks) |-> Tick(span, Ordered(span)[k])],
                   Nested(IF span = spans - 1 THEN "tail" ELSE "repeat",
                          h.start_time + (span + 1) * duration, EndOf(span)))
    IN  CSharp(FlattenSeq([k \in 1 .. spans |-> Span(k - 1)]))

TailLeniency == 36

\* lazy_travel_time: until shortly before the end, or until a tick behind that
LazyTravelTime(start_time, duration, nested) ==
    LET tracked == start_time + MaxOf(duration - TailLeniency, duration \div 2)
        ticks   == SelectSeq(nested, LAMBDA n : n.kind = "tick")
    IN  (IF ticks # <<>> /\ Last(ticks).start_time > tracked
         THEN Last(ticks).start_time ELSE tracked) - start_time

\* OsuObject::new: a hold note becomes a spinner.
NewOsuObject(map, h) ==
    LET duration == IF h.kind = "slider" THEN h.slider.span_count * SpanDuration(map, h)
                    ELSE h.duration
        nested   == IF h.kind = "slider" THEN NestedObjects(map, h) ELSE <<>>
    IN  [kind |-> IF h.kind = "hold" THEN "spinner" ELSE h.kind,
         pos |-> h.pos, start_time |-> h.start_time, end_time |-> h.start_time + duration,
         nested |-> nested,
         lazy_travel_time |-> LazyTravelTime(h.start_time, duration, nested),
         stack_height |-> 0]

RepeatCount(o) == Cardinality({k \in DOMAIN o.nested : o.nested[k].kind = "repeat"})

\* tail: not necessarily the last of the nested objects
Tail_(o) == Last(SelectSeq(o.nested, LAMBDA n : n.kind = "tail"))

EndPos(o) == IF o.kind = "slider" THEN Tail_(o).pos ELSE o.pos

------------------------------------------------------------------------------
(* Reflections *)

Mirrors(reflection, axis) ==
    reflection = "both" \/ reflection = (IF axis = 1 THEN "horizontal" ELSE "vertical")

\* A nested object that keeps its way from the begin of the slider
Turned_NotNested(way, reflection) == way

\* The way from the begin of a slider, in the mirror
Turned(way, reflection) ==
    [axis \in 1 .. 2 |-> IF Mirrors(reflection, axis) THEN -way[axis] ELSE way[axis]]

\* reflect_* and finalize_nested: from here on nested positions are absolute.
Finalized(o, reflection) ==
    LET pos == [axis \in 1 .. 2 |-> IF Mirrors(reflection, axis)
                                    THEN Playfield[axis] - o.pos[axis] ELSE o.pos[axis]]
    IN  [o EXCEPT !.pos = pos,
                  !.nested = [k \in DOMAIN @ |-> [@[k] EXCEPT
                                 !.pos = Plus(pos, Turned(@, reflection))]]]

------------------------------------------------------------------------------
(* Stacking: objects at one place, shortly one after the other, are set off by
   their stack_height. *)

CountUp(from, to) == [k \in 1 .. to - from + 1 |-> from + k - 1]

\* The objects from n + 1 to i at the end of slider n are set below it.
BelowSlider(objs, n, i, base) ==
    LET offset == objs[base].stack_height - objs[n].stack_height + 1
    IN  [j \in DOMAIN objs |->
            IF j \in n + 1 .. i /\ Near(EndPos(objs[n]), objs[j].pos)
            THEN [objs[j] EXCEPT !.stack_height = @ - offset] ELSE objs[j]]

\* Object n takes its place on top of the base, and is the new base.
Stacked(s, n) ==
    [s EXCEPT !.objs[n].stack_height = s.objs[s.base].stack_height + 1, !.base = n]

\* One step back from a circle at i.  The test of extended_start_idx is left
\* out, which is 0 all the time.
FromCircle(s, n, i, threshold) ==
    LET o    == s.objs[n]
        base == s.objs[s.base]
    IN  IF s.ends \/ o.kind = "spinner" THEN s
        ELSE IF base.start_time - o.end_time > threshold THEN [s EXCEPT !.ends = TRUE]
        ELSE IF o.kind = "slider" /\ Near(EndPos(o), base.pos)
        THEN [s EXCEPT !.objs = BelowSlider(@, n, i, s.base), !.ends = TRUE]
        ELSE IF Near(o.pos, base.pos) THEN Stacked(s, n) ELSE s

\* One step back from a slider, which stacks upwards only
FromSlider(s, n, threshold) ==
    LET o    == s.objs[n]
        base == s.objs[s.base]
    IN  IF s.ends \/ o.kind = "spinner" THEN s
        ELSE IF base.start_time - o.start_time > threshold THEN [s EXCEPT !.ends = TRUE]
        ELSE IF Near(EndPos(o), base.pos) THEN Stacked(s, n) ELSE s

\* stacking: backwards from every object that has no height yet
Stacking(osu_objects, threshold) ==
    LET From(objs, i) ==
            LET start == [objs |-> objs, base |-> i, ends |-> FALSE]
                Step(s, n) == IF objs[i].kind = "circle" THEN FromCircle(s, n, i, threshold)
                              ELSE FromSlider(s, n, threshold)
            IN  IF objs[i].stack_height # 0 \/ objs[i].kind = "spinner" THEN objs
                ELSE FoldLeft(Step, start, Countdown(i - 1, 1)).objs
    IN  FoldLeft(From, osu_objects, Countdown(Len(osu_objects), 2))

\* The end of the path, which is where a slider is at its tail or first repeat
PathEndPos(o) ==
    LET repeats == SelectSeq(o.nested, LAMBDA n : n.kind = "repeat")
    IN  IF o.kind # "slider" THEN o.pos
        ELSE IF RepeatCount(o) % 2 = 0 THEN Tail_(o).pos ELSE Head(repeats).pos

\* One step forward from object i
OldStep(s, j, i, end_pos, threshold) ==
    LET o == s.objs[j]
    IN  IF s.ends THEN s
        ELSE IF o.start_time - threshold > s.start_time THEN [s EXCEPT !.ends = TRUE]
        ELSE IF Near(o.pos, s.objs[i].pos)
        THEN [s EXCEPT !.objs[i].stack_height = @ + 1, !.start_time = o.start_time]
        ELSE IF Near(o.pos, end_pos)
        THEN [s EXCEPT !.slider_stack = @ + 1, !.start_time = o.start_time,
                       !.objs[j].stack_height = @ - s.slider_stack - 1]
        ELSE s

\* old_stacking: forwards from every slider and every object without a height
OldStacking(osu_objects, threshold) ==
    LET From(objs, i) ==
            LET start == [objs |-> objs, start_time |-> objs[i].end_time, slider_stack |-> 0,
                          ends |-> FALSE]
                Step(s, j) == OldStep(s, j, i, PathEndPos(objs[i]), threshold)
            IN  IF objs[i].stack_height # 0 /\ objs[i].kind # "slider" THEN objs
                ELSE FoldLeft(Step, start, CountUp(i + 1, Len(objs))).objs
    IN  FoldLeft(From, osu_objects, CountUp(1, Len(osu_objects)))

\* convert_objects
ConvertObjects(map, reflection, threshold) ==
    LET fresh == [k \in DOMAIN map.hit_objects |->
                     Finalized(NewOsuObject(map, map.hit_objects[k]), reflection)]
    IN  IF map.version >= 6 THEN Stacking(fresh, threshold) ELSE OldStacking(fresh, threshold)
=============================================================================
