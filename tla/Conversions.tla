----------------------------- MODULE Conversions -----------------------------
(***************************************************************************)
(* What becomes of an osu! map: it is rated as it is, for which its        *)
(* objects are converted and stacked, or it is converted to osu!taiko.     *)
(* The notes of an osu!taiko map, converted or not, are grouped.           *)
(***************************************************************************)
EXTENDS TaikoConvert, OsuObjects, TaikoPreprocessing

CONSTANTS
    Maps,           \* sets of maps, by what they consist of: records of the sets
                    \* [mode, versions, objects, sounds, times, difficulty_points,
                    \*  effect_points], where objects, sounds and times are of sequences
    StackThreshold  \* time_preempt * stack_leniency

VARIABLES
    original,       \* the map before its conversion
    osu_objects,    \* of the osu! map, or None
    difficulty      \* the grouped difficulty objects of an osu!taiko map, or None

vars == <<map, idx, last_scroll_speed, original, osu_objects, difficulty>>

Reflections == {"none", "vertical", "horizontal", "both"}

\* The given objects at the given times
MapOf(mode, version, objects, sounds, times, difficulty_points, effect_points) ==
    [version |-> version, mode |-> mode, is_convert |-> FALSE,
     timing_points |-> <<NewTimingPoint(0, 400)>>,
     difficulty_points |-> difficulty_points, effect_points |-> effect_points,
     hit_objects |-> [k \in DOMAIN times |-> [objects[k] EXCEPT !.start_time = times[k]]],
     hit_sounds |-> [k \in DOMAIN times |-> sounds[k]]]

Init ==
    /\ \E m \in Maps : \E version \in m.versions, times \in m.times, sounds \in m.sounds,
                         difficulty_points \in m.difficulty_points,
                         effect_points \in m.effect_points :
           \E objects \in {o \in m.objects : Len(o) = Len(times)} :
               map = MapOf(m.mode, version, objects, sounds, times, difficulty_points,
                           effect_points)
    /\ idx = 1
    /\ last_scroll_speed = 100
    /\ original = map
    /\ osu_objects = None
    /\ difficulty = None

TaikoStep ==
    /\ osu_objects = None
    /\ KeepObject \/ ConvertSlider \/ ConvertHold \/ FinishTaiko
    /\ UNCHANGED <<original, osu_objects, difficulty>>

OsuObjectsOf(reflection) ==
    /\ map.mode = "osu" /\ map = original /\ idx = 1 /\ osu_objects = None
    /\ osu_objects' = ConvertObjects(map, reflection, StackThreshold)
    /\ UNCHANGED <<map, idx, last_scroll_speed, original, difficulty>>

Preprocess ==
    /\ map.mode = "taiko" /\ difficulty = None
    /\ difficulty' = Preprocessed(map)
    /\ UNCHANGED <<map, idx, last_scroll_speed, original, osu_objects>>

Next == TaikoStep \/ Preprocess \/ \E reflection \in Reflections : OsuObjectsOf(reflection)

Spec == Init /\ [][Next]_vars

------------------------------------------------------------------------------
(* Properties *)

Ordered(list, Key(_)) == \A i, j \in DOMAIN list : i < j => Key(list[i]) <= Key(list[j])

\* While objects are replaced every object has its sound and the effect points
\* stay in the order of their times, as binary searches require.  The nested
\* objects of a slider are in the order of their times with one tail, and the
\* cursor follows a slider for half of its duration or more, never longer.
\* Every difficulty object is in one group of each kind, in the order of the map.
TypeOK ==
    /\ idx \in 1 .. Len(map.hit_objects) + 1
    /\ Len(map.hit_objects) = Len(map.hit_sounds)
    /\ \A i \in DOMAIN map.effect_points : i > 1 =>
           map.effect_points[i - 1].time < map.effect_points[i].time
    /\ osu_objects # None => \A k \in DOMAIN osu_objects :
           LET o == osu_objects[k]
           IN  o.kind = "slider" =>
                   /\ Ordered(o.nested, LAMBDA n : n.start_time)
                   /\ Len(SelectSeq(o.nested, LAMBDA n : n.kind = "tail")) = 1
                   /\ 2 * o.lazy_travel_time >= o.end_time - o.start_time - 1
                   /\ o.lazy_travel_time <= o.end_time - o.start_time
    /\ difficulty # None =>
           LET Partition(groups, n) ==
                   FlattenSeq([g \in DOMAIN groups |->
                       [i \in 1 .. RunLen(groups[g]) |-> groups[g].first + i - 1]])
                   = [i \in 1 .. n |-> i]
           IN  /\ Partition(difficulty.mono_streaks, Len(difficulty.objects))
               /\ Partition(difficulty.alternating_mono_patterns, Len(difficulty.mono_streaks))
               /\ Partition(difficulty.repeating_hit_patterns,
                            Len(difficulty.alternating_mono_patterns))
               /\ Partition(difficulty.same_rhythm_groups, Len(NoteObjects(difficulty.objects)))
               /\ Partition(difficulty.same_patterns_groups, Len(difficulty.same_rhythm_groups))

\* An object with its sound, as it is in the converted map: itself, a spinner
\* for a hold note, or hits where a slider is shorter than two beats
TaikoObjects(i) ==
    LET h     == original.hit_objects[i]
        sound == original.hit_sounds[i]
        nodes == h.slider.node_sounds
        beats == h.slider.len * h.slider.span_count
        velocity == SliderVelocity(original, h.start_time)
        short == h.kind = "slider" /\ beats > 0
                     /\ beats < 2 * (IF original.version < 8 THEN 100 ELSE velocity)
        Sound(k) == IF nodes = <<>> THEN sound ELSE nodes[((k - 1) % Len(nodes)) + 1]
    IN  IF short
        THEN [k \in 1 .. NHits(h) |->
                 [object |-> Circle(h.start_time + (k - 1) * TickSpacing(h)), sound |-> Sound(k)]]
        ELSE <<[object |-> [h EXCEPT !.kind = IF @ = "hold" THEN "spinner" ELSE @],
                sound |-> sound]>>

\* The converted map has for each object, in the order of their times and
\* those at one time in the order of the osu! map, what the object becomes, each
\* hit with the sound of its node, wherever the object was when idx came to
\* it (convert, should_convert_slider_to_taiko_hits, TandemSorter).
KeepsObjects ==
    map.is_convert =>
        LET all == FlattenSeq([i \in DOMAIN original.hit_objects |-> TaikoObjects(i)])
            Behind(i, j) == all[i].object.start_time < all[j].object.start_time
            Place(i) == Cardinality({j \in DOMAIN all : Behind(j, i) \/ (j <= i /\ ~Behind(i, j))})
        IN  /\ Len(map.hit_objects) = Len(all)
            /\ \A i \in DOMAIN all :
                   all[i] = [object |-> map.hit_objects[Place(i)],
                             sound |-> map.hit_sounds[Place(i)]]

Sliders == {i \in DOMAIN original.hit_objects : original.hit_objects[i].kind = "slider"}
VelocityOf(i) == SliderVelocity(original, original.hit_objects[i].start_time)
Times == {original.hit_objects[i].start_time : i \in DOMAIN original.hit_objects}
             \cup {original.effect_points[i].time : i \in DOMAIN original.effect_points}

\* The sliders whose velocity is not the one of the slider before
Changes == {i \in Sliders :
               VelocityOf(i) # (IF \E j \in Sliders : j < i
                                THEN VelocityOf(Max({j \in Sliders : j < i})) ELSE 100)}

\* The points that the conversion adds or replaces change no kiai at any time,
\* and the notes scroll with the velocity of the last slider that changed it,
\* until the next effect point of the osu! map (convert, EffectPoint::add).
ScrollSpeeds ==
    map.is_convert => \A time \in Times :
        LET point   == OrDefault(ActiveAt(map.effect_points, time), DefaultEffectPoint)
            before  == OrDefault(ActiveAt(original.effect_points, time), DefaultEffectPoint)
            changes == {i \in Changes : original.hit_objects[i].start_time <= time}
            last    == Max(changes)
        IN  /\ point.kiai = before.kiai
            /\ point.scroll_speed =
                   IF changes # {} /\ original.hit_objects[last].start_time >= before.time
                   THEN VelocityOf(last) ELSE before.scroll_speed

Heights(objects) == [k \in DOMAIN objects |-> objects[k].stack_height]

\* Do o and the later object p lie at one place, shortly one after the other?
Stacks(o, p) == o.pos = p.pos /\ p.start_time - o.start_time <= StackThreshold

\* The heights of circles: one more than that of the next circle at the place,
\* if it follows shortly, whatever lies in between at other places
CircleHeights(objects) ==
    LET Height[i \in DOMAIN objects] ==
            LET later == {j \in DOMAIN objects : j > i /\ objects[j].pos = objects[i].pos}
                next  == CHOOSE j \in later : \A k \in later : j <= k
            IN  IF later # {} /\ Stacks(objects[i], objects[next]) THEN Height[next] + 1 ELSE 0
    IN  Height

\* No mirror changes the height of an object, whichever way its nested objects
\* are turned.  If each object begins when the one before has ended, two circles
\* that follow shortly at one place have different heights, unless a slider in
\* between begins or ends there, whatever else lies in between; and where there are circles only, they
\* lie one above the other from the last one up.  All this is true of the
\* stacking of new maps, which walks backwards, and of old maps, which walks
\* forwards (reflect_vertically and the other reflections, stacking, old_stacking).
StackHeights ==
    osu_objects # None =>
        LET Circle_(i) == osu_objects[i].kind = "circle"
            Pos(i) == osu_objects[i].pos
            Touches(k, pos) ==
                osu_objects[k].kind = "slider" /\ (Near(Pos(k), pos) \/ Near(EndPos(osu_objects[k]), pos))
            one_by_one == \A i \in DOMAIN osu_objects : i > 1 =>
                              osu_objects[i - 1].end_time <= osu_objects[i].start_time
            separate == \A i, j \in DOMAIN osu_objects : Near(Pos(i), Pos(j)) => Pos(i) = Pos(j)
        IN  /\ Heights(osu_objects) = Heights(ConvertObjects(map, "none", StackThreshold))
            /\ one_by_one => \A i, j \in DOMAIN osu_objects :
                   /\ i < j /\ Circle_(i) /\ Circle_(j) /\ Stacks(osu_objects[i], osu_objects[j])
                   /\ \A k \in i + 1 .. j - 1 : ~Touches(k, Pos(i))
                   => osu_objects[i].stack_height # osu_objects[j].stack_height
            /\ separate /\ (\A i \in DOMAIN osu_objects : Circle_(i)) =>
                   Heights(osu_objects) = CircleHeights(osu_objects)

\* Where there are notes only, a repeating pattern goes on exactly as long as the
\* hits, rims and centers, of each of its patterns are those of the next but
\* one, and groups of the same hits are seen as a repetition.  A note is played with two fingers if and only if the last note before
\* it or the next one behind it that is of the other type is less than 300 ms
\* away, if no drum roll lies between those notes; the finger hit as many notes
\* of the type before as there are fingers
\* (encode_repeating_hit_patterns, previous_color_change, available_fingers_for).
ColorGroups ==
    LET objects   == difficulty.objects
        patterns  == difficulty.alternating_mono_patterns
        repeating == difficulty.repeating_hit_patterns
        Type(i)   == objects[i].base_hit_type
        streaks   == difficulty.mono_streaks
        Hits_(p, q) == LET first == streaks[patterns[p].first].first
                       IN  [i \in 0 .. streaks[patterns[q].last].last - first |-> Type(first + i)]
        GroupHits(g) == Hits_(repeating[g].first, repeating[g].last)
        group(p)  == IndexOf(repeating, p)
        Closes(p) == repeating[group(p)].last = p /\ RunLen(repeating[group(p)]) > 1
        Others(i) == {j \in DOMAIN objects : Type(j) \notin {Type(i), "non_hit"}}
        Before(i) == {j \in Others(i) : j < i}
        Behind(i) == {j \in Others(i) : j > i}
        NotesOnly(from, to) == \A j \in from .. to : Type(j) # "non_hit"
        Close(i, j) == objects[MaxOf(i, j)].start_time - objects[MinOf(i, j)].start_time
                           < ColorChangeTime
        finger(i) == PreviousOfFinger(difficulty, i)
    IN  /\ NotesOnly(1, Len(objects)) =>
               /\ \A p \in 1 .. Len(patterns) - 2 :
                      (group(p) = group(p + 2))
                          <=> (Hits_(p, p) = Hits_(p + 2, p + 2) /\ ~Closes(p))
               /\ \A g \in DOMAIN repeating : \A d \in 1 .. MinOf(MaxRepetitionInterval, g) - 1 :
                      GroupHits(g) = GroupHits(g - d) => repeating[g].repetition_interval <= d
        /\ \A i \in DOMAIN objects :
               NotesOnly(IF Before(i) = {} THEN 1 ELSE Max(Before(i)),
                         IF Behind(i) = {} THEN Len(objects) ELSE Min(Behind(i))) =>
                   ((AvailableFingers(difficulty, i) = 2) <=>
                       \/ Before(i) # {} /\ Close(Max(Before(i)), i)
                       \/ Behind(i) # {} /\ Close(i, Min(Behind(i))))
        /\ \A i \in DOMAIN objects :
               LET same == {j \in 1 .. i - 1 : Type(i) # "non_hit" /\ Type(j) = Type(i)}
               IN  IF Cardinality(same) < AvailableFingers(difficulty, i) THEN finger(i) = None
                   ELSE \E j \in same : /\ objects[j] = finger(i)
                                         /\ Cardinality({k \in same : k >= j})
                                                = AvailableFingers(difficulty, i)

\* A group of notes begins where the rhythm has just become slower, or where
\* it is about to become faster, or with the last note; behind its first note
\* it is steady.  Its interval is close to that of its second note even if
\* it is the one of a chain of groups before it, and the intervals of groups in
\* a row are the same or differ by more than the tolerance
\* (create_next_group, SameRhythmHitObjectGrouping::new).
RhythmGroups ==
    LET notes  == NoteObjects(difficulty.objects)
        groups == difficulty.same_rhythm_groups
        Delta(i) == notes[i].delta_time
        Differ(a, b) == MaxOf(a - b, b - a)
    IN  /\ \A k \in DOMAIN groups :
               LET g == groups[k] IN
               /\ g.first \in 2 .. Len(notes) - 1 =>
                      \/ Delta(g.first) > Delta(g.first - 1) + SnapTolerance
                      \/ Delta(g.first + 1) < Delta(g.first) - SnapTolerance
               /\ \A i \in g.first + 2 .. g.last : AlmostEq(Delta(i), Delta(i - 1))
               /\ g.first < g.last =>
                      Differ(g.hit_object_interval, Delta(g.first + 1)) <= 2 * SnapTolerance
        /\ \A k \in DOMAIN groups : k > 1 =>
               LET this == groups[k].hit_object_interval
                   prev == groups[k - 1].hit_object_interval
               IN  this # None /\ prev # None /\ this # prev => Differ(this, prev) > SnapTolerance

GroupsOfNotes == difficulty # None => ColorGroups /\ RhythmGroups
=============================================================================
