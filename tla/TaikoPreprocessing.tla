------------------------- MODULE TaikoPreprocessing -------------------------
(***************************************************************************)
(* The difficulty objects of osu!taiko and what the two preprocessors      *)
(* group them into.  A group is an interval of indices, a record           *)
(* [first, last]: streaks of objects, alternating patterns of streaks and  *)
(* repeating patterns of those; groups of notes in the same rhythm, and    *)
(* groups of such groups in the same pattern.  The clock rate is 1.        *)
(***************************************************************************)
EXTENDS MapObjects

CONSTANTS
    RimSounds,              \* the hit sounds with a clap or a whistle
    MaxRepetitionInterval   \* 16 in the code

SnapTolerance == 5
AlmostEq(a, b) == a - b <= SnapTolerance /\ b - a <= SnapTolerance

HitTypeOf(h, sound) ==
    IF h.kind # "circle" THEN "non_hit" ELSE IF sound \in RimSounds THEN "rim" ELSE "center"

\* COMMON_RATIOS, as numbers of sixtieths
CommonRatios == <<60, 120, 30, 180, 20, 90, 40, 75, 48>>

\* The first of the closest ones, which is the first one of all if prev is 0
ClosestRatio(delta, prev) ==
    LET scaled == [i \in DOMAIN CommonRatios |-> CommonRatios[i] * prev - 60 * delta]
        Diff(i) == MaxOf(scaled[i], -scaled[i])
        best   == {i \in DOMAIN scaled : \A j \in DOMAIN scaled : Diff(i) <= Diff(j)}
    IN  IF prev = 0 THEN CommonRatios[1] ELSE CommonRatios[Min(best)]

\* The first two objects of the map become no difficulty objects.
DiffObjects(map) ==
    LET hits == map.hit_objects
        Type(k) == HitTypeOf(hits[k], map.hit_sounds[k])
        Delta(k) == hits[k].start_time - hits[k - 1].start_time
        NBefore(k, types) == Cardinality({j \in 3 .. k - 1 : Type(j) \in types})
        point(k) == ActiveAt(map.effect_points, hits[k].start_time)
    IN  [i \in 1 .. Len(hits) - 2 |->
            LET k == i + 2
            IN  [start_time |-> hits[k].start_time,
                 delta_time |-> Delta(k),
                 base_hit_type |-> Type(k),
                 note_idx |-> IF Type(k) = "non_hit" THEN 0 ELSE NBefore(k, {"center", "rim"}),
                 mono_idx |-> IF Type(k) = "non_hit" THEN None ELSE NBefore(k, {Type(k)}),
                 ratio |-> IF i = 1 THEN CommonRatios[1] ELSE ClosestRatio(Delta(k), Delta(k - 1)),
                 beat_len |-> TimingBeatLen(map, hits[k].start_time),
                 scroll_speed |-> OrDefault(point(k), DefaultEffectPoint).scroll_speed]]

OfTypes(objects, types) == SelectSeq(objects, LAMBDA o : o.base_hit_type \in types)
NoteObjects(objects) == OfTypes(objects, {"center", "rim"})

\* get of an index that begins at 0
Get(list, i) == IF i + 1 \in DOMAIN list THEN list[i + 1] ELSE None

\* What is not a note has the index of the first note.
PreviousNote(objects, o, backwards_idx) == Get(NoteObjects(objects), o.note_idx - (backwards_idx + 1))
NextNote(objects, o, forwards_idx) == Get(NoteObjects(objects), o.note_idx + forwards_idx + 1)

PreviousMono(objects, o, backwards_idx) ==
    IF o.mono_idx = None THEN None
    ELSE Get(OfTypes(objects, {o.base_hit_type}), o.mono_idx - (backwards_idx + 1))

------------------------------------------------------------------------------
(* Groups *)

RunLen(group) == group.last - group.first + 1
IndexOf(groups, i) == CHOOSE g \in DOMAIN groups : i \in groups[g].first .. groups[g].last

\* One group after the other, where one from i ends at end[i]
Grouped(end) ==
    LET From[i \in 1 .. Len(end) + 1] ==
            IF i > Len(end) THEN <<>>
            ELSE <<[first |-> i, last |-> end[i]]>> \o From[end[i] + 1]
    IN  From[1]

\* A group ends where the next one begins.
SplitWhere(n, begins) ==
    Grouped([i \in 1 .. n |-> Min({j \in i .. n : j = n \/ j + 1 \in begins})])

\* Unless the note before is of the same type.  What is not a note always does.
StartsStreak(objects, i) ==
    LET prev == PreviousNote(objects, objects[i], 0)
    IN  prev = None \/ prev.base_hit_type # objects[i].base_hit_type

MonoStreaks(objects) ==
    SplitWhere(Len(objects), {i \in DOMAIN objects : StartsStreak(objects, i)})
AlternatingMonoPatterns(streaks) ==
    SplitWhere(Len(streaks),
               {i \in 2 .. Len(streaks) : RunLen(streaks[i]) # RunLen(streaks[i - 1])})

HasIdenticalMonoLen(streaks, p, q) == RunLen(streaks[p.first]) = RunLen(streaks[q.first])
IsRepetitionOf(objects, streaks, p, q) ==
    /\ HasIdenticalMonoLen(streaks, p, q)
    /\ RunLen(p) = RunLen(q)
    /\ objects[streaks[p.first].first].base_hit_type = objects[streaks[q.first].first].base_hit_type

\* As long as the next pattern but one is the same, and the two behind the last
\* such pattern
RepeatingHitPatterns(objects, streaks, patterns) ==
    LET n == Len(patterns)
        Coupled(i) == i + 2 <= n /\ IsRepetitionOf(objects, streaks, patterns[i], patterns[i + 2])
    IN  Grouped([i \in 1 .. n |->
                    IF Coupled(i) THEN Min({j \in i .. n : ~Coupled(j)}) + 1 ELSE i])

\* RepeatingHitPatterns::is_repetition_of
SameForm(streaks, patterns, g, h) ==
    /\ RunLen(g) = RunLen(h)
    /\ \A i \in 0 .. MinOf(RunLen(g), 2) - 1 :
           HasIdenticalMonoLen(streaks, patterns[g.first + i], patterns[h.first + i])

\* How far back the group before it of the same form is
RepetitionInterval(streaks, patterns, groups, k) ==
    LET before == {d \in 1 .. MinOf(MaxRepetitionInterval, k) - 1 :
                      SameForm(streaks, patterns, groups[k], groups[k - d])}
    IN  IF before = {} THEN MaxRepetitionInterval + 1 ELSE Min(before)

\* The object before a longer interval belongs to the next group, as before a shorter one.
EndAtChange_Never(intervals, i) == i - 1

\* Where the interval changes behind object i its group ends with the object if
\* the interval increases, before it if it decreases.
EndAtChange(intervals, i) ==
    IF intervals[i + 1] > intervals[i] + SnapTolerance THEN i ELSE i - 1

\* GroupedByIntervalIter::create_next_group: the last object of the group from
\* s.  Its first two intervals are not compared.
GroupEnd(intervals, s) ==
    LET n == Len(intervals)
        changes == {i \in s + 1 .. n - 1 : ~AlmostEq(intervals[i], intervals[i + 1])}
    IN  IF changes # {} THEN EndAtChange(intervals, Min(changes))
        ELSE IF s < n /\ n > 2 /\ AlmostEq(intervals[n], intervals[n - 1]) THEN n
        ELSE MaxOf(s, n - 1)

GroupByInterval(intervals) == Grouped([s \in DOMAIN intervals |-> GroupEnd(intervals, s)])

\* normalise_delta_times: the median, doubled, of the times that are less than
\* the tolerance behind the first one of their set
DoubledMedian(deltas, delta) ==
    LET First[d \in deltas] == ~\E e \in deltas : e < d /\ First[e] /\ d - e <= SnapTolerance
        FirstOf(d) == Max({e \in deltas : e <= d /\ First[e]})
        set == SetToSortSeq({d \in deltas : FirstOf(d) = FirstOf(delta)}, <)
        mid == Len(set) \div 2
    IN  IF Len(set) % 2 = 1 THEN 2 * set[mid + 1] ELSE set[mid] + set[mid + 1]

\* round_ties_even of a half
RoundTiesEven(doubled) ==
    LET half == doubled \div 2
    IN  IF doubled % 2 = 1 /\ half % 2 = 1 THEN half + 1 ELSE half

\* SameRhythmHitObjectGrouping::new for every group; an infinite interval, which
\* is not compared with another one, is None
SameRhythmGroups(notes) ==
    LET groups == GroupByInterval([i \in DOMAIN notes |-> notes[i].delta_time])
        ModalDelta(g) ==
            RoundTiesEven(DoubledMedian({notes[i].delta_time : i \in g.first .. g.last},
                                        notes[g.first + 1].delta_time))
        HitObjectInterval[k \in 0 .. Len(groups)] ==
            IF k = 0 \/ RunLen(groups[k]) = 1 THEN None
            ELSE LET modal == ModalDelta(groups[k])
                     prev  == HitObjectInterval[k - 1]
                 IN  IF prev # None /\ AlmostEq(modal, prev) THEN prev ELSE modal
        Interval(k) == notes[groups[k].first].start_time - notes[groups[k - 1].first].start_time
    IN  [k \in DOMAIN groups |->
            [first |-> groups[k].first, last |-> groups[k].last,
             hit_object_interval |-> HitObjectInterval[k],
             hit_object_interval_ratio |->
                 IF HitObjectInterval[k] # None /\ HitObjectInterval[k - 1] # None
                 THEN <<HitObjectInterval[k], HitObjectInterval[k - 1]>> ELSE <<1, 1>>,
             interval |-> IF k = 1 THEN None
                          ELSE IF AlmostEq(Interval(k), 0) THEN 0 ELSE Interval(k)]]

SamePatternsGroups(rhythm_groups) ==
    LET groups == GroupByInterval([k \in DOMAIN rhythm_groups |-> rhythm_groups[k].interval])
        GroupInterval(g) == rhythm_groups[MinOf(g.first + 1, g.last)].interval
    IN  [k \in DOMAIN groups |->
            [first |-> groups[k].first, last |-> groups[k].last,
             interval_ratio |-> IF k = 1 THEN <<1, 1>>
                                ELSE <<GroupInterval(groups[k]), GroupInterval(groups[k - 1])>>]]

\* create_difficulty_objects with both process_and_assign
Preprocessed(map) ==
    LET objects   == DiffObjects(map)
        streaks   == MonoStreaks(objects)
        patterns  == AlternatingMonoPatterns(streaks)
        repeating == RepeatingHitPatterns(objects, streaks, patterns)
        rhythms   == SameRhythmGroups(NoteObjects(objects))
    IN  [objects |-> objects, mono_streaks |-> streaks, alternating_mono_patterns |-> patterns,
         repeating_hit_patterns |->
            [k \in DOMAIN repeating |->
                [first |-> repeating[k].first, last |-> repeating[k].last,
                 repetition_interval |-> RepetitionInterval(streaks, patterns, repeating, k)]],
         same_rhythm_groups |-> rhythms,
         same_patterns_groups |-> SamePatternsGroups(rhythms)]

------------------------------------------------------------------------------
(* What the skills ask of the groups *)

StreakOf(d, i) == d.mono_streaks[IndexOf(d.mono_streaks, i)]
PreviousColorChange(d, i) == PreviousNote(d.objects, d.objects[StreakOf(d, i).first], 0)
NextColorChange(d, i) == NextNote(d.objects, d.objects[StreakOf(d, i).last], 0)

\* Two if the color changes within this time before or after the note
ColorChangeTime == 300
AvailableFingers(d, i) ==
    LET prev == PreviousColorChange(d, i)
        next == NextColorChange(d, i)
        time == d.objects[i].start_time
    IN  IF \/ prev # None /\ time - prev.start_time < ColorChangeTime
           \/ next # None /\ next.start_time - time < ColorChangeTime
        THEN 2 ELSE 8

\* The note that the same finger hit before
PreviousOfFinger(d, i) == PreviousMono(d.objects, d.objects[i], AvailableFingers(d, i) - 1)
=============================================================================
