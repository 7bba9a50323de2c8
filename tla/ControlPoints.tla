---------------------------- MODULE ControlPoints ----------------------------
(***************************************************************************)
(* Timing, difficulty and effect points: lists ordered by time in which a  *)
(* point is found by binary search.  Speeds are numbers of percent, and a  *)
(* beat length may be NotANumber.                                          *)
(***************************************************************************)
EXTENDS RustStd, FiniteSets, SequencesExt

CONSTANTS
    None,       \* the absent value of an Option
    NotANumber  \* f64::NAN

Clamped(v, lo, hi) == MinOf(MaxOf(v, lo), hi)

\* beat_len < 0.0, which NaN is not
Inherits(beat_len) == IF beat_len = NotANumber THEN FALSE ELSE beat_len < 0

SpeedMultiplier(beat_len) == IF Inherits(beat_len) THEN 10000 \div (-beat_len) ELSE 100

NewTimingPoint(time, beat_len) ==
    [time |-> time, beat_len |-> Clamped(beat_len, 6, 60000)]

NewDifficultyPoint(time, beat_len) ==
    [time |-> time,
     slider_velocity |-> Clamped(SpeedMultiplier(beat_len), 10, 1000),
     bpm_multiplier |-> IF Inherits(beat_len) THEN Clamped(-beat_len, 10, 10000) ELSE 100,
     generate_ticks |-> beat_len # NotANumber]

\* osu!taiko and osu!mania maps scroll with the speed multiplier.
NewEffectPoint(time, kiai, beat_len, scrolls) ==
    [time |-> time, kiai |-> kiai,
     scroll_speed |-> IF scrolls THEN Clamped(SpeedMultiplier(beat_len), 1, 1000) ELSE 100]

DefaultDifficultyPoint ==
    [time |-> 0, slider_velocity |-> 100, bpm_multiplier |-> 100, generate_ticks |-> TRUE]
DefaultEffectPoint == [time |-> 0, kiai |-> FALSE, scroll_speed |-> 100]

\* is_redundant: nothing is said about the multiplier of the bpm.
SameDifficulty(a, b) ==
    a.generate_ticks = b.generate_ticks /\ a.slider_velocity = b.slider_velocity
SameEffect(a, b) == a.kiai = b.kiai /\ a.scroll_speed = b.scroll_speed

------------------------------------------------------------------------------
(* The lists, by binary search *)

UpToTime(points, time) == Cardinality({i \in DOMAIN points : points[i].time <= time})

\* difficulty_point_at and effect_point_at
ActiveAt(points, time) ==
    LET n == UpToTime(points, time) IN IF n = 0 THEN None ELSE points[n]

\* timing_point_at: before the first point the first one is active.
TimingAt(points, time) ==
    IF points = <<>> THEN None ELSE points[MaxOf(UpToTime(points, time), 1)]

\* A point that is appended, as if lines came in the order of their times
Added_Behind(points, point) == Append(points, point)

\* ControlPoint::add: a point takes the place of one at its time, or its place
\* between those before and behind.
Added(points, point) ==
    LET n == UpToTime(points, point.time)
    IN  IF n > 0 /\ points[MaxOf(n, 1)].time = point.time
        THEN [points EXCEPT ![n] = point]
        ELSE InsertAt(points, n + 1, point)

OrDefault(point, default) == IF point = None THEN default ELSE point

\* check_already_existing and add
AddedDifficulty(points, point) ==
    IF SameDifficulty(point, OrDefault(ActiveAt(points, point.time), DefaultDifficultyPoint))
    THEN points ELSE Added(points, point)
AddedEffect(points, point) ==
    IF SameEffect(point, OrDefault(ActiveAt(points, point.time), DefaultEffectPoint))
    THEN points ELSE Added(points, point)
=============================================================================
