----------------------------- MODULE MapObjects -----------------------------
(***************************************************************************)
(* What the conversions ask of a Beatmap: the control points at a time and *)
(* the durations of sliders.  A map is a record of its fields with version,*)
(* hit_objects, hit_sounds and the lists of control points; velocities are *)
(* numbers of percent.  The slider of an object is a record                *)
(*   [len, span_count, node_sounds, delta]                                 *)
(* where len is the percentage of a beat that one span takes at velocity   *)
(* 100, and delta leads from its begin to its end.                         *)
(***************************************************************************)
EXTENDS ControlPoints, Sorting

DefaultBeatLen == 1000

SliderVelocity(map, time) ==
    OrDefault(ActiveAt(map.difficulty_points, time), DefaultDifficultyPoint).slider_velocity
GeneratesTicks(map, time) ==
    OrDefault(ActiveAt(map.difficulty_points, time), DefaultDifficultyPoint).generate_ticks
TimingBeatLen(map, time) ==
    IF map.timing_points = <<>> THEN DefaultBeatLen ELSE TimingAt(map.timing_points, time).beat_len

\* get_precision_adjusted_beat_len
AdjustedBeatLen(velocity, beat_len) ==
    (beat_len * Clamped(10000 \div velocity, 10, 10000)) \div 100

\* How long one span of a slider takes
SpanDuration(map, h) ==
    (h.slider.len * AdjustedBeatLen(SliderVelocity(map, h.start_time),
                                    TimingBeatLen(map, h.start_time))) \div 100
=============================================================================
