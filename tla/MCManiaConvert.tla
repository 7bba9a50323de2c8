---------------------------- MODULE MCManiaConvert ----------------------------
(***************************************************************************)
(* Stages of one to eight columns; circles at every limit of the time     *)
(* between objects, and sliders for each of the patterns.                  *)
(***************************************************************************)
EXTENDS ManiaConvert

Circle(time_separation, near, dense, sample) ==
    [kind |-> "circle", x |-> 150, sample |-> sample, time_separation |-> time_separation,
     near |-> near, dense |-> dense, kiai |-> FALSE]

MCCircles ==
    {Circle(80, FALSE, FALSE, {}), Circle(95, FALSE, FALSE, {}),
     Circle(105, FALSE, FALSE, {"CLAP", "FINISH"}), Circle(125, FALSE, FALSE, {"CLAP"}),
     Circle(135, TRUE, FALSE, {}), Circle(150, TRUE, FALSE, {}), Circle(200, TRUE, FALSE, {}),
     Circle(200, FALSE, TRUE, {"FINISH"}), Circle(200, FALSE, FALSE, {})}

Slider(span_count, duration, first_sample, kiai) ==
    [kind |-> "slider", x |-> 400, sample |-> {}, first_sample |-> first_sample,
     span_count |-> span_count, duration |-> duration, kiai |-> kiai]

MCSliders ==
    {Slider(1, 70, {}, FALSE), Slider(1, 100, {}, FALSE), Slider(1, 300, {"CLAP"}, TRUE),
     Slider(2, 150, {}, FALSE), Slider(2, 301, {}, FALSE)}
MCLongSliders ==
    {Slider(2, 220, {}, FALSE), Slider(2, 380, {}, FALSE), Slider(2, 4000, {}, FALSE),
     Slider(2, 900, {}, FALSE), Slider(2, 450, {"CLAP"}, FALSE)}

Spinner(sample, duration) == [kind |-> "spinner", sample |-> sample, duration |-> duration]
MCSpinners == {Spinner({}, 99), Spinner({"FINISH"}, 500)}

Keys(keys, n_objects, objects) ==
    [keys |-> keys, cs |-> 4, od |-> 4, hp |-> 6, ar |-> 5, n_objects |-> n_objects,
     n_sliders |-> n_objects, n_spinners |-> 0, drain_time |-> 2, hit_objects |-> objects]

MCShort == MCCircles \cup MCSliders \cup MCSpinners
MCAll == MCShort \cup MCLongSliders

\* Maps of difficulty 1.3, 2.9, 5.9 and 7.0 (1, 4, 10 and 12 objects)
MCMaps ==
    {Keys(keys, n, MCAll) : keys \in {2, 4}, n \in {1, 12}}
        \cup {Keys(keys, 12, MCAll) : keys \in {3, 5}}
        \cup {Keys(1, 1, MCAll), Keys(0, 10, MCAll), Keys(8, 4, MCAll)}
        \cup {Keys(keys, 12, MCShort) : keys \in 6 .. 8}
=============================================================================
