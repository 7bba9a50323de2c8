------------------------------ MODULE MCDecoder ------------------------------
(***************************************************************************)
(* Short files: timing lines at two times with and without a change, speed *)
(* or NaN, objects at equal and different times, sliders whose paths have  *)
(* several segments, repeated points, a straight perfect curve or a        *)
(* failure behind their first segment.                                     *)
(***************************************************************************)
EXTENDS Decoder

General(key, value) == [valid |-> TRUE, key |-> key, value |-> value]
MCGeneralLines == {General("Mode", "mania"), [General("Mode", "catch") EXCEPT !.valid = FALSE]}

MCDifficultyLines == {General("od", 3), General("od", 8), General("ar", 9)}

MCEventLines == {[valid |-> TRUE, start_time |-> 2, end_time |-> 1]}

Timing(time, beat_len, timing_change, kiai) ==
    [valid |-> TRUE, time |-> time, beat_len |-> beat_len,
     timing_change |-> timing_change, kiai |-> kiai]
MCTimingLines ==
    {Timing(time, 300, TRUE, FALSE) : time \in 0 .. 1}
        \cup {Timing(0, 400, TRUE, FALSE), Timing(1, 400, TRUE, TRUE), Timing(2, 400, TRUE, FALSE)}
        \cup {Timing(time, NotANumber, FALSE, FALSE) : time \in 0 .. 1}
        \cup {Timing(time, -50, FALSE, TRUE) : time \in 0 .. 1}
        \cup {Timing(0, NotANumber, TRUE, FALSE), Timing(1, -100, FALSE, FALSE)}

Object(flag, time, sound) ==
    [valid |-> TRUE, flags |-> {flag}, pos |-> <<1, 1>>, start_time |-> time, sound |-> sound,
     filename |-> FALSE, end_time |-> None, path |-> <<>>, repeat_count |-> 0,
     node_sounds |-> <<>>, len |-> 0]

Path(path) == [Object("SLIDER", 1, {"NORMAL"}) EXCEPT !.path = path, !.repeat_count = 2,
                                                     !.node_sounds = <<{"CLAP"}>>, !.len = 9]

MCPaths ==
    {<<Letter("PERFECT"), PointToken(2, 2), PointToken(3, 1)>>,
     <<Letter("PERFECT"), PointToken(2, 2), PointToken(3, 3)>>,
     <<Letter("BEZIER"), PointToken(2, 1), PointToken(2, 1), PointToken(2, 2), Letter("LINEAR"),
       PointToken(4, 1)>>,
     <<Letter("LINEAR"), PointToken(2, 1), Letter("PERFECT"), PointToken(3, 3), PointToken(4, 4),
       BadToken>>,
     <<Letter("LINEAR"), PointToken(2, 1), Letter("PERFECT"), PointToken(3, 3), PointToken(4, 1),
       PointToken(5, 5)>>,
     <<Letter("CATMULL"), PointToken(1, 1), PointToken(1, 1), PointToken(5, 1), EmptyToken>>,
     <<Letter("CATMULL"), PointToken(1, 1), PointToken(1, 1), PointToken(5, 1)>>}

MCObjectLines ==
    {Object("CIRCLE", time, {"NORMAL"}) : time \in {0, 2}} \cup {Object("CIRCLE", 0, {"CLAP"})}
        \cup {[Object("CIRCLE", 1, {"NORMAL", "CLAP"}) EXCEPT !.filename = TRUE]}
        \cup {Path(path) : path \in MCPaths}
        \cup {[Path(CHOOSE path \in MCPaths : TRUE) EXCEPT !.repeat_count = 9001]}
        \cup {[Object("SPINNER", 1, {}) EXCEPT !.end_time = 3],
              [Object("HOLD", 2, {}) EXCEPT !.end_time = 1],
              Object("SPINNER", 1, {})}
=============================================================================
