---------------------------- MODULE MCPerformance ----------------------------
(***************************************************************************)
(* Small maps for the performance builders: at most three or four objects  *)
(* in each mode, sliders with ticks, hold notes, droplets and tiny         *)
(* droplets, and the counts after none, some and all of the objects.       *)
(***************************************************************************)
EXTENDS Performance

Map(mode, is_convert) == [mode |-> mode, is_convert |-> is_convert, mods |-> "nomod"]

MCMaps == {Map("osu", FALSE), Map("taiko", FALSE), Map("mania", TRUE)}

OsuCounts(n, sliders, ticks, combo) ==
    [n_objects |-> n, n_sliders |-> sliders, n_large_ticks |-> ticks, max_combo |-> combo]
CatchCounts(fruits, droplets, tiny) ==
    [n_fruits |-> fruits, n_droplets |-> droplets, n_tiny_droplets |-> tiny]
ManiaCounts(n, holds) == [n_objects |-> n, n_hold_notes |-> holds]

MCCounts ==
    [osu   |-> <<OsuCounts(0, 0, 0, 0), OsuCounts(1, 0, 0, 1), OsuCounts(4, 1, 1, 6)>>,
     taiko |-> <<[max_combo |-> 0], [max_combo |-> 1], [max_combo |-> 4]>>,
     catch |-> <<CatchCounts(0, 0, 0), CatchCounts(1, 1, 2), CatchCounts(2, 1, 3)>>,
     mania |-> <<ManiaCounts(0, 0), ManiaCounts(2, 0), ManiaCounts(3, 1)>>]

\* Numbers that fit, that fit only alone, and that do not fit
MCFieldCalls ==
    {"n_geki", "n300", "n_katu", "n100", "n50"} \X {1, 3} \cup
    {"misses"} \X {1, 9} \cup {"max_combo", "large_tick_hits"} \X {2}

ScoreState(n300, n100, n50, katu, misses) ==
    [f \in AllFields |->
        CASE f = "n300" -> n300 [] f = "n100" -> n100 [] f = "n50" -> n50
          [] f = "n_katu" -> katu [] f = "misses" -> misses [] f = "max_combo" -> 1
          [] OTHER -> 0]
MCStateCalls == {ScoreState(2, 1, 1, 0, 0), ScoreState(1, 1, 0, 2, 0), ScoreState(1, 1, 0, 0, 1)}

MCAccCalls == {29, 44, 60}

MCSettingCalls ==
    {<<"lazer", FALSE>>, <<"mods", "classic">>, <<"passed_objects", 1>>,
     <<"clock_rate", 20000>>}

MCDiffCalls ==
    {[NewDifficulty EXCEPT !.passed_objects = 2, !.mods = "accurate",
                           !.ar = [value |-> 25, with_mods |-> FALSE]]}
=============================================================================
