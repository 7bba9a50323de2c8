---------------------------- MODULE MCConversions ----------------------------
(***************************************************************************)
(* Maps of a few objects: for the stacking, circles, sliders with and      *)
(* without a repeat and spinners at four places, each near the next but    *)
(* not near the one behind that; for osu!taiko, sliders of different       *)
(* lengths and velocities between effect points.  Long sliders have enough *)
(* nested objects for the introsort to partition them.  osu!taiko maps     *)
(* have notes of both types and drum rolls at steady and changing          *)
(* intervals.                                                              *)
(***************************************************************************)
EXTENDS Conversions

Places == {<<0, 0>>, <<2, 1>>, <<4, 2>>, <<100, 50>>}

At(kind, pos) ==
    [kind |-> kind, pos |-> pos, start_time |-> 0, duration |-> 0, slider |-> None]

SliderFrom(pos, delta, len, spans, node_sounds) ==
    [At("slider", pos) EXCEPT
        !.slider = [len |-> len, span_count |-> spans, node_sounds |-> node_sounds,
                    delta |-> delta]]

\* Sliders of 200 ms or 400 ms, and one of 100 ms whose end is near its begin
StackObjects ==
    {At("circle", pos) : pos \in Places}
        \cup {SliderFrom(<<0, 0>>, <<100, 50>>, 50, spans, <<>>) : spans \in 1 .. 2}
        \cup {SliderFrom(<<100, 50>>, <<-98, -49>>, 25, 1, <<>>)}
        \cup {At("spinner", <<0, 0>>)}

MCStackThreshold == 500

\* The next object is within reach at 250 ms and 400 ms, the next but one at
\* 250 ms, none at 600 ms.
StackTimes == {<<0, 250, 500, 750>>} \cup
    {<<0, a, a + b>> : a \in {0, 400, 600}, b \in {400, 600}}

StackMaps ==
    [mode |-> "osu", versions |-> {5, 14},
     objects |-> UNION {[1 .. n -> StackObjects] : n \in 3 .. 4},
     sounds |-> {<<1, 2, 3, 4>>}, times |-> StackTimes,
     difficulty_points |-> {<<>>}, effect_points |-> {<<>>}]

\* Of no length, two hits and more hits than nodes, and drum rolls
TaikoSliders ==
    {SliderFrom(<<0, 0>>, <<100, 50>>, len, spans, node_sounds) :
        len \in {0, 95, 150}, spans \in {1, 2}, node_sounds \in {<<>>, <<-1, -2>>}}

TaikoMaps ==
    [mode |-> "osu", versions |-> {7, 14},
     objects |-> [1 .. 2 -> TaikoSliders \cup
        {At("circle", <<0, 0>>), [At("hold", <<0, 0>>) EXCEPT !.duration = 100]}],
     sounds |-> {<<1, 2>>},
     times |-> {<<300, 300>>, <<300, 600>>, <<600, 900>>},
     difficulty_points |->
        {<<>>, <<NewDifficultyPoint(300, -50)>>,
         <<NewDifficultyPoint(0, -200), NewDifficultyPoint(600, -50)>>},
     effect_points |->
        {<<>>, <<NewEffectPoint(300, TRUE, 400, FALSE), NewEffectPoint(500, FALSE, 400, FALSE)>>}]

Center == 1
Rim    == 2
MCRimSounds == {Rim, -2}
MCMaxRepetitionInterval == 3

\* n objects of which at most one, and not one of the first two, is a drum roll
Notes(n) ==
    LET circles == [k \in 1 .. n |-> At("circle", <<0, 0>>)]
    IN  {circles} \cup {[circles EXCEPT ![k].kind = "spinner"] : k \in 3 .. n}

\* The times that are apart by the intervals, from 0
TimesOf(intervals) ==
    LET Time[k \in 1 .. Len(intervals) + 1] == IF k = 1 THEN 0 ELSE Time[k - 1] + intervals[k - 1]
    IN  [k \in 1 .. Len(intervals) + 1 |-> Time[k]]

TaikoNotes(n, sounds, intervals) ==
    [mode |-> "taiko", versions |-> {14}, objects |-> Notes(n),
     sounds |-> {<<Center, Center>> \o s : s \in sounds},
     times |-> {TimesOf(<<100>> \o i) : i \in intervals},
     difficulty_points |-> {<<>>}, effect_points |-> {<<>>}]

\* Eight difficulty objects of any types, some far and some close
ColorMaps ==
    TaikoNotes(10, [1 .. 8 -> {Center, Rim}],
               {<<100, 100, 100, 100, 100, 100, 100, 100>>,
                <<100, 200, 200, 100, 299, 300, 100, 200>>})

\* Six difficulty objects of one type, some of whose intervals are about the same
RhythmMaps == TaikoNotes(8, {[k \in 1 .. 6 |-> Center]}, [1 .. 6 -> {96, 100, 104, 109, 200}])

\* Sliders with up to nine nested objects, those of every other span backwards
LongSliders ==
    {SliderFrom(<<0, 0>>, <<100, 50>>, len, spans, <<>>) : len \in {210, 250, 390}, spans \in 1 .. 3}

NestedMaps ==
    [mode |-> "osu", versions |-> {5, 14}, objects |-> [1 .. 1 -> LongSliders],
     sounds |-> {<<1>>}, times |-> {<<0>>},
     difficulty_points |-> {<<>>}, effect_points |-> {<<>>}]

MCMaps == {StackMaps, NestedMaps, TaikoMaps, ColorMaps, RhythmMaps}
=============================================================================
