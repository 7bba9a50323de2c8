----------------------------- MODULE MCAnyGradual -----------------------------
(***************************************************************************)
(* Model checking AnyGradual on every map of a few objects of each mode.   *)
(***************************************************************************)
EXTENDS AnyGradual, SequencesExt

CONSTANTS MaxOsu, MaxTaiko, MaxCatch, MaxMania  \* the lengths of the maps

SeqsUpTo(S, n) == UNION {[1 .. k -> S] : k \in 0 .. n}

\* osu!: a circle, a spinner, a slider with its tail only, and one with a tick
\* and a repeat
Plain(kind) == [kind |-> kind, nested |-> 0, large_ticks |-> 0]
SliderWith(large) == [kind |-> "slider", nested |-> large + 1, large_ticks |-> large]

MCOsuMaps ==
    SeqsUpTo({Plain("circle"), Plain("spinner"), SliderWith(0), SliderWith(2)}, MaxOsu)

\* osu!taiko: whether each object is a hit
MCTaikoMaps == SeqsUpTo(BOOLEAN, MaxTaiko)
DrumrollFirst == {<<FALSE, TRUE, TRUE, TRUE>>}

\* osu!catch: a circle; a spinner, whose bananas are not recorded; a juice
\* stream of head and tail with tiny droplets in between; one with a droplet
\* and a repeat.  A stream records the tiny droplets (maybe 0) before every
\* event but its head, and those before the last tick, which is no object,
\* apart from those before its tail.
Fruit == [kind |-> "fruit", n |-> 0]
Droplet == [kind |-> "droplet", n |-> 0]
Tiny(n) == [kind |-> "tiny", n |-> n]

HitObjects == {
    <<Fruit>>,
    <<>>,
    <<Fruit, Tiny(2), Tiny(0), Fruit>>,
    <<Fruit, Tiny(1), Droplet, Tiny(0), Fruit, Tiny(2), Tiny(0), Fruit>> }

MCCatchMaps == {FlattenSeq(m) : m \in SeqsUpTo(HitObjects, MaxCatch)}

\* osu!mania: notes on which the three expressions for the ticks agree, which
\* they always do at clock rate 1, among them two long notes
Circle == [is_circle |-> TRUE, combo |-> 0, raw_combo |-> 0, scaled_combo |-> 0]
Hold(n, scaled) ==
    [is_circle |-> FALSE, combo |-> n, raw_combo |-> n, scaled_combo |-> scaled]

MCManiaMaps == SeqsUpTo({Circle, Hold(0, 0), Hold(2, 2)}, MaxMania)

\* The long note from 98 ms to 198 ms with clock rate 1.1:
\* trunc((198 / 1.1 * 1.1 - 98 / 1.1 * 1.1) / 100) is 0 in f64 and not 1.
RoundedMaps == {<<Circle, Hold(1, 0)>>}

\* Up to more than the items of a map, and usize::MAX, the default of
\* passed_objects and the argument of last
MCTakes == 0 .. MaxMania + 1 \cup {1000}
MCNthArgs == 0 .. 7 \cup {1000}
=============================================================================
