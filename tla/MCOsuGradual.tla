----------------------------- MODULE MCOsuGradual -----------------------------
(***************************************************************************)
(* Model checking OsuGradual on every map of at most MaxObjects objects.   *)
(***************************************************************************)
EXTENDS OsuGradual

CONSTANT MaxObjects

Plain(kind) == [kind |-> kind, nested |-> 0, large_ticks |-> 0]
SliderWith(large) == [kind |-> "slider", nested |-> large + 1, large_ticks |-> large]

\* A slider with its tail only, and one with a tick and a repeat.
ObjectKinds == {Plain("circle"), Plain("spinner"), SliderWith(0), SliderWith(2)}

MCMaps == UNION {[1 .. n -> ObjectKinds] : n \in 0 .. MaxObjects}

MCNthArgs == 0 .. MaxObjects + 1 \cup {1000}
=============================================================================
