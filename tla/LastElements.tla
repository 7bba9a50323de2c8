----------------------------- MODULE LastElements -----------------------------
(***************************************************************************)
(* What the density of the osu!mania conversion is meant to be: it is      *)
(* taken over the times of the last N notes, from the oldest to the newest *)
(* of them, and stays what it is while there are fewer than two.           *)
(***************************************************************************)
EXTENDS Integers, Sequences

CONSTANTS N, Elem

VARIABLES
    items,      \* the last N times, the oldest first
    density     \* the two times and the number the density was taken from

vars == <<items, density>>

Init ==
    /\ items = <<>>
    /\ density = <<>>

Add(t) ==
    /\ items' = Append(IF Len(items) < N THEN items ELSE Tail(items), t)
    /\ density' = IF Len(items') >= 2
                  THEN <<items'[1], items'[Len(items')], Len(items')>>
                  ELSE density

Next == \E t \in Elem : Add(t)

Spec == Init /\ [][Next]_vars
=============================================================================
