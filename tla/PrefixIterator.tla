---------------------------- MODULE PrefixIterator ----------------------------
(***************************************************************************)
(* What every gradual calculator promises its caller.                      *)
(*                                                                         *)
(* A gradual calculator is an iterator over the results of the ordinary    *)
(* calculation on longer and longer prefixes of a map: items[k] is what    *)
(* the ordinary calculation gives for passed_objects = k.  Its owner has   *)
(* three calls: next, nth(n) and, on the performance calculators, last,    *)
(* which is nth(usize::MAX).  nth does not run off the end: when fewer     *)
(* than n + 1 items are left it stops at the last one, and only a call     *)
(* made after that returns nothing.                                        *)
(***************************************************************************)
EXTENDS RustStd

VARIABLES
    items,  \* the results of the ordinary calculation, fixed for a map
    pos,    \* how many of them the caller is past
    ret     \* Option returned by the last call: <<>> None, <<x>> Some(x)

vars == <<items, pos, ret>>

CONSTANT NthArgs    \* the natural numbers the caller gives to nth

Init ==
    /\ pos = 0
    /\ ret = <<>>

Nth(n) ==
    /\ pos < Len(items)
    /\ pos' = MinOf(pos + n + 1, Len(items))
    /\ ret' = <<items[pos']>>
    /\ UNCHANGED items

Exhausted ==
    /\ pos = Len(items)
    /\ ret' = <<>>
    /\ UNCHANGED <<items, pos>>

Next == Exhausted \/ \E n \in NthArgs : Nth(n)

Spec == Init /\ [][Next]_vars
=============================================================================
