---------------------------- MODULE RawStrainsVec ----------------------------
(***************************************************************************)
(* StrainsVec with the feature raw_strains: a plain list of all values.    *)
(* It is what the compact StrainsVec of the other builds has to look like. *)
(***************************************************************************)
EXTENDS Integers, Sequences, SequencesExt

CONSTANT Values     \* the strain values pushed, 0 among them

VARIABLE inner

Init == inner = <<>>

Push(x) == inner' = Append(inner, x)

NonZero(list) ==
    FlattenSeq([i \in DOMAIN list |-> IF list[i] > 0 THEN <<list[i]>> ELSE <<>>])

\* A value put into a list that falls, behind those that are not lower
Inserted(list, x) == InsertAt(list, Cardinality({i \in DOMAIN list : list[i] >= x}) + 1, x)

Descending(list) ==
    LET falling[i \in 0 .. Len(list)] ==
            IF i = 0 THEN <<>> ELSE Inserted(falling[i - 1], list[i])
    IN  falling[Len(list)]

RetainNonZero == inner' = NonZero(inner)

SortDesc == inner' = Descending(inner)

RetainNonZeroAndSort == inner' = Descending(NonZero(inner))

Next ==
    \/ \E x \in Values : Push(x)
    \/ RetainNonZero
    \/ SortDesc
    \/ RetainNonZeroAndSort

Spec == Init /\ [][Next]_inner
=============================================================================
