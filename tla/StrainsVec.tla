------------------------------ MODULE StrainsVec ------------------------------
(***************************************************************************)
(* StrainsVec, the list of strain peaks: a run of zeros is one entry that  *)
(* holds how many there are.  An entry is a union of a positive f64 and a  *)
(* count, told apart by the sign bit.                                      *)
(***************************************************************************)
EXTENDS Integers, Sequences, SequencesExt

CONSTANTS
    Values,     \* the strain values pushed, 0 among them
    MaxLen      \* bound: how many values are pushed

ASSUME ValuesAssumption == Values \subseteq Nat /\ MaxLen \in Nat

VARIABLE vec    \* the struct: inner, len and, in debug builds, has_zero

Entry(zero, n) == [zero |-> zero, n |-> n]

Empty == [inner |-> <<>>, len |-> 0, has_zero |-> FALSE]

\* A push whose new entry of zeros holds none yet.
Pushed_EmptyRun(v, x) ==
    LET size == Len(v.inner)
    IN  CASE x > 0 -> [v EXCEPT !.inner = Append(@, Entry(FALSE, x)), !.len = @ + 1]
          [] x = 0 /\ size > 0 /\ v.inner[size].zero ->
                [v EXCEPT !.inner[size].n = @ + 1, !.len = @ + 1]
          [] OTHER -> [v EXCEPT !.inner = Append(@, Entry(TRUE, 0)), !.len = @ + 1,
                                !.has_zero = TRUE]

\* A push that starts a new run for every zero.
Pushed_NoRuns(v, x) ==
    [v EXCEPT !.inner    = Append(@, IF x > 0 THEN Entry(FALSE, x) ELSE Entry(TRUE, 1)),
              !.len      = @ + 1,
              !.has_zero = @ \/ x = 0]

\* push: a value, one zero more in the last run, or a new run
Pushed(v, x) ==
    LET size == Len(v.inner)
    IN  CASE x > 0 -> [v EXCEPT !.inner = Append(@, Entry(FALSE, x)), !.len = @ + 1]
          [] x = 0 /\ size > 0 /\ v.inner[size].zero ->
                [v EXCEPT !.inner[size].n = @ + 1, !.len = @ + 1]
          [] OTHER -> [v EXCEPT !.inner = Append(@, Entry(TRUE, 1)), !.len = @ + 1,
                                !.has_zero = TRUE]

\* retain_non_zero; len stays what it was.
WithoutZeros(v) ==
    [v EXCEPT !.inner = FlattenSeq([i \in DOMAIN @ |-> IF @[i].zero THEN <<>> ELSE <<@[i]>>]),
              !.has_zero = FALSE]

\* A sort from the lowest to the highest value.
Sorted_Ascending(v) == [v EXCEPT !.inner = SortSeq(@, LAMBDA a, b : a.n < b.n)]

\* An entry put into a list that falls, behind those that are not lower
Inserted(s, e) == InsertAt(s, Cardinality({i \in DOMAIN s : s[i].n >= e.n}) + 1, e)

\* The entries from the highest to the lowest
Falling(s) ==
    LET falling[i \in 0 .. Len(s)] ==
            IF i = 0 THEN <<>> ELSE Inserted(falling[i - 1], s[i])
    IN  falling[Len(s)]

\* sort_desc
Sorted(v) == [v EXCEPT !.inner = Falling(@)]

\* The values that an entry stands for
Written(e) == IF e.zero THEN [j \in 1 .. e.n |-> 0] ELSE <<e.n>>

\* into_vec: every value, and every run of zeros written out
IntoVec(v) == FlattenSeq([i \in DOMAIN v.inner |-> Written(v.inner[i])])

\* transmute_into_vec reads the bits of every entry as those of a value.
TransmuteIntoVec(v) == [i \in DOMAIN v.inner |-> v.inner[i].n]

Init == vec = Empty

Push(x) ==
    /\ vec.len < MaxLen
    /\ vec' = Pushed(vec, x)

RetainNonZero == vec' = WithoutZeros(vec)

\* The debug assertion of sort_desc
SortDesc ==
    /\ ~vec.has_zero
    /\ vec' = Sorted(vec)

\* retain_non_zero_and_sort, and the sorting part of sorted_non_zero_iter_mut
RetainNonZeroAndSort == vec' = Sorted(WithoutZeros(vec))

Next ==
    \/ \E x \in Values : Push(x)
    \/ RetainNonZero
    \/ SortDesc
    \/ RetainNonZeroAndSort

Spec == Init /\ [][Next]_vec

------------------------------------------------------------------------------
(* Properties *)

\* Two runs of zeros never lie next to each other, whatever was removed between
\* them.
Compact == \A i \in 1 .. Len(vec.inner) - 1 : ~(vec.inner[i].zero /\ vec.inner[i + 1].zero)

\* The flag of the debug builds is set just while there is a zero.
FlagTellsZeros == vec.has_zero <=> \E i \in DOMAIN vec.inner : vec.inner[i].zero

\* The representation: positive values and runs of at least one zero.  The runs
\* never lie next to each other, so that a map with long breaks costs one entry
\* per break and not one per section; and the flag that guards sort_desc tells
\* the truth, so that the sort compares values only and transmute_into_vec,
\* whose callers sort first, never reads a count as a value.
TypeOK ==
    /\ vec \in [inner : Seq([zero : BOOLEAN, n : Nat \ {0}]), len : Nat, has_zero : BOOLEAN]
    /\ Compact
    /\ FlagTellsZeros

\* The compact list looks like the plain one of the feature raw_strains after
\* every sequence of calls.
Plain == INSTANCE RawStrainsVec WITH inner <- IntoVec(vec)

IsRawStrainsVec == Plain!Spec
=============================================================================
