----------------------------- MODULE ManiaGradual -----------------------------
(***************************************************************************)
(* ManiaGradualDifficulty and ManiaGradualPerformance: the iterator that   *)
(* hands out the difficulty attributes of an osu!mania map object by       *)
(* object.  It is the one iterator that obeys passed_objects: only the     *)
(* first passed_objects objects get difficulty objects.                    *)
(*                                                                         *)
(* A long note adds its duration in tenths of a second to the combo, in    *)
(* whole numbers.  Three expressions compute this number: from the         *)
(* duration itself (ManiaObject::new), from end - start for the first      *)
(* object, and from the times divided by the clock rate and multiplied by  *)
(* it again.  Over the reals they agree; in floating point the last one    *)
(* can round below a whole number, so a note carries each of the three.    *)
(***************************************************************************)
EXTENDS RustStd

CONSTANTS
    Maps,       \* the osu!mania maps considered, as sequences of objects
    Takes,      \* the values of Difficulty::passed_objects
    NthArgs,    \* the arguments given to nth
    USizeMax    \* usize::MAX, the argument that last gives to nth

Object == [is_circle : BOOLEAN, combo : Nat, raw_combo : Nat, scaled_combo : Nat]

MapsAssumption == Maps \subseteq Seq(Object)
ArgsAssumption ==
    NthArgs \subseteq Nat /\ {0, USizeMax} \subseteq NthArgs /\ Takes \subseteq Nat

VARIABLES
    objs,   \* the hit objects of the converted map
    take,   \* passed_objects of the Difficulty the iterator was made with
    it,     \* the struct: idx, note_state and strain
    ret     \* Option returned by the last call: <<>> None, <<x>> Some(x)

vars == <<objs, take, it, ret>>

\* create_difficulty_objects on the first take objects, without the very first
NDiffObjects == SatSub(MinOf(take, Len(objs)), 1)

HoldNotes(J) == {j \in J : ~objs[j].is_circle}

\* The ticks of the long notes of J by one of the three expressions
Ticks(J, expression) ==
    TotalOf([j \in DOMAIN objs |-> objs[j][expression]], HoldNotes(J))

\* increment_combo_raw for every object of J, and likewise the counting in
\* ManiaObject::new
Count(state, J, expression) ==
    [curr_combo   |-> state.curr_combo + Cardinality(J) + Ticks(J, expression),
     n_hold_notes |-> state.n_hold_notes + Cardinality(HoldNotes(J))]

ZeroNotes == [curr_combo |-> 0, n_hold_notes |-> 0]

\* The strain skill given difficulty objects from .. to, in order.
Process(strain, from, to) == strain \o [i \in 1 .. to + 1 - from |-> from - 1 + i]

Attrs(n_objects, notes, strain) ==
    [n_objects |-> n_objects, notes |-> notes, rated |-> strain]

\* Difficulty::passed_objects(limit).calculate(map)
Calculate(limit) ==
    LET passed == MinOf(limit, Len(objs))
    IN  Attrs(passed, Count(ZeroNotes, 1 .. passed, "combo"),
              Process(<<>>, 1, SatSub(passed, 1)))

------------------------------------------------------------------------------
(* The iterator *)

\* A length that takes all objects of the map for items.
RemainingLen_WholeMap(s) == MaxOf(Len(objs), 1) - s.idx

\* ExactSizeIterator::len
RemainingLen(s) == NDiffObjects + 1 - s.idx

\* The first object of the map is counted here, before any call.
Init ==
    /\ objs \in Maps
    /\ take \in Takes
    /\ it = [idx |-> 0, notes |-> Count(ZeroNotes, 1 .. MinOf(1, Len(objs)), "raw_combo"),
             strain |-> <<>>]
    /\ ret = <<>>

\* Whether next finds an object: diff_objects.get(idx - 1), or, on the first
\* call, any object of the map at all.
HasNext(s) == IF s.idx > 0 THEN s.idx <= NDiffObjects ELSE objs # <<>>

\* Process difficulty objects from .. to and count the objects they belong to.
Consume(s, from, to) ==
    [s EXCEPT !.strain = Process(@, from, to),
              !.notes  = Count(@, from + 1 .. to + 1, "scaled_combo")]

Advanced(s) == [(IF s.idx > 0 THEN Consume(s, s.idx, s.idx) ELSE s) EXCEPT !.idx = @ + 1]

\* next on the struct s
NextFrom(s) ==
    \/ /\ HasNext(s)
       /\ it' = Advanced(s)
       /\ ret' = <<Attrs(it'.idx, it'.notes, it'.strain)>>
    \/ /\ ~HasNext(s)
       /\ it' = s
       /\ ret' = <<>>

\* A skip whose first object also takes a difficulty object with it.
Skipped_FirstTwice(s, n) ==
    LET start   == SatSub(s.idx, 1)
        wanted  == MinOf(n, SatSub(RemainingLen(s), 1))
        isFirst == s.idx = 0 /\ wanted > 0
        stop    == MinOf(start + wanted, NDiffObjects)
    IN  [Consume(s, start + 1, stop) EXCEPT
            !.idx = @ + (stop - start) + (IF isFirst THEN 1 ELSE 0)]

\* The part of nth before its call of next.
Skipped(s, n) ==
    LET start   == SatSub(s.idx, 1)
        wanted  == MinOf(n, SatSub(RemainingLen(s), 1))
        isFirst == s.idx = 0 /\ wanted > 0
        stop    == MinOf(start + (IF isFirst THEN wanted - 1 ELSE wanted), NDiffObjects)
    IN  [Consume(s, start + 1, stop) EXCEPT
            !.idx = @ + (stop - start) + (IF isFirst THEN 1 ELSE 0)]

\* Iterator::next
NextCall == NextFrom(it) /\ UNCHANGED <<objs, take>>

\* Iterator::nth, ManiaGradualPerformance::nth, and
\* ManiaGradualPerformance::next with n = 0
NthCall(n) == NextFrom(Skipped(it, n)) /\ UNCHANGED <<objs, take>>

\* ManiaGradualPerformance::last
LastCall == NthCall(USizeMax)

Next ==
    \/ NextCall
    \/ \E n \in NthArgs : NthCall(n)
    \/ LastCall

Spec == Init /\ [][Next]_vars

------------------------------------------------------------------------------
(* Properties *)

Notes == [curr_combo : Nat, n_hold_notes : Nat]

\* The fields of the struct and the returned value have their types.
TypeOK ==
    /\ objs \in Maps /\ take \in Takes
    /\ it \in [idx : 0 .. Len(objs), notes : Notes, strain : Seq(Nat)]
    /\ ret \in Seq([n_objects : 0 .. Len(objs), notes : Notes, rated : Seq(Nat)])
    /\ Len(ret) <= 1

\* How many items the calls of next on s will still return: it has one at every
\* position that it finds something at.
ItemsToCome(s) == Cardinality({k \in s.idx .. Len(objs) : HasNext([s EXCEPT !.idx = k])})

\* How many items there are: passed_objects limits them, but the first object
\* of a map is always returned.
NItems == IF objs = <<>> THEN 0 ELSE NDiffObjects + 1

\* The strain skill saw the difficulty objects up to idx, each once and in
\* order, and the long notes counted are those up to idx; the first note is
\* counted before any call.
StrainInStep ==
    /\ it.strain = Process(<<>>, 1, SatSub(it.idx, 1))
    /\ it.notes.n_hold_notes =
            Cardinality(HoldNotes(1 .. MinOf(MaxOf(it.idx, 1), Len(objs))))
=============================================================================
