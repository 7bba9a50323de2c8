----------------------------- MODULE CatchGradual -----------------------------
(***************************************************************************)
(* CatchGradualDifficulty and CatchGradualPerformance: the iterator that   *)
(* hands out the difficulty attributes of an osu!catch map, one palpable   *)
(* object (fruit or droplet) after the other.                              *)
(*                                                                         *)
(* While a map is converted, every fruit, droplet and group of tiny        *)
(* droplets is recorded in an ObjectCountBuilder, which counts the first   *)
(* passed_objects palpable objects for the ordinary calculation and lists  *)
(* one delta per palpable object for the iterator.  Tiny droplets are no   *)
(* items of their own: they belong to the palpable object after them.      *)
(***************************************************************************)
EXTENDS RustStd

CONSTANTS
    Maps,       \* the maps considered, as what is recorded while converting them
    NthArgs,    \* the arguments given to nth
    USizeMax    \* usize::MAX, the argument that last gives to nth

Event == [kind : {"fruit", "droplet", "tiny"}, n : Nat]

\* A hit object records nothing, or a fruit at its end: a circle its only one,
\* a juice stream that of its tail.
MapsAssumption ==
    /\ Maps \subseteq Seq(Event)
    /\ \A m \in Maps : m # <<>> => m[Len(m)].kind = "fruit"
ArgsAssumption == NthArgs \subseteq Nat /\ {0, USizeMax} \subseteq NthArgs

VARIABLES
    objs,   \* what convert_objects records, hit object after hit object
    it,     \* the struct: idx, attrs, count and movement
    ret     \* Option returned by the last call: <<>> None, <<x>> Some(x)

vars == <<objs, it, ret>>

Palpable(J) == {j \in J : objs[j].kind # "tiny"}

NPalpable == Cardinality(Palpable(DOMAIN objs))

\* How many palpable objects are recorded before event j.
Before(j) == Cardinality(Palpable(1 .. j - 1))

------------------------------------------------------------------------------
(* ObjectCountBuilder *)

FruitEvents(J) == {j \in J : objs[j].kind = "fruit"}

DropletEvents(J) == {j \in J : objs[j].kind = "droplet"}

\* The tiny droplets recorded by the events of J.
TinyDroplets(J) ==
    TotalOf([j \in DOMAIN objs |-> objs[j].n], {j \in J : objs[j].kind = "tiny"})

\* The events Regular counts: take is lowered by every palpable object, and
\* once it is 0 nothing is recorded any more.
Recorded(take) == {j \in DOMAIN objs : Before(j) < take}

RegularCount(take) ==
    [fruits   |-> Cardinality(FruitEvents(Recorded(take))),
     droplets |-> Cardinality(DropletEvents(Recorded(take))),
     tiny     |-> TinyDroplets(Recorded(take))]

\* The events behind delta k of Gradual: the k-th palpable object takes with it
\* what was recorded since the one before.
Delta(k) == {j \in DOMAIN objs : Before(j) = k - 1}

GradualCounts ==
    [k \in 1 .. NPalpable |-> [fruit |-> FruitEvents(Delta(k)) # {},
                               tiny  |-> TinyDroplets(Delta(k))]]

ZeroCount == [fruits |-> 0, droplets |-> 0, tiny |-> 0]

FruitsOf(count, J) == {j \in J : count[j].fruit}

TinyOf(count, J) == TotalOf([j \in DOMAIN count |-> count[j].tiny], J)

\* add_object_count for every delta count[j], j \in J
AddObjectCounts(attrs, count, J) ==
    [fruits   |-> attrs.fruits + Cardinality(FruitsOf(count, J)),
     droplets |-> attrs.droplets + Cardinality(J \ FruitsOf(count, J)),
     tiny     |-> attrs.tiny + TinyOf(count, J)]

------------------------------------------------------------------------------
(* The ordinary calculation *)

\* The first palpable object has no difficulty object.
NDiffObjects == SatSub(NPalpable, 1)

\* The movement skill given difficulty objects from .. to, in order.
Process(movement, from, to) ==
    movement \o [i \in 1 .. to + 1 - from |-> from - 1 + i]

Attrs(counts, movement) == [counts |-> counts, rated |-> movement]

\* Difficulty::passed_objects(take).calculate(map): difficulty objects are
\* created for the first take palpable objects only, and all of them processed.
Calculate(take) ==
    Attrs(RegularCount(take), Process(<<>>, 1, SatSub(MinOf(take, NPalpable), 1)))

------------------------------------------------------------------------------
(* The iterator *)

\* ExactSizeIterator::len
RemainingLen(s) == NDiffObjects + 1 - s.idx

Init ==
    /\ objs \in Maps
    /\ it = [idx |-> 0, counts |-> ZeroCount, count |-> GradualCounts, movement |-> <<>>]
    /\ ret = <<>>

\* Whether next finds an object: diff_objects.get(idx - 1), or, on the first
\* call, any palpable object at all.
HasNext(s) == IF s.idx > 0 THEN s.idx <= NDiffObjects ELSE s.count # <<>>

\* Process difficulty objects from .. to and count the palpable objects they
\* belong to: difficulty object d belongs to palpable object d + 1.
Consume(s, from, to) ==
    [s EXCEPT !.movement = Process(@, from, to),
              !.counts   = AddObjectCounts(@, s.count, from + 1 .. to + 1)]

\* The first palpable object is counted when it is passed.
CountFirst(s) == [s EXCEPT !.counts = AddObjectCounts(@, s.count, {1})]

Advanced(s) ==
    [(IF s.idx > 0 THEN Consume(s, s.idx, s.idx) ELSE CountFirst(s)) EXCEPT !.idx = @ + 1]

\* next on the struct s
NextFrom(s) ==
    \/ /\ HasNext(s)
       /\ it' = Advanced(s)
       /\ ret' = <<Attrs(it'.counts, it'.movement)>>
    \/ /\ ~HasNext(s)
       /\ it' = s
       /\ ret' = <<>>

\* The part of nth before its call of next: the first palpable object is only
\* counted, every further one is also processed.
Skipped(s, n) ==
    LET start   == SatSub(s.idx, 1)
        wanted  == MinOf(n, SatSub(RemainingLen(s), 1))
        isFirst == s.idx = 0 /\ wanted > 0
        stop    == MinOf(start + (IF isFirst THEN wanted - 1 ELSE wanted), NDiffObjects)
        begun   == IF isFirst THEN CountFirst(s) ELSE s
    IN  [Consume(begun, start + 1, stop) EXCEPT
            !.idx = @ + (stop - start) + (IF isFirst THEN 1 ELSE 0)]

\* Iterator::next
NextCall == NextFrom(it) /\ UNCHANGED objs

\* Iterator::nth, CatchGradualPerformance::nth, and
\* CatchGradualPerformance::next with n = 0
NthCall(n) == NextFrom(Skipped(it, n)) /\ UNCHANGED objs

\* CatchGradualPerformance::last
LastCall == NthCall(USizeMax)

Next ==
    \/ NextCall
    \/ \E n \in NthArgs : NthCall(n)
    \/ LastCall

Spec == Init /\ [][Next]_vars

------------------------------------------------------------------------------
(* Properties *)

Counts == [fruits : Nat, droplets : Nat, tiny : Nat]

\* The fields of the struct and the returned value have their types, and there
\* is a delta for every palpable object that idx can reach.
TypeOK ==
    /\ objs \in Maps
    /\ it \in [idx : 0 .. NPalpable, counts : Counts, movement : Seq(Nat),
               count : Seq([fruit : BOOLEAN, tiny : Nat])]
    /\ Len(it.count) = NPalpable
    /\ ret \in Seq([counts : Counts, rated : Seq(Nat)]) /\ Len(ret) <= 1

\* How many items the calls of next on s will still return: it has one at every
\* position that it finds something at.
ItemsToCome(s) ==
    Cardinality({k \in s.idx .. Len(s.count) : HasNext([s EXCEPT !.idx = k])})

\* The tiny droplets of the deltas that are still to come and those counted
\* already add up to those of the whole map: none is lost between two objects,
\* counted twice, or left over behind the last one.
TinyDropletsKept ==
    AddObjectCounts(it.counts, it.count, it.idx + 1 .. Len(it.count))
        = RegularCount(Len(objs))
=============================================================================
