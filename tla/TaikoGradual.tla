----------------------------- MODULE TaikoGradual -----------------------------
(***************************************************************************)
(* TaikoGradualDifficulty and TaikoGradualPerformance: the iterator that   *)
(* hands out the difficulty attributes of an osu!taiko map hit by hit.     *)
(*                                                                         *)
(* Only circles are hits; drumrolls and swells are objects without a hit.  *)
(* A difficulty object needs the two objects before its own, so the first  *)
(* two objects have none, and the iterator counts those two by themselves. *)
(* A skill is the sequence of difficulty objects it was given.             *)
(***************************************************************************)
EXTENDS RustStd, FiniteSets

CONSTANTS
    Maps,       \* the osu!taiko maps considered: is_hit of every object
    NthArgs,    \* the arguments given to nth
    USizeMax    \* usize::MAX: what last gives to nth, and where len() wraps

MapsAssumption == Maps \subseteq Seq(BOOLEAN)
ArgsAssumption == NthArgs \subseteq Nat /\ {0, USizeMax} \subseteq NthArgs

VARIABLES
    objs,   \* is_hit of every object of the converted map
    it,     \* the struct: idx, max_combo, skills and the position of
            \* diff_objects_iter
    ret     \* Option returned by the last call: <<>> None, <<x>> Some(x)

vars == <<objs, it, ret>>

Skills == {"rhythm", "reading", "color", "stamina", "single_color_stamina"}

\* Difficulty object d (from 1) belongs to object d + 2.
NDiffObjects == SatSub(Len(objs), 2)

HitsIn(J) == {j \in J : objs[j]}

TotalHits == Cardinality(HitsIn(DOMAIN objs))

FirstTwoCombos ==
    LET first  == Len(objs) >= 1 /\ objs[1]
        second == Len(objs) >= 2 /\ objs[2]
    IN  CASE first /\ second   -> "Both"
          [] first /\ ~second  -> "OnlyFirst"
          [] ~first /\ second  -> "OnlySecond"
          [] ~first /\ ~second -> "None"

\* The skills given difficulty objects from .. to, in order.
Process(skills, from, to) ==
    [s \in Skills |-> skills[s] \o [i \in 1 .. to + 1 - from |-> from - 1 + i]]

FreshSkills == [s \in Skills |-> <<>>]

\* eval works on clones of the attributes and the skills.
Eval(s) == [max_combo |-> s.max_combo, rated |-> s.skills]

------------------------------------------------------------------------------
(* The ordinary calculation *)

\* The objects inspected while max_combo < take.
Prefix(take) == {j \in DOMAIN objs : Cardinality(HitsIn(1 .. j - 1)) < take}

\* Difficulty::passed_objects(take).calculate(map).  The number of difficulty
\* objects to process is lowered once for each of the first two objects, but a
\* map of fewer than two objects returns before the first of these steps.
Calculate(take) ==
    LET inspected == Cardinality(Prefix(take))
        created   == IF Len(objs) >= 2 /\ take > 0 THEN SatSub(inspected, 1)
                                                    ELSE inspected
    IN  [max_combo |-> Cardinality(HitsIn(Prefix(take))),
         rated     |-> Process(FreshSkills, 1,
                               MinOf(SatSub(created, 1), NDiffObjects))]

------------------------------------------------------------------------------
(* The iterator *)

\* ExactSizeIterator::len, an unchecked usize subtraction
RemainingLen(s) == (TotalHits - s.idx) % (USizeMax + 1)

Init ==
    /\ objs \in Maps
    /\ it = [idx |-> 0, max_combo |-> 0, skills |-> FreshSkills, cursor |-> 0]
    /\ ret = <<>>

\* The difficulty objects ahead of diff_objects_iter that are hits.
HitsAhead(s) == {d \in s.cursor + 1 .. NDiffObjects : objs[d + 2]}

\* Reading that runs one past the end when no hit is left.
ReadHits_PastEnd(s, k) ==
    LET ahead  == HitsAhead(s)
        passed == MinOf(k, Cardinality(ahead))
        stop   == IF k = 0 THEN s.cursor
                  ELSE IF passed < k THEN NDiffObjects + 1
                  ELSE CHOOSE d \in ahead : Cardinality({e \in ahead : e <= d}) = k
    IN  [s EXCEPT !.max_combo = @ + passed,
                  !.cursor    = stop,
                  !.skills    = Process(@, s.cursor + 1, stop)]

\* k rounds of the loop that processes difficulty objects up to the next hit.
\* Where fewer than k hits are ahead, the rest of the objects is processed and
\* the iterator is at its end.
ReadHits(s, k) ==
    LET ahead  == HitsAhead(s)
        passed == MinOf(k, Cardinality(ahead))
        stop   == IF k = 0 THEN s.cursor
                  ELSE IF passed < k THEN NDiffObjects
                  ELSE CHOOSE d \in ahead : Cardinality({e \in ahead : e <= d}) = k
    IN  [s EXCEPT !.max_combo = @ + passed,
                  !.cursor    = stop,
                  !.skills    = Process(@, s.cursor + 1, stop)]

\* A combo that forgets the first hit of a map that starts with two.
ComboAfter_Off(s) ==
    CASE FirstTwoCombos = "OnlyFirst" -> 1
      [] FirstTwoCombos = "OnlySecond" /\ s.idx = 1 -> 1
      [] FirstTwoCombos = "Both" -> 1
      [] OTHER -> s.max_combo

\* max_combo after passing the object idx, the first or the second one
ComboAfter(s) ==
    CASE FirstTwoCombos = "OnlyFirst" -> 1
      [] FirstTwoCombos = "OnlySecond" /\ s.idx = 1 -> 1
      [] FirstTwoCombos = "Both" -> s.idx + 1
      [] OTHER -> s.max_combo

\* One of the first two objects that moves on only if it is a hit.
PassFirst_HitsOnly(s) ==
    [s EXCEPT !.max_combo = ComboAfter(s), !.idx = IF objs[s.idx + 1] THEN @ + 1 ELSE @]

PassFirst(s) == [s EXCEPT !.max_combo = ComboAfter(s), !.idx = @ + 1]

\* next on the struct s
NextFrom(s) ==
    \/ /\ s.idx >= 2 /\ HitsAhead(s) # {}
       /\ it' = [ReadHits(s, 1) EXCEPT !.idx = @ + 1]
       /\ ret' = <<Eval(it')>>
    \/ /\ s.idx >= 2 /\ HitsAhead(s) = {}
       /\ it' = ReadHits(s, 1)
       /\ ret' = <<>>
    \/ /\ s.idx < 2 /\ NDiffObjects > 0
       /\ it' = PassFirst(s)
       /\ ret' = <<Eval(it')>>
    \/ /\ s.idx < 2 /\ NDiffObjects = 0
       /\ it' = s
       /\ ret' = <<>>

\* How many of the first two objects nth passes before its loop.
SkippedFirst(s, wanted) == IF s.idx >= 2 THEN 0 ELSE MinOf(wanted, 2 - s.idx)

\* nth's own three cases for the first two objects: they end where that many
\* calls of next would.
SkipFirst(s, passed) ==
    CASE passed = 0 -> s
      [] passed = 1 -> PassFirst(s)
      [] passed = 2 -> PassFirst(PassFirst(s))

\* How many items nth passes over: n, but at most all but the last.
Wanted(s, n) == MinOf(n, SatSub(RemainingLen(s), 1))

\* An nth that counts a hit before it looks for it.
NthFrom_CountFirst(s, n) ==
    LET first == SkippedFirst(s, Wanted(s, n))
        take  == Wanted(s, n) - first
        begun == SkipFirst(s, first)
        hits  == MinOf(take, Cardinality(HitsAhead(begun)))
        read  == [ReadHits(begun, take) EXCEPT !.idx = @ + MinOf(hits + 1, take)]
    IN  \/ hits = take /\ NextFrom(read)
        \/ hits < take /\ it' = read /\ ret' = <<>>

\* nth on the struct s.  A round of its loop that finds no hit any more makes
\* nth return None at once, without the call of next.
NthFrom(s, n) ==
    LET first == SkippedFirst(s, Wanted(s, n))
        take  == Wanted(s, n) - first
        begun == SkipFirst(s, first)
        hits  == MinOf(take, Cardinality(HitsAhead(begun)))
        read  == [ReadHits(begun, take) EXCEPT !.idx = @ + hits]
    IN  \/ hits = take /\ NextFrom(read)
        \/ hits < take /\ it' = read /\ ret' = <<>>

\* Iterator::next
NextCall == NextFrom(it) /\ UNCHANGED objs

\* Iterator::nth, TaikoGradualPerformance::nth, and
\* TaikoGradualPerformance::next with n = 0
NthCall(n) == NthFrom(it, n) /\ UNCHANGED objs

\* TaikoGradualPerformance::last
LastCall == NthCall(USizeMax)

Next ==
    \/ NextCall
    \/ \E n \in NthArgs : NthCall(n)
    \/ LastCall

Spec == Init /\ [][Next]_vars

------------------------------------------------------------------------------
(* Properties *)

Values == [max_combo : Nat, rated : [Skills -> Seq(Nat)]]

\* The fields of the struct and the returned value have their types.
TypeOK ==
    /\ objs \in Maps
    /\ it \in [idx : Nat, max_combo : Nat, skills : [Skills -> Seq(Nat)],
               cursor : 0 .. NDiffObjects]
    /\ ret \in Seq(Values) /\ Len(ret) <= 1

\* How many items the calls of next on s will still return: one for each of the
\* first two objects that is not passed, be it a hit or not, and one for every
\* hit ahead.
ItemsToCome(s) ==
    (IF NDiffObjects > 0 THEN SatSub(2, s.idx) ELSE 0) + Cardinality(HitsAhead(s))

\* Each of the five skills saw the difficulty objects up to the position of
\* diff_objects_iter, each once and in order, on every map.
SkillsInStep == it.skills = Process(FreshSkills, 1, it.cursor)

\* max_combo is the number of hits among the objects passed so far, on every
\* map: the special treatment of the first two objects by next and by the
\* three cases of nth neither forgets nor repeats a hit.
ComboCountsHits ==
    it.max_combo = Cardinality(HitsIn(1 .. IF it.idx < 2 THEN it.idx ELSE it.cursor + 2))
=============================================================================
