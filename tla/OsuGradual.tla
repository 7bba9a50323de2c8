------------------------------ MODULE OsuGradual ------------------------------
(***************************************************************************)
(* OsuGradualDifficulty, and OsuGradualPerformance, which adds no state to *)
(* it: the iterator that hands out the difficulty attributes of an         *)
(* osu!standard map object by object.                                      *)
(*                                                                         *)
(* The floating point numbers are left out.  A skill is the sequence of    *)
(* difficulty objects it was given, because its strains are a function of  *)
(* that sequence; the legacy score attributes are the prefix and the count *)
(* they were computed from.  Two sets of attributes are equal in the code  *)
(* when they are equal here.                                               *)
(***************************************************************************)
EXTENDS RustStd

CONSTANTS
    Maps,       \* the osu! maps considered, as sequences of objects
    NthArgs,    \* the arguments given to nth
    USizeMax    \* usize::MAX, the argument that last gives to nth

\* A slider has nested objects (ticks, repeats and its tail); its large ticks
\* are the ticks and repeats among them.
Object == [kind : {"circle", "slider", "spinner"}, nested : Nat, large_ticks : Nat]

ASSUME MapsAssumption == Maps \subseteq Seq(Object)
ASSUME ArgsAssumption == NthArgs \subseteq Nat /\ {0, USizeMax} \subseteq NthArgs

VARIABLES
    objs,   \* osu_objects, the converted objects of the map
    it,     \* the struct: idx, attrs (counts and legacy score input) and skills
    ret     \* Option returned by the last call: <<>> None, <<x>> Some(x)

vars == <<objs, it, ret>>

Skills == {"aim", "aim_no_sliders", "speed", "flashlight", "reading"}

\* The first object has no difficulty object: difficulty object d (from 1)
\* belongs to object d + 1.
NDiffObjects == SatSub(Len(objs), 1)

------------------------------------------------------------------------------
(* Counting objects *)

OfKind(kind, J) == {j \in J : objs[j].kind = kind}

NestedCount == [j \in DOMAIN objs |-> objs[j].nested]

LargeTickCount == [j \in DOMAIN objs |-> objs[j].large_ticks]

ZeroAttrs ==
    [max_combo |-> 0, n_circles |-> 0, n_sliders |-> 0, n_large_ticks |-> 0, n_spinners |-> 0]

\* increment_combo for every object of the set J; the code calls it for one
\* object after the other, and the counts do not depend on the order.
IncrementCombo(a, J) ==
    [max_combo     |-> a.max_combo + (Cardinality(J)
                                       + TotalOf(NestedCount, OfKind("slider", J))),
     n_circles     |-> a.n_circles + Cardinality(OfKind("circle", J)),
     n_sliders     |-> a.n_sliders + Cardinality(OfKind("slider", J)),
     n_large_ticks |-> a.n_large_ticks + TotalOf(LargeTickCount, OfKind("slider", J)),
     n_spinners    |-> a.n_spinners + Cardinality(OfKind("spinner", J))]

\* The skills given difficulty objects from .. to, in order.
Process(skills, from, to) ==
    [s \in Skills |-> skills[s] \o [i \in 1 .. to + 1 - from |-> from - 1 + i]]

FreshSkills == [s \in Skills |-> <<>>]

\* The legacy score attributes of a prefix of the objects and their number
ScoreOf(prefix, count) == [objects |-> prefix, count |-> count]

\* The legacy score attributes are recomputed from the first idx objects.
UpdateLegacyScoreAttributes(s) ==
    [s EXCEPT !.score = ScoreOf(s.idx, s.idx)]

\* Process difficulty objects from .. to and count the objects they belong to.
Consume(s, from, to) ==
    [s EXCEPT !.skills = Process(@, from, to),
              !.attrs  = IncrementCombo(@, from + 1 .. to + 1)]

\* eval works on a clone of the attributes and of the skills.
Eval(s) == [attrs |-> s.attrs, score |-> s.score, rated |-> s.skills]

------------------------------------------------------------------------------
(* The ordinary calculation *)

\* Difficulty::passed_objects(take).calculate(map): convert_objects counts the
\* first take objects, and the skills see one difficulty object less.
Calculate(take) ==
    LET counts == IncrementCombo(ZeroAttrs, 1 .. MinOf(take, Len(objs)))
    IN  [attrs |-> counts,
         score |-> ScoreOf(MinOf(take, Len(objs)),
                           counts.n_circles + counts.n_sliders + counts.n_spinners),
         rated |-> Process(FreshSkills, 1, SatSub(MinOf(Len(objs), take), 1))]

------------------------------------------------------------------------------
(* The iterator *)

\* A length that forgets the first object, which has no difficulty object.
RemainingLen_DiffObjects(s) == NDiffObjects - s.idx

\* ExactSizeIterator::len
RemainingLen(s) == NDiffObjects + 1 - s.idx

\* The constructor counts every object while converting, resets the counts and
\* counts the first object again; next never counts that one.
Init ==
    /\ objs \in Maps
    /\ it = [idx    |-> 0,
             attrs  |-> IncrementCombo(ZeroAttrs, 1 .. MinOf(1, Len(objs))),
             score  |-> ScoreOf(0, 0),
             skills |-> FreshSkills]
    /\ ret = <<>>

\* A next that does not ask on its first call whether there is an object.
HasNext_AnyMap(s) == s.idx <= NDiffObjects

\* Whether next finds an object: diff_objects.get(idx - 1), or, on the first
\* call, any object at all.
HasNext(s) == IF s.idx > 0 THEN s.idx <= NDiffObjects ELSE objs # <<>>

\* An advance that leaves the legacy score attributes of the last call alone.
Advanced_StaleScore(s) ==
    LET t == IF s.idx > 0 THEN Consume(s, s.idx, s.idx) ELSE s
    IN  [t EXCEPT !.idx = @ + 1]

Advanced(s) ==
    LET t == IF s.idx > 0 THEN Consume(s, s.idx, s.idx) ELSE s
    IN  UpdateLegacyScoreAttributes([t EXCEPT !.idx = @ + 1])

\* next on the struct s
NextFrom(s) ==
    \/ /\ HasNext(s)
       /\ it' = Advanced(s)
       /\ ret' = <<Eval(it')>>
    \/ /\ ~HasNext(s)
       /\ it' = s
       /\ ret' = <<>>

\* A skip that treats the first object as if it had a difficulty object.
Skipped_FirstHasDiff(s, n) ==
    LET start == SatSub(s.idx, 1)
        take  == MinOf(n, SatSub(RemainingLen(s), 1))
        stop  == MinOf(start + take, NDiffObjects)
    IN  [Consume(s, start + 1, stop) EXCEPT !.idx = @ + (stop - start)]

\* A skip that does not stop one short of the end.
Skipped_NoClamp(s, n) ==
    LET start   == SatSub(s.idx, 1)
        isFirst == s.idx = 0 /\ n > 0
        stop    == MinOf(start + (IF isFirst THEN n - 1 ELSE n), NDiffObjects)
    IN  [Consume(s, start + 1, stop) EXCEPT
            !.idx = @ + (stop - start) + (IF isFirst THEN 1 ELSE 0)]

\* The part of nth before its call of next: n objects are passed over, but at
\* most all but the last.  The first object only moves idx; every further one
\* is a difficulty object of skip_iter.take(take).
Skipped(s, n) ==
    LET start   == SatSub(s.idx, 1)
        wanted  == MinOf(n, SatSub(RemainingLen(s), 1))
        isFirst == s.idx = 0 /\ wanted > 0
        take    == IF isFirst THEN wanted - 1 ELSE wanted
        stop    == MinOf(start + take, NDiffObjects)
    IN  [Consume(s, start + 1, stop) EXCEPT
            !.idx = @ + (stop - start) + (IF isFirst THEN 1 ELSE 0)]

\* Iterator::next
NextCall == NextFrom(it) /\ UNCHANGED objs

\* Iterator::nth, OsuGradualPerformance::nth, and OsuGradualPerformance::next
\* with n = 0
NthCall(n) == NextFrom(Skipped(it, n)) /\ UNCHANGED objs

\* OsuGradualPerformance::last
LastCall == NthCall(USizeMax)

Next ==
    \/ NextCall
    \/ \E n \in NthArgs : NthCall(n)
    \/ LastCall

Spec == Init /\ [][Next]_vars

------------------------------------------------------------------------------
(* Properties *)

Attrs == [max_combo : Nat, n_circles : Nat, n_sliders : Nat, n_large_ticks : Nat,
          n_spinners : Nat]

Score == [objects : Nat, count : Nat]

Values == [attrs : Attrs, score : Score, rated : [Skills -> Seq(Nat)]]

\* The struct and the returned value have the types of their fields, and idx
\* never runs past the objects of the map.
TypeOK ==
    /\ objs \in Maps
    /\ it \in [idx : 0 .. Len(objs), attrs : Attrs, score : Score, skills : [Skills -> Seq(Nat)]]
    /\ ret \in Seq(Values) /\ Len(ret) <= 1

\* How many items the calls of next on s will still return: it has one at every
\* position that it finds something at.
ItemsToCome(s) == Cardinality({k \in s.idx .. Len(objs) : HasNext([s EXCEPT !.idx = k])})

\* What has been counted and processed when k objects are passed: the counts
\* run one object ahead of idx at the start only, and each of the five skills
\* saw difficulty objects 1 .. k - 1, each once and in order.
StructAt(k) ==
    LET counted == IF k = 0 THEN MinOf(1, Len(objs)) ELSE k
    IN  [idx    |-> k,
         attrs  |-> IncrementCombo(ZeroAttrs, 1 .. counted),
         score  |-> ScoreOf(k, k),
         skills |-> Process(FreshSkills, 1, SatSub(k, 1))]

\* The struct is a function of idx, whichever calls of next and nth led there:
\* no interleaving of them forgets or repeats an object in a count or a skill.
InStep == it = StructAt(it.idx)

\* Every value the iterator returns, by next, nth or last and in any
\* interleaving of them, is the value of the ordinary calculation limited to
\* the objects passed so far: counts, legacy score input and all five skills.
MatchesCalculate == ret # <<>> => ret = <<Calculate(it.idx)>>

\* len() tells whether a call will return a value, and every value returned
\* lowers it; only for a map without objects len() is 1 and nothing comes.
ExactSize ==
    [][objs # <<>> => /\ (ret' # <<>>) <=> (RemainingLen(it) > 0)
                      /\ (ret' # <<>>) => RemainingLen(it') < RemainingLen(it)]_vars

\* The iterator is a PrefixIterator over the results of the ordinary
\* calculation: nth(n) skips exactly n of them, stops at the last one, and the
\* iterator is exhausted only after the last one was returned.
Promise == INSTANCE PrefixIterator WITH
                items <- [k \in 1 .. Len(objs) |-> Calculate(k)],
                pos   <- it.idx

IsPrefixIterator == Promise!Spec
=============================================================================
