------------------------------ MODULE HitResults ------------------------------
(***************************************************************************)
(* What the generate_state functions of the four modes have in common:     *)
(* counts given by the caller are limited one by one, and the rest of the  *)
(* objects is given to one hit result, or distributed so that the accuracy *)
(* comes close to a given one.                                             *)
(*                                                                         *)
(* An accuracy is a number of AccScale-ths, and the arithmetic is exact    *)
(* where the code uses f64.                                                *)
(***************************************************************************)
EXTENDS RustStd, FiniteSets, SequencesExt

CONSTANTS
    None,       \* the absent value of an Option
    AccScale    \* an accuracy of 1.0

ASSUME AccScaleAssumption == AccScale \in Nat \ {0}

\* map_or(0, |n| min(n, cap)) and map_or(cap, |n| min(n, cap))
UpTo(opt, cap) == IF opt = None THEN 0 ELSE MinOf(opt, cap)
OrAll(opt, cap) == IF opt = None THEN cap ELSE MinOf(opt, cap)

\* (num / den).floor() as u32 and (num / den).ceil() as u32: a cast of a
\* negative float is 0
FloorU32(num, den) == IF num <= 0 THEN 0 ELSE num \div den
CeilU32(num, den) == IF num <= 0 THEN 0 ELSE (num + den - 1) \div den

\* A loop that does not try the number above.
Around_Floor(num, den, cap) ==
    MinOf(FloorU32(num, den), cap) .. MinOf(FloorU32(num, den), cap)

\* The loop min(floor, cap) ..= min(ceil, cap) around num / den
Around(num, den, cap) ==
    MinOf(FloorU32(num, den), cap) .. MinOf(CeilU32(num, den), cap)

\* One round of a search: the counts it tries, in the order of the loop
\* variables, and the distance dist / over of their accuracy num / den to acc
Candidate(hits, acc, num, den) ==
    LET d == acc * den - AccScale * num
    IN  [hits |-> hits, dist |-> IF d < 0 THEN -d ELSE d, over |-> den]

\* Sequences of loop variables in the order the nested loops reach them
Before(s, t) ==
    \E i \in DOMAIN s : s[i] < t[i] /\ \A j \in 1 .. i - 1 : s[j] = t[j]

\* `if dist < best_dist`: the first candidate that no other is closer than
Closest(cands) ==
    CHOOSE c \in cands : \A d \in cands \ {c} :
        \/ c.dist * d.over < d.dist * c.over
        \/ c.dist * d.over = d.dist * c.over /\ Before(c.hits, d.hits)

SumOver(hits, names) ==
    LET sum[i \in 0 .. Len(names)] == IF i = 0 THEN 0 ELSE sum[i - 1] + hits[names[i]]
    IN  sum[Len(names)]

\* The hit results the caller left open, of those in the sequence `names`
Open(given, names) == {i \in DOMAIN names : given[names[i]] = None}

\* The rest given to the worst hit result where it should go to an open one.
Fill_NotOpen(names, given, hits, room, best) ==
    LET order == IF best THEN names ELSE Reverse(names)
    IN  [hits EXCEPT ![order[1]] = @ + SatSub(room, SumOver(hits, names))]

\* The objects nothing is given for become the best open hit result, or the
\* worst one with HitResultPriority::WorstCase; where none is open they are
\* added to the best or the worst.  `names` runs from the best to the worst.
Fill(names, given, hits, room, best) ==
    LET order == IF best THEN names ELSE Reverse(names)
        open  == Open(given, order)
        at    == IF open = {} THEN 1 ELSE CHOOSE i \in open : \A j \in open : i <= j
    IN  [hits EXCEPT ![order[at]] = @ + SatSub(room, SumOver(hits, names))]
=============================================================================
