-------------------------- MODULE Performance_proofs --------------------------
(***************************************************************************)
(* For every set of maps, counts, settings and calls: a performance        *)
(* builder keeps its attributes once it has them, and a conversion keeps   *)
(* what both modes know; no subtraction of generate_state underflows,      *)
(* every object gets a hit result, a complete report is kept, and          *)
(* generating again from a generated state changes nothing.                *)
(*                                                                         *)
(* The first part says of the operators of HitResults and of each mode     *)
(* what a generated state is: TaikoResult, CatchResult, OsuResult and      *)
(* ManiaResult.  The second part has the builders and the theorems.        *)
(***************************************************************************)
EXTENDS Performance, Counting_proofs

------------------------------------------------------------------------------
(* Sums of hit results *)

\* The recursion that SumOver goes through
IsSummation(g, h, names) ==
    g = [i \in 0 .. Len(names) |-> IF i = 0 THEN 0 ELSE g[i - 1] + h[names[i]]]

\* Any solution gives the sum: there is one, and it is written out step by step.
LEMMA SumIsLast ==
    ASSUME NEW h, NEW names, \E g : IsSummation(g, h, names)
    PROVE  \E g : IsSummation(g, h, names) /\ SumOver(h, names) = g[Len(names)]
<1> DEFINE G(g) == g = [i \in 0 .. Len(names) |-> IF i = 0 THEN 0 ELSE g[i - 1] + h[names[i]]]
           c == CHOOSE g : G(g)
<1>1. \E g : G(g)
  BY DEF IsSummation
<1>2. G(c)
  BY <1>1, Zenon
<1>3. SumOver(h, names) = c[Len(names)]
  BY DEF SumOver
<1> QED
  BY <1>2, <1>3 DEF IsSummation

LEMMA SumOfTwo ==
    ASSUME NEW h, NEW a, NEW b, h[a] \in Nat, h[b] \in Nat
    PROVE  SumOver(h, <<a, b>>) = h[a] + h[b]
<1>1. PICK x \in Nat, y \in Nat, names \in {<<a, b>>} : x = h[a] /\ y = h[b] /\ names = <<a, b>>
  OBVIOUS
<1>2. Len(names) = 2 /\ h[names[1]] = x /\ h[names[2]] = y
  BY <1>1
<1>3. IsSummation([i \in 0 .. 2 |-> IF i = 0 THEN 0 ELSE IF i = 1 THEN x ELSE x + y], h, names)
  BY <1>2 DEF IsSummation
<1>4. PICK g : IsSummation(g, h, names) /\ SumOver(h, names) = g[Len(names)]
  BY <1>3, SumIsLast
<1>5. \A i \in 0 .. 2 : g[i] = IF i = 0 THEN 0 ELSE g[i - 1] + h[names[i]]
  BY <1>2, <1>4 DEF IsSummation
<1>6. g[0] = 0 /\ g[1] = g[0] + x /\ g[2] = g[1] + y
  BY ONLY <1>2, <1>5
<1> QED
  BY <1>1, <1>2, <1>4, <1>6

LEMMA SumOfThree ==
    ASSUME NEW h, NEW a, NEW b, NEW c, h[a] \in Nat, h[b] \in Nat, h[c] \in Nat
    PROVE  SumOver(h, <<a, b, c>>) = h[a] + h[b] + h[c]
<1>1. PICK x \in Nat, y \in Nat, z \in Nat, names \in {<<a, b, c>>} :
          x = h[a] /\ y = h[b] /\ z = h[c] /\ names = <<a, b, c>>
  OBVIOUS
<1>2. Len(names) = 3 /\ h[names[1]] = x /\ h[names[2]] = y /\ h[names[3]] = z
  BY <1>1
<1>3. IsSummation([i \in 0 .. 3 |-> IF i = 0 THEN 0 ELSE IF i = 1 THEN x
                                    ELSE IF i = 2 THEN x + y ELSE x + y + z], h, names)
  BY <1>2 DEF IsSummation
<1>4. PICK g : IsSummation(g, h, names) /\ SumOver(h, names) = g[Len(names)]
  BY <1>3, SumIsLast
<1>5. \A i \in 0 .. 3 : g[i] = IF i = 0 THEN 0 ELSE g[i - 1] + h[names[i]]
  BY <1>2, <1>4 DEF IsSummation
<1>6. g[0] = 0 /\ g[1] = g[0] + x /\ g[2] = g[1] + y /\ g[3] = g[2] + z
  BY ONLY <1>2, <1>5
<1> QED
  BY <1>1, <1>2, <1>4, <1>6

LEMMA SumOfFive ==
    ASSUME NEW h, NEW a, NEW b, NEW c, NEW d, NEW e,
           h[a] \in Nat, h[b] \in Nat, h[c] \in Nat, h[d] \in Nat, h[e] \in Nat
    PROVE  SumOver(h, <<a, b, c, d, e>>) = h[a] + h[b] + h[c] + h[d] + h[e]
<1>1. PICK v \in Nat, w \in Nat, x \in Nat, y \in Nat, z \in Nat, names \in {<<a, b, c, d, e>>} :
          /\ v = h[a] /\ w = h[b] /\ x = h[c] /\ y = h[d] /\ z = h[e]
          /\ names = <<a, b, c, d, e>>
  OBVIOUS
<1>2. /\ Len(names) = 5 /\ h[names[1]] = v /\ h[names[2]] = w /\ h[names[3]] = x
      /\ h[names[4]] = y /\ h[names[5]] = z
  BY <1>1
<1>3. IsSummation([i \in 0 .. 5 |-> IF i = 0 THEN 0 ELSE IF i = 1 THEN v
                                    ELSE IF i = 2 THEN v + w ELSE IF i = 3 THEN v + w + x
                                    ELSE IF i = 4 THEN v + w + x + y ELSE v + w + x + y + z],
                  h, names)
  BY <1>2 DEF IsSummation
<1>4. PICK g : IsSummation(g, h, names) /\ SumOver(h, names) = g[Len(names)]
  BY <1>3, SumIsLast
<1>5. \A i \in 0 .. 5 : g[i] = IF i = 0 THEN 0 ELSE g[i - 1] + h[names[i]]
  BY <1>2, <1>4 DEF IsSummation
<1>6. /\ g[0] = 0 /\ g[1] = g[0] + v /\ g[2] = g[1] + w /\ g[3] = g[2] + x
      /\ g[4] = g[3] + y /\ g[5] = g[4] + z
  BY ONLY <1>2, <1>5
<1> QED
  BY <1>1, <1>2, <1>4, <1>6

------------------------------------------------------------------------------
(* The hit result that takes the rest *)

LEMMA ReversedSequence ==
    ASSUME NEW s, Len(s) \in Nat \ {0}, DOMAIN s = 1 .. Len(s)
    PROVE  /\ DOMAIN Reverse(s) = 1 .. Len(s)
           /\ \A i \in 1 .. Len(s) : Len(s) - i + 1 \in 1 .. Len(s)
                                     /\ Reverse(s)[i] = s[Len(s) - i + 1]
           /\ \A i \in 1 .. Len(s) : Reverse(s)[Len(s) - i + 1] = s[i]
<1>2. PICK n \in Nat \ {0} : n = Len(s)
  OBVIOUS
<1>3. Reverse(s) = [i \in 1 .. n |-> s[n - i + 1]]
  BY <1>2 DEF Reverse
<1>4. \A i \in 1 .. n : n - i + 1 \in 1 .. n /\ n - (n - i + 1) + 1 = i
  OBVIOUS
<1>5. /\ DOMAIN Reverse(s) = 1 .. n
      /\ \A i \in 1 .. n : Reverse(s)[i] = s[n - i + 1]
  BY <1>3
<1>6. \A i \in 1 .. n : Reverse(s)[n - i + 1] = s[i]
  <2>1. TAKE i \in 1 .. n
  <2>2. PICK j \in 1 .. n : j = n - i + 1 /\ n - j + 1 = i
    BY <1>4
  <2> QED
    BY <1>5, <2>2
<1> QED
  BY <1>2, <1>4, <1>5, <1>6

\* What Fill gives to a hit result, an open one if there is any
LEMMA FillsOne ==
    ASSUME NEW names, NEW n \in Nat \ {0}, Len(names) = n, DOMAIN names = 1 .. n,
           NEW given, NEW hits, NEW room, NEW best \in BOOLEAN
    PROVE  \E i \in DOMAIN names :
              /\ Fill(names, given, hits, room, best)
                    = [hits EXCEPT ![names[i]] = @ + SatSub(room, SumOver(hits, names))]
              /\ Open(given, names) # {} => i \in Open(given, names)
<1> DEFINE order == IF best THEN names ELSE Reverse(names)
           open  == Open(given, order)
           at    == IF open = {} THEN 1 ELSE CHOOSE i \in open : \A j \in open : i <= j
<1>2. /\ DOMAIN names = 1 .. n /\ DOMAIN order = 1 .. n
      /\ \A i \in 1 .. n : \E j \in 1 .. n : order[i] = names[j]
      /\ \A i \in 1 .. n : \E j \in 1 .. n : names[i] = order[j]
  <2>1. CASE best
    BY <2>1, ReversedSequence
  <2>2. CASE ~best
    BY <2>2, ReversedSequence
  <2> QED
    BY <2>1, <2>2
<1>3. Fill(names, given, hits, room, best)
        = [hits EXCEPT ![order[at]] = @ + SatSub(room, SumOver(hits, names))]
  BY DEF Fill
<1> HIDE DEF order
<1>4. open \in SUBSET (1 .. n) /\ (open = {} <=> Open(given, names) = {})
  <2>1. open = {i \in 1 .. n : given[order[i]] = None}
    BY <1>2 DEF Open
  <2>2. Open(given, names) = {i \in 1 .. n : given[names[i]] = None}
    BY <1>2 DEF Open
  <2> HIDE DEF open
  <2>3. ASSUME NEW i \in open
        PROVE  Open(given, names) # {}
    <3>1. i \in 1 .. n /\ given[order[i]] = None
      BY <2>1
    <3>2. PICK j \in 1 .. n : order[i] = names[j]
      BY <1>2, <3>1
    <3> QED
      BY <2>2, <3>1, <3>2
  <2>4. ASSUME NEW i \in Open(given, names)
        PROVE  open # {}
    <3>1. i \in 1 .. n /\ given[names[i]] = None
      BY <2>2
    <3>2. PICK j \in 1 .. n : names[i] = order[j]
      BY <1>2, <3>1
    <3> QED
      BY <2>1, <3>1, <3>2
  <2> QED
    BY <2>1, <2>3, <2>4
<1>5. at \in 1 .. n /\ (open # {} => at \in open)
  <2>1. CASE open = {}
    BY <2>1
  <2>2. CASE open # {}
    <3>1. open \in SUBSET Nat
      BY <1>4
    <3> HIDE DEF open
    <3>2. \E i \in open : \A j \in open : i <= j
      BY <2>2, <3>1, LeastNatural
    <3>3. at \in open
      BY <3>2, <2>2
    <3> QED
      BY <1>4, <3>3
  <2> QED
    BY <2>1, <2>2
<1>6. open # {} => given[order[at]] = None
  BY <1>5 DEF Open
<1> HIDE DEF open, at
<1>7. PICK i \in 1 .. n : order[at] = names[i]
  BY <1>2, <1>5
<1>8. Open(given, names) # {} => i \in Open(given, names)
  BY <1>2, <1>4, <1>6, <1>7 DEF Open
<1> QED
  BY <1>2, <1>3, <1>7, <1>8

------------------------------------------------------------------------------
(* What generate_state reads *)

\* What the inputs of generate_state are in each mode
IsInput(mode, i) ==
    /\ i.given \in [Fields(mode) -> Nat \cup {None}]
    /\ i.acc \in (0 .. AccScale) \cup {None}
    /\ i.best \in BOOLEAN /\ i.lazer \in BOOLEAN /\ i.passed \in Nat

LEMMA LimitedTypes ==
    ASSUME NEW opt \in Nat \cup {None}, NEW cap \in Nat
    PROVE  /\ UpTo(opt, cap) \in 0 .. cap /\ OrAll(opt, cap) \in 0 .. cap
           /\ opt # None => UpTo(opt, cap) = MinOf(opt, cap) /\ OrAll(opt, cap) = MinOf(opt, cap)
           /\ opt = None => UpTo(opt, cap) = 0
BY NoneAssumption DEF UpTo, OrAll, MinOf

\* What the caller says of a hit result
Told(opt) == IF opt = None THEN 0 ELSE opt

LEMMA LimitedToTold ==
    ASSUME NEW opt \in Nat \cup {None}, NEW cap \in Nat
    PROVE  /\ Told(opt) \in Nat /\ UpTo(opt, cap) \in 0 .. cap
           /\ Told(opt) <= cap => UpTo(opt, cap) = Told(opt)
           /\ opt # None => Told(opt) = opt
BY NoneAssumption DEF UpTo, Told, MinOf

LEMMA SaturatingSub ==
    ASSUME NEW a \in Int, NEW b \in Int
    PROVE  /\ SatSub(a, b) \in Nat /\ SatSub(a, b) >= a - b
           /\ a >= b => SatSub(a, b) = a - b
           /\ a <= b => SatSub(a, b) = 0
BY DEF SatSub

LEMMA Saturated ==
    ASSUME NEW a \in Nat, NEW b \in Nat
    PROVE  \E k \in Nat : /\ k = SatSub(a, b) /\ k <= a
                          /\ b <= a => k + b = a
                          /\ b >= a => k = 0
<1>1. SatSub(a, b) \in Nat /\ SatSub(a, b) <= a /\ (b <= a => SatSub(a, b) + b = a) /\ (b >= a => SatSub(a, b) = 0)
  BY DEF SatSub
<1> QED
  BY <1>1

LEMMA MinOfIs ==
    ASSUME NEW a \in Int, NEW b \in Int
    PROVE  /\ MinOf(a, b) \in Int /\ MinOf(a, b) <= a /\ MinOf(a, b) <= b
           /\ MinOf(a, b) = a \/ MinOf(a, b) = b
BY DEF MinOf

------------------------------------------------------------------------------
(* osu!taiko: the operators are those of HitResults *)

LEMMA TaikoOperators ==
    ASSUME NEW a, NEW b, NEW c, NEW d, NEW e
    PROVE  /\ Taiko!UpTo(a, b) = UpTo(a, b) /\ Taiko!OrAll(a, b) = OrAll(a, b)
           /\ Taiko!MinOf(a, b) = MinOf(a, b) /\ Taiko!SatSub(a, b) = SatSub(a, b)
           /\ Taiko!Open(a, b) = Open(a, b) /\ Taiko!SumOver(a, b) = SumOver(a, b)
           /\ Taiko!Fill(a, b, c, d, e) = Fill(a, b, c, d, e)
           /\ Taiko!Cardinality(a) = Cardinality(a)
<1>6. Taiko!Cardinality(a) = Cardinality(a)
  BY DEF Taiko!Cardinality, Cardinality
<1>1. Taiko!MinOf(a, b) = MinOf(a, b) /\ Taiko!SatSub(a, b) = SatSub(a, b)
  BY DEF Taiko!MinOf, MinOf, Taiko!SatSub, SatSub
<1>2. Taiko!UpTo(a, b) = UpTo(a, b) /\ Taiko!OrAll(a, b) = OrAll(a, b)
  BY DEF Taiko!UpTo, UpTo, Taiko!OrAll, OrAll, Taiko!MinOf, MinOf
<1>3. Taiko!Open(a, b) = Open(a, b)
  BY DEF Taiko!Open, Open
<1>4. Taiko!SumOver(a, b) = SumOver(a, b)
  BY DEF Taiko!SumOver, SumOver
<1>5. Taiko!Fill(a, b, c, d, e) = Fill(a, b, c, d, e)
  BY DEF Taiko!Fill, Fill, Taiko!Open, Open, Taiko!Reverse, Reverse, Taiko!SatSub, SatSub,
         Taiko!SumOver, SumOver
<1> QED
  BY <1>1, <1>2, <1>3, <1>4, <1>5, <1>6

------------------------------------------------------------------------------
(* The first of the closest candidates *)

IsLeast(c, S, R) == c \in S /\ \A d \in S \ {c} : <<c, d>> \in R

\* A finite set that is not empty has a least element in a total order.
LEMMA HasLeast ==
    ASSUME NEW S, IsFiniteSet(S), S # {}, NEW R,
           \A a, b \in S : a # b => <<a, b>> \in R \/ <<b, a>> \in R,
           \A a, b, c \in S : a # c /\ <<a, b>> \in R /\ <<b, c>> \in R => <<a, c>> \in R
    PROVE  \E c : IsLeast(c, S, R)
<1> DEFINE Bad(Q) == Q # {} /\ ~\E c : IsLeast(c, Q, R)
           T == {k \in Nat : \E Q \in SUBSET S : Cardinality(Q) = k /\ Bad(Q)}
<1>1. SUFFICES ASSUME T # {}
               PROVE  FALSE
  <2>1. Cardinality(S) \in Nat /\ S \in SUBSET S
    BY FS_CardinalityType
  <2>2. Bad(S) => Cardinality(S) \in T
    BY <2>1
  <2> HIDE DEF T
  <2> QED
    BY <1>1, <2>2
<1>2. PICK k \in T : \A m \in T : k <= m
  <2>1. T \in SUBSET Nat
    OBVIOUS
  <2> HIDE DEF T
  <2> QED
    BY <1>1, <2>1, LeastNatural
<1>3. PICK Q \in SUBSET S : Cardinality(Q) = k /\ Bad(Q)
  BY <1>2
<1>4. PICK x : x \in Q
  BY <1>3
<1> DEFINE P == Q \ {x}
<1>5. /\ IsFiniteSet(Q) /\ IsFiniteSet(P) /\ Cardinality(P) \in Nat
      /\ Cardinality(P) = k - 1 /\ k \in Nat
  <2>1. IsFiniteSet(Q)
    BY FS_Subset
  <2>2. IsFiniteSet(P) /\ Cardinality(P) = Cardinality(Q) - 1
    BY <1>4, <2>1, FS_RemoveElement
  <2>3. k \in Nat
    BY <1>2
  <2> QED
    BY <1>3, <2>1, <2>2, <2>3, FS_CardinalityType
<1>6. Cardinality(P) \notin T
  <2>1. ~(k <= k - 1)
    BY <1>5
  <2> HIDE DEF T
  <2> QED
    BY <1>2, <1>5, <2>1
<1>7. P \in SUBSET S
  BY <1>3
<1>8. ~Bad(P)
  BY <1>5, <1>6, <1>7
<1>9. CASE P = {}
  <2>1. IsLeast(x, Q, R)
    BY <1>4, <1>9 DEF IsLeast
  <2> QED
    BY <1>3, <2>1
<1>10. CASE P # {}
  <2>1. PICK c : IsLeast(c, P, R)
    BY <1>8, <1>10
  <2>2. c \in S /\ x \in S /\ c # x /\ c \in Q
    BY <1>3, <1>4, <2>1 DEF IsLeast
  <2>3. CASE <<c, x>> \in R
    <3>1. IsLeast(c, Q, R)
      BY <2>1, <2>2, <2>3 DEF IsLeast
    <3> QED
      BY <1>3, <3>1
  <2>4. CASE <<x, c>> \in R
    <3>1. ASSUME NEW d \in Q \ {x}
          PROVE  <<x, d>> \in R
      <4>1. d \in P /\ d \in S /\ d # x
        BY <1>3, <3>1
      <4>2. CASE d = c
        BY <2>4, <4>2
      <4>3. CASE d # c
        <5>1. <<c, d>> \in R
          BY <2>1, <4>1, <4>3 DEF IsLeast
        <5> QED
          BY <2>2, <2>4, <4>1, <5>1
      <4> QED
        BY <4>2, <4>3
    <3>2. IsLeast(x, Q, R)
      BY <1>4, <3>1 DEF IsLeast
    <3> QED
      BY <1>3, <3>2
  <2> QED
    BY <2>2, <2>3, <2>4
<1> QED
  BY <1>9, <1>10

\* A candidate of a search over w loop variables
IsCandidate(c, w) ==
    c.hits \in [1 .. w -> Int] /\ c.dist \in Nat /\ c.over \in Nat \ {0}

CloserThan(c, d) ==
    \/ c.dist * d.over < d.dist * c.over
    \/ c.dist * d.over = d.dist * c.over /\ Before(c.hits, d.hits)

\* Tuples of the same length are ordered by the first entry that differs.
LEMMA BeforeIsTotal ==
    ASSUME NEW w \in Nat, NEW s \in [1 .. w -> Int], NEW t \in [1 .. w -> Int], s # t
    PROVE  Before(s, t) \/ Before(t, s)
<1> DEFINE T == {i \in 1 .. w : s[i] # t[i]}
<1>1. T \in SUBSET Nat /\ T # {}
  OBVIOUS
<1>2. PICK i \in T : \A j \in T : i <= j
  <2> HIDE DEF T
  <2> QED
    BY <1>1, LeastNatural
<1>3. i \in 1 .. w /\ s[i] # t[i] /\ s[i] \in Int /\ t[i] \in Int
  BY <1>2
<1>4. \A j \in 1 .. i - 1 : s[j] = t[j]
  <2>1. TAKE j \in 1 .. i - 1
  <2>2. j \in 1 .. w /\ ~(i <= j)
    BY <1>3
  <2> QED
    BY <1>2, <2>2
<1>5. s[i] < t[i] \/ t[i] < s[i]
  BY <1>3
<1>6. DOMAIN s = 1 .. w /\ DOMAIN t = 1 .. w
  OBVIOUS
<1> HIDE DEF T
<1> QED
  BY <1>3, <1>4, <1>5, <1>6 DEF Before

LEMMA BeforeIsTransitive ==
    ASSUME NEW w \in Nat, NEW s \in [1 .. w -> Int], NEW t \in [1 .. w -> Int],
           NEW u \in [1 .. w -> Int], Before(s, t), Before(t, u)
    PROVE  Before(s, u)
<1>1. PICK i \in 1 .. w : s[i] < t[i] /\ \A k \in 1 .. i - 1 : s[k] = t[k]
  BY DEF Before
<1>2. PICK j \in 1 .. w : t[j] < u[j] /\ \A k \in 1 .. j - 1 : t[k] = u[k]
  BY DEF Before
<1>3. PICK m \in 1 .. w : m <= i /\ m <= j /\ (m = i \/ m = j)
  <2>1. i \in 1 .. w /\ j \in 1 .. w /\ i \in Int /\ j \in Int
    BY <1>1, <1>2
  <2>2. (i <= i /\ i <= j) \/ (j <= i /\ j <= j)
    BY ONLY <2>1
  <2> QED
    BY <2>1, <2>2, Zenon
<1>4. \A k \in 1 .. m - 1 : k \in 1 .. i - 1 /\ k \in 1 .. j - 1
  BY <1>3
<1>5. \A k \in 1 .. m - 1 : s[k] = u[k]
  BY <1>1, <1>2, <1>4
<1>6. s[m] \in Int /\ t[m] \in Int /\ u[m] \in Int
  OBVIOUS
<1>7. m # i => s[m] = t[m]
  <2>1. m # i => m \in 1 .. i - 1
    BY <1>3
  <2> QED
    BY <1>1, <2>1
<1>8. m # j => t[m] = u[m]
  <2>1. m # j => m \in 1 .. j - 1
    BY <1>3
  <2> QED
    BY <1>2, <2>1
<1>9. s[m] < u[m]
  <2>1. m = i => s[m] < t[m]
    BY <1>1
  <2>2. m = j => t[m] < u[m]
    BY <1>2
  <2>3. m = i \/ m = j
    BY <1>3
  <2> QED
    BY ONLY <1>6, <1>7, <1>8, <2>1, <2>2, <2>3
<1>10. DOMAIN s = 1 .. w
  OBVIOUS
<1> QED
  BY <1>5, <1>9, <1>10 DEF Before

\* Distances are compared as fractions.
LEMMA FractionsAreTransitive ==
    ASSUME NEW a \in Nat, NEW p1 \in Nat \ {0}, NEW b \in Nat, NEW q \in Nat \ {0},
           NEW c \in Nat, NEW r \in Nat \ {0},
           a * q <= b * p1, b * r <= c * q
    PROVE  /\ a * r <= c * p1
           /\ a * q < b * p1 \/ b * r < c * q => a * r < c * p1
<1>1. (a * q) * r <= (b * p1) * r
  <2>1. \A x, y \in Int, k \in Nat : x <= y => x * k <= y * k
    OBVIOUS
  <2>2. a * q \in Int /\ b * p1 \in Int
    OBVIOUS
  <2> QED
    BY <2>1, <2>2
<1>2. (b * r) * p1 <= (c * q) * p1
  <2>1. \A x, y \in Int, k \in Nat : x <= y => x * k <= y * k
    OBVIOUS
  <2>2. b * r \in Int /\ c * q \in Int
    OBVIOUS
  <2> QED
    BY <2>1, <2>2
<1>3. (a * q) * r = (a * r) * q /\ (b * p1) * r = (b * r) * p1 /\ (c * q) * p1 = (c * p1) * q
  OBVIOUS
<1>4. a * q < b * p1 => (a * q) * r < (b * p1) * r
  <2>1. \A x, y \in Int, k \in Nat \ {0} : x < y => x * k < y * k
    OBVIOUS
  <2>2. a * q \in Int /\ b * p1 \in Int
    OBVIOUS
  <2> QED
    BY <2>1, <2>2
<1>5. b * r < c * q => (b * r) * p1 < (c * q) * p1
  <2>1. \A x, y \in Int, k \in Nat \ {0} : x < y => x * k < y * k
    OBVIOUS
  <2>2. b * r \in Int /\ c * q \in Int
    OBVIOUS
  <2> QED
    BY <2>1, <2>2
<1>6. \A x, y \in Int, k \in Nat \ {0} :
          (x * k <= y * k => x <= y) /\ (x * k < y * k => x < y)
  OBVIOUS
<1>7. a * r \in Int /\ c * p1 \in Int
  OBVIOUS
<1>8. PICK x, y, z \in Int : x = (a * r) * q /\ y = (b * r) * p1 /\ z = (c * p1) * q
  OBVIOUS
<1>9. x <= z /\ (a * q < b * p1 \/ b * r < c * q => x < z)
  <2>1. x <= y /\ y <= z
    BY <1>1, <1>2, <1>3, <1>8
  <2>2. a * q < b * p1 => x < y
    BY <1>3, <1>4, <1>8
  <2>3. b * r < c * q => y < z
    BY <1>3, <1>5, <1>8
  <2> QED
    BY ONLY <1>8, <2>1, <2>2, <2>3
<1>10. (x <= z => a * r <= c * p1) /\ (x < z => a * r < c * p1)
  BY <1>6, <1>7, <1>8
<1> QED
  BY <1>9, <1>10

\* Of finitely many candidates one is taken.
LEMMA ClosestIsOne ==
    ASSUME NEW S, IsFiniteSet(S), S # {}, NEW w \in Nat,
           \A c \in S : IsCandidate(c, w),
           \A c, d \in S : c.hits = d.hits => c = d
    PROVE  Closest(S) \in S
<1> DEFINE R == {e \in S \X S : CloserThan(e[1], e[2])}
<1>1. \A c, d \in S : <<c, d>> \in R <=> CloserThan(c, d)
  OBVIOUS
<1> HIDE DEF R
<1>2. ASSUME NEW a \in S, NEW b \in S, a # b
      PROVE  <<a, b>> \in R \/ <<b, a>> \in R
  <2>1. IsCandidate(a, w) /\ IsCandidate(b, w)
    OBVIOUS
  <2>2. Before(a.hits, b.hits) \/ Before(b.hits, a.hits)
    BY <1>2, <2>1, BeforeIsTotal DEF IsCandidate
  <2>3. a.dist * b.over \in Int /\ b.dist * a.over \in Int
    BY <2>1 DEF IsCandidate
  <2>4. CloserThan(a, b) \/ CloserThan(b, a)
    <3>1. PICK x, y \in Int : x = a.dist * b.over /\ y = b.dist * a.over
      BY <2>3
    <3>2. x < y \/ y < x \/ x = y
      OBVIOUS
    <3> QED
      BY <2>2, <3>1, <3>2 DEF CloserThan
  <2> QED
    BY <1>1, <2>4
<1>3. ASSUME NEW a \in S, NEW b \in S, NEW c \in S, a # c, <<a, b>> \in R, <<b, c>> \in R
      PROVE  <<a, c>> \in R
  <2>1. IsCandidate(a, w) /\ IsCandidate(b, w) /\ IsCandidate(c, w)
    OBVIOUS
  <2>2. CloserThan(a, b) /\ CloserThan(b, c)
    BY <1>1, <1>3
  <2>3. PICK da, db, dc \in Nat, oa, ob, oc \in Nat \ {0} :
            /\ da = a.dist /\ db = b.dist /\ dc = c.dist
            /\ oa = a.over /\ ob = b.over /\ oc = c.over
    BY <2>1 DEF IsCandidate
  <2>4. PICK x, y, z, u \in Int : x = da * ob /\ y = db * oa /\ z = db * oc /\ u = dc * ob
    OBVIOUS
  <2>5. /\ x < y \/ (x = y /\ Before(a.hits, b.hits))
        /\ z < u \/ (z = u /\ Before(b.hits, c.hits))
    BY <2>2, <2>3, <2>4 DEF CloserThan
  <2>6. x <= y /\ z <= u
    BY <2>4, <2>5
  <2>7. da * oc <= dc * oa /\ (x < y \/ z < u => da * oc < dc * oa)
    BY <2>4, <2>6, FractionsAreTransitive
  <2>8. da * oc \in Int /\ dc * oa \in Int
    OBVIOUS
  <2>9. CASE x < y \/ z < u
    <3>1. CloserThan(a, c)
      BY <2>3, <2>7, <2>9 DEF CloserThan
    <3> QED
      BY <1>1, <3>1
  <2>10. CASE ~(x < y \/ z < u)
    <3>1. Before(a.hits, b.hits) /\ Before(b.hits, c.hits)
      BY <2>5, <2>10
    <3>2. Before(a.hits, c.hits)
      BY <2>1, <3>1, BeforeIsTransitive DEF IsCandidate
    <3>3. PICK v, t \in Int : v = da * oc /\ t = dc * oa
      BY <2>8
    <3>4. v < t \/ v = t
      BY <2>7, <3>3
    <3>5. CloserThan(a, c)
      BY <2>3, <3>2, <3>3, <3>4 DEF CloserThan
    <3> QED
      BY <1>1, <3>5
  <2> QED
    BY <2>9, <2>10
<1>4. PICK c : IsLeast(c, S, R)
  BY <1>2, <1>3, HasLeast
<1>5. c \in S /\ \A d \in S \ {c} : CloserThan(c, d)
  BY <1>1, <1>4 DEF IsLeast
<1>6. Closest(S) = CHOOSE e \in S : \A d \in S \ {e} : CloserThan(e, d)
  BY DEF Closest, CloserThan
<1> QED
  BY <1>5, <1>6

------------------------------------------------------------------------------
(* The numbers a search tries *)

\* The numbers of which den times is about num, rounded down and up
LEMMA Rounded ==
    ASSUME NEW num \in Int, NEW den \in Nat \ {0}
    PROVE  /\ FloorU32(num, den) \in Nat /\ CeilU32(num, den) \in Nat
           /\ FloorU32(num, den) > 0 => den * FloorU32(num, den) <= num
           /\ den * CeilU32(num, den) >= num
           /\ FloorU32(num, den) <= CeilU32(num, den)
<1> DEFINE f == num \div den
           c == (num + den - 1) \div den
<1>1. f \in Int /\ den * f <= num /\ num < den * f + den
  BY Quotient
<1>2. c \in Int /\ den * c <= num + den - 1 /\ num + den - 1 < den * c + den
  <2>1. num + den - 1 \in Int
    OBVIOUS
  <2> QED
    BY <2>1, Quotient
<1>3. FloorU32(num, den) = (IF num <= 0 THEN 0 ELSE f) /\ CeilU32(num, den) = (IF num <= 0 THEN 0 ELSE c)
  BY DEF FloorU32, CeilU32
<1>4. den * 0 = 0 /\ den * f \in Int /\ den * c \in Int
  <2>1. \A u \in Int, v \in Int : u * v \in Int /\ u * 0 = 0
    OBVIOUS
  <2> QED
    BY <1>1, <1>2, <2>1
<1> HIDE DEF f, c
<1>5. PICK df, dc \in Int : df = den * f /\ dc = den * c
  BY <1>4
<1>6. num > 0 => 0 <= f /\ 0 <= c /\ f <= c
  <2>1. f < 0 => df + den <= 0
    BY <1>1, <1>4, <1>5, Multiples
  <2>2. c < 0 => dc + den <= 0
    BY <1>2, <1>4, <1>5, Multiples
  <2>3. c < f => dc + den <= df
    BY <1>1, <1>2, <1>5, Multiples
  <2>4. df <= num /\ num < df + den /\ num + den - 1 < dc + den /\ dc <= num + den - 1
    BY <1>1, <1>2, <1>5
  <2> QED
    BY <1>1, <1>2, <2>1, <2>2, <2>3, <2>4
<1>7. num > 0 => df <= num /\ dc >= num
  BY <1>1, <1>2, <1>5
<1> QED
  BY <1>1, <1>2, <1>3, <1>4, <1>5, <1>6, <1>7

LEMMA AroundIsNear ==
    ASSUME NEW num \in Int, NEW den \in Nat \ {0}, NEW cap \in Nat
    PROVE  /\ Around(num, den, cap) \subseteq 0 .. cap
           /\ Around(num, den, cap) # {}
           /\ IsFiniteSet(Around(num, den, cap))
<1>1. PICK f, c \in Nat : f = FloorU32(num, den) /\ c = CeilU32(num, den) /\ f <= c
  BY Rounded
<1>2. Around(num, den, cap) = MinOf(f, cap) .. MinOf(c, cap)
  BY <1>1 DEF Around
<1>3. PICK a, b \in 0 .. cap : a = MinOf(f, cap) /\ b = MinOf(c, cap) /\ a <= b
  BY <1>1 DEF MinOf
<1>4. IsFiniteSet(a .. b)
  BY <1>3, FS_Interval
<1>5. a .. b \subseteq 0 .. cap /\ a \in a .. b
  BY <1>3
<1> QED
  BY <1>2, <1>3, <1>4, <1>5

LEMMA CandidateHits ==
    ASSUME NEW t, NEW acc, NEW num, NEW den
    PROVE  Candidate(t, acc, num, den).hits = t
BY DEF Candidate

LEMMA CandidateIs ==
    ASSUME NEW w, NEW t, t \in [1 .. w -> Int], NEW acc \in Int, NEW num \in Int,
           NEW den \in Nat \ {0}
    PROVE  IsCandidate(Candidate(t, acc, num, den), w)
<1>1. PICK d \in Int : d = acc * den - AccScale * num
  <2>1. \A u, v, x, y \in Int : u * v - x * y \in Int
    OBVIOUS
  <2> QED
    BY <2>1, AccScaleAssumption
<1>2. Candidate(t, acc, num, den) = [hits |-> t, dist |-> IF d < 0 THEN -d ELSE d, over |-> den]
  BY <1>1 DEF Candidate
<1> QED
  BY <1>1, <1>2 DEF IsCandidate

\* What is found is among what was tried.
LEMMA ClosestOfTried ==
    ASSUME NEW Q, IsFiniteSet(Q), Q # {}, NEW w \in Nat, NEW f, f = [t \in Q |-> f[t]],
           \A t \in Q : f[t].hits = t /\ IsCandidate(f[t], w)
    PROVE  Closest({f[t] : t \in Q}).hits \in Q
<1> DEFINE S == {f[t] : t \in Q}
<1>1. IsFiniteSet(S)
  BY FiniteImage
<1>2. S # {} /\ \A c \in S : IsCandidate(c, w) /\ \E t \in Q : c = f[t] /\ c.hits = t
  OBVIOUS
<1> HIDE DEF S
<1>3. \A c, d \in S : c.hits = d.hits => c = d
  BY <1>2
<1>4. Closest(S) \in S
  BY <1>1, <1>2, <1>3, ClosestIsOne
<1> QED
  BY <1>2, <1>4 DEF S

LEMMA ClosestOfOne ==
    ASSUME NEW c
    PROVE  Closest({c}) = c
BY DEF Closest

------------------------------------------------------------------------------
(* osu!taiko: the search *)

LEMMA TaikoSearchOperators ==
    ASSUME NEW a, NEW b, NEW c, NEW d
    PROVE  /\ Taiko!Around(a, b, c) = Around(a, b, c)
           /\ Taiko!Candidate(a, b, c, d) = Candidate(a, b, c, d)
           /\ Taiko!Closest(a) = Closest(a)
<1>1. Taiko!Around(a, b, c) = Around(a, b, c)
  BY DEF Taiko!Around, Around, Taiko!MinOf, MinOf, Taiko!FloorU32, FloorU32,
         Taiko!CeilU32, CeilU32
<1>2. Taiko!Candidate(a, b, c, d) = Candidate(a, b, c, d)
  BY DEF Taiko!Candidate, Candidate
<1>3. Taiko!Closest(a) = Closest(a)
  BY DEF Taiko!Closest, Closest, Taiko!Before, Before
<1> QED
  BY <1>1, <1>2, <1>3

\* 300s and 100s that share what the misses leave
LEMMA TaikoSearches ==
    ASSUME NEW n \in Nat, NEW misses \in 0 .. n, NEW acc \in Nat
    PROVE  \E x \in 0 .. n - misses :
              Taiko!Search(n, misses, acc) = [n300 |-> x, n100 |-> n - misses - x]
<1> DEFINE room == n - misses
           A == Taiko!Around(acc * 2 * n - AccScale * room, AccScale, room)
           num(x) == 2 * x + (room - x)
           den(x) == 2 * (x + (room - x) + misses)
           Q == {<<x, room - x>> : x \in A}
           f == [t \in Q |-> Candidate(t, acc, num(t[1]), den(t[1]))]
           C == Closest({f[t] : t \in Q})
<1>1. room \in Nat /\ A \subseteq 0 .. room /\ A # {} /\ IsFiniteSet(A)
  <2>1. room \in Nat
    OBVIOUS
  <2>2. acc * 2 * n - AccScale * room \in Int
    <3>1. \A u, v, x, y \in Int : u * 2 * v - x * y \in Int
      OBVIOUS
    <3> QED
      BY <2>1, <3>1, AccScaleAssumption
  <2>3. A = Around(acc * 2 * n - AccScale * room, AccScale, room)
    BY TaikoSearchOperators
  <2> QED
    BY <2>1, <2>2, <2>3, AroundIsNear, AccScaleAssumption
<1>2. Taiko!Search(n, misses, acc) = [n300 |-> C.hits[1], n100 |-> C.hits[2]]
  <2> DEFINE T == {Taiko!Candidate(<<x, room - x>>, acc,
                      Taiko!Accuracy([n300 |-> x, n100 |-> room - x], misses).num,
                      Taiko!Accuracy([n300 |-> x, n100 |-> room - x], misses).den) : x \in A}
  <2>1. Taiko!Search(n, misses, acc)
          = [n300 |-> Taiko!Closest(T).hits[1], n100 |-> Taiko!Closest(T).hits[2]]
    BY DEF Taiko!Search
  <2>2. \A x \in A : Taiko!Candidate(<<x, room - x>>, acc,
                      Taiko!Accuracy([n300 |-> x, n100 |-> room - x], misses).num,
                      Taiko!Accuracy([n300 |-> x, n100 |-> room - x], misses).den)
                        = f[<<x, room - x>>]
    <3>1. TAKE x \in A
    <3>2. /\ Taiko!Accuracy([n300 |-> x, n100 |-> room - x], misses).num = num(x)
          /\ Taiko!Accuracy([n300 |-> x, n100 |-> room - x], misses).den = den(x)
      BY DEF Taiko!Accuracy
    <3>3. f[<<x, room - x>>] = Candidate(<<x, room - x>>, acc, num(x), den(x))
      <4> HIDE DEF num, den, A, room
      <4> QED
        OBVIOUS
    <3> HIDE DEF f, num, den, room
    <3>4. Taiko!Candidate(<<x, room - x>>, acc, num(x), den(x))
            = Candidate(<<x, room - x>>, acc, num(x), den(x))
      BY TaikoSearchOperators, Zenon
    <3> QED
      BY <3>2, <3>3, <3>4, Zenon
  <2>3. T = {f[t] : t \in Q}
    <3> HIDE DEF f, A, room
    <3> QED
      BY <2>2
  <2> HIDE DEF T, f, Q
  <2> QED
    BY <2>1, <2>3, TaikoSearchOperators
<1>3. C.hits \in Q
  <2>1. \A x \in A : num(x) \in Int /\ den(x) \in Nat /\ den(x) = 2 * n
                     /\ <<x, room - x>> \in [1 .. 2 -> Int]
    BY <1>1
  <2>2. \A t \in Q : t \in [1 .. 2 -> Int] /\ num(t[1]) \in Int /\ den(t[1]) = 2 * n
    <3> HIDE DEF num, den, A, room
    <3> QED
      BY <2>1
  <2>3. Q # {} /\ IsFiniteSet(Q)
    <3> DEFINE g == [x \in A |-> <<x, room - x>>]
    <3>1. {g[x] : x \in A} = Q
      OBVIOUS
    <3>2. g = [x \in A |-> g[x]]
      OBVIOUS
    <3>3. IsFiniteSet({g[x] : x \in A})
      <4> HIDE DEF g, A
      <4> QED
        BY <1>1, <3>2, FiniteImage
    <3> QED
      BY <1>1, <3>1, <3>3
  <2>4. CASE n # 0
    <3>1. \A t \in Q : f[t].hits = t /\ IsCandidate(f[t], 2)
      <4>1. TAKE t \in Q
      <4>2. f[t] = Candidate(t, acc, num(t[1]), den(t[1]))
        OBVIOUS
      <4>3. den(t[1]) \in Nat /\ den(t[1]) # 0
        <5> HIDE DEF den, Q
        <5> QED
          BY <2>2, <2>4
      <4>4. t \in [1 .. 2 -> Int] /\ num(t[1]) \in Int
        <5> HIDE DEF num, Q
        <5> QED
          BY <2>2
      <4>5. acc \in Int
        OBVIOUS
      <4> HIDE DEF f, num, den, Q
      <4>6. PICK k \in Int, m \in Nat \ {0} : k = num(t[1]) /\ m = den(t[1])
        BY <4>3, <4>4
      <4>7. f[t] = Candidate(t, acc, k, m)
        BY <4>2, <4>6
      <4>8. Candidate(t, acc, k, m).hits = t /\ IsCandidate(Candidate(t, acc, k, m), 2)
        BY <4>4, <4>5, CandidateHits, CandidateIs, Zenon
      <4> QED
        BY <4>7, <4>8, Zenon
    <3>2. f = [t \in Q |-> f[t]]
      OBVIOUS
    <3> HIDE DEF f, Q
    <3> QED
      BY <2>3, <3>1, <3>2, ClosestOfTried
  <2>5. CASE n = 0
    <3>1. room = 0 /\ A = {0}
      <4>1. \A r \in Nat : r <= n => r <= 0
        BY <2>5
      <4>2. room \in Nat /\ room <= n
        OBVIOUS
      <4>4. room = 0
        <5> HIDE DEF room
        <5> QED
          BY <4>1, <4>2
      <4> HIDE DEF A, room
      <4>3. \A x \in A : x = 0
        BY <1>1, <4>4
      <4> QED
        BY <1>1, <4>3, <4>4
    <3>2. Q = {<<0, room - 0>>}
      <4> HIDE DEF A, room
      <4> QED
        BY <3>1
    <3>3. PICK t : Q = {t}
      BY <3>2
    <3>4. f[t] = Candidate(t, acc, num(t[1]), den(t[1]))
      <4> HIDE DEF Q, num, den
      <4> QED
        BY <3>3
    <3>5. C = f[t]
      <4>1. {f[s] : s \in Q} = {f[t]}
        <5> HIDE DEF Q, f
        <5> QED
          BY <3>3
      <4> HIDE DEF f, Q
      <4> QED
        BY <4>1, ClosestOfOne
    <3>6. f[t].hits = t
      BY <3>4 DEF Candidate
    <3> HIDE DEF f, Q, C
    <3> QED
      BY <3>3, <3>5, <3>6
  <2> QED
    BY <2>4, <2>5
<1>4. PICK x \in A : C.hits = <<x, room - x>>
  <2> HIDE DEF C, A, room
  <2> QED
    BY <1>3
<1>5. x \in 0 .. room
  <2> HIDE DEF A, room
  <2> QED
    BY <1>1, <1>4
<1>6. Taiko!Search(n, misses, acc) = [n300 |-> x, n100 |-> room - x]
  <2> HIDE DEF C, A, room
  <2> QED
    BY <1>2, <1>4
<1> QED
  BY <1>5, <1>6

------------------------------------------------------------------------------
(* osu!taiko: generate_state *)

\* Every object gets a hit result; counts that are given are kept where they
\* fit and one is open, and where both are given and leave nothing over.
TaikoResult(s, i, n, combo) ==
    /\ s = [max_combo |-> s.max_combo, n300 |-> s.n300, n100 |-> s.n100, misses |-> s.misses]
    /\ s.misses = UpTo(i.given.misses, n)
    /\ s.max_combo = OrAll(i.given.max_combo, SatSub(combo, s.misses))
    /\ s.n300 \in 0 .. n - s.misses /\ s.n100 \in 0 .. n - s.misses
    /\ s.n300 + s.n100 + s.misses >= n
    /\ Told(i.given.n300) + Told(i.given.n100) + Told(i.given.misses) <= n =>
            /\ s.n300 + s.n100 + s.misses = n
            /\ i.given.n300 = None \/ i.given.n100 = None =>
                  /\ i.given.n300 # None => s.n300 = i.given.n300
                  /\ i.given.n100 # None => s.n100 = i.given.n100
    /\ /\ i.given.n300 # None /\ i.given.n300 <= n - s.misses
       /\ i.given.n100 # None /\ i.given.n100 <= n - s.misses
       /\ i.given.n300 + i.given.n100 + s.misses >= n
       => s.n300 = i.given.n300 /\ s.n100 = i.given.n100

\* How many hit results can be open
LEMMA OpenSize ==
    ASSUME NEW names, NEW n \in Nat, Len(names) = n, DOMAIN names = 1 .. n, NEW given
    PROVE  /\ IsFiniteSet(Open(given, names)) /\ Cardinality(Open(given, names)) \in Nat
           /\ Cardinality(Open(given, names)) <= Len(names)
           /\ Cardinality(Open(given, names)) = Len(names) =>
                    \A i \in 1 .. Len(names) : given[names[i]] = None
           /\ Open(given, names) = {i \in 1 .. Len(names) : given[names[i]] = None}
<1>3. Open(given, names) = {i \in 1 .. n : given[names[i]] = None}
  BY DEF Open
<1>4. IsFiniteSet(1 .. n) /\ Cardinality(1 .. n) = n
  <2>1. 1 \in Int /\ n \in Int /\ n - 1 + 1 = n /\ (1 > n => n = 0)
    OBVIOUS
  <2> QED
    BY <2>1, FS_Interval
<1>5. Open(given, names) \in SUBSET (1 .. n)
  BY <1>3
<1>6. /\ IsFiniteSet(Open(given, names)) /\ Cardinality(Open(given, names)) <= n
      /\ Cardinality(Open(given, names)) = n => Open(given, names) = 1 .. n
  BY <1>4, <1>5, FS_Subset
<1>7. Cardinality(Open(given, names)) \in Nat
  BY <1>6, FS_CardinalityType
<1> QED
  BY <1>3, <1>6, <1>7

LEMMA TaikoFills ==
    ASSUME NEW a \in Nat, NEW b \in Nat, NEW given, NEW room \in Nat, NEW best \in BOOLEAN
    PROVE  LET r == Taiko!Fill(Taiko!Names, given, [n300 |-> a, n100 |-> b], room, best)
               k == SatSub(room, a + b)
           IN  \/ r = [n300 |-> a + k, n100 |-> b] /\ (given.n300 = None \/ given.n100 # None)
               \/ r = [n300 |-> a, n100 |-> b + k] /\ (given.n100 = None \/ given.n300 # None)
<1> DEFINE h == [n300 |-> a, n100 |-> b]
           names == <<"n300", "n100">>
           k == SatSub(room, a + b)
<1>1. Len(names) = 2 /\ names[1] = "n300" /\ names[2] = "n100" /\ DOMAIN names = 1 .. 2
  OBVIOUS
<1>2. SumOver(h, names) = a + b
  <2>1. h["n300"] = a /\ h["n100"] = b
    OBVIOUS
  <2> HIDE DEF h
  <2> QED
    BY <2>1, SumOfTwo
<1>3. PICK i \in 1 .. 2 :
         /\ Fill(names, given, h, room, best) = [h EXCEPT ![names[i]] = @ + SatSub(room, SumOver(h, names))]
         /\ Open(given, names) # {} => i \in Open(given, names)
  <2>1. 2 \in Nat \ {0}
    OBVIOUS
  <2> HIDE DEF h, names
  <2> QED
    BY <1>1, <2>1, FillsOne, Zenon
<1>4. Taiko!Fill(Taiko!Names, given, h, room, best) = [h EXCEPT ![names[i]] = @ + k]
  <2>1. Taiko!Names = names
    BY DEF Taiko!Names
  <2> HIDE DEF h, names
  <2> QED
    BY <1>2, <1>3, <2>1, TaikoOperators
<1>5. Open(given, names) = {j \in 1 .. 2 : given[names[j]] = None}
  BY <1>1 DEF Open
<1>6. k \in Nat
  BY DEF SatSub
<1>7. CASE i = 1
  <2>1. [h EXCEPT !["n300"] = @ + k] = [n300 |-> a + k, n100 |-> b]
    <3> HIDE DEF k
    <3> QED
      OBVIOUS
  <2>2. given["n300"] = None \/ given["n100"] # None
    <3> HIDE DEF names
    <3> QED
      BY <1>1, <1>3, <1>5, <1>7
  <2> HIDE DEF h, k, names
  <2> QED
    BY <1>1, <1>4, <1>7, <2>1, <2>2 DEF h, k
<1>8. CASE i = 2
  <2>1. [h EXCEPT !["n100"] = @ + k] = [n300 |-> a, n100 |-> b + k]
    <3> HIDE DEF k
    <3> QED
      OBVIOUS
  <2>2. given["n100"] = None \/ given["n300"] # None
    <3> HIDE DEF names
    <3> QED
      BY <1>1, <1>3, <1>5, <1>8
  <2> HIDE DEF h, k, names
  <2> QED
    BY <1>1, <1>4, <1>8, <2>1, <2>2 DEF h, k
<1> QED
  BY <1>7, <1>8

LEMMA TaikoGenerates ==
    ASSUME NEW i, IsInput("taiko", i), NEW c \in CountsType("taiko")
    PROVE  TaikoResult(Taiko!Generate(i, c), i, MinOf(i.passed, c.max_combo), c.max_combo)
<1> DEFINE g      == i.given
           n      == Taiko!NObjects(i, c)
           misses == Taiko!UpTo(g.misses, n)
           room   == n - misses
           a      == Taiko!UpTo(g.n300, room)
           b      == Taiko!UpTo(g.n100, room)
           found  == i.acc # None /\ Taiko!Cardinality(Taiko!Open(g, Taiko!Names)) = 2
           hits   == IF found THEN Taiko!Search(n, misses, i.acc)
                     ELSE Taiko!Fill(Taiko!Names, g, [n300 |-> a, n100 |-> b], room, i.best)
           combo  == Taiko!OrAll(g.max_combo, Taiko!SatSub(c.max_combo, misses))
<1>1. Taiko!Generate(i, c) =
        [max_combo |-> combo, n300 |-> hits.n300, n100 |-> hits.n100, misses |-> misses]
  BY DEF Taiko!Generate
<1>2. /\ g.misses \in Nat \cup {None} /\ g.n300 \in Nat \cup {None}
      /\ g.n100 \in Nat \cup {None} /\ g.max_combo \in Nat \cup {None}
      /\ i.acc # None => i.acc \in Nat
      /\ i.best \in BOOLEAN
  BY DEF IsInput, Fields, Taiko!Fields
<1>3. n = MinOf(i.passed, c.max_combo) /\ n \in Nat
  <2>1. i.passed \in Nat /\ c.max_combo \in Nat
    BY DEF IsInput, CountsType
  <2>2. n = MinOf(i.passed, c.max_combo)
    BY TaikoOperators DEF Taiko!NObjects
  <2> QED
    BY <2>1, <2>2 DEF MinOf
<1>4. misses = UpTo(g.misses, n) /\ combo = OrAll(g.max_combo, SatSub(c.max_combo, misses))
  BY TaikoOperators
<1> HIDE DEF n
<1>5. /\ misses \in 0 .. n /\ Told(g.misses) \in Nat
      /\ Told(g.misses) <= n => misses = Told(g.misses)
  BY <1>2, <1>3, <1>4, LimitedToTold
<1> HIDE DEF misses
<1>6. room \in Nat /\ misses + room = n /\ misses \in Nat
  BY <1>3, <1>5
<1> HIDE DEF room
<1>7. /\ a \in 0 .. room /\ Told(g.n300) \in Nat
      /\ Told(g.n300) <= room => a = Told(g.n300)
      /\ b \in 0 .. room /\ Told(g.n100) \in Nat
      /\ Told(g.n100) <= room => b = Told(g.n100)
  <2>1. a = UpTo(g.n300, room) /\ b = UpTo(g.n100, room)
    BY TaikoOperators
  <2> HIDE DEF a, b, g
  <2> QED
    BY <1>2, <1>6, <2>1, LimitedToTold
<1> HIDE DEF a, b, combo
<1>8. ASSUME /\ hits.n300 \in 0 .. room /\ hits.n100 \in 0 .. room
             /\ hits.n300 + hits.n100 >= room,
             Told(g.n300) + Told(g.n100) + Told(g.misses) <= n =>
                /\ hits.n300 + hits.n100 = room
                /\ g.n300 = None \/ g.n100 = None =>
                      /\ g.n300 # None => hits.n300 = g.n300
                      /\ g.n100 # None => hits.n100 = g.n100,
             /\ g.n300 # None /\ g.n300 <= room /\ g.n100 # None /\ g.n100 <= room
             /\ g.n300 + g.n100 >= room
             => hits.n300 = g.n300 /\ hits.n100 = g.n100
      PROVE  TaikoResult(Taiko!Generate(i, c), i, n, c.max_combo)
  <2> HIDE DEF hits
  <2>1. PICK s : s = Taiko!Generate(i, c)
    OBVIOUS
  <2>2. /\ s = [max_combo |-> s.max_combo, n300 |-> s.n300, n100 |-> s.n100, misses |-> s.misses]
        /\ s.max_combo = combo /\ s.n300 = hits.n300 /\ s.n100 = hits.n100
        /\ s.misses = misses
    BY <1>1, <2>1
  <2>3. n - misses = room
    BY DEF room
  <2>4. s.n300 + s.n100 + s.misses >= n
    BY <1>6, <1>8, <2>2
  <2>5. hits.n300 + hits.n100 = room => s.n300 + s.n100 + s.misses = n
    BY <1>6, <1>8, <2>2
  <2>7. g.n300 # None /\ g.n100 # None /\ g.n300 + g.n100 + s.misses >= n
          => g.n300 + g.n100 >= room
    BY <1>2, <1>6, <2>2
  <2>6. TaikoResult(s, i, n, c.max_combo)
    BY <2>7, <1>4, <1>8, <2>2, <2>3, <2>4, <2>5, Zenon DEF TaikoResult
  <2> QED
    BY <2>1, <2>6
<1>9. CASE found
  <2>1. PICK v \in 0 .. room : hits = [n300 |-> v, n100 |-> room - v]
    BY <1>2, <1>3, <1>5, <1>9, TaikoSearches DEF room
  <2>2. g.n300 = None /\ g.n100 = None
    <3>1. PICK names : names = <<"n300", "n100">>
      OBVIOUS
    <3>2. Len(names) = 2 /\ DOMAIN names = 1 .. 2 /\ names[1] = "n300" /\ names[2] = "n100"
      BY <3>1
    <3>3. Cardinality(Open(g, names)) = Len(names)
      BY <1>9, <3>1, <3>2, TaikoOperators DEF Taiko!Names
    <3>4. \A j \in 1 .. 2 : g[names[j]] = None
      BY <3>2, <3>3, OpenSize
    <3> QED
      BY <3>2, <3>4
  <2> HIDE DEF hits, g
  <2>3. hits.n300 = v /\ hits.n100 = room - v
    BY <2>1
  <2>4. hits.n300 \in 0 .. room /\ hits.n100 \in 0 .. room /\ hits.n300 + hits.n100 = room
        /\ hits.n300 + hits.n100 >= room
    BY <1>6, <2>3
  <2> QED
    BY <1>3, <1>8, <2>2, <2>4
<1>10. CASE ~found
  <2>1. PICK k \in Nat : k = SatSub(room, a + b) /\ ((a + b >= room /\ k = 0) \/ a + b + k = room)
    <3>1. PICK ab \in Nat : ab = a + b
      BY <1>6, <1>7
    <3>2. PICK k \in Nat : k = SatSub(room, ab)
      BY <1>6, SaturatingSub
    <3>3. ab >= room => k = 0
      BY <1>6, <3>2, SaturatingSub
    <3>4. ab <= room => ab + k = room
      BY <1>6, <3>2, SaturatingSub
    <3> QED
      BY <1>6, <3>1, <3>2, <3>3, <3>4
  <2>2. \/ hits = [n300 |-> a + k, n100 |-> b] /\ (g.n300 = None \/ g.n100 # None)
        \/ hits = [n300 |-> a, n100 |-> b + k] /\ (g.n100 = None \/ g.n300 # None)
    BY <1>2, <1>6, <1>7, <1>10, <2>1, TaikoFills
  <2> HIDE DEF hits, g
  <2>3. \/ hits.n300 = a + k /\ hits.n100 = b /\ (g.n300 = None \/ g.n100 # None)
        \/ hits.n300 = a /\ hits.n100 = b + k /\ (g.n100 = None \/ g.n300 # None)
    BY <2>2
  <2>4. hits.n300 \in 0 .. room /\ hits.n100 \in 0 .. room /\ hits.n300 + hits.n100 >= room
    BY <1>6, <1>7, <2>1, <2>3
  <2>5. ASSUME Told(g.n300) + Told(g.n100) + Told(g.misses) <= n
        PROVE  /\ hits.n300 + hits.n100 = room
               /\ g.n300 = None \/ g.n100 = None =>
                     /\ g.n300 # None => hits.n300 = g.n300
                     /\ g.n100 # None => hits.n100 = g.n100
    <3>1. misses = Told(g.misses)
      BY <1>3, <1>5, <1>7, <2>5
    <3>2. Told(g.n300) + Told(g.n100) <= room
      BY <1>3, <1>5, <1>6, <1>7, <2>5, <3>1
    <3>6. a = Told(g.n300) /\ b = Told(g.n100)
      BY <1>6, <1>7, <3>2
    <3>3. a = Told(g.n300) /\ b = Told(g.n100) /\ a + b + k = room
      BY <1>6, <1>7, <2>1, <3>2, <3>6
    <3>4. hits.n300 + hits.n100 = room
      BY <1>6, <1>7, <2>1, <2>3, <3>3
    <3>5. (g.n300 # None => a = g.n300) /\ (g.n100 # None => b = g.n100)
      BY <3>3 DEF Told
    <3> QED
      BY <2>3, <3>4, <3>5
  <2>6. ASSUME g.n300 # None, g.n300 <= room, g.n100 # None, g.n100 <= room,
               g.n300 + g.n100 >= room
        PROVE  hits.n300 = g.n300 /\ hits.n100 = g.n100
    <3>1. a = g.n300 /\ b = g.n100
      BY <1>7, <2>6 DEF Told
    <3>2. k = 0
      BY <1>6, <1>7, <2>1, <2>6, <3>1
    <3> QED
      BY <1>7, <2>3, <3>1, <3>2
  <2> QED
    BY <1>3, <1>8, <2>4, <2>5, <2>6
<1> QED
  BY <1>3, <1>9, <1>10

------------------------------------------------------------------------------
(* osu!catch *)

LEMMA CatchOperators ==
    ASSUME NEW a, NEW b, NEW c, NEW d
    PROVE  /\ Catch!UpTo(a, b) = UpTo(a, b) /\ Catch!OrAll(a, b) = OrAll(a, b)
           /\ Catch!MinOf(a, b) = MinOf(a, b) /\ Catch!SatSub(a, b) = SatSub(a, b)
           /\ Catch!Around(a, b, c) = Around(a, b, c)
           /\ Catch!Candidate(a, b, c, d) = Candidate(a, b, c, d)
           /\ Catch!Closest(a) = Closest(a)
<1>1. Catch!MinOf(a, b) = MinOf(a, b) /\ Catch!SatSub(a, b) = SatSub(a, b)
  BY DEF Catch!MinOf, MinOf, Catch!SatSub, SatSub
<1>2. Catch!UpTo(a, b) = UpTo(a, b) /\ Catch!OrAll(a, b) = OrAll(a, b)
  BY DEF Catch!UpTo, UpTo, Catch!OrAll, OrAll, Catch!MinOf, MinOf
<1>3. Catch!Around(a, b, c) = Around(a, b, c)
  BY DEF Catch!Around, Around, Catch!MinOf, MinOf, Catch!FloorU32, FloorU32,
         Catch!CeilU32, CeilU32
<1>4. Catch!Candidate(a, b, c, d) = Candidate(a, b, c, d)
  BY DEF Catch!Candidate, Candidate
<1>5. Catch!Closest(a) = Closest(a)
  BY DEF Catch!Closest, Closest, Catch!Before, Before
<1> QED
  BY <1>1, <1>2, <1>3, <1>4, <1>5

IsPalpable(q) == q.n300 \in Nat /\ q.n100 \in Nat

SharesTiny(r, tiny) == \E t \in 0 .. tiny : r = [n50 |-> t, n_katu |-> tiny - t]

\* Tiny droplets and missed tiny droplets that share those of the map
LEMMA CatchSearches ==
    ASSUME NEW q, IsPalpable(q), NEW misses \in Nat, NEW c, c \in CountsType("catch"),
           NEW acc \in Nat
    PROVE  SharesTiny(Catch!Search(q, misses, c, acc), c.n_tiny_droplets)
<1> DEFINE tiny == c.n_tiny_droplets
           raw == acc * (c.n_fruits + c.n_droplets + tiny) - AccScale * (q.n300 + q.n100)
           A == Catch!Around(raw, AccScale, tiny)
           num(t) == q.n300 + q.n100 + t
           den(t) == q.n300 + q.n100 + t + (tiny - t) + misses
           Q == {<<t>> : t \in A}
           f == [s \in Q |-> Candidate(s, acc, num(s[1]), den(s[1]))]
           F == {e \in {f[s] : s \in Q} : e.over > 0}
<1>0. q.n300 \in Nat /\ q.n100 \in Nat
  BY DEF IsPalpable
<1>1. /\ tiny \in Nat /\ c.n_fruits \in Nat /\ c.n_droplets \in Nat
      /\ A \subseteq 0 .. tiny /\ A # {} /\ IsFiniteSet(A)
  <2>1. tiny \in Nat /\ c.n_fruits \in Nat /\ c.n_droplets \in Nat
    BY DEF CountsType
  <2>2. raw \in Int
    <3>1. PICK x, y \in Int : x = c.n_fruits + c.n_droplets + tiny /\ y = q.n300 + q.n100
      BY <1>0, <2>1
    <3>2. \A u, v, w, z \in Int : u * v - w * z \in Int
      OBVIOUS
    <3>3. acc * x - AccScale * y \in Int
      BY <3>2, AccScaleAssumption
    <3> QED
      BY <3>1, <3>3
  <2>3. A = Around(raw, AccScale, tiny)
    BY CatchOperators
  <2> HIDE DEF A, raw, tiny
  <2> QED
    BY <2>1, <2>2, <2>3, AroundIsNear, AccScaleAssumption
<1> HIDE DEF raw
<1>2. Catch!Search(q, misses, c, acc) =
        IF F = {} THEN [n50 |-> 0, n_katu |-> 0]
        ELSE [n50 |-> Closest(F).hits[1], n_katu |-> tiny - Closest(F).hits[1]]
  <2> DEFINE T == {Catch!Candidate(<<t>>, acc,
                      Catch!Accuracy([n300 |-> q.n300, n100 |-> q.n100,
                                      n50 |-> t, n_katu |-> tiny - t], misses).num,
                      Catch!Accuracy([n300 |-> q.n300, n100 |-> q.n100,
                                      n50 |-> t, n_katu |-> tiny - t], misses).den) : t \in A}
             G == {e \in T : e.over > 0}
  <2>1. Catch!Search(q, misses, c, acc) =
            IF G = {} THEN [n50 |-> 0, n_katu |-> 0]
            ELSE [n50 |-> Catch!Closest(G).hits[1], n_katu |-> tiny - Catch!Closest(G).hits[1]]
    BY DEF Catch!Search, raw
  <2>2. \A t \in A : Catch!Candidate(<<t>>, acc,
                      Catch!Accuracy([n300 |-> q.n300, n100 |-> q.n100,
                                      n50 |-> t, n_katu |-> tiny - t], misses).num,
                      Catch!Accuracy([n300 |-> q.n300, n100 |-> q.n100,
                                      n50 |-> t, n_katu |-> tiny - t], misses).den) = f[<<t>>]
    <3>1. TAKE t \in A
    <3>2. /\ Catch!Accuracy([n300 |-> q.n300, n100 |-> q.n100,
                             n50 |-> t, n_katu |-> tiny - t], misses).num = num(t)
          /\ Catch!Accuracy([n300 |-> q.n300, n100 |-> q.n100,
                             n50 |-> t, n_katu |-> tiny - t], misses).den = den(t)
      BY DEF Catch!Accuracy
    <3>3. f[<<t>>] = Candidate(<<t>>, acc, num(t), den(t))
      <4> HIDE DEF num, den, A, tiny
      <4> QED
        OBVIOUS
    <3> HIDE DEF f, num, den, tiny
    <3>4. Catch!Candidate(<<t>>, acc, num(t), den(t)) = Candidate(<<t>>, acc, num(t), den(t))
      BY CatchOperators, Zenon
    <3> QED
      BY <3>2, <3>3, <3>4, Zenon
  <2>3. T = {f[s] : s \in Q}
    <3> HIDE DEF f, A, tiny
    <3> QED
      BY <2>2
  <2>4. G = F
    BY <2>3
  <2> HIDE DEF G, F, tiny
  <2> QED
    BY <2>1, <2>4, CatchOperators
<1>3. PICK d \in Nat : d = q.n300 + q.n100 + tiny + misses
  BY <1>0, <1>1
<1>4. \A s \in Q : /\ s \in [1 .. 1 -> Int] /\ num(s[1]) \in Int /\ den(s[1]) = d
                   /\ \E t \in 0 .. tiny : s = <<t>>
  <2>1. \A t \in A : num(t) \in Int /\ den(t) = d /\ <<t>> \in [1 .. 1 -> Int] /\ t \in 0 .. tiny
    <3> HIDE DEF A, tiny
    <3> QED
      BY <1>0, <1>1, <1>3
  <2> HIDE DEF num, den, A, tiny
  <2> QED
    BY <2>1
<1>5. \A s \in Q : f[s].hits = s /\ f[s].over = d
  <2>1. TAKE s \in Q
  <2>2. f[s] = Candidate(s, acc, num(s[1]), den(s[1]))
    OBVIOUS
  <2> HIDE DEF f, num, den, Q
  <2>3. f[s] = Candidate(s, acc, num(s[1]), d)
    BY <1>4, <2>2
  <2> QED
    BY <2>3 DEF Candidate
<1>6. CASE d = 0
  <2>1. F = {}
    <3> HIDE DEF f, Q
    <3> QED
      BY <1>5, <1>6
  <2>2. tiny <= 0
    BY <1>0, <1>1, <1>3, <1>6
  <2>3. tiny = 0 /\ tiny - 0 = 0 /\ 0 \in 0 .. tiny
    BY <1>1, <2>2
  <2> HIDE DEF F, tiny
  <2>4. Catch!Search(q, misses, c, acc) = [n50 |-> 0, n_katu |-> tiny - 0]
    BY <1>2, <2>1, <2>3
  <2> QED
    BY <2>3, <2>4 DEF tiny, SharesTiny
<1>7. CASE d # 0
  <2>1. F = {f[s] : s \in Q}
    <3> HIDE DEF f, Q
    <3> QED
      BY <1>3, <1>5, <1>7
  <2>2. Q # {} /\ IsFiniteSet(Q)
    <3> DEFINE g == [t \in A |-> <<t>>]
    <3>1. {g[t] : t \in A} = Q
      OBVIOUS
    <3>2. g = [t \in A |-> g[t]]
      OBVIOUS
    <3>3. IsFiniteSet({g[t] : t \in A})
      <4> HIDE DEF g, A
      <4> QED
        BY <1>1, <3>2, FiniteImage
    <3> QED
      BY <1>1, <3>1, <3>3
  <2>3. \A s \in Q : IsCandidate(f[s], 1)
    <3>1. TAKE s \in Q
    <3>2. f[s] = Candidate(s, acc, num(s[1]), den(s[1]))
      OBVIOUS
    <3>3. s \in [1 .. 1 -> Int] /\ num(s[1]) \in Int /\ den(s[1]) \in Nat \ {0} /\ acc \in Int
      <4> HIDE DEF num, den, Q
      <4> QED
        BY <1>3, <1>4, <1>7
    <3> HIDE DEF f, num, den, Q
    <3>4. IsCandidate(Candidate(s, acc, num(s[1]), den(s[1])), 1)
      BY <3>3, CandidateIs, Zenon
    <3> QED
      BY <3>2, <3>4
  <2>4. f = [s \in Q |-> f[s]]
    OBVIOUS
  <2>5. Closest(F).hits \in Q /\ F # {}
    <3> HIDE DEF f, Q, F
    <3>2. 1 \in Nat /\ \A s \in Q : f[s].hits = s /\ IsCandidate(f[s], 1)
      BY <1>5, <2>3
    <3>1. Closest({f[s] : s \in Q}).hits \in Q
      BY <2>2, <2>4, <3>2, ClosestOfTried
    <3> QED
      BY <2>1, <2>2, <3>1
  <2>6. PICK t \in 0 .. tiny : Closest(F).hits = <<t>>
    <3> HIDE DEF F, Q, tiny
    <3> QED
      BY <1>4, <2>5
  <2>7. Closest(F).hits[1] = t
    <3> HIDE DEF F
    <3> QED
      BY <2>6
  <2> HIDE DEF F
  <2> QED
    BY <1>2, <2>5, <2>6, <2>7 DEF SharesTiny
<1> QED
  BY <1>3, <1>6, <1>7

\* Fruits and droplets share what the misses leave; tiny droplets are hit or
\* missed.
CatchResult(s, i, c) ==
    LET g    == i.given
        all  == c.n_fruits + c.n_droplets
        tiny == c.n_tiny_droplets
    IN  /\ s = [max_combo |-> s.max_combo, n300 |-> s.n300, n100 |-> s.n100, n50 |-> s.n50,
                n_katu |-> s.n_katu, misses |-> s.misses]
        /\ s.misses = UpTo(g.misses, all)
        /\ s.max_combo = IF g.max_combo = None THEN all - s.misses ELSE g.max_combo
        /\ s.n300 \in Nat /\ s.n100 \in Nat /\ s.n300 + s.n100 + s.misses = all
        /\ s.n50 \in Nat /\ s.n_katu \in Nat /\ s.n50 + s.n_katu >= tiny
        /\ Told(g.n50) + Told(g.n_katu) <= tiny \/ i.acc # None => s.n50 + s.n_katu = tiny
        /\ g.n300 # None /\ g.n100 # None /\ g.n300 + g.n100 + s.misses = all =>
                s.n300 = g.n300 /\ s.n100 = g.n100
        /\ /\ g.n50 # None /\ g.n_katu # None
           /\ \/ g.n50 + g.n_katu = tiny
              \/ g.n50 + g.n_katu >= tiny /\ i.acc = None
           => s.n50 = g.n50 /\ s.n_katu = g.n_katu

LEMMA CatchPalpable ==
    ASSUME NEW c \in CountsType("catch"), NEW misses \in 0 .. c.n_fruits + c.n_droplets,
           NEW g, g.n300 \in Nat \cup {None}, g.n100 \in Nat \cup {None}
    PROVE  LET q == Catch!Palpable(g, misses, c)
               all == c.n_fruits + c.n_droplets
           IN  /\ q.n300 \in Nat /\ q.n100 \in Nat /\ q.n300 + q.n100 + misses = all
               /\ g.n300 # None /\ g.n100 # None /\ g.n300 + g.n100 + misses = all =>
                      q.n300 = g.n300 /\ q.n100 = g.n100
<1> DEFINE q == Catch!Palpable(g, misses, c)
<1>1. PICK nf, nd \in Nat : nf = c.n_fruits /\ nd = c.n_droplets
  BY DEF CountsType
<1>2. PICK f, d \in Nat \cup {None} : f = g.n300 /\ d = g.n100
  OBVIOUS
<1>3. PICK m \in Nat : m = misses /\ m <= nf + nd
  BY <1>1
<1>4. CASE f # None /\ d # None
  <2>1. f \in Nat /\ d \in Nat
    BY <1>4
  <2>2. PICK all, fdm \in Nat : all = nf + nd /\ fdm = f + d + m
    BY <2>1
  <2>3. PICK left \in Nat : /\ left = SatSub(all, fdm)
                            /\ fdm <= all => left + fdm = all
                            /\ fdm >= all => left = 0
    BY Saturated
  <2>4. PICK r \in Nat : r = SatSub(nd, d)
    BY <2>1, Saturated
  <2>5. PICK add \in Nat : add = MinOf(left, r) /\ add <= left
    <3>1. MinOf(left, r) \in Nat /\ MinOf(left, r) <= left
      BY DEF MinOf
    <3> QED
      BY <3>1
  <2>6. PICK d1, d1m, f0 \in Nat : d1 = d + add /\ d1m = d1 + m /\ f0 = f + left - add
    BY <2>1, <2>5
  <2>7. PICK k \in Nat : /\ k = SatSub(all, d1m)
                         /\ d1m <= all => k + d1m = all
                         /\ d1m >= all => k = 0
    BY Saturated
  <2>8. PICK f1 \in Nat : f1 = MinOf(f0, k) /\ f1 <= k /\ f1 <= f0 /\ (f1 = k \/ f1 = f0)
    <3>1. MinOf(f0, k) \in Nat /\ MinOf(f0, k) <= k /\ MinOf(f0, k) <= f0
          /\ (MinOf(f0, k) = k \/ MinOf(f0, k) = f0)
      BY DEF MinOf
    <3> QED
      BY <3>1
  <2>9. PICK d2 \in Int : /\ d2 = MinOf(d1, all - f1 - m)
                          /\ d1 <= all - f1 - m => d2 = d1
                          /\ d1 >= all - f1 - m => d2 = all - f1 - m
    <3>1. PICK z \in Int : z = all - f1 - m
      OBVIOUS
    <3>2. MinOf(d1, z) \in Int /\ (d1 <= z => MinOf(d1, z) = d1) /\ (d1 >= z => MinOf(d1, z) = z)
      BY DEF MinOf
    <3> QED
      BY <3>1, <3>2
  <2>10. q = [n300 |-> f1, n100 |-> d2]
    <3>1. Catch!SatSub(nf + nd, f + d + misses) = left
      BY <1>3, <2>2, <2>3, CatchOperators
    <3>2. Catch!MinOf(left, Catch!SatSub(nd, d)) = add
      BY <2>4, <2>5, CatchOperators
    <3>3. Catch!SatSub(nf + nd, d + add + misses) = k
      BY <1>3, <2>2, <2>6, <2>7, CatchOperators
    <3>4. Catch!MinOf(f + left - add, k) = f1
      BY <2>6, <2>8, CatchOperators
    <3>5. Catch!MinOf(d + add, nf + nd - f1 - misses) = d2
      BY <1>3, <2>2, <2>6, <2>9, CatchOperators
    <3> QED
      BY <1>1, <1>2, <1>4, <3>1, <3>2, <3>3, <3>4, <3>5 DEF Catch!Palpable
  <2>14. left + f + d + m >= all /\ f + left = f0 + add /\ d1 = d + add /\ m <= all
    BY <1>3, <2>1, <2>2, <2>3, <2>5, <2>6
  <2>15. f1 + d1 + m >= all
    BY <2>1, <2>6, <2>7, <2>8, <2>14
  <2>16. all - f1 - m >= 0
    BY <2>6, <2>7, <2>8, <2>14
  <2>11. d2 \in Nat /\ f1 + d2 + m = all
    BY <2>9, <2>15, <2>16
  <2>12. fdm = all => f1 = f /\ d2 = d
    <3>1. SUFFICES ASSUME fdm = all PROVE f1 = f /\ d2 = d
      OBVIOUS
    <3>2. left = 0 /\ add = 0
      BY <2>3, <2>5, <3>1
    <3>3. d1 = d /\ f0 = f /\ k = f
      BY <1>3, <2>1, <2>2, <2>6, <2>7, <3>1, <3>2
    <3>4. f1 = f
      BY <2>8, <3>3
    <3> QED
      BY <2>1, <2>2, <2>11, <3>1, <3>4
  <2>13. q.n300 = f1 /\ q.n100 = d2
    BY <2>10
  <2> QED
    BY <1>1, <1>2, <1>3, <2>2, <2>11, <2>12, <2>13
<1>5. CASE f # None /\ d = None
  <2>1. f \in Nat
    BY <1>5
  <2>2. PICK a \in Nat : a = SatSub(nf, f) /\ a <= nf
    BY <2>1, Saturated
  <2>3. PICK b \in Nat : b = SatSub(m, a) /\ (a <= m => b + a = m) /\ (a >= m => b = 0)
    BY <1>3, Saturated
  <2>4. PICK e \in Nat : e = SatSub(nd, b) /\ (b <= nd => e + b = nd) /\ (b >= nd => e = 0)
    BY Saturated
  <2>5. q = [n300 |-> nf + nd - m - e, n100 |-> e]
    <3>1. Catch!SatSub(nd, Catch!SatSub(misses, Catch!SatSub(nf, f))) = e
      BY <1>3, <2>2, <2>3, <2>4, CatchOperators
    <3> QED
      BY <1>1, <1>2, <1>3, <1>5, <3>1 DEF Catch!Palpable
  <2>6. nf + nd - m - e \in Nat /\ nf + nd - m - e + e + m = nf + nd
    BY <1>3, <2>2, <2>3, <2>4
  <2> QED
    BY <1>1, <1>2, <1>3, <1>5, <2>5, <2>6
<1>6. CASE f = None /\ d # None
  <2>1. d \in Nat
    BY <1>6
  <2>2. PICK a \in Nat : a = SatSub(nd, d) /\ a <= nd
    BY <2>1, Saturated
  <2>3. PICK b \in Nat : b = SatSub(m, a) /\ (a <= m => b + a = m) /\ (a >= m => b = 0)
    BY <1>3, Saturated
  <2>4. PICK e \in Nat : e = SatSub(nf, b) /\ (b <= nf => e + b = nf) /\ (b >= nf => e = 0)
    BY Saturated
  <2>5. q = [n300 |-> e, n100 |-> nf + nd - m - e]
    <3>1. Catch!SatSub(nf, Catch!SatSub(misses, Catch!SatSub(nd, d))) = e
      BY <1>3, <2>2, <2>3, <2>4, CatchOperators
    <3> QED
      BY <1>1, <1>2, <1>3, <1>6, <3>1 DEF Catch!Palpable
  <2>6. nf + nd - m - e \in Nat /\ nf + nd - m - e + e + m = nf + nd
    BY <1>3, <2>2, <2>3, <2>4
  <2> QED
    BY <1>1, <1>2, <1>3, <1>6, <2>5, <2>6
<1>7. CASE f = None /\ d = None
  <2>1. PICK e \in Nat : e = SatSub(nd, m) /\ (m <= nd => e + m = nd) /\ (m >= nd => e = 0)
    BY <1>1, <1>3 DEF SatSub
  <2>2. PICK a \in Nat : a = SatSub(nd, e) /\ a + e = nd
    BY <1>1, <1>3, <2>1 DEF SatSub
  <2>3. q = [n300 |-> nf - (m - a), n100 |-> e]
    <3>1. Catch!SatSub(nd, misses) = e
      BY <1>3, <2>1, CatchOperators
    <3>2. Catch!SatSub(nd, e) = a
      BY <2>2, CatchOperators
    <3> QED
      BY <1>1, <1>2, <1>3, <1>7, <3>1, <3>2 DEF Catch!Palpable
  <2>4. nf - (m - a) \in Nat /\ nf - (m - a) + e + m = nf + nd
    BY <1>1, <1>3, <2>1, <2>2
  <2> QED
    BY <1>1, <1>2, <1>3, <1>7, <2>3, <2>4
<1> QED
  BY <1>4, <1>5, <1>6, <1>7

LEMMA CatchTiny ==
    ASSUME NEW c \in CountsType("catch"), NEW misses \in Nat,
           NEW g, g.n50 \in Nat \cup {None}, g.n_katu \in Nat \cup {None},
           NEW q, IsPalpable(q), NEW acc \in Nat \cup {None}
    PROVE  LET r == Catch!Tiny(g, q, misses, c, acc)
               tiny == c.n_tiny_droplets
           IN  /\ r.n50 \in Nat /\ r.n_katu \in Nat /\ r.n50 + r.n_katu >= tiny
               /\ Told(g.n50) + Told(g.n_katu) <= tiny \/ acc # None => r.n50 + r.n_katu = tiny
               /\ /\ g.n50 # None /\ g.n_katu # None
                  /\ \/ g.n50 + g.n_katu = tiny
                     \/ g.n50 + g.n_katu >= tiny /\ acc = None
                  => r.n50 = g.n50 /\ r.n_katu = g.n_katu
<1> DEFINE r == Catch!Tiny(g, q, misses, c, acc)
<1>1. PICK tiny \in Nat : tiny = c.n_tiny_droplets
  BY DEF CountsType
<1>2. PICK t, k \in Nat \cup {None} : t = g.n50 /\ k = g.n_katu
  OBVIOUS
<1>3. acc # None =>
         \E v \in 0 .. tiny : Catch!Search(q, misses, c, acc) = [n50 |-> v, n_katu |-> tiny - v]
  <2>1. acc # None => SharesTiny(Catch!Search(q, misses, c, acc), c.n_tiny_droplets)
    BY CatchSearches
  <2> QED
    BY <1>1, <2>1 DEF SharesTiny
<1>4. CASE r = Catch!Search(q, misses, c, acc) /\ acc # None
           /\ ~(t # None /\ k # None /\ t + k = tiny)
  <2>1. PICK v \in 0 .. tiny : r = [n50 |-> v, n_katu |-> tiny - v]
    BY <1>3, <1>4
  <2> HIDE DEF r
  <2>2. r.n50 = v /\ r.n_katu = tiny - v
    BY <2>1
  <2> QED
    BY <1>1, <1>2, <1>4, <2>2 DEF r
<1>5. CASE t # None /\ k # None
  <2>1. t \in Nat /\ k \in Nat /\ Told(t) = t /\ Told(k) = k
    BY <1>5 DEF Told
  <2>2. CASE acc # None /\ t + k = tiny
    <3>1. r = [n50 |-> t, n_katu |-> k]
      BY <1>1, <1>2, <1>5, <2>2 DEF Catch!Tiny
    <3> QED
      BY <1>1, <1>2, <2>1, <2>2, <3>1
  <2>3. CASE acc # None /\ t + k # tiny
    <3>1. r = Catch!Search(q, misses, c, acc)
      BY <1>1, <1>2, <1>5, <2>3 DEF Catch!Tiny
    <3> QED
      BY <1>4, <2>3, <3>1
  <2>4. CASE acc = None
    <3>0. PICK tk \in Nat : tk = t + k
      BY <2>1
    <3>1. PICK e \in Nat : e = SatSub(tiny, t + k) /\ (t + k <= tiny => e + t + k = tiny)
                           /\ (t + k >= tiny => e = 0)
      <4>1. PICK e \in Nat : e = SatSub(tiny, tk) /\ (tk <= tiny => e + tk = tiny)
                             /\ (tk >= tiny => e = 0)
        BY Saturated
      <4> QED
        BY <2>1, <3>0, <4>1
    <3>2. r = [n50 |-> t + e, n_katu |-> k]
      BY <1>1, <1>2, <1>5, <2>4, <3>1, CatchOperators DEF Catch!Tiny
    <3> HIDE DEF r
    <3>3. r.n50 = t + e /\ r.n_katu = k
      BY <3>2
    <3> QED
      BY <1>1, <1>2, <2>1, <2>4, <3>1, <3>3 DEF r
  <2> QED
    BY <2>2, <2>3, <2>4
<1>6. CASE t # None /\ k = None
  <2>1. t \in Nat /\ Told(t) = t /\ Told(k) = 0
    BY <1>6 DEF Told
  <2>2. r = [n50 |-> MinOf(tiny, t), n_katu |-> SatSub(tiny, t)]
    BY <1>1, <1>2, <1>6, CatchOperators DEF Catch!Tiny
  <2>3. PICK a, b \in Nat : a = MinOf(tiny, t) /\ b = SatSub(tiny, t) /\ a + b = tiny
    BY <2>1 DEF MinOf, SatSub
  <2> QED
    BY <1>1, <1>2, <1>6, <2>1, <2>2, <2>3
<1>7. CASE t = None /\ k # None
  <2>1. k \in Nat /\ Told(k) = k /\ Told(t) = 0
    BY <1>7 DEF Told
  <2>2. r = [n50 |-> SatSub(tiny, k), n_katu |-> MinOf(tiny, k)]
    BY <1>1, <1>2, <1>7, CatchOperators DEF Catch!Tiny
  <2>3. PICK a, b \in Nat : a = MinOf(tiny, k) /\ b = SatSub(tiny, k) /\ a + b = tiny
    BY <2>1 DEF MinOf, SatSub
  <2> QED
    BY <1>1, <1>2, <1>7, <2>1, <2>2, <2>3
<1>8. CASE t = None /\ k = None
  <2>1. CASE acc # None
    <3>1. r = Catch!Search(q, misses, c, acc)
      BY <1>1, <1>2, <1>8, <2>1 DEF Catch!Tiny
    <3> QED
      BY <1>4, <1>8, <2>1, <3>1
  <2>2. CASE acc = None
    <3>1. r = [n50 |-> tiny, n_katu |-> 0]
      BY <1>1, <1>2, <1>8, <2>2 DEF Catch!Tiny
    <3> QED
      BY <1>1, <1>2, <1>8, <3>1
  <2> QED
    BY <2>1, <2>2
<1> QED
  BY <1>5, <1>6, <1>7, <1>8

LEMMA CatchGenerates ==
    ASSUME NEW i, IsInput("catch", i), NEW c \in CountsType("catch")
    PROVE  CatchResult(Catch!Generate(i, c), i, c)
<1> DEFINE g      == i.given
           all    == c.n_fruits + c.n_droplets
           misses == Catch!UpTo(g.misses, Catch!NObjects(i, c))
           q      == Catch!Palpable(g, misses, c)
           t      == Catch!Tiny(g, q, misses, c, i.acc)
           combo  == IF g.max_combo = None THEN Catch!NObjects(i, c) - misses ELSE g.max_combo
<1>1. Catch!Generate(i, c) =
        [max_combo |-> combo, n300 |-> q.n300, n100 |-> q.n100, n50 |-> t.n50,
         n_katu |-> t.n_katu, misses |-> misses]
  BY DEF Catch!Generate
<1>2. /\ g.misses \in Nat \cup {None} /\ g.n300 \in Nat \cup {None}
      /\ g.n100 \in Nat \cup {None} /\ g.n50 \in Nat \cup {None}
      /\ g.n_katu \in Nat \cup {None} /\ i.acc \in Nat \cup {None}
  BY DEF IsInput, Fields, Catch!Fields
<1>3. Catch!NObjects(i, c) = all /\ all \in Nat
  BY DEF Catch!NObjects, CountsType
<1>4. misses = UpTo(g.misses, all) /\ combo = IF g.max_combo = None THEN all - misses ELSE g.max_combo
  BY <1>3, CatchOperators
<1>5. misses \in 0 .. all /\ misses \in Nat
  <2> HIDE DEF misses, all
  <2>1. PICK n \in Nat : n = all
    BY <1>3
  <2>2. UpTo(g.misses, n) \in 0 .. n
    BY <1>2, LimitedToTold
  <2>3. misses \in 0 .. n
    BY <1>4, <2>1, <2>2
  <2> QED
    BY <2>1, <2>3
<1> HIDE DEF misses, combo
<1>6. /\ q.n300 \in Nat /\ q.n100 \in Nat /\ q.n300 + q.n100 + misses = all
      /\ g.n300 # None /\ g.n100 # None /\ g.n300 + g.n100 + misses = all =>
             q.n300 = g.n300 /\ q.n100 = g.n100
  BY <1>2, <1>5, CatchPalpable
<1> HIDE DEF q
<1>7. /\ t.n50 \in Nat /\ t.n_katu \in Nat /\ t.n50 + t.n_katu >= c.n_tiny_droplets
      /\ Told(g.n50) + Told(g.n_katu) <= c.n_tiny_droplets \/ i.acc # None =>
             t.n50 + t.n_katu = c.n_tiny_droplets
      /\ /\ g.n50 # None /\ g.n_katu # None
         /\ \/ g.n50 + g.n_katu = c.n_tiny_droplets
            \/ g.n50 + g.n_katu >= c.n_tiny_droplets /\ i.acc = None
         => t.n50 = g.n50 /\ t.n_katu = g.n_katu
  <2>1. IsPalpable(q)
    BY <1>6 DEF IsPalpable
  <2> QED
    BY <1>2, <1>5, <2>1, CatchTiny
<1> HIDE DEF t
<1>8. PICK s : s = Catch!Generate(i, c)
  OBVIOUS
<1>9. /\ s = [max_combo |-> s.max_combo, n300 |-> s.n300, n100 |-> s.n100, n50 |-> s.n50,
              n_katu |-> s.n_katu, misses |-> s.misses]
      /\ s.max_combo = combo /\ s.n300 = q.n300 /\ s.n100 = q.n100 /\ s.n50 = t.n50
      /\ s.n_katu = t.n_katu /\ s.misses = misses
  BY <1>1, <1>8
<1>10. CatchResult(s, i, c)
  BY <1>4, <1>6, <1>7, <1>9, Zenon DEF CatchResult
<1> QED
  BY <1>8, <1>10

------------------------------------------------------------------------------
(* osu! *)

LEMMA OsuOperators ==
    ASSUME NEW a, NEW b, NEW c, NEW d, NEW e
    PROVE  /\ Osu!UpTo(a, b) = UpTo(a, b) /\ Osu!OrAll(a, b) = OrAll(a, b)
           /\ Osu!MinOf(a, b) = MinOf(a, b) /\ Osu!SatSub(a, b) = SatSub(a, b)
           /\ Osu!Around(a, b, c) = Around(a, b, c)
           /\ Osu!Candidate(a, b, c, d) = Candidate(a, b, c, d)
           /\ Osu!Closest(a) = Closest(a) /\ Osu!Open(a, b) = Open(a, b)
           /\ Osu!Fill(a, b, c, d, e) = Fill(a, b, c, d, e)
           /\ Osu!Cardinality(a) = Cardinality(a)
<1>1. Osu!MinOf(a, b) = MinOf(a, b) /\ Osu!SatSub(a, b) = SatSub(a, b)
  BY DEF Osu!MinOf, MinOf, Osu!SatSub, SatSub
<1>2. Osu!UpTo(a, b) = UpTo(a, b) /\ Osu!OrAll(a, b) = OrAll(a, b)
  BY DEF Osu!UpTo, UpTo, Osu!OrAll, OrAll, Osu!MinOf, MinOf
<1>3. Osu!Around(a, b, c) = Around(a, b, c)
  BY DEF Osu!Around, Around, Osu!MinOf, MinOf, Osu!FloorU32, FloorU32, Osu!CeilU32, CeilU32
<1>4. Osu!Candidate(a, b, c, d) = Candidate(a, b, c, d)
  BY DEF Osu!Candidate, Candidate
<1>5. Osu!Closest(a) = Closest(a)
  BY DEF Osu!Closest, Closest, Osu!Before, Before
<1>6. Osu!Open(a, b) = Open(a, b)
  BY DEF Osu!Open, Open
<1>7. Osu!Fill(a, b, c, d, e) = Fill(a, b, c, d, e)
  BY DEF Osu!Fill, Fill, Osu!Open, Open, Osu!Reverse, Reverse, Osu!SatSub, SatSub,
         Osu!SumOver, SumOver
<1>8. Osu!Cardinality(a) = Cardinality(a)
  BY DEF Osu!Cardinality, Cardinality
<1> QED
  BY <1>1, <1>2, <1>3, <1>4, <1>5, <1>6, <1>7, <1>8

\* Tuples of numbers up to a bound are finitely many.
LEMMA FiniteTuples ==
    ASSUME NEW m \in Nat
    PROVE  /\ IsFiniteSet({<<e[1][1], e[1][2], e[2][1], e[2][2]>> :
                              e \in ((0 .. m) \X (0 .. m)) \X ((0 .. m) \X (0 .. m))})
           /\ IsFiniteSet({<<e[1][1], e[1][2], e[2][1]>> :
                              e \in ((0 .. m) \X (0 .. m)) \X ((0 .. m) \X (0 .. m))})
<1> DEFINE P == ((0 .. m) \X (0 .. m)) \X ((0 .. m) \X (0 .. m))
           f4 == [e \in P |-> <<e[1][1], e[1][2], e[2][1], e[2][2]>>]
           f3 == [e \in P |-> <<e[1][1], e[1][2], e[2][1]>>]
<1>1. IsFiniteSet(P)
  <2>1. IsFiniteSet(0 .. m)
    BY FS_Interval
  <2>2. IsFiniteSet((0 .. m) \X (0 .. m))
    BY <2>1, FS_Product
  <2> QED
    BY <2>2, FS_Product
<1>2. f4 = [e \in P |-> f4[e]] /\ f3 = [e \in P |-> f3[e]]
  OBVIOUS
<1>3. IsFiniteSet({f4[e] : e \in P}) /\ IsFiniteSet({f3[e] : e \in P})
  <2> HIDE DEF f4, f3, P
  <2> QED
    BY <1>1, <1>2, FiniteImage
<1>4. /\ {f4[e] : e \in P} = {<<e[1][1], e[1][2], e[2][1], e[2][2]>> : e \in P}
      /\ {f3[e] : e \in P} = {<<e[1][1], e[1][2], e[2][1]>> : e \in P}
  <2> HIDE DEF P
  <2> QED
    OBVIOUS
<1> QED
  BY <1>3, <1>4

LEMMA FiniteTriples ==
    ASSUME NEW m \in Nat, NEW T, \A t \in T : \E x, y, z \in 0 .. m : t = <<x, y, z>>
    PROVE  IsFiniteSet(T)
<1> DEFINE P == ((0 .. m) \X (0 .. m)) \X ((0 .. m) \X (0 .. m))
           I == {<<e[1][1], e[1][2], e[2][1]>> : e \in P}
<1>1. IsFiniteSet(I)
  BY FiniteTuples
<1>2. ASSUME NEW t \in T
      PROVE  t \in I
  <2>1. PICK x, y, z \in 0 .. m : t = <<x, y, z>>
    OBVIOUS
  <2>2. PICK e : e = <<<<x, y>>, <<z, z>>>>
    OBVIOUS
  <2>3. e \in P /\ e[1][1] = x /\ e[1][2] = y /\ e[2][1] = z
    BY <2>2
  <2> QED
    BY <2>1, <2>3
<1> HIDE DEF I
<1>3. T \in SUBSET I
  BY <1>2
<1> QED
  BY <1>1, <1>3, FS_Subset

LEMMA FiniteQuadruples ==
    ASSUME NEW m \in Nat, NEW T, \A t \in T : \E x, y, z, w \in 0 .. m : t = <<x, y, z, w>>
    PROVE  IsFiniteSet(T)
<1> DEFINE P == ((0 .. m) \X (0 .. m)) \X ((0 .. m) \X (0 .. m))
           I == {<<e[1][1], e[1][2], e[2][1], e[2][2]>> : e \in P}
<1>1. IsFiniteSet(I)
  BY FiniteTuples
<1>2. ASSUME NEW t \in T
      PROVE  t \in I
  <2>1. PICK x, y, z, w \in 0 .. m : t = <<x, y, z, w>>
    OBVIOUS
  <2>2. PICK e : e = <<<<x, y>>, <<z, w>>>>
    OBVIOUS
  <2>3. e \in P /\ e[1][1] = x /\ e[1][2] = y /\ e[2][1] = z /\ e[2][2] = w
    BY <2>2
  <2> QED
    BY <2>1, <2>3
<1> HIDE DEF I
<1>3. T \in SUBSET I
  BY <1>2
<1> QED
  BY <1>1, <1>3, FS_Subset

\* The counts the caller gave, limited one by one
Limits(h, room) == h.n300 \in 0 .. room /\ h.n100 \in 0 .. room /\ h.n50 \in 0 .. room

AtMostOne(given) ==
    /\ given.n300 # None => given.n100 = None /\ given.n50 = None
    /\ given.n100 # None => given.n50 = None

\* Counts of 300s, 100s and 50s that share what the misses leave and agree with
\* the caller
OsuShare(t, given, h, room) ==
    \E x, y, z \in 0 .. room :
        /\ t = <<x, y, z>> /\ x + y + z = room
        /\ given.n300 # None => x = h.n300
        /\ given.n100 # None => y = h.n100
        /\ given.n50 # None => z = h.n50

LEMMA Products ==
    ASSUME NEW x \in Int, NEW y \in Int
    PROVE  x * y \in Int
OBVIOUS

LEMMA OsuTries ==
    ASSUME NEW n \in Nat, NEW misses \in 0 .. n, NEW given, AtMostOne(given),
           NEW h, Limits(h, n - misses), NEW acc \in Nat, NEW slider, NEW max,
           Osu!SliderValue(slider) \in Nat, Osu!SliderValue(max) \in Nat
    PROVE  LET T == Osu!Tried(given, h, n, misses, acc, slider, max)
           IN  T # {} /\ \A t \in T : OsuShare(t, given, h, n - misses)
<1>1. PICK room \in Nat : room = n - misses
  OBVIOUS
<1>2. h.n300 \in 0 .. room /\ h.n100 \in 0 .. room /\ h.n50 \in 0 .. room
  BY <1>1 DEF Limits
<1> DEFINE T == Osu!Tried(given, h, n, misses, acc, slider, max)
           target == acc * (300 * n + Osu!SliderValue(max))
           Raw(value) == target - AccScale * (value + Osu!SliderValue(slider))
           Near(v, k, cap) == Osu!Around(Raw(v), k * AccScale, cap)
<1>3. ASSUME NEW v \in Int, NEW k \in Nat \ {0}, NEW cap \in Nat
      PROVE  Near(v, k, cap) # {} /\ Near(v, k, cap) \subseteq 0 .. cap
  <2>1. target \in Int
    BY Products
  <2>2. PICK w \in Int : w = v + Osu!SliderValue(slider)
    OBVIOUS
  <2>3. AccScale * w \in Int
    BY Products, AccScaleAssumption
  <2> HIDE DEF target
  <2>4. PICK raw \in Int : raw = Raw(v)
    BY <2>1, <2>2, <2>3
  <2>5. PICK den \in Nat \ {0} : den = k * AccScale
    <3>1. \A x, y \in Nat \ {0} : x * y \in Nat \ {0}
      OBVIOUS
    <3> QED
      BY <3>1, AccScaleAssumption
  <2>6. Near(v, k, cap) = Around(raw, den, cap)
    BY <2>4, <2>5, OsuOperators
  <2> QED
    BY <2>6, AroundIsNear
<1> HIDE DEF target, Raw, Near
<1>4. CASE given.n300 # None
  <2>1. PICK r, v \in Nat : r = room - h.n300 /\ v = 50 * r + 300 * h.n300
    BY <1>2
  <2>2. T = {<<h.n300, y, r - y>> : y \in Near(v, 50, r)}
    <3> DEFINE Shares(rest, value) == {<<h.n300, y, rest - y>> : y \in Near(value, 50, rest)}
    <3>1. T = Shares((n - misses) - h.n300, 50 * ((n - misses) - h.n300) + 300 * h.n300)
      BY <1>4 DEF AtMostOne, Osu!Tried, Near, Raw, target
    <3>2. (n - misses) - h.n300 = r /\ 50 * ((n - misses) - h.n300) + 300 * h.n300 = v
      BY <1>1, <2>1
    <3>3. T = Shares(r, v)
      <4> HIDE DEF T, Shares
      <4> QED
        BY <3>1, <3>2, Zenon
    <3> QED
      BY <3>3
  <2>3. Near(v, 50, r) # {} /\ Near(v, 50, r) \subseteq 0 .. r
    <3>1. v \in Int /\ 50 \in Nat \ {0}
      OBVIOUS
    <3> QED
      BY <1>3, <3>1, Zenon
  <2>4. ASSUME NEW t \in T
        PROVE  OsuShare(t, given, h, room)
    <3>1. PICK y \in 0 .. r : t = <<h.n300, y, r - y>>
      BY <2>2, <2>3
    <3>2. PICK x, z \in 0 .. room : x = h.n300 /\ z = r - y /\ y \in 0 .. room /\ x + y + z = room
      BY <1>2, <2>1
    <3>3. given.n100 = None /\ given.n50 = None
      BY <1>4 DEF AtMostOne
    <3> QED
      BY <3>1, <3>2, <3>3 DEF OsuShare
  <2>5. T # {}
    <3>1. PICK y : y \in Near(v, 50, r)
      BY <2>3
    <3> HIDE DEF T
    <3> QED
      BY <2>2, <3>1
  <2>6. T # {} /\ \A t \in T : OsuShare(t, given, h, n - misses)
    <3> HIDE DEF T
    <3> QED
      BY <1>1, <2>4, <2>5
  <2> QED
    BY ONLY <2>6
<1>5. CASE given.n300 = None /\ given.n100 # None
  <2>1. PICK r, v \in Nat : r = room - h.n100 /\ v = 50 * r + 100 * h.n100
    BY <1>2
  <2>2. T = {<<x, h.n100, r - x>> : x \in Near(v, 250, r)}
    <3> DEFINE Shares(rest, value) == {<<x, h.n100, rest - x>> : x \in Near(value, 250, rest)}
    <3>1. T = Shares((n - misses) - h.n100, 50 * ((n - misses) - h.n100) + 100 * h.n100)
      BY <1>5 DEF AtMostOne, Osu!Tried, Near, Raw, target
    <3>2. (n - misses) - h.n100 = r /\ 50 * ((n - misses) - h.n100) + 100 * h.n100 = v
      BY <1>1, <2>1
    <3>3. T = Shares(r, v)
      <4> HIDE DEF T, Shares
      <4> QED
        BY <3>1, <3>2, Zenon
    <3> QED
      BY <3>3
  <2>3. Near(v, 250, r) # {} /\ Near(v, 250, r) \subseteq 0 .. r
    <3>1. v \in Int /\ 250 \in Nat \ {0}
      OBVIOUS
    <3> QED
      BY <1>3, <3>1, Zenon
  <2>4. ASSUME NEW t \in T
        PROVE  OsuShare(t, given, h, room)
    <3>1. PICK x \in 0 .. r : t = <<x, h.n100, r - x>>
      BY <2>2, <2>3
    <3>2. PICK y, z \in 0 .. room : y = h.n100 /\ z = r - x /\ x \in 0 .. room /\ x + y + z = room
      BY <1>2, <2>1
    <3>3. given.n50 = None
      BY <1>5 DEF AtMostOne
    <3> QED
      BY <1>5, <3>1, <3>2, <3>3 DEF OsuShare
  <2>5. T # {}
    <3>1. PICK y : y \in Near(v, 250, r)
      BY <2>3
    <3> HIDE DEF T
    <3> QED
      BY <2>2, <3>1
  <2>6. T # {} /\ \A t \in T : OsuShare(t, given, h, n - misses)
    <3> HIDE DEF T
    <3> QED
      BY <1>1, <2>4, <2>5
  <2> QED
    BY ONLY <2>6
<1>6. CASE given.n300 = None /\ given.n100 = None /\ given.n50 # None
  <2>1. PICK r \in Nat, v \in Int : r = room - h.n50 /\ v = 100 * n - 100 * misses - 50 * h.n50
    BY <1>2
  <2>2. T = {<<x, r - x, h.n50>> : x \in Near(v, 200, r)}
    BY <1>1, <1>6, <2>1 DEF Osu!Tried, Near, Raw, target
  <2>3. Near(v, 200, r) # {} /\ Near(v, 200, r) \subseteq 0 .. r
    <3>1. v \in Int /\ 200 \in Nat \ {0}
      OBVIOUS
    <3> QED
      BY <1>3, <3>1, Zenon
  <2>4. ASSUME NEW t \in T
        PROVE  OsuShare(t, given, h, room)
    <3>1. PICK x \in 0 .. r : t = <<x, r - x, h.n50>>
      BY <2>2, <2>3
    <3>2. PICK y, z \in 0 .. room : y = r - x /\ z = h.n50 /\ x \in 0 .. room /\ x + y + z = room
      BY <1>2, <2>1
    <3> QED
      BY <1>6, <3>1, <3>2 DEF OsuShare
  <2>5. T # {}
    <3>1. PICK y : y \in Near(v, 200, r)
      BY <2>3
    <3> HIDE DEF T
    <3> QED
      BY <2>2, <3>1
  <2>6. T # {} /\ \A t \in T : OsuShare(t, given, h, n - misses)
    <3> HIDE DEF T
    <3> QED
      BY <1>1, <2>4, <2>5
  <2> QED
    BY ONLY <2>6
<1>7. CASE given.n300 = None /\ given.n100 = None /\ given.n50 = None
  <2> DEFINE X == Near(50 * room, 250, room)
             Y(x) == Near(50 * room + 250 * x, 50, room - x)
  <2>1. T = UNION {{<<x, y, room - x - y>> : y \in Y(x)} : x \in X}
    BY <1>1, <1>7 DEF Osu!Tried, Near, Raw, target
  <2>2. X # {} /\ X \subseteq 0 .. room
    <3>1. PICK v \in Int : v = 50 * room
      OBVIOUS
    <3>2. 250 \in Nat \ {0}
      OBVIOUS
    <3> QED
      BY <1>3, <3>1, <3>2, Zenon
  <2>3. \A x \in X : x \in 0 .. room /\ Y(x) # {} /\ Y(x) \subseteq 0 .. room - x
    <3>1. TAKE x \in X
    <3>2. x \in 0 .. room
      BY <2>2
    <3>3. PICK v \in Int, cap \in Nat : v = 50 * room + 250 * x /\ cap = room - x
      BY <3>2
    <3>4. 50 \in Nat \ {0}
      OBVIOUS
    <3>5. Near(v, 50, cap) # {} /\ Near(v, 50, cap) \subseteq 0 .. cap
      BY <1>3, <3>4, Zenon
    <3>6. Y(x) = Near(v, 50, cap)
      BY <3>3
    <3> HIDE DEF X, Y
    <3> QED
      BY <3>2, <3>3, <3>5, <3>6
  <2> HIDE DEF X, Y
  <2>4. ASSUME NEW t \in T
        PROVE  OsuShare(t, given, h, room)
    <3>1. PICK x \in X : t \in {<<x, y, room - x - y>> : y \in Y(x)}
      BY <2>1
    <3>2. PICK y \in Y(x) : t = <<x, y, room - x - y>>
      BY <3>1
    <3>3. x \in 0 .. room /\ y \in 0 .. room - x
      BY <2>3
    <3>4. PICK z \in 0 .. room : z = room - x - y /\ y \in 0 .. room /\ x + y + z = room
      BY <3>3
    <3> QED
      BY <1>7, <3>2, <3>3, <3>4 DEF OsuShare
  <2>5. T # {}
    <3>1. PICK x \in X : Y(x) # {}
      BY <2>2, <2>3
    <3>2. PICK y : y \in Y(x)
      BY <3>1
    <3>3. PICK U : U = {<<x, yy, room - x - yy>> : yy \in Y(x)}
      OBVIOUS
    <3>4. U \subseteq T
      BY <2>1, <3>3
    <3>5. <<x, y, room - x - y>> \in U
      BY <3>2, <3>3
    <3> QED
      BY <3>4, <3>5
  <2> QED
    BY <1>1, <2>4, <2>5
<1> QED
  BY <1>4, <1>5, <1>6, <1>7

LEMMA OsuShifts ==
    ASSUME NEW room \in Nat, NEW x \in 0 .. room, NEW y \in 0 .. room, NEW z \in 0 .. room,
           x + y + z = room, NEW best \in BOOLEAN
    PROVE  \E a, b, c \in 0 .. room : a + b + c = room /\ Osu!Shift(<<x, y, z>>, best) = <<a, b, c>>
<1>1. CASE best
  <2>1. PICK q \in Nat : q = z \div 4 /\ 4 * q <= z
    <3>1. z \div 4 \in Nat /\ 4 * (z \div 4) <= z
      OBVIOUS
    <3> QED
      BY <3>1
  <2>2. PICK k \in Nat : k = MinOf(x, q) /\ k <= x /\ k <= q
    <3>1. MinOf(x, q) \in Nat /\ MinOf(x, q) <= x /\ MinOf(x, q) <= q
      BY DEF MinOf
    <3> QED
      BY <3>1
  <2>3. PICK a, b, c \in 0 .. room :
            a = x - k /\ b = y + 5 * k /\ c = z - 4 * k /\ a + b + c = room
    <3>1. 4 * k <= z
      BY <2>1, <2>2
    <3>2. x - k \in 0 .. room /\ y + 5 * k \in 0 .. room /\ z - 4 * k \in 0 .. room
          /\ x - k + (y + 5 * k) + (z - 4 * k) = room
      BY <2>2, <3>1
    <3> QED
      BY <3>2
  <2>4. Osu!MinOf(x, z \div 4) = k
    BY <2>1, <2>2, OsuOperators
  <2>5. Osu!Shift(<<x, y, z>>, best) = <<x - k, y + 5 * k, z - 4 * k>>
    <3> DEFINE s == <<x, y, z>>
    <3>1. s[1] = x /\ s[2] = y /\ s[3] = z
      OBVIOUS
    <3> HIDE DEF s
    <3>2. Osu!Shift(s, best) = <<x - k, y + 5 * k, z - 4 * k>>
      BY <1>1, <2>4, <3>1 DEF Osu!Shift
    <3> QED
      BY <3>2 DEF s
  <2> QED
    BY <2>3, <2>5
<1>2. CASE ~best
  <2>1. PICK k \in Nat : k = y \div 5 /\ 5 * k <= y
    <3>1. y \div 5 \in Nat /\ 5 * (y \div 5) <= y
      OBVIOUS
    <3> QED
      BY <3>1
  <2>2. PICK a, b, c \in 0 .. room :
            a = x + k /\ b = y - 5 * k /\ c = z + 4 * k /\ a + b + c = room
    <3>1. x + k \in 0 .. room /\ y - 5 * k \in 0 .. room /\ z + 4 * k \in 0 .. room
          /\ x + k + (y - 5 * k) + (z + 4 * k) = room
      BY <2>1
    <3> QED
      BY <3>1
  <2>3. Osu!Shift(<<x, y, z>>, best) = <<x + k, y - 5 * k, z + 4 * k>>
    <3> DEFINE s == <<x, y, z>>
    <3>1. s[1] = x /\ s[2] = y /\ s[3] = z
      OBVIOUS
    <3> HIDE DEF s
    <3>2. Osu!Shift(s, best) = <<x + k, y - 5 * k, z + 4 * k>>
      BY <1>2, <2>1, <3>1 DEF Osu!Shift
    <3> QED
      BY <3>2 DEF s
  <2> QED
    BY <2>2, <2>3
<1> QED
  BY <1>1, <1>2

\* The search ends with such counts.
LEMMA OsuSearches ==
    ASSUME NEW n \in Nat, NEW misses \in 0 .. n, NEW given, AtMostOne(given),
           NEW h, Limits(h, n - misses), NEW acc \in Nat, NEW best \in BOOLEAN,
           NEW slider, NEW max,
           Osu!SliderValue(slider) \in Nat, Osu!SliderValue(max) \in Nat
    PROVE  LET r == Osu!Search(given, h, n, misses, acc, best, slider, max)
           IN  /\ r = [n300 |-> r.n300, n100 |-> r.n100, n50 |-> r.n50]
               /\ OsuShare(<<r.n300, r.n100, r.n50>>, given, h, n - misses)
<1> DEFINE room == n - misses
           T == Osu!Tried(given, h, n, misses, acc, slider, max)
           num(t) == Osu!Accuracy(t, misses, slider, max).num
           den(t) == Osu!Accuracy(t, misses, slider, max).den
           f == [t \in T |-> Candidate(t, acc, num(t), den(t))]
           t0 == Closest({f[t] : t \in T}).hits
           s0 == IF Osu!Cardinality(Osu!Open(given, Osu!Names)) = 3 THEN Osu!Shift(t0, best) ELSE t0
<1>1. room \in Nat /\ misses \in Nat
  OBVIOUS
<1>2. T # {} /\ \A t \in T : OsuShare(t, given, h, room)
  BY OsuTries
<1>3. PICK sm \in Nat : sm = Osu!SliderValue(max)
  OBVIOUS
<1>4. PICK ss \in Nat : ss = Osu!SliderValue(slider)
  OBVIOUS
<1> HIDE DEF T
<1>5. Osu!Search(given, h, n, misses, acc, best, slider, max) = [n300 |-> s0[1], n100 |-> s0[2], n50 |-> s0[3]]
  <2> DEFINE C == {Osu!Candidate(t, acc, Osu!Accuracy(t, misses, slider, max).num,
                                 Osu!Accuracy(t, misses, slider, max).den) : t \in T}
             t1 == Osu!Closest(C).hits
             s1 == IF Osu!Cardinality(Osu!Open(given, Osu!Names)) = 3 THEN Osu!Shift(t1, best) ELSE t1
  <2>1. Osu!Search(given, h, n, misses, acc, best, slider, max)
          = [n300 |-> s1[1], n100 |-> s1[2], n50 |-> s1[3]]
    BY DEF Osu!Search, T
  <2>2. C = {f[t] : t \in T}
    <3>1. \A t \in T : Osu!Candidate(t, acc, num(t), den(t)) = f[t]
      <4>1. TAKE t \in T
      <4>2. f[t] = Candidate(t, acc, num(t), den(t))
        OBVIOUS
      <4> HIDE DEF f, num, den
      <4>3. Osu!Candidate(t, acc, num(t), den(t)) = Candidate(t, acc, num(t), den(t))
        BY OsuOperators, Zenon
      <4> QED
        BY <4>2, <4>3
    <3> HIDE DEF f
    <3> QED
      BY <3>1
  <2>3. t1 = t0
    <3> HIDE DEF C, f
    <3> QED
      BY <2>2, OsuOperators
  <2> HIDE DEF t1, t0
  <2> QED
    BY <2>1, <2>3
<1>6. \A t \in T : /\ t \in [1 .. 3 -> Int] /\ num(t) \in Int /\ den(t) = 300 * n + sm
  <2>1. TAKE t \in T
  <2>2. PICK x, y, z \in 0 .. room : t = <<x, y, z>> /\ x + y + z = room
    BY <1>2 DEF OsuShare
  <2>3. /\ num(t) = 300 * x + 100 * y + 50 * z + ss
        /\ den(t) = 300 * (x + y + z + misses) + sm
    <3>1. t[1] = x /\ t[2] = y /\ t[3] = z
      BY <2>2
    <3> QED
      BY <3>1, <1>3, <1>4 DEF Osu!Accuracy
  <2>4. x + y + z + misses = n
    BY <1>1, <2>2
  <2>5. t \in [1 .. 3 -> Int]
    BY <1>1, <2>2
  <2> HIDE DEF num, den, room
  <2> QED
    BY <1>1, <2>3, <2>4, <2>5
<1>7. IsFiniteSet(T)
  <2>1. \A t \in T : \E x, y, z \in 0 .. room : t = <<x, y, z>>
    BY <1>2 DEF OsuShare
  <2> HIDE DEF room
  <2> QED
    BY <1>1, <2>1, FiniteTriples
<1>8. t0 \in T
  <2>1. CASE 300 * n + sm # 0
    <3>1. ASSUME NEW t \in T
          PROVE  f[t].hits = t /\ IsCandidate(f[t], 3)
      <4>1. f[t] = Candidate(t, acc, num(t), den(t))
        OBVIOUS
      <4> HIDE DEF f, num, den
      <4>2. t \in [1 .. 3 -> Int] /\ num(t) \in Int /\ den(t) \in Nat \ {0} /\ acc \in Int
        BY <1>6, <2>1
      <4>3. Candidate(t, acc, num(t), den(t)).hits = t
            /\ IsCandidate(Candidate(t, acc, num(t), den(t)), 3)
        BY <4>2, CandidateHits, CandidateIs, Zenon
      <4> QED
        BY <4>1, <4>3
    <3>2. f = [t \in T |-> f[t]]
      OBVIOUS
    <3> HIDE DEF f
    <3>3. 3 \in Nat /\ \A t \in T : f[t].hits = t /\ IsCandidate(f[t], 3)
      BY <3>1
    <3>4. T # {}
      BY <1>2
    <3>5. Closest({f[t] : t \in T}).hits \in T
      <4>1. PICK Q, w : Q = T /\ w = 3
        OBVIOUS
      <4> HIDE DEF T
      <4>2. /\ IsFiniteSet(Q) /\ Q # {} /\ f = [t \in Q |-> f[t]] /\ w \in Nat
            /\ \A t \in Q : f[t].hits = t /\ IsCandidate(f[t], w)
        BY <1>7, <3>2, <3>3, <3>4, <4>1
      <4>3. Closest({f[t] : t \in Q}).hits \in Q
        BY ONLY <4>2, ClosestOfTried, SMT
      <4> QED
        BY <4>1, <4>3, Zenon
    <3> QED
      BY <3>5
  <2>2. CASE 300 * n + sm = 0
    <3>1. n <= 0
      BY <2>2
    <3>2. room <= 0
      BY <3>1
    <3>3. \A t \in T : t = <<0, 0, 0>>
      <4>1. TAKE t \in T
      <4>2. PICK x, y, z \in 0 .. room : t = <<x, y, z>>
        BY <1>2 DEF OsuShare
      <4>3. x = 0 /\ y = 0 /\ z = 0
        BY <1>1, <3>2
      <4> QED
        BY <4>2, <4>3
    <3>4. PICK t : T = {t}
      <4>1. PICK o : o = <<0, 0, 0>>
        OBVIOUS
      <4>2. T # {} /\ \A t \in T : t = o
        BY <1>2, <3>3, <4>1
      <4>3. T = {o}
        BY <4>2, Zenon
      <4> QED
        BY <4>3, Zenon
    <3>5. f[t] = Candidate(t, acc, num(t), den(t))
      <4> HIDE DEF num, den
      <4> QED
        BY <3>4
    <3> HIDE DEF f, num, den
    <3>6. {f[s] : s \in T} = {f[t]}
      BY <3>4
    <3>7. t0 = f[t].hits
      BY <3>6, ClosestOfOne
    <3> QED
      BY <3>4, <3>5, <3>7, CandidateHits
  <2> QED
    BY <2>1, <2>2
<1> HIDE DEF t0
<1>9. PICK x, y, z \in 0 .. room :
          /\ t0 = <<x, y, z>> /\ x + y + z = room
          /\ given.n300 # None => x = h.n300
          /\ given.n100 # None => y = h.n100
          /\ given.n50 # None => z = h.n50
  BY <1>2, <1>8 DEF OsuShare
<1>10. PICK a, b, c \in 0 .. room :
          /\ s0 = <<a, b, c>> /\ a + b + c = room
          /\ given.n300 # None => a = h.n300
          /\ given.n100 # None => b = h.n100
          /\ given.n50 # None => c = h.n50
  <2>1. CASE Osu!Cardinality(Osu!Open(given, Osu!Names)) = 3
    <3>1. PICK a, b, c \in 0 .. room : a + b + c = room /\ Osu!Shift(t0, best) = <<a, b, c>>
      <4> HIDE DEF room
      <4> QED
        BY <1>1, <1>9, OsuShifts
    <3>2. given.n300 = None /\ given.n100 = None /\ given.n50 = None
      <4>1. PICK names : names = <<"n300", "n100", "n50">>
        OBVIOUS
      <4>2. Len(names) = 3 /\ DOMAIN names = 1 .. 3
            /\ names[1] = "n300" /\ names[2] = "n100" /\ names[3] = "n50"
        BY <4>1
      <4>3. Cardinality(Open(given, names)) = Len(names)
        BY <2>1, <4>1, <4>2, OsuOperators DEF Osu!Names
      <4>4. \A j \in 1 .. 3 : given[names[j]] = None
        BY <4>2, <4>3, OpenSize
      <4> QED
        BY <4>2, <4>4
    <3> QED
      BY <2>1, <3>1, <3>2
  <2>2. CASE Osu!Cardinality(Osu!Open(given, Osu!Names)) # 3
    BY <1>9, <2>2
  <2> QED
    BY <2>1, <2>2
<1> HIDE DEF s0
<1>11. PICK r : r = Osu!Search(given, h, n, misses, acc, best, slider, max)
  OBVIOUS
<1>12. r = [n300 |-> a, n100 |-> b, n50 |-> c]
  BY <1>5, <1>10, <1>11
<1>13. r.n300 = a /\ r.n100 = b /\ r.n50 = c
  BY <1>12
<1>14. OsuShare(<<r.n300, r.n100, r.n50>>, given, h, room)
  <2> HIDE DEF room
  <2> QED
    BY <1>10, <1>13 DEF OsuShare
<1> QED
  BY <1>11, <1>12, <1>13, <1>14

\* One of three counts is raised by k, an open one if there is any.
OsuRaised(r, given, a, b, c, k) ==
    LET open == given.n300 = None \/ given.n100 = None \/ given.n50 = None
    IN  \/ r = [n300 |-> a + k, n100 |-> b, n50 |-> c] /\ (open => given.n300 = None)
        \/ r = [n300 |-> a, n100 |-> b + k, n50 |-> c] /\ (open => given.n100 = None)
        \/ r = [n300 |-> a, n100 |-> b, n50 |-> c + k] /\ (open => given.n50 = None)

LEMMA OsuFills ==
    ASSUME NEW a \in Nat, NEW b \in Nat, NEW c \in Nat, NEW given, NEW room \in Nat,
           NEW best \in BOOLEAN
    PROVE  OsuRaised(Osu!Fill(Osu!Names, given, [n300 |-> a, n100 |-> b, n50 |-> c], room, best),
                     given, a, b, c, SatSub(room, a + b + c))
<1> DEFINE h == [n300 |-> a, n100 |-> b, n50 |-> c]
           names == <<"n300", "n100", "n50">>
           k == SatSub(room, a + b + c)
           open == given.n300 = None \/ given.n100 = None \/ given.n50 = None
<1>1. Len(names) = 3 /\ names[1] = "n300" /\ names[2] = "n100" /\ names[3] = "n50"
      /\ DOMAIN names = 1 .. 3
  OBVIOUS
<1>2. SumOver(h, names) = a + b + c
  <2>1. h["n300"] = a /\ h["n100"] = b /\ h["n50"] = c
    OBVIOUS
  <2> HIDE DEF h
  <2> QED
    BY <2>1, SumOfThree
<1>3. PICK i \in 1 .. 3 :
         /\ Fill(names, given, h, room, best) = [h EXCEPT ![names[i]] = @ + SatSub(room, SumOver(h, names))]
         /\ Open(given, names) # {} => i \in Open(given, names)
  <2>1. 3 \in Nat \ {0}
    OBVIOUS
  <2> HIDE DEF h, names
  <2> QED
    BY <1>1, <2>1, FillsOne, Zenon
<1>4. Osu!Fill(Osu!Names, given, h, room, best) = [h EXCEPT ![names[i]] = @ + k]
  <2>1. Osu!Names = names
    BY DEF Osu!Names
  <2> HIDE DEF h, names
  <2> QED
    BY <1>2, <1>3, <2>1, OsuOperators
<1>5. open => given[names[i]] = None
  <2>1. Open(given, names) = {j \in 1 .. 3 : given[names[j]] = None}
    BY <1>1 DEF Open
  <2> HIDE DEF names
  <2>2. open => Open(given, names) # {}
    <3>1. 1 \in 1 .. 3 /\ 2 \in 1 .. 3 /\ 3 \in 1 .. 3
      OBVIOUS
    <3> QED
      BY <1>1, <2>1, <3>1
  <2> QED
    BY <1>3, <2>1, <2>2
<1>6. k \in Nat
  BY DEF SatSub
<1> HIDE DEF open
<1>7. CASE i = 1
  <2>1. [h EXCEPT !["n300"] = @ + k] = [n300 |-> a + k, n100 |-> b, n50 |-> c]
    <3> HIDE DEF k
    <3> QED
      OBVIOUS
  <2> HIDE DEF h, k, names
  <2> QED
    BY <1>1, <1>4, <1>5, <1>7, <2>1 DEF h, k, open, OsuRaised
<1>8. CASE i = 2
  <2>1. [h EXCEPT !["n100"] = @ + k] = [n300 |-> a, n100 |-> b + k, n50 |-> c]
    <3> HIDE DEF k
    <3> QED
      OBVIOUS
  <2> HIDE DEF h, k, names
  <2> QED
    BY <1>1, <1>4, <1>5, <1>8, <2>1 DEF h, k, open, OsuRaised
<1>9. CASE i = 3
  <2>1. [h EXCEPT !["n50"] = @ + k] = [n300 |-> a, n100 |-> b, n50 |-> c + k]
    <3> HIDE DEF k
    <3> QED
      OBVIOUS
  <2> HIDE DEF h, k, names
  <2> QED
    BY <1>1, <1>4, <1>5, <1>9, <2>1 DEF h, k, open, OsuRaised
<1> QED
  BY <1>7, <1>8, <1>9


LEMMA OsuAtMostOne ==
    ASSUME NEW given, Cardinality(Open(given, Osu!Names)) > 1
    PROVE  AtMostOne(given)
<1>1. PICK names : names = <<"n300", "n100", "n50">>
  OBVIOUS
<1>2. Len(names) = 3 /\ DOMAIN names = 1 .. 3
      /\ names[1] = "n300" /\ names[2] = "n100" /\ names[3] = "n50"
  BY <1>1
<1>3. PICK open : /\ open = Open(given, names) /\ open = {i \in 1 .. 3 : given[names[i]] = None}
                  /\ Cardinality(open) \in Nat
  <2>1. 3 \in Nat
    OBVIOUS
  <2> QED
    BY <1>2, <2>1, OpenSize
<1>4. ASSUME NEW i, open \in SUBSET {i}
      PROVE  FALSE
  <2>1. IsFiniteSet({i}) /\ Cardinality({i}) = 1
    BY FS_Singleton
  <2>2. Cardinality(open) <= 1
    BY <1>4, <2>1, FS_Subset
  <2>3. Cardinality(open) > 1
    BY <1>1, <1>3 DEF Osu!Names
  <2> QED
    BY <1>3, <2>2, <2>3
<1>5. \A i \in open : (i = 1 /\ given.n300 = None) \/ (i = 2 /\ given.n100 = None)
                      \/ (i = 3 /\ given.n50 = None)
  BY <1>2, <1>3
<1>6. ~(given.n300 # None /\ given.n100 # None)
  <2>1. given.n300 # None /\ given.n100 # None => open \in SUBSET {3}
    BY <1>5
  <2> QED
    BY <1>4, <2>1
<1>7. ~(given.n300 # None /\ given.n50 # None)
  <2>1. given.n300 # None /\ given.n50 # None => open \in SUBSET {2}
    BY <1>5
  <2> QED
    BY <1>4, <2>1
<1>8. ~(given.n100 # None /\ given.n50 # None)
  <2>1. given.n100 # None /\ given.n50 # None => open \in SUBSET {1}
    BY <1>5
  <2> QED
    BY <1>4, <2>1
<1> QED
  BY <1>6, <1>7, <1>8 DEF AtMostOne

\* The slider parts that count are natural numbers, and so is their value.
LEMMA OsuSliderParts ==
    ASSUME NEW c \in CountsType("osu"), NEW lazer \in BOOLEAN, NEW classic \in BOOLEAN,
           NEW g, \A f \in Osu!SliderParts : g[f] \in Nat \cup {None}
    PROVE  LET max    == Osu!MaxSliderHits(lazer, classic, c)
               slider == Osu!SliderHits(g, max)
           IN  /\ max = [slider_end_hits |-> max.slider_end_hits,
                         large_tick_hits |-> max.large_tick_hits,
                         small_tick_hits |-> max.small_tick_hits]
               /\ \A f \in Osu!SliderParts :
                     /\ max[f] \in Nat /\ slider[f] = OrAll(g[f], max[f])
                     /\ slider[f] \in 0 .. max[f]
               /\ lazer /\ ~classic => /\ max.slider_end_hits = c.n_sliders
                                       /\ max.large_tick_hits = c.n_large_ticks
               /\ Osu!SliderValue(slider) \in Nat /\ Osu!SliderValue(max) \in Nat
<1> DEFINE max    == Osu!MaxSliderHits(lazer, classic, c)
           slider == Osu!SliderHits(g, max)
<1>1. PICK ns, nl \in Nat : ns = c.n_sliders /\ nl = c.n_large_ticks
  BY DEF CountsType
<1>2. \E x, y, z \in Nat :
          /\ max = [slider_end_hits |-> x, large_tick_hits |-> y, small_tick_hits |-> z]
          /\ lazer /\ ~classic => x = ns /\ y = nl
  <2>1. CASE ~lazer
    <3>1. max = [slider_end_hits |-> 0, large_tick_hits |-> 0, small_tick_hits |-> 0]
      BY <2>1 DEF Osu!MaxSliderHits
    <3> QED
      BY <2>1, <3>1
  <2>2. CASE lazer /\ ~classic
    <3>1. max = [slider_end_hits |-> ns, large_tick_hits |-> nl, small_tick_hits |-> 0]
      BY <1>1, <2>2 DEF Osu!MaxSliderHits
    <3> QED
      BY <3>1
  <2>3. CASE lazer /\ classic
    <3>1. PICK sum \in Nat : sum = ns + nl
      OBVIOUS
    <3>2. max = [slider_end_hits |-> 0, large_tick_hits |-> sum, small_tick_hits |-> ns]
      BY <1>1, <2>3, <3>1 DEF Osu!MaxSliderHits
    <3> QED
      BY <2>3, <3>2
  <2> QED
    BY <2>1, <2>2, <2>3
<1> HIDE DEF max
<1>3. PICK x, y, z \in Nat :
          /\ max = [slider_end_hits |-> x, large_tick_hits |-> y, small_tick_hits |-> z]
          /\ lazer /\ ~classic => x = ns /\ y = nl
  BY <1>2
<1>4. max.slider_end_hits = x /\ max.large_tick_hits = y /\ max.small_tick_hits = z
      /\ DOMAIN max = Osu!SliderParts
  BY <1>3 DEF Osu!SliderParts
<1>5. \A f \in Osu!SliderParts : max[f] \in Nat
  BY <1>4 DEF Osu!SliderParts
<1>6. \A f \in Osu!SliderParts : slider[f] = OrAll(g[f], max[f]) /\ slider[f] \in 0 .. max[f]
  <2>1. TAKE f \in Osu!SliderParts
  <2>2. slider[f] = OrAll(g[f], max[f])
    BY <1>4, OsuOperators DEF Osu!SliderHits
  <2> QED
    BY <1>5, <2>2, LimitedTypes
<1> HIDE DEF slider
<1>7. PICK u, v, w \in Nat : u = slider.slider_end_hits /\ v = slider.large_tick_hits
                             /\ w = slider.small_tick_hits
  <2>1. slider.slider_end_hits \in Nat /\ slider.large_tick_hits \in Nat
        /\ slider.small_tick_hits \in Nat
    BY <1>5, <1>6 DEF Osu!SliderParts
  <2> QED
    BY <2>1
<1>8. Osu!SliderValue(slider) \in Nat /\ Osu!SliderValue(max) \in Nat
  BY <1>4, <1>7 DEF Osu!SliderValue
<1> QED
  BY <1>1, <1>3, <1>4, <1>5, <1>6, <1>8 DEF max, slider


------------------------------------------------------------------------------
(* osu!: generate_state *)

\* The counts of 300s, 100s and 50s where `room` is what the misses leave
OsuHits(h, g, room, fits) ==
    /\ h.n300 \in 0 .. room /\ h.n100 \in 0 .. room /\ h.n50 \in 0 .. room
    /\ h.n300 + h.n100 + h.n50 >= room
    /\ fits =>
          /\ h.n300 + h.n100 + h.n50 = room
          /\ g.n300 = None \/ g.n100 = None \/ g.n50 = None =>
                /\ g.n300 # None => h.n300 = g.n300
                /\ g.n100 # None => h.n100 = g.n100
                /\ g.n50 # None => h.n50 = g.n50
    /\ /\ g.n300 # None /\ g.n300 <= room
       /\ g.n100 # None /\ g.n100 <= room
       /\ g.n50 # None /\ g.n50 <= room
       /\ g.n300 + g.n100 + g.n50 >= room
       => h.n300 = g.n300 /\ h.n100 = g.n100 /\ h.n50 = g.n50

\* Every object gets a hit result; counts that are given are kept where they
\* fit and one is open, and where all are given and leave nothing over.
OsuResult(s, i, c) ==
    LET g == i.given
        n == MinOf(i.passed, c.n_objects)
        max == Osu!MaxSliderHits(i.lazer, Osu!NoSliderHeadAcc(i.mods, i.lazer), c)
    IN  /\ s = [max_combo |-> s.max_combo, slider_end_hits |-> s.slider_end_hits,
                large_tick_hits |-> s.large_tick_hits, small_tick_hits |-> s.small_tick_hits,
                n300 |-> s.n300, n100 |-> s.n100, n50 |-> s.n50, misses |-> s.misses]
        /\ s.misses = UpTo(g.misses, n)
        /\ s.max_combo = OrAll(g.max_combo, SatSub(c.max_combo, s.misses))
        /\ s.slider_end_hits = OrAll(g.slider_end_hits, max.slider_end_hits)
        /\ s.large_tick_hits = OrAll(g.large_tick_hits, max.large_tick_hits)
        /\ s.small_tick_hits = OrAll(g.small_tick_hits, max.small_tick_hits)
        /\ OsuHits(s, g, n - s.misses,
                   Told(g.n300) + Told(g.n100) + Told(g.n50) + Told(g.misses) <= n)

\* What is filled up
LEMMA OsuFilled ==
    ASSUME NEW room \in Nat, NEW g, NEW a \in 0 .. room, NEW b \in 0 .. room,
           NEW c \in 0 .. room, NEW best \in BOOLEAN,
           g.n300 \in Nat \cup {None}, g.n100 \in Nat \cup {None}, g.n50 \in Nat \cup {None},
           Told(g.n300) <= room => a = Told(g.n300),
           Told(g.n100) <= room => b = Told(g.n100),
           Told(g.n50) <= room => c = Told(g.n50)
    PROVE  OsuHits(Osu!Fill(Osu!Names, g, [n300 |-> a, n100 |-> b, n50 |-> c], room, best),
                   g, room, Told(g.n300) + Told(g.n100) + Told(g.n50) <= room)
<1>1. PICK h : h = Osu!Fill(Osu!Names, g, [n300 |-> a, n100 |-> b, n50 |-> c], room, best)
  OBVIOUS
<1>2. PICK k \in Nat : /\ k = SatSub(room, a + b + c)
                       /\ a + b + c >= room => k = 0
                       /\ a + b + c <= room => k + (a + b + c) = room
  <2>1. PICK abc \in Nat : abc = a + b + c
    OBVIOUS
  <2>2. PICK k \in Nat : k = SatSub(room, abc) /\ k <= room /\ (abc <= room => k + abc = room)
                         /\ (abc >= room => k = 0)
    BY Saturated
  <2> QED
    BY <2>1, <2>2
<1> DEFINE open == g.n300 = None \/ g.n100 = None \/ g.n50 = None
<1>3. \/ h = [n300 |-> a + k, n100 |-> b, n50 |-> c] /\ (open => g.n300 = None)
      \/ h = [n300 |-> a, n100 |-> b + k, n50 |-> c] /\ (open => g.n100 = None)
      \/ h = [n300 |-> a, n100 |-> b, n50 |-> c + k] /\ (open => g.n50 = None)
  <2>1. a \in Nat /\ b \in Nat /\ c \in Nat
    OBVIOUS
  <2>2. k = SatSub(room, a + b + c)
    BY <1>2
  <2>3. OsuRaised(h, g, a, b, c, k)
    BY <1>1, <2>1, <2>2, OsuFills
  <2> QED
    BY <1>1, <2>1, <2>3 DEF OsuRaised
<1>4. \/ h.n300 = a + k /\ h.n100 = b /\ h.n50 = c /\ (open => g.n300 = None)
      \/ h.n300 = a /\ h.n100 = b + k /\ h.n50 = c /\ (open => g.n100 = None)
      \/ h.n300 = a /\ h.n100 = b /\ h.n50 = c + k /\ (open => g.n50 = None)
  BY <1>3
<1>5. PICK u, v, w \in Nat : u = Told(g.n300) /\ v = Told(g.n100) /\ w = Told(g.n50)
  BY DEF Told
<1>6. /\ h.n300 \in 0 .. room /\ h.n100 \in 0 .. room /\ h.n50 \in 0 .. room
      /\ h.n300 + h.n100 + h.n50 >= room
  BY <1>2, <1>4
<1>7. u + v + w <= room => a = u /\ b = v /\ c = w
  BY <1>5
<1>8. u + v + w <= room => h.n300 + h.n100 + h.n50 = room
  BY <1>2, <1>4, <1>7
<1>9. u + v + w <= room /\ open =>
         /\ g.n300 # None => h.n300 = g.n300
         /\ g.n100 # None => h.n100 = g.n100
         /\ g.n50 # None => h.n50 = g.n50
  <2>1. /\ g.n300 # None => u = g.n300
        /\ g.n100 # None => v = g.n100
        /\ g.n50 # None => w = g.n50
    BY <1>5 DEF Told
  <2> QED
    BY <1>4, <1>7, <2>1
<1>10. ASSUME g.n300 # None, g.n300 <= room, g.n100 # None, g.n100 <= room,
              g.n50 # None, g.n50 <= room, g.n300 + g.n100 + g.n50 >= room
       PROVE  h.n300 = g.n300 /\ h.n100 = g.n100 /\ h.n50 = g.n50
  <2>1. u = g.n300 /\ v = g.n100 /\ w = g.n50
    BY <1>5, <1>10 DEF Told
  <2>2. a = u /\ b = v /\ c = w /\ k = 0
    BY <1>2, <1>5, <1>10, <2>1
  <2> QED
    BY <1>4, <2>1, <2>2
<1>11. OsuHits(h, g, room, u + v + w <= room)
  BY <1>6, <1>8, <1>9, <1>10, Zenon DEF OsuHits, open
<1> QED
  BY <1>1, <1>5, <1>11

\* What is searched
LEMMA OsuFound ==
    ASSUME NEW n \in Nat, NEW misses \in 0 .. n, NEW g, NEW h, NEW acc \in Nat,
           NEW best \in BOOLEAN, NEW slider, NEW max,
           Osu!SliderValue(slider) \in Nat, Osu!SliderValue(max) \in Nat,
           AtMostOne(g), Limits(h, n - misses),
           g.n300 \in Nat \cup {None}, g.n100 \in Nat \cup {None}, g.n50 \in Nat \cup {None},
           Told(g.n300) <= n - misses => h.n300 = Told(g.n300),
           Told(g.n100) <= n - misses => h.n100 = Told(g.n100),
           Told(g.n50) <= n - misses => h.n50 = Told(g.n50)
    PROVE  OsuHits(Osu!Search(g, h, n, misses, acc, best, slider, max), g, n - misses,
                   Told(g.n300) + Told(g.n100) + Told(g.n50) <= n - misses)
<1>1. PICK r : r = Osu!Search(g, h, n, misses, acc, best, slider, max)
  OBVIOUS
<1>2. PICK room \in Nat : room = n - misses
  OBVIOUS
<1>3. OsuShare(<<r.n300, r.n100, r.n50>>, g, h, room)
  BY <1>1, <1>2, OsuSearches
<1>4. PICK x, y, z \in 0 .. room :
        /\ <<r.n300, r.n100, r.n50>> = <<x, y, z>> /\ x + y + z = room
        /\ g.n300 # None => x = h.n300
        /\ g.n100 # None => y = h.n100
        /\ g.n50 # None => z = h.n50
  BY <1>3 DEF OsuShare
<1>5. r.n300 = x /\ r.n100 = y /\ r.n50 = z
  BY <1>4
<1>6. /\ r.n300 \in 0 .. room /\ r.n100 \in 0 .. room /\ r.n50 \in 0 .. room
      /\ r.n300 + r.n100 + r.n50 >= room /\ r.n300 + r.n100 + r.n50 = room
  BY <1>4, <1>5
<1>7. PICK u, v, w \in Nat : u = Told(g.n300) /\ v = Told(g.n100) /\ w = Told(g.n50)
  BY DEF Told
<1>8. u + v + w <= room => h.n300 = u /\ h.n100 = v /\ h.n50 = w
  BY <1>2, <1>7
<1>9. /\ g.n300 # None => u = g.n300
      /\ g.n100 # None => v = g.n100
      /\ g.n50 # None => w = g.n50
  BY <1>7 DEF Told
<1>10. u + v + w <= room =>
         /\ g.n300 # None => r.n300 = g.n300
         /\ g.n100 # None => r.n100 = g.n100
         /\ g.n50 # None => r.n50 = g.n50
  BY <1>4, <1>5, <1>8, <1>9
<1>11. ~(g.n300 # None /\ g.n100 # None /\ g.n50 # None)
  BY DEF AtMostOne
<1>12. OsuHits(r, g, room, u + v + w <= room)
  BY <1>6, <1>10, <1>11, Zenon DEF OsuHits
<1> QED
  BY <1>1, <1>2, <1>7, <1>12

LEMMA OsuGenerates ==
    ASSUME NEW i, IsInput("osu", i), NEW c \in CountsType("osu")
    PROVE  OsuResult(Osu!Generate(i, c), i, c)
<1> DEFINE g      == i.given
           n      == Osu!NObjects(i, c)
           misses == Osu!UpTo(g.misses, n)
           room   == n - misses
           h      == [n300 |-> Osu!UpTo(g.n300, room), n100 |-> Osu!UpTo(g.n100, room),
                      n50 |-> Osu!UpTo(g.n50, room)]
           classic == Osu!NoSliderHeadAcc(i.mods, i.lazer)
           max    == Osu!MaxSliderHits(i.lazer, classic, c)
           slider == Osu!SliderHits(g, max)
           found  == i.acc # None /\ Osu!Cardinality(Osu!Open(g, Osu!Names)) > 1
           hits   == IF found THEN Osu!Search(g, h, n, misses, i.acc, i.best, slider, max)
                     ELSE Osu!Fill(Osu!Names, g, h, room, i.best)
           combo  == Osu!OrAll(g.max_combo, Osu!SatSub(c.max_combo, misses))
<1>1. Osu!Generate(i, c) =
        [max_combo |-> combo, slider_end_hits |-> slider.slider_end_hits,
         large_tick_hits |-> slider.large_tick_hits,
         small_tick_hits |-> slider.small_tick_hits,
         n300 |-> hits.n300, n100 |-> hits.n100, n50 |-> hits.n50, misses |-> misses]
  BY DEF Osu!Generate
<1>2. /\ g.misses \in Nat \cup {None} /\ g.n300 \in Nat \cup {None}
      /\ g.n100 \in Nat \cup {None} /\ g.n50 \in Nat \cup {None}
      /\ \A f \in Osu!SliderParts : g[f] \in Nat \cup {None}
      /\ i.acc # None => i.acc \in Nat
      /\ i.best \in BOOLEAN /\ i.lazer \in BOOLEAN
  BY DEF IsInput, Fields, Osu!Fields
<1>3. n = MinOf(i.passed, c.n_objects) /\ n \in Nat
  <2>1. i.passed \in Nat /\ c.n_objects \in Nat
    BY DEF IsInput, CountsType
  <2>2. n = MinOf(i.passed, c.n_objects)
    BY OsuOperators DEF Osu!NObjects
  <2> QED
    BY <2>1, <2>2 DEF MinOf
<1>4. misses = UpTo(g.misses, n) /\ combo = OrAll(g.max_combo, SatSub(c.max_combo, misses))
  BY OsuOperators
<1> HIDE DEF n
<1>5. /\ misses \in 0 .. n /\ Told(g.misses) \in Nat
      /\ Told(g.misses) <= n => misses = Told(g.misses)
  BY <1>2, <1>3, <1>4, LimitedToTold
<1> HIDE DEF misses
<1>6. room \in Nat /\ misses + room = n /\ misses \in Nat
  BY <1>3, <1>5
<1> HIDE DEF room
<1>7. \A opt \in Nat \cup {None} :
         /\ Osu!UpTo(opt, room) \in 0 .. room /\ Told(opt) \in Nat
         /\ Told(opt) <= room => Osu!UpTo(opt, room) = Told(opt)
  BY <1>6, OsuOperators, LimitedToTold
<1>8. PICK x, y, z \in 0 .. room :
        /\ x = Osu!UpTo(g.n300, room) /\ y = Osu!UpTo(g.n100, room)
        /\ z = Osu!UpTo(g.n50, room)
        /\ Told(g.n300) <= room => x = Told(g.n300)
        /\ Told(g.n100) <= room => y = Told(g.n100)
        /\ Told(g.n50) <= room => z = Told(g.n50)
  BY <1>2, <1>7
<1>9. h = [n300 |-> x, n100 |-> y, n50 |-> z] /\ h.n300 = x /\ h.n100 = y /\ h.n50 = z
  BY <1>8
<1>10. classic \in BOOLEAN
  BY <1>2 DEF Osu!NoSliderHeadAcc
<1> HIDE DEF classic
<1>11. /\ \A f \in Osu!SliderParts : slider[f] = OrAll(g[f], max[f])
       /\ Osu!SliderValue(slider) \in Nat /\ Osu!SliderValue(max) \in Nat
  BY <1>2, <1>10, OsuSliderParts
<1>12. /\ slider.slider_end_hits = OrAll(g.slider_end_hits, max.slider_end_hits)
       /\ slider.large_tick_hits = OrAll(g.large_tick_hits, max.large_tick_hits)
       /\ slider.small_tick_hits = OrAll(g.small_tick_hits, max.small_tick_hits)
  BY <1>11 DEF Osu!SliderParts
<1> HIDE DEF h, slider, combo
<1>13. OsuHits(hits, g, room, Told(g.n300) + Told(g.n100) + Told(g.n50) <= room)
  <2>1. CASE found
    <3>1. AtMostOne(g)
      BY <2>1, OsuAtMostOne, OsuOperators
    <3>2. Limits(h, n - misses)
      BY <1>8, <1>9 DEF Limits, room
    <3>3. i.acc \in Nat
      BY <1>2, <2>1
    <3>4. OsuHits(Osu!Search(g, h, n, misses, i.acc, i.best, slider, max), g, n - misses,
                   Told(g.n300) + Told(g.n100) + Told(g.n50) <= n - misses)
      <4>1. /\ Told(g.n300) <= n - misses => h.n300 = Told(g.n300)
            /\ Told(g.n100) <= n - misses => h.n100 = Told(g.n100)
            /\ Told(g.n50) <= n - misses => h.n50 = Told(g.n50)
        BY <1>8, <1>9 DEF room
      <4> HIDE DEF g, max
      <4> QED
        BY <1>2, <1>3, <1>5, <1>11, <3>1, <3>2, <3>3, <4>1, OsuFound
    <3> QED
      BY <2>1, <3>4 DEF room
  <2>2. CASE ~found
    <3>1. OsuHits(Osu!Fill(Osu!Names, g, h, room, i.best), g, room,
                  Told(g.n300) + Told(g.n100) + Told(g.n50) <= room)
      <4> HIDE DEF g
      <4> QED
        BY <1>2, <1>6, <1>8, <1>9, OsuFilled
    <3> QED
      BY <2>2, <3>1
  <2> QED
    BY <2>1, <2>2
<1> HIDE DEF hits
<1>14. Told(g.n300) + Told(g.n100) + Told(g.n50) + Told(g.misses) <= n =>
           Told(g.n300) + Told(g.n100) + Told(g.n50) <= room
  <2>1. PICK u, v, w, m \in Nat : /\ u = Told(g.n300) /\ v = Told(g.n100) /\ w = Told(g.n50)
                                  /\ m = Told(g.misses)
    BY <1>2, <1>5, <1>7
  <2>2. u + v + w + m <= n => m <= n
    BY <1>3, <2>1
  <2>3. m <= n => misses = m
    BY <1>5, <2>1
  <2>4. u + v + w + m <= n => u + v + w <= room
    BY <1>3, <1>6, <2>1, <2>2, <2>3
  <2> QED
    BY <2>1, <2>4
<1>15. PICK s : s = Osu!Generate(i, c)
  OBVIOUS
<1>16. /\ s = [max_combo |-> s.max_combo, slider_end_hits |-> s.slider_end_hits,
                large_tick_hits |-> s.large_tick_hits, small_tick_hits |-> s.small_tick_hits,
                n300 |-> s.n300, n100 |-> s.n100, n50 |-> s.n50, misses |-> s.misses]
       /\ s.max_combo = combo /\ s.slider_end_hits = slider.slider_end_hits
       /\ s.large_tick_hits = slider.large_tick_hits
       /\ s.small_tick_hits = slider.small_tick_hits
       /\ s.n300 = hits.n300 /\ s.n100 = hits.n100 /\ s.n50 = hits.n50 /\ s.misses = misses
  BY <1>1, <1>15
<1>17. OsuHits(s, g, n - s.misses,
               Told(g.n300) + Told(g.n100) + Told(g.n50) + Told(g.misses) <= n)
  BY <1>13, <1>14, <1>16, Zenon DEF OsuHits, room
<1>18. OsuResult(s, i, c)
  BY <1>3, <1>4, <1>12, <1>16, <1>17, Zenon DEF OsuResult, classic
<1> QED
  BY <1>15, <1>18


------------------------------------------------------------------------------
(* osu!mania *)

LEMMA ManiaOperators ==
    ASSUME NEW a, NEW b, NEW c, NEW d, NEW e
    PROVE  /\ Mania!UpTo(a, b) = UpTo(a, b) /\ Mania!MinOf(a, b) = MinOf(a, b)
           /\ Mania!MaxOf(a, b) = MaxOf(a, b) /\ Mania!SatSub(a, b) = SatSub(a, b)
           /\ Mania!FloorU32(a, b) = FloorU32(a, b) /\ Mania!CeilU32(a, b) = CeilU32(a, b)
           /\ Mania!Around(a, b, c) = Around(a, b, c)
           /\ Mania!Candidate(a, b, c, d) = Candidate(a, b, c, d)
           /\ Mania!Closest(a) = Closest(a) /\ Mania!Open(a, b) = Open(a, b)
           /\ Mania!SumOver(a, b) = SumOver(a, b)
           /\ Mania!Fill(a, b, c, d, e) = Fill(a, b, c, d, e)
           /\ Mania!Cardinality(a) = Cardinality(a) /\ Mania!ToSet(a) = ToSet(a)
<1>1. /\ Mania!MinOf(a, b) = MinOf(a, b) /\ Mania!SatSub(a, b) = SatSub(a, b)
      /\ Mania!MaxOf(a, b) = MaxOf(a, b)
  BY DEF Mania!MinOf, MinOf, Mania!SatSub, SatSub, Mania!MaxOf, MaxOf
<1>2. Mania!UpTo(a, b) = UpTo(a, b)
  BY DEF Mania!UpTo, UpTo, Mania!MinOf, MinOf
<1>3. Mania!FloorU32(a, b) = FloorU32(a, b) /\ Mania!CeilU32(a, b) = CeilU32(a, b)
  BY DEF Mania!FloorU32, FloorU32, Mania!CeilU32, CeilU32
<1>4. Mania!Around(a, b, c) = Around(a, b, c)
  BY DEF Mania!Around, Around, Mania!MinOf, MinOf, Mania!FloorU32, FloorU32,
         Mania!CeilU32, CeilU32
<1>5. Mania!Candidate(a, b, c, d) = Candidate(a, b, c, d)
  BY DEF Mania!Candidate, Candidate
<1>6. Mania!Closest(a) = Closest(a)
  BY DEF Mania!Closest, Closest, Mania!Before, Before
<1>7. Mania!Open(a, b) = Open(a, b)
  BY DEF Mania!Open, Open
<1>8. Mania!SumOver(a, b) = SumOver(a, b)
  BY DEF Mania!SumOver, SumOver
<1>9. Mania!Fill(a, b, c, d, e) = Fill(a, b, c, d, e)
  BY DEF Mania!Fill, Fill, Mania!Open, Open, Mania!Reverse, Reverse, Mania!SatSub, SatSub,
         Mania!SumOver, SumOver
<1>10. Mania!Cardinality(a) = Cardinality(a) /\ Mania!ToSet(a) = ToSet(a)
  BY DEF Mania!Cardinality, Cardinality, Mania!ToSet, ToSet
<1> QED
  BY <1>1, <1>2, <1>3, <1>4, <1>5, <1>6, <1>7, <1>8, <1>9, <1>10

\* The bounds of a loop
IsRange(o, cap) == \E lo, hi \in 0 .. cap : lo <= hi /\ o = <<lo, hi>>

LEMMA RangeAround ==
    ASSUME NEW num \in Int, NEW den \in Nat \ {0}, NEW cap \in Nat
    PROVE  IsRange(<<MinOf(FloorU32(num, den), cap), MinOf(CeilU32(num, den), cap)>>, cap)
<1>1. PICK f, c \in Nat : f = FloorU32(num, den) /\ c = CeilU32(num, den) /\ f <= c
  BY Rounded
<1>2. PICK a, b \in 0 .. cap : a = MinOf(f, cap) /\ b = MinOf(c, cap) /\ a <= b
  BY <1>1 DEF MinOf
<1> QED
  BY <1>1, <1>2 DEF IsRange

\* Two bounds of different accuracy: what the open hit results can be worth
\* at most and at least differs by what the loop can give.
LEMMA RangesMeet ==
    ASSUME NEW A \in Nat \ {0}, NEW d \in Nat \ {0}, NEW e \in Nat, NEW cap \in Nat,
           NEW lo \in Nat, NEW hi \in Nat, NEW N \in Int,
           lo > 0 => d * (A * lo) <= N - e * (A * cap),
           N <= (d + e) * (A * hi)
    PROVE  IsRange(<<MinOf(lo, cap), MinOf(hi, cap)>>, cap)
<1>1. PICK p1, q, r \in Int : p1 = A * lo /\ q = A * hi /\ r = A * cap
  BY Products
<1>2. PICK dp, dq, eq, er \in Int : dp = d * p1 /\ dq = d * q /\ eq = e * q /\ er = e * r
  BY Products
<1>3. (d + e) * q = dq + eq
  BY <1>2
<1>4. SUFFICES ASSUME hi < cap, hi < lo
               PROVE  FALSE
  <2>1. hi >= cap \/ hi >= lo => MinOf(lo, cap) <= MinOf(hi, cap)
    BY DEF MinOf
  <2>2. MinOf(lo, cap) \in 0 .. cap /\ MinOf(hi, cap) \in 0 .. cap
    BY DEF MinOf
  <2>3. MinOf(lo, cap) <= MinOf(hi, cap)
    BY <1>4, <2>1
  <2> QED
    BY <2>2, <2>3 DEF IsRange
<1>5. q <= r /\ q + A <= p1
  BY <1>1, <1>4, Multiples
<1>6. eq <= er
  <2>1. \A x, y \in Int, k \in Nat : x <= y => k * x <= k * y
    OBVIOUS
  <2> QED
    BY <1>2, <1>5, <2>1
<1>7. dq < dp
  <2>1. q < p1
    BY <1>5
  <2>2. d * q + d <= d * p1
    BY <2>1, Multiples
  <2> QED
    BY <1>2, <2>2
<1>8. dp <= N - er /\ N <= dq + eq
  <2>1. lo > 0
    BY <1>4
  <2> QED
    BY <1>1, <1>2, <1>3, <2>1
<1> QED
  BY <1>2, <1>6, <1>7, <1>8

LEMMA RangeBetween ==
    ASSUME NEW A \in Nat \ {0}, NEW d \in Nat \ {0}, NEW e \in Nat, NEW cap \in Nat,
           NEW lo \in Nat, NEW num \in Int, NEW den \in Nat \ {0}, den = (d + e) * A,
           lo > 0 => d * (A * lo) <= num - e * (A * cap)
    PROVE  IsRange(<<MinOf(lo, cap), MinOf(CeilU32(num, den), cap)>>, cap)
<1>1. PICK hi \in Nat : hi = CeilU32(num, den) /\ den * hi >= num
  BY Rounded
<1>2. den * hi = (d + e) * (A * hi)
  OBVIOUS
<1>3. num <= (d + e) * (A * hi)
  BY <1>1, <1>2, Products
<1> QED
  BY <1>1, <1>3, RangesMeet


\* The counts the caller gave, limited one by one
ManiaLimits(h, given, room) ==
    \A f \in {"n_geki", "n300", "n_katu", "n100", "n50"} :
        h[f] \in 0 .. room /\ (given[f] = None => h[f] = 0)

NotAllLower(given) == given.n_katu = None \/ given.n100 = None \/ given.n50 = None

\* What the outer loop may go up to leaves room for the lower hit results given.
IsOuter(o, h, room) ==
    \E cap \in 0 .. room :
        /\ IsRange(o, cap)
        /\ h.n_katu + h.n100 + h.n50 <= room => cap + h.n_katu + h.n100 + h.n50 <= room

LEMMA ManiaOuter ==
    ASSUME NEW n \in Nat, NEW room \in 0 .. n, NEW given, NotAllLower(given),
           NEW h, ManiaLimits(h, given, room), NEW acc \in Nat
    PROVE  IsOuter(Mania!Outer(given, h, n, room, acc), h, room)
<1>1. PICK k, z, w \in 0 .. room : k = h.n_katu /\ z = h.n100 /\ w = h.n50
  BY DEF ManiaLimits
<1>2. /\ given.n_katu = None => k = 0
      /\ given.n100 = None => z = 0
      /\ given.n50 = None => w = 0
  BY <1>1 DEF ManiaLimits
<1>3. room \in Nat
  OBVIOUS
<1>4. PICK A \in Nat \ {0} : A = AccScale
  BY AccScaleAssumption
<1>5. PICK target \in Int : target = acc * 6 * n
  BY Products
<1>6. ASSUME NEW o, NEW cap \in 0 .. room, IsRange(o, cap),
             k + z + w <= room => cap + k + z + w <= room
      PROVE  IsOuter(o, h, room)
  BY <1>1, <1>6 DEF IsOuter
<1> DEFINE o == Mania!Outer(given, h, n, room, acc)
           num(v) == acc * 6 * n - AccScale * v
<1>7. \A v \in Int : num(v) \in Int /\ num(v) = target - A * v
  BY <1>4, <1>5, Products
<1>8. \A m \in Nat \ {0} : m * AccScale \in Nat \ {0}
  BY <1>4
<1> HIDE DEF num
<1>9. ASSUME NEW v \in Int, NEW m \in Nat \ {0}, NEW sum \in Nat,
             o = <<Mania!MinOf(Mania!FloorU32(num(v), m * AccScale), Mania!SatSub(room, sum)),
                   Mania!MinOf(Mania!CeilU32(num(v), m * AccScale), Mania!SatSub(room, sum))>>,
             sum = k + z + w
      PROVE  IsOuter(o, h, room)
  <2>1. PICK cap \in Nat : cap = SatSub(room, sum) /\ cap <= room /\ (sum <= room => cap + sum = room)
    BY <1>3, Saturated
  <2>2. PICK x \in Int, den \in Nat \ {0} : x = num(v) /\ den = m * AccScale
    BY <1>7, <1>8
  <2>3. o = <<MinOf(FloorU32(x, den), cap), MinOf(CeilU32(x, den), cap)>>
    <3> HIDE DEF o
    <3>1. Mania!SatSub(room, sum) = cap
      BY <2>1, ManiaOperators
    <3>2. o = <<Mania!MinOf(Mania!FloorU32(x, den), cap), Mania!MinOf(Mania!CeilU32(x, den), cap)>>
      BY <1>9, <2>2, <3>1
    <3> QED
      BY <3>2, ManiaOperators
  <2>4. IsRange(o, cap)
    <3> HIDE DEF o
    <3> QED
      BY <2>3, RangeAround
  <2> HIDE DEF o
  <2> QED
    BY <1>6, <1>9, <2>1, <2>4
<1>10. CASE given.n100 # None /\ given.n50 # None
  <2>1. k = 0
    BY <1>2, <1>10 DEF NotAllLower
  <2>2. PICK v \in Int, sum \in Nat : v = 4 * room - 2 * z - 3 * w /\ sum = z + w
    <3>1. 4 * room - 2 * z - 3 * w \in Int /\ z + w \in Nat
      OBVIOUS
    <3> QED
      BY <3>1
  <2>3. o = <<Mania!MinOf(Mania!FloorU32(num(v), 2 * AccScale), Mania!SatSub(room, sum)),
              Mania!MinOf(Mania!CeilU32(num(v), 2 * AccScale), Mania!SatSub(room, sum))>>
    BY <1>1, <1>10, <2>2 DEF NotAllLower, Mania!Outer, num
  <2>4. 2 \in Nat \ {0} /\ sum = k + z + w
    BY <2>1, <2>2
  <2> HIDE DEF o
  <2> QED
    BY <1>9, <2>3, <2>4, Zenon DEF o
<1>11. CASE given.n_katu # None /\ given.n50 # None
  <2>1. z = 0 /\ given.n100 = None
    BY <1>2, <1>11 DEF NotAllLower
  <2>2. PICK v \in Int, sum \in Nat : v = 2 * (room + k) - w /\ sum = k + w
    OBVIOUS
  <2>3. o = <<Mania!MinOf(Mania!FloorU32(num(v), 4 * AccScale), Mania!SatSub(room, sum)),
              Mania!MinOf(Mania!CeilU32(num(v), 4 * AccScale), Mania!SatSub(room, sum))>>
    BY <1>1, <1>11, <2>1, <2>2 DEF Mania!Outer, num
  <2>4. 4 \in Nat \ {0} /\ sum = k + z + w
    BY <2>1, <2>2
  <2> HIDE DEF o
  <2> QED
    BY <1>9, <2>3, <2>4, Zenon DEF o
<1>12. CASE given.n_katu # None /\ given.n100 # None
  <2>1. w = 0 /\ given.n50 = None
    BY <1>2, <1>12 DEF NotAllLower
  <2>2. PICK v \in Int, sum \in Nat : v = room + 3 * k + z /\ sum = k + z
    OBVIOUS
  <2>3. o = <<Mania!MinOf(Mania!FloorU32(num(v), 5 * AccScale), Mania!SatSub(room, sum)),
              Mania!MinOf(Mania!CeilU32(num(v), 5 * AccScale), Mania!SatSub(room, sum))>>
    BY <1>1, <1>12, <2>1, <2>2 DEF Mania!Outer, num
  <2>4. 5 \in Nat \ {0} /\ sum = k + z + w
    BY <2>1, <2>2
  <2> HIDE DEF o
  <2> QED
    BY <1>9, <2>3, <2>4, Zenon DEF o
<1>13. CASE given.n_katu # None /\ given.n100 = None /\ given.n50 = None
  <2>1. z = 0 /\ w = 0
    BY <1>2, <1>13
  <2>2. PICK v1, v2 \in Int, cap \in Nat : v1 = 2 * (room + k) /\ v2 = room + 3 * k /\ cap = room - k
    OBVIOUS
  <2>3. o = <<Mania!MinOf(Mania!FloorU32(num(v1), 4 * AccScale), cap),
              Mania!MinOf(Mania!CeilU32(num(v2), 5 * AccScale), cap)>>
    BY <1>1, <1>13, <2>2 DEF Mania!Outer, num
  <2>4. PICK d1, d2 \in Nat \ {0} : d1 = 4 * A /\ d2 = 5 * A
    BY <1>4
  <2>5. PICK x1, x2 \in Int : x1 = num(v1) /\ x2 = num(v2)
    BY <1>7
  <2>6. PICK lo \in Nat : lo = FloorU32(x1, d1) /\ (lo > 0 => d1 * lo <= x1)
    BY Rounded
  <2>7. o = <<MinOf(lo, cap), MinOf(CeilU32(x2, d2), cap)>>
    <3> HIDE DEF o
    <3> QED
      BY <1>4, <2>3, <2>4, <2>5, <2>6, ManiaOperators
  <2>8. lo > 0 => 4 * (A * lo) <= x2 - 1 * (A * cap)
    <3>1. d1 * lo = 4 * (A * lo)
      BY <2>4
    <3>2. x1 = x2 - 1 * (A * cap)
      <4>1. x1 = target - A * v1 /\ x2 = target - A * v2
        BY <1>7, <2>5
      <4>2. A * v1 = A * v2 + A * cap
        <5>1. \A x, y \in Int : A * (x + y) = A * x + A * y
          OBVIOUS
        <5>2. v1 = v2 + cap
          BY <2>2
        <5> QED
          BY <5>1, <5>2
      <4>3. A * v1 \in Int /\ A * v2 \in Int /\ A * cap \in Int
        BY Products
      <4> QED
        BY <4>1, <4>2, <4>3
    <3> QED
      BY <2>6, <3>1, <3>2
  <2>9. 4 \in Nat \ {0} /\ 1 \in Nat /\ d2 = (4 + 1) * A
    BY <2>4
  <2> HIDE DEF o
  <2>10. IsRange(o, cap)
    BY <2>7, <2>8, <2>9, RangeBetween
  <2>11. cap \in 0 .. room /\ (k + z + w <= room => cap + k + z + w <= room)
    BY <2>1, <2>2
  <2> QED
    BY <1>6, <2>10, <2>11, Zenon DEF o
<1>14. CASE given.n_katu = None /\ given.n100 # None /\ given.n50 = None
  <2>1. k = 0 /\ w = 0
    BY <1>2, <1>14
  <2>2. PICK v1, v2 \in Int, cap \in Nat : v1 = 2 * room - z /\ v2 = room + z /\ cap = room - z
    <3>1. 2 * room - z \in Int /\ room + z \in Int /\ room - z \in Nat
      OBVIOUS
    <3> QED
      BY <3>1
  <2>3. o = <<Mania!MinOf(Mania!FloorU32(acc * 3 * room - AccScale * v1, AccScale), cap),
              Mania!MinOf(Mania!CeilU32(num(v2), 5 * AccScale), cap)>>
    BY <1>1, <1>14, <2>2 DEF Mania!Outer, num
  <2>4. PICK d2 \in Nat \ {0} : d2 = 5 * A
    BY <1>4
  <2>5. PICK x1, x2 \in Int : x1 = acc * 3 * room - AccScale * v1 /\ x2 = num(v2)
    <3>1. acc * 3 * room \in Int /\ AccScale * v1 \in Int /\ num(v2) \in Int
      BY <1>4, <1>7, Products
    <3> QED
      BY <3>1
  <2>6. PICK lo \in Nat : lo = FloorU32(x1, A) /\ (lo > 0 => A * lo <= x1)
    BY Rounded
  <2>7. o = <<MinOf(lo, cap), MinOf(CeilU32(x2, d2), cap)>>
    <3> HIDE DEF o, num
    <3>1. Mania!MinOf(Mania!FloorU32(x1, AccScale), cap) = MinOf(lo, cap)
      BY <1>4, <2>6, ManiaOperators
    <3>2. Mania!MinOf(Mania!CeilU32(x2, 5 * AccScale), cap) = MinOf(CeilU32(x2, d2), cap)
      BY <1>4, <2>4, ManiaOperators
    <3> QED
      BY <2>3, <2>5, <3>1, <3>2
  <2>8. lo > 0 => 2 * (A * lo) <= x2 - 3 * (A * cap)
    <3>1. 2 * x1 <= x2 - 3 * (A * cap)
      <4>1. x1 = acc * 3 * room - A * v1 /\ x2 = target - A * v2
        BY <1>4, <1>7, <2>5
      <4>2. 2 * (acc * 3 * room) <= target
        <5>1. \A x, y \in Int, m \in Nat : x <= y => m * x <= m * y
          OBVIOUS
        <5>2. 2 * (acc * 3 * room) = (acc * 6) * room
          OBVIOUS
        <5>3. acc * 6 \in Nat
          OBVIOUS
        <5> QED
          BY <1>5, <5>1, <5>2, <5>3
      <4>3. 2 * (A * v1) = A * v2 + 3 * (A * cap)
        <5>1. \A x, y \in Int : A * (x + 3 * y) = A * x + 3 * (A * y) /\ A * (2 * x) = 2 * (A * x)
          OBVIOUS
        <5>2. 2 * v1 = v2 + 3 * cap
          BY <2>2
        <5> QED
          BY <5>1, <5>2
      <4>4. A * v1 \in Int /\ A * v2 \in Int /\ A * cap \in Int /\ acc * 3 * room \in Int
        BY Products
      <4> HIDE DEF num
      <4>5. PICK p1, p2, p3, p4 \in Int :
                p1 = A * v1 /\ p2 = A * v2 /\ p3 = A * cap /\ p4 = acc * 3 * room
        BY <4>4
      <4> QED
        BY <4>1, <4>2, <4>3, <4>5
    <3>2. A * lo \in Int /\ A * cap \in Int
      BY Products
    <3>3. PICK p1, p2 \in Int : p1 = A * lo /\ p2 = A * cap
      BY <3>2
    <3> QED
      BY <2>6, <3>1, <3>3
  <2>9. 2 \in Nat \ {0} /\ 3 \in Nat /\ d2 = (2 + 3) * A
    BY <2>4
  <2> HIDE DEF o
  <2>10. IsRange(o, cap)
    BY <2>7, <2>8, <2>9, RangeBetween
  <2>11. cap \in 0 .. room /\ (k + z + w <= room => cap + k + z + w <= room)
    BY <2>1, <2>2
  <2> QED
    BY <1>6, <2>10, <2>11, Zenon DEF o
<1>15. CASE given.n_katu = None /\ given.n100 = None /\ given.n50 # None
  <2>1. k = 0 /\ z = 0
    BY <1>2, <1>15
  <2>2. PICK v1, v2 \in Int, cap \in Nat :
            v1 = 4 * room - 3 * w /\ v2 = 2 * room - w /\ cap = room - w
    <3>1. 4 * room - 3 * w \in Int /\ 2 * room - w \in Int /\ room - w \in Nat
      OBVIOUS
    <3> QED
      BY <3>1
  <2>3. o = <<Mania!MinOf(Mania!FloorU32(num(v1), 2 * AccScale), cap),
              Mania!MinOf(Mania!CeilU32(num(v2), 4 * AccScale), cap)>>
    BY <1>1, <1>15, <2>2 DEF Mania!Outer, num
  <2>4. PICK d1, d2 \in Nat \ {0} : d1 = 2 * A /\ d2 = 4 * A
    BY <1>4
  <2>5. PICK x1, x2 \in Int : x1 = num(v1) /\ x2 = num(v2)
    BY <1>7
  <2>6. PICK lo \in Nat : lo = FloorU32(x1, d1) /\ (lo > 0 => d1 * lo <= x1)
    BY Rounded
  <2>7. o = <<MinOf(lo, cap), MinOf(CeilU32(x2, d2), cap)>>
    <3> HIDE DEF o
    <3> QED
      BY <1>4, <2>3, <2>4, <2>5, <2>6, ManiaOperators
  <2>8. lo > 0 => 2 * (A * lo) <= x2 - 2 * (A * cap)
    <3>1. d1 * lo = 2 * (A * lo)
      BY <2>4
    <3>2. x1 = x2 - 2 * (A * cap)
      <4>1. x1 = target - A * v1 /\ x2 = target - A * v2
        BY <1>7, <2>5
      <4>2. A * v1 = A * v2 + 2 * (A * cap)
        <5>1. \A x, y \in Int : A * (x + 2 * y) = A * x + 2 * (A * y)
          OBVIOUS
        <5>2. v1 = v2 + 2 * cap
          BY <2>2
        <5> QED
          BY <5>1, <5>2
      <4>3. A * v1 \in Int /\ A * v2 \in Int /\ A * cap \in Int
        BY Products
      <4> QED
        BY <4>1, <4>2, <4>3
    <3> QED
      BY <2>6, <3>1, <3>2
  <2>9. 2 \in Nat \ {0} /\ 2 \in Nat /\ d2 = (2 + 2) * A
    BY <2>4
  <2> HIDE DEF o
  <2>10. IsRange(o, cap)
    BY <2>7, <2>8, <2>9, RangeBetween
  <2>11. cap \in 0 .. room /\ (k + z + w <= room => cap + k + z + w <= room)
    BY <2>1, <2>2
  <2> QED
    BY <1>6, <2>10, <2>11, Zenon DEF o
<1>16. CASE given.n_katu = None /\ given.n100 = None /\ given.n50 = None
  <2>1. k = 0 /\ z = 0 /\ w = 0
    BY <1>2, <1>16
  <2>2. PICK v1 \in Int : v1 = 4 * room
    OBVIOUS
  <2>3. o = <<Mania!MinOf(Mania!FloorU32(num(v1), 5 * AccScale), room),
              Mania!MinOf(Mania!MinOf(Mania!CeilU32(num(room), 5 * AccScale),
                                      Mania!CeilU32(acc * 3 * n - AccScale * room, AccScale)),
                          room)>>
    BY <1>16, <2>2 DEF Mania!Outer, num
  <2>4. PICK d \in Nat \ {0} : d = 5 * A
    BY <1>4
  <2>5. PICK x1, x2, x3 \in Int : /\ x1 = num(v1) /\ x2 = num(room)
                                  /\ x3 = acc * 3 * n - AccScale * room
    <3>1. acc * 3 * n \in Int /\ AccScale * room \in Int /\ num(v1) \in Int /\ num(room) \in Int
      BY <1>3, <1>4, <1>7, Products
    <3> QED
      BY <3>1
  <2>6. PICK lo, h1, h2 \in Nat : /\ lo = FloorU32(x1, d) /\ (lo > 0 => d * lo <= x1)
                                  /\ h1 = CeilU32(x2, d) /\ d * h1 >= x2
                                  /\ h2 = CeilU32(x3, A) /\ A * h2 >= x3
    BY Rounded
  <2>7. o = <<MinOf(lo, room), MinOf(MinOf(h1, h2), room)>>
    <3> HIDE DEF o
    <3>1. /\ Mania!FloorU32(num(v1), 5 * AccScale) = lo /\ Mania!CeilU32(num(room), 5 * AccScale) = h1
          /\ Mania!CeilU32(acc * 3 * n - AccScale * room, AccScale) = h2
      BY <1>4, <2>4, <2>5, <2>6, ManiaOperators
    <3>2. o = <<Mania!MinOf(lo, room), Mania!MinOf(Mania!MinOf(h1, h2), room)>>
      BY <2>3, <3>1
    <3> QED
      BY <3>2, ManiaOperators
  <2>8. PICK ar, al, a1, a2 \in Int : ar = A * room /\ al = A * lo /\ a1 = A * h1 /\ a2 = A * h2
    BY Products
  <2>9. d * lo = 5 * al /\ d * h1 = 5 * a1 /\ ar >= 0 /\ al >= 0
    BY <2>4, <2>8
  <2>10. /\ x1 = target - 4 * ar /\ x2 = target - ar /\ 2 * x3 = target - 2 * ar
    <3>1. A * v1 = 4 * ar
      BY <2>2, <2>8
    <3>2. x1 = target - A * v1 /\ x2 = target - A * room
      BY <1>7, <2>5
    <3>3. 2 * (acc * 3 * n) = target
      BY <1>5
    <3>4. acc * 3 * n \in Int
      BY Products
    <3>5. x3 = acc * 3 * n - A * room
      BY <1>4, <2>5
    <3> QED
      BY <2>8, <3>1, <3>2, <3>3, <3>4, <3>5
  <2>11. lo <= h1
    <3>1. lo > 0 => al <= a1
      BY <2>6, <2>9, <2>10
    <3>2. h1 < lo => a1 + A <= al
      BY <2>8, Multiples
    <3> QED
      BY <3>1, <3>2
  <2>12. lo <= h2
    <3>1. lo > 0 => al <= a2
      BY <2>6, <2>8, <2>9, <2>10
    <3>2. h2 < lo => a2 + A <= al
      BY <2>8, Multiples
    <3> QED
      BY <3>1, <3>2
  <2>13. PICK hi \in Nat : hi = MinOf(h1, h2) /\ lo <= hi
    BY <2>11, <2>12 DEF MinOf
  <2>14. PICK x, y \in 0 .. room : x = MinOf(lo, room) /\ y = MinOf(hi, room) /\ x <= y
    BY <1>3, <2>13 DEF MinOf
  <2> HIDE DEF o
  <2>15. IsRange(o, room)
    BY <2>7, <2>13, <2>14 DEF IsRange
  <2>16. room \in 0 .. room /\ (k + z + w <= room => room + k + z + w <= room)
    BY <1>3, <2>1
  <2> QED
    BY <1>6, <2>15, <2>16, Zenon DEF o
<1> QED
  BY <1>10, <1>11, <1>12, <1>13, <1>14, <1>15, <1>16


\* All hit results that the caller gave
AllGiven(h) == h.n_geki + h.n300 + h.n_katu + h.n100 + h.n50

\* A number of 320s and 300s together that agrees with the caller
UpperShare(x, given, h, room) ==
    /\ x \in 0 .. 2 * room
    /\ given.n_geki # None /\ given.n300 = None => h.n_geki <= x /\ x <= room
    /\ given.n_geki = None /\ given.n300 # None => h.n300 <= x /\ x <= room
    /\ given.n_geki = None /\ given.n300 = None => x <= room
    /\ given.n_geki # None /\ given.n300 # None =>
            \/ x = h.n_geki + h.n300
            \/ x = room /\ room <= h.n_geki + h.n300
    /\ given.n_katu = None /\ given.n100 = None /\ given.n50 = None => x <= room
    /\ AllGiven(h) <= room => x + h.n_katu + h.n100 + h.n50 <= room

LEMMA ManiaOuterLoop ==
    ASSUME NEW n \in Nat, NEW room \in 0 .. n, NEW given, NotAllLower(given),
           NEW h, ManiaLimits(h, given, room), NEW acc \in Nat
    PROVE  LET X == Mania!OuterLoop(given, h, n, room, acc)
           IN  X # {} /\ \A x \in X : UpperShare(x, given, h, room)
<1> DEFINE o == Mania!Outer(given, h, n, room, acc)
           X == Mania!OuterLoop(given, h, n, room, acc)
<1>1. PICK e, t, k, z, w \in 0 .. room :
          e = h.n_geki /\ t = h.n300 /\ k = h.n_katu /\ z = h.n100 /\ w = h.n50
  BY DEF ManiaLimits
<1>2. (given.n_geki = None => e = 0) /\ (given.n300 = None => t = 0)
  BY <1>1 DEF ManiaLimits
<1>3. room \in Nat
  OBVIOUS
<1>4. AllGiven(h) = e + t + k + z + w
  BY <1>1 DEF AllGiven
<1>5. PICK cap \in 0 .. room : IsRange(o, cap) /\ (k + z + w <= room => cap + k + z + w <= room)
  <2>1. IsOuter(o, h, room)
    BY ManiaOuter
  <2> HIDE DEF o
  <2> QED
    BY <1>1, <2>1 DEF IsOuter
<1>6. PICK lo, hi \in 0 .. cap : lo <= hi /\ o = <<lo, hi>>
  BY <1>5 DEF IsRange
<1>7. o[1] = lo /\ o[2] = hi
  <2> HIDE DEF o
  <2> QED
    BY <1>6
<1>8. CASE given.n_geki # None /\ given.n300 # None
  <2> DEFINE both == IF Mania!Cardinality(Mania!Open(given, Mania!Lower)) = 1
                     THEN h.n_geki + h.n300 ELSE Mania!MinOf(room, h.n_geki + h.n300)
  <2>1. X = both .. both
    BY <1>8 DEF Mania!OuterLoop
  <2>2. both = e + t \/ (both = room /\ room <= e + t)
    <3>1. PICK sum \in Nat : sum = e + t
      OBVIOUS
    <3>2. Mania!MinOf(room, h.n_geki + h.n300) = MinOf(room, sum)
      BY <1>1, <3>1, ManiaOperators
    <3>3. MinOf(room, sum) = sum \/ (MinOf(room, sum) = room /\ room <= sum)
      BY DEF MinOf
    <3> QED
      BY <1>1, <3>1, <3>2, <3>3
  <2>7. given.n_katu = None /\ given.n100 = None /\ given.n50 = None => both <= room
    <3>1. SUFFICES ASSUME given.n_katu = None, given.n100 = None, given.n50 = None
                   PROVE  both <= room
      OBVIOUS
    <3>2. PICK names : names = <<"n_katu", "n100", "n50">>
      OBVIOUS
    <3>3. DOMAIN names = 1 .. 3 /\ names[1] = "n_katu" /\ names[2] = "n100" /\ names[3] = "n50"
      BY <3>2
    <3>4. Open(given, names) = 1 .. 3
      BY <3>1, <3>3 DEF Open
    <3>5. Cardinality(1 .. 3) = 3
      <4>1. 1 \in Int /\ 3 \in Int /\ 3 - 1 + 1 = 3 /\ ~(1 > 3)
        OBVIOUS
      <4> QED
        BY <4>1, FS_Interval
    <3>6. Mania!Cardinality(Mania!Open(given, Mania!Lower)) = 3
      BY <3>2, <3>4, <3>5, ManiaOperators DEF Mania!Lower
    <3>7. both = Mania!MinOf(room, h.n_geki + h.n300)
      BY <3>6
    <3> HIDE DEF both
    <3>8. PICK sum \in Nat : sum = e + t
      OBVIOUS
    <3>9. both = MinOf(room, sum)
      BY <1>1, <3>7, <3>8, ManiaOperators
    <3> QED
      BY <3>9 DEF MinOf
  <2> HIDE DEF both, X
  <2>3. both \in 0 .. 2 * room
    BY <2>2
  <2>4. X = {both}
    BY <2>1, <2>3
  <2>5. e + t + k + z + w <= room => both + k + z + w <= room
    BY <2>2
  <2>6. UpperShare(both, given, h, room)
    BY <1>1, <1>4, <1>8, <2>2, <2>3, <2>5, <2>7, Zenon DEF UpperShare
  <2> QED
    BY <2>4, <2>6 DEF X
<1>9. ASSUME NEW m \in 0 .. room, m = e \/ m = t, X = MaxOf(lo, m) .. MaxOf(hi, m)
      PROVE  X # {} /\ \A x \in X : /\ x \in 0 .. 2 * room /\ m <= x /\ x <= room
                                    /\ e + t + k + z + w <= room => x + k + z + w <= room
  <2>1. PICK a, b \in 0 .. room : /\ a = MaxOf(lo, m) /\ b = MaxOf(hi, m) /\ a <= b /\ m <= a
                                  /\ b <= cap \/ b = m
    BY <1>6 DEF MaxOf
  <2>2. X = a .. b
    BY <1>9, <2>1
  <2> HIDE DEF X
  <2>3. a \in X
    BY <2>1, <2>2
  <2>4. ASSUME NEW x \in X
        PROVE  /\ x \in 0 .. 2 * room /\ m <= x /\ x <= room
               /\ e + t + k + z + w <= room => x + k + z + w <= room
    <3>1. x \in Int /\ a <= x /\ x <= b
      BY <2>1, <2>2
    <3>2. b <= cap => (e + t + k + z + w <= room => x + k + z + w <= room)
      BY <1>5, <3>1
    <3>3. b = m => (e + t + k + z + w <= room => x + k + z + w <= room)
      BY <1>9, <3>1
    <3> QED
      BY <2>1, <3>1, <3>2, <3>3
  <2> QED
    BY <2>3, <2>4
<1>10. CASE given.n_geki # None /\ given.n300 = None
  <2>1. X = MaxOf(lo, e) .. MaxOf(hi, e)
    <3>1. X = Mania!MaxOf(o[1], h.n_geki) .. Mania!MaxOf(o[2], h.n_geki)
      BY <1>10 DEF Mania!OuterLoop
    <3> HIDE DEF o, X
    <3> QED
      BY <1>1, <1>7, <3>1, ManiaOperators
  <2>2. X # {} /\ \A x \in X : /\ x \in 0 .. 2 * room /\ e <= x /\ x <= room
                               /\ e + t + k + z + w <= room => x + k + z + w <= room
    BY <1>9, <2>1
  <2> HIDE DEF X
  <2>3. \A x \in X : UpperShare(x, given, h, room)
    BY <1>1, <1>4, <1>10, <2>2, Zenon DEF UpperShare
  <2> QED
    BY <2>2, <2>3 DEF X
<1>11. CASE given.n_geki = None /\ given.n300 # None
  <2>1. X = MaxOf(lo, t) .. MaxOf(hi, t)
    <3>1. X = Mania!MaxOf(o[1], h.n300) .. Mania!MaxOf(o[2], h.n300)
      BY <1>11 DEF Mania!OuterLoop
    <3> HIDE DEF o, X
    <3> QED
      BY <1>1, <1>7, <3>1, ManiaOperators
  <2>2. X # {} /\ \A x \in X : /\ x \in 0 .. 2 * room /\ t <= x /\ x <= room
                               /\ e + t + k + z + w <= room => x + k + z + w <= room
    BY <1>9, <2>1
  <2> HIDE DEF X
  <2>3. \A x \in X : UpperShare(x, given, h, room)
    BY <1>1, <1>4, <1>11, <2>2, Zenon DEF UpperShare
  <2> QED
    BY <2>2, <2>3 DEF X
<1>12. CASE given.n_geki = None /\ given.n300 = None
  <2>1. X = lo .. hi
    <3>1. X = o[1] .. o[2]
      BY <1>12 DEF Mania!OuterLoop
    <3> HIDE DEF o, X
    <3> QED
      BY <1>7, <3>1
  <2> HIDE DEF X
  <2>2. lo \in X
    BY <1>6, <2>1
  <2>3. \A x \in X : /\ x \in 0 .. 2 * room /\ x <= room
                     /\ e + t + k + z + w <= room => x + k + z + w <= room
    BY <1>3, <1>5, <1>6, <2>1
  <2>4. \A x \in X : UpperShare(x, given, h, room)
    BY <1>1, <1>4, <1>12, <2>3, Zenon DEF UpperShare
  <2> QED
    BY <2>2, <2>4 DEF X
<1> QED
  BY <1>8, <1>10, <1>11, <1>12


\* Counts of 320s and 300s, 200s, 100s and 50s that agree with the caller.
\* More than the objects left are only shared where the caller gave too many,
\* and no 200s are found then.
ManiaShare(t, given, h, room) ==
    \E x, y, z, w \in Nat :
        /\ t = <<x, y, z, w>> /\ UpperShare(x, given, h, room)
        /\ y <= room /\ z <= room /\ w <= room
        /\ given.n_katu # None => y = h.n_katu
        /\ given.n100 # None => z = h.n100
        /\ given.n50 # None => w = h.n50
        /\ x + y + z + w >= room
        /\ AllGiven(h) <= room => x + y + z + w = room
        /\ given.n_katu = None => y = 0 \/ x + y + z + w = room

\* The r that is left after x, v and g
TakesRest(r, x, v, g, room) ==
    /\ r = SatSub(room, x + v + g) /\ v <= room
    /\ x + v + g + r >= room
    /\ v # 0 \/ x + g <= room => x + v + g + r = room

\* What one loop gives and what is left after it
LEMMA RestOfTwo ==
    ASSUME NEW room \in Nat, NEW x \in Nat, NEW g \in Nat, NEW v \in 0 .. SatSub(room, x + g)
    PROVE  \E r \in 0 .. room : TakesRest(r, x, v, g, room)
<1>1. PICK s, c \in Nat : /\ s = x + g /\ c = SatSub(room, s) /\ c <= room
                          /\ s <= room => c + s = room
                          /\ s >= room => c = 0
  <2>1. PICK s \in Nat : s = x + g
    OBVIOUS
  <2> QED
    BY <2>1, Saturated
<1>2. v \in 0 .. c
  BY <1>1
<1>3. PICK q \in Nat : q = x + v + g
  BY <1>2
<1>4. PICK r \in Nat : /\ r = SatSub(room, q) /\ r <= room
                       /\ q <= room => r + q = room
                       /\ q >= room => r = 0
  BY Saturated
<1>5. v # 0 \/ s <= room => q + r = room
  BY <1>1, <1>2, <1>3, <1>4
<1>6. q + r >= room /\ v <= room
  BY <1>1, <1>2, <1>4
<1> QED
  BY <1>1, <1>3, <1>4, <1>5, <1>6 DEF TakesRest

LEMMA RestOfOne ==
    ASSUME NEW room \in Nat, NEW q \in Nat
    PROVE  \E r \in 0 .. room : /\ r = SatSub(room, q) /\ q + r >= room
                                /\ r # 0 \/ q <= room => q + r = room
<1>1. PICK r \in Nat : /\ r = SatSub(room, q) /\ r <= room
                       /\ q <= room => r + q = room
                       /\ q >= room => r = 0
  BY Saturated
<1> QED
  BY <1>1

LEMMA ManiaInner ==
    ASSUME NEW n \in Nat, NEW room \in 0 .. n, NEW given, NotAllLower(given),
           NEW h, ManiaLimits(h, given, room), NEW acc \in Nat,
           NEW x, UpperShare(x, given, h, room)
    PROVE  LET T == Mania!Inner(given, h, n, room, acc, x)
           IN  T # {} /\ \A t \in T : ManiaShare(t, given, h, room)
<1> DEFINE T == Mania!Inner(given, h, n, room, acc, x)
           num(v) == acc * 6 * n - AccScale * v
<1>1. PICK k, z, w \in 0 .. room : k = h.n_katu /\ z = h.n100 /\ w = h.n50
  BY DEF ManiaLimits
<1>2. /\ given.n_katu = None => k = 0
      /\ given.n100 = None => z = 0
      /\ given.n50 = None => w = 0
  BY <1>1 DEF ManiaLimits
<1>3. room \in Nat /\ x \in Nat /\ (AllGiven(h) <= room => x + k + z + w <= room)
  BY <1>1 DEF UpperShare
<1>4. PICK A \in Nat \ {0} : A = AccScale
  BY AccScaleAssumption
<1>5. PICK target \in Int : target = acc * 6 * n
  BY Products
<1>6. \A v \in Int : num(v) \in Int /\ num(v) = target - A * v
  BY <1>4, <1>5, Products
<1> HIDE DEF num
<1>7. ASSUME NEW t, NEW y2 \in 0 .. room, NEW z2 \in 0 .. room, NEW w2 \in 0 .. room,
             t = <<x, y2, z2, w2>>,
             given.n_katu # None => y2 = k,
             given.n100 # None => z2 = z,
             given.n50 # None => w2 = w,
             x + y2 + z2 + w2 >= room,
             x + k + z + w <= room => x + y2 + z2 + w2 = room,
             given.n_katu = None => y2 = 0 \/ x + y2 + z2 + w2 = room
      PROVE  ManiaShare(t, given, h, room)
  <2>1. y2 \in Nat /\ z2 \in Nat /\ w2 \in Nat /\ y2 <= room /\ z2 <= room /\ w2 <= room
    BY <1>3
  <2> QED
    BY <1>1, <1>3, <1>7, <2>1, Zenon DEF ManiaShare
<1>8. ASSUME NEW v \in Int, NEW m \in Nat \ {0}, NEW g \in Nat
      PROVE  /\ Mania!Around(num(v), m * AccScale, Mania!SatSub(room, x + g)) # {}
             /\ Mania!Around(num(v), m * AccScale, Mania!SatSub(room, x + g))
                    \subseteq 0 .. SatSub(room, x + g)
  <2>1. PICK cap \in Nat : cap = SatSub(room, x + g)
    <3>1. PICK s \in Nat : s = x + g
      BY <1>3
    <3> QED
      BY <1>3, <3>1, Saturated
  <2>2. PICK num2 \in Int, den \in Nat \ {0} : num2 = num(v) /\ den = m * AccScale
    BY <1>4, <1>6
  <2>3. Mania!Around(num(v), m * AccScale, Mania!SatSub(room, x + g)) = Around(num2, den, cap)
    BY <2>1, <2>2, ManiaOperators
  <2> QED
    BY <2>1, <2>3, AroundIsNear
<1>9. CASE given.n100 # None /\ given.n50 # None
  <2>1. given.n_katu = None /\ k = 0
    BY <1>2, <1>9 DEF NotAllLower
  <2>2. PICK q \in Nat : q = x + z + w
    BY <1>3
  <2>3. PICK r \in 0 .. room : /\ r = SatSub(room, q) /\ q + r >= room
                               /\ r # 0 \/ q <= room => q + r = room
    BY <1>3, RestOfOne
  <2>4. T = {<<x, r, z, w>>}
    <3>1. Mania!SatSub(room, x + z + w) = r
      BY <2>2, <2>3, ManiaOperators
    <3> QED
      BY <1>1, <1>9, <2>1, <3>1 DEF Mania!Inner
  <2>5. ManiaShare(<<x, r, z, w>>, given, h, room)
    <3>1. /\ x + r + z + w >= room
          /\ x + k + z + w <= room => x + r + z + w = room
          /\ given.n_katu = None => r = 0 \/ x + r + z + w = room
      BY <1>3, <2>1, <2>2, <2>3
    <3> QED
      BY <1>7, <2>1, <3>1, Zenon
  <2> HIDE DEF T
  <2> QED
    BY <2>4, <2>5 DEF T
<1>10. CASE given.n_katu # None /\ given.n50 # None
  <2>1. given.n100 = None /\ z = 0
    BY <1>2, <1>10 DEF NotAllLower
  <2>2. PICK q \in Nat : q = x + k + w
    BY <1>3
  <2>3. PICK r \in 0 .. room : /\ r = SatSub(room, q) /\ q + r >= room
                               /\ r # 0 \/ q <= room => q + r = room
    BY <1>3, RestOfOne
  <2>4. T = {<<x, k, r, w>>}
    <3>1. Mania!SatSub(room, x + k + w) = r
      BY <2>2, <2>3, ManiaOperators
    <3> QED
      BY <1>1, <1>10, <2>1, <3>1 DEF Mania!Inner
  <2>5. ManiaShare(<<x, k, r, w>>, given, h, room)
    <3>1. /\ x + k + r + w >= room
          /\ x + k + z + w <= room => x + k + r + w = room
      BY <1>3, <2>1, <2>2, <2>3
    <3> QED
      BY <1>7, <1>10, <2>1, <3>1, Zenon
  <2> HIDE DEF T
  <2> QED
    BY <2>4, <2>5 DEF T
<1>11. CASE given.n_katu # None /\ given.n100 # None
  <2>1. given.n50 = None /\ w = 0
    BY <1>2, <1>11 DEF NotAllLower
  <2>2. PICK q \in Nat : q = x + k + z
    BY <1>3
  <2>3. PICK r \in 0 .. room : /\ r = SatSub(room, q) /\ q + r >= room
                               /\ r # 0 \/ q <= room => q + r = room
    BY <1>3, RestOfOne
  <2>4. T = {<<x, k, z, r>>}
    <3>1. Mania!SatSub(room, x + k + z) = r
      BY <2>2, <2>3, ManiaOperators
    <3> QED
      BY <1>1, <1>11, <2>1, <3>1 DEF Mania!Inner
  <2>5. ManiaShare(<<x, k, z, r>>, given, h, room)
    <3>1. /\ x + k + z + r >= room
          /\ x + k + z + w <= room => x + k + z + r = room
      BY <1>3, <2>1, <2>2, <2>3
    <3> QED
      BY <1>7, <1>11, <2>1, <3>1, Zenon
  <2> HIDE DEF T
  <2> QED
    BY <2>4, <2>5 DEF T
<1>12. CASE given.n_katu # None /\ given.n100 = None /\ given.n50 = None
  <2>1. z = 0 /\ w = 0
    BY <1>2, <1>12
  <2>2. PICK v \in Int : v = room + 5 * x + 3 * k
    BY <1>3
  <2> DEFINE Z == Mania!Around(num(v), 1 * AccScale, Mania!SatSub(room, x + k))
  <2>3. T = {<<x, k, u, Mania!SatSub(room, x + k + u)>> : u \in Z}
    <3>1. 1 * AccScale = AccScale
      BY AccScaleAssumption
    <3>2. T = {<<x, k, u, Mania!SatSub(room, x + k + u)>> :
                   u \in Mania!Around(num(v), AccScale, Mania!SatSub(room, x + k))}
      BY <1>1, <1>12, <2>2 DEF Mania!Inner, num
    <3> HIDE DEF T
    <3> QED
      BY <3>1, <3>2
  <2>4. Z # {} /\ Z \subseteq 0 .. SatSub(room, x + k)
    <3>1. 1 \in Nat \ {0} /\ k \in Nat
      OBVIOUS
    <3> QED
      BY <1>8, <3>1, Zenon
  <2> HIDE DEF Z, T
  <2>5. ASSUME NEW t \in T
        PROVE  ManiaShare(t, given, h, room)
    <3>1. PICK u \in Z : t = <<x, k, u, Mania!SatSub(room, x + k + u)>>
      BY <2>3
    <3>2. u \in 0 .. SatSub(room, x + k)
      BY <2>4
    <3>3. PICK r \in 0 .. room : /\ r = SatSub(room, x + u + k) /\ u <= room
                                 /\ x + u + k + r >= room
                                 /\ u # 0 \/ x + k <= room => x + u + k + r = room
      <4>1. k \in Nat
        OBVIOUS
      <4>2. PICK r \in 0 .. room : TakesRest(r, x, u, k, room)
        BY <1>3, <3>2, <4>1, RestOfTwo
      <4> QED
        BY <4>2 DEF TakesRest
    <3>4. u \in Nat
      BY <1>3, <3>2 DEF SatSub
    <3>5. u \in 0 .. room /\ x + u + k = x + k + u
      BY <1>3, <3>3, <3>4
    <3>6. t = <<x, k, u, r>>
      BY <3>1, <3>3, <3>5, ManiaOperators
    <3>7. /\ x + k + u + r >= room
          /\ x + k + z + w <= room => x + k + u + r = room
      BY <1>3, <2>1, <3>3, <3>4
    <3> QED
      BY <1>7, <1>12, <3>5, <3>6, <3>7, Zenon
  <2> QED
    BY <2>3, <2>4, <2>5 DEF T
<1>13. CASE given.n_katu = None /\ given.n100 # None /\ given.n50 = None
  <2>1. k = 0 /\ w = 0
    BY <1>2, <1>13
  <2>2. PICK v \in Int : v = room + 5 * x + z
    BY <1>3
  <2> DEFINE Z == Mania!Around(num(v), 3 * AccScale, Mania!SatSub(room, x + z))
  <2>3. T = {<<x, u, z, Mania!SatSub(room, x + u + z)>> : u \in Z}
    BY <1>1, <1>13, <2>2 DEF Mania!Inner, num
  <2>4. Z # {} /\ Z \subseteq 0 .. SatSub(room, x + z)
    <3>1. 3 \in Nat \ {0} /\ z \in Nat
      OBVIOUS
    <3> QED
      BY <1>8, <3>1, Zenon
  <2> HIDE DEF Z, T
  <2>5. ASSUME NEW t \in T
        PROVE  ManiaShare(t, given, h, room)
    <3>1. PICK u \in Z : t = <<x, u, z, Mania!SatSub(room, x + u + z)>>
      BY <2>3
    <3>2. u \in 0 .. SatSub(room, x + z)
      BY <2>4
    <3>3. PICK r \in 0 .. room : /\ r = SatSub(room, x + u + z) /\ u <= room
                                 /\ x + u + z + r >= room
                                 /\ u # 0 \/ x + z <= room => x + u + z + r = room
      <4>1. z \in Nat
        OBVIOUS
      <4>2. PICK r \in 0 .. room : TakesRest(r, x, u, z, room)
        BY <1>3, <3>2, <4>1, RestOfTwo
      <4> QED
        BY <4>2 DEF TakesRest
    <3>4. u \in Nat
      BY <1>3, <3>2 DEF SatSub
    <3>5. u \in 0 .. room
      BY <1>3, <3>3, <3>4
    <3>6. t = <<x, u, z, r>>
      BY <3>1, <3>3, <3>5, ManiaOperators
    <3>7. /\ x + u + z + r >= room
          /\ x + k + z + w <= room => x + u + z + r = room
          /\ given.n_katu = None => u = 0 \/ x + u + z + r = room
      BY <1>3, <2>1, <3>3, <3>4
    <3> QED
      BY <1>7, <1>13, <3>5, <3>6, <3>7, Zenon
  <2> QED
    BY <2>3, <2>4, <2>5 DEF T
<1>14. CASE given.n_katu = None /\ given.n100 = None /\ given.n50 # None
  <2>1. k = 0 /\ z = 0
    BY <1>2, <1>14
  <2>2. PICK v \in Int : v = 2 * room + 4 * x - w
    BY <1>3
  <2> DEFINE Z == Mania!Around(num(v), 2 * AccScale, Mania!SatSub(room, x + w))
  <2>3. T = {<<x, u, Mania!SatSub(room, x + u + w), w>> : u \in Z}
    BY <1>1, <1>14, <2>2 DEF Mania!Inner, num
  <2>4. Z # {} /\ Z \subseteq 0 .. SatSub(room, x + w)
    <3>1. 2 \in Nat \ {0} /\ w \in Nat
      OBVIOUS
    <3> QED
      BY <1>8, <3>1, Zenon
  <2> HIDE DEF Z, T
  <2>5. ASSUME NEW t \in T
        PROVE  ManiaShare(t, given, h, room)
    <3>1. PICK u \in Z : t = <<x, u, Mania!SatSub(room, x + u + w), w>>
      BY <2>3
    <3>2. u \in 0 .. SatSub(room, x + w)
      BY <2>4
    <3>3. PICK r \in 0 .. room : /\ r = SatSub(room, x + u + w) /\ u <= room
                                 /\ x + u + w + r >= room
                                 /\ u # 0 \/ x + w <= room => x + u + w + r = room
      <4>1. w \in Nat
        OBVIOUS
      <4>2. PICK r \in 0 .. room : TakesRest(r, x, u, w, room)
        BY <1>3, <3>2, <4>1, RestOfTwo
      <4> QED
        BY <4>2 DEF TakesRest
    <3>4. u \in Nat
      BY <1>3, <3>2 DEF SatSub
    <3>5. u \in 0 .. room
      BY <1>3, <3>3, <3>4
    <3>6. t = <<x, u, r, w>>
      BY <3>1, <3>3, <3>5, ManiaOperators
    <3>7. /\ x + u + r + w >= room
          /\ x + k + z + w <= room => x + u + r + w = room
          /\ given.n_katu = None => u = 0 \/ x + u + r + w = room
      BY <1>3, <2>1, <3>3, <3>4
    <3> QED
      BY <1>7, <1>14, <3>5, <3>6, <3>7, Zenon
  <2> QED
    BY <2>3, <2>4, <2>5 DEF T
<1>15. CASE given.n_katu = None /\ given.n100 = None /\ given.n50 = None
  <2> DEFINE Y == Mania!MinOf(Mania!FloorU32(acc * 3 * n - AccScale * (room + 2 * x), AccScale),
                              room - x)
                  .. Mania!MinOf(Mania!CeilU32(num(room + 5 * x), 3 * AccScale), room - x)
             Z(y) == Mania!Around(num(room + 5 * x + 3 * y), AccScale, room - (x + y))
  <2>1. PICK cap \in 0 .. room : cap = room - x /\ x + cap = room
    BY <1>3, <1>15 DEF UpperShare
  <2>2. T = UNION {{<<x, y, u, room - x - y - u>> : u \in Z(y)} : y \in Y}
    BY <1>15 DEF Mania!Inner, num
  <2>3. Y # {} /\ Y \subseteq 0 .. cap
    <3>1. PICK v1, v2 \in Int : v1 = room + 2 * x /\ v2 = room + 5 * x
      BY <1>3
    <3>2. PICK x1, x2 \in Int : x1 = acc * 3 * n - AccScale * v1 /\ x2 = num(v2)
      <4>1. acc * 3 * n \in Int /\ AccScale * v1 \in Int /\ num(v2) \in Int
        BY <1>4, <1>6, Products
      <4> QED
        BY <4>1
    <3>3. PICK den \in Nat \ {0} : den = 3 * A
      BY <1>4
    <3>4. PICK lo, hi \in Nat : /\ lo = FloorU32(x1, A) /\ (lo > 0 => A * lo <= x1)
                                /\ hi = CeilU32(x2, den)
      BY <3>3, Rounded
    <3>5. Y = MinOf(lo, cap) .. MinOf(CeilU32(x2, den), cap)
      <4>1. /\ Mania!FloorU32(acc * 3 * n - AccScale * (room + 2 * x), AccScale) = lo
            /\ Mania!CeilU32(num(room + 5 * x), 3 * AccScale) = CeilU32(x2, den)
        BY <1>4, <3>1, <3>2, <3>3, <3>4, ManiaOperators
      <4>2. Y = Mania!MinOf(lo, cap) .. Mania!MinOf(CeilU32(x2, den), cap)
        BY <2>1, <4>1
      <4> HIDE DEF Y
      <4> QED
        BY <4>2, ManiaOperators
    <3>6. lo > 0 => 2 * (A * lo) <= x2 - 1 * (A * cap)
      <4>1. 2 * (acc * 3 * n) = target
        BY <1>5
      <4>2. 2 * (A * v1) = A * v2 + A * cap
        <5>1. \A a, b \in Int : A * (a + b) = A * a + A * b /\ A * (2 * a) = 2 * (A * a)
          OBVIOUS
        <5>2. 2 * v1 = v2 + cap
          BY <1>3, <2>1, <3>1
        <5> QED
          BY <5>1, <5>2
      <4>3. PICK p1, p2, p3, p4, p5 \in Int : /\ p1 = A * v1 /\ p2 = A * v2 /\ p3 = A * cap
                                              /\ p4 = acc * 3 * n /\ p5 = A * lo
        <5>1. /\ A * v1 \in Int /\ A * v2 \in Int /\ A * cap \in Int
              /\ acc * 3 * n \in Int /\ A * lo \in Int
          BY Products
        <5> QED
          BY <5>1
      <4>4. x1 = p4 - p1 /\ x2 = target - p2
        BY <1>4, <1>6, <3>2, <4>3
      <4> QED
        BY <3>4, <4>1, <4>2, <4>3, <4>4
    <3>7. 2 \in Nat \ {0} /\ 1 \in Nat /\ den = (2 + 1) * A /\ cap \in Nat
      BY <3>3
    <3>8. IsRange(<<MinOf(lo, cap), MinOf(CeilU32(x2, den), cap)>>, cap)
      BY <3>6, <3>7, RangeBetween
    <3>9. PICK a, b \in 0 .. cap :
              a <= b /\ <<MinOf(lo, cap), MinOf(CeilU32(x2, den), cap)>> = <<a, b>>
      BY <3>8 DEF IsRange
    <3>10. Y = a .. b
      <4> HIDE DEF Y
      <4> QED
        BY <3>5, <3>9
    <3> HIDE DEF Y
    <3>11. a \in Y
      BY <3>7, <3>9, <3>10
    <3>12. \A u \in a .. b : u \in 0 .. cap
      BY <3>7
    <3> QED
      BY <3>10, <3>11, <3>12
  <2>4. ASSUME NEW y \in Y
        PROVE  /\ y \in 0 .. cap /\ Z(y) # {}
               /\ \A u \in Z(y) : u \in 0 .. room /\ room - x - y - u \in 0 .. room
                                  /\ x + y + u + (room - x - y - u) = room
    <3> HIDE DEF Y
    <3>1. y \in 0 .. cap
      BY <2>3
    <3>2. PICK c2 \in Nat : c2 = room - (x + y) /\ x + y + c2 = room
      BY <1>3, <2>1, <3>1
    <3>3. PICK v \in Int : v = room + 5 * x + 3 * y
      BY <1>3, <3>1
    <3>4. PICK x2 \in Int : x2 = num(v)
      BY <1>6
    <3>5. Z(y) = Around(x2, A, c2)
      BY <1>4, <3>2, <3>3, <3>4, ManiaOperators
    <3> HIDE DEF Z
    <3>6. Z(y) # {} /\ Z(y) \subseteq 0 .. c2
      BY <3>5, AroundIsNear
    <3>7. \A u \in 0 .. c2 : u \in 0 .. room /\ room - x - y - u \in 0 .. room
                             /\ x + y + u + (room - x - y - u) = room
      BY <1>3, <3>1, <3>2
    <3> QED
      BY <3>1, <3>6, <3>7
  <2> HIDE DEF Y, Z, T
  <2>5. ASSUME NEW t \in T
        PROVE  ManiaShare(t, given, h, room)
    <3>1. PICK y \in Y : t \in {<<x, y, u, room - x - y - u>> : u \in Z(y)}
      BY <2>2
    <3>2. PICK u \in Z(y) : t = <<x, y, u, room - x - y - u>>
      BY <3>1
    <3>3. PICK r \in 0 .. room : r = room - x - y - u /\ x + y + u + r = room /\ u \in 0 .. room
      BY <2>4
    <3>4. y \in 0 .. room
      BY <2>1, <2>4
    <3>5. t = <<x, y, u, r>> /\ x + y + u + r >= room
      BY <1>3, <3>2, <3>3
    <3> QED
      BY <1>7, <1>15, <3>3, <3>4, <3>5, Zenon
  <2>6. T # {}
    <3>1. PICK y : y \in Y
      BY <2>3
    <3>2. PICK u : u \in Z(y)
      BY <2>4, <3>1
    <3>3. PICK U : U = {<<x, y, v, room - x - y - v>> : v \in Z(y)}
      OBVIOUS
    <3>4. U \subseteq T
      BY <2>2, <3>1, <3>3
    <3>5. <<x, y, u, room - x - y - u>> \in U
      BY <3>2, <3>3
    <3> QED
      BY <3>4, <3>5
  <2> QED
    BY <2>5, <2>6 DEF T
<1> QED
  BY <1>9, <1>10, <1>11, <1>12, <1>13, <1>14, <1>15


\* The search ends with such counts.
LEMMA ManiaFinds ==
    ASSUME NEW n \in Nat, NEW misses \in 0 .. n, NEW given, NotAllLower(given),
           NEW h, ManiaLimits(h, given, n - misses), NEW acc \in Nat
    PROVE  ManiaShare(Mania!Found(given, h, n, misses, acc), given, h, n - misses)
<1> DEFINE X == Mania!OuterLoop(given, h, n, n - misses, acc)
           T == UNION {Mania!Inner(given, h, n, n - misses, acc, x) : x \in X}
           num(t) == Mania!Accuracy(t, misses).num
           den(t) == Mania!Accuracy(t, misses).den
           f == [t \in T |-> Candidate(t, acc, num(t), den(t))]
           F == {c \in {f[t] : t \in T} : c.over > 0}
           left == <<Mania!SatSub(n, Mania!SumOver(h, Mania!Names) + misses),
                     h.n_katu, h.n100, h.n50>>
<1>1. PICK room \in 0 .. n : room = n - misses /\ room + misses = n /\ misses \in Nat /\ room \in Nat
  <2>1. n - misses \in 0 .. n /\ n - misses + misses = n /\ misses \in Nat /\ n - misses \in Nat
    OBVIOUS
  <2> QED
    BY <2>1
<1>2. X # {} /\ \A x \in X : UpperShare(x, given, h, room)
  <2>1. ManiaLimits(h, given, room)
    BY <1>1
  <2>2. LET Y == Mania!OuterLoop(given, h, n, room, acc)
        IN  Y # {} /\ \A x \in Y : UpperShare(x, given, h, room)
    BY <2>1, ManiaOuterLoop
  <2> QED
    BY <1>1, <2>2
<1> HIDE DEF X
<1>3. \A x \in X : /\ Mania!Inner(given, h, n, n - misses, acc, x) # {}
                   /\ \A t \in Mania!Inner(given, h, n, n - misses, acc, x) :
                          ManiaShare(t, given, h, room)
  <2>1. TAKE x \in X
  <2>2. ManiaLimits(h, given, room) /\ UpperShare(x, given, h, room)
    BY <1>1, <1>2
  <2>3. LET I == Mania!Inner(given, h, n, room, acc, x)
        IN  I # {} /\ \A t \in I : ManiaShare(t, given, h, room)
    BY <2>2, ManiaInner
  <2> QED
    BY <1>1, <2>3
<1>4. T # {} /\ \A t \in T : ManiaShare(t, given, h, room)
  <2>1. PICK x \in X : Mania!Inner(given, h, n, n - misses, acc, x) # {}
    BY <1>2, <1>3
  <2>2. Mania!Inner(given, h, n, n - misses, acc, x) \subseteq T
    BY <2>1
  <2>3. T # {}
    BY <2>1, <2>2
  <2> QED
    BY <1>3, <2>3
<1>5. Mania!Found(given, h, n, misses, acc) = IF F = {} THEN left ELSE Closest(F).hits
  <2> DEFINE C == {Mania!Candidate(t, acc, Mania!Accuracy(t, misses).num,
                                   Mania!Accuracy(t, misses).den) : t \in T}
             G == {c \in C : c.over > 0}
  <2>1. Mania!Found(given, h, n, misses, acc) = IF G = {} THEN left ELSE Mania!Closest(G).hits
    BY DEF Mania!Found, X
  <2>2. C = {f[t] : t \in T}
    <3>1. \A t \in T : Mania!Candidate(t, acc, num(t), den(t)) = f[t]
      <4> HIDE DEF T
      <4>1. TAKE t \in T
      <4>2. f[t] = Candidate(t, acc, num(t), den(t))
        OBVIOUS
      <4> HIDE DEF f, num, den
      <4>3. Mania!Candidate(t, acc, num(t), den(t)) = Candidate(t, acc, num(t), den(t))
        BY ManiaOperators, Zenon
      <4> QED
        BY <4>2, <4>3
    <3> HIDE DEF f, T
    <3> QED
      BY <3>1
  <2>3. G = F
    <3> HIDE DEF C, f, T
    <3> QED
      BY <2>2
  <2> HIDE DEF G, F, left
  <2> QED
    BY <2>1, <2>3, ManiaOperators
<1> HIDE DEF T
<1>6. \A t \in T : /\ t \in [1 .. 4 -> Int] /\ num(t) \in Int
                   /\ den(t) \in Nat /\ (n > 0 => den(t) > 0) /\ (n <= 0 => den(t) <= 0)
                   /\ \E x, y, z, w \in 0 .. 2 * room : t = <<x, y, z, w>>
  <2>1. TAKE t \in T
  <2>2. PICK x, y, z, w \in Nat : /\ t = <<x, y, z, w>> /\ x \in 0 .. 2 * room
                                  /\ y <= room /\ z <= room /\ w <= room
                                  /\ x + y + z + w >= room
    BY <1>4 DEF ManiaShare, UpperShare
  <2>3. /\ num(t) = 6 * x + 4 * y + 2 * z + w
        /\ den(t) = 6 * (x + y + z + w + misses)
    <3>1. t[1] = x /\ t[2] = y /\ t[3] = z /\ t[4] = w
      BY <2>2
    <3> QED
      BY <3>1 DEF Mania!Accuracy
  <2>4. t \in [1 .. 4 -> Int]
    BY <2>2
  <2>5. \E x2, y2, z2, w2 \in 0 .. 2 * room : t = <<x2, y2, z2, w2>>
    <3>1. x \in 0 .. 2 * room /\ y \in 0 .. 2 * room /\ z \in 0 .. 2 * room /\ w \in 0 .. 2 * room
      BY <1>1, <2>2
    <3> QED
      BY <2>2, <3>1
  <2> HIDE DEF num, den
  <2>6. num(t) \in Int /\ den(t) \in Nat /\ (n > 0 => den(t) > 0)
    BY <1>1, <2>2, <2>3
  <2>7. n <= 0 => den(t) <= 0
    <3>1. n <= 0 => room <= 0 /\ misses <= 0
      BY <1>1
    <3>2. n <= 0 => x <= 0 /\ y <= 0 /\ z <= 0 /\ w <= 0
      BY <1>1, <2>2, <3>1
    <3> QED
      BY <1>1, <2>2, <2>3, <3>1, <3>2
  <2> QED
    BY <2>4, <2>5, <2>6, <2>7
<1>7. IsFiniteSet(T)
  <2>1. PICK m \in Nat : m = 2 * room
    BY <1>1
  <2>2. \A t \in T : \E x, y, z, w \in 0 .. m : t = <<x, y, z, w>>
    BY <1>6, <2>1
  <2> QED
    BY <2>2, FiniteQuadruples
<1>8. \A t \in T : f[t].hits = t /\ f[t].over = den(t)
  <2>1. TAKE t \in T
  <2>2. f[t] = Candidate(t, acc, num(t), den(t))
    OBVIOUS
  <2> HIDE DEF f, num, den
  <2> QED
    BY <2>2 DEF Candidate
<1>9. CASE n > 0
  <2>1. F = {f[t] : t \in T}
    <3>1. \A t \in T : f[t].over > 0
      <4> HIDE DEF f, den
      <4> QED
        BY <1>6, <1>8, <1>9
    <3> HIDE DEF f
    <3> QED
      BY <3>1
  <2>2. \A t \in T : f[t].hits = t /\ IsCandidate(f[t], 4)
    <3>1. TAKE t \in T
    <3>2. f[t] = Candidate(t, acc, num(t), den(t))
      OBVIOUS
    <3> HIDE DEF f, num, den
    <3>3. t \in [1 .. 4 -> Int] /\ num(t) \in Int /\ den(t) \in Nat \ {0} /\ acc \in Int
      BY <1>6, <1>9
    <3>4. Candidate(t, acc, num(t), den(t)).hits = t
          /\ IsCandidate(Candidate(t, acc, num(t), den(t)), 4)
      BY <3>3, CandidateHits, CandidateIs, Zenon
    <3> QED
      BY <3>2, <3>4
  <2>3. f = [t \in T |-> f[t]]
    OBVIOUS
  <2> HIDE DEF f, F
  <2>4. T # {} /\ 4 \in Nat
    BY <1>4
  <2>5. Closest({f[t] : t \in T}).hits \in T
    BY <1>7, <2>2, <2>3, <2>4, ClosestOfTried
  <2>6. F # {}
    BY <2>1, <2>4
  <2>7. Mania!Found(given, h, n, misses, acc) \in T
    BY <1>5, <2>1, <2>5, <2>6
  <2> QED
    BY <1>1, <1>4, <2>7
<1>10. CASE n <= 0
  <2>1. F = {}
    <3>1. \A t \in T : ~(f[t].over > 0)
      <4> HIDE DEF f, den
      <4> QED
        BY <1>6, <1>8, <1>10
    <3> HIDE DEF f
    <3> QED
      BY <3>1
  <2>2. room = 0
    BY <1>1, <1>10
  <2>3. PICK t \in T : ManiaShare(t, given, h, room)
    BY <1>4
  <2>4. PICK x, y, z, w \in Nat : t = <<x, y, z, w>> /\ x <= 2 * room /\ y <= room /\ z <= room /\ w <= room
    BY <2>3 DEF ManiaShare, UpperShare
  <2>5. t = <<0, 0, 0, 0>>
    <3>1. x = 0 /\ y = 0 /\ z = 0 /\ w = 0
      BY <2>2, <2>4
    <3> QED
      BY <2>4, <3>1
  <2>6. left = <<0, 0, 0, 0>>
    <3>1. h.n_geki = 0 /\ h.n300 = 0 /\ h.n_katu = 0 /\ h.n100 = 0 /\ h.n50 = 0
      <4>1. \A v \in 0 .. room : v = 0
        BY <2>2
      <4>2. ManiaLimits(h, given, room)
        BY <1>1
      <4> QED
        BY <4>1, <4>2 DEF ManiaLimits
    <3>2. PICK s \in Nat : s = Mania!SumOver(h, Mania!Names) + misses
      <4>1. SumOver(h, <<"n_geki", "n300", "n_katu", "n100", "n50">>) = 0
        BY <3>1, SumOfFive
      <4>2. Mania!SumOver(h, Mania!Names) = 0
        BY <4>1, ManiaOperators DEF Mania!Names
      <4> QED
        BY <1>1, <4>2
    <3>3. SatSub(n, s) = 0
      BY <1>10 DEF SatSub
    <3>4. Mania!SatSub(n, Mania!SumOver(h, Mania!Names) + misses) = 0
      BY <3>2, <3>3, ManiaOperators
    <3> QED
      BY <3>1, <3>4
  <2> HIDE DEF left, F
  <2>7. Mania!Found(given, h, n, misses, acc) = t
    BY <1>5, <2>1, <2>5, <2>6
  <2> QED
    BY <1>1, <2>3, <2>7
<1>11. n > 0 \/ n <= 0
  OBVIOUS
<1> QED
  BY <1>9, <1>10, <1>11


------------------------------------------------------------------------------
(* osu!mania: generate_state *)

\* The five hit results where `room` is what the misses leave
ManiaHits(r, g, room, fits) ==
    /\ r.n_geki \in 0 .. room /\ r.n300 \in 0 .. room /\ r.n_katu \in 0 .. room
    /\ r.n100 \in 0 .. room /\ r.n50 \in 0 .. room
    /\ r.n_geki + r.n300 + r.n_katu + r.n100 + r.n50 >= room
    /\ fits =>
          /\ r.n_geki + r.n300 + r.n_katu + r.n100 + r.n50 = room
          /\ \/ g.n_geki = None \/ g.n300 = None \/ g.n_katu = None
             \/ g.n100 = None \/ g.n50 = None
             => /\ g.n_geki # None => r.n_geki = g.n_geki
                /\ g.n300 # None => r.n300 = g.n300
                /\ g.n_katu # None => r.n_katu = g.n_katu
                /\ g.n100 # None => r.n100 = g.n100
                /\ g.n50 # None => r.n50 = g.n50
    /\ /\ g.n_geki # None /\ g.n_geki <= room
       /\ g.n300 # None /\ g.n300 <= room
       /\ g.n_katu # None /\ g.n_katu <= room
       /\ g.n100 # None /\ g.n100 <= room
       /\ g.n50 # None /\ g.n50 <= room
       /\ g.n_geki + g.n300 + g.n_katu + g.n100 + g.n50 >= room
       => /\ r.n_geki = g.n_geki /\ r.n300 = g.n300 /\ r.n_katu = g.n_katu
          /\ r.n100 = g.n100 /\ r.n50 = g.n50

\* The hit results once the 320s and 300s are told apart
ManiaParts(r, given, h, room) ==
    /\ r = [n_geki |-> r.n_geki, n300 |-> r.n300, n_katu |-> r.n_katu, n100 |-> r.n100,
            n50 |-> r.n50]
    /\ r.n_geki \in 0 .. room /\ r.n300 \in 0 .. room /\ r.n_katu \in 0 .. room
    /\ r.n100 \in 0 .. room /\ r.n50 \in 0 .. room
    /\ r.n_geki + r.n300 + r.n_katu + r.n100 + r.n50 >= room
    /\ AllGiven(h) <= room => r.n_geki + r.n300 + r.n_katu + r.n100 + r.n50 = room
    /\ given.n_geki # None => r.n_geki = h.n_geki
    /\ given.n300 # None => r.n300 = h.n300
    /\ given.n_katu # None => r.n_katu = h.n_katu
    /\ given.n100 # None => r.n100 = h.n100
    /\ given.n50 # None => r.n50 = h.n50

LEMMA ManiaSplits ==
    ASSUME NEW room \in Nat, NEW given, NEW h, ManiaLimits(h, given, room),
           NEW t, ManiaShare(t, given, h, room), NEW best \in BOOLEAN
    PROVE  /\ ManiaParts(Mania!Split(given, h, t, best), given, h, room)
           /\ given.n_geki = None /\ given.n_katu = None /\ given.n100 = None =>
                LET r == Mania!Split(given, h, t, best)
                IN  r.n_katu = 0 \/ r.n_geki + r.n300 + r.n_katu + r.n100 + r.n50 = room
<1>1. PICK e, m \in 0 .. room : e = h.n_geki /\ m = h.n300
  BY DEF ManiaLimits
<1>2. PICK x, y, z, w \in Nat :
        /\ t = <<x, y, z, w>> /\ UpperShare(x, given, h, room)
        /\ y <= room /\ z <= room /\ w <= room
        /\ given.n_katu # None => y = h.n_katu
        /\ given.n100 # None => z = h.n100
        /\ given.n50 # None => w = h.n50
        /\ x + y + z + w >= room
        /\ AllGiven(h) <= room => x + y + z + w = room
        /\ given.n_katu = None => y = 0 \/ x + y + z + w = room
  BY DEF ManiaShare
<1>3. t[1] = x /\ t[2] = y /\ t[3] = z /\ t[4] = w
  BY <1>2
<1>4. PICK r : r = Mania!Split(given, h, t, best)
  OBVIOUS
<1>5. \E a, b \in 0 .. room :
         /\ r = [n_geki |-> a, n300 |-> b, n_katu |-> y, n100 |-> z, n50 |-> w]
         /\ given.n_geki # None => a = e
         /\ given.n300 # None => b = m
         /\ \/ a + b = x
            \/ /\ given.n_geki # None /\ given.n300 # None
               /\ x = room /\ room <= a + b
  <2>1. CASE given.n_geki = None /\ given.n300 = None
    <3>1. PICK a, b \in 0 .. room : a + b = x /\ <<a, b>> = (IF best THEN <<x, 0>> ELSE <<0, x>>)
      <4>1. x \in 0 .. room /\ 0 \in 0 .. room /\ x + 0 = x /\ 0 + x = x
        BY <1>2, <2>1 DEF UpperShare
      <4> QED
        BY <4>1
    <3>2. r = [n_geki |-> a, n300 |-> b, n_katu |-> y, n100 |-> z, n50 |-> w]
      <4>1. PICK u : u = (IF best THEN <<x, 0>> ELSE <<0, x>>)
        OBVIOUS
      <4>2. r = [n_geki |-> u[1], n300 |-> u[2], n_katu |-> y, n100 |-> z, n50 |-> w]
        BY <1>3, <1>4, <2>1, <4>1 DEF Mania!Split
      <4>3. u[1] = a /\ u[2] = b
        BY <3>1, <4>1
      <4> QED
        BY <4>2, <4>3
    <3> QED
      BY <2>1, <3>1, <3>2
  <2>2. CASE given.n_geki # None /\ given.n300 = None
    <3>1. PICK b \in 0 .. room : b = x - e /\ e + b = x
      <4>1. x - e \in 0 .. room /\ e + (x - e) = x
        BY <1>1, <1>2, <2>2 DEF UpperShare
      <4> QED
        BY <4>1
    <3>2. r = [n_geki |-> e, n300 |-> b, n_katu |-> y, n100 |-> z, n50 |-> w]
      BY <1>1, <1>3, <1>4, <2>2, <3>1 DEF Mania!Split
    <3> QED
      BY <2>2, <3>1, <3>2
  <2>3. CASE given.n_geki = None /\ given.n300 # None
    <3>1. PICK a \in 0 .. room : a = x - m /\ a + m = x
      <4>1. x - m \in 0 .. room /\ x - m + m = x
        BY <1>1, <1>2, <2>3 DEF UpperShare
      <4> QED
        BY <4>1
    <3>2. r = [n_geki |-> a, n300 |-> m, n_katu |-> y, n100 |-> z, n50 |-> w]
      BY <1>1, <1>3, <1>4, <2>3, <3>1 DEF Mania!Split
    <3> QED
      BY <2>3, <3>1, <3>2
  <2>4. CASE given.n_geki # None /\ given.n300 # None
    <3>1. x = e + m \/ (x = room /\ room <= e + m)
      BY <1>1, <1>2, <2>4 DEF UpperShare
    <3>2. r = [n_geki |-> e, n300 |-> m, n_katu |-> y, n100 |-> z, n50 |-> w]
      BY <1>1, <1>3, <1>4, <2>4 DEF Mania!Split
    <3> QED
      BY <2>4, <3>1, <3>2
  <2> QED
    BY <2>1, <2>2, <2>3, <2>4
<1>6. PICK a, b \in 0 .. room :
         /\ r = [n_geki |-> a, n300 |-> b, n_katu |-> y, n100 |-> z, n50 |-> w]
         /\ given.n_geki # None => a = e
         /\ given.n300 # None => b = m
         /\ \/ a + b = x
            \/ /\ given.n_geki # None /\ given.n300 # None
               /\ x = room /\ room <= a + b
  BY <1>5
<1>7. r.n_geki = a /\ r.n300 = b /\ r.n_katu = y /\ r.n100 = z /\ r.n50 = w
  BY <1>6
<1>8. PICK k, zz, ww \in 0 .. room : k = h.n_katu /\ zz = h.n100 /\ ww = h.n50
  BY DEF ManiaLimits
<1>9. a + b + y + z + w >= room
  BY <1>2, <1>6
<1>10. AllGiven(h) <= room => a + b + y + z + w = room
  <2>1. AllGiven(h) = e + m + k + zz + ww
    BY <1>1, <1>8 DEF AllGiven
  <2>2. AllGiven(h) <= room => e + m <= room
    BY <2>1
  <2> QED
    BY <1>2, <1>6, <2>2
<1>11. y \in 0 .. room /\ z \in 0 .. room /\ w \in 0 .. room
  BY <1>2
<1>12. ManiaParts(r, given, h, room)
  BY <1>1, <1>2, <1>6, <1>7, <1>9, <1>10, <1>11, Zenon DEF ManiaParts
<1>13. given.n_geki = None /\ given.n_katu = None => y = 0 \/ a + b + y + z + w = room
  BY <1>2, <1>6
<1> QED
  BY <1>4, <1>7, <1>12, <1>13

LEMMA ManiaSpreads ==
    ASSUME NEW room \in Nat, NEW given, NEW h, NEW best \in BOOLEAN,
           NEW r, ManiaParts(r, given, h, room),
           given.n_geki = None /\ given.n_katu = None /\ given.n100 = None =>
                r.n_katu = 0 \/ r.n_geki + r.n300 + r.n_katu + r.n100 + r.n50 = room
    PROVE  ManiaParts(Mania!Spread(given, r, best), given, h, room)
<1>1. CASE ~(best /\ given.n_geki = None /\ given.n_katu = None /\ given.n100 = None)
  BY <1>1 DEF Mania!Spread
<1>2. CASE best /\ given.n_geki = None /\ given.n_katu = None /\ given.n100 = None
  <2>1. PICK a, b, y, z, w \in 0 .. room :
            a = r.n_geki /\ b = r.n300 /\ y = r.n_katu /\ z = r.n100 /\ w = r.n50
    BY DEF ManiaParts
  <2>2. r = [n_geki |-> a, n300 |-> b, n_katu |-> y, n100 |-> z, n50 |-> w]
    BY <2>1 DEF ManiaParts
  <2>3. PICK k \in Nat : k = y \div 2 /\ 2 * k <= y
    <3>1. y \div 2 \in Nat /\ 2 * (y \div 2) <= y
      OBVIOUS
    <3> QED
      BY <3>1
  <2>4. PICK s : s = Mania!Spread(given, r, best)
    OBVIOUS
  <2>5. s = [n_geki |-> a + k, n300 |-> b, n_katu |-> y - 2 * k, n100 |-> z + k, n50 |-> w]
    <3>1. s = [r EXCEPT !.n_geki = @ + k, !.n_katu = @ - 2 * k, !.n100 = @ + k]
      BY <1>2, <2>1, <2>3, <2>4 DEF Mania!Spread
    <3> QED
      BY <2>2, <3>1
  <2>6. s.n_geki = a + k /\ s.n300 = b /\ s.n_katu = y - 2 * k /\ s.n100 = z + k /\ s.n50 = w
    BY <2>5
  <2>7. y = 0 \/ a + b + y + z + w = room
    BY <1>2, <2>1
  <2>8. a + k \in 0 .. room /\ y - 2 * k \in 0 .. room /\ z + k \in 0 .. room
    <3>1. y = 0 => k = 0
      BY <2>3
    <3> QED
      BY <2>3, <2>7, <3>1
  <2>9. (a + k) + b + (y - 2 * k) + (z + k) + w = a + b + y + z + w
    BY <2>3
  <2>10. a + b + y + z + w >= room /\ (AllGiven(h) <= room => a + b + y + z + w = room)
    BY <2>1 DEF ManiaParts
  <2>11. PICK a2, y2, z2 \in 0 .. room : /\ a2 = a + k /\ y2 = y - 2 * k /\ z2 = z + k
                                         /\ a2 + b + y2 + z2 + w = a + b + y + z + w
    BY <2>8, <2>9
  <2>12. /\ s = [n_geki |-> a2, n300 |-> b, n_katu |-> y2, n100 |-> z2, n50 |-> w]
         /\ s.n_geki = a2 /\ s.n300 = b /\ s.n_katu = y2 /\ s.n100 = z2 /\ s.n50 = w
    BY <2>5, <2>6, <2>11
  <2>13. /\ a2 + b + y2 + z2 + w >= room
         /\ AllGiven(h) <= room => a2 + b + y2 + z2 + w = room
    BY <2>10, <2>11
  <2>14. (given.n300 # None => b = h.n300) /\ (given.n50 # None => w = h.n50)
    BY <2>1 DEF ManiaParts
  <2>15. ManiaParts(s, given, h, room)
    BY <1>2, <2>12, <2>13, <2>14, Zenon DEF ManiaParts
  <2> QED
    BY <2>4, <2>15
<1> QED
  BY <1>1, <1>2


\* What the caller gave, and the same limited one by one
ManiaLimited(h, g, room) ==
    \A f \in {"n_geki", "n300", "n_katu", "n100", "n50"} :
        /\ g[f] \in Nat \cup {None} /\ h[f] \in 0 .. room
        /\ Told(g[f]) <= room => h[f] = Told(g[f])
        /\ g[f] = None => h[f] = 0

ManiaTold(g) == Told(g.n_geki) + Told(g.n300) + Told(g.n_katu) + Told(g.n100) + Told(g.n50)

LEMMA ManiaToldFits ==
    ASSUME NEW room \in Nat, NEW g, NEW h, ManiaLimited(h, g, room)
    PROVE  /\ ManiaTold(g) \in Nat
           /\ ManiaTold(g) <= room =>
                /\ AllGiven(h) <= room
                /\ g.n_geki # None => h.n_geki = g.n_geki
                /\ g.n300 # None => h.n300 = g.n300
                /\ g.n_katu # None => h.n_katu = g.n_katu
                /\ g.n100 # None => h.n100 = g.n100
                /\ g.n50 # None => h.n50 = g.n50
<1>1. PICK a, b, c, d, e \in Nat :
          /\ a = Told(g.n_geki) /\ b = Told(g.n300) /\ c = Told(g.n_katu)
          /\ d = Told(g.n100) /\ e = Told(g.n50)
  <2>1. \A f \in {"n_geki", "n300", "n_katu", "n100", "n50"} : Told(g[f]) \in Nat
    BY DEF Told, ManiaLimited
  <2>2. /\ Told(g.n_geki) \in Nat /\ Told(g.n300) \in Nat /\ Told(g.n_katu) \in Nat
        /\ Told(g.n100) \in Nat /\ Told(g.n50) \in Nat
    BY <2>1
  <2> QED
    BY <2>2
<1>2. ManiaTold(g) = a + b + c + d + e
  BY <1>1 DEF ManiaTold
<1>3. /\ a <= room => h.n_geki = a
      /\ b <= room => h.n300 = b
      /\ c <= room => h.n_katu = c
      /\ d <= room => h.n100 = d
      /\ e <= room => h.n50 = e
  BY <1>1 DEF ManiaLimited
<1>4. a + b + c + d + e <= room => a <= room /\ b <= room /\ c <= room /\ d <= room /\ e <= room
  BY <1>1
<1>5. a + b + c + d + e <= room => AllGiven(h) = a + b + c + d + e
  BY <1>3, <1>4 DEF AllGiven
<1>6. /\ g.n_geki # None => a = g.n_geki
      /\ g.n300 # None => b = g.n300
      /\ g.n_katu # None => c = g.n_katu
      /\ g.n100 # None => d = g.n100
      /\ g.n50 # None => e = g.n50
  BY <1>1 DEF Told
<1>7. a + b + c + d + e \in Nat
  OBVIOUS
<1> HIDE DEF Told
<1> QED
  BY <1>2, <1>3, <1>4, <1>5, <1>6, <1>7

\* What is searched
LEMMA ManiaFound ==
    ASSUME NEW room \in Nat, NEW g, NEW h, ManiaLimited(h, g, room), NotAllLower(g),
           NEW r, ManiaParts(r, g, h, room)
    PROVE  ManiaHits(r, g, room, ManiaTold(g) <= room)
<1>1. ManiaTold(g) <= room =>
         /\ r.n_geki + r.n300 + r.n_katu + r.n100 + r.n50 = room
         /\ g.n_geki # None => r.n_geki = g.n_geki
         /\ g.n300 # None => r.n300 = g.n300
         /\ g.n_katu # None => r.n_katu = g.n_katu
         /\ g.n100 # None => r.n100 = g.n100
         /\ g.n50 # None => r.n50 = g.n50
  <2>1. SUFFICES ASSUME ManiaTold(g) <= room
                 PROVE  /\ r.n_geki + r.n300 + r.n_katu + r.n100 + r.n50 = room
                        /\ g.n_geki # None => r.n_geki = g.n_geki
                        /\ g.n300 # None => r.n300 = g.n300
                        /\ g.n_katu # None => r.n_katu = g.n_katu
                        /\ g.n100 # None => r.n100 = g.n100
                        /\ g.n50 # None => r.n50 = g.n50
    OBVIOUS
  <2>2. /\ AllGiven(h) <= room
        /\ g.n_geki # None => h.n_geki = g.n_geki
        /\ g.n300 # None => h.n300 = g.n300
        /\ g.n_katu # None => h.n_katu = g.n_katu
        /\ g.n100 # None => h.n100 = g.n100
        /\ g.n50 # None => h.n50 = g.n50
    BY <2>1, ManiaToldFits
  <2> QED
    BY <2>2, Zenon DEF ManiaParts
<1>2. /\ r.n_geki \in 0 .. room /\ r.n300 \in 0 .. room /\ r.n_katu \in 0 .. room
      /\ r.n100 \in 0 .. room /\ r.n50 \in 0 .. room
      /\ r.n_geki + r.n300 + r.n_katu + r.n100 + r.n50 >= room
  BY DEF ManiaParts
<1> QED
  BY <1>1, <1>2, Zenon DEF ManiaHits, NotAllLower

\* The hit result f takes the rest.
TakesAll(f, r, g, h, room) ==
    /\ f \in {"n_geki", "n300", "n_katu", "n100", "n50"}
    /\ r = [h EXCEPT ![f] = @ + SatSub(room, AllGiven(h))]
    /\ \/ g.n_geki = None \/ g.n300 = None \/ g.n_katu = None
       \/ g.n100 = None \/ g.n50 = None
       => g[f] = None

LEMMA ManiaFills ==
    ASSUME NEW room \in Nat, NEW g, NEW h, ManiaLimited(h, g, room), NEW best \in BOOLEAN
    PROVE  \E f : TakesAll(f, Mania!Fill(Mania!Names, g, h, room, best), g, h, room)
<1>1. PICK names : names = <<"n_geki", "n300", "n_katu", "n100", "n50">>
  OBVIOUS
<1>2. /\ Len(names) = 5 /\ DOMAIN names = 1 .. 5
      /\ names[1] = "n_geki" /\ names[2] = "n300" /\ names[3] = "n_katu"
      /\ names[4] = "n100" /\ names[5] = "n50"
  BY <1>1
<1>3. SumOver(h, names) = AllGiven(h)
  <2>1. /\ h["n_geki"] \in Nat /\ h["n300"] \in Nat /\ h["n_katu"] \in Nat
        /\ h["n100"] \in Nat /\ h["n50"] \in Nat
    BY DEF ManiaLimited
  <2> QED
    BY <1>1, <2>1, SumOfFive DEF AllGiven
<1>4. PICK i \in 1 .. 5 :
         /\ Fill(names, g, h, room, best) = [h EXCEPT ![names[i]] = @ + SatSub(room, SumOver(h, names))]
         /\ Open(g, names) # {} => i \in Open(g, names)
  <2>1. 5 \in Nat \ {0} /\ Len(names) = 5 /\ DOMAIN names = 1 .. 5
    BY <1>2
  <2>2. \E i \in DOMAIN names :
         /\ Fill(names, g, h, room, best) = [h EXCEPT ![names[i]] = @ + SatSub(room, SumOver(h, names))]
         /\ Open(g, names) # {} => i \in Open(g, names)
    BY <2>1, FillsOne, Zenon
  <2> QED
    BY <2>1, <2>2
<1>5. Open(g, names) = {j \in 1 .. 5 : g[names[j]] = None}
  BY <1>2 DEF Open
<1>6. PICK f : f = names[i]
  OBVIOUS
<1>7. f \in {"n_geki", "n300", "n_katu", "n100", "n50"}
  BY <1>2, <1>6
<1>8. \/ g.n_geki = None \/ g.n300 = None \/ g.n_katu = None
      \/ g.n100 = None \/ g.n50 = None
      => g[f] = None
  <2>1. \/ g.n_geki = None \/ g.n300 = None \/ g.n_katu = None
        \/ g.n100 = None \/ g.n50 = None
        => Open(g, names) # {}
    <3>1. 1 \in 1 .. 5 /\ 2 \in 1 .. 5 /\ 3 \in 1 .. 5 /\ 4 \in 1 .. 5 /\ 5 \in 1 .. 5
      OBVIOUS
    <3> QED
      BY <1>2, <1>5, <3>1
  <2> QED
    BY <1>4, <1>5, <1>6, <2>1
<1>9. Mania!Fill(Mania!Names, g, h, room, best) = [h EXCEPT ![f] = @ + SatSub(room, AllGiven(h))]
  <2>1. Mania!Fill(Mania!Names, g, h, room, best) = Fill(names, g, h, room, best)
    <3>1. Mania!Names = names
      BY <1>1 DEF Mania!Names
    <3> QED
      BY <3>1, ManiaOperators
  <2> QED
    BY <1>3, <1>4, <1>6, <2>1, Zenon
<1>10. TakesAll(f, Mania!Fill(Mania!Names, g, h, room, best), g, h, room)
  <2>1. PICK r : r = Mania!Fill(Mania!Names, g, h, room, best)
    OBVIOUS
  <2>2. r = [h EXCEPT ![f] = @ + SatSub(room, AllGiven(h))]
    BY <1>9, <2>1, Zenon
  <2>3. TakesAll(f, r, g, h, room)
    BY <1>7, <1>8, <2>2, Zenon DEF TakesAll
  <2> QED
    BY <2>1, <2>3, Zenon
<1> QED
  BY <1>10

\* What is filled up
LEMMA ManiaFilled ==
    ASSUME NEW room \in Nat, NEW g, NEW h, ManiaLimited(h, g, room), NEW best \in BOOLEAN,
           h = [f \in {"n_geki", "n300", "n_katu", "n100", "n50"} |-> h[f]]
    PROVE  ManiaHits(Mania!Fill(Mania!Names, g, h, room, best), g, room, ManiaTold(g) <= room)
<1> DEFINE N == {"n_geki", "n300", "n_katu", "n100", "n50"}
           open == g.n_geki = None \/ g.n300 = None \/ g.n_katu = None
                   \/ g.n100 = None \/ g.n50 = None
<1>1. PICK f \in N :
          /\ Mania!Fill(Mania!Names, g, h, room, best)
                = [h EXCEPT ![f] = @ + SatSub(room, AllGiven(h))]
          /\ open => g[f] = None
  <2>1. PICK f : TakesAll(f, Mania!Fill(Mania!Names, g, h, room, best), g, h, room)
    BY ManiaFills
  <2> QED
    BY <2>1, Zenon DEF TakesAll
<1>2. PICK a, b, c, d, e \in 0 .. room :
          a = h.n_geki /\ b = h.n300 /\ c = h.n_katu /\ d = h.n100 /\ e = h.n50
  BY DEF ManiaLimited
<1>3. PICK s \in Nat : s = a + b + c + d + e /\ s = AllGiven(h)
  BY <1>2 DEF AllGiven
<1>4. PICK k \in Nat : /\ k = SatSub(room, s)
                       /\ s <= room => k + s = room
                       /\ s >= room => k = 0
  BY Saturated
<1>5. PICK r : r = Mania!Fill(Mania!Names, g, h, room, best)
  OBVIOUS
<1>6. r = [h EXCEPT ![f] = @ + k] /\ DOMAIN h = N
  BY <1>1, <1>3, <1>4, <1>5
<1>7. \A x \in N : r[x] = IF x = f THEN h[x] + k ELSE h[x]
  BY <1>6
<1>8. PICK a2, b2, c2, d2, e2 \in 0 .. room :
          /\ a2 = r.n_geki /\ b2 = r.n300 /\ c2 = r.n_katu /\ d2 = r.n100 /\ e2 = r.n50
          /\ a2 + b2 + c2 + d2 + e2 = s + k
          /\ g.n_geki # None /\ open => a2 = a
          /\ g.n300 # None /\ open => b2 = b
          /\ g.n_katu # None /\ open => c2 = c
          /\ g.n100 # None /\ open => d2 = d
          /\ g.n50 # None /\ open => e2 = e
          /\ k = 0 => a2 = a /\ b2 = b /\ c2 = c /\ d2 = d /\ e2 = e
  <2> HIDE DEF open
  <2>1. /\ r.n_geki = IF f = "n_geki" THEN a + k ELSE a
        /\ r.n300 = IF f = "n300" THEN b + k ELSE b
        /\ r.n_katu = IF f = "n_katu" THEN c + k ELSE c
        /\ r.n100 = IF f = "n100" THEN d + k ELSE d
        /\ r.n50 = IF f = "n50" THEN e + k ELSE e
    BY <1>2, <1>7
  <2>2. \A v \in 0 .. room : v <= s => v + k \in 0 .. room
    BY <1>3, <1>4
  <2>3. /\ a + k \in 0 .. room /\ b + k \in 0 .. room /\ c + k \in 0 .. room
        /\ d + k \in 0 .. room /\ e + k \in 0 .. room
    BY <1>3, <2>2
  <2>4. open => g[f] = None
    BY <1>1
  <2>5. CASE f = "n_geki"
    BY <1>3, <2>1, <2>3, <2>4, <2>5
  <2>6. CASE f = "n300"
    BY <1>3, <2>1, <2>3, <2>4, <2>6
  <2>7. CASE f = "n_katu"
    BY <1>3, <2>1, <2>3, <2>4, <2>7
  <2>8. CASE f = "n100"
    BY <1>3, <2>1, <2>3, <2>4, <2>8
  <2>9. CASE f = "n50"
    BY <1>3, <2>1, <2>3, <2>4, <2>9
  <2> QED
    BY <1>1, <2>5, <2>6, <2>7, <2>8, <2>9
<1> HIDE DEF N, open
<1>9. a2 + b2 + c2 + d2 + e2 >= room
  BY <1>3, <1>4, <1>8
<1>10. s <= room => a2 + b2 + c2 + d2 + e2 = room
  BY <1>3, <1>4, <1>8
<1>11. ManiaTold(g) <= room =>
         /\ s <= room
         /\ g.n_geki # None => a = g.n_geki
         /\ g.n300 # None => b = g.n300
         /\ g.n_katu # None => c = g.n_katu
         /\ g.n100 # None => d = g.n100
         /\ g.n50 # None => e = g.n50
  BY <1>2, <1>3, ManiaToldFits
<1>12. ASSUME /\ g.n_geki # None /\ g.n_geki <= room
              /\ g.n300 # None /\ g.n300 <= room
              /\ g.n_katu # None /\ g.n_katu <= room
              /\ g.n100 # None /\ g.n100 <= room
              /\ g.n50 # None /\ g.n50 <= room,
              g.n_geki + g.n300 + g.n_katu + g.n100 + g.n50 >= room
       PROVE  /\ a2 = g.n_geki /\ b2 = g.n300 /\ c2 = g.n_katu /\ d2 = g.n100 /\ e2 = g.n50
  <2>1. a = g.n_geki /\ b = g.n300 /\ c = g.n_katu /\ d = g.n100 /\ e = g.n50
    BY <1>2, <1>12 DEF ManiaLimited, Told
  <2>2. s >= room
    BY <1>3, <1>12, <2>1
  <2>3. k = 0
    BY <1>3, <1>4, <2>2
  <2> QED
    BY <1>8, <2>1, <2>3
<1>13. ManiaHits(r, g, room, ManiaTold(g) <= room)
  BY <1>8, <1>9, <1>10, <1>11, <1>12, Zenon DEF ManiaHits, open
<1> QED
  BY <1>5, <1>13


------------------------------------------------------------------------------
(* osu!mania: the result *)

\* Every object, and in lazer every end of a hold note, gets a hit result;
\* counts that are given are kept as in osu!.
ManiaResult(s, i, c) ==
    LET g == i.given
        n == MinOf(i.passed, c.n_objects) + (IF i.lazer THEN c.n_hold_notes ELSE 0)
    IN  /\ s = [n_geki |-> s.n_geki, n300 |-> s.n300, n_katu |-> s.n_katu,
                n100 |-> s.n100, n50 |-> s.n50, misses |-> s.misses]
        /\ s.misses = UpTo(g.misses, MinOf(i.passed, c.n_objects))
        /\ ManiaHits(s, g, n - s.misses, ManiaTold(g) + Told(g.misses) <= n)

\* Where the accuracy is searched for, not all of the 200s, 100s and 50s are given.
LEMMA ManiaSearchesOpen ==
    ASSUME NEW g, Mania!Searches(g)
    PROVE  NotAllLower(g)
<1>1. PICK names : names = <<"n_katu", "n100", "n50">>
  OBVIOUS
<1>2. /\ DOMAIN names = 1 .. 3
      /\ names[1] = "n_katu" /\ names[2] = "n100" /\ names[3] = "n50"
  BY <1>1
<1>3. Open(g, names) # {}
  <2>1. Mania!Open(g, Mania!Lower) # {} /\ Mania!Lower = names
    BY <1>1 DEF Mania!Searches, Mania!Lower
  <2>2. Mania!Open(g, Mania!Lower) = Open(g, Mania!Lower)
    BY ManiaOperators
  <2> QED
    BY <2>1, <2>2
<1>4. PICK j \in 1 .. 3 : g[names[j]] = None
  BY <1>2, <1>3 DEF Open
<1> QED
  BY <1>2, <1>4 DEF NotAllLower

LEMMA ManiaGenerates ==
    ASSUME NEW i, IsInput("mania", i), NEW c \in CountsType("mania")
    PROVE  ManiaResult(Mania!Generate(i, c), i, c)
<1> DEFINE g      == i.given
           N      == {"n_geki", "n300", "n_katu", "n100", "n50"}
           n      == Mania!NObjects(i, c)
           cap    == Mania!MinOf(i.passed, c.n_objects)
           misses == Mania!UpTo(g.misses, cap)
           room   == n - misses
           h      == [f \in Mania!ToSet(Mania!Names) |-> Mania!UpTo(g[f], room)]
           found  == Mania!Found(g, h, n, misses, i.acc)
           hits   == IF i.acc # None /\ Mania!Searches(g)
                     THEN Mania!Spread(g, Mania!Split(g, h, found, i.best), i.best)
                     ELSE Mania!Fill(Mania!Names, g, h, room, i.best)
           told   == ManiaTold(g)
<1>1. Mania!Generate(i, c) =
        [n_geki |-> hits.n_geki, n300 |-> hits.n300, n_katu |-> hits.n_katu,
         n100 |-> hits.n100, n50 |-> hits.n50, misses |-> misses]
  BY DEF Mania!Generate
<1>2. /\ \A f \in N : g[f] \in Nat \cup {None}
      /\ g.misses \in Nat \cup {None}
      /\ i.acc # None => i.acc \in Nat
      /\ i.best \in BOOLEAN /\ i.lazer \in BOOLEAN /\ i.passed \in Nat
      /\ c.n_objects \in Nat /\ c.n_hold_notes \in Nat
  BY DEF IsInput, Fields, Mania!Fields, CountsType
<1>3. cap = MinOf(i.passed, c.n_objects) /\ cap \in Nat
  <2>1. cap = MinOf(i.passed, c.n_objects)
    BY ManiaOperators
  <2> QED
    BY <1>2, <2>1 DEF MinOf
<1>4. n = cap + (IF i.lazer THEN c.n_hold_notes ELSE 0) /\ n \in Nat /\ cap <= n
  <2>1. n = cap + (IF i.lazer THEN c.n_hold_notes ELSE 0)
    BY DEF Mania!NObjects
  <2> HIDE DEF cap, n
  <2> QED
    BY <1>2, <1>3, <2>1
<1> HIDE DEF n
<1>5. misses = UpTo(g.misses, cap)
  BY ManiaOperators
<1> HIDE DEF cap
<1>6. /\ misses \in 0 .. cap /\ Told(g.misses) \in Nat
      /\ misses <= Told(g.misses)
  <2>1. /\ misses \in 0 .. cap /\ Told(g.misses) \in Nat
        /\ Told(g.misses) <= cap => misses = Told(g.misses)
    BY <1>2, <1>3, <1>5, LimitedToTold
  <2> HIDE DEF misses, g
  <2> QED
    BY <1>3, <2>1
<1> HIDE DEF misses
<1>7. room \in Nat /\ misses + room = n /\ misses \in Nat /\ misses \in 0 .. n /\ room \in 0 .. n
  BY <1>3, <1>4, <1>6
<1> HIDE DEF room
<1>8. h = [f \in N |-> UpTo(g[f], room)]
  <2>1. PICK names : names = <<"n_geki", "n300", "n_katu", "n100", "n50">>
    OBVIOUS
  <2>2. /\ DOMAIN names = 1 .. 5
        /\ names[1] = "n_geki" /\ names[2] = "n300" /\ names[3] = "n_katu"
        /\ names[4] = "n100" /\ names[5] = "n50"
    BY <2>1
  <2>3. ToSet(names) = N
    <3>1. 1 \in 1 .. 5 /\ 2 \in 1 .. 5 /\ 3 \in 1 .. 5 /\ 4 \in 1 .. 5 /\ 5 \in 1 .. 5
      OBVIOUS
    <3> QED
      BY <2>2, <3>1 DEF ToSet
  <2>4. Mania!ToSet(Mania!Names) = N
    BY <2>1, <2>3, ManiaOperators DEF Mania!Names
  <2>5. \A f : Mania!UpTo(g[f], room) = UpTo(g[f], room)
    BY ManiaOperators
  <2> QED
    BY <2>4, <2>5
<1> HIDE DEF h
<1>9. \A f \in N :
         /\ h[f] \in 0 .. room /\ Told(g[f]) \in Nat
         /\ Told(g[f]) <= room => h[f] = Told(g[f])
         /\ g[f] = None => h[f] = 0
  <2>1. TAKE f \in N
  <2>2. h[f] = UpTo(g[f], room) /\ g[f] \in Nat \cup {None}
    BY <1>2, <1>8
  <2> HIDE DEF g
  <2> QED
    BY <1>7, <2>2, LimitedToTold, LimitedTypes
<1>10. ManiaLimited(h, g, room)
  BY <1>2, <1>9 DEF ManiaLimited
<1>11. ManiaLimits(h, g, room)
  BY <1>9 DEF ManiaLimits
<1>12. h = [f \in N |-> h[f]]
  BY <1>8
<1> HIDE DEF g
<1>13. ManiaHits(hits, g, room, told <= room)
  <2>1. CASE i.acc # None /\ Mania!Searches(g)
    <3>1. NotAllLower(g)
      BY <2>1, ManiaSearchesOpen
    <3>2. i.acc \in Nat
      BY <1>2, <2>1
    <3>3. ManiaShare(found, g, h, room)
      <4>1. ManiaLimits(h, g, n - misses)
        BY <1>11 DEF room
      <4>2. ManiaShare(found, g, h, n - misses)
        BY <1>4, <1>7, <3>1, <3>2, <4>1, ManiaFinds
      <4> QED
        BY <4>2 DEF room
    <3> HIDE DEF found
    <3>4. PICK r : r = Mania!Split(g, h, found, i.best)
      OBVIOUS
    <3>5. /\ ManiaParts(r, g, h, room)
          /\ g.n_geki = None /\ g.n_katu = None /\ g.n100 = None =>
                r.n_katu = 0 \/ r.n_geki + r.n300 + r.n_katu + r.n100 + r.n50 = room
      BY <1>2, <1>7, <1>11, <3>3, <3>4, ManiaSplits
    <3>6. ManiaParts(Mania!Spread(g, r, i.best), g, h, room)
      BY <1>2, <1>7, <3>5, ManiaSpreads
    <3>7. hits = Mania!Spread(g, r, i.best)
      BY <2>1, <3>4
    <3> HIDE DEF hits
    <3>8. ManiaParts(hits, g, h, room)
      BY <3>6, <3>7
    <3>9. ManiaHits(hits, g, room, ManiaTold(g) <= room)
      BY <1>7, <1>10, <3>1, <3>8, ManiaFound
    <3> QED
      BY <3>9
  <2>2. CASE ~(i.acc # None /\ Mania!Searches(g))
    <3>1. hits = Mania!Fill(Mania!Names, g, h, room, i.best)
      BY <2>2
    <3>2. ManiaHits(Mania!Fill(Mania!Names, g, h, room, i.best), g, room, ManiaTold(g) <= room)
      BY <1>2, <1>7, <1>10, <1>12, ManiaFilled
    <3> QED
      BY <3>1, <3>2
  <2> QED
    BY <2>1, <2>2
<1> HIDE DEF hits
<1>14. told + Told(g.misses) <= n => told <= room
  <2>1. told \in Nat
    BY <1>7, <1>10, ManiaToldFits
  <2> HIDE DEF told
  <2> QED
    BY <1>4, <1>6, <1>7, <2>1
<1>15. PICK s : s = Mania!Generate(i, c)
  OBVIOUS
<1>16. /\ s = [n_geki |-> s.n_geki, n300 |-> s.n300, n_katu |-> s.n_katu, n100 |-> s.n100,
               n50 |-> s.n50, misses |-> s.misses]
       /\ s.n_geki = hits.n_geki /\ s.n300 = hits.n300 /\ s.n_katu = hits.n_katu
       /\ s.n100 = hits.n100 /\ s.n50 = hits.n50 /\ s.misses = misses
  BY <1>1, <1>15
<1>17. ManiaHits(s, g, n - s.misses, told + Told(g.misses) <= n)
  BY <1>13, <1>14, <1>16, Zenon DEF ManiaHits, room
<1>18. ManiaResult(s, i, c)
  BY <1>3, <1>4, <1>5, <1>16, <1>17, Zenon DEF ManiaResult, told, g
<1> QED
  BY <1>15, <1>18

------------------------------------------------------------------------------
(* The builders *)

\* The parts of a builder, with clamped settings and one field for every hit
\* result of its mode; it has a map or attributes.
Builder(mode) ==
    [mode  : {mode},
     map   : Beatmap \cup {None},
     attrs : Attributes(mode) \cup {None},
     diff  : {diff \in Difficulty : Clamped(diff)},
     acc   : (0 .. AccScale) \cup {None},
     best  : BOOLEAN,
     given : [Fields(mode) -> Nat \cup {None}]]

IsBuilder(b) ==
    /\ b.mode \in Modes
    /\ b \in Builder(b.mode)
    /\ (b.map = None) # (b.attrs = None)

\* What was generated last was generated from the builder that is kept beside it.
PerformanceInv ==
    /\ IsBuilder(p)
    /\ setters \in 0 .. MaxSetters
    /\ Made => /\ IsBuilder(out.of) /\ ~Fails(out.of)
               /\ out.state = ToScoreState(Generated(out.of))

LEMMA BuilderParts ==
    ASSUME NEW b, IsBuilder(b)
    PROVE  /\ b.mode \in Modes /\ b.map \in Beatmap \cup {None}
           /\ b.attrs \in Attributes(b.mode) \cup {None}
           /\ b.diff \in Difficulty /\ Clamped(b.diff)
           /\ b.acc \in (0 .. AccScale) \cup {None} /\ b.best \in BOOLEAN
           /\ b.given \in [Fields(b.mode) -> Nat \cup {None}]
           /\ (b.map = None) # (b.attrs = None)
           /\ b = [mode |-> b.mode, map |-> b.map, attrs |-> b.attrs, diff |-> b.diff,
                   acc |-> b.acc, best |-> b.best, given |-> b.given]
<1>1. b \in Builder(b.mode)
  BY DEF IsBuilder
<1> QED
  BY <1>1 DEF IsBuilder, Builder

LEMMA MakesBuilder ==
    ASSUME NEW mode \in Modes, NEW map \in Beatmap \cup {None},
           NEW attrs \in Attributes(mode) \cup {None}, NEW diff \in Difficulty, Clamped(diff),
           NEW acc \in (0 .. AccScale) \cup {None}, NEW best \in BOOLEAN,
           NEW given \in [Fields(mode) -> Nat \cup {None}],
           (map = None) # (attrs = None)
    PROVE  IsBuilder([mode |-> mode, map |-> map, attrs |-> attrs, diff |-> diff,
                      acc |-> acc, best |-> best, given |-> given])
BY DEF IsBuilder, Builder

LEMMA DifficultyParts ==
    ASSUME NEW diff \in Difficulty
    PROVE  /\ diff.passed_objects \in Nat \cup {None} /\ diff.lazer \in BOOLEAN \cup {None}
           /\ diff.mods \in Mods
BY DEF Difficulty

LEMMA BuilderInputs ==
    ASSUME NEW b, IsBuilder(b)
    PROVE  /\ IsInput(b.mode, Inputs(b))
           /\ Inputs(b) = [given |-> b.given, acc |-> b.acc, best |-> b.best, mods |-> b.diff.mods,
                           passed |-> PassedObjects(b.diff), lazer |-> Lazer(b.diff)]
<1>1. b.diff.passed_objects \in Nat \cup {None} /\ b.diff.lazer \in BOOLEAN \cup {None}
  BY BuilderParts, DifficultyParts
<1>2. PassedObjects(b.diff) \in Nat /\ Lazer(b.diff) \in BOOLEAN
  BY <1>1, CallsAssumption DEF PassedObjects, Lazer
<1>3. PICK n \in Nat, l \in BOOLEAN : n = PassedObjects(b.diff) /\ l = Lazer(b.diff)
  BY <1>2
<1>4. Inputs(b) = [given |-> b.given, acc |-> b.acc, best |-> b.best, mods |-> b.diff.mods,
                   passed |-> n, lazer |-> l]
  BY <1>3 DEF Inputs
<1>5. /\ Inputs(b).given = b.given /\ Inputs(b).acc = b.acc /\ Inputs(b).best = b.best
      /\ Inputs(b).passed = n /\ Inputs(b).lazer = l
  BY <1>4
<1>6. IsInput(b.mode, Inputs(b))
  BY <1>5, BuilderParts DEF IsInput
<1> QED
  BY <1>3, <1>4, <1>6

\* A calculation counts what the mode counts.
LEMMA BuilderAttributes ==
    ASSUME NEW b, IsBuilder(b), ~Fails(b)
    PROVE  AttrsOf(b) \in Attributes(b.mode) /\ AttrsOf(b).counts \in CountsType(b.mode)
<1>1. CASE b.attrs # None
  BY <1>1, BuilderParts DEF AttrsOf, Attributes
<1>2. CASE b.attrs = None
  <2>1. b.map \in Beatmap /\ b.diff \in Difficulty /\ b.mode \in Modes
    BY <1>2, BuilderParts
  <2>2. PICK s : s = Counts[b.mode] /\ s \in Seq(CountsType(b.mode)) /\ s # <<>>
    BY <2>1, MapsAssumption
  <2>3. PICK n \in Nat : n = PassedObjects(b.diff)
    <3>1. PassedObjects(b.diff) \in Nat
      BY <2>1, DifficultyParts, CallsAssumption DEF PassedObjects
    <3> QED
      BY <3>1
  <2>4. PICK m \in Nat : m = Len(s) /\ m >= 1
    BY <2>2
  <2>5. MinOf(n + 1, m) \in 1 .. m
    BY <2>4 DEF MinOf
  <2>6. s[MinOf(n + 1, Len(s))] \in CountsType(b.mode)
    BY <2>2, <2>4, <2>5
  <2>7. Converted(b.map, b.mode, b.diff.mods).mods \in Mods
    BY <2>1, DifficultyParts DEF Converted, Beatmap
  <2>8. AttrsOf(b) = [counts |-> s[MinOf(n + 1, Len(s))], diff |-> b.diff,
                      mods |-> Converted(b.map, b.mode, b.diff.mods).mods]
    BY <1>2, <2>2, <2>3 DEF AttrsOf, Calculated
  <2> QED
    BY <2>1, <2>6, <2>7, <2>8 DEF Attributes
<1> QED
  BY <1>1, <1>2

LEMMA GeneratesFrom ==
    ASSUME NEW b, NEW c
    PROVE  /\ b.mode = "osu"   => GeneratedFrom(b, c) = Osu!Generate(Inputs(b), c)
           /\ b.mode = "taiko" => GeneratedFrom(b, c) = Taiko!Generate(Inputs(b), c)
           /\ b.mode = "catch" => GeneratedFrom(b, c) = Catch!Generate(Inputs(b), c)
           /\ b.mode = "mania" => GeneratedFrom(b, c) = Mania!Generate(Inputs(b), c)
BY DEF GeneratedFrom

LEMMA FieldsAre ==
    /\ Fields("osu") = {"slider_end_hits", "large_tick_hits", "small_tick_hits", "max_combo",
                        "n300", "n100", "n50", "misses"}
    /\ Fields("taiko") = {"max_combo", "n300", "n100", "misses"}
    /\ Fields("catch") = {"max_combo", "n300", "n100", "n50", "n_katu", "misses"}
    /\ Fields("mania") = {"n_geki", "n300", "n_katu", "n100", "n50", "misses"}
BY DEF Fields, Osu!Fields, Taiko!Fields, Catch!Fields, Mania!Fields, Osu!SliderParts

LEMMA OsuStates ==
    ASSUME NEW i, IsInput("osu", i), NEW c \in CountsType("osu"), NEW s, OsuResult(s, i, c)
    PROVE  /\ s \in [Fields("osu") -> Nat]
           /\ s.misses \in 0 .. MinOf(i.passed, c.n_objects)
           /\ LET max == Osu!MaxSliderHits(i.lazer, Osu!NoSliderHeadAcc(i.mods, i.lazer), c)
              IN  \A f \in Osu!SliderParts :
                    /\ s[f] = OrAll(i.given[f], max[f]) /\ s[f] \in 0 .. max[f]
                    /\ max[f] \in Nat
<1> DEFINE g   == i.given
           n   == MinOf(i.passed, c.n_objects)
           max == Osu!MaxSliderHits(i.lazer, Osu!NoSliderHeadAcc(i.mods, i.lazer), c)
<1>1. /\ \A f \in Fields("osu") : g[f] \in Nat \cup {None}
      /\ n \in Nat /\ c.max_combo \in Nat /\ i.lazer \in BOOLEAN
  BY DEF IsInput, CountsType, MinOf
<1>2. Osu!NoSliderHeadAcc(i.mods, i.lazer) \in BOOLEAN
  BY <1>1 DEF Osu!NoSliderHeadAcc
<1>3. \A f \in Osu!SliderParts : max[f] \in Nat
  <2>1. \A f \in Osu!SliderParts : g[f] \in Nat \cup {None}
    BY <1>1, FieldsAre DEF Osu!SliderParts
  <2> HIDE DEF g
  <2> QED
    BY <1>1, <1>2, <2>1, OsuSliderParts
<1>4. /\ s = [max_combo |-> s.max_combo, slider_end_hits |-> s.slider_end_hits,
              large_tick_hits |-> s.large_tick_hits, small_tick_hits |-> s.small_tick_hits,
              n300 |-> s.n300, n100 |-> s.n100, n50 |-> s.n50, misses |-> s.misses]
      /\ s.misses = UpTo(g.misses, n)
      /\ s.max_combo = OrAll(g.max_combo, SatSub(c.max_combo, s.misses))
      /\ s.slider_end_hits = OrAll(g.slider_end_hits, max.slider_end_hits)
      /\ s.large_tick_hits = OrAll(g.large_tick_hits, max.large_tick_hits)
      /\ s.small_tick_hits = OrAll(g.small_tick_hits, max.small_tick_hits)
      /\ s.n300 \in 0 .. n - s.misses /\ s.n100 \in 0 .. n - s.misses
      /\ s.n50 \in 0 .. n - s.misses
  BY DEF OsuResult, OsuHits
<1> HIDE DEF n, max, g
<1>5. s.misses \in 0 .. n
  BY <1>1, <1>4, FieldsAre, LimitedTypes
<1>6. s.max_combo \in Nat
  <2>1. SatSub(c.max_combo, s.misses) \in Nat
    <3>1. c.max_combo \in Int /\ s.misses \in Int
      BY <1>1, <1>5
    <3> QED
      BY <3>1 DEF SatSub
  <2>2. g.max_combo \in Nat \cup {None}
    BY <1>1, FieldsAre
  <2>3. OrAll(g.max_combo, SatSub(c.max_combo, s.misses)) \in 0 .. SatSub(c.max_combo, s.misses)
    BY <2>1, <2>2, LimitedTypes
  <2> QED
    BY <1>4, <2>1, <2>3
<1>7. \A f \in Osu!SliderParts :
        /\ s[f] = OrAll(g[f], max[f]) /\ s[f] \in 0 .. max[f] /\ max[f] \in Nat
  <2>1. TAKE f \in Osu!SliderParts
  <2>2. s[f] = OrAll(g[f], max[f])
    BY <1>4 DEF Osu!SliderParts
  <2>3. g[f] \in Nat \cup {None} /\ max[f] \in Nat
    BY <1>1, <1>3, FieldsAre DEF Osu!SliderParts
  <2> QED
    BY <2>2, <2>3, LimitedTypes
<1>8. /\ s.slider_end_hits \in Nat /\ s.large_tick_hits \in Nat /\ s.small_tick_hits \in Nat
      /\ s.n300 \in Nat /\ s.n100 \in Nat /\ s.n50 \in Nat /\ s.misses \in Nat
  BY <1>1, <1>4, <1>5, <1>7 DEF Osu!SliderParts
<1>9. s \in [Fields("osu") -> Nat]
  BY <1>4, <1>6, <1>8, FieldsAre
<1> QED
  BY <1>5, <1>7, <1>9 DEF n, max, g

LEMMA TaikoStates ==
    ASSUME NEW i, IsInput("taiko", i), NEW c \in CountsType("taiko"),
           NEW s, TaikoResult(s, i, MinOf(i.passed, c.max_combo), c.max_combo)
    PROVE  /\ s \in [Fields("taiko") -> Nat]
           /\ s.misses \in 0 .. MinOf(i.passed, c.max_combo)
<1> DEFINE g == i.given
           n == MinOf(i.passed, c.max_combo)
<1>1. /\ \A f \in Fields("taiko") : g[f] \in Nat \cup {None}
      /\ n \in Nat /\ c.max_combo \in Nat
  BY DEF IsInput, CountsType, MinOf
<1>2. /\ s = [max_combo |-> s.max_combo, n300 |-> s.n300, n100 |-> s.n100, misses |-> s.misses]
      /\ s.misses = UpTo(g.misses, n)
      /\ s.max_combo = OrAll(g.max_combo, SatSub(c.max_combo, s.misses))
      /\ s.n300 \in 0 .. n - s.misses /\ s.n100 \in 0 .. n - s.misses
  BY DEF TaikoResult
<1> HIDE DEF n, g
<1>3. s.misses \in 0 .. n
  BY <1>1, <1>2, FieldsAre, LimitedTypes
<1>4. s.max_combo \in Nat
  <2>1. SatSub(c.max_combo, s.misses) \in Nat
    <3>1. c.max_combo \in Int /\ s.misses \in Int
      BY <1>1, <1>3
    <3> QED
      BY <3>1 DEF SatSub
  <2>2. g.max_combo \in Nat \cup {None}
    BY <1>1, FieldsAre
  <2>3. OrAll(g.max_combo, SatSub(c.max_combo, s.misses)) \in 0 .. SatSub(c.max_combo, s.misses)
    BY <2>1, <2>2, LimitedTypes
  <2> QED
    BY <1>2, <2>1, <2>3
<1>5. s.n300 \in Nat /\ s.n100 \in Nat /\ s.misses \in Nat
  BY <1>1, <1>2, <1>3
<1>6. s \in [Fields("taiko") -> Nat]
  BY <1>2, <1>4, <1>5, FieldsAre
<1> QED
  BY <1>3, <1>6 DEF n

LEMMA CatchStates ==
    ASSUME NEW i, IsInput("catch", i), NEW c \in CountsType("catch"), NEW s, CatchResult(s, i, c)
    PROVE  /\ s \in [Fields("catch") -> Nat]
           /\ s.misses \in 0 .. c.n_fruits + c.n_droplets
<1> DEFINE g   == i.given
           all == c.n_fruits + c.n_droplets
<1>1. /\ \A f \in Fields("catch") : g[f] \in Nat \cup {None}
      /\ all \in Nat
  BY DEF IsInput, CountsType
<1>2. /\ s = [max_combo |-> s.max_combo, n300 |-> s.n300, n100 |-> s.n100, n50 |-> s.n50,
              n_katu |-> s.n_katu, misses |-> s.misses]
      /\ s.misses = UpTo(g.misses, all)
      /\ s.max_combo = IF g.max_combo = None THEN all - s.misses ELSE g.max_combo
      /\ s.n300 \in Nat /\ s.n100 \in Nat /\ s.n50 \in Nat /\ s.n_katu \in Nat
  BY DEF CatchResult
<1> HIDE DEF all, g
<1>3. s.misses \in 0 .. all
  BY <1>1, <1>2, FieldsAre, LimitedTypes
<1>4. s.max_combo \in Nat
  BY <1>1, <1>2, <1>3, FieldsAre
<1>5. s \in [Fields("catch") -> Nat]
  <2>1. s.misses \in Nat
    BY <1>1, <1>3
  <2> QED
    BY <1>2, <1>4, <2>1, FieldsAre
<1> QED
  BY <1>3, <1>5 DEF all

LEMMA ManiaStates ==
    ASSUME NEW i, IsInput("mania", i), NEW c \in CountsType("mania"), NEW s, ManiaResult(s, i, c)
    PROVE  /\ s \in [Fields("mania") -> Nat]
           /\ s.misses \in 0 .. MinOf(i.passed, c.n_objects)
<1> DEFINE g   == i.given
           cap == MinOf(i.passed, c.n_objects)
           n   == cap + (IF i.lazer THEN c.n_hold_notes ELSE 0)
<1>1. /\ \A f \in Fields("mania") : g[f] \in Nat \cup {None}
      /\ cap \in Nat /\ n \in Nat
  BY DEF IsInput, CountsType, MinOf
<1>2. /\ s = [n_geki |-> s.n_geki, n300 |-> s.n300, n_katu |-> s.n_katu,
              n100 |-> s.n100, n50 |-> s.n50, misses |-> s.misses]
      /\ s.misses = UpTo(g.misses, cap)
      /\ s.n_geki \in 0 .. n - s.misses /\ s.n300 \in 0 .. n - s.misses
      /\ s.n_katu \in 0 .. n - s.misses
      /\ s.n100 \in 0 .. n - s.misses /\ s.n50 \in 0 .. n - s.misses
  BY DEF ManiaResult, ManiaHits
<1> HIDE DEF n, cap, g
<1>3. s.misses \in 0 .. cap
  BY <1>1, <1>2, FieldsAre, LimitedTypes
<1>4. s.misses \in Nat /\ n - s.misses \in Int
  BY <1>1, <1>3
<1>5. /\ s.n_geki \in Nat /\ s.n300 \in Nat /\ s.n_katu \in Nat /\ s.n100 \in Nat
      /\ s.n50 \in Nat
  BY <1>2, <1>4
<1>6. s \in [Fields("mania") -> Nat]
  BY <1>2, <1>4, <1>5, FieldsAre
<1> QED
  BY <1>3, <1>6 DEF cap

\* What the mode of the builder makes of its inputs
IsResult(s, mode, i, c) ==
    /\ c \in CountsType(mode) /\ IsInput(mode, i)
    /\ mode = "osu"   => OsuResult(s, i, c)
    /\ mode = "taiko" => TaikoResult(s, i, MinOf(i.passed, c.max_combo), c.max_combo)
    /\ mode = "catch" => CatchResult(s, i, c)
    /\ mode = "mania" => ManiaResult(s, i, c)

LEMMA ResultOf ==
    ASSUME NEW b, IsBuilder(b), NEW c \in CountsType(b.mode)
    PROVE  IsResult(GeneratedFrom(b, c), b.mode, Inputs(b), c)
<1>1. IsInput(b.mode, Inputs(b))
  BY BuilderInputs
<1>2. PICK i : i = Inputs(b) /\ IsInput(b.mode, i)
  BY <1>1
<1>3. PICK s : s = GeneratedFrom(b, c)
  OBVIOUS
<1>4. b.mode = "osu" => OsuResult(s, i, c)
  <2>1. SUFFICES ASSUME b.mode = "osu" PROVE OsuResult(s, i, c)
    OBVIOUS
  <2>2. OsuResult(Osu!Generate(i, c), i, c)
    BY <1>2, <2>1, OsuGenerates
  <2> QED
    BY <1>2, <1>3, <2>1, <2>2, GeneratesFrom
<1>5. b.mode = "taiko" => TaikoResult(s, i, MinOf(i.passed, c.max_combo), c.max_combo)
  <2>1. SUFFICES ASSUME b.mode = "taiko"
                 PROVE  TaikoResult(s, i, MinOf(i.passed, c.max_combo), c.max_combo)
    OBVIOUS
  <2>2. TaikoResult(Taiko!Generate(i, c), i, MinOf(i.passed, c.max_combo), c.max_combo)
    BY <1>2, <2>1, TaikoGenerates
  <2> QED
    BY <1>2, <1>3, <2>1, <2>2, GeneratesFrom
<1>6. b.mode = "catch" => CatchResult(s, i, c)
  <2>1. SUFFICES ASSUME b.mode = "catch" PROVE CatchResult(s, i, c)
    OBVIOUS
  <2>2. CatchResult(Catch!Generate(i, c), i, c)
    BY <1>2, <2>1, CatchGenerates
  <2> QED
    BY <1>2, <1>3, <2>1, <2>2, GeneratesFrom
<1>7. b.mode = "mania" => ManiaResult(s, i, c)
  <2>1. SUFFICES ASSUME b.mode = "mania" PROVE ManiaResult(s, i, c)
    OBVIOUS
  <2>2. ManiaResult(Mania!Generate(i, c), i, c)
    BY <1>2, <2>1, ManiaGenerates
  <2> QED
    BY <1>2, <1>3, <2>1, <2>2, GeneratesFrom
<1>8. IsResult(s, b.mode, i, c)
  BY <1>2, <1>4, <1>5, <1>6, <1>7, Zenon DEF IsResult
<1> QED
  BY <1>2, <1>3, <1>8

LEMMA ResultTypes ==
    ASSUME NEW mode \in Modes, NEW i, NEW c, NEW s, IsResult(s, mode, i, c)
    PROVE  s \in [Fields(mode) -> Nat]
<1>1. CASE mode = "osu"
  BY <1>1, OsuStates DEF IsResult
<1>2. CASE mode = "taiko"
  BY <1>2, TaikoStates DEF IsResult
<1>3. CASE mode = "catch"
  BY <1>3, CatchStates DEF IsResult
<1>4. CASE mode = "mania"
  BY <1>4, ManiaStates DEF IsResult
<1> QED
  BY <1>1, <1>2, <1>3, <1>4 DEF Modes

\* Generating replaces the map by attributes and what was given by the result.
LEMMA GeneratedBuilder ==
    ASSUME NEW b, IsBuilder(b), ~Fails(b)
    PROVE  /\ IsResult(Generated(b), b.mode, Inputs(b), AttrsOf(b).counts)
           /\ Generated(b) \in [Fields(b.mode) -> Nat]
           /\ IsBuilder(AfterGenerate(b)) /\ ~Fails(AfterGenerate(b))
           /\ AfterGenerate(b).mode = b.mode /\ AfterGenerate(b).given = Generated(b)
           /\ Inputs(AfterGenerate(b)) = [Inputs(b) EXCEPT !.given = Generated(b)]
<1>1. /\ b.mode \in Modes /\ b.diff \in Difficulty /\ Clamped(b.diff)
      /\ b.acc \in (0 .. AccScale) \cup {None} /\ b.best \in BOOLEAN
      /\ b = [mode |-> b.mode, map |-> b.map, attrs |-> b.attrs, diff |-> b.diff,
              acc |-> b.acc, best |-> b.best, given |-> b.given]
  BY BuilderParts
<1>2. PICK a : /\ a = AttrsOf(b) /\ a \in Attributes(b.mode) /\ a.counts \in CountsType(b.mode)
               /\ a # None
  <2>1. AttrsOf(b) \in Attributes(b.mode) /\ AttrsOf(b).counts \in CountsType(b.mode)
    BY BuilderAttributes
  <2>2. None \notin Attributes(b.mode)
    BY <1>1, NoneAssumption
  <2> QED
    BY <2>1, <2>2
<1>3. PICK s : s = Generated(b) /\ IsResult(s, b.mode, Inputs(b), a.counts)
  <2>1. IsResult(GeneratedFrom(b, a.counts), b.mode, Inputs(b), a.counts)
    BY <1>2, ResultOf
  <2> QED
    BY <1>2, <2>1 DEF Generated
<1>4. s \in [Fields(b.mode) -> Nat]
  BY <1>1, <1>3, ResultTypes
<1>5. PICK d : d = AfterGenerate(b)
  OBVIOUS
<1>6. d = [mode |-> b.mode, map |-> None, attrs |-> a, diff |-> b.diff,
           acc |-> b.acc, best |-> b.best, given |-> s]
  BY <1>1, <1>2, <1>3, <1>5 DEF AfterGenerate
<1>7. /\ d.mode = b.mode /\ d.attrs = a /\ d.diff = b.diff /\ d.acc = b.acc
      /\ d.best = b.best /\ d.given = s
  BY <1>6
<1>8. IsBuilder(d)
  <2>1. s \in [Fields(b.mode) -> Nat \cup {None}]
    BY <1>4
  <2>2. a \in Attributes(b.mode) \cup {None} /\ None \in Beatmap \cup {None}
        /\ (None = None) # (a = None)
    BY <1>2
  <2>3. IsBuilder([mode |-> b.mode, map |-> None, attrs |-> a, diff |-> b.diff,
                   acc |-> b.acc, best |-> b.best, given |-> s])
    BY <1>1, <2>1, <2>2, MakesBuilder
  <2> QED
    BY <1>6, <2>3
<1>9. ~Fails(d)
  BY <1>2, <1>7 DEF Fails
<1>10. Inputs(d) = [Inputs(b) EXCEPT !.given = s]
  BY <1>7 DEF Inputs
<1> QED
  BY <1>2, <1>3, <1>4, <1>5, <1>7, <1>8, <1>9, <1>10

LEMMA BuilderUpdates ==
    ASSUME NEW b, IsBuilder(b)
    PROVE  /\ \A g \in [Fields(b.mode) -> Nat \cup {None}] : IsBuilder([b EXCEPT !.given = g])
           /\ \A a \in 0 .. AccScale : IsBuilder([b EXCEPT !.acc = a])
           /\ \A v \in BOOLEAN : IsBuilder([b EXCEPT !.best = v])
           /\ \A diff \in Difficulty : Clamped(diff) => IsBuilder([b EXCEPT !.diff = diff])
<1>1. b \in Builder(b.mode) /\ b.mode \in Modes /\ (b.map = None) # (b.attrs = None)
  BY DEF IsBuilder
<1>2. ASSUME NEW g \in [Fields(b.mode) -> Nat \cup {None}]
      PROVE  IsBuilder([b EXCEPT !.given = g])
  BY <1>1 DEF IsBuilder, Builder
<1>3. ASSUME NEW a \in 0 .. AccScale
      PROVE  IsBuilder([b EXCEPT !.acc = a])
  BY <1>1 DEF IsBuilder, Builder
<1>4. ASSUME NEW v \in BOOLEAN
      PROVE  IsBuilder([b EXCEPT !.best = v])
  BY <1>1 DEF IsBuilder, Builder
<1>5. ASSUME NEW diff \in Difficulty, Clamped(diff)
      PROVE  IsBuilder([b EXCEPT !.diff = diff])
  BY <1>1, <1>5 DEF IsBuilder, Builder
<1> QED
  BY <1>2, <1>3, <1>4, <1>5

\* The settings, and what a setter is called with and stores
SettingNames == {"mods", "passed_objects", "clock_rate", "ar", "cs", "hp", "od",
                 "hardrock_offsets", "lazer"}

IsArgument(name, v) ==
    /\ name = "mods" => v \in Mods
    /\ name = "passed_objects" => v \in Nat
    /\ name = "clock_rate" => v \in Int
    /\ name \in {"ar", "cs", "hp", "od"} => v \in [value : Int, with_mods : BOOLEAN]
    /\ name \in {"hardrock_offsets", "lazer"} => v \in BOOLEAN

InLimits(name, v) ==
    /\ name = "clock_rate" => Within(v, 1, 10000)
    /\ name \in {"ar", "cs", "hp", "od"} => Within(v.value, -20, 20)

IsSetting(name, v) == IsArgument(name, v) /\ InLimits(name, v)

LEMMA DifficultyIs ==
    ASSUME NEW d, d = [s \in SettingNames |-> d[s]], d.mods \in Mods,
           \A s \in SettingNames : d[s] = None \/ IsArgument(s, d[s])
    PROVE  d \in Difficulty
<1>1. /\ d.passed_objects \in Nat \cup {None} /\ d.clock_rate \in Int \cup {None}
      /\ d.hardrock_offsets \in BOOLEAN \cup {None} /\ d.lazer \in BOOLEAN \cup {None}
  BY DEF SettingNames, IsArgument
<1>2. \A a \in {"ar", "cs", "hp", "od"} : d[a] \in [value : Int, with_mods : BOOLEAN] \cup {None}
  BY DEF SettingNames, IsArgument
<1>3. d = [mods |-> d.mods, passed_objects |-> d.passed_objects, clock_rate |-> d.clock_rate,
           ar |-> d.ar, cs |-> d.cs, hp |-> d.hp, od |-> d.od,
           hardrock_offsets |-> d.hardrock_offsets, lazer |-> d.lazer]
  BY DEF SettingNames
<1> QED
  BY <1>1, <1>2, <1>3 DEF Difficulty

LEMMA ArgumentsOf ==
    ASSUME NEW d \in Difficulty
    PROVE  /\ d = [s \in SettingNames |-> d[s]] /\ d.mods \in Mods
           /\ \A s \in SettingNames : d[s] = None \/ IsArgument(s, d[s])
<1>1. d = [s \in SettingNames |-> d[s]] /\ d.mods \in Mods
  BY DEF Difficulty, SettingNames
<1>2. /\ d.passed_objects \in Nat \cup {None} /\ d.clock_rate \in Int \cup {None}
      /\ d.hardrock_offsets \in BOOLEAN \cup {None} /\ d.lazer \in BOOLEAN \cup {None}
      /\ d.ar \in [value : Int, with_mods : BOOLEAN] \cup {None}
      /\ d.cs \in [value : Int, with_mods : BOOLEAN] \cup {None}
      /\ d.hp \in [value : Int, with_mods : BOOLEAN] \cup {None}
      /\ d.od \in [value : Int, with_mods : BOOLEAN] \cup {None}
  BY DEF Difficulty
<1>3. \A s \in SettingNames : d[s] = None \/ IsArgument(s, d[s])
  BY <1>1, <1>2 DEF SettingNames, IsArgument
<1> QED
  BY <1>1, <1>3

LEMMA ClampedIs ==
    ASSUME NEW d, \A s \in SettingNames : d[s] # None => InLimits(s, d[s])
    PROVE  Clamped(d)
<1>1. d.clock_rate # None => Within(d.clock_rate, 1, 10000)
  <2>1. d["clock_rate"] # None => InLimits("clock_rate", d["clock_rate"])
    BY DEF SettingNames
  <2> QED
    BY <2>1 DEF InLimits
<1>2. ASSUME NEW a \in {"ar", "cs", "hp", "od"}, d[a] # None
      PROVE  Within(d[a].value, -20, 20)
  <2>1. InLimits(a, d[a])
    BY <1>2 DEF SettingNames
  <2> QED
    BY <1>2, <2>1 DEF InLimits
<1> QED
  BY <1>1, <1>2 DEF Clamped

LEMMA LimitsOf ==
    ASSUME NEW d, Clamped(d), NEW s \in SettingNames, d[s] # None
    PROVE  InLimits(s, d[s])
<1>1. s = "clock_rate" => Within(d[s], 1, 10000)
  BY DEF Clamped
<1>2. s \in {"ar", "cs", "hp", "od"} => Within(d[s].value, -20, 20)
  BY DEF Clamped
<1> QED
  BY <1>1, <1>2 DEF InLimits

LEMMA NewDifficultyIsClamped == NewDifficulty \in Difficulty /\ Clamped(NewDifficulty)
<1>1. "nomod" \in Mods
  BY DEF Mods
<1>2. NewDifficulty \in Difficulty
  BY <1>1 DEF NewDifficulty, Difficulty
<1>3. Clamped(NewDifficulty)
  BY DEF NewDifficulty, Clamped
<1> QED
  BY <1>2, <1>3

LEMMA Clamps ==
    ASSUME NEW v \in Int, NEW lo \in Int, NEW hi \in Int, lo <= hi
    PROVE  MinOf(MaxOf(v, lo), hi) \in Int /\ Within(MinOf(MaxOf(v, lo), hi), lo, hi)
BY DEF MinOf, MaxOf, Within

\* A setter stores what it is called with, clamped.
LEMMA SettersClamp ==
    ASSUME NEW name \in SettingNames, NEW value, IsArgument(name, value)
    PROVE  \E v : /\ IsSetting(name, v)
                  /\ \A d : WithSetting(d, name, value) = [d EXCEPT ![name] = v]
<1>1. CASE name = "clock_rate"
  <2>1. value \in Int
    BY <1>1 DEF IsArgument
  <2>2. PICK v : v = MinOf(MaxOf(value, 1), 10000)
    OBVIOUS
  <2>3. v \in Int /\ Within(v, 1, 10000)
    BY <2>1, <2>2, Clamps
  <2>4. \A d : WithSetting(d, name, value) = [d EXCEPT ![name] = v]
    BY <1>1, <2>2 DEF WithSetting
  <2>5. v \in Int
    BY <2>3
  <2>6. IsArgument(name, v)
    BY <1>1, <2>5 DEF IsArgument
  <2>7. InLimits(name, v)
    <3>1. name \notin {"ar", "cs", "hp", "od"}
      BY <1>1
    <3> QED
      BY <2>3, <3>1 DEF InLimits
  <2> QED
    BY <2>4, <2>6, <2>7 DEF IsSetting
<1>2. CASE name \in {"ar", "cs", "hp", "od"}
  <2>1. value \in [value : Int, with_mods : BOOLEAN]
    BY <1>2 DEF IsArgument
  <2>2. PICK x \in Int : x = value.value
    BY <2>1
  <2>3. PICK y : y = MinOf(MaxOf(x, -20), 20)
    OBVIOUS
  <2>4. y \in Int /\ Within(y, -20, 20)
    <3>1. PICK lo, hi \in Int : lo = -20 /\ hi = 20 /\ lo <= hi
      OBVIOUS
    <3>2. MinOf(MaxOf(x, lo), hi) \in Int /\ Within(MinOf(MaxOf(x, lo), hi), lo, hi)
      BY <3>1, Clamps
    <3> QED
      BY <2>3, <3>1, <3>2
  <2>5. PICK v : v = [value EXCEPT !.value = y]
    OBVIOUS
  <2>6. v \in [value : Int, with_mods : BOOLEAN] /\ v.value = y
    BY <2>1, <2>4, <2>5
  <2>7. \A d : WithSetting(d, name, value) = [d EXCEPT ![name] = v]
    <3>1. name # "clock_rate"
      BY <1>2
    <3>2. \A d : WithSetting(d, name, value)
                    = [d EXCEPT ![name] = [value EXCEPT !.value = MinOf(MaxOf(@, -20), 20)]]
      BY <1>2, <3>1 DEF WithSetting
    <3>3. [value EXCEPT !.value = MinOf(MaxOf(@, -20), 20)] = v
      BY <2>2, <2>3, <2>5
    <3> QED
      BY <3>2, <3>3, Zenon
  <2>8. IsArgument(name, v)
    BY <1>2, <2>6 DEF IsArgument
  <2>9. InLimits(name, v)
    <3>1. name # "clock_rate" /\ Within(v.value, -20, 20)
      BY <1>2, <2>4, <2>6
    <3> QED
      BY <3>1 DEF InLimits
  <2> QED
    BY <2>7, <2>8, <2>9 DEF IsSetting
<1>3. CASE name \in {"mods", "passed_objects", "hardrock_offsets", "lazer"}
  <2>1. name # "clock_rate" /\ name \notin {"ar", "cs", "hp", "od"}
    BY <1>3
  <2>2. \A d : WithSetting(d, name, value) = [d EXCEPT ![name] = value]
    BY <2>1 DEF WithSetting
  <2>3. IsSetting(name, value)
    BY <2>1 DEF IsSetting, InLimits
  <2> QED
    BY <2>2, <2>3
<1> QED
  BY <1>1, <1>2, <1>3 DEF SettingNames

LEMMA SettingsAreClamped ==
    ASSUME NEW diff \in Difficulty, Clamped(diff),
           NEW name \in SettingNames, NEW value, IsArgument(name, value)
    PROVE  WithSetting(diff, name, value) \in Difficulty /\ Clamped(WithSetting(diff, name, value))
<1>1. PICK v : IsSetting(name, v) /\ WithSetting(diff, name, value) = [diff EXCEPT ![name] = v]
  BY SettersClamp
<1>2. PICK e : e = [diff EXCEPT ![name] = v]
  OBVIOUS
<1>3. e = [s \in SettingNames |-> e[s]] /\ \A s \in SettingNames : e[s] = IF s = name THEN v ELSE diff[s]
  BY <1>2, ArgumentsOf
<1>4. /\ diff.mods \in Mods
      /\ \A s \in SettingNames : diff[s] = None \/ IsArgument(s, diff[s])
  BY ArgumentsOf
<1>5. e \in Difficulty
  <2>1. e.mods \in Mods
    BY <1>1, <1>3, <1>4 DEF SettingNames, IsSetting, IsArgument
  <2>2. \A s \in SettingNames : e[s] = None \/ IsArgument(s, e[s])
    BY <1>1, <1>3, <1>4 DEF IsSetting
  <2> QED
    BY <1>3, <2>1, <2>2, DifficultyIs
<1>6. Clamped(e)
  <2>1. ASSUME NEW s \in SettingNames, e[s] # None
        PROVE  InLimits(s, e[s])
    <3>1. CASE s = name
      BY <1>1, <1>3, <3>1 DEF IsSetting
    <3>2. CASE s # name
      BY <1>3, <2>1, <3>2, LimitsOf
    <3> QED
      BY <3>1, <3>2
  <2> QED
    BY <2>1, ClampedIs
<1> QED
  BY <1>1, <1>2, <1>5, <1>6

LEMMA AllSettingsAreClamped ==
    ASSUME NEW i \in Difficulty
    PROVE  IntoDifficulty(i) \in Difficulty /\ Clamped(IntoDifficulty(i))
<1>1. /\ i = [s \in SettingNames |-> i[s]] /\ i.mods \in Mods
      /\ \A s \in SettingNames : i[s] = None \/ IsArgument(s, i[s])
  BY ArgumentsOf
<1>2. DOMAIN i = SettingNames /\ DOMAIN NewDifficulty = SettingNames
  BY <1>1 DEF NewDifficulty, SettingNames
<1>3. PICK e : e = IntoDifficulty(i)
  OBVIOUS
<1>4. /\ e = [s \in SettingNames |-> e[s]]
      /\ \A s \in SettingNames :
            e[s] = IF i[s] = None THEN None ELSE WithSetting(NewDifficulty, s, i[s])[s]
  BY <1>2, <1>3 DEF IntoDifficulty
<1>5. ASSUME NEW s \in SettingNames
      PROVE  IF i[s] = None THEN e[s] = None ELSE IsSetting(s, e[s])
  <2>1. CASE i[s] = None
    BY <1>4, <2>1
  <2>2. CASE i[s] # None
    <3>1. PICK v : /\ IsSetting(s, v)
                   /\ \A d : WithSetting(d, s, i[s]) = [d EXCEPT ![s] = v]
      BY <1>1, <2>2, SettersClamp
    <3>2. WithSetting(NewDifficulty, s, i[s])[s] = v
      BY <1>2, <3>1
    <3> QED
      BY <1>4, <2>2, <3>1, <3>2
  <2> QED
    BY <2>1, <2>2
<1>6. e \in Difficulty
  <2>1. e.mods \in Mods
    BY <1>1, <1>5 DEF SettingNames, IsSetting, IsArgument
  <2>2. \A s \in SettingNames : e[s] = None \/ IsArgument(s, e[s])
    BY <1>5 DEF IsSetting
  <2> QED
    BY <1>4, <2>1, <2>2, DifficultyIs
<1>7. Clamped(e)
  <2>1. \A s \in SettingNames : e[s] # None => InLimits(s, e[s])
    BY <1>5 DEF IsSetting
  <2> QED
    BY <2>1, ClampedIs
<1> QED
  BY <1>3, <1>6, <1>7

LEMMA InitIsGood == Init => PerformanceInv
<1> SUFFICES ASSUME Init PROVE PerformanceInv
  OBVIOUS
<1>1. out = Nothing /\ setters = 0 /\ ~Made /\ setters \in 0 .. MaxSetters
  BY CallsAssumption DEF Init, Made, Nothing
<1>2. PICK mode \in Modes :
        \/ \E map \in Maps : p = NewBuilder(mode, map, None)
        \/ \E n \in DOMAIN Counts[mode] :
              p = NewBuilder(mode, None, [counts |-> Counts[mode][n], diff |-> NewDifficulty,
                                          mods |-> "nomod"])
  BY DEF Init
<1>3. PICK g : g = [f \in Fields(mode) |-> None] /\ g \in [Fields(mode) -> Nat \cup {None}]
  <2>1. [f \in Fields(mode) |-> None] \in [Fields(mode) -> Nat \cup {None}]
    OBVIOUS
  <2> QED
    BY <2>1
<1>4. PICK d : d = NewDifficulty /\ d \in Difficulty /\ Clamped(d)
  BY NewDifficultyIsClamped
<1>5. ASSUME NEW map \in Beatmap \cup {None}, NEW attrs \in Attributes(mode) \cup {None},
             (map = None) # (attrs = None), p = NewBuilder(mode, map, attrs)
      PROVE  IsBuilder(p)
  <2>1. p = [mode |-> mode, map |-> map, attrs |-> attrs, diff |-> d,
             acc |-> None, best |-> TRUE, given |-> g]
    BY <1>3, <1>4, <1>5 DEF NewBuilder
  <2>2. None \in (0 .. AccScale) \cup {None} /\ TRUE \in BOOLEAN
    OBVIOUS
  <2> QED
    BY <1>3, <1>4, <1>5, <2>1, <2>2 DEF IsBuilder, Builder
<1>6. CASE \E map \in Maps : p = NewBuilder(mode, map, None)
  <2>1. PICK map \in Maps : p = NewBuilder(mode, map, None)
    BY <1>6
  <2>2. map \in Beatmap /\ map # None
    BY MapsAssumption, NoneAssumption
  <2>3. IsBuilder(p)
    BY <1>5, <2>1, <2>2
  <2> QED
    BY <1>1, <2>3 DEF PerformanceInv
<1>7. CASE \E n \in DOMAIN Counts[mode] :
              p = NewBuilder(mode, None, [counts |-> Counts[mode][n], diff |-> NewDifficulty,
                                          mods |-> "nomod"])
  <2>1. PICK n \in DOMAIN Counts[mode] :
              p = NewBuilder(mode, None, [counts |-> Counts[mode][n], diff |-> NewDifficulty,
                                          mods |-> "nomod"])
    BY <1>7
  <2>2. PICK a : a = [counts |-> Counts[mode][n], diff |-> d, mods |-> "nomod"]
    OBVIOUS
  <2>3. Counts[mode][n] \in CountsType(mode)
    <3>1. Counts[mode] \in Seq(CountsType(mode))
      BY MapsAssumption
    <3> QED
      BY <3>1
  <2>4. a \in Attributes(mode) /\ a # None
    <3>1. a \in Attributes(mode)
      BY <1>4, <2>2, <2>3 DEF Attributes, Mods
    <3> QED
      BY <3>1, NoneAssumption
  <2>5. IsBuilder(p)
    BY <1>4, <1>5, <2>1, <2>2, <2>4
  <2> QED
    BY <1>1, <2>5 DEF PerformanceInv
<1> QED
  BY <1>2, <1>6, <1>7

LEMMA SettersAreGood ==
    ASSUME NEW b, IsBuilder(b), setters \in 0 .. MaxSetters, Setter(b)
    PROVE  PerformanceInv'
<1>1. p' = b /\ setters' = setters + 1 /\ out' = Nothing /\ setters < MaxSetters
  BY DEF Setter
<1>2. setters' \in 0 .. MaxSetters
  BY <1>1, CallsAssumption
<1>3. ~Made'
  BY <1>1 DEF Made, Nothing
<1>4. IsBuilder(p')
  BY <1>1
<1> QED
  BY <1>2, <1>3, <1>4 DEF PerformanceInv

\* A conversion keeps what both modes have.
LEMMA ConvertsBuilder ==
    ASSUME NEW b, IsBuilder(b), NEW mode \in Modes, mode # b.mode, MayConvert(b, mode)
    PROVE  IsBuilder(ConvertedTo(b, mode))
<1>1. /\ b.mode = "osu" /\ b.map \in Beatmap /\ b.attrs = None
      /\ b.diff \in Difficulty /\ Clamped(b.diff)
      /\ b.acc \in (0 .. AccScale) \cup {None} /\ b.best \in BOOLEAN
      /\ b.given \in [Fields(b.mode) -> Nat \cup {None}]
      /\ b = [mode |-> b.mode, map |-> b.map, attrs |-> b.attrs, diff |-> b.diff,
              acc |-> b.acc, best |-> b.best, given |-> b.given]
  BY BuilderParts DEF MayConvert
<1>2. mode \in {"taiko", "catch", "mania"}
  BY <1>1 DEF Modes
<1>3. PICK g : /\ g = CASE mode = "taiko" -> Taiko!FromOsu(b.given)
                        [] mode = "catch" -> Catch!FromOsu(b.given)
                        [] mode = "mania" -> Mania!FromOsu(b.given)
               /\ g \in [Fields(mode) -> Nat \cup {None}]
  <2>1. \A f \in Fields("osu") : b.given[f] \in Nat \cup {None}
    BY <1>1
  <2>2. Taiko!FromOsu(b.given) \in [Fields("taiko") -> Nat \cup {None}]
    BY <2>1, FieldsAre DEF Taiko!FromOsu, Taiko!Fields
  <2>3. Catch!FromOsu(b.given) \in [Fields("catch") -> Nat \cup {None}]
    BY <2>1, FieldsAre DEF Catch!FromOsu, Catch!Fields
  <2>4. Mania!FromOsu(b.given) \in [Fields("mania") -> Nat \cup {None}]
    BY <2>1, FieldsAre DEF Mania!FromOsu, Mania!Fields
  <2> QED
    BY <1>2, <2>2, <2>3, <2>4
<1>4. PICK map : /\ map = Converted(b.map, mode, b.diff.mods)
                 /\ map \in Beatmap /\ map # None
  <2>1. b.diff.mods \in Mods
    BY <1>1, DifficultyParts
  <2>2. Converted(b.map, mode, b.diff.mods) \in Beatmap
    BY <1>1, <2>1 DEF Converted, Beatmap
  <2> QED
    BY <2>2, NoneAssumption
<1>5. PICK best \in BOOLEAN : best = IF mode = "catch" THEN TRUE ELSE b.best
  BY <1>1
<1>6. PICK c : c = ConvertedTo(b, mode)
  OBVIOUS
<1>7. c = [b EXCEPT !.mode = mode, !.given = g, !.map = map, !.best = best]
  BY <1>3, <1>4, <1>5, <1>6 DEF ConvertedTo
<1>8. c = [mode |-> mode, map |-> map, attrs |-> None, diff |-> b.diff,
           acc |-> b.acc, best |-> best, given |-> g]
  BY <1>1, <1>7
<1>9. IsBuilder(c)
  <2>1. None \in Attributes(mode) \cup {None} /\ (map = None) # (None = None)
    BY <1>4
  <2> QED
    BY <1>1, <1>3, <1>4, <1>8, <2>1 DEF IsBuilder, Builder
<1> QED
  BY <1>6, <1>9

LEMMA NextIsGood == PerformanceInv /\ [Next]_vars => PerformanceInv'
<1> SUFFICES ASSUME PerformanceInv, [Next]_vars PROVE PerformanceInv'
  OBVIOUS
<1>1. /\ IsBuilder(p) /\ setters \in 0 .. MaxSetters
      /\ p.mode \in Modes /\ p.diff \in Difficulty /\ Clamped(p.diff)
      /\ p.given \in [Fields(p.mode) -> Nat \cup {None}]
  BY BuilderParts DEF PerformanceInv
<1>2. ASSUME NEW f, NEW n \in Nat, f \in AllFields, SetField(f, n)
      PROVE  PerformanceInv'
  <2>1. CASE f \in Fields(p.mode)
    <3>1. PICK g : g = [p.given EXCEPT ![f] = n]
      OBVIOUS
    <3>2. g \in [Fields(p.mode) -> Nat \cup {None}]
      BY <1>1, <3>1
    <3>3. IsBuilder([p EXCEPT !.given = g])
      BY <1>1, <3>2, BuilderUpdates
    <3>4. [p EXCEPT !.given[f] = n] = [p EXCEPT !.given = g]
      BY <1>1, <3>1 DEF IsBuilder, Builder
    <3>5. Setter([p EXCEPT !.given = g])
      BY <1>2, <2>1, <3>4 DEF SetField
    <3> QED
      BY <1>1, <3>3, <3>5, SettersAreGood
  <2>2. CASE f \notin Fields(p.mode)
    <3>1. Setter(p)
      BY <1>2, <2>2 DEF SetField
    <3> QED
      BY <1>1, <3>1, SettersAreGood
  <2> QED
    BY <2>1, <2>2
<1>3. ASSUME NEW s \in StateCalls, SetState(s)
      PROVE  PerformanceInv'
  <2>1. PICK g : g = [f \in Fields(p.mode) |-> s[f]]
    OBVIOUS
  <2>2. g \in [Fields(p.mode) -> Nat \cup {None}]
    <3>1. \A f \in Fields(p.mode) : s[f] \in Nat
      <4>1. \A f \in Fields(p.mode) : f \in AllFields
        BY <1>1 DEF AllFields
      <4> QED
        BY <4>1, CallsAssumption
    <3> QED
      BY <2>1, <3>1
  <2>3. IsBuilder([p EXCEPT !.given = g])
    BY <1>1, <2>2, BuilderUpdates
  <2>4. Setter([p EXCEPT !.given = g])
    BY <1>3, <2>1 DEF SetState
  <2> QED
    BY <1>1, <2>3, <2>4, SettersAreGood
<1>4. ASSUME NEW a \in AccCalls, SetAccuracy(a)
      PROVE  PerformanceInv'
  <2>1. PICK acc : acc = MinOf(MaxOf(a, 0), AccScale)
    OBVIOUS
  <2>2. acc \in 0 .. AccScale
    BY <2>1, CallsAssumption, AccScaleAssumption DEF MinOf, MaxOf
  <2>3. IsBuilder([p EXCEPT !.acc = acc])
    BY <1>1, <2>2, BuilderUpdates
  <2>4. Setter([p EXCEPT !.acc = acc])
    BY <1>4, <2>1 DEF SetAccuracy
  <2> QED
    BY <1>1, <2>3, <2>4, SettersAreGood
<1>5. ASSUME NEW best \in BOOLEAN, SetPriority(best)
      PROVE  PerformanceInv'
  <2>1. IsBuilder([p EXCEPT !.best = best])
    BY <1>1, BuilderUpdates
  <2>2. Setter(p) \/ Setter([p EXCEPT !.best = best])
    BY <1>5 DEF SetPriority
  <2> QED
    BY <1>1, <2>1, <2>2, SettersAreGood
<1>6. ASSUME NEW c \in SettingCalls, SetSetting(c[1], c[2])
      PROVE  PerformanceInv'
  <2>1. PICK name, value : name = c[1] /\ value = c[2]
    OBVIOUS
  <2>2. CASE name \in Accepts(p.mode)
    <3>1. name \in SettingNames
      BY <1>1, <2>2 DEF Modes, Accepts, Osu!Settings, Taiko!Settings, Catch!Settings,
                        Mania!Settings, SettingNames
    <3>2. PICK new : new = [NewDifficulty EXCEPT ![name] = value]
      OBVIOUS
    <3>3. new \in Difficulty /\ value # None
      BY <2>1, <3>2, CallsAssumption
    <3>4. new[name] = value
      BY <3>1, <3>2, NewDifficultyIsClamped, ArgumentsOf
    <3>5. IsArgument(name, value)
      BY <3>1, <3>3, <3>4, ArgumentsOf
    <3>6. PICK d : d = WithSetting(p.diff, name, value)
      OBVIOUS
    <3>7. d \in Difficulty /\ Clamped(d)
      BY <1>1, <3>1, <3>5, <3>6, SettingsAreClamped
    <3>8. IsBuilder([p EXCEPT !.diff = d])
      BY <1>1, <3>7, BuilderUpdates
    <3>9. Setter([p EXCEPT !.diff = d])
      BY <1>6, <2>1, <2>2, <3>6 DEF SetSetting
    <3> QED
      BY <1>1, <3>8, <3>9, SettersAreGood
  <2>3. CASE name \notin Accepts(p.mode)
    <3>1. Setter(p)
      BY <1>6, <2>1, <2>3 DEF SetSetting
    <3> QED
      BY <1>1, <3>1, SettersAreGood
  <2> QED
    BY <2>2, <2>3
<1>7. ASSUME NEW i \in DiffCalls, SetDifficulty(i)
      PROVE  PerformanceInv'
  <2>1. PICK d : d = IntoDifficulty(i)
    OBVIOUS
  <2>2. d \in Difficulty /\ Clamped(d)
    BY <2>1, CallsAssumption, AllSettingsAreClamped
  <2>3. IsBuilder([p EXCEPT !.diff = d])
    BY <1>1, <2>2, BuilderUpdates
  <2>4. Setter([p EXCEPT !.diff = d])
    BY <1>7, <2>1 DEF SetDifficulty
  <2> QED
    BY <1>1, <2>3, <2>4, SettersAreGood
<1>8. ASSUME NEW mode \in Modes, TryMode(mode)
      PROVE  PerformanceInv'
  <2>1. /\ p' = IF mode # p.mode /\ MayConvert(p, mode) THEN ConvertedTo(p, mode) ELSE p
        /\ out'.call \in {"mode", "mode_err"} /\ setters' = setters
    BY <1>8 DEF TryMode
  <2>2. IsBuilder(p')
    <3>1. CASE mode # p.mode /\ MayConvert(p, mode)
      BY <1>1, <2>1, <3>1, ConvertsBuilder
    <3>2. CASE ~(mode # p.mode /\ MayConvert(p, mode))
      BY <1>1, <2>1, <3>2
    <3> QED
      BY <3>1, <3>2
  <2>3. ~Made'
    BY <2>1 DEF Made
  <2> QED
    BY <1>1, <2>1, <2>2, <2>3 DEF PerformanceInv
<1>9. ASSUME GenerateState
      PROVE  PerformanceInv'
  <2>1. CASE Fails(p)
    <3>1. p' = p /\ out'.call = "convert_err" /\ setters' = setters
      BY <1>9, <2>1 DEF GenerateState
    <3>2. ~Made'
      BY <3>1 DEF Made
    <3> QED
      BY <1>1, <3>1, <3>2 DEF PerformanceInv
  <2>2. CASE ~Fails(p)
    <3>1. /\ p' = AfterGenerate(p) /\ setters' = setters
          /\ out'.of = p /\ out'.state = ToScoreState(Generated(p))
      BY <1>9, <2>2 DEF GenerateState
    <3>2. IsBuilder(p')
      BY <1>1, <2>2, <3>1, GeneratedBuilder
    <3> QED
      BY <1>1, <2>2, <3>1, <3>2 DEF PerformanceInv
  <2> QED
    BY <2>1, <2>2
<1>10. ASSUME Calculate
       PROVE  PerformanceInv'
  <2>1. CASE Fails(p)
    <3>1. p' = p /\ out'.call = "convert_err" /\ setters' = setters
      BY <1>10, <2>1 DEF Calculate
    <3>2. ~Made'
      BY <3>1 DEF Made
    <3> QED
      BY <1>1, <3>1, <3>2 DEF PerformanceInv
  <2>2. CASE ~Fails(p)
    <3>1. /\ p' = p /\ setters' = setters
          /\ out'.of = p /\ out'.state = ToScoreState(AfterGenerate(p).given)
      BY <1>10, <2>2 DEF Calculate
    <3>2. AfterGenerate(p).given = Generated(p)
      BY <1>1, <2>2, GeneratedBuilder
    <3> QED
      BY <1>1, <2>2, <3>1, <3>2 DEF PerformanceInv
  <2> QED
    BY <2>1, <2>2
<1>11. CASE UNCHANGED vars
  <2>1. p' = p /\ out' = out /\ setters' = setters
    BY <1>11 DEF vars
  <2>2. PerformanceInv
    OBVIOUS
  <2> QED
    BY <2>1, <2>2 DEF PerformanceInv, Made
<1>12. CASE \E c \in FieldCalls : SetField(c[1], c[2])
  <2>1. PICK c \in FieldCalls : SetField(c[1], c[2])
    BY <1>12
  <2>2. c[1] \in AllFields /\ c[2] \in Nat
    BY CallsAssumption
  <2> QED
    BY <1>2, <2>1, <2>2
<1> QED
  BY <1>3, <1>4, <1>5, <1>6, <1>7, <1>8, <1>9, <1>10, <1>11, <1>12 DEF Next

\* Whatever is called in whatever order, a builder has the parts of its mode and
\* clamped settings, and the state that generate_state returned last is what the
\* builder it was called on generates.
THEOREM PerformanceInvHolds == Spec => []PerformanceInv
BY InitIsGood, NextIsGood, PTL DEF Spec

------------------------------------------------------------------------------
(* Theorems *)

LEMMA ScoreStateIs ==
    ASSUME NEW mode \in Modes, NEW s \in [Fields(mode) -> Nat]
    PROVE  /\ \A f \in Fields(mode) : ToScoreState(s)[f] = s[f] /\ s[f] \in Nat
           /\ DOMAIN ToScoreState(s) = AllFields
           /\ \A f \in AllFields : ToScoreState(s)[f] \in Nat
<1>1. \A f \in Fields(mode) : f \in AllFields
  BY DEF AllFields
<1>2. \A f \in AllFields : ToScoreState(s)[f] = IF f \in Fields(mode) THEN s[f] ELSE 0
  BY DEF ToScoreState
<1> QED
  BY <1>1, <1>2 DEF ToScoreState

\* What was made, in the terms of the results
LEMMA MadeIs ==
    ASSUME PerformanceInv, Made
    PROVE  \E s, i, c :
              /\ IsBuilder(out.of) /\ ~Fails(out.of)
              /\ i = Inputs(out.of) /\ c = AttrsOf(out.of).counts
              /\ s = Generated(out.of) /\ out.state = ToScoreState(s)
              /\ IsResult(s, out.of.mode, i, c)
              /\ s \in [Fields(out.of.mode) -> Nat]
              /\ i.given = out.of.given /\ i.acc = out.of.acc
              /\ i.mods = out.of.diff.mods
              /\ i.passed = PassedObjects(out.of.diff) /\ i.lazer = Lazer(out.of.diff)
<1>1. IsBuilder(out.of) /\ ~Fails(out.of) /\ out.state = ToScoreState(Generated(out.of))
  BY DEF PerformanceInv
<1>2. /\ IsResult(Generated(out.of), out.of.mode, Inputs(out.of), AttrsOf(out.of).counts)
      /\ Generated(out.of) \in [Fields(out.of.mode) -> Nat]
  BY <1>1, GeneratedBuilder
<1>3. PICK i : i = Inputs(out.of)
  OBVIOUS
<1>4. /\ i.given = out.of.given /\ i.acc = out.of.acc
      /\ i.mods = out.of.diff.mods
      /\ i.passed = PassedObjects(out.of.diff) /\ i.lazer = Lazer(out.of.diff)
  BY <1>3 DEF Inputs
<1> QED
  BY <1>1, <1>2, <1>3, <1>4

\* The slider parts never exceed what calculate subtracts them from.
LEMMA OsuSubtractions ==
    ASSUME NEW i, NEW c, NEW s, IsResult(s, "osu", i, c),
           ~Osu!NoSliderHeadAcc(i.mods, i.lazer)
    PROVE  /\ s.slider_end_hits \in 0 .. c.n_sliders
           /\ s.large_tick_hits \in 0 .. c.n_large_ticks
           /\ c.n_sliders \in Nat /\ c.n_large_ticks \in Nat /\ c.max_combo \in Nat
           /\ c.n_sliders <= c.max_combo
<1>1. PICK max : max = Osu!MaxSliderHits(i.lazer, Osu!NoSliderHeadAcc(i.mods, i.lazer), c)
  OBVIOUS
<1>2. /\ c \in CountsType("osu") /\ i.lazer \in BOOLEAN
      /\ c.n_sliders \in Nat /\ c.n_large_ticks \in Nat /\ c.max_combo \in Nat
      /\ c.n_sliders <= c.max_combo
  BY DEF IsResult, IsInput, CountsType
<1>3. \A f \in Osu!SliderParts : s[f] \in 0 .. max[f] /\ max[f] \in Nat
  BY <1>1, OsuStates DEF IsResult
<1>4. /\ max.slider_end_hits \in 0 .. c.n_sliders
      /\ max.large_tick_hits \in 0 .. c.n_large_ticks
  <2>1. CASE i.lazer
    BY <1>1, <1>2, <2>1 DEF Osu!MaxSliderHits
  <2>2. CASE ~i.lazer
    BY <1>1, <1>2, <2>2 DEF Osu!MaxSliderHits
  <2> QED
    BY <2>1, <2>2
<1>5. /\ s.slider_end_hits \in 0 .. max.slider_end_hits
      /\ s.large_tick_hits \in 0 .. max.large_tick_hits
  BY <1>3 DEF Osu!SliderParts
<1> QED
  BY <1>2, <1>4, <1>5

LEMMA TypesAreGood == PerformanceInv => TypeOK
<1> SUFFICES ASSUME PerformanceInv PROVE TypeOK
  OBVIOUS
<1>1. /\ p.mode \in Modes /\ (p.map = None) # (p.attrs = None)
      /\ DOMAIN p.given = Fields(p.mode) /\ setters \in 0 .. MaxSetters
      /\ Clamped(p.diff)
  BY BuilderParts DEF PerformanceInv
<1>2. ASSUME Made
      PROVE  /\ \A f \in DOMAIN out.state : out.state[f] \in Nat
             /\ out.of.mode = "osu" =>
                  LET counts == AttrsOf(out.of).counts
                  IN  ~Osu!NoSliderHeadAcc(out.of.diff.mods, Lazer(out.of.diff)) =>
                        /\ Osu!SliderEndsDropped(counts, out.state) >= 0
                        /\ Osu!LargeTickMisses(counts, out.state) >= 0
                        /\ Osu!FullComboThreshold(counts, out.state) >= 0
  <2>1. PICK s, i, c :
              /\ IsBuilder(out.of) /\ c = AttrsOf(out.of).counts
              /\ out.state = ToScoreState(s) /\ IsResult(s, out.of.mode, i, c)
              /\ s \in [Fields(out.of.mode) -> Nat]
              /\ i.mods = out.of.diff.mods /\ i.lazer = Lazer(out.of.diff)
    BY <1>2, MadeIs
  <2>2. out.of.mode \in Modes
    BY <2>1, BuilderParts
  <2>3. /\ \A f \in Fields(out.of.mode) : out.state[f] = s[f]
        /\ \A f \in DOMAIN out.state : out.state[f] \in Nat
    BY <2>1, <2>2, ScoreStateIs
  <2>4. ASSUME out.of.mode = "osu",
               ~Osu!NoSliderHeadAcc(out.of.diff.mods, Lazer(out.of.diff))
        PROVE  /\ Osu!SliderEndsDropped(c, out.state) >= 0
               /\ Osu!LargeTickMisses(c, out.state) >= 0
               /\ Osu!FullComboThreshold(c, out.state) >= 0
    <3>1. IsResult(s, "osu", i, c) /\ ~Osu!NoSliderHeadAcc(i.mods, i.lazer)
      BY <2>1, <2>4
    <3>2. /\ s.slider_end_hits \in 0 .. c.n_sliders
          /\ s.large_tick_hits \in 0 .. c.n_large_ticks
          /\ c.n_sliders \in Nat /\ c.n_large_ticks \in Nat /\ c.max_combo \in Nat
          /\ c.n_sliders <= c.max_combo
      BY <3>1, OsuSubtractions
    <3>3. out.state.slider_end_hits = s.slider_end_hits
          /\ out.state.large_tick_hits = s.large_tick_hits
      BY <2>3, <2>4, FieldsAre
    <3> QED
      BY <3>2, <3>3 DEF Osu!SliderEndsDropped, Osu!LargeTickMisses, Osu!FullComboThreshold
  <2> QED
    BY <2>1, <2>3, <2>4
<1>3. out.call = "calculate" => Made
  BY DEF Made
<1>4. Made => \A f \in DOMAIN out.state : out.state[f] \in Nat
  BY <1>2
<1>5. out.call = "calculate" /\ out.of.mode = "osu" =>
        LET counts == AttrsOf(out.of).counts
        IN  ~Osu!NoSliderHeadAcc(out.of.diff.mods, Lazer(out.of.diff)) =>
              /\ Osu!SliderEndsDropped(counts, out.state) >= 0
              /\ Osu!LargeTickMisses(counts, out.state) >= 0
              /\ Osu!FullComboThreshold(counts, out.state) >= 0
  BY <1>2, <1>3
<1> QED
  BY <1>1, <1>4, <1>5 DEF TypeOK

\* Whatever settings and hit results a builder is given and in whatever order,
\* generate_state subtracts no more than there is, and so does calculate with
\* the slider parts of an osu! state.
THEOREM TypeCorrect == Spec => []TypeOK
BY PerformanceInvHolds, TypesAreGood, PTL

\* Every object has a hit result; what was given is kept where it fits and a
\* hit result is open.
Accounts(s, g, names, n, total) ==
    LET told == [f \in DOMAIN g |-> Told(g[f])]
    IN  /\ total >= n
        /\ SumOver(told, names) + told.misses <= n =>
              /\ total = n
              /\ \A j \in DOMAIN names :
                    Open(g, names) # {} /\ g[names[j]] # None =>
                        s[names[j]] = told[names[j]]

LEMMA OsuAccounts ==
    ASSUME NEW s, NEW i, NEW c, IsResult(s, "osu", i, c)
    PROVE  Accounts(s, i.given, Osu!Names, Osu!NObjects(i, c),
                    s.n300 + s.n100 + s.misses + s.n50)
<1> DEFINE told == [f \in DOMAIN i.given |-> Told(i.given[f])]
<1>1. PICK g : g = i.given /\ DOMAIN g = Fields("osu")
               /\ \A f \in Fields("osu") : g[f] \in Nat \cup {None}
  BY DEF IsResult, IsInput
<1>2. PICK n \in Nat : n = Osu!NObjects(i, c) /\ n = MinOf(i.passed, c.n_objects)
  <2>1. i.passed \in Nat /\ c.n_objects \in Nat
    BY DEF IsResult, IsInput, CountsType
  <2>2. Osu!NObjects(i, c) = MinOf(i.passed, c.n_objects)
    BY OsuOperators DEF Osu!NObjects
  <2> QED
    BY <2>1, <2>2 DEF MinOf
<1>3. PICK a, b, d, m \in Nat :
        a = s.n300 /\ b = s.n100 /\ d = s.n50 /\ m = s.misses /\ m <= n
  <2>1. s \in [Fields("osu") -> Nat] /\ s.misses \in 0 .. n
    BY <1>2, OsuStates DEF IsResult
  <2> QED
    BY <2>1, FieldsAre
<1>4. OsuHits(s, g, n - m, Told(g.n300) + Told(g.n100) + Told(g.n50) + Told(g.misses) <= n)
  BY <1>1, <1>2, <1>3, Zenon DEF IsResult, OsuResult
<1>5. PICK u, v, w, k \in Nat :
        /\ u = Told(g.n300) /\ v = Told(g.n100) /\ w = Told(g.n50) /\ k = Told(g.misses)
        /\ told.n300 = u /\ told.n100 = v /\ told.n50 = w /\ told.misses = k
  <2>1. \A f \in Fields("osu") : told[f] = Told(g[f]) /\ Told(g[f]) \in Nat
    BY <1>1 DEF Told
  <2> QED
    BY <2>1, FieldsAre
<1>6. PICK names : names = Osu!Names /\ names = <<"n300", "n100", "n50">>
  BY DEF Osu!Names
<1>7. /\ Len(names) = 3 /\ DOMAIN names = 1 .. 3
      /\ names[1] = "n300" /\ names[2] = "n100" /\ names[3] = "n50"
  BY <1>6
<1>8. SumOver(told, names) = u + v + w
  BY <1>5, <1>6, SumOfThree
<1> HIDE DEF told
<1>9. a + b + m + d >= n
  BY <1>3, <1>4 DEF OsuHits
<1>10. ASSUME u + v + w + k <= n
       PROVE  /\ a + b + m + d = n
              /\ \A j \in 1 .. 3 : Open(g, names) # {} /\ g[names[j]] # None =>
                                       s[names[j]] = told[names[j]]
  <2>1. /\ a + b + d = n - m
        /\ g.n300 = None \/ g.n100 = None \/ g.n50 = None =>
              /\ g.n300 # None => a = g.n300
              /\ g.n100 # None => b = g.n100
              /\ g.n50 # None => d = g.n50
    BY <1>3, <1>4, <1>5, <1>10 DEF OsuHits
  <2>2. Open(g, names) # {} => g.n300 = None \/ g.n100 = None \/ g.n50 = None
    BY <1>7 DEF Open
  <2>3. /\ g.n300 # None => u = g.n300
        /\ g.n100 # None => v = g.n100
        /\ g.n50 # None => w = g.n50
    BY <1>5 DEF Told
  <2> QED
    BY <1>3, <1>5, <1>7, <2>1, <2>2, <2>3
<1> QED
  BY <1>1, <1>2, <1>3, <1>5, <1>6, <1>7, <1>8, <1>9, <1>10 DEF Accounts, told

LEMMA TaikoAccounts ==
    ASSUME NEW s, NEW i, NEW c, IsResult(s, "taiko", i, c)
    PROVE  Accounts(s, i.given, Taiko!Names, Taiko!NObjects(i, c),
                    s.n300 + s.n100 + s.misses)
<1> DEFINE told == [f \in DOMAIN i.given |-> Told(i.given[f])]
<1>1. PICK g : g = i.given /\ DOMAIN g = Fields("taiko")
               /\ \A f \in Fields("taiko") : g[f] \in Nat \cup {None}
  BY DEF IsResult, IsInput
<1>2. PICK n \in Nat : n = Taiko!NObjects(i, c) /\ n = MinOf(i.passed, c.max_combo)
  <2>1. i.passed \in Nat /\ c.max_combo \in Nat
    BY DEF IsResult, IsInput, CountsType
  <2>2. Taiko!NObjects(i, c) = MinOf(i.passed, c.max_combo)
    BY TaikoOperators DEF Taiko!NObjects
  <2> QED
    BY <2>1, <2>2 DEF MinOf
<1>3. PICK a, b, m \in Nat : a = s.n300 /\ b = s.n100 /\ m = s.misses /\ m <= n
  <2>1. s \in [Fields("taiko") -> Nat] /\ s.misses \in 0 .. n
    BY <1>2, TaikoStates DEF IsResult
  <2> QED
    BY <2>1, FieldsAre
<1>4. TaikoResult(s, i, n, c.max_combo)
  BY <1>2 DEF IsResult
<1>5. PICK u, v, k \in Nat :
        /\ u = Told(g.n300) /\ v = Told(g.n100) /\ k = Told(g.misses)
        /\ told.n300 = u /\ told.n100 = v /\ told.misses = k
  <2>1. \A f \in Fields("taiko") : told[f] = Told(g[f]) /\ Told(g[f]) \in Nat
    BY <1>1 DEF Told
  <2> QED
    BY <2>1, FieldsAre
<1>6. PICK names : names = Taiko!Names /\ names = <<"n300", "n100">>
  BY DEF Taiko!Names
<1>7. /\ Len(names) = 2 /\ DOMAIN names = 1 .. 2
      /\ names[1] = "n300" /\ names[2] = "n100"
  BY <1>6
<1>8. SumOver(told, names) = u + v
  BY <1>5, <1>6, SumOfTwo
<1> HIDE DEF told
<1>9. a + b + m >= n
  BY <1>3, <1>4 DEF TaikoResult
<1>10. ASSUME u + v + k <= n
       PROVE  /\ a + b + m = n
              /\ \A j \in 1 .. 2 : Open(g, names) # {} /\ g[names[j]] # None =>
                                       s[names[j]] = told[names[j]]
  <2>1. /\ a + b + m = n
        /\ g.n300 = None \/ g.n100 = None =>
              /\ g.n300 # None => a = g.n300
              /\ g.n100 # None => b = g.n100
    BY <1>1, <1>3, <1>4, <1>5, <1>10 DEF TaikoResult
  <2>2. Open(g, names) # {} => g.n300 = None \/ g.n100 = None
    BY <1>7 DEF Open
  <2>3. /\ g.n300 # None => u = g.n300
        /\ g.n100 # None => v = g.n100
    BY <1>5 DEF Told
  <2> QED
    BY <1>3, <1>5, <1>7, <2>1, <2>2, <2>3
<1> QED
  BY <1>1, <1>2, <1>3, <1>5, <1>6, <1>7, <1>8, <1>9, <1>10 DEF Accounts, told

LEMMA ManiaAccounts ==
    ASSUME NEW s, NEW i, NEW c, IsResult(s, "mania", i, c)
    PROVE  Accounts(s, i.given, Mania!Names, Mania!NObjects(i, c),
                    s.n300 + s.n100 + s.misses + s.n50 + s.n_katu + s.n_geki)
<1> DEFINE told == [f \in DOMAIN i.given |-> Told(i.given[f])]
<1>1. PICK g : g = i.given /\ DOMAIN g = Fields("mania")
               /\ \A f \in Fields("mania") : g[f] \in Nat \cup {None}
  BY DEF IsResult, IsInput
<1>2. PICK n \in Nat, cap \in Nat :
        /\ n = Mania!NObjects(i, c) /\ cap = MinOf(i.passed, c.n_objects) /\ cap <= n
        /\ n = MinOf(i.passed, c.n_objects) + (IF i.lazer THEN c.n_hold_notes ELSE 0)
  <2>1. i.passed \in Nat /\ c.n_objects \in Nat /\ c.n_hold_notes \in Nat
    BY DEF IsResult, IsInput, CountsType
  <2>2. PICK cap \in Nat : cap = MinOf(i.passed, c.n_objects)
    <3>1. MinOf(i.passed, c.n_objects) \in Nat
      BY <2>1 DEF MinOf
    <3> QED
      BY <3>1
  <2>3. Mania!MinOf(i.passed, c.n_objects) = cap
    BY <2>2, ManiaOperators
  <2>4. Mania!NObjects(i, c) = cap + (IF i.lazer THEN c.n_hold_notes ELSE 0)
    BY <2>3 DEF Mania!NObjects
  <2>5. PICK n \in Nat : n = cap + (IF i.lazer THEN c.n_hold_notes ELSE 0) /\ cap <= n
    <3>1. CASE i.lazer
      BY <2>1, <3>1
    <3>2. CASE ~i.lazer
      BY <3>2
    <3> QED
      BY <3>1, <3>2
  <2> QED
    BY <2>2, <2>4, <2>5
<1>3. PICK e, a, k, b, d, m \in Nat :
        /\ e = s.n_geki /\ a = s.n300 /\ k = s.n_katu /\ b = s.n100 /\ d = s.n50
        /\ m = s.misses /\ m <= n
  <2>1. s \in [Fields("mania") -> Nat] /\ s.misses \in 0 .. cap
    BY <1>2, ManiaStates DEF IsResult
  <2>2. s.misses <= n /\ s.misses \in Nat
    BY <1>2, <2>1
  <2> QED
    BY <2>1, <2>2, FieldsAre
<1>4. ManiaHits(s, g, n - m, ManiaTold(g) + Told(g.misses) <= n)
  BY <1>1, <1>2, <1>3, Zenon DEF IsResult, ManiaResult
<1>5. PICK te, ta, tk, tb, td, tm \in Nat :
        /\ te = Told(g.n_geki) /\ ta = Told(g.n300) /\ tk = Told(g.n_katu)
        /\ tb = Told(g.n100) /\ td = Told(g.n50) /\ tm = Told(g.misses)
        /\ told.n_geki = te /\ told.n300 = ta /\ told.n_katu = tk
        /\ told.n100 = tb /\ told.n50 = td /\ told.misses = tm
  <2>1. \A f \in Fields("mania") : told[f] = Told(g[f]) /\ Told(g[f]) \in Nat
    BY <1>1 DEF Told
  <2> QED
    BY <2>1, FieldsAre
<1>6. PICK names : names = Mania!Names /\ names = <<"n_geki", "n300", "n_katu", "n100", "n50">>
  BY DEF Mania!Names
<1>7. /\ Len(names) = 5 /\ DOMAIN names = 1 .. 5
      /\ names[1] = "n_geki" /\ names[2] = "n300" /\ names[3] = "n_katu"
      /\ names[4] = "n100" /\ names[5] = "n50"
  BY <1>6
<1>8. SumOver(told, names) = te + ta + tk + tb + td
  BY <1>5, <1>6, SumOfFive
<1>9. ManiaTold(g) = te + ta + tk + tb + td
  BY <1>5 DEF ManiaTold
<1> HIDE DEF told
<1>10. a + b + m + d + k + e >= n
  BY <1>3, <1>4 DEF ManiaHits
<1>11. ASSUME te + ta + tk + tb + td + tm <= n
       PROVE  /\ a + b + m + d + k + e = n
              /\ \A j \in 1 .. 5 : Open(g, names) # {} /\ g[names[j]] # None =>
                                       s[names[j]] = told[names[j]]
  <2>1. ManiaHits(s, g, n - m, TRUE)
    BY <1>4, <1>5, <1>9, <1>11
  <2>2. /\ e + a + k + b + d = n - m
        /\ \/ g.n_geki = None \/ g.n300 = None \/ g.n_katu = None
           \/ g.n100 = None \/ g.n50 = None
           =>
              /\ g.n_geki # None => e = g.n_geki
              /\ g.n300 # None => a = g.n300
              /\ g.n_katu # None => k = g.n_katu
              /\ g.n100 # None => b = g.n100
              /\ g.n50 # None => d = g.n50
    BY <1>3, <2>1 DEF ManiaHits
  <2>3. Open(g, names) # {} => \/ g.n_geki = None \/ g.n300 = None \/ g.n_katu = None
                               \/ g.n100 = None \/ g.n50 = None
    BY <1>7 DEF Open
  <2>4. /\ g.n_geki # None => te = g.n_geki
        /\ g.n300 # None => ta = g.n300
        /\ g.n_katu # None => tk = g.n_katu
        /\ g.n100 # None => tb = g.n100
        /\ g.n50 # None => td = g.n50
    BY <1>5 DEF Told
  <2>5. a + b + m + d + k + e = n
    BY <1>3, <2>2
  <2>6. Open(g, names) # {} =>
              /\ g.n_geki # None => e = te
              /\ g.n300 # None => a = ta
              /\ g.n_katu # None => k = tk
              /\ g.n100 # None => b = tb
              /\ g.n50 # None => d = td
    <3>1. Open(g, names) # {} =>
                /\ g.n_geki # None => e = g.n_geki
                /\ g.n300 # None => a = g.n300
                /\ g.n_katu # None => k = g.n_katu
                /\ g.n100 # None => b = g.n100
                /\ g.n50 # None => d = g.n50
      BY <2>2, <2>3, Zenon
    <3> QED
      BY <2>4, <3>1, Zenon
  <2>7. ASSUME NEW j \in 1 .. 5, Open(g, names) # {}, g[names[j]] # None
        PROVE  s[names[j]] = told[names[j]]
    <3>1. CASE j = 1
      BY <1>3, <1>5, <1>7, <2>6, <2>7, <3>1
    <3>2. CASE j = 2
      BY <1>3, <1>5, <1>7, <2>6, <2>7, <3>2
    <3>3. CASE j = 3
      BY <1>3, <1>5, <1>7, <2>6, <2>7, <3>3
    <3>4. CASE j = 4
      BY <1>3, <1>5, <1>7, <2>6, <2>7, <3>4
    <3>5. CASE j = 5
      BY <1>3, <1>5, <1>7, <2>6, <2>7, <3>5
    <3> QED
      BY <3>1, <3>2, <3>3, <3>4, <3>5
  <2> QED
    BY <2>5, <2>7
<1> QED
  BY <1>1, <1>2, <1>3, <1>5, <1>6, <1>7, <1>8, <1>10, <1>11 DEF Accounts, told

LEMMA CatchAccounts ==
    ASSUME NEW s, NEW i, NEW c, IsResult(s, "catch", i, c)
    PROVE  /\ s.n300 + s.n100 + s.misses = Catch!NObjects(i, c)
           /\ Told(i.given.n50) + Told(i.given.n_katu) <= c.n_tiny_droplets =>
                s.n300 + s.n100 + s.misses + s.n50 + s.n_katu
                    = Catch!NObjects(i, c) + c.n_tiny_droplets
<1>1. s \in [Fields("catch") -> Nat] /\ c \in CountsType("catch") /\ CatchResult(s, i, c)
  BY CatchStates DEF IsResult
<1>2. PICK a, b, m, t, k \in Nat :
        a = s.n300 /\ b = s.n100 /\ m = s.misses /\ t = s.n50 /\ k = s.n_katu
  BY <1>1, FieldsAre
<1>3. PICK all, tiny \in Nat : all = c.n_fruits + c.n_droplets /\ tiny = c.n_tiny_droplets
  BY <1>1 DEF CountsType
<1>4. /\ a + b + m = all
      /\ Told(i.given.n50) + Told(i.given.n_katu) <= tiny => t + k = tiny
  BY <1>1, <1>2, <1>3 DEF CatchResult
<1>5. Catch!NObjects(i, c) = all
  BY <1>3 DEF Catch!NObjects
<1>6. t + k = tiny => a + b + m + t + k = all + tiny
  BY <1>4
<1> QED
  BY <1>2, <1>3, <1>4, <1>5, <1>6

\* TotalHits, in the terms of a result
LEMMA TotalHitsIs ==
    ASSUME PerformanceInv, Made, NEW s, NEW i, NEW c,
           i = Inputs(out.of), c = AttrsOf(out.of).counts,
           i.given = out.of.given, out.of.given \in [Fields(out.of.mode) -> Nat \cup {None}],
           out.of.mode \in Modes,
           IsResult(s, out.of.mode, i, c),
           \A f \in Fields(out.of.mode) : out.state[f] = s[f]
    PROVE  TotalHits
<1> DEFINE told == [f \in Fields(out.of.mode) |->
                        IF out.of.given[f] = None THEN 0 ELSE out.of.given[f]]
<1>1. told = [f \in DOMAIN i.given |-> Told(i.given[f])]
  BY DEF Told
<1>2. CASE out.of.mode = "osu"
  <2>1. NamesOf(out.of.mode) = Osu!Names /\ ObjectsOf(out.of) = Osu!NObjects(i, c)
    BY <1>2 DEF NamesOf, ObjectsOf
  <2>2. /\ out.state.n300 = s.n300 /\ out.state.n100 = s.n100
        /\ out.state.n50 = s.n50 /\ out.state.misses = s.misses
        /\ \A j \in DOMAIN Osu!Names : out.state[Osu!Names[j]] = s[Osu!Names[j]]
    BY <1>2, FieldsAre DEF Osu!Names
  <2>3. TotalOfState(out.of.mode, out.state) = s.n300 + s.n100 + s.misses + s.n50
    <3>1. s.n300 \in Nat /\ s.n100 \in Nat /\ s.misses \in Nat /\ s.n50 \in Nat
      BY <1>2, ResultTypes, FieldsAre
    <3> QED
      BY <1>2, <2>2, <3>1 DEF TotalOfState
  <2>4. Accounts(s, i.given, Osu!Names, Osu!NObjects(i, c), s.n300 + s.n100 + s.misses + s.n50)
    BY <1>2, OsuAccounts
  <2>5. Accounts(out.state, out.of.given, NamesOf(out.of.mode), ObjectsOf(out.of),
                 TotalOfState(out.of.mode, out.state))
    BY <2>1, <2>2, <2>3, <2>4 DEF Accounts
  <2>6. /\ TotalOfState(out.of.mode, out.state) >= ObjectsOf(out.of)
        /\ SumOver(told, NamesOf(out.of.mode)) + told.misses <= ObjectsOf(out.of) =>
              /\ TotalOfState(out.of.mode, out.state) = ObjectsOf(out.of)
              /\ \A j \in DOMAIN NamesOf(out.of.mode) :
                    Open(out.of.given, NamesOf(out.of.mode)) # {}
                    /\ out.of.given[NamesOf(out.of.mode)[j]] # None =>
                        out.state[NamesOf(out.of.mode)[j]] = told[NamesOf(out.of.mode)[j]]
    <3> HIDE DEF told
    <3> QED
      BY <1>1, <2>5, Zenon DEF Accounts
  <2>7. out.of.mode # "catch"
    BY <1>2
  <2> QED
    BY <2>6, <2>7, Zenon DEF TotalHits
<1>3. CASE out.of.mode = "taiko"
  <2>1. NamesOf(out.of.mode) = Taiko!Names /\ ObjectsOf(out.of) = Taiko!NObjects(i, c)
    BY <1>3 DEF NamesOf, ObjectsOf
  <2>2. /\ out.state.n300 = s.n300 /\ out.state.n100 = s.n100 /\ out.state.misses = s.misses
        /\ \A j \in DOMAIN Taiko!Names : out.state[Taiko!Names[j]] = s[Taiko!Names[j]]
    BY <1>3, FieldsAre DEF Taiko!Names
  <2>3. TotalOfState(out.of.mode, out.state) = s.n300 + s.n100 + s.misses
    <3>1. s.n300 \in Nat /\ s.n100 \in Nat /\ s.misses \in Nat
      BY <1>3, ResultTypes, FieldsAre
    <3> QED
      BY <1>3, <2>2, <3>1 DEF TotalOfState
  <2>4. Accounts(s, i.given, Taiko!Names, Taiko!NObjects(i, c), s.n300 + s.n100 + s.misses)
    BY <1>3, TaikoAccounts
  <2>5. Accounts(out.state, out.of.given, NamesOf(out.of.mode), ObjectsOf(out.of),
                 TotalOfState(out.of.mode, out.state))
    BY <2>1, <2>2, <2>3, <2>4 DEF Accounts
  <2>6. /\ TotalOfState(out.of.mode, out.state) >= ObjectsOf(out.of)
        /\ SumOver(told, NamesOf(out.of.mode)) + told.misses <= ObjectsOf(out.of) =>
              /\ TotalOfState(out.of.mode, out.state) = ObjectsOf(out.of)
              /\ \A j \in DOMAIN NamesOf(out.of.mode) :
                    Open(out.of.given, NamesOf(out.of.mode)) # {}
                    /\ out.of.given[NamesOf(out.of.mode)[j]] # None =>
                        out.state[NamesOf(out.of.mode)[j]] = told[NamesOf(out.of.mode)[j]]
    <3> HIDE DEF told
    <3> QED
      BY <1>1, <2>5, Zenon DEF Accounts
  <2>7. out.of.mode # "catch"
    BY <1>3
  <2> QED
    BY <2>6, <2>7, Zenon DEF TotalHits
<1>4. CASE out.of.mode = "catch"
  <2>1. ObjectsOf(out.of) = Catch!NObjects(i, c)
    BY <1>4 DEF ObjectsOf
  <2>2. /\ out.state.n300 = s.n300 /\ out.state.n100 = s.n100 /\ out.state.misses = s.misses
        /\ out.state.n50 = s.n50 /\ out.state.n_katu = s.n_katu
    BY <1>4, FieldsAre
  <2>3. TotalOfState(out.of.mode, out.state)
            = s.n300 + s.n100 + s.misses + s.n50 + s.n_katu
    <3>1. /\ s.n300 \in Nat /\ s.n100 \in Nat /\ s.misses \in Nat /\ s.n50 \in Nat
          /\ s.n_katu \in Nat
      BY <1>4, ResultTypes, FieldsAre
    <3> QED
      BY <1>4, <2>2, <3>1 DEF TotalOfState
  <2>4. /\ s.n300 + s.n100 + s.misses = Catch!NObjects(i, c)
        /\ Told(i.given.n50) + Told(i.given.n_katu) <= c.n_tiny_droplets =>
                s.n300 + s.n100 + s.misses + s.n50 + s.n_katu
                    = Catch!NObjects(i, c) + c.n_tiny_droplets
    BY <1>4, CatchAccounts
  <2>5. told.n50 = Told(i.given.n50) /\ told.n_katu = Told(i.given.n_katu)
    BY <1>4, FieldsAre DEF Told
  <2> QED
    BY <1>4, <2>1, <2>2, <2>3, <2>4, <2>5 DEF TotalHits
<1>5. CASE out.of.mode = "mania"
  <2>1. NamesOf(out.of.mode) = Mania!Names /\ ObjectsOf(out.of) = Mania!NObjects(i, c)
    BY <1>5 DEF NamesOf, ObjectsOf
  <2>2. /\ out.state.n300 = s.n300 /\ out.state.n100 = s.n100 /\ out.state.misses = s.misses
        /\ out.state.n50 = s.n50 /\ out.state.n_katu = s.n_katu /\ out.state.n_geki = s.n_geki
        /\ \A j \in DOMAIN Mania!Names : out.state[Mania!Names[j]] = s[Mania!Names[j]]
    BY <1>5, FieldsAre DEF Mania!Names
  <2>3. TotalOfState(out.of.mode, out.state)
            = s.n300 + s.n100 + s.misses + s.n50 + s.n_katu + s.n_geki
    <3>1. /\ s.n300 \in Nat /\ s.n100 \in Nat /\ s.misses \in Nat /\ s.n50 \in Nat
          /\ s.n_katu \in Nat /\ s.n_geki \in Nat
      BY <1>5, ResultTypes, FieldsAre
    <3> QED
      BY <1>5, <2>2, <3>1 DEF TotalOfState
  <2>4. Accounts(s, i.given, Mania!Names, Mania!NObjects(i, c),
                 s.n300 + s.n100 + s.misses + s.n50 + s.n_katu + s.n_geki)
    BY <1>5, ManiaAccounts
  <2>5. Accounts(out.state, out.of.given, NamesOf(out.of.mode), ObjectsOf(out.of),
                 TotalOfState(out.of.mode, out.state))
    BY <2>1, <2>2, <2>3, <2>4 DEF Accounts
  <2>6. /\ TotalOfState(out.of.mode, out.state) >= ObjectsOf(out.of)
        /\ SumOver(told, NamesOf(out.of.mode)) + told.misses <= ObjectsOf(out.of) =>
              /\ TotalOfState(out.of.mode, out.state) = ObjectsOf(out.of)
              /\ \A j \in DOMAIN NamesOf(out.of.mode) :
                    Open(out.of.given, NamesOf(out.of.mode)) # {}
                    /\ out.of.given[NamesOf(out.of.mode)[j]] # None =>
                        out.state[NamesOf(out.of.mode)[j]] = told[NamesOf(out.of.mode)[j]]
    <3> HIDE DEF told
    <3> QED
      BY <1>1, <2>5, Zenon DEF Accounts
  <2>7. out.of.mode # "catch"
    BY <1>5
  <2> QED
    BY <2>6, <2>7, Zenon DEF TotalHits
<1> QED
  BY <1>2, <1>3, <1>4, <1>5 DEF Modes

LEMMA TotalsAreGood == PerformanceInv => TotalHits
<1> SUFFICES ASSUME PerformanceInv PROVE TotalHits
  OBVIOUS
<1>1. CASE ~Made
  BY <1>1 DEF TotalHits
<1>2. CASE Made
  <2>1. PICK s, i, c :
              /\ IsBuilder(out.of)
              /\ i = Inputs(out.of) /\ c = AttrsOf(out.of).counts
              /\ out.state = ToScoreState(s) /\ IsResult(s, out.of.mode, i, c)
              /\ s \in [Fields(out.of.mode) -> Nat]
              /\ i.given = out.of.given
    BY <1>2, MadeIs
  <2>2. out.of.mode \in Modes /\ out.of.given \in [Fields(out.of.mode) -> Nat \cup {None}]
    BY <2>1, BuilderParts
  <2>3. \A f \in Fields(out.of.mode) : out.state[f] = s[f]
    BY <2>1, <2>2, ScoreStateIs
  <2> QED
    BY <1>2, <2>1, <2>2, <2>3, TotalHitsIs
<1> QED
  BY <1>1, <1>2

\* No object of a generated state is without a hit result or has two, unless
\* more is given than fits, and what is given is kept where something is open.
THEOREM TotalHitsHold == Spec => []TotalHits
BY PerformanceInvHolds, TotalsAreGood, PTL

------------------------------------------------------------------------------
(* Complete reports *)

LEMMA GivenIsKept ==
    ASSUME NEW v \in Nat, NEW cap \in Nat, v <= cap
    PROVE  v # None /\ UpTo(v, cap) = v /\ OrAll(v, cap) = v
BY NoneAssumption DEF UpTo, OrAll, MinOf

LEMMA OsuKept ==
    ASSUME NEW t, NEW i, NEW c, IsResult(t, "osu", i, c),
           NEW g, g = i.given, g \in [Fields("osu") -> Nat],
           NEW n \in Nat, n = MinOf(i.passed, c.n_objects),
           g.misses <= n, g.n300 <= n - g.misses, g.n100 <= n - g.misses,
           g.n50 <= n - g.misses, g.n300 + g.n100 + g.n50 >= n - g.misses
    PROVE  /\ t.misses = g.misses
           /\ t.n300 = g.n300 /\ t.n100 = g.n100 /\ t.n50 = g.n50
           /\ g.max_combo <= SatSub(c.max_combo, g.misses) => t.max_combo = g.max_combo
<1>1. PICK a, b, d, m, x \in Nat :
        a = g.n300 /\ b = g.n100 /\ d = g.n50 /\ m = g.misses /\ x = g.max_combo
  BY FieldsAre
<1>2. a # None /\ b # None /\ d # None /\ m # None
  BY NoneAssumption
<1>3. t.misses = m
  <2>1. t.misses = UpTo(m, n) /\ m <= n
    BY <1>1 DEF IsResult, OsuResult
  <2> QED
    BY <2>1, GivenIsKept
<1>4. PICK fits : OsuHits(t, g, n - m, fits)
  BY <1>3 DEF IsResult, OsuResult
<1>5. t.n300 = a /\ t.n100 = b /\ t.n50 = d
  <2>1. a <= n - m /\ b <= n - m /\ d <= n - m /\ a + b + d >= n - m
    BY <1>1
  <2> QED
    BY <1>1, <1>2, <1>4, <2>1 DEF OsuHits
<1>6. x <= SatSub(c.max_combo, m) => t.max_combo = x
  <2>1. PICK k \in Nat : k = SatSub(c.max_combo, m)
    <3>1. c.max_combo \in Nat
      BY DEF IsResult, CountsType
    <3>2. SatSub(c.max_combo, m) \in Nat
      BY <3>1 DEF SatSub
    <3> QED
      BY <3>2
  <2>2. t.max_combo = OrAll(x, k)
    BY <1>1, <1>3, <2>1, Zenon DEF IsResult, OsuResult
  <2> QED
    BY <2>1, <2>2, GivenIsKept
<1> QED
  BY <1>1, <1>3, <1>5, <1>6

LEMMA TaikoKept ==
    ASSUME NEW t, NEW i, NEW c, IsResult(t, "taiko", i, c),
           NEW g, g = i.given, g \in [Fields("taiko") -> Nat],
           NEW n \in Nat, n = MinOf(i.passed, c.max_combo),
           g.misses <= n, g.n300 <= n - g.misses, g.n100 <= n - g.misses,
           g.n300 + g.n100 >= n - g.misses
    PROVE  /\ t.misses = g.misses /\ t.n300 = g.n300 /\ t.n100 = g.n100
           /\ g.max_combo <= SatSub(c.max_combo, g.misses) => t.max_combo = g.max_combo
<1>1. PICK a, b, m, x \in Nat :
        a = g.n300 /\ b = g.n100 /\ m = g.misses /\ x = g.max_combo
  BY FieldsAre
<1>2. a # None /\ b # None /\ m # None
  BY NoneAssumption
<1>3. TaikoResult(t, i, n, c.max_combo)
  BY DEF IsResult
<1>4. t.misses = m
  <2>1. t.misses = UpTo(m, n) /\ m <= n
    BY <1>1, <1>3 DEF TaikoResult
  <2> QED
    BY <2>1, GivenIsKept
<1>5. t.n300 = a /\ t.n100 = b
  <2>1. a <= n - m /\ b <= n - m /\ a + b + m >= n
    BY <1>1
  <2> QED
    BY <1>1, <1>2, <1>3, <1>4, <2>1 DEF TaikoResult
<1>6. x <= SatSub(c.max_combo, m) => t.max_combo = x
  <2>1. PICK k \in Nat : k = SatSub(c.max_combo, m)
    <3>1. c.max_combo \in Nat
      BY DEF IsResult, CountsType
    <3>2. SatSub(c.max_combo, m) \in Nat
      BY <3>1 DEF SatSub
    <3> QED
      BY <3>2
  <2>2. t.max_combo = OrAll(x, k)
    BY <1>1, <1>3, <1>4, <2>1, Zenon DEF TaikoResult
  <2> QED
    BY <2>1, <2>2, GivenIsKept
<1> QED
  BY <1>1, <1>4, <1>5, <1>6

LEMMA CatchKept ==
    ASSUME NEW t, NEW i, NEW c, IsResult(t, "catch", i, c),
           NEW g, g = i.given, g \in [Fields("catch") -> Nat],
           g.n300 + g.n100 + g.misses = c.n_fruits + c.n_droplets,
           \/ g.n50 + g.n_katu = c.n_tiny_droplets
           \/ g.n50 + g.n_katu >= c.n_tiny_droplets /\ i.acc = None
    PROVE  t = g
<1>1. PICK a, b, d, k, m, x \in Nat :
        /\ a = g.n300 /\ b = g.n100 /\ d = g.n50 /\ k = g.n_katu /\ m = g.misses
        /\ x = g.max_combo
        /\ g = [max_combo |-> x, n300 |-> a, n100 |-> b, n50 |-> d, n_katu |-> k, misses |-> m]
  <2>1. g = [max_combo |-> g.max_combo, n300 |-> g.n300, n100 |-> g.n100, n50 |-> g.n50,
             n_katu |-> g.n_katu, misses |-> g.misses]
    BY FieldsAre
  <2> QED
    BY <2>1, FieldsAre
<1>2. a # None /\ b # None /\ d # None /\ k # None /\ m # None /\ x # None
  BY NoneAssumption
<1>3. PICK all, tiny \in Nat : all = c.n_fruits + c.n_droplets /\ tiny = c.n_tiny_droplets
  <2>1. c \in CountsType("catch")
    BY DEF IsResult
  <2> QED
    BY <2>1 DEF CountsType
<1>4. CatchResult(t, i, c)
  BY DEF IsResult
<1>5. t.misses = m
  <2>1. t.misses = UpTo(m, all) /\ m <= all
    BY <1>1, <1>3, <1>4 DEF CatchResult
  <2> QED
    BY <2>1, GivenIsKept
<1>6. t.n300 = a /\ t.n100 = b
  BY <1>1, <1>2, <1>3, <1>4, <1>5 DEF CatchResult
<1>7. t.n50 = d /\ t.n_katu = k
  BY <1>1, <1>2, <1>3, <1>4 DEF CatchResult
<1>8. t.max_combo = x
  BY <1>1, <1>2, <1>4 DEF CatchResult
<1>9. t = [max_combo |-> t.max_combo, n300 |-> t.n300, n100 |-> t.n100, n50 |-> t.n50,
           n_katu |-> t.n_katu, misses |-> t.misses]
  BY <1>4, Zenon DEF CatchResult
<1> QED
  BY <1>1, <1>5, <1>6, <1>7, <1>8, <1>9

LEMMA ManiaKept ==
    ASSUME NEW t, NEW i, NEW c, IsResult(t, "mania", i, c),
           NEW g, g = i.given, g \in [Fields("mania") -> Nat],
           NEW n \in Nat, NEW cap \in Nat, cap = MinOf(i.passed, c.n_objects),
           n = MinOf(i.passed, c.n_objects) + (IF i.lazer THEN c.n_hold_notes ELSE 0),
           g.misses <= cap,
           g.n_geki <= n - g.misses, g.n300 <= n - g.misses, g.n_katu <= n - g.misses,
           g.n100 <= n - g.misses, g.n50 <= n - g.misses,
           g.n_geki + g.n300 + g.n_katu + g.n100 + g.n50 >= n - g.misses
    PROVE  t = g
<1>1. PICK e, a, k, b, d, m \in Nat :
        /\ e = g.n_geki /\ a = g.n300 /\ k = g.n_katu /\ b = g.n100 /\ d = g.n50
        /\ m = g.misses
        /\ g = [n_geki |-> e, n300 |-> a, n_katu |-> k, n100 |-> b, n50 |-> d, misses |-> m]
  <2>1. g = [n_geki |-> g.n_geki, n300 |-> g.n300, n_katu |-> g.n_katu, n100 |-> g.n100,
             n50 |-> g.n50, misses |-> g.misses]
    BY FieldsAre
  <2> QED
    BY <2>1, FieldsAre
<1>2. e # None /\ a # None /\ k # None /\ b # None /\ d # None /\ m # None
  BY NoneAssumption
<1>3. ManiaResult(t, i, c)
  BY DEF IsResult
<1>4. t.misses = m
  <2>1. t.misses = UpTo(m, cap) /\ m <= cap
    BY <1>1, <1>3 DEF ManiaResult
  <2> QED
    BY <2>1, GivenIsKept
<1>5. PICK fits : ManiaHits(t, g, n - m, fits)
  BY <1>3, <1>4 DEF ManiaResult
<1>6. t.n_geki = e /\ t.n300 = a /\ t.n_katu = k /\ t.n100 = b /\ t.n50 = d
  <2>1. /\ e <= n - m /\ a <= n - m /\ k <= n - m /\ b <= n - m /\ d <= n - m
        /\ e + a + k + b + d >= n - m
    BY <1>1
  <2> QED
    BY <1>1, <1>2, <1>5, <2>1 DEF ManiaHits
<1>7. t = [n_geki |-> t.n_geki, n300 |-> t.n300, n_katu |-> t.n_katu, n100 |-> t.n100,
           n50 |-> t.n50, misses |-> t.misses]
  BY <1>3, Zenon DEF ManiaResult
<1> QED
  BY <1>1, <1>4, <1>6, <1>7

\* Generating once more from a result gives the result.
LEMMA OsuAgain ==
    ASSUME NEW s, NEW i, NEW c, IsResult(s, "osu", i, c),
           NEW t, NEW j, j = [i EXCEPT !.given = s], IsResult(t, "osu", j, c),
           i = [given |-> i.given, acc |-> i.acc, best |-> i.best, mods |-> i.mods,
                passed |-> i.passed, lazer |-> i.lazer]
    PROVE  t = s
<1>1. j.given = s /\ j.passed = i.passed /\ j.mods = i.mods /\ j.lazer = i.lazer
  OBVIOUS
<1>2. PICK n \in Nat : n = MinOf(i.passed, c.n_objects)
  <2>1. i.passed \in Nat /\ c.n_objects \in Nat
    BY DEF IsResult, IsInput, CountsType
  <2>2. MinOf(i.passed, c.n_objects) \in Nat
    BY <2>1 DEF MinOf
  <2> QED
    BY <2>2
<1>3. PICK max : max = Osu!MaxSliderHits(i.lazer, Osu!NoSliderHeadAcc(i.mods, i.lazer), c)
  OBVIOUS
<1>4. /\ s \in [Fields("osu") -> Nat] /\ s.misses \in 0 .. n
      /\ \A f \in Osu!SliderParts : s[f] \in 0 .. max[f] /\ max[f] \in Nat
      /\ t \in [Fields("osu") -> Nat]
      /\ \A f \in Osu!SliderParts : t[f] = OrAll(s[f], max[f])
  <2>1. /\ s \in [Fields("osu") -> Nat] /\ s.misses \in 0 .. n
        /\ \A f \in Osu!SliderParts : s[f] \in 0 .. max[f] /\ max[f] \in Nat
    BY <1>2, <1>3, OsuStates DEF IsResult
  <2>2. t \in [Fields("osu") -> Nat]
    BY OsuStates DEF IsResult
  <2>3. \A f \in Osu!SliderParts : t[f] = OrAll(s[f], max[f])
    <3>1. \A f \in Osu!SliderParts :
             t[f] = OrAll(j.given[f],
                          Osu!MaxSliderHits(j.lazer, Osu!NoSliderHeadAcc(j.mods, j.lazer), c)[f])
      BY OsuStates DEF IsResult
    <3> QED
      BY <1>1, <1>3, <3>1
  <2> QED
    BY <2>1, <2>2, <2>3
<1>5. \A f \in Osu!SliderParts : t[f] = s[f]
  BY <1>4, GivenIsKept
<1>6. PICK a, b, d, m, x \in Nat :
        a = s.n300 /\ b = s.n100 /\ d = s.n50 /\ m = s.misses /\ x = s.max_combo
  BY <1>4, FieldsAre
<1>7. a <= n - m /\ b <= n - m /\ d <= n - m /\ a + b + d >= n - m /\ m <= n
  <2>1. PICK fits : OsuHits(s, i.given, n - m, fits)
    BY <1>2, <1>6 DEF IsResult, OsuResult
  <2> QED
    BY <1>4, <1>6, <2>1 DEF OsuHits
<1>8. x <= SatSub(c.max_combo, m)
  <2>1. PICK k \in Nat : k = SatSub(c.max_combo, m)
    <3>1. c.max_combo \in Nat
      BY DEF IsResult, CountsType
    <3>2. SatSub(c.max_combo, m) \in Nat
      BY <3>1 DEF SatSub
    <3> QED
      BY <3>2
  <2>2. PICK opt \in Nat \cup {None} : x = OrAll(opt, k)
    <3>1. x = OrAll(i.given.max_combo, k)
      BY <1>6, <2>1, Zenon DEF IsResult, OsuResult
    <3>2. i.given.max_combo \in Nat \cup {None}
      BY FieldsAre DEF IsResult, IsInput
    <3> QED
      BY <3>1, <3>2
  <2>3. x \in 0 .. k
    BY <2>2, LimitedTypes
  <2> QED
    BY <2>1, <2>3
<1>9. t.misses = m /\ t.n300 = a /\ t.n100 = b /\ t.n50 = d /\ t.max_combo = x
  <2>1. n = MinOf(j.passed, c.n_objects) /\ s = j.given
    BY <1>1, <1>2
  <2>2. /\ s.misses <= n /\ s.n300 <= n - s.misses /\ s.n100 <= n - s.misses
        /\ s.n50 <= n - s.misses /\ s.n300 + s.n100 + s.n50 >= n - s.misses
        /\ s.max_combo <= SatSub(c.max_combo, s.misses)
    BY <1>6, <1>7, <1>8
  <2>3. /\ t.misses = s.misses /\ t.n300 = s.n300 /\ t.n100 = s.n100 /\ t.n50 = s.n50
        /\ s.max_combo <= SatSub(c.max_combo, s.misses) => t.max_combo = s.max_combo
    BY <1>4, <2>1, <2>2, OsuKept
  <2> QED
    BY <1>6, <2>2, <2>3
<1>10. \A f \in Fields("osu") : t[f] = s[f]
  BY <1>5, <1>6, <1>9, FieldsAre DEF Osu!SliderParts
<1> QED
  BY <1>4, <1>10

LEMMA TaikoAgain ==
    ASSUME NEW s, NEW i, NEW c, IsResult(s, "taiko", i, c),
           NEW t, NEW j, j = [i EXCEPT !.given = s], IsResult(t, "taiko", j, c),
           i = [given |-> i.given, acc |-> i.acc, best |-> i.best, mods |-> i.mods,
                passed |-> i.passed, lazer |-> i.lazer]
    PROVE  t = s
<1>1. j.given = s /\ j.passed = i.passed
  OBVIOUS
<1>2. PICK n \in Nat : n = MinOf(i.passed, c.max_combo)
  <2>1. i.passed \in Nat /\ c.max_combo \in Nat
    BY DEF IsResult, IsInput, CountsType
  <2>2. MinOf(i.passed, c.max_combo) \in Nat
    BY <2>1 DEF MinOf
  <2> QED
    BY <2>2
<1>3. /\ s \in [Fields("taiko") -> Nat] /\ s.misses \in 0 .. n
      /\ t \in [Fields("taiko") -> Nat]
  BY <1>2, TaikoStates DEF IsResult
<1>4. PICK a, b, m, x \in Nat :
        a = s.n300 /\ b = s.n100 /\ m = s.misses /\ x = s.max_combo
  BY <1>3, FieldsAre
<1>5. TaikoResult(s, i, n, c.max_combo)
  BY <1>2 DEF IsResult
<1>6. a <= n - m /\ b <= n - m /\ a + b >= n - m /\ m <= n
  BY <1>3, <1>4, <1>5 DEF TaikoResult
<1>7. x <= SatSub(c.max_combo, m)
  <2>1. PICK k \in Nat : k = SatSub(c.max_combo, m)
    <3>1. c.max_combo \in Nat
      BY DEF IsResult, CountsType
    <3>2. SatSub(c.max_combo, m) \in Nat
      BY <3>1 DEF SatSub
    <3> QED
      BY <3>2
  <2>2. PICK opt \in Nat \cup {None} : x = OrAll(opt, k)
    <3>1. x = OrAll(i.given.max_combo, k)
      BY <1>4, <1>5, <2>1, Zenon DEF TaikoResult
    <3>2. i.given.max_combo \in Nat \cup {None}
      BY FieldsAre DEF IsResult, IsInput
    <3> QED
      BY <3>1, <3>2
  <2>3. x \in 0 .. k
    BY <2>2, LimitedTypes
  <2> QED
    BY <2>1, <2>3
<1>8. t.misses = m /\ t.n300 = a /\ t.n100 = b /\ t.max_combo = x
  <2>1. n = MinOf(j.passed, c.max_combo) /\ s = j.given
    BY <1>1, <1>2
  <2>2. /\ s.misses <= n /\ s.n300 <= n - s.misses /\ s.n100 <= n - s.misses
        /\ s.n300 + s.n100 >= n - s.misses
        /\ s.max_combo <= SatSub(c.max_combo, s.misses)
    BY <1>4, <1>6, <1>7
  <2>3. /\ t.misses = s.misses /\ t.n300 = s.n300 /\ t.n100 = s.n100
        /\ s.max_combo <= SatSub(c.max_combo, s.misses) => t.max_combo = s.max_combo
    BY <1>3, <2>1, <2>2, TaikoKept
  <2> QED
    BY <1>4, <2>2, <2>3
<1>9. \A f \in Fields("taiko") : t[f] = s[f]
  BY <1>4, <1>8, FieldsAre
<1> QED
  BY <1>3, <1>9

LEMMA CatchAgain ==
    ASSUME NEW s, NEW i, NEW c, IsResult(s, "catch", i, c),
           NEW t, NEW j, j = [i EXCEPT !.given = s], IsResult(t, "catch", j, c),
           i = [given |-> i.given, acc |-> i.acc, best |-> i.best, mods |-> i.mods,
                passed |-> i.passed, lazer |-> i.lazer]
    PROVE  t = s
<1>1. j.given = s /\ j.acc = i.acc
  OBVIOUS
<1>2. s \in [Fields("catch") -> Nat]
  BY CatchStates DEF IsResult
<1>3. CatchResult(s, i, c)
  BY DEF IsResult
<1>4. s.n300 + s.n100 + s.misses = c.n_fruits + c.n_droplets
  BY <1>3 DEF CatchResult
<1>5. \/ s.n50 + s.n_katu = c.n_tiny_droplets
      \/ s.n50 + s.n_katu >= c.n_tiny_droplets /\ j.acc = None
  BY <1>1, <1>3 DEF CatchResult
<1> QED
  BY <1>1, <1>2, <1>4, <1>5, CatchKept

LEMMA ManiaAgain ==
    ASSUME NEW s, NEW i, NEW c, IsResult(s, "mania", i, c),
           NEW t, NEW j, j = [i EXCEPT !.given = s], IsResult(t, "mania", j, c),
           i = [given |-> i.given, acc |-> i.acc, best |-> i.best, mods |-> i.mods,
                passed |-> i.passed, lazer |-> i.lazer]
    PROVE  t = s
<1>1. j.given = s /\ j.passed = i.passed /\ j.lazer = i.lazer
  OBVIOUS
<1>2. PICK cap \in Nat, n \in Nat :
        /\ cap = MinOf(i.passed, c.n_objects)
        /\ n = MinOf(i.passed, c.n_objects) + (IF i.lazer THEN c.n_hold_notes ELSE 0)
  <2>1. /\ i.passed \in Nat /\ c.n_objects \in Nat /\ c.n_hold_notes \in Nat
        /\ i.lazer \in BOOLEAN
    BY DEF IsResult, IsInput, CountsType
  <2>2. MinOf(i.passed, c.n_objects) \in Nat
    BY <2>1 DEF MinOf
  <2>3. MinOf(i.passed, c.n_objects) + (IF i.lazer THEN c.n_hold_notes ELSE 0) \in Nat
    BY <2>1, <2>2
  <2> QED
    BY <2>2, <2>3
<1>3. s \in [Fields("mania") -> Nat] /\ s.misses \in 0 .. cap
  BY <1>2, ManiaStates DEF IsResult
<1>4. PICK fits : ManiaHits(s, i.given, n - s.misses, fits)
  BY <1>2 DEF IsResult, ManiaResult
<1>5. /\ s.n_geki <= n - s.misses /\ s.n300 <= n - s.misses /\ s.n_katu <= n - s.misses
      /\ s.n100 <= n - s.misses /\ s.n50 <= n - s.misses
      /\ s.n_geki + s.n300 + s.n_katu + s.n100 + s.n50 >= n - s.misses
      /\ s.misses <= cap
  <2>1. n - s.misses \in Int
    BY <1>3
  <2> QED
    BY <1>3, <1>4, <2>1 DEF ManiaHits
<1>6. /\ cap = MinOf(j.passed, c.n_objects)
      /\ n = MinOf(j.passed, c.n_objects) + (IF j.lazer THEN c.n_hold_notes ELSE 0)
  BY <1>1, <1>2
<1> QED
  BY <1>1, <1>3, <1>5, <1>6, ManiaKept

LEMMA AgainIsSame ==
    ASSUME NEW mode \in Modes, NEW s, NEW i, NEW c, IsResult(s, mode, i, c),
           NEW t, NEW j, j = [i EXCEPT !.given = s], IsResult(t, mode, j, c),
           i = [given |-> i.given, acc |-> i.acc, best |-> i.best, mods |-> i.mods,
                passed |-> i.passed, lazer |-> i.lazer]
    PROVE  t = s
<1>1. CASE mode = "osu"
  BY <1>1, OsuAgain
<1>2. CASE mode = "taiko"
  BY <1>2, TaikoAgain
<1>3. CASE mode = "catch"
  BY <1>3, CatchAgain
<1>4. CASE mode = "mania"
  BY <1>4, ManiaAgain
<1> QED
  BY <1>1, <1>2, <1>3, <1>4 DEF Modes

LEMMA RepeatsAreGood == PerformanceInv => GenerateTwice
<1> SUFFICES ASSUME PerformanceInv, Made PROVE GenerateTwice
  BY DEF GenerateTwice
<1>1. PICK s, i, c :
            /\ IsBuilder(out.of) /\ ~Fails(out.of)
            /\ i = Inputs(out.of) /\ c = AttrsOf(out.of).counts
            /\ s = Generated(out.of) /\ out.state = ToScoreState(s)
            /\ IsResult(s, out.of.mode, i, c)
  BY MadeIs
<1>2. PICK b : b = out.of /\ b.mode \in Modes /\ IsBuilder(b) /\ ~Fails(b)
  BY <1>1, BuilderParts
<1>3. PICK d : /\ d = AfterGenerate(b) /\ IsBuilder(d) /\ d.mode = b.mode
               /\ Inputs(d) = [i EXCEPT !.given = s]
  BY <1>1, <1>2, GeneratedBuilder
<1>4. c \in CountsType(b.mode)
  BY <1>1, <1>2, BuilderAttributes
<1>5. PICK t, j : /\ t = GeneratedFrom(d, c) /\ j = Inputs(d)
                  /\ IsResult(t, b.mode, j, c)
  <2>1. IsResult(GeneratedFrom(d, c), d.mode, Inputs(d), c)
    BY <1>3, <1>4, ResultOf
  <2> QED
    BY <1>3, <2>1
<1>6. i = [given |-> i.given, acc |-> i.acc, best |-> i.best, mods |-> i.mods,
           passed |-> i.passed, lazer |-> i.lazer]
  BY <1>1 DEF Inputs
<1>7. t = s
  <2>1. IsResult(s, b.mode, i, c) /\ j = [i EXCEPT !.given = s]
    BY <1>1, <1>2, <1>3, <1>5
  <2> QED
    BY <1>2, <1>5, <1>6, <2>1, AgainIsSame
<1>8. ToScoreState(GeneratedFrom(AfterGenerate(out.of), AttrsOf(out.of).counts)) = out.state
  BY <1>1, <1>2, <1>3, <1>5, <1>7
<1> QED
  BY <1>8 DEF GenerateTwice

\* Whatever builder a state was generated from, generating again from the
\* attributes and the result that replaced its map and its counts changes
\* nothing: calculate rates the very state that generate_state shows.
THEOREM GenerateTwiceHolds == Spec => []GenerateTwice
BY PerformanceInvHolds, RepeatsAreGood, PTL

\* A state in which all objects are reported
LEMMA OsuFullState ==
    ASSUME NEW s, NEW i, NEW c, IsResult(s, "osu", i, c),
           NEW g, g = i.given, g \in [Fields("osu") -> Nat],
           SumOver(g, Osu!Names) + g.misses = Osu!NObjects(i, c),
           g.max_combo <= c.max_combo - g.misses
    PROVE  \A f \in Fields("osu") \ Osu!SliderParts : s[f] = g[f]
<1>1. PICK n \in Nat : n = Osu!NObjects(i, c) /\ n = MinOf(i.passed, c.n_objects)
  <2>1. i.passed \in Nat /\ c.n_objects \in Nat
    BY DEF IsResult, IsInput, CountsType
  <2>2. Osu!NObjects(i, c) = MinOf(i.passed, c.n_objects)
    BY OsuOperators DEF Osu!NObjects
  <2> QED
    BY <2>1, <2>2 DEF MinOf
<1>2. PICK a, b, d, m, x \in Nat :
        a = g.n300 /\ b = g.n100 /\ d = g.n50 /\ m = g.misses /\ x = g.max_combo
  BY FieldsAre
<1>3. SumOver(g, Osu!Names) = a + b + d
  BY <1>2, SumOfThree DEF Osu!Names
<1>4. a + b + d + m = n
  BY <1>1, <1>2, <1>3
<1>5. x <= SatSub(c.max_combo, m)
  <2>1. c.max_combo \in Nat /\ x <= c.max_combo - m
    BY <1>2 DEF IsResult, CountsType
  <2> QED
    BY <2>1 DEF SatSub
<1>6. /\ g.misses <= n /\ g.n300 <= n - g.misses /\ g.n100 <= n - g.misses
      /\ g.n50 <= n - g.misses /\ g.n300 + g.n100 + g.n50 >= n - g.misses
      /\ g.max_combo <= SatSub(c.max_combo, g.misses)
  BY <1>2, <1>4, <1>5
<1>7. /\ s.misses = g.misses /\ s.max_combo = g.max_combo
      /\ s.n300 = g.n300 /\ s.n100 = g.n100 /\ s.n50 = g.n50
  BY <1>1, <1>6, OsuKept
<1> QED
  BY <1>7, FieldsAre DEF Osu!SliderParts

LEMMA TaikoFullState ==
    ASSUME NEW s, NEW i, NEW c, IsResult(s, "taiko", i, c),
           NEW g, g = i.given, g \in [Fields("taiko") -> Nat],
           SumOver(g, Taiko!Names) + g.misses = Taiko!NObjects(i, c),
           g.max_combo <= c.max_combo - g.misses
    PROVE  \A f \in Fields("taiko") : s[f] = g[f]
<1>1. PICK n \in Nat : n = Taiko!NObjects(i, c) /\ n = MinOf(i.passed, c.max_combo)
  <2>1. i.passed \in Nat /\ c.max_combo \in Nat
    BY DEF IsResult, IsInput, CountsType
  <2>2. Taiko!NObjects(i, c) = MinOf(i.passed, c.max_combo)
    BY TaikoOperators DEF Taiko!NObjects
  <2> QED
    BY <2>1, <2>2 DEF MinOf
<1>2. PICK a, b, m, x \in Nat :
        a = g.n300 /\ b = g.n100 /\ m = g.misses /\ x = g.max_combo
  BY FieldsAre
<1>3. SumOver(g, Taiko!Names) = a + b
  BY <1>2, SumOfTwo DEF Taiko!Names
<1>4. a + b + m = n
  BY <1>1, <1>2, <1>3
<1>5. x <= SatSub(c.max_combo, m)
  <2>1. c.max_combo \in Nat /\ x <= c.max_combo - m
    BY <1>2 DEF IsResult, CountsType
  <2> QED
    BY <2>1 DEF SatSub
<1>6. /\ g.misses <= n /\ g.n300 <= n - g.misses /\ g.n100 <= n - g.misses
      /\ g.n300 + g.n100 >= n - g.misses
      /\ g.max_combo <= SatSub(c.max_combo, g.misses)
  BY <1>2, <1>4, <1>5
<1>7. /\ s.misses = g.misses /\ s.max_combo = g.max_combo
      /\ s.n300 = g.n300 /\ s.n100 = g.n100
  BY <1>1, <1>6, TaikoKept
<1> QED
  BY <1>7, FieldsAre

LEMMA CatchFullState ==
    ASSUME NEW s, NEW i, NEW c, IsResult(s, "catch", i, c),
           NEW g, g = i.given, g \in [Fields("catch") -> Nat],
           SumOver(g, <<"n300", "n100">>) + g.misses = Catch!NObjects(i, c),
           g.n50 + g.n_katu = c.n_tiny_droplets
    PROVE  s = g
<1>1. PICK a, b, m \in Nat : a = g.n300 /\ b = g.n100 /\ m = g.misses
  BY FieldsAre
<1>2. SumOver(g, <<"n300", "n100">>) = a + b
  BY <1>1, SumOfTwo
<1>3. Catch!NObjects(i, c) = c.n_fruits + c.n_droplets
  BY DEF Catch!NObjects
<1>4. g.n300 + g.n100 + g.misses = c.n_fruits + c.n_droplets
  BY <1>1, <1>2, <1>3
<1> QED
  BY <1>4, CatchKept

LEMMA ManiaFullState ==
    ASSUME NEW s, NEW i, NEW c, IsResult(s, "mania", i, c),
           NEW g, g = i.given, g \in [Fields("mania") -> Nat],
           SumOver(g, Mania!Names) + g.misses = Mania!NObjects(i, c),
           g.misses <= MinOf(i.passed, c.n_objects)
    PROVE  s = g
<1>1. PICK n \in Nat, cap \in Nat :
        /\ n = Mania!NObjects(i, c) /\ cap = MinOf(i.passed, c.n_objects)
        /\ n = MinOf(i.passed, c.n_objects) + (IF i.lazer THEN c.n_hold_notes ELSE 0)
  <2>1. i.passed \in Nat /\ c.n_objects \in Nat /\ c.n_hold_notes \in Nat
    BY DEF IsResult, IsInput, CountsType
  <2>2. PICK cap \in Nat : cap = MinOf(i.passed, c.n_objects)
    <3>1. MinOf(i.passed, c.n_objects) \in Nat
      BY <2>1 DEF MinOf
    <3> QED
      BY <3>1
  <2>3. Mania!MinOf(i.passed, c.n_objects) = cap
    BY <2>2, ManiaOperators
  <2>4. Mania!NObjects(i, c) = cap + (IF i.lazer THEN c.n_hold_notes ELSE 0)
    BY <2>3 DEF Mania!NObjects
  <2>5. cap + (IF i.lazer THEN c.n_hold_notes ELSE 0) \in Nat
    BY <2>1
  <2> QED
    BY <2>2, <2>4, <2>5
<1>2. PICK e, a, k, b, d, m \in Nat :
        /\ e = g.n_geki /\ a = g.n300 /\ k = g.n_katu /\ b = g.n100 /\ d = g.n50
        /\ m = g.misses
  BY FieldsAre
<1>3. SumOver(g, Mania!Names) = e + a + k + b + d
  BY <1>2, SumOfFive DEF Mania!Names
<1>4. e + a + k + b + d + m = n
  BY <1>1, <1>2, <1>3
<1>5. /\ g.misses <= cap
      /\ g.n_geki <= n - g.misses /\ g.n300 <= n - g.misses /\ g.n_katu <= n - g.misses
      /\ g.n100 <= n - g.misses /\ g.n50 <= n - g.misses
      /\ g.n_geki + g.n300 + g.n_katu + g.n100 + g.n50 >= n - g.misses
  BY <1>1, <1>2, <1>4
<1> QED
  BY <1>1, <1>5, ManiaKept

LEMMA FullStatesAreGood == PerformanceInv => KeepsFullStates
<1> SUFFICES ASSUME PerformanceInv, Made,
                    \A f \in Fields(out.of.mode) : out.of.given[f] # None
             PROVE  KeepsFullStates
  BY DEF KeepsFullStates
<1>1. PICK s, i, c :
            /\ IsBuilder(out.of)
            /\ i = Inputs(out.of) /\ c = AttrsOf(out.of).counts
            /\ out.state = ToScoreState(s)
            /\ IsResult(s, out.of.mode, i, c)
            /\ s \in [Fields(out.of.mode) -> Nat]
            /\ i.given = out.of.given /\ i.passed = PassedObjects(out.of.diff)
  BY MadeIs
<1>2. PICK b : b = out.of /\ IsBuilder(b)
  BY <1>1
<1>3. PICK g : g = b.given /\ g \in [Fields(b.mode) -> Nat] /\ g = i.given
  <2>1. b.given \in [Fields(b.mode) -> Nat \cup {None}]
    BY <1>2, BuilderParts
  <2>2. \A f \in Fields(b.mode) : b.given[f] # None
    BY <1>2
  <2>3. b.given \in [Fields(b.mode) -> Nat]
    BY <2>1, <2>2
  <2> QED
    BY <1>1, <1>2, <2>3
<1>4. b.mode \in Modes /\ \A f \in Fields(b.mode) : out.state[f] = s[f]
  <2>1. b.mode \in Modes
    BY <1>2, BuilderParts
  <2> QED
    BY <1>1, <1>2, <2>1, ScoreStateIs
<1> DEFINE fits ==
        /\ SumOver(g, NamesOf(b.mode)) + g.misses = ObjectsOf(b)
        /\ b.mode \in {"osu", "taiko"} => g.max_combo <= c.max_combo - g.misses
        /\ b.mode = "mania" => g.misses <= MinOf(PassedObjects(b.diff), c.n_objects)
        /\ b.mode = "catch" => /\ g.n300 <= c.n_fruits
                                /\ g.n100 <= c.n_droplets
                                /\ g.n50 + g.n_katu = c.n_tiny_droplets
<1>5. ASSUME fits
      PROVE  \A f \in Fields(b.mode) \ Osu!SliderParts : s[f] = g[f]
  <2>1. CASE b.mode = "osu"
    <3>1. NamesOf(b.mode) = Osu!Names /\ ObjectsOf(b) = Osu!NObjects(i, c)
      BY <1>1, <1>2, <2>1 DEF NamesOf, ObjectsOf
    <3>2. /\ SumOver(g, Osu!Names) + g.misses = Osu!NObjects(i, c)
          /\ g.max_combo <= c.max_combo - g.misses
      BY <1>5, <2>1, <3>1
    <3> QED
      BY <1>1, <1>2, <1>3, <2>1, <3>2, OsuFullState
  <2>2. CASE b.mode = "taiko"
    <3>1. NamesOf(b.mode) = Taiko!Names /\ ObjectsOf(b) = Taiko!NObjects(i, c)
      BY <1>1, <1>2, <2>2 DEF NamesOf, ObjectsOf
    <3>2. /\ SumOver(g, Taiko!Names) + g.misses = Taiko!NObjects(i, c)
          /\ g.max_combo <= c.max_combo - g.misses
      BY <1>5, <2>2, <3>1
    <3> QED
      BY <1>1, <1>2, <1>3, <2>2, <3>2, TaikoFullState
  <2>3. CASE b.mode = "catch"
    <3>1. NamesOf(b.mode) = <<"n300", "n100">> /\ ObjectsOf(b) = Catch!NObjects(i, c)
      BY <1>1, <1>2, <2>3 DEF NamesOf, ObjectsOf
    <3>2. /\ SumOver(g, <<"n300", "n100">>) + g.misses = Catch!NObjects(i, c)
          /\ g.n50 + g.n_katu = c.n_tiny_droplets
      BY <1>5, <2>3, <3>1
    <3> QED
      BY <1>1, <1>2, <1>3, <2>3, <3>2, CatchFullState
  <2>4. CASE b.mode = "mania"
    <3>1. NamesOf(b.mode) = Mania!Names /\ ObjectsOf(b) = Mania!NObjects(i, c)
      BY <1>1, <1>2, <2>4 DEF NamesOf, ObjectsOf
    <3>2. /\ SumOver(g, Mania!Names) + g.misses = Mania!NObjects(i, c)
          /\ g.misses <= MinOf(i.passed, c.n_objects)
      BY <1>1, <1>2, <1>5, <2>4, <3>1
    <3> QED
      BY <1>1, <1>2, <1>3, <2>4, <3>2, ManiaFullState
  <2> QED
    BY <1>4, <2>1, <2>2, <2>3, <2>4 DEF Modes
<1>6. fits => \A f \in Fields(b.mode) \ Osu!SliderParts : out.state[f] = g[f]
  BY <1>4, <1>5
<1> QED
  BY <1>1, <1>2, <1>3, <1>6, Zenon DEF KeepsFullStates

\* A complete report of a play that fits the map is rated exactly as it was
\* reported, in every mode and whatever else the builder was told.
THEOREM KeepsFullStatesHolds == Spec => []KeepsFullStates
BY PerformanceInvHolds, FullStatesAreGood, PTL

------------------------------------------------------------------------------
(* Attributes and conversions *)

\* The fields of a builder, which every call leaves in place
HasFields(b) ==
    b = [mode |-> b.mode, map |-> b.map, attrs |-> b.attrs, diff |-> b.diff,
         acc |-> b.acc, best |-> b.best, given |-> b.given]

\* A conversion needs a map, and there are no attributes beside one: this is
\* why attributes keep their mode, and why a calculation uses the settings of the map.
FieldsInv ==
    /\ HasFields(p)
    /\ p.map # None => p.attrs = None

\* The action of MapOrAttributes
Keeps ==
    /\ p.attrs # None => p'.attrs = p.attrs /\ p'.mode = p.mode
    /\ p'.mode # p.mode =>
            /\ p'.map.mode = p'.mode /\ p'.diff = p.diff
            /\ \A f \in Fields(p.mode) \cap Fields(p'.mode) : p'.given[f] = p.given[f]
    /\ out'.call \in {"mode_err", "convert_err"} => p' = p
    /\ p.map # None /\ p'.attrs # None => p'.attrs.diff = p.diff

LEMMA NewBuilderIs ==
    ASSUME NEW mode, NEW map, NEW attrs, map = None \/ attrs = None
    PROVE  LET b == NewBuilder(mode, map, attrs)
           IN  HasFields(b) /\ (b.map # None => b.attrs = None)
BY DEF NewBuilder, HasFields

LEMMA InitHasFields == Init => FieldsInv
<1> SUFFICES ASSUME Init PROVE FieldsInv
    OBVIOUS
<1>1. PICK mode \in Modes :
          \/ \E map \in Maps : p = NewBuilder(mode, map, None)
          \/ \E attrs : p = NewBuilder(mode, None, attrs)
    BY DEF Init
<1> QED
    BY <1>1, NewBuilderIs DEF FieldsInv

\* A setter changes neither the map nor the attributes nor the mode.
LEMMA SetterKeeps ==
    ASSUME FieldsInv, NEW b, Setter(b), HasFields(b),
           b.map = p.map, b.attrs = p.attrs, b.mode = p.mode
    PROVE  FieldsInv' /\ Keeps
<1>1. p' = b /\ out' = Nothing
    BY DEF Setter
<1>2. out'.call = "none"
    BY <1>1 DEF Nothing
<1> QED
    BY <1>1, <1>2 DEF FieldsInv, Keeps, HasFields

LEMMA UnchangedKeeps ==
    ASSUME FieldsInv, p' = p
    PROVE  FieldsInv' /\ Keeps
BY DEF FieldsInv, Keeps, HasFields

\* What a builder of another mode has from osu! for the fields of both
LEMMA ConvertedToKeeps ==
    ASSUME FieldsInv, NEW mode \in Modes, mode # p.mode, MayConvert(p, mode),
           NEW b, b = ConvertedTo(p, mode)
    PROVE  /\ HasFields(b)
           /\ b.mode = mode /\ b.map.mode = mode /\ b.diff = p.diff /\ b.attrs = None
           /\ \A f \in Fields(p.mode) \cap Fields(mode) : b.given[f] = p.given[f]
<1>1. p.mode = "osu" /\ p.map # None /\ p.attrs = None
    BY DEF MayConvert, FieldsInv
<1>2. mode \in {"taiko", "catch", "mania"}
    BY <1>1 DEF Modes
<1> DEFINE g == CASE mode = "taiko" -> Taiko!FromOsu(p.given)
                  [] mode = "catch" -> Catch!FromOsu(p.given)
                  [] mode = "mania" -> Mania!FromOsu(p.given)
           map == Converted(p.map, mode, p.diff.mods)
           best == IF mode = "catch" THEN TRUE ELSE p.best
<1>3. b = [mode |-> mode, map |-> map, attrs |-> None, diff |-> p.diff,
           acc |-> p.acc, best |-> best, given |-> g]
  <2> HIDE DEF g, map, best
  <2>1. b = [p EXCEPT !.mode = mode, !.given = g, !.map = map, !.best = best]
    BY DEF ConvertedTo, g, map, best
  <2> QED
    BY <1>1, <2>1 DEF FieldsInv, HasFields
<1>4. b.map.mode = mode
  <2>1. b.map = map
    BY <1>3
  <2> QED
    BY <2>1 DEF Converted
<1>5. b.given = g
  <2> HIDE DEF g, map, best
  <2> QED
    BY <1>3
<1>6. \A f \in Fields(p.mode) \cap Fields(mode) : b.given[f] = p.given[f]
  <2>1. CASE mode = "taiko"
    BY <2>1, <1>1, <1>5 DEF Fields, Osu!Fields, Osu!SliderParts, Taiko!Fields, Taiko!FromOsu
  <2>2. CASE mode = "catch"
    BY <2>2, <1>1, <1>5 DEF Fields, Osu!Fields, Osu!SliderParts, Catch!Fields, Catch!FromOsu
  <2>3. CASE mode = "mania"
    BY <2>3, <1>1, <1>5 DEF Fields, Osu!Fields, Osu!SliderParts, Mania!Fields, Mania!FromOsu
  <2> QED
    BY <1>2, <2>1, <2>2, <2>3
<1> QED
  <2> HIDE DEF g, map, best
  <2> QED
    BY <1>3, <1>4, <1>6 DEF HasFields

LEMMA NextKeeps == FieldsInv /\ [Next]_vars => FieldsInv' /\ Keeps
<1> SUFFICES ASSUME FieldsInv, [Next]_vars PROVE FieldsInv' /\ Keeps
    OBVIOUS
<1> USE DEF HasFields
<1>1. ASSUME NEW c \in FieldCalls, SetField(c[1], c[2]) PROVE FieldsInv' /\ Keeps
  <2> DEFINE b == IF c[1] \in Fields(p.mode) THEN [p EXCEPT !.given[c[1]] = c[2]] ELSE p
  <2>1. HasFields(b) /\ b.map = p.map /\ b.attrs = p.attrs /\ b.mode = p.mode
    BY DEF FieldsInv
  <2> QED
    BY <1>1, <2>1, SetterKeeps DEF SetField
<1>2. ASSUME NEW s \in StateCalls, SetState(s) PROVE FieldsInv' /\ Keeps
  <2> DEFINE b == [p EXCEPT !.given = [f \in Fields(p.mode) |-> s[f]]]
  <2>1. HasFields(b) /\ b.map = p.map /\ b.attrs = p.attrs /\ b.mode = p.mode
    BY DEF FieldsInv
  <2> QED
    BY <1>2, <2>1, SetterKeeps DEF SetState
<1>3. ASSUME NEW a \in AccCalls, SetAccuracy(a) PROVE FieldsInv' /\ Keeps
  <2> DEFINE b == [p EXCEPT !.acc = MinOf(MaxOf(a, 0), AccScale)]
  <2>1. HasFields(b) /\ b.map = p.map /\ b.attrs = p.attrs /\ b.mode = p.mode
    BY DEF FieldsInv
  <2> QED
    BY <1>3, <2>1, SetterKeeps DEF SetAccuracy
<1>4. ASSUME NEW best \in BOOLEAN, SetPriority(best) PROVE FieldsInv' /\ Keeps
  <2> DEFINE b == IF p.mode = "catch" THEN p ELSE [p EXCEPT !.best = best]
  <2>1. HasFields(b) /\ b.map = p.map /\ b.attrs = p.attrs /\ b.mode = p.mode
    BY DEF FieldsInv
  <2> QED
    BY <1>4, <2>1, SetterKeeps DEF SetPriority
<1>5. ASSUME NEW c \in SettingCalls, SetSetting(c[1], c[2]) PROVE FieldsInv' /\ Keeps
  <2> DEFINE b == IF c[1] \in Accepts(p.mode)
                  THEN [p EXCEPT !.diff = WithSetting(@, c[1], c[2])] ELSE p
  <2>1. HasFields(b) /\ b.map = p.map /\ b.attrs = p.attrs /\ b.mode = p.mode
    BY DEF FieldsInv
  <2> QED
    BY <1>5, <2>1, SetterKeeps DEF SetSetting
<1>6. ASSUME NEW i \in DiffCalls, SetDifficulty(i) PROVE FieldsInv' /\ Keeps
  <2> DEFINE b == [p EXCEPT !.diff = IntoDifficulty(i)]
  <2>1. HasFields(b) /\ b.map = p.map /\ b.attrs = p.attrs /\ b.mode = p.mode
    BY DEF FieldsInv
  <2> QED
    BY <1>6, <2>1, SetterKeeps DEF SetDifficulty
<1>7. ASSUME NEW mode \in Modes, TryMode(mode) PROVE FieldsInv' /\ Keeps
  <2>1. CASE mode # p.mode /\ MayConvert(p, mode)
    <3>1. p' = ConvertedTo(p, mode) /\ out'.call = "mode"
      BY <1>7, <2>1 DEF TryMode
    <3>2. p.attrs = None
      BY <2>1 DEF MayConvert, FieldsInv
    <3> QED
      BY <2>1, <3>1, <3>2, ConvertedToKeeps DEF FieldsInv, Keeps
  <2>2. CASE ~(mode # p.mode /\ MayConvert(p, mode))
    BY <1>7, <2>2, UnchangedKeeps DEF TryMode
  <2> QED
    BY <2>1, <2>2
<1>8. ASSUME GenerateState PROVE FieldsInv' /\ Keeps
  <2>1. CASE Fails(p)
    BY <1>8, <2>1, UnchangedKeeps DEF GenerateState
  <2>2. CASE ~Fails(p)
    <3>1. p' = AfterGenerate(p) /\ out'.call = "generate"
      BY <1>8, <2>2 DEF GenerateState
    <3>2. /\ HasFields(p') /\ p'.map = None /\ p'.mode = p.mode
          /\ p'.attrs = AttrsOf(p)
      BY <3>1 DEF AfterGenerate, FieldsInv
    <3>3. p.attrs # None => AttrsOf(p) = p.attrs
      BY DEF AttrsOf
    <3>4. p.attrs = None => AttrsOf(p).diff = p.diff
      BY DEF AttrsOf, Calculated
    <3> QED
      BY <3>1, <3>2, <3>3, <3>4 DEF FieldsInv, Keeps
  <2> QED
    BY <2>1, <2>2
<1>9. ASSUME Calculate PROVE FieldsInv' /\ Keeps
  BY <1>9, UnchangedKeeps DEF Calculate
<1>10. CASE UNCHANGED vars
  BY <1>10, UnchangedKeeps DEF vars
<1> QED
  BY <1>1, <1>2, <1>3, <1>4, <1>5, <1>6, <1>7, <1>8, <1>9, <1>10 DEF Next

\* generate_state replaces the map of a builder by attributes, which then stay
\* as they are, with their mode; a conversion happens to a map only and keeps
\* what both modes know; a call that fails changes nothing (MapOrAttrs,
\* try_mode, generate_state).
THEOREM MapOrAttributesHolds == Spec => MapOrAttributes
<1>1. Init => FieldsInv
    BY InitHasFields
<1>2. FieldsInv /\ [Next]_vars => FieldsInv'
    BY NextKeeps
<1>3. FieldsInv /\ [Next]_vars => [Keeps]_vars
    BY NextKeeps
<1> QED
    BY <1>1, <1>2, <1>3, PTL DEF Spec, MapOrAttributes, Keeps
=============================================================================
