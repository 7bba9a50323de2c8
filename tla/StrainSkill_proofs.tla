--------------------------- MODULE StrainSkill_proofs ---------------------------
(***************************************************************************)
(* For every list of difficulty objects that is ordered by time, every     *)
(* section length and every decay: the peaks of a skill are the maxima of  *)
(* its sections, and what is ranked are these peaks.                       *)
(*                                                                         *)
(* What a StrainsVec does is taken from StrainsVec_proofs: a push appends  *)
(* a value, and what is ranked is what was pushed.                         *)
(***************************************************************************)
EXTENDS StrainSkill, Counting_proofs, SequenceTheorems

P == INSTANCE StrainsVec_proofs WITH Values <- Nat, MaxLen <- 0, vec <- skill.strain_peaks

\* What is left of a strain is no negative number.
Decays == \A s, t \in Nat : Decay(s, t) \in Nat

------------------------------------------------------------------------------
(* The list of peaks *)

LEMMA Assumptions == P!ValuesAssumption
BY DEF P!ValuesAssumption

LEMMA SameOperators ==
    /\ Strains!Empty = P!Empty
    /\ \A v, x : Strains!Pushed(v, x) = P!Pushed(v, x)
    /\ \A v : Strains!IntoVec(v) = P!IntoVec(v)
<1>1. \A z, n : Strains!Entry(z, n) = P!Entry(z, n)
  BY DEF Strains!Entry, P!Entry
<1>2. \A v, x : Strains!Pushed(v, x) = P!Pushed(v, x)
  BY <1>1 DEF Strains!Pushed, P!Pushed
<1>3. \A s : Strains!FlattenSeq(s) = P!FlattenSeq(s)
  BY DEF Strains!FlattenSeq, P!FlattenSeq
<1>4. \A e : Strains!Written(e) = P!Written(e)
  BY DEF Strains!Written, P!Written
<1>5. \A v : Strains!IntoVec(v) = P!IntoVec(v)
  BY <1>3, <1>4 DEF Strains!IntoVec, P!IntoVec
<1> QED
  BY <1>2, <1>5 DEF Strains!Empty, P!Empty

LEMMA SameRanked == \A s : RankedPeaks(s) = P!Ranked(CurrentStrainPeaks(s))
<1>1. \A S : Strains!Cardinality(S) = P!Cardinality(S)
  BY DEF Strains!Cardinality, P!Cardinality, Strains!IsFiniteSet, P!IsFiniteSet
<1>2. \A s, i, e : Strains!InsertAt(s, i, e) = P!InsertAt(s, i, e)
  BY DEF Strains!InsertAt, P!InsertAt
<1>3. \A s, e : Strains!Inserted(s, e) = P!Inserted(s, e)
  BY <1>1, <1>2 DEF Strains!Inserted, P!Inserted
<1>4. \A s : Strains!Falling(s) = P!Falling(s)
  BY <1>3 DEF Strains!Falling, P!Falling
<1>5. \A v : Strains!Sorted(v) = P!Sorted(v)
  BY <1>4 DEF Strains!Sorted, P!Sorted
<1>6. \A s : Strains!FlattenSeq(s) = P!FlattenSeq(s)
  BY DEF Strains!FlattenSeq, P!FlattenSeq
<1>7. \A v : Strains!WithoutZeros(v) = P!WithoutZeros(v)
  BY <1>6 DEF Strains!WithoutZeros, P!WithoutZeros
<1>8. \A v : Strains!TransmuteIntoVec(v) = P!TransmuteIntoVec(v)
  BY DEF Strains!TransmuteIntoVec, P!TransmuteIntoVec
<1> QED
  BY <1>5, <1>7, <1>8 DEF RankedPeaks, P!Ranked

LEMMA SameHowOften == \A x, list : HowOften(x, list) = P!HowOften(x, list)
<1>1. \A S : Cardinality(S) = P!Cardinality(S)
  BY DEF Cardinality, P!Cardinality, IsFiniteSet, P!IsFiniteSet
<1> QED
  BY <1>1 DEF HowOften, P!HowOften

LEMMA PushAppends ==
    ASSUME NEW v, P!IsStrainsVec(v), NEW x \in Nat
    PROVE  /\ P!IsStrainsVec(Strains!Pushed(v, x))
           /\ P!IntoVec(Strains!Pushed(v, x)) = Append(P!IntoVec(v), x)
BY SameOperators, Assumptions, P!PushedAppends

LEMMA EmptyIsEmpty == P!IsStrainsVec(Strains!Empty) /\ P!IntoVec(Strains!Empty) = <<>>
<1>1. Strains!Empty = [inner |-> <<>>, len |-> 0, has_zero |-> FALSE]
  BY DEF Strains!Empty
<1>2. P!IsStrainsVec(Strains!Empty)
  BY <1>1 DEF P!IsStrainsVec, P!Entries
<1>3. P!IntoVec(Strains!Empty) = <<>>
  <2>1. P!IntoVec(Strains!Empty) = P!FlattenSeq(<<>>)
    BY <1>1 DEF P!IntoVec
  <2> QED
    BY <2>1, Assumptions, P!FlattenNothing
<1> QED
  BY <1>2, <1>3

------------------------------------------------------------------------------
(* Sections of time *)

\* Section c ends at c * SectionLength, and the section of a time is the first
\* that does not end before it.
LEMMA SectionIs ==
    ASSUME NEW t \in Nat, NEW c, c = CeilDiv(t, SectionLength)
    PROVE  /\ c \in Nat /\ c * SectionLength \in Nat
           /\ t <= c * SectionLength /\ c * SectionLength < t + SectionLength
<1>1. PICK d \in Nat \ {0} : d = SectionLength
  BY SectionAssumption
<1>2. PICK a \in Nat : a = t + d - 1
  OBVIOUS
<1>3. c = a \div d
  BY <1>1, <1>2 DEF CeilDiv
<1>4. c \in Int /\ d * c <= a /\ a < d * c + d
  BY <1>3, Quotient
<1>5. PICK m \in Int : m = d * c /\ m = c * d
  BY <1>4
<1>6. c < 0 => m + d <= 0
  <2>1. c < 0 => d * c + d <= d * 0
    BY <1>4, Multiples
  <2> QED
    BY <1>5, <2>1
<1>7. m <= a /\ a < m + d
  BY <1>4, <1>5
<1>8. c \in Nat /\ m \in Nat
  BY <1>2, <1>4, <1>6, <1>7
<1> QED
  BY <1>1, <1>2, <1>5, <1>7, <1>8

\* There is one such section.
LEMMA SectionUnique ==
    ASSUME NEW t \in Nat, NEW c \in Int, NEW m \in Int, m = c * SectionLength,
           t <= m, m < t + SectionLength
    PROVE  CeilDiv(t, SectionLength) = c
<1>1. PICK d \in Nat \ {0} : d = SectionLength
  BY SectionAssumption
<1>2. PICK b : b = CeilDiv(t, SectionLength)
  OBVIOUS
<1>3. b \in Nat /\ b * d \in Nat /\ t <= b * d /\ b * d < t + d
  BY <1>1, <1>2, SectionIs
<1>4. PICK n \in Int : n = b * d /\ n = d * b
  BY <1>3
<1>5. m = d * c
  BY <1>1
<1>6. b < c => n + d <= m
  BY <1>3, <1>4, <1>5, Multiples
<1>7. c < b => m + d <= n
  BY <1>3, <1>4, <1>5, Multiples
<1>8. t <= n /\ n < t + d /\ t <= m /\ m < t + d
  BY <1>1, <1>3, <1>4
<1> QED
  BY <1>2, <1>3, <1>6, <1>7, <1>8

\* Later times are in later sections,
LEMMA SectionsAreOrdered ==
    ASSUME NEW t \in Nat, NEW u \in Nat, t <= u
    PROVE  CeilDiv(t, SectionLength) <= CeilDiv(u, SectionLength)
<1>1. PICK d \in Nat \ {0} : d = SectionLength
  BY SectionAssumption
<1>2. PICK b, c : b = CeilDiv(t, SectionLength) /\ c = CeilDiv(u, SectionLength)
  OBVIOUS
<1>3. /\ b \in Nat /\ b * d \in Nat /\ b * d < t + d
      /\ c \in Nat /\ c * d \in Nat /\ u <= c * d
  BY <1>1, <1>2, SectionIs
<1>4. PICK m, n \in Int : m = b * d /\ m = d * b /\ n = c * d /\ n = d * c
  BY <1>3
<1>5. c < b => n + d <= m
  BY <1>3, <1>4, Multiples
<1>6. m < t + d /\ u <= n
  BY <1>3, <1>4
<1> QED
  BY <1>2, <1>3, <1>5, <1>6

\* and as many sections end before a time as the loop of process makes rounds.
LEMMA SectionsBetween ==
    ASSUME NEW t \in Nat, NEW m \in Nat
    PROVE  LET c == CeilDiv(t, SectionLength)
           IN  /\ m * SectionLength \in Nat
               /\ t <= m * SectionLength <=> c <= m
               /\ t > m * SectionLength => CeilDiv(t - m * SectionLength, SectionLength) = c - m
<1>1. PICK d \in Nat \ {0} : d = SectionLength
  BY SectionAssumption
<1>2. PICK c : c = CeilDiv(t, SectionLength)
  OBVIOUS
<1>3. c \in Nat /\ c * d \in Nat /\ t <= c * d /\ c * d < t + d
  BY <1>1, <1>2, SectionIs
<1>4. PICK n \in Int : n = c * d /\ n = d * c
  BY <1>3
<1>5. PICK e \in Int : e = m * d /\ e = d * m
  OBVIOUS
<1>6. e \in Nat
  <2>1. d * 0 <= d * m
    BY Multiples
  <2> QED
    BY <1>5, <2>1
<1>7. (c <= m => n <= e) /\ (m < c => e + d <= n)
  BY <1>3, <1>4, <1>5, Multiples
<1>8. t <= n /\ n < t + d
  BY <1>3, <1>4
<1>9. t <= e <=> c <= m
  BY <1>3, <1>6, <1>7, <1>8
<1>10. ASSUME t > e
       PROVE  CeilDiv(t - e, d) = c - m
  <2>1. PICK k \in Int : k = (c - m) * d
    BY <1>3
  <2>2. k = n - e
    BY <1>3, <1>4, <1>5, <2>1
  <2>3. t - e \in Nat /\ t - e <= k /\ k < (t - e) + d /\ c - m \in Int
    BY <1>3, <1>6, <1>8, <1>10, <2>2
  <2> QED
    BY <1>1, <2>1, <2>3, SectionUnique
<1> QED
  BY <1>1, <1>2, <1>5, <1>6, <1>9, <1>10

------------------------------------------------------------------------------
(* The strains of a section *)

\* The difficulty objects are ordered by time, and strains are numbers.
IsMap ==
    /\ objects \in Seq(DifficultyObject)
    /\ \A i, j \in DOMAIN objects : i < j => objects[i].start <= objects[j].start
    /\ Decays

\* The strain at an object comes from the strain at the one before it.
LEMMA StrainAtIs ==
    ASSUME IsMap
    PROVE  /\ StrainAt[0] = 0
           /\ \A j \in 0 .. Len(objects) : StrainAt[j] \in Nat
           /\ \A j \in 1 .. Len(objects) :
                /\ objects[j].start \in Nat /\ PrevStart(j) \in Nat /\ PrevStart(j) <= objects[j].start
                /\ j > 1 => PrevStart(j) = objects[j - 1].start
                /\ StrainAt[j] = Decay(StrainAt[j - 1], objects[j].start - PrevStart(j))
                                   + objects[j].value
<1>1. PICK n \in Nat : n = Len(objects) /\ DOMAIN objects = 1 .. n
                       /\ \A j \in 1 .. n : objects[j] \in DifficultyObject
  BY DEF IsMap
<1>2. \A j \in 1 .. n : /\ objects[j].start \in Nat /\ objects[j].value \in Nat
                        /\ PrevStart(j) \in Nat /\ PrevStart(j) <= objects[j].start
                        /\ j > 1 => PrevStart(j) = objects[j - 1].start
  <2>1. ASSUME NEW j \in 1 .. n
        PROVE  /\ objects[j].start \in Nat /\ objects[j].value \in Nat
               /\ PrevStart(j) \in Nat /\ PrevStart(j) <= objects[j].start
               /\ j > 1 => PrevStart(j) = objects[j - 1].start
    <3>1. objects[j].start \in Nat /\ objects[j].value \in Nat
      BY <1>1 DEF DifficultyObject
    <3>2. CASE j = 1
      BY <3>1, <3>2 DEF PrevStart
    <3>3. CASE j > 1
      <4>1. j - 1 \in 1 .. n /\ j - 1 < j
        BY <3>3
      <4>2. objects[j - 1].start \in Nat /\ objects[j - 1].start <= objects[j].start
        BY <1>1, <4>1 DEF DifficultyObject, IsMap
      <4>3. PrevStart(j) = objects[j - 1].start
        BY <3>3 DEF PrevStart
      <4> QED
        BY <3>1, <4>2, <4>3
    <3> QED
      BY <3>2, <3>3
  <2> QED
    BY <2>1
<1> DEFINE After(x, j) == Decay(x, objects[j].start - PrevStart(j)) + objects[j].value
           op == [x \in Nat |-> [j \in 1 .. n |-> After(x, j)]]
           s  == [j \in 1 .. n |-> j]
<1>3. ASSUME NEW x \in Nat, NEW j \in 1 .. n
      PROVE  After(x, j) \in Nat
  <2>1. objects[j].start - PrevStart(j) \in Nat /\ objects[j].value \in Nat
    BY <1>2
  <2>2. Decay(x, objects[j].start - PrevStart(j)) \in Nat
    BY <2>1 DEF IsMap, Decays
  <2> QED
    BY <2>1, <2>2
<1>4. PICK f : P!IsFolding(f, 0, op, s) /\ \A i \in 0 .. Len(s) : f[i] \in Nat
  <2>1. op \in [Nat -> [1 .. n -> Nat]] /\ s \in Seq(1 .. n) /\ 0 \in Nat
    BY <1>3
  <2> HIDE DEF op, s
  <2> QED
    BY <2>1, Assumptions, P!FoldingExists
<1> DEFINE IsStrain(g) == g = [j \in 0 .. n |-> IF j = 0 THEN 0 ELSE After(g[j - 1], j)]
<1>5. Len(s) = n /\ \A i \in 0 .. n : f[i] \in Nat
  BY <1>4
<1>6. f = [j \in 0 .. n |-> IF j = 0 THEN 0 ELSE op[f[j - 1]][s[j]]]
  BY <1>4, <1>5 DEF P!IsFolding
<1>7. IsStrain(f)
  <2>1. ASSUME NEW j \in 1 .. n
        PROVE  op[f[j - 1]][s[j]] = After(f[j - 1], j)
    <3>1. j - 1 \in 0 .. n /\ s[j] = j
      OBVIOUS
    <3>2. f[j - 1] \in Nat
      BY <1>5, <3>1
    <3> HIDE DEF s, After
    <3> QED
      BY <3>1, <3>2
  <2> HIDE DEF op, s, After
  <2>2. \A j \in 0 .. n : (IF j = 0 THEN 0 ELSE op[f[j - 1]][s[j]])
                            = (IF j = 0 THEN 0 ELSE After(f[j - 1], j))
    <3>1. \A j \in 0 .. n : j = 0 \/ j \in 1 .. n
      OBVIOUS
    <3> QED
      BY <2>1, <3>1
  <2> QED
    BY <1>6, <2>2
<1>8. StrainAt = CHOOSE g : IsStrain(g)
  BY <1>1 DEF StrainAt
<1>9. IsStrain(StrainAt)
  <2> HIDE DEF IsStrain
  <2> QED
    BY <1>7, <1>8
<1>10. /\ StrainAt[0] = 0
       /\ \A j \in 1 .. n : StrainAt[j] = After(StrainAt[j - 1], j)
  <2>1. PICK g : g = StrainAt
    OBVIOUS
  <2>2. g = [j \in 0 .. n |-> IF j = 0 THEN 0 ELSE After(g[j - 1], j)]
    BY <1>9, <2>1
  <2>3. g[0] = 0 /\ \A j \in 1 .. n : g[j] = After(g[j - 1], j)
    <3> HIDE DEF After
    <3> QED
      BY <2>2
  <2> QED
    BY <2>1, <2>3
<1>11. \A j \in 0 .. n : StrainAt[j] \in Nat
  <2> DEFINE T == {j \in 0 .. n : StrainAt[j] \notin Nat}
  <2>1. ASSUME T # {}
        PROVE  FALSE
    <3>1. PICK j \in T : \A i \in T : j <= i
      <4>1. T \in SUBSET Nat
        OBVIOUS
      <4> HIDE DEF T
      <4> QED
        BY <2>1, <4>1, LeastNatural
    <3>2. j \in 1 .. n /\ j - 1 \in 0 .. n /\ ~(j <= j - 1)
      BY <1>10, <3>1
    <3>3. StrainAt[j - 1] \in Nat
      BY <3>1, <3>2
    <3>4. StrainAt[j] \in Nat
      <4> HIDE DEF After
      <4> QED
        BY <1>3, <1>10, <3>2, <3>3
    <3> QED
      BY <3>1, <3>4
  <2> QED
    BY <2>1
<1> QED
  BY <1>1, <1>2, <1>10, <1>11

\* What PeakOf takes the maximum of
Earlier(c, k) == {j \in 1 .. k : SectionOf(j) < c}

BeginOf(c, k) ==
    IF Earlier(c, k) = {} THEN 0
    ELSE Decay(StrainAt[Max(Earlier(c, k))],
               (c - 1) * SectionLength - objects[Max(Earlier(c, k))].start)

StrainsOf(c, k) == {BeginOf(c, k)} \cup {StrainAt[j] : j \in {i \in 1 .. k : SectionOf(i) = c}}

LEMMA PeakIsMax == \A c, k : PeakOf(c, k) = Max(StrainsOf(c, k))
BY DEF PeakOf, StrainsOf, BeginOf, Earlier

IsMaximum(x, S) == S \subseteq Nat /\ x \in S /\ \A y \in S : x >= y

LEMMA MaximumIs ==
    ASSUME NEW S, NEW x, IsMaximum(x, S)
    PROVE  Max(S) = x /\ x \in Nat
<1>1. x \in S /\ \A y \in S : x >= y
  BY DEF IsMaximum
<1>2. Max(S) \in S /\ \A y \in S : Max(S) >= y
  BY <1>1 DEF Max
<1>3. Max(S) >= x /\ x >= Max(S) /\ Max(S) \in Nat /\ x \in Nat
  BY <1>1, <1>2 DEF IsMaximum
<1> QED
  BY <1>3

LEMMA SectionsOfObjects ==
    ASSUME IsMap
    PROVE  /\ \A j \in 1 .. Len(objects) : SectionOf(j) \in Nat
           /\ \A i, j \in 1 .. Len(objects) : i <= j => SectionOf(i) <= SectionOf(j)
<1>1. \A j \in 1 .. Len(objects) : objects[j].start \in Nat
  BY StrainAtIs
<1>2. \A j \in 1 .. Len(objects) : SectionOf(j) \in Nat
  BY <1>1, SectionIs DEF SectionOf
<1>3. ASSUME NEW i \in 1 .. Len(objects), NEW j \in 1 .. Len(objects), i <= j
      PROVE  SectionOf(i) <= SectionOf(j)
  <2>1. i = j \/ i < j
    BY <1>3
  <2>2. i \in DOMAIN objects /\ j \in DOMAIN objects
    BY DEF IsMap
  <2>3. objects[i].start <= objects[j].start
    BY <1>1, <2>1, <2>2 DEF IsMap
  <2> QED
    BY <1>1, <2>3, SectionsAreOrdered DEF SectionOf
<1> QED
  BY <1>2, <1>3

\* One object more changes its own section only.
LEMMA OneObjectMore ==
    ASSUME IsMap, NEW k \in Nat, k + 1 \in 1 .. Len(objects), NEW c \in Int
    PROVE  /\ c < SectionOf(k + 1) => StrainsOf(c, k + 1) = StrainsOf(c, k)
           /\ c = SectionOf(k + 1) =>
                StrainsOf(c, k + 1) = StrainsOf(c, k) \cup {StrainAt[k + 1]}
<1>1. SectionOf(k + 1) \in Nat
  BY SectionsOfObjects
<1>2. 1 .. k + 1 = (1 .. k) \cup {k + 1}
  OBVIOUS
<1>3. c <= SectionOf(k + 1) => Earlier(c, k + 1) = Earlier(c, k)
  BY <1>1, <1>2 DEF Earlier
<1>4. c <= SectionOf(k + 1) => BeginOf(c, k + 1) = BeginOf(c, k)
  BY <1>3 DEF BeginOf
<1>5. c < SectionOf(k + 1) =>
        {i \in 1 .. k + 1 : SectionOf(i) = c} = {i \in 1 .. k : SectionOf(i) = c}
  BY <1>1, <1>2
<1>6. c = SectionOf(k + 1) =>
        {i \in 1 .. k + 1 : SectionOf(i) = c} = {i \in 1 .. k : SectionOf(i) = c} \cup {k + 1}
  BY <1>1, <1>2
<1>7. c < SectionOf(k + 1) => c <= SectionOf(k + 1)
  BY <1>1
<1>8. c = SectionOf(k + 1) => c <= SectionOf(k + 1)
  BY <1>1
<1> QED
  BY <1>4, <1>5, <1>6, <1>7, <1>8 DEF StrainsOf

\* Behind the section of the last object a section has what is left at its begin.
LEMMA NoObjectYet ==
    ASSUME IsMap, NEW k \in 1 .. Len(objects), NEW c \in Nat, c > SectionOf(k)
    PROVE  /\ (c - 1) * SectionLength - objects[k].start \in Nat
           /\ IsMaximum(Decay(StrainAt[k], (c - 1) * SectionLength - objects[k].start),
                        StrainsOf(c, k))
<1>1. PICK x : x = Decay(StrainAt[k], (c - 1) * SectionLength - objects[k].start)
  OBVIOUS
<1>2. /\ k \in Nat /\ k \in 1 .. k /\ \A j \in 1 .. k : j \in 1 .. Len(objects) /\ j <= k
  OBVIOUS
<1>3. \A j \in 1 .. k : SectionOf(j) \in Nat /\ SectionOf(j) < c
  BY <1>2, SectionsOfObjects
<1>4. Earlier(c, k) = 1 .. k
  BY <1>3 DEF Earlier
<1>5. Max(1 .. k) = k
  <2>1. IsMaximum(k, 1 .. k)
    BY <1>2 DEF IsMaximum
  <2> QED
    BY <2>1, MaximumIs
<1>6. BeginOf(c, k) = x
  BY <1>1, <1>2, <1>4, <1>5 DEF BeginOf
<1>7. {i \in 1 .. k : SectionOf(i) = c} = {}
  BY <1>3
<1>8. StrainsOf(c, k) = {x}
  BY <1>6, <1>7 DEF StrainsOf
<1>9. (c - 1) * SectionLength - objects[k].start \in Nat
  <2>1. objects[k].start \in Nat
    BY StrainAtIs
  <2>2. c - 1 \in Nat /\ SectionOf(k) <= c - 1
    BY <1>2, <1>3
  <2>3. /\ (c - 1) * SectionLength \in Nat
        /\ objects[k].start <= (c - 1) * SectionLength
    BY <2>1, <2>2, SectionsBetween DEF SectionOf
  <2> QED
    BY <2>1, <2>3
<1>10. x \in Nat
  <2>1. k \in 0 .. Len(objects)
    BY DEF IsMap
  <2>2. StrainAt[k] \in Nat
    BY <2>1, StrainAtIs
  <2> QED
    BY <1>1, <1>9, <2>2 DEF IsMap, Decays
<1> QED
  BY <1>1, <1>8, <1>9, <1>10 DEF IsMaximum

------------------------------------------------------------------------------
(* The sections of a skill *)

Skills ==
    [current_strain : Nat, section_end : Nat, section_peak : Nat,
     strain_peaks : [inner : Seq([zero : BOOLEAN, n : Nat \ {0}]), len : Nat, has_zero : BOOLEAN],
     object_strains : Seq(Nat)]

\* The peaks of the sections from the first object to before section c
PeaksBefore(c, k) == [i \in 1 .. c - SectionOf(1) |-> PeakOf(SectionOf(1) + i - 1, k)]

\* Objects 1 .. k have been processed, and section c is under way.
IsInSection(s, k, c) ==
    /\ s \in Skills
    /\ s.current_strain = StrainAt[k]
    /\ s.section_end = c * SectionLength
    /\ IsMaximum(s.section_peak, StrainsOf(c, k))
    /\ P!IsStrainsVec(s.strain_peaks)
    /\ P!IntoVec(s.strain_peaks) = PeaksBefore(c, k)

\* One peak more
LEMMA PeaksBeforeAppend ==
    ASSUME NEW k, NEW c \in Nat, SectionOf(1) \in Nat, SectionOf(1) <= c
    PROVE  PeaksBefore(c + 1, k) = Append(PeaksBefore(c, k), PeakOf(c, k))
<1>1. PICK m \in Nat : m = SectionOf(1)
  OBVIOUS
<1>2. PICK n \in Nat : n = c - m
  BY <1>1
<1>3. PICK a, b : a = PeaksBefore(c, k) /\ b = PeaksBefore(c + 1, k)
  OBVIOUS
<1>4. PICK F : F = [i \in 1 .. n + 1 |-> PeakOf(m + i - 1, k)]
  OBVIOUS
<1>5. a = [i \in 1 .. n |-> F[i]] /\ b = F
  <2>1. c - m = n /\ (c + 1) - m = n + 1
    BY <1>1, <1>2
  <2>2. \A i \in 1 .. n : i \in 1 .. n + 1
    BY <1>2
  <2>3. a = [i \in 1 .. n |-> PeakOf(m + i - 1, k)]
    BY <1>1, <1>3, <2>1 DEF PeaksBefore
  <2>4. b = [i \in 1 .. n + 1 |-> PeakOf(m + i - 1, k)]
    BY <1>1, <1>3, <2>1 DEF PeaksBefore
  <2>5. \A i \in 1 .. n : F[i] = PeakOf(m + i - 1, k)
    BY <1>4, <2>2
  <2> QED
    BY <1>4, <2>3, <2>4, <2>5
<1>6. F[n + 1] = PeakOf(c, k)
  <2>1. m + (n + 1) - 1 = c /\ n + 1 \in 1 .. n + 1
    BY <1>1, <1>2
  <2>2. F[n + 1] = PeakOf(m + (n + 1) - 1, k)
    BY <1>4, <2>1
  <2> QED
    BY <2>1, <2>2
<1>7. b = Append(a, F[n + 1])
  <2>1. PICK X : X = {F[i] : i \in 1 .. n + 1}
    OBVIOUS
  <2>2. a \in Seq(X) /\ Len(a) = n /\ F[n + 1] \in X
    BY <1>5, <2>1
  <2>3. b \in Seq(X) /\ Len(b) = n + 1
    <3>1. F \in [1 .. n + 1 -> X] /\ n + 1 \in Nat
      BY <1>4, <2>1
    <3> QED
      BY <1>5, <3>1
  <2>4. /\ Append(a, F[n + 1]) \in Seq(X) /\ Len(Append(a, F[n + 1])) = n + 1
        /\ Append(a, F[n + 1])[n + 1] = F[n + 1]
        /\ \A i \in 1 .. n : Append(a, F[n + 1])[i] = a[i]
    BY <2>2, AppendProperties
  <2>5. \A i \in 1 .. n + 1 : b[i] = Append(a, F[n + 1])[i]
    <3>1. \A i \in 1 .. n + 1 : i \in 1 .. n \/ i = n + 1
      BY <1>2
    <3>2. \A i \in 1 .. n : a[i] = F[i]
      BY <1>5
    <3> QED
      BY <1>5, <2>4, <3>1, <3>2
  <2> QED
    BY <2>3, <2>4, <2>5, SeqEqual
<1> QED
  BY <1>3, <1>6, <1>7

\* The lists of peaks behind the rounds of the loop of process
IsLoop(peaks, n, base, peak, initial) ==
    peaks = CHOOSE f : f = [i \in 0 .. n |->
        IF i = 0 THEN base
        ELSE Strains!Pushed(f[i - 1], IF i = 1 THEN peak ELSE initial[i - 1])]

PushesPeaks(peaks, n, base, peak, initial) ==
    /\ peaks[0] = base
    /\ \A i \in 0 .. n : P!IsStrainsVec(peaks[i])
    /\ \A i \in 1 .. n : P!IntoVec(peaks[i]) = Append(P!IntoVec(peaks[i - 1]),
                                                      IF i = 1 THEN peak ELSE initial[i - 1])

\* The loop of process pushes the peak of every section that ends.
LEMMA LoopPushes ==
    ASSUME NEW n \in Nat, NEW base, P!IsStrainsVec(base), NEW peak \in Nat,
           NEW initial \in [1 .. n -> Nat], NEW peaks, IsLoop(peaks, n, base, peak, initial)
    PROVE  PushesPeaks(peaks, n, base, peak, initial)
<1> DEFINE saved == [i \in 1 .. n |-> IF i = 1 THEN peak ELSE initial[i - 1]]
<1>0. /\ \A i \in 1 .. n : saved[i] = IF i = 1 THEN peak ELSE initial[i - 1]
      /\ saved \in [1 .. n -> Nat]
  <2>1. \A i \in 1 .. n : i = 1 \/ i - 1 \in 1 .. n
    OBVIOUS
  <2> QED
    BY <2>1
<1> HIDE DEF saved
<1> DEFINE Vecs == {v \in [inner : Seq(P!Entries), len : Nat, has_zero : BOOLEAN] :
                        P!IsStrainsVec(v)}
           op == [v \in Vecs |-> [x \in Nat |-> Strains!Pushed(v, x)]]
           Loop(f) == f = [i \in 0 .. n |->
                IF i = 0 THEN base
                ELSE Strains!Pushed(f[i - 1], IF i = 1 THEN peak ELSE initial[i - 1])]
<1>1. \A v : P!IsStrainsVec(v) <=> v \in Vecs
  BY DEF P!IsStrainsVec
<1>2. op \in [Vecs -> [Nat -> Vecs]]
  <2>1. ASSUME NEW v \in Vecs, NEW x \in Nat
        PROVE  Strains!Pushed(v, x) \in Vecs
    BY <1>1, PushAppends
  <2> HIDE DEF Vecs
  <2> QED
    BY <2>1
<1>3. PICK f : P!IsFolding(f, base, op, saved) /\ \A i \in 0 .. Len(saved) : f[i] \in Vecs
  <2>1. saved \in Seq(Nat) /\ base \in Vecs
    BY <1>0, <1>1
  <2> HIDE DEF Vecs, op
  <2> QED
    BY <1>2, <2>1, Assumptions, P!FoldingExists
<1>4. Len(saved) = n
  BY <1>0
<1>5. f = [i \in 0 .. n |-> IF i = 0 THEN base ELSE op[f[i - 1]][saved[i]]]
  BY <1>3, <1>4 DEF P!IsFolding
<1>6. \A i \in 1 .. n : op[f[i - 1]][saved[i]] = Strains!Pushed(f[i - 1], saved[i])
  <2>1. ASSUME NEW i \in 1 .. n
        PROVE  op[f[i - 1]][saved[i]] = Strains!Pushed(f[i - 1], saved[i])
    <3>1. i - 1 \in 0 .. n /\ saved[i] \in Nat
      BY <1>0
    <3>2. f[i - 1] \in Vecs
      BY <1>3, <1>4, <3>1
    <3> HIDE DEF Vecs
    <3> QED
      BY <3>1, <3>2
  <2> QED
    BY <2>1
<1>7. Loop(f)
  <2> DEFINE A(i) == IF i = 0 THEN base ELSE op[f[i - 1]][saved[i]]
             B(i) == IF i = 0 THEN base
                     ELSE Strains!Pushed(f[i - 1], IF i = 1 THEN peak ELSE initial[i - 1])
  <2>1. ASSUME NEW i \in 0 .. n
        PROVE  A(i) = B(i)
    <3> HIDE DEF op, Vecs
    <3>1. CASE i = 0
      BY <3>1
    <3>2. CASE i # 0
      <4>1. i \in 1 .. n
        BY <3>2
      <4>2. A(i) = op[f[i - 1]][saved[i]]
        BY <3>2
      <4>3. B(i) = Strains!Pushed(f[i - 1], saved[i])
        BY <1>0, <3>2, <4>1
      <4>4. op[f[i - 1]][saved[i]] = Strains!Pushed(f[i - 1], saved[i])
        BY <1>6, <4>1
      <4> HIDE DEF A, B
      <4> QED
        BY <4>2, <4>3, <4>4, Zenon
    <3> QED
      BY <3>1, <3>2
  <2>2. f = [i \in 0 .. n |-> A(i)]
    BY <1>5
  <2>3. f = [i \in 0 .. n |-> B(i)]
    <3> HIDE DEF A, B
    <3> QED
      BY <2>1, <2>2
  <2> QED
    BY <2>3
<1>8. Loop(peaks)
  <2>1. peaks = CHOOSE g : Loop(g)
    BY DEF IsLoop
  <2> HIDE DEF Loop
  <2> QED
    BY <1>7, <2>1
<1>9. peaks[0] = base /\ \A i \in 1 .. n : peaks[i] = Strains!Pushed(peaks[i - 1], saved[i])
  <2>1. PICK g : g = peaks
    OBVIOUS
  <2>2. g = [i \in 0 .. n |->
                IF i = 0 THEN base
                ELSE Strains!Pushed(g[i - 1], IF i = 1 THEN peak ELSE initial[i - 1])]
    BY <1>8, <2>1
  <2>3. /\ g[0] = base
        /\ \A i \in 1 .. n :
                g[i] = Strains!Pushed(g[i - 1], IF i = 1 THEN peak ELSE initial[i - 1])
    BY <2>2
  <2>4. \A i \in 1 .. n : g[i] = Strains!Pushed(g[i - 1], saved[i])
    BY <1>0, <2>3
  <2> QED
    BY <2>1, <2>3, <2>4
<1>10. \A i \in 0 .. n : P!IsStrainsVec(peaks[i])
  <2> DEFINE T == {i \in 0 .. n : ~P!IsStrainsVec(peaks[i])}
  <2>1. ASSUME T # {}
        PROVE  FALSE
    <3>1. PICK j \in T : \A i \in T : j <= i
      <4>1. T \in SUBSET Nat
        OBVIOUS
      <4> HIDE DEF T
      <4> QED
        BY <2>1, <4>1, LeastNatural
    <3>2. j \in 1 .. n /\ j - 1 \in 0 .. n /\ ~(j <= j - 1)
      BY <1>9, <3>1
    <3>3. P!IsStrainsVec(peaks[j - 1]) /\ saved[j] \in Nat
      BY <1>0, <3>1, <3>2
    <3>4. P!IsStrainsVec(peaks[j])
      BY <1>9, <3>2, <3>3, PushAppends
    <3> QED
      BY <3>1, <3>4
  <2> QED
    BY <2>1
<1>11. ASSUME NEW i \in 1 .. n
       PROVE  P!IntoVec(peaks[i]) = Append(P!IntoVec(peaks[i - 1]), saved[i])
  <2>1. i - 1 \in 0 .. n /\ saved[i] \in Nat
    BY <1>0
  <2>2. P!IsStrainsVec(peaks[i - 1])
    BY <1>10, <2>1
  <2> QED
    BY <1>9, <2>1, <2>2, PushAppends
<1> QED
  BY <1>0, <1>9, <1>10, <1>11 DEF PushesPeaks

\* The sections before the one of the next object have the peaks of the objects
\* seen so far.
LEMMA PassesSections ==
    ASSUME IsMap, NEW k \in 1 .. Len(objects), k + 1 \in 1 .. Len(objects),
           NEW s, IsInSection(s, k, SectionOf(k))
    PROVE  IsInSection(PassSections(s, k + 1), k, SectionOf(k + 1))
<1>1. PICK m, c \in Nat : m = SectionOf(k) /\ c = SectionOf(k + 1)
  BY SectionsOfObjects
<1>2. PICK first \in Nat : first = SectionOf(1) /\ first <= m /\ m <= c
  <2>1. 1 \in 1 .. Len(objects) /\ 1 <= k /\ k <= k + 1
    BY DEF IsMap
  <2> QED
    BY <1>1, <2>1, SectionsOfObjects
<1>3. PICK t, u \in Nat : t = objects[k + 1].start /\ u = objects[k].start
  BY StrainAtIs
<1>4. PICK cs, se, sp, vec, os :
        /\ s = [current_strain |-> cs, section_end |-> se, section_peak |-> sp,
                strain_peaks |-> vec, object_strains |-> os]
        /\ s.current_strain = cs /\ s.section_end = se /\ s.section_peak = sp
        /\ s.strain_peaks = vec /\ s.object_strains = os
  BY DEF IsInSection, Skills
<1>5. /\ cs = StrainAt[k] /\ se = m * SectionLength
      /\ IsMaximum(sp, StrainsOf(m, k))
      /\ P!IsStrainsVec(vec) /\ P!IntoVec(vec) = PeaksBefore(m, k)
      /\ cs \in Nat /\ se \in Nat /\ sp \in Nat /\ os \in Seq(Nat) /\ s \in Skills
  BY <1>1, <1>4 DEF IsInSection, Skills
<1>6. /\ t <= se <=> c <= m
      /\ t > se => CeilDiv(t - se, SectionLength) = c - m
  BY <1>1, <1>3, <1>5, SectionsBetween DEF SectionOf
<1> DEFINE n == SectionsPassed(s, k + 1)
<1>8. n = c - m /\ n \in Nat
  <2>1. n = IF t <= se THEN 0 ELSE CeilDiv(t - se, SectionLength)
    BY <1>3, <1>4 DEF SectionsPassed
  <2>2. CASE t <= se
    BY <1>1, <1>2, <1>6, <2>1, <2>2
  <2>3. CASE ~(t <= se)
    <3>1. t > se
      BY <1>3, <1>5, <2>3
    <3> QED
      BY <1>2, <1>6, <2>1, <2>3, <3>1
  <2> QED
    BY <2>2, <2>3
<1>9. CASE n = 0
  <2>1. PassSections(s, k + 1) = s
    BY <1>9 DEF PassSections
  <2>2. c = m
    BY <1>8, <1>9
  <2> QED
    BY <1>1, <2>1, <2>2
<1>10. CASE n > 0
  <2> DEFINE initial == [i \in 1 .. n |->
                CalculateInitialStrain(s, s.section_end + (i - 1) * SectionLength, k + 1)]
             loop == CHOOSE f : f = [i \in 0 .. n |->
                IF i = 0 THEN s.strain_peaks
                ELSE Strains!Pushed(f[i - 1], IF i = 1 THEN s.section_peak ELSE initial[i - 1])]
  <2>1. PassSections(s, k + 1) = [s EXCEPT !.strain_peaks = loop[n],
                                           !.section_peak = initial[n],
                                           !.section_end  = @ + n * SectionLength]
    <3>1. n # 0
      BY <1>8, <1>10
    <3> QED
      BY <3>1 DEF PassSections
  <2>2. PICK peaks : peaks = loop
    OBVIOUS
  <2>3. IsLoop(peaks, n, s.strain_peaks, s.section_peak, initial)
    BY <2>2, Zenon DEF IsLoop
  <2>4. PassSections(s, k + 1) = [s EXCEPT !.strain_peaks = peaks[n],
                                           !.section_peak = initial[n],
                                           !.section_end  = @ + n * SectionLength]
    BY <2>1, <2>2, Zenon
  <2> HIDE DEF n, loop
  <2>5. /\ n \in 1 .. n
        /\ \A i \in 1 .. n : initial[i] = CalculateInitialStrain(s,
                                s.section_end + (i - 1) * SectionLength, k + 1)
    BY <1>8, <1>10
  <2> HIDE DEF initial
  <2>6. \A i \in 1 .. n : IsMaximum(initial[i], StrainsOf(m + i, k))
    <3>1. ASSUME NEW i \in 1 .. n
          PROVE  IsMaximum(initial[i], StrainsOf(m + i, k))
      <4>1. PrevStart(k + 1) = u
        <5>1. k + 1 > 1 /\ (k + 1) - 1 = k
          BY DEF IsMap
        <5> QED
          BY <1>3, <5>1, StrainAtIs
      <4>2. se + (i - 1) * SectionLength = ((m + i) - 1) * SectionLength
        <5>1. PICK d \in Nat : d = SectionLength
          BY SectionAssumption
        <5>2. PICK a \in Int : a = i - 1
          BY <1>8
        <5>3. m * d + a * d = (m + a) * d
          BY ONLY m \in Nat, a \in Int, d \in Nat
        <5>4. (m + i) - 1 = m + a
          BY <1>8, <5>2
        <5> HIDE DEF n
        <5> QED
          BY <1>5, <5>1, <5>2, <5>3, <5>4
      <4>3. initial[i] = Decay(StrainAt[k], ((m + i) - 1) * SectionLength - objects[k].start)
        BY <1>3, <1>4, <1>5, <2>5, <4>1, <4>2 DEF CalculateInitialStrain
      <4>4. m + i \in Nat /\ m + i > SectionOf(k)
        BY <1>1, <1>8
      <4> QED
        BY <4>3, <4>4, NoObjectYet
    <3> QED
      BY <3>1
  <2>7. initial \in [1 .. n -> Nat]
    <3>1. \A i \in 1 .. n : initial[i] \in Nat
      BY <2>6, MaximumIs
    <3> QED
      BY <3>1 DEF initial
  <2> DEFINE Saved(i) == IF i = 1 THEN sp ELSE initial[i - 1]
  <2>8. ASSUME NEW i \in 1 .. n
        PROVE  Saved(i) = PeakOf(m + i - 1, k)
    <3>1. CASE i = 1
      <4>1. m + i - 1 = m
        BY <1>1, <3>1
      <4> QED
        BY <1>5, <3>1, <4>1, MaximumIs, PeakIsMax
    <3>2. CASE i > 1
      <4>1. i - 1 \in 1 .. n /\ m + (i - 1) = m + i - 1 /\ i # 1
        BY <1>1, <1>8, <3>2
      <4>2. IsMaximum(initial[i - 1], StrainsOf(m + i - 1, k))
        BY <2>6, <4>1
      <4> QED
        BY <4>1, <4>2, MaximumIs, PeakIsMax
    <3>3. i = 1 \/ i > 1
      BY <1>8
    <3> QED
      BY <3>1, <3>2, <3>3
  <2>9. /\ peaks[0] = vec
        /\ \A i \in 0 .. n : P!IsStrainsVec(peaks[i])
        /\ \A i \in 1 .. n : P!IntoVec(peaks[i]) = Append(P!IntoVec(peaks[i - 1]), Saved(i))
    <3>1. IsLoop(peaks, n, vec, sp, initial)
      BY <1>4, <2>3
    <3>2. n \in Nat /\ P!IsStrainsVec(vec) /\ sp \in Nat
      BY <1>5, <1>8
    <3>3. PushesPeaks(peaks, n, vec, sp, initial)
      BY <2>7, <3>1, <3>2, LoopPushes
    <3> QED
      BY <3>3 DEF PushesPeaks
  <2> HIDE DEF Saved
  <2>10. \A i \in 0 .. n : P!IntoVec(peaks[i]) = PeaksBefore(m + i, k)
    <3> DEFINE T == {i \in 0 .. n : P!IntoVec(peaks[i]) # PeaksBefore(m + i, k)}
    <3>1. ASSUME T # {}
          PROVE  FALSE
      <4>1. PICK i \in T : \A j \in T : i <= j
        <5>1. T \in SUBSET Nat
          OBVIOUS
        <5> HIDE DEF T
        <5> QED
          BY <3>1, <5>1, LeastNatural
      <4>2. i # 0
        <5>1. m + 0 = m
          BY <1>1
        <5> QED
          BY <1>5, <2>9, <4>1, <5>1
      <4>3. /\ i \in 1 .. n /\ i - 1 \in 0 .. n /\ ~(i <= i - 1)
            /\ m + i - 1 \in Nat /\ first <= m + i - 1
            /\ m + (i - 1) = m + i - 1 /\ (m + i - 1) + 1 = m + i
        <5>1. i \in 0 .. n
          BY <4>1
        <5>2. n \in Nat /\ m \in Nat /\ first \in Nat /\ first <= m
          BY <1>2, <1>8
        <5> HIDE DEF T
        <5> QED
          BY ONLY <4>2, <5>1, <5>2
      <4>4. P!IntoVec(peaks[i - 1]) = PeaksBefore(m + i - 1, k)
        BY <4>1, <4>3
      <4>5. P!IntoVec(peaks[i]) = Append(PeaksBefore(m + i - 1, k), PeakOf(m + i - 1, k))
        BY <2>8, <2>9, <4>3, <4>4
      <4>6. PeaksBefore((m + i - 1) + 1, k)
                = Append(PeaksBefore(m + i - 1, k), PeakOf(m + i - 1, k))
        BY <1>2, <4>3, PeaksBeforeAppend
      <4> QED
        BY <4>1, <4>3, <4>5, <4>6
    <3> QED
      BY <3>1
  <2>11. PICK v, q, e : v = peaks[n] /\ q = initial[n] /\ e = se + n * SectionLength
    OBVIOUS
  <2>12. /\ m + n = c /\ e = c * SectionLength /\ e \in Nat
    <3>1. PICK d \in Nat : d = SectionLength
      BY SectionAssumption
    <3>2. m + n = c /\ n \in Nat
      BY <1>1, <1>8
    <3>3. e = c * d
      BY <1>1, <1>5, <2>11, <3>1, <3>2
    <3>4. c * SectionLength \in Nat
      BY <1>1, <1>3, SectionsBetween
    <3> QED
      BY <3>1, <3>2, <3>3, <3>4
  <2>13. PassSections(s, k + 1) = [current_strain |-> cs, section_end |-> e,
                section_peak |-> q, strain_peaks |-> v, object_strains |-> os]
    BY <1>4, <2>4, <2>11
  <2>14. /\ IsMaximum(q, StrainsOf(c, k)) /\ q \in Nat
         /\ P!IsStrainsVec(v) /\ P!IntoVec(v) = PeaksBefore(c, k)
    <3>1. n \in 0 .. n
      BY <1>8
    <3> QED
      BY <2>5, <2>6, <2>9, <2>10, <2>11, <2>12, <3>1, MaximumIs
  <2>15. v \in [inner : Seq([zero : BOOLEAN, n : Nat \ {0}]), len : Nat, has_zero : BOOLEAN]
    BY <2>14 DEF P!IsStrainsVec, P!Entries
  <2>16. PICK r : r = PassSections(s, k + 1)
    OBVIOUS
  <2>17. /\ r.current_strain = cs /\ r.section_end = e /\ r.section_peak = q
         /\ r.strain_peaks = v
    BY <2>13, <2>16
  <2>18. r \in Skills
    <3>1. cs \in Nat /\ e \in Nat /\ q \in Nat /\ os \in Seq(Nat)
      BY <1>5, <2>12, <2>14
    <3>2. PICK X, Y : /\ X = [inner : Seq([zero : BOOLEAN, n : Nat \ {0}]), len : Nat,
                               has_zero : BOOLEAN]
                      /\ Y = Seq(Nat)
      OBVIOUS
    <3>3. v \in X /\ os \in Y
      BY <2>15, <3>1, <3>2
    <3>4. r \in [current_strain : Nat, section_end : Nat, section_peak : Nat,
                 strain_peaks : X, object_strains : Y]
      BY ONLY <2>13, <2>16, <3>1, <3>3
    <3> QED
      BY <3>2, <3>4 DEF Skills
  <2>19. IsInSection(r, k, c)
    BY <1>5, <2>12, <2>14, <2>17, <2>18 DEF IsInSection
  <2> QED
    BY <1>1, <2>16, <2>19
<1> QED
  BY <1>8, <1>9, <1>10

\* The first object finds no section to pass.
LEMMA PassesNone ==
    ASSUME IsMap, 1 \in 1 .. Len(objects)
    PROVE  IsInSection(PassSections(BeginAt(NewSkill, 1), 1), 0, SectionOf(1))
<1>1. PICK c \in Nat : c = SectionOf(1)
  BY SectionsOfObjects
<1>2. PICK t \in Nat : t = objects[1].start
  BY StrainAtIs
<1>3. PICK e \in Nat : e = c * SectionLength /\ t <= e
  BY <1>1, <1>2, SectionIs DEF SectionOf
<1>4. PICK v : v = Strains!Empty
  OBVIOUS
<1>5. PICK s : s = [current_strain |-> 0, section_end |-> e, section_peak |-> 0,
                    strain_peaks |-> v, object_strains |-> <<>>]
  OBVIOUS
<1>6. BeginAt(NewSkill, 1) = s
  BY <1>1, <1>3, <1>4, <1>5 DEF BeginAt, NewSkill, SectionOf
<1>7. PassSections(s, 1) = s
  <2>1. s.section_end = e
    BY <1>5
  <2>2. SectionsPassed(s, 1) = 0
    BY <1>2, <1>3, <2>1 DEF SectionsPassed
  <2> QED
    BY <2>2 DEF PassSections
<1>8. P!IsStrainsVec(v) /\ P!IntoVec(v) = <<>>
  BY <1>4, EmptyIsEmpty
<1>9. PeaksBefore(c, 0) = <<>>
  <2>1. c - c = 0 /\ 1 .. 0 = {}
    BY <1>1
  <2> QED
    BY <1>1, <2>1 DEF PeaksBefore
<1>10. IsMaximum(0, StrainsOf(c, 0))
  <2>1. 1 .. 0 = {}
    OBVIOUS
  <2>2. Earlier(c, 0) = {} /\ {i \in 1 .. 0 : SectionOf(i) = c} = {}
    BY <2>1 DEF Earlier
  <2>3. StrainsOf(c, 0) = {0}
    BY <2>2 DEF StrainsOf, BeginOf
  <2> QED
    BY <2>3 DEF IsMaximum
<1>11. s \in Skills
  <2>1. v \in [inner : Seq([zero : BOOLEAN, n : Nat \ {0}]), len : Nat, has_zero : BOOLEAN]
    BY <1>8 DEF P!IsStrainsVec, P!Entries
  <2>2. <<>> \in Seq(Nat)
    OBVIOUS
  <2> QED
    BY <1>5, <2>1, <2>2 DEF Skills
<1>12. StrainAt[0] = 0
  BY StrainAtIs
<1>13. IsInSection(s, 0, c)
  BY <1>3, <1>5, <1>8, <1>9, <1>10, <1>11, <1>12 DEF IsInSection
<1> QED
  BY <1>1, <1>6, <1>7, <1>13

\* Then the strain at the object counts for its section.
LEMMA AddsStrain ==
    ASSUME IsMap, NEW k \in Nat, k + 1 \in 1 .. Len(objects),
           NEW t, IsInSection(t, k, SectionOf(k + 1)), NEW s,
           s = LET strain == StrainValueAt(t, k + 1)
               IN  [t EXCEPT !.current_strain = strain,
                             !.section_peak   = Max({strain, @}),
                             !.object_strains = Append(@, strain)]
    PROVE  IsInSection(s, k + 1, SectionOf(k + 1))
<1>1. PICK c \in Nat : c = SectionOf(k + 1)
  BY SectionsOfObjects
<1>2. PICK cs, se, sp, vec, os :
        /\ t = [current_strain |-> cs, section_end |-> se, section_peak |-> sp,
                strain_peaks |-> vec, object_strains |-> os]
        /\ t.current_strain = cs /\ t.section_end = se /\ t.section_peak = sp
        /\ t.strain_peaks = vec /\ t.object_strains = os
  BY DEF IsInSection, Skills
<1>3. /\ cs = StrainAt[k] /\ se = c * SectionLength
      /\ IsMaximum(sp, StrainsOf(c, k))
      /\ P!IsStrainsVec(vec) /\ P!IntoVec(vec) = PeaksBefore(c, k)
      /\ cs \in Nat /\ se \in Nat /\ sp \in Nat /\ os \in Seq(Nat)
      /\ vec \in [inner : Seq([zero : BOOLEAN, n : Nat \ {0}]), len : Nat, has_zero : BOOLEAN]
  BY <1>1, <1>2 DEF IsInSection, Skills
<1>4. PICK x : x = StrainValueAt(t, k + 1)
  OBVIOUS
<1>5. x = StrainAt[k + 1] /\ x \in Nat
  <2>1. k + 1 \in 0 .. Len(objects) /\ (k + 1) - 1 = k
    BY DEF IsMap
  <2>2. x = Decay(StrainAt[k], objects[k + 1].start - PrevStart(k + 1)) + objects[k + 1].value
    BY <1>2, <1>3, <1>4 DEF StrainValueAt
  <2> QED
    BY <2>1, <2>2, StrainAtIs
<1>6. PICK h : h = Max({x, sp})
  OBVIOUS
<1>7. h = (IF x >= sp THEN x ELSE sp) /\ h \in Nat
  <2>1. IsMaximum(IF x >= sp THEN x ELSE sp, {x, sp})
    BY <1>3, <1>5 DEF IsMaximum
  <2> QED
    BY <1>3, <1>5, <1>6, <2>1, MaximumIs
<1>8. s = [current_strain |-> x, section_end |-> se, section_peak |-> h,
           strain_peaks |-> vec, object_strains |-> Append(os, x)]
  BY <1>2, <1>4, <1>6
<1>9. IsMaximum(h, StrainsOf(c, k + 1))
  <2>1. StrainsOf(c, k + 1) = StrainsOf(c, k) \cup {x}
    BY <1>1, <1>5, OneObjectMore
  <2>2. StrainsOf(c, k) \subseteq Nat /\ sp \in StrainsOf(c, k) /\ \A y \in StrainsOf(c, k) : sp >= y
    BY <1>3 DEF IsMaximum
  <2>3. \A y \in StrainsOf(c, k) : y \in Nat /\ h >= y
    BY <1>3, <1>5, <1>7, <2>2
  <2>4. h >= x
    BY <1>3, <1>5, <1>7
  <2> QED
    BY <1>5, <1>7, <2>1, <2>2, <2>3, <2>4 DEF IsMaximum
<1>10. PeaksBefore(c, k + 1) = PeaksBefore(c, k)
  <2>1. PICK m \in Nat : m = SectionOf(1)
    <3>1. 1 \in 1 .. Len(objects)
      BY DEF IsMap
    <3> QED
      BY <3>1, SectionsOfObjects
  <2>2. ASSUME NEW i \in 1 .. c - m
        PROVE  PeakOf(m + i - 1, k + 1) = PeakOf(m + i - 1, k)
    <3>1. m + i - 1 \in Int /\ m + i - 1 < SectionOf(k + 1)
      BY <1>1, <2>1
    <3>2. StrainsOf(m + i - 1, k + 1) = StrainsOf(m + i - 1, k)
      BY <3>1, OneObjectMore
    <3> QED
      BY <3>2, PeakIsMax
  <2> QED
    BY <2>1, <2>2 DEF PeaksBefore
<1>11. PICK list \in Seq(Nat) : list = Append(os, x)
  <2>1. Append(os, x) \in Seq(Nat)
    BY <1>3, <1>5
  <2> QED
    BY <2>1
<1>12. s = [current_strain |-> x, section_end |-> se, section_peak |-> h,
            strain_peaks |-> vec, object_strains |-> list]
  BY <1>8, <1>11
<1>13. s \in Skills
  BY <1>3, <1>5, <1>7, <1>12 DEF Skills
<1>14. /\ s.current_strain = x /\ s.section_end = se /\ s.section_peak = h
       /\ s.strain_peaks = vec
  <2> DEFINE w == [current_strain |-> x, section_end |-> se, section_peak |-> h,
                   strain_peaks |-> vec, object_strains |-> list]
  <2>1. /\ w.current_strain = x /\ w.section_end = se /\ w.section_peak = h
        /\ w.strain_peaks = vec
    OBVIOUS
  <2> QED
    BY <1>12, <2>1, Zenon
<1> QED
  BY <1>1, <1>3, <1>5, <1>9, <1>10, <1>13, <1>14 DEF IsInSection

------------------------------------------------------------------------------
(* The invariant *)

\* After the first object, the skill is in the section of the last one.
SkillInv ==
    /\ IsMap
    /\ idx \in 0 .. Len(objects)
    /\ IF idx = 0 THEN skill = NewSkill ELSE IsInSection(skill, idx, SectionOf(idx))

LEMMA InitIsGood == Decays /\ Init => SkillInv
<1> SUFFICES ASSUME Decays, Init
             PROVE  SkillInv
  OBVIOUS
<1>1. IsMap
  BY MapsAssumption DEF IsMap, Init
<1>2. Len(objects) \in Nat
  BY <1>1 DEF IsMap
<1> QED
  BY <1>1, <1>2 DEF SkillInv, Init

LEMMA ProcessIsGood ==
    ASSUME SkillInv, idx < Len(objects)
    PROVE  IsInSection(Processed(skill, idx + 1), idx + 1, SectionOf(idx + 1))
<1>1. IsMap /\ idx \in Nat /\ idx + 1 \in 1 .. Len(objects)
  BY DEF SkillInv, IsMap
<1>2. PICK t : t = PassSections(BeginAt(skill, idx + 1), idx + 1)
  OBVIOUS
<1>3. IsInSection(t, idx, SectionOf(idx + 1))
  <2>1. CASE idx = 0
    <3>1. skill = NewSkill /\ idx + 1 = 1
      BY <2>1 DEF SkillInv
    <3> QED
      BY <1>1, <1>2, <2>1, <3>1, PassesNone
  <2>2. CASE idx # 0
    <3>1. idx \in 1 .. Len(objects) /\ idx + 1 # 1
      BY <1>1, <2>2
    <3>2. BeginAt(skill, idx + 1) = skill
      BY <3>1 DEF BeginAt
    <3>3. IsInSection(skill, idx, SectionOf(idx))
      BY <2>2 DEF SkillInv
    <3> QED
      BY <1>1, <1>2, <3>1, <3>2, <3>3, PassesSections
  <2> QED
    BY <2>1, <2>2
<1>4. PICK s : s = LET strain == StrainValueAt(t, idx + 1)
                   IN  [t EXCEPT !.current_strain = strain,
                                 !.section_peak   = Max({strain, @}),
                                 !.object_strains = Append(@, strain)]
  OBVIOUS
<1>5. Processed(skill, idx + 1) = s
  BY <1>2, <1>4 DEF Processed
<1>6. IsInSection(s, idx + 1, SectionOf(idx + 1))
  BY <1>1, <1>3, <1>4, AddsStrain
<1> QED
  BY <1>5, <1>6

\* What is said of a map stays true as long as the map stays.
LEMMA SameMap ==
    ASSUME objects' = objects
    PROVE  /\ IsMap' <=> IsMap
           /\ \A s, k, c : IsInSection(s, k, c)' <=> IsInSection(s, k, c)
           /\ \A j : SectionOf(j)' = SectionOf(j)
           /\ \A k : PeaksOf(k)' = PeaksOf(k)
<1>1. StrainAt' = StrainAt /\ \A j : SectionOf(j)' = SectionOf(j)
  BY DEF StrainAt, PrevStart, SectionOf
<1>2. \A c, k : PeakOf(c, k)' = PeakOf(c, k)
  BY <1>1 DEF PeakOf
<1>3. \A c, k : StrainsOf(c, k)' = StrainsOf(c, k)
  BY <1>1 DEF StrainsOf, BeginOf, Earlier
<1>4. \A c, k : PeaksBefore(c, k)' = PeaksBefore(c, k)
  BY <1>1, <1>2 DEF PeaksBefore
<1>5. IsMap' <=> IsMap
  BY DEF IsMap
<1>6. \A s, k, c : IsInSection(s, k, c)' <=> IsInSection(s, k, c)
  BY <1>1, <1>3, <1>4 DEF IsInSection, IsMaximum
<1>7. \A k : PeaksOf(k)' = PeaksOf(k)
  BY <1>1, <1>2 DEF PeaksOf
<1> QED
  BY <1>1, <1>5, <1>6, <1>7

LEMMA NextIsGood == SkillInv /\ [Next]_vars => SkillInv'
<1> SUFFICES ASSUME SkillInv, [Next]_vars
             PROVE  SkillInv'
  OBVIOUS
<1>1. objects' = objects
  BY DEF Next, Process, vars
<1>2. IsMap' /\ idx \in 0 .. Len(objects)
  BY <1>1, SameMap DEF SkillInv
<1>3. CASE Process
  <2>1. /\ idx' = idx + 1 /\ skill' = Processed(skill, idx + 1) /\ idx < Len(objects)
    BY <1>3 DEF Process
  <2>2. IsInSection(skill', idx', SectionOf(idx'))
    BY <2>1, ProcessIsGood
  <2>3. IsInSection(skill, idx, SectionOf(idx))'
    BY <1>1, <2>2, SameMap
  <2>4. idx' \in 0 .. Len(objects') /\ idx' # 0
    BY <1>1, <1>2, <2>1
  <2> QED
    BY <1>2, <2>3, <2>4 DEF SkillInv
<1>4. CASE UNCHANGED vars
  <2>1. idx' = idx /\ skill' = skill
    BY <1>4 DEF vars
  <2>2. idx # 0 => IsInSection(skill, idx, SectionOf(idx))'
    BY <1>1, <2>1, SameMap DEF SkillInv
  <2>3. idx = 0 => skill' = NewSkill'
    BY <2>1 DEF SkillInv, NewSkill, Strains!Empty
  <2> QED
    BY <1>1, <1>2, <2>1, <2>2, <2>3 DEF SkillInv
<1> QED
  BY <1>3, <1>4 DEF Next

\* Whatever the map, the section length and the decay: the skill is in the
\* section of the last object, has its highest strain so far as the peak and
\* the maxima of the sections before it in its list.
THEOREM SkillInvHolds == Decays => (Spec => []SkillInv)
<1>1. Decays /\ Init => SkillInv
  BY InitIsGood
<1>2. SkillInv /\ [Next]_vars => SkillInv'
  BY NextIsGood
<1> QED
  BY <1>1, <1>2, PTL DEF Spec

------------------------------------------------------------------------------
(* Theorems *)

LEMMA TypesAreGood == SkillInv => TypeOK
<1> SUFFICES ASSUME SkillInv
             PROVE  TypeOK
  OBVIOUS
<1>1. objects \in Seq(DifficultyObject) /\ idx \in 0 .. Len(objects)
  BY DEF SkillInv, IsMap
<1>2. skill \in Skills
  <2>1. CASE idx = 0
    <3>1. skill = [current_strain |-> 0, section_end |-> 0, section_peak |-> 0,
                   strain_peaks |-> [inner |-> <<>>, len |-> 0, has_zero |-> FALSE],
                   object_strains |-> <<>>]
      BY <2>1 DEF SkillInv, NewSkill, Strains!Empty
    <3>2. <<>> \in Seq([zero : BOOLEAN, n : Nat \ {0}]) /\ <<>> \in Seq(Nat)
      OBVIOUS
    <3> QED
      BY <3>1, <3>2 DEF Skills
  <2>2. CASE idx # 0
    BY <2>2 DEF SkillInv, IsInSection
  <2> QED
    BY <2>1, <2>2
<1> QED
  BY <1>1, <1>2 DEF TypeOK, Skills

\* The fields of a skill have their types after any number of objects, its list
\* of peaks the representation of a StrainsVec.
THEOREM TypeCorrect == Decays => (Spec => []TypeOK)
BY SkillInvHolds, TypesAreGood, PTL

LEMMA PeaksAreGood ==
    ASSUME SkillInv
    PROVE  /\ P!IsStrainsVec(CurrentStrainPeaks(skill))
           /\ P!IntoVec(CurrentStrainPeaks(skill)) = PeaksOf(idx)
<1>1. PICK v, x : v = skill.strain_peaks /\ x = skill.section_peak
  OBVIOUS
<1>2. CurrentStrainPeaks(skill) = Strains!Pushed(v, x)
  BY <1>1 DEF CurrentStrainPeaks
<1>3. CASE idx = 0
  <2>1. v = Strains!Empty /\ x = 0
    BY <1>1, <1>3 DEF SkillInv, NewSkill
  <2>2. P!IsStrainsVec(v) /\ P!IntoVec(v) = <<>> /\ x \in Nat
    BY <2>1, EmptyIsEmpty
  <2>3. PeaksOf(idx) = Append(<<>>, x)
    BY <1>3, <2>1 DEF PeaksOf
  <2> QED
    BY <1>2, <2>2, <2>3, PushAppends
<1>4. CASE idx # 0
  <2>1. IsMap /\ idx \in 1 .. Len(objects)
    BY <1>4 DEF SkillInv, IsMap
  <2>2. PICK c, m \in Nat : c = SectionOf(idx) /\ m = SectionOf(1) /\ m <= c
    <3>1. 1 \in 1 .. Len(objects) /\ 1 <= idx
      BY <2>1 DEF IsMap
    <3> QED
      BY <2>1, <3>1, SectionsOfObjects
  <2>3. /\ IsMaximum(x, StrainsOf(c, idx))
        /\ P!IsStrainsVec(v) /\ P!IntoVec(v) = PeaksBefore(c, idx)
    BY <1>1, <1>4, <2>2 DEF SkillInv, IsInSection
  <2>4. x = PeakOf(c, idx) /\ x \in Nat
    BY <2>3, MaximumIs, PeakIsMax
  <2>5. PeaksBefore(c + 1, idx) = Append(PeaksBefore(c, idx), x)
    BY <2>2, <2>4, PeaksBeforeAppend
  <2>6. PeaksOf(idx) = PeaksBefore(c + 1, idx)
    <3>1. (c + 1) - m = c - m + 1
      BY <2>2
    <3> QED
      BY <1>4, <2>2, <3>1 DEF PeaksOf, PeaksBefore
  <2> QED
    BY <1>2, <2>3, <2>4, <2>5, <2>6, PushAppends
<1> QED
  BY <1>3, <1>4

\* After any number of objects the peaks reported are the maxima of the
\* consecutive sections: no section is left out or saved twice, not by an
\* object on a border nor by one that comes many sections later.
THEOREM PeaksHold == Decays => (Spec => []PeaksAreSectionMaxima)
<1>1. SkillInv => PeaksAreSectionMaxima
  BY PeaksAreGood, SameOperators DEF PeaksAreSectionMaxima
<1> QED
  BY <1>1, SkillInvHolds, PTL

LEMMA RanksAreGood ==
    ASSUME SkillInv
    PROVE  RanksAllPeaks
<1>1. PICK v : v = CurrentStrainPeaks(skill)
  OBVIOUS
<1>2. P!IsStrainsVec(v) /\ P!IntoVec(v) = PeaksOf(idx)
  BY <1>1, PeaksAreGood
<1>3. PICK r, q : r = RankedPeaks(skill) /\ q = PeaksOf(idx)
  OBVIOUS
<1>4. r \in Seq(Nat \ {0}) /\ P!Falls(r) /\ P!SameBut0(r, q)
  BY <1>1, <1>2, <1>3, SameRanked, Assumptions, P!RankedFalls
<1>5. \A i, j \in DOMAIN r : i < j => r[i] >= r[j]
  BY <1>4 DEF P!Falls
<1>6. ToSet(q) \subseteq Nat
  <2>1. q \in Seq(Nat)
    <3>1. v.inner \in Seq(P!Entries)
      BY <1>2 DEF P!IsStrainsVec
    <3>2. PICK e : e \in P!Entries
      <4>1. [zero |-> TRUE, n |-> 1] \in P!Entries
        BY DEF P!Entries
      <4> QED
        BY <4>1
    <3>3. P!ValuesOf(v.inner) \in Seq(Nat)
      BY <3>1, <3>2, Assumptions, P!ValuesAppend
    <3> QED
      BY <1>2, <1>3, <3>3 DEF P!IntoVec, P!ValuesOf
  <2> QED
    BY <2>1 DEF ToSet
<1>7. ASSUME NEW x \in ToSet(r) \cup ToSet(q)
      PROVE  HowOften(x, r) = IF x = 0 THEN 0 ELSE HowOften(x, q)
  <2>1. x \in Nat
    BY <1>4, <1>6 DEF ToSet
  <2>2. CASE x = 0
    <3>1. {i \in DOMAIN r : r[i] = x} = {}
      BY <1>4, <2>2
    <3> QED
      BY <2>2, <3>1, FS_EmptySet DEF HowOften
  <2>3. CASE x # 0
    <3>1. P!HowOften(x, r) = P!HowOften(x, q)
      BY <1>4, <2>1, <2>3 DEF P!SameBut0
    <3> QED
      BY <2>3, <3>1, SameHowOften
  <2> QED
    BY <2>2, <2>3
<1> QED
  BY <1>3, <1>5, <1>7 DEF RanksAllPeaks

\* What difficulty_value adds up is every peak that is not 0, as often as it
\* occurs and the highest first, whatever runs of zeros lay between them.
THEOREM RanksHold == Decays => (Spec => []RanksAllPeaks)
BY SkillInvHolds, RanksAreGood, PTL
=============================================================================
