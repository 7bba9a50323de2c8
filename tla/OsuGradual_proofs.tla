--------------------------- MODULE OsuGradual_proofs ---------------------------
(***************************************************************************)
(* The osu!standard iterator returns what the ordinary calculation returns *)
(* for the objects passed, for every map and every sequence of calls.      *)
(*                                                                         *)
(* The inductive invariant is InStep with the range of idx and the         *)
(* statement about the returned value: idx determines the whole struct.    *)
(* Between the skipping part of nth and its call of next the legacy score  *)
(* attributes are those of the last call, so the lemmas are about structs  *)
(* with an older score.                                                    *)
(***************************************************************************)
EXTENDS OsuGradual, Counting_proofs, SequenceTheorems

\* The objects counted when idx = k
Counted(k) == IF k = 0 THEN MinOf(1, Len(objs)) ELSE k

\* The struct with the fields i, a, c and p
Struct(i, a, c, p) == [idx |-> i, attrs |-> a, score |-> c, skills |-> p]

\* The struct at k whose score attributes are still those of z objects.
At(k, z) ==
    Struct(k, IncrementCombo(ZeroAttrs, 1 .. Counted(k)), ScoreOf(z, z),
           Process(FreshSkills, 1, SatSub(k, 1)))

\* Reading and updating a field of a struct
LEMMA Fields ==
    ASSUME NEW i, NEW a, NEW c, NEW p
    PROVE  /\ Struct(i, a, c, p).idx = i
           /\ Struct(i, a, c, p).attrs = a
           /\ Struct(i, a, c, p).score = c
           /\ Struct(i, a, c, p).skills = p
           /\ \A x : [Struct(i, a, c, p) EXCEPT !.idx = x] = Struct(x, a, c, p)
           /\ \A x : [Struct(i, a, c, p) EXCEPT !.attrs = x] = Struct(i, x, c, p)
           /\ \A x : [Struct(i, a, c, p) EXCEPT !.score = x] = Struct(i, a, x, p)
           /\ \A x : [Struct(i, a, c, p) EXCEPT !.skills = x] = Struct(i, a, c, x)
BY DEF Struct

\* What the steps of the iterator do to the fields of a struct
LEMMA Steps ==
    ASSUME NEW i, NEW a, NEW c, NEW p
    PROVE  /\ \A from, to : Consume(Struct(i, a, c, p), from, to)
                = Struct(i, IncrementCombo(a, from + 1 .. to + 1), c, Process(p, from, to))
           /\ UpdateLegacyScoreAttributes(Struct(i, a, c, p)) = Struct(i, a, ScoreOf(i, i), p)
<1> DEFINE s == Struct(i, a, c, p)
<1>1. ASSUME NEW from, NEW to
      PROVE  Consume(s, from, to)
                = Struct(i, IncrementCombo(a, from + 1 .. to + 1), c, Process(p, from, to))
  <2> DEFINE q == Process(p, from, to)
             b == IncrementCombo(a, from + 1 .. to + 1)
  <2>1. Consume(s, from, to) = [s EXCEPT !.skills = q, !.attrs = b]
    <3>1. s.skills = p /\ s.attrs = a
      BY Fields
    <3> QED
      BY <3>1 DEF Consume
  <2> HIDE DEF q, b
  <2>2. [s EXCEPT !.skills = q, !.attrs = b] = Struct(i, b, c, q)
    <3>1. [s EXCEPT !.skills = q] = Struct(i, a, c, q)
      BY DEF Struct
    <3>2. [Struct(i, a, c, q) EXCEPT !.attrs = b] = Struct(i, b, c, q)
      BY DEF Struct
    <3>3. [s EXCEPT !.skills = q, !.attrs = b] = [[s EXCEPT !.skills = q] EXCEPT !.attrs = b]
      OBVIOUS
    <3> QED
      BY <3>1, <3>2, <3>3
  <2> QED
    BY <2>1, <2>2 DEF q, b
<1>2. UpdateLegacyScoreAttributes(s) = Struct(i, a, ScoreOf(i, i), p)
  BY Fields DEF UpdateLegacyScoreAttributes
<1> QED
  BY <1>1, <1>2

\* StructAt is the case of an up to date score.
LEMMA StructIsAt == \A k : StructAt(k) = At(k, k)
BY DEF StructAt, At, Counted, Struct

\* The numbers that increment_combo adds for disjoint sets of objects add up.
LEMMA PartsAdd ==
    ASSUME objs \in Seq(Object),
           NEW J \in SUBSET DOMAIN objs, IsFiniteSet(J),
           NEW K \in SUBSET DOMAIN objs, IsFiniteSet(K), J \cap K = {}
    PROVE  /\ Cardinality(J \cup K) = Cardinality(J) + Cardinality(K)
           /\ Cardinality(J) \in Nat /\ Cardinality(K) \in Nat
           /\ \A kind \in {"circle", "slider", "spinner"} :
                /\ Cardinality(OfKind(kind, J \cup K))
                     = Cardinality(OfKind(kind, J)) + Cardinality(OfKind(kind, K))
                /\ Cardinality(OfKind(kind, J)) \in Nat
                /\ Cardinality(OfKind(kind, K)) \in Nat
           /\ \A w \in {NestedCount, LargeTickCount} :
                /\ TotalOf(w, OfKind("slider", J \cup K))
                     = TotalOf(w, OfKind("slider", J)) + TotalOf(w, OfKind("slider", K))
                /\ TotalOf(w, OfKind("slider", J)) \in Nat
                /\ TotalOf(w, OfKind("slider", K)) \in Nat
<1>1. /\ Cardinality(J \cup K) = Cardinality(J) + Cardinality(K)
      /\ Cardinality(J) \in Nat /\ Cardinality(K) \in Nat
  BY SizeOfDisjoint
<1>2. ASSUME NEW kind
      PROVE  /\ IsFiniteSet(OfKind(kind, J))
             /\ IsFiniteSet(OfKind(kind, K))
             /\ OfKind(kind, J) \cap OfKind(kind, K) = {}
             /\ OfKind(kind, J \cup K) = OfKind(kind, J) \cup OfKind(kind, K)
  <2>1. OfKind(kind, J) \in SUBSET J /\ OfKind(kind, K) \in SUBSET K
    BY DEF OfKind
  <2>2. OfKind(kind, J \cup K) = OfKind(kind, J) \cup OfKind(kind, K)
    BY DEF OfKind
  <2>3. IsFiniteSet(OfKind(kind, J)) /\ IsFiniteSet(OfKind(kind, K))
    BY <2>1, FS_Subset
  <2> QED
    BY <2>1, <2>2, <2>3
<1>3. ASSUME NEW kind
      PROVE  /\ Cardinality(OfKind(kind, J \cup K))
                  = Cardinality(OfKind(kind, J)) + Cardinality(OfKind(kind, K))
             /\ Cardinality(OfKind(kind, J)) \in Nat
             /\ Cardinality(OfKind(kind, K)) \in Nat
  BY <1>2, SizeOfDisjoint
<1>4. ASSUME NEW w \in {NestedCount, LargeTickCount}
      PROVE  /\ TotalOf(w, OfKind("slider", J \cup K))
                  = TotalOf(w, OfKind("slider", J)) + TotalOf(w, OfKind("slider", K))
             /\ TotalOf(w, OfKind("slider", J)) \in Nat
             /\ TotalOf(w, OfKind("slider", K)) \in Nat
  <2>1. \A j \in DOMAIN objs : objs[j].nested \in Nat /\ objs[j].large_ticks \in Nat
    <3>1. \A j \in DOMAIN objs : objs[j] \in Object
      OBVIOUS
    <3> QED
      BY <3>1 DEF Object
  <2>2. \A j \in DOMAIN objs : w[j] \in Nat
    <3>1. CASE w = NestedCount
      BY <2>1, <3>1 DEF NestedCount
    <3>2. CASE w = LargeTickCount
      BY <2>1, <3>2 DEF LargeTickCount
    <3> QED
      BY <3>1, <3>2
  <2>3. /\ OfKind("slider", J) \in SUBSET DOMAIN objs
        /\ OfKind("slider", K) \in SUBSET DOMAIN objs
    BY DEF OfKind
  <2>4. /\ \A j \in OfKind("slider", J) : w[j] \in Nat
        /\ \A j \in OfKind("slider", K) : w[j] \in Nat
        /\ \A j \in OfKind("slider", J) \cup OfKind("slider", K) : w[j] \in Nat
    BY <2>2, <2>3
  <2>5. /\ TotalOf(w, OfKind("slider", J)) \in Nat
        /\ TotalOf(w, OfKind("slider", K)) \in Nat
    BY <2>4, <1>2, TotalType
  <2>6. TotalOf(w, OfKind("slider", J) \cup OfKind("slider", K))
          = TotalOf(w, OfKind("slider", J)) + TotalOf(w, OfKind("slider", K))
    BY <2>4, <1>2, TotalOfDisjoint
  <2> QED
    BY <2>5, <2>6, <1>2
<1> QED
  BY <1>1, <1>3, <1>4

\* Counting from zero gives the counts themselves.
LEMMA CountFromZero ==
    ASSUME NEW I,
           Cardinality(I) \in Nat,
           TotalOf(NestedCount, OfKind("slider", I)) \in Nat,
           TotalOf(LargeTickCount, OfKind("slider", I)) \in Nat,
           Cardinality(OfKind("circle", I)) \in Nat,
           Cardinality(OfKind("slider", I)) \in Nat,
           Cardinality(OfKind("spinner", I)) \in Nat
    PROVE  IncrementCombo(ZeroAttrs, I)
             = [max_combo     |-> Cardinality(I) + TotalOf(NestedCount, OfKind("slider", I)),
                n_circles     |-> Cardinality(OfKind("circle", I)),
                n_sliders     |-> Cardinality(OfKind("slider", I)),
                n_large_ticks |-> TotalOf(LargeTickCount, OfKind("slider", I)),
                n_spinners    |-> Cardinality(OfKind("spinner", I))]
<1> DEFINE n  == Cardinality(I)
           nn == TotalOf(NestedCount, OfKind("slider", I))
           nl == TotalOf(LargeTickCount, OfKind("slider", I))
           nc == Cardinality(OfKind("circle", I))
           ns == Cardinality(OfKind("slider", I))
           np == Cardinality(OfKind("spinner", I))
<1>1. IncrementCombo(ZeroAttrs, I)
        = [max_combo |-> 0 + (n + nn), n_circles |-> 0 + nc, n_sliders |-> 0 + ns,
           n_large_ticks |-> 0 + nl, n_spinners |-> 0 + np]
  BY DEF IncrementCombo, ZeroAttrs
<1> HIDE DEF n, nn, nl, nc, ns, np
<1>2. n \in Nat /\ nn \in Nat /\ nl \in Nat /\ nc \in Nat /\ ns \in Nat /\ np \in Nat
  BY DEF n, nn, nl, nc, ns, np
<1>3. 0 + (n + nn) = n + nn /\ 0 + nc = nc /\ 0 + ns = ns /\ 0 + nl = nl /\ 0 + np = np
  BY <1>2
<1>4. IncrementCombo(ZeroAttrs, I)
        = [max_combo |-> n + nn, n_circles |-> nc, n_sliders |-> ns,
           n_large_ticks |-> nl, n_spinners |-> np]
  BY <1>1, <1>3
<1> QED
  BY <1>4 DEF n, nn, nl, nc, ns, np

\* Counting the objects of K on top of those of J counts those of both.
LEMMA CountMore ==
    ASSUME objs \in Seq(Object),
           NEW J \in SUBSET DOMAIN objs, IsFiniteSet(J),
           NEW K \in SUBSET DOMAIN objs, IsFiniteSet(K), J \cap K = {}
    PROVE  IncrementCombo(IncrementCombo(ZeroAttrs, J), K)
             = IncrementCombo(ZeroAttrs, J \cup K)
<1> DEFINE Nested(I) == TotalOf(NestedCount, OfKind("slider", I))
           Large(I)  == TotalOf(LargeTickCount, OfKind("slider", I))
           Of(k, I)  == Cardinality(OfKind(k, I))
<1>1. /\ Cardinality(J) \in Nat /\ Cardinality(K) \in Nat
      /\ Nested(J) \in Nat /\ Nested(K) \in Nat
      /\ Large(J) \in Nat /\ Large(K) \in Nat
      /\ Of("circle", J) \in Nat /\ Of("circle", K) \in Nat
      /\ Of("slider", J) \in Nat /\ Of("slider", K) \in Nat
      /\ Of("spinner", J) \in Nat /\ Of("spinner", K) \in Nat
  BY PartsAdd
<1>2. /\ Cardinality(J \cup K) = Cardinality(J) + Cardinality(K)
      /\ Nested(J \cup K) = Nested(J) + Nested(K)
      /\ Large(J \cup K) = Large(J) + Large(K)
      /\ Of("circle", J \cup K) = Of("circle", J) + Of("circle", K)
      /\ Of("slider", J \cup K) = Of("slider", J) + Of("slider", K)
      /\ Of("spinner", J \cup K) = Of("spinner", J) + Of("spinner", K)
  BY PartsAdd
<1> DEFINE Counts(I) == [max_combo     |-> Cardinality(I) + Nested(I),
                      n_circles     |-> Of("circle", I),
                      n_sliders     |-> Of("slider", I),
                      n_large_ticks |-> Large(I),
                      n_spinners    |-> Of("spinner", I)]
<1>3. IncrementCombo(ZeroAttrs, J) = Counts(J)
  BY <1>1, CountFromZero
<1>4. IncrementCombo(ZeroAttrs, J \cup K) = Counts(J \cup K)
  <2>1. /\ Cardinality(J \cup K) \in Nat
        /\ Nested(J \cup K) \in Nat
        /\ Large(J \cup K) \in Nat
        /\ Of("circle", J \cup K) \in Nat
        /\ Of("slider", J \cup K) \in Nat
        /\ Of("spinner", J \cup K) \in Nat
    <3>1. /\ Cardinality(J) + Cardinality(K) \in Nat
          /\ Nested(J) + Nested(K) \in Nat
          /\ Large(J) + Large(K) \in Nat
          /\ Of("circle", J) + Of("circle", K) \in Nat
          /\ Of("slider", J) + Of("slider", K) \in Nat
          /\ Of("spinner", J) + Of("spinner", K) \in Nat
      BY <1>1, SumOfNats, Zenon
    <3> QED
      BY <3>1, <1>2
  <2> QED
    BY <2>1, CountFromZero
<1>5. IncrementCombo(Counts(J), K)
        = [max_combo     |-> (Cardinality(J) + Nested(J)) + (Cardinality(K) + Nested(K)),
           n_circles     |-> Of("circle", J) + Of("circle", K),
           n_sliders     |-> Of("slider", J) + Of("slider", K),
           n_large_ticks |-> Large(J) + Large(K),
           n_spinners    |-> Of("spinner", J) + Of("spinner", K)]
  BY DEF IncrementCombo
<1>6. (Cardinality(J) + Nested(J)) + (Cardinality(K) + Nested(K))
        = (Cardinality(J) + Cardinality(K)) + (Nested(J) + Nested(K))
  BY <1>1
<1> QED
  BY <1>2, <1>3, <1>4, <1>5, <1>6

\* Skills that saw the difficulty objects up to a and are given those up to b
\* saw those up to b.
LEMMA ProcessMore ==
    ASSUME NEW a \in Nat, NEW b \in Nat, a <= b
    PROVE  Process(Process(FreshSkills, 1, a), a + 1, b) = Process(FreshSkills, 1, b)
<1>1. ASSUME NEW s \in Skills
      PROVE  (<<>> \o [i \in 1 .. a + 1 - 1 |-> 1 - 1 + i])
                 \o [i \in 1 .. b + 1 - (a + 1) |-> a + 1 - 1 + i]
               = <<>> \o [i \in 1 .. b + 1 - 1 |-> 1 - 1 + i]
  OBVIOUS
<1> QED
  BY <1>1 DEF Process, FreshSkills

\* Consuming the difficulty objects up to that of object m leads to the counts
\* and skills of m passed objects.
LEMMA ConsumeAt ==
    ASSUME objs \in Seq(Object), NEW k \in Nat, NEW m \in Nat, NEW z,
           1 <= m, k <= m, m <= Len(objs)
    PROVE  Consume(At(k, z), SatSub(k, 1) + 1, m - 1) = [At(m, z) EXCEPT !.idx = k]
<1> DEFINE c == Counted(k)
           J == 1 .. c
           K == c + 1 .. m
<1>1. /\ c \in Nat /\ 1 <= c /\ c <= m /\ Counted(m) = m
      /\ SatSub(k, 1) = c - 1 /\ SatSub(m, 1) = m - 1
      /\ SatSub(k, 1) + 1 + 1 = c + 1 /\ m - 1 + 1 = m
  BY DEF Counted, MinOf, SatSub
<1>2. IncrementCombo(IncrementCombo(ZeroAttrs, J), K) = IncrementCombo(ZeroAttrs, 1 .. m)
  <2>1. J \in SUBSET DOMAIN objs /\ K \in SUBSET DOMAIN objs
    BY <1>1
  <2>2. J \cap K = {} /\ J \cup K = 1 .. m
    BY <1>1
  <2>3. IsFiniteSet(J) /\ IsFiniteSet(K)
    BY <1>1, FS_Interval
  <2> QED
    BY <2>1, <2>2, <2>3, CountMore
<1>3. Process(Process(FreshSkills, 1, SatSub(k, 1)), SatSub(k, 1) + 1, m - 1)
         = Process(FreshSkills, 1, m - 1)
  BY <1>1, ProcessMore
<1>4. Consume(At(k, z), SatSub(k, 1) + 1, m - 1)
         = Struct(k, IncrementCombo(IncrementCombo(ZeroAttrs, J), K), ScoreOf(z, z),
                  Process(Process(FreshSkills, 1, SatSub(k, 1)), SatSub(k, 1) + 1, m - 1))
  <2>1. SatSub(k, 1) + 1 + 1 .. m - 1 + 1 = K
    BY <1>1
  <2> QED
    BY <2>1, Steps DEF At
<1>5. [At(m, z) EXCEPT !.idx = k]
         = Struct(k, IncrementCombo(ZeroAttrs, 1 .. m), ScoreOf(z, z),
                  Process(FreshSkills, 1, m - 1))
  BY <1>1, Fields DEF At
<1> QED
  BY <1>2, <1>3, <1>4, <1>5

\* next on an up to date struct that is not at its end leads to the struct of
\* one object more, also when the score is that of an earlier call.
LEMMA AdvanceAt ==
    ASSUME objs \in Seq(Object), NEW k \in Nat, NEW z, k < Len(objs)
    PROVE  HasNext(At(k, z)) /\ Advanced(At(k, z)) = At(k + 1, k + 1)
<1> DEFINE a == IncrementCombo(ZeroAttrs, 1 .. k + 1)
           p == Process(FreshSkills, 1, k)
<1>1. HasNext(At(k, z))
  BY DEF HasNext, At, Struct, NDiffObjects, SatSub
<1>2. At(k, z).idx = k
  BY Fields DEF At
<1>3. At(k + 1, k + 1) = Struct(k + 1, a, ScoreOf(k + 1, k + 1), p)
  <2>1. Counted(k + 1) = k + 1 /\ SatSub(k + 1, 1) = k
    BY DEF Counted, SatSub
  <2> QED
    BY <2>1 DEF At
<1>4. (IF k > 0 THEN Consume(At(k, z), k, k) ELSE At(k, z)) = Struct(k, a, ScoreOf(z, z), p)
  <2>1. CASE k = 0
    <3>1. Counted(k) = k + 1 /\ SatSub(k, 1) = k
      BY <2>1 DEF Counted, MinOf, SatSub
    <3>2. At(k, z) = Struct(k, a, ScoreOf(z, z), p)
      BY <3>1 DEF At
    <3> QED
      BY <2>1, <3>2
  <2>2. CASE k > 0
    <3>1. SatSub(k, 1) + 1 = k /\ k + 1 - 1 = k /\ k + 1 \in Nat
      BY <2>2 DEF SatSub
    <3>2. Consume(At(k, z), SatSub(k, 1) + 1, k + 1 - 1) = [At(k + 1, z) EXCEPT !.idx = k]
      BY <3>1, ConsumeAt
    <3>3. [At(k + 1, z) EXCEPT !.idx = k] = Struct(k, a, ScoreOf(z, z), p)
      <4>1. Counted(k + 1) = k + 1 /\ SatSub(k + 1, 1) = k
        BY DEF Counted, SatSub
      <4> QED
        BY <4>1, Fields DEF At
    <3> QED
      BY <2>2, <3>1, <3>2, <3>3
  <2> QED
    BY <2>1, <2>2
<1>5. Advanced(At(k, z)) = UpdateLegacyScoreAttributes(
                              [Struct(k, a, ScoreOf(z, z), p) EXCEPT !.idx = @ + 1])
  BY <1>2, <1>4 DEF Advanced
<1>6. [Struct(k, a, ScoreOf(z, z), p) EXCEPT !.idx = @ + 1]
         = Struct(k + 1, a, ScoreOf(z, z), p)
  BY Fields
<1> QED
  BY <1>1, <1>3, <1>5, <1>6, Steps

\* The object in front of which nth(n) at position k calls next
Target(k, n) == MinOf(k + n, Len(objs) - 1)

\* The skipping part of nth leads to the struct of n more objects, but never
\* past the last but one.
LEMMA SkipAt ==
    ASSUME objs \in Seq(Object), NEW k \in Nat, NEW n \in Nat, k < Len(objs)
    PROVE  Skipped(At(k, k), n) = At(Target(k, n), k)
<1> DEFINE s == At(k, k)
           start   == SatSub(s.idx, 1)
           wanted  == MinOf(n, SatSub(RemainingLen(s), 1))
           isFirst == s.idx = 0 /\ wanted > 0
           take    == IF isFirst THEN wanted - 1 ELSE wanted
           stop    == MinOf(start + take, NDiffObjects)
           m       == Target(k, n)
           last    == MaxOf(m, 1)
<1>1. s.idx = k
  BY Fields DEF At
<1>2. /\ m \in Nat /\ last \in Nat /\ k <= m /\ k <= last /\ 1 <= last
      /\ last <= Len(objs) /\ m < Len(objs)
  BY DEF Target, MinOf, MaxOf
<1>3. wanted = m - k
  BY <1>1 DEF RemainingLen, NDiffObjects, SatSub, MinOf, Target
<1>4. start = SatSub(k, 1) /\ stop = last - 1
  BY <1>1, <1>2, <1>3 DEF NDiffObjects, SatSub, MinOf, MaxOf
<1>5. k + (stop - start) + (IF isFirst THEN 1 ELSE 0) = m
  <2>1. CASE k = 0
    <3>1. isFirst <=> m > 0
      BY <2>1, <1>1, <1>2, <1>3
    <3>2. start = 0 /\ stop = IF m >= 1 THEN m - 1 ELSE 0
      BY <2>1, <1>2, <1>4 DEF SatSub, MaxOf
    <3> HIDE DEF isFirst, start, stop, m
    <3> QED
      BY <2>1, <3>1, <3>2, <1>2
  <2>2. CASE k > 0
    <3>1. ~isFirst
      BY <2>2, <1>1
    <3>2. start = k - 1 /\ stop = m - 1
      BY <2>2, <1>2, <1>4 DEF SatSub, MaxOf
    <3> HIDE DEF isFirst, start, stop, m
    <3> QED
      BY <2>2, <3>1, <3>2, <1>2
  <2> QED
    BY <2>1, <2>2
<1>6. Consume(s, start + 1, stop) = [At(last, k) EXCEPT !.idx = k]
  BY <1>2, <1>4, ConsumeAt
<1>7. [At(last, k) EXCEPT !.idx = m] = At(m, k)
  <2>1. Counted(last) = Counted(m) /\ SatSub(last, 1) = SatSub(m, 1)
    BY <1>2 DEF MaxOf, Counted, MinOf, SatSub
  <2> QED
    BY <2>1, Fields DEF At
<1>8. Skipped(s, n) = [Consume(s, start + 1, stop) EXCEPT
                          !.idx = @ + (stop - start) + (IF isFirst THEN 1 ELSE 0)]
  BY DEF Skipped
<1>9. [[At(last, k) EXCEPT !.idx = k] EXCEPT
          !.idx = @ + (stop - start) + (IF isFirst THEN 1 ELSE 0)]
        = [At(last, k) EXCEPT !.idx = m]
  <2> DEFINE a == IncrementCombo(ZeroAttrs, 1 .. Counted(last))
             c == ScoreOf(k, k)
             p == Process(FreshSkills, 1, SatSub(last, 1))
  <2>1. At(last, k) = Struct(last, a, c, p)
    BY DEF At
  <2> HIDE DEF stop, start, isFirst, m, last, a, c, p
  <2>2. /\ [Struct(last, a, c, p) EXCEPT !.idx = k] = Struct(k, a, c, p)
        /\ [Struct(last, a, c, p) EXCEPT !.idx = m] = Struct(m, a, c, p)
    BY Fields
  <2>3. [Struct(k, a, c, p) EXCEPT !.idx = @ + (stop - start) + (IF isFirst THEN 1 ELSE 0)]
          = Struct(k + (stop - start) + (IF isFirst THEN 1 ELSE 0), a, c, p)
    BY DEF Struct
  <2> QED
    BY <2>1, <2>2, <2>3, <1>5
<1> HIDE DEF stop, start, isFirst, m, last
<1> QED
  BY <1>6, <1>7, <1>8, <1>9 DEF m

\* At the end nth has nothing to skip, and next finds nothing.
LEMMA ExhaustedAt ==
    ASSUME objs \in Seq(Object), NEW k \in Nat, NEW n \in Nat, k = Len(objs)
    PROVE  Skipped(At(k, k), n) = At(k, k) /\ ~HasNext(At(k, k))
<1> DEFINE s == At(k, k)
           c == Counted(k)
<1>1. s.idx = k
  BY Fields DEF At
<1>2. c \in Nat /\ c <= k /\ SatSub(k, 1) = SatSub(c, 1) /\ SatSub(k, 1) \in Nat
      /\ SatSub(k, 1) + 1 + 1 > c
  BY DEF Counted, MinOf, SatSub
<1>3. IncrementCombo(IncrementCombo(ZeroAttrs, 1 .. c), SatSub(k, 1) + 1 + 1 .. SatSub(k, 1) + 1)
        = IncrementCombo(ZeroAttrs, 1 .. c)
  <2>1. SatSub(k, 1) + 1 + 1 .. SatSub(k, 1) + 1 = {}
    BY <1>2
  <2>2. IsFiniteSet(1 .. c) /\ IsFiniteSet({})
    BY <1>2, FS_Interval, FS_EmptySet
  <2>3. 1 .. c \in SUBSET DOMAIN objs /\ {} \in SUBSET DOMAIN objs
    BY <1>2
  <2>4. (1 .. c) \cap {} = {} /\ (1 .. c) \cup {} = 1 .. c
    OBVIOUS
  <2>5. IncrementCombo(IncrementCombo(ZeroAttrs, 1 .. c), {}) = IncrementCombo(ZeroAttrs, 1 .. c)
    BY <2>2, <2>3, <2>4, CountMore
  <2> QED
    BY <2>1, <2>5
<1>4. Process(Process(FreshSkills, 1, SatSub(k, 1)), SatSub(k, 1) + 1, SatSub(k, 1))
        = Process(FreshSkills, 1, SatSub(k, 1))
  BY <1>2, ProcessMore
<1>5. Consume(s, SatSub(k, 1) + 1, SatSub(k, 1)) = s
  BY <1>3, <1>4, Steps DEF At
<1>6. SatSub(RemainingLen(s), 1) = 0 /\ NDiffObjects = SatSub(k, 1)
  BY <1>1 DEF RemainingLen, NDiffObjects, SatSub
<1>7. Skipped(s, n) = [Consume(s, SatSub(k, 1) + 1, SatSub(k, 1)) EXCEPT
                          !.idx = @ + (SatSub(k, 1) - SatSub(k, 1)) + 0]
  <2>1. MinOf(n, 0) = 0 /\ MinOf(SatSub(k, 1) + 0, SatSub(k, 1)) = SatSub(k, 1)
    BY <1>2 DEF MinOf
  <2> QED
    BY <1>1, <1>6, <2>1 DEF Skipped
<1>8. Skipped(s, n) = s
  <2>1. k + (SatSub(k, 1) - SatSub(k, 1)) + 0 = k
    BY <1>2
  <2>2. [s EXCEPT !.idx = k] = s
    BY Fields DEF At
  <2> QED
    BY <1>1, <1>5, <1>7, <2>1, <2>2
<1>9. ~HasNext(s)
  <2>1. k = 0 => objs = <<>>
    BY EmptySeq, SeqEqual
  <2> QED
    BY <1>1, <2>1 DEF HasNext, NDiffObjects, SatSub
<1> QED
  BY <1>8, <1>9

\* Every object is a circle, a slider or a spinner: the counts of the three
\* kinds, which the ordinary calculation passes to the legacy score, are the
\* number of objects, which the iterator passes to it.
LEMMA KindsAddUp ==
    ASSUME objs \in Seq(Object), NEW J \in SUBSET DOMAIN objs, IsFiniteSet(J)
    PROVE  LET a == IncrementCombo(ZeroAttrs, J)
           IN  a.n_circles + a.n_sliders + a.n_spinners = Cardinality(J)
<1> DEFINE A == OfKind("circle", J)
           B == OfKind("slider", J)
           C == OfKind("spinner", J)
<1>1. \A j \in J : objs[j].kind \in {"circle", "slider", "spinner"}
  <2>1. \A j \in DOMAIN objs : objs[j] \in Object
    OBVIOUS
  <2> QED
    BY <2>1 DEF Object
<1>2. J = A \cup B \cup C
  BY <1>1 DEF OfKind
<1>3. A \cap B = {} /\ (A \cup B) \cap C = {}
  BY DEF OfKind
<1>4. IsFiniteSet(A) /\ IsFiniteSet(B) /\ IsFiniteSet(C) /\ IsFiniteSet(A \cup B)
  BY <1>2, FS_Subset
<1>5. Cardinality(A \cup B) = Cardinality(A) + Cardinality(B)
  BY <1>3, <1>4, SizeOfDisjoint
<1>6. Cardinality(J) = Cardinality(A \cup B) + Cardinality(C)
  BY <1>2, <1>3, <1>4, SizeOfDisjoint
<1>7. Cardinality(A) \in Nat /\ Cardinality(B) \in Nat /\ Cardinality(C) \in Nat
  BY <1>4, FS_CardinalityType
<1> QED
  BY <1>5, <1>6, <1>7 DEF IncrementCombo, ZeroAttrs

\* eval on the struct of k objects gives what the calculation of k objects gives.
LEMMA EvalAt ==
    ASSUME objs \in Seq(Object), NEW k \in 1 .. Len(objs)
    PROVE  Eval(At(k, k)) = Calculate(k)
<1> DEFINE a == IncrementCombo(ZeroAttrs, 1 .. k)
<1>1. Counted(k) = k /\ MinOf(k, Len(objs)) = k /\ MinOf(Len(objs), k) = k
  BY DEF Counted, MinOf
<1>2. a.n_circles + a.n_sliders + a.n_spinners = k
  <2>1. IsFiniteSet(1 .. k) /\ Cardinality(1 .. k) = k
    BY FS_Interval
  <2>2. 1 .. k \in SUBSET DOMAIN objs
    OBVIOUS
  <2> QED
    BY <2>1, <2>2, KindsAddUp
<1>3. Eval(At(k, k)) = [attrs |-> a, score |-> ScoreOf(k, k),
                        rated |-> Process(FreshSkills, 1, SatSub(k, 1))]
  BY <1>1, Fields DEF Eval, At
<1>4. Calculate(k) = [attrs |-> a, score |-> ScoreOf(k, k),
                      rated |-> Process(FreshSkills, 1, SatSub(k, 1))]
  BY <1>1, <1>2 DEF Calculate
<1> QED
  BY <1>3, <1>4

------------------------------------------------------------------------------
(* The invariant *)

\* The struct is that of idx passed objects, and so is the value returned; a
\* value was only returned when an object has been passed.
IInv ==
    /\ objs \in Maps
    /\ it.idx \in 0 .. Len(objs)
    /\ it = StructAt(it.idx)
    /\ \/ ret = <<>>
       \/ it.idx > 0 /\ ret = <<Calculate(it.idx)>>

\* nth(n) from k passed objects goes to the n + 1-st object after them or to
\* the last one and returns the value of the ordinary calculation there; at
\* the end it returns nothing and stays.
Move(k, n) ==
    \/ /\ k < Len(objs)
       /\ it' = StructAt(Target(k, n) + 1)
       /\ ret' = <<Calculate(Target(k, n) + 1)>>
    \/ /\ k = Len(objs)
       /\ it' = StructAt(k)
       /\ ret' = <<>>

\* next from k passed objects, also with the score of an earlier call
LEMMA NextFromAt ==
    ASSUME objs \in Seq(Object), NEW k \in Nat, NEW z
    PROVE  /\ k < Len(objs) /\ NextFrom(At(k, z))
                => it' = StructAt(k + 1) /\ ret' = <<Calculate(k + 1)>>
           /\ k = Len(objs) /\ NextFrom(At(k, k)) => it' = StructAt(k) /\ ret' = <<>>
<1>1. ASSUME k < Len(objs), NextFrom(At(k, z))
      PROVE  it' = StructAt(k + 1) /\ ret' = <<Calculate(k + 1)>>
  <2>1. HasNext(At(k, z)) /\ Advanced(At(k, z)) = At(k + 1, k + 1)
    BY <1>1, AdvanceAt
  <2>2. it' = At(k + 1, k + 1) /\ ret' = <<Eval(it')>>
    BY <1>1, <2>1 DEF NextFrom
  <2>3. k + 1 \in 1 .. Len(objs)
    BY <1>1
  <2>4. Eval(At(k + 1, k + 1)) = Calculate(k + 1)
    BY <2>3, EvalAt
  <2> QED
    BY <2>2, <2>4, StructIsAt
<1>2. ASSUME k = Len(objs), NextFrom(At(k, k))
      PROVE  it' = StructAt(k) /\ ret' = <<>>
  <2>1. ~HasNext(At(k, k))
    BY <1>2, ExhaustedAt
  <2> QED
    BY <1>2, <2>1, StructIsAt DEF NextFrom
<1> QED
  BY <1>1, <1>2

\* What each call does when the invariant holds before it
LEMMA Moves ==
    ASSUME IInv
    PROVE  /\ NextCall => Move(it.idx, 0)
           /\ \A n \in Nat : NthCall(n) => Move(it.idx, n)
<1> DEFINE k == it.idx
<1>1. objs \in Seq(Object) /\ k \in Nat /\ k <= Len(objs) /\ it = At(k, k)
  BY MapsAssumption, StructIsAt DEF IInv
<1>2. ASSUME NextCall
      PROVE  Move(k, 0)
  <2>1. NextFrom(At(k, k))
    BY <1>1, <1>2 DEF NextCall
  <2>2. k < Len(objs) => Target(k, 0) = k
    BY <1>1 DEF Target, MinOf
  <2> QED
    BY <1>1, <2>1, <2>2, NextFromAt DEF Move
<1>3. ASSUME NEW n \in Nat, NthCall(n)
      PROVE  Move(k, n)
  <2>1. NextFrom(Skipped(At(k, k), n))
    BY <1>1, <1>3 DEF NthCall
  <2>2. CASE k < Len(objs)
    <3>1. Skipped(At(k, k), n) = At(Target(k, n), k)
      BY <1>1, <2>2, SkipAt
    <3>2. Target(k, n) \in Nat /\ Target(k, n) < Len(objs)
      BY <1>1, <2>2 DEF Target, MinOf
    <3> QED
      BY <1>1, <2>1, <2>2, <3>1, <3>2, NextFromAt DEF Move
  <2>3. CASE k = Len(objs)
    <3>1. Skipped(At(k, k), n) = At(k, k)
      BY <1>1, <2>3, ExhaustedAt
    <3> QED
      BY <1>1, <2>1, <2>3, <3>1, NextFromAt DEF Move
  <2> QED
    BY <1>1, <2>2, <2>3
<1> QED
  BY <1>2, <1>3

\* The functions of the map do not change when the map does not.
LEMMA SameMap ==
    ASSUME objs' = objs, NEW m
    PROVE  StructAt(m)' = StructAt(m) /\ Calculate(m)' = Calculate(m)
BY DEF StructAt, Calculate, IncrementCombo, OfKind, NestedCount, LargeTickCount

\* A move preserves the invariant.
LEMMA MovePreserves ==
    ASSUME IInv, objs' = objs, NEW n \in Nat, Move(it.idx, n)
    PROVE  IInv'
<1>1. objs \in Seq(Object) /\ it.idx \in Nat /\ it.idx <= Len(objs)
  BY MapsAssumption DEF IInv
<1>2. PICK m \in 0 .. Len(objs) :
          it' = StructAt(m) /\ (ret' = <<>> \/ (m > 0 /\ ret' = <<Calculate(m)>>))
  <2>1. CASE it.idx < Len(objs)
    <3>1. Target(it.idx, n) + 1 \in 0 .. Len(objs) /\ Target(it.idx, n) + 1 > 0
      BY <1>1, <2>1 DEF Target, MinOf
    <3> QED
      BY <2>1, <3>1 DEF Move
  <2>2. CASE it.idx = Len(objs)
    BY <1>1, <2>2 DEF Move
  <2> QED
    BY <1>1, <2>1, <2>2
<1>3. StructAt(m).idx = m
  BY Fields DEF StructAt
<1>4. it'.idx = m
  BY <1>2, <1>3
<1>5. StructAt(m)' = StructAt(m) /\ Calculate(m)' = Calculate(m)
  BY SameMap
<1> QED
  BY <1>2, <1>4, <1>5 DEF IInv

LEMMA InitIInv == Init => IInv
<1> SUFFICES ASSUME Init
             PROVE  IInv
  OBVIOUS
<1>1. objs \in Seq(Object)
  BY MapsAssumption DEF Init
<1>2. it.idx = 0 /\ Len(objs) \in Nat
  BY <1>1 DEF Init
<1>3. Process(FreshSkills, 1, SatSub(0, 1)) = FreshSkills
  BY DEF Process, FreshSkills, SatSub
<1>4. it = StructAt(0)
  BY <1>3 DEF Init, StructAt
<1> QED
  BY <1>2, <1>4 DEF Init, IInv

LEMMA NextIInv == IInv /\ [Next]_vars => IInv'
<1> SUFFICES ASSUME IInv, [Next]_vars
             PROVE  IInv'
  OBVIOUS
<1>1. CASE NextCall
  <2>1. objs' = objs
    BY <1>1 DEF NextCall
  <2> QED
    BY <1>1, <2>1, Moves, MovePreserves
<1>2. ASSUME NEW n \in Nat, NthCall(n)
      PROVE  IInv'
  <2>1. objs' = objs
    BY <1>2 DEF NthCall
  <2> QED
    BY <1>2, <2>1, Moves, MovePreserves
<1>3. CASE LastCall
  BY <1>2, <1>3, ArgsAssumption DEF LastCall
<1>4. CASE UNCHANGED vars
  <2>1. objs' = objs /\ it' = it /\ ret' = ret
    BY <1>4 DEF vars
  <2>2. PICK m : m = it.idx
    OBVIOUS
  <2>3. StructAt(m)' = StructAt(m) /\ Calculate(m)' = Calculate(m)
    BY <2>1, SameMap
  <2> QED
    BY <2>1, <2>2, <2>3 DEF IInv
<1> QED
  BY <1>1, <1>2, <1>3, <1>4, ArgsAssumption DEF Next

LEMMA SpecIInv == Spec => []IInv
BY InitIInv, NextIInv, PTL DEF Spec

------------------------------------------------------------------------------
(* Types *)

LEMMA ProcessType ==
    ASSUME NEW k \in Nat
    PROVE  Process(FreshSkills, 1, k) \in [Skills -> Seq(Nat)]
<1>1. [i \in 1 .. k + 1 - 1 |-> 1 - 1 + i] \in Seq(Nat)
  OBVIOUS
<1>2. <<>> \o [i \in 1 .. k + 1 - 1 |-> 1 - 1 + i] \in Seq(Nat)
  BY <1>1, EmptySeq, ConcatProperties
<1> QED
  BY <1>2 DEF Process, FreshSkills

LEMMA CountType ==
    ASSUME objs \in Seq(Object), NEW k \in 0 .. Len(objs)
    PROVE  IncrementCombo(ZeroAttrs, 1 .. k) \in Attrs
<1>1. 1 .. k \in SUBSET DOMAIN objs /\ {} \in SUBSET DOMAIN objs /\ (1 .. k) \cap {} = {}
  OBVIOUS
<1>2. IsFiniteSet(1 .. k) /\ IsFiniteSet({})
  BY FS_Interval, FS_EmptySet
<1>3. /\ Cardinality(1 .. k) \in Nat
      /\ TotalOf(NestedCount, OfKind("slider", 1 .. k)) \in Nat
      /\ TotalOf(LargeTickCount, OfKind("slider", 1 .. k)) \in Nat
      /\ Cardinality(OfKind("circle", 1 .. k)) \in Nat
      /\ Cardinality(OfKind("slider", 1 .. k)) \in Nat
      /\ Cardinality(OfKind("spinner", 1 .. k)) \in Nat
  BY <1>1, <1>2, PartsAdd
<1> QED
  BY <1>3 DEF IncrementCombo, ZeroAttrs, Attrs

LEMMA StructType ==
    ASSUME objs \in Seq(Object), NEW k \in 0 .. Len(objs)
    PROVE  StructAt(k) \in [idx : 0 .. Len(objs), attrs : Attrs, score : Score,
                            skills : [Skills -> Seq(Nat)]]
<1>1. Counted(k) \in 0 .. Len(objs) /\ SatSub(k, 1) \in Nat
  BY DEF Counted, MinOf, SatSub
<1>2. IncrementCombo(ZeroAttrs, 1 .. Counted(k)) \in Attrs
  BY <1>1, CountType
<1>3. Process(FreshSkills, 1, SatSub(k, 1)) \in [Skills -> Seq(Nat)]
  BY <1>1, ProcessType
<1>4. ScoreOf(k, k) \in Score
  BY DEF ScoreOf, Score
<1> QED
  BY <1>2, <1>3, <1>4, StructIsAt DEF At, Struct

LEMMA CalculateType ==
    ASSUME objs \in Seq(Object), NEW k \in 1 .. Len(objs)
    PROVE  Calculate(k) \in Values
<1>1. Calculate(k) = Eval(StructAt(k))
  BY EvalAt, StructIsAt
<1>2. StructAt(k) \in [idx : 0 .. Len(objs), attrs : Attrs, score : Score,
                       skills : [Skills -> Seq(Nat)]]
  BY StructType
<1> QED
  BY <1>1, <1>2 DEF Eval, Values

\* The invariant gives every field its type.
LEMMA InvTyped == IInv => TypeOK
<1> SUFFICES ASSUME IInv
             PROVE  TypeOK
  OBVIOUS
<1>1. objs \in Seq(Object) /\ it.idx \in 0 .. Len(objs) /\ it = StructAt(it.idx)
  BY MapsAssumption DEF IInv
<1>2. it \in [idx : 0 .. Len(objs), attrs : Attrs, score : Score,
              skills : [Skills -> Seq(Nat)]]
  BY <1>1, StructType
<1>3. ret \in Seq(Values) /\ Len(ret) <= 1
  <2>1. CASE ret = <<>>
    BY <2>1, EmptySeq
  <2>2. CASE it.idx > 0 /\ ret = <<Calculate(it.idx)>>
    <3>1. Calculate(it.idx) \in Values
      BY <1>1, <2>2, CalculateType
    <3>2. \A x \in Values : <<x>> \in Seq(Values) /\ Len(<<x>>) <= 1
      OBVIOUS
    <3> QED
      BY <2>2, <3>1, <3>2
  <2> QED
    BY <2>1, <2>2 DEF IInv
<1> QED
  BY <1>2, <1>3 DEF TypeOK, IInv

------------------------------------------------------------------------------
(* The theorems *)

\* The struct and the returned value keep the types of their fields, and idx
\* stays within the map.
THEOREM TypeCorrect == Spec => []TypeOK
BY SpecIInv, InvTyped, PTL

\* Whichever calls of next, nth and last led to an idx, the counts and the
\* five skills hold each object passed exactly once.
THEOREM InStepHolds == Spec => []InStep
BY SpecIInv, PTL DEF IInv, InStep

\* Every value handed out by next, nth or last is that of the ordinary
\* calculation limited to the objects passed.
THEOREM MatchesCalculateHolds == Spec => []MatchesCalculate
<1>1. IInv => MatchesCalculate
  BY DEF IInv, MatchesCalculate
<1> QED
  BY <1>1, SpecIInv, PTL

\* len() is positive exactly when a call will return a value, and a value
\* returned lowers it, on every map that has an object.
THEOREM ExactSizeHolds == Spec => ExactSize
<1> DEFINE A == objs # <<>> => /\ (ret' # <<>>) <=> (RemainingLen(it) > 0)
                               /\ (ret' # <<>>) => RemainingLen(it') < RemainingLen(it)
<1>1. ASSUME IInv, objs' = objs, NEW n \in Nat, Move(it.idx, n)
      PROVE  A
  <2> SUFFICES ASSUME objs # <<>>
               PROVE  /\ (ret' # <<>>) <=> (RemainingLen(it) > 0)
                      /\ (ret' # <<>>) => RemainingLen(it') < RemainingLen(it)
    OBVIOUS
  <2>1. objs \in Seq(Object) /\ it.idx \in Nat /\ it.idx <= Len(objs) /\ Len(objs) > 0
    <3>1. objs \in Seq(Object) /\ it.idx \in Nat /\ it.idx <= Len(objs)
      BY <1>1, MapsAssumption DEF IInv
    <3>2. Len(objs) = 0 => objs = <<>>
      BY <3>1, EmptySeq, SeqEqual
    <3> QED
      BY <3>1, <3>2
  <2>2. RemainingLen(it) = Len(objs) - it.idx
    BY <2>1 DEF RemainingLen, NDiffObjects, SatSub
  <2>3. CASE it.idx < Len(objs)
    <3>1. it'.idx = Target(it.idx, n) + 1 /\ ret' # <<>>
      <4>1. /\ it' = StructAt(Target(it.idx, n) + 1)
            /\ ret' = <<Calculate(Target(it.idx, n) + 1)>>
        BY <1>1, <2>1, <2>3 DEF Move
      <4>2. \A x : <<x>> # <<>>
        OBVIOUS
      <4> QED
        BY <4>1, <4>2, Fields DEF StructAt
    <3>2. RemainingLen(it') = Len(objs) - (Target(it.idx, n) + 1)
      BY <2>1, <2>3, <3>1 DEF RemainingLen, NDiffObjects, SatSub, Target, MinOf
    <3> QED
      BY <2>1, <2>2, <2>3, <3>1, <3>2 DEF Target, MinOf
  <2>4. CASE it.idx = Len(objs)
    BY <1>1, <2>1, <2>2, <2>4 DEF Move
  <2> QED
    BY <2>1, <2>3, <2>4
<1>2. ASSUME IInv, Next
      PROVE  A
  <2>1. CASE NextCall
    BY <1>1, <1>2, <2>1, Moves DEF NextCall
  <2>2. ASSUME NEW n \in Nat, NthCall(n)
        PROVE  A
    BY <1>1, <1>2, <2>2, Moves DEF NthCall
  <2> QED
    BY <1>2, <2>1, <2>2, ArgsAssumption DEF Next, LastCall
<1>3. IInv /\ [Next]_vars => [A]_vars
  BY <1>2
<1> QED
  BY <1>3, SpecIInv, PTL DEF Spec, ExactSize

\* The iterator implements the abstract one: nth(n) passes over exactly n of
\* the results that are left, or stops at the last of them, and nothing comes
\* only after the last was returned.
THEOREM Refinement == Spec => IsPrefixIterator
<1> DEFINE items == [k \in 1 .. Len(objs) |-> Calculate(k)]
<1>1. Init => Promise!Init
  BY DEF Init, Promise!Init
<1>2. ASSUME IInv, objs' = objs, NEW n \in NthArgs, Move(it.idx, n)
      PROVE  Promise!Next
  <2>1. objs \in Seq(Object) /\ it.idx \in Nat /\ it.idx <= Len(objs) /\ n \in Nat
    BY <1>2, MapsAssumption, ArgsAssumption DEF IInv
  <2>2. items' = items
    <3>1. \A k : Calculate(k)' = Calculate(k)
      BY <1>2, SameMap
    <3> QED
      BY <1>2, <3>1
  <2>3. Len(items) = Len(objs)
    BY <2>1
  <2>4. CASE it.idx < Len(objs)
    <3>1. it'.idx = Target(it.idx, n) + 1 /\ ret' = <<Calculate(it'.idx)>>
      BY <1>2, <2>1, <2>4, Fields DEF Move, StructAt
    <3>2. it'.idx = MinOf(it.idx + n + 1, Len(items)) /\ it'.idx \in 1 .. Len(objs)
      BY <2>1, <2>3, <2>4, <3>1 DEF Target, MinOf
    <3>3. ret' = <<items[it'.idx]>>
      BY <3>1, <3>2
    <3>4. Promise!Nth(n)
      BY <2>2, <2>3, <2>4, <3>2, <3>3 DEF Promise!Nth, Promise!MinOf, MinOf
    <3> QED
      BY <3>4 DEF Promise!Next
  <2>5. CASE it.idx = Len(objs)
    <3>1. it'.idx = it.idx /\ ret' = <<>>
      BY <1>2, <2>1, <2>5, Fields DEF Move, StructAt
    <3> QED
      BY <2>2, <2>3, <2>5, <3>1 DEF Promise!Next, Promise!Exhausted
  <2> QED
    BY <2>1, <2>4, <2>5
<1>3. ASSUME IInv, Next
      PROVE  Promise!Next
  <2>1. CASE NextCall
    BY <1>2, <1>3, <2>1, Moves, ArgsAssumption DEF NextCall
  <2>2. ASSUME NEW n \in NthArgs, NthCall(n)
        PROVE  Promise!Next
    BY <1>2, <1>3, <2>2, Moves, ArgsAssumption DEF NthCall
  <2> QED
    BY <1>3, <2>1, <2>2, ArgsAssumption DEF Next, LastCall
<1>4. ASSUME UNCHANGED vars
      PROVE  UNCHANGED Promise!vars
  <2>1. \A k : Calculate(k)' = Calculate(k)
    BY <1>4, SameMap DEF vars
  <2> QED
    BY <1>4, <2>1 DEF vars, Promise!vars
<1>5. IInv /\ [Next]_vars => [Promise!Next]_(Promise!vars)
  BY <1>3, <1>4
<1> QED
  BY <1>1, <1>5, SpecIInv, PTL DEF Spec, IsPrefixIterator, Promise!Spec
=============================================================================
