------------------------- MODULE AnyGradual_proofs -------------------------
(***************************************************************************)
(* Whichever mode a gradual calculator has been made for, it is an iterator *)
(* over the results of the ordinary calculation: for every map of the mode, *)
(* every passed_objects and every sequence of next, nth and last.          *)
(*                                                                         *)
(* The invariant says for each mode that what the iterator has counted and *)
(* processed is determined by its position.  That of osu!taiko has two     *)
(* parts, idx and the place in the list of difficulty objects, and the calls *)
(* move between pairs of them that belong together.  The structs of        *)
(* osu!catch and osu!mania are functions of their idx; both skip in nth the *)
(* way osu!standard does: the first object has no difficulty object, every *)
(* further one has.                                                        *)
(***************************************************************************)
EXTENDS AnyGradual, Counting_proofs, SequenceTheorems

\* The part of nth before its call of next, which catch and mania have in
\* common: from idx k, of D + 1 items, n are passed over but never the last.
LEMMA SkipArithmetic ==
    ASSUME NEW D \in Nat, NEW k \in 0 .. D, NEW n \in Nat
    PROVE  LET start   == SatSub(k, 1)
               wanted  == MinOf(n, SatSub(D + 1 - k, 1))
               isFirst == k = 0 /\ wanted > 0
               stop    == MinOf(start + (IF isFirst THEN wanted - 1 ELSE wanted), D)
           IN  /\ k + (stop - start) + (IF isFirst THEN 1 ELSE 0) = MinOf(k + n, D)
               /\ stop = SatSub(MinOf(k + n, D), 1)
               /\ isFirst <=> (k = 0 /\ MinOf(k + n, D) > 0)
BY DEF SatSub, MinOf

\* At the end nothing is skipped.
LEMMA SkipNothing ==
    ASSUME NEW D \in Nat, NEW n \in Nat
    PROVE  LET k       == D + 1
               start   == SatSub(k, 1)
               wanted  == MinOf(n, SatSub(D + 1 - k, 1))
               isFirst == k = 0 /\ wanted > 0
               stop    == MinOf(start + (IF isFirst THEN wanted - 1 ELSE wanted), D)
           IN  /\ k + (stop - start) + (IF isFirst THEN 1 ELSE 0) = k
               /\ start = D /\ stop = D
BY DEF SatSub, MinOf

------------------------------------------------------------------------------
(* osu!mania *)

\* The operators of the instance are those of this module.
LEMMA ManiaLibrary ==
    /\ \A J : Mania!Cardinality(J) = Cardinality(J)
    /\ \A w, J : Mania!TotalOf(w, J) = TotalOf(w, J)
    /\ \A a, b : /\ Mania!MinOf(a, b) = MinOf(a, b)
                 /\ Mania!MaxOf(a, b) = MaxOf(a, b)
                 /\ Mania!SatSub(a, b) = SatSub(a, b)
<1>1. \A J : Mania!Cardinality(J) = Cardinality(J)
  BY DEF Mania!Cardinality, Cardinality, Mania!IsFiniteSet, IsFiniteSet
<1>2. \A w, J : Mania!TotalOf(w, J) = TotalOf(w, J)
  BY <1>1 DEF Mania!TotalOf, TotalOf
<1> QED
  BY <1>1, <1>2 DEF Mania!MinOf, MinOf, Mania!MaxOf, MaxOf, Mania!SatSub, SatSub

\* The three expressions for the ticks of a long note
ManiaExpressions == {"combo", "raw_combo", "scaled_combo"}

\* What is counted after k items: the first object with its own duration,
\* the further ones with the scaled one
ManiaNotes(k) ==
    Mania!Count(Mania!Count(Mania!ZeroNotes, 1 .. MinOf(1, Len(objs)), "raw_combo"),
                2 .. k, "scaled_combo")

\* The struct by its fields
ManiaStruct(i, c, p) == [idx |-> i, notes |-> c, strain |-> p]

\* The struct after k items
ManiaAt(k) == ManiaStruct(k, ManiaNotes(k), Mania!Process(<<>>, 1, SatSub(k, 1)))

\* Reading and updating a field of a struct
LEMMA ManiaFields ==
    ASSUME NEW i, NEW c, NEW p
    PROVE  /\ ManiaStruct(i, c, p).idx = i
           /\ ManiaStruct(i, c, p).notes = c
           /\ ManiaStruct(i, c, p).strain = p
           /\ \A x : [ManiaStruct(i, c, p) EXCEPT !.idx = x] = ManiaStruct(x, c, p)
           /\ \A x : [ManiaStruct(i, c, p) EXCEPT !.strain = x] = ManiaStruct(i, c, x)
           /\ \A x : [ManiaStruct(i, c, p) EXCEPT !.notes = x] = ManiaStruct(i, x, p)
BY DEF ManiaStruct

\* What consuming difficulty objects does to the fields
LEMMA ManiaConsumes ==
    ASSUME NEW i, NEW c, NEW p, NEW from, NEW to
    PROVE  Mania!Consume(ManiaStruct(i, c, p), from, to)
             = ManiaStruct(i, Mania!Count(c, from + 1 .. to + 1, "scaled_combo"),
                           Mania!Process(p, from, to))
<1> DEFINE s == ManiaStruct(i, c, p)
           q == Mania!Process(p, from, to)
           d == Mania!Count(c, from + 1 .. to + 1, "scaled_combo")
<1>1. Mania!Consume(s, from, to) = [s EXCEPT !.strain = q, !.notes = d]
  <2>1. s.strain = p /\ s.notes = c
    BY ManiaFields
  <2> QED
    BY <2>1 DEF Mania!Consume
<1> HIDE DEF q, d
<1>2. [s EXCEPT !.strain = q, !.notes = d] = ManiaStruct(i, d, q)
  <2>1. [s EXCEPT !.strain = q] = ManiaStruct(i, c, q)
    BY ManiaFields
  <2>2. [ManiaStruct(i, c, q) EXCEPT !.notes = d] = ManiaStruct(i, d, q)
    BY ManiaFields
  <2>3. [s EXCEPT !.strain = q, !.notes = d] = [[s EXCEPT !.strain = q] EXCEPT !.notes = d]
    OBVIOUS
  <2> QED
    BY <2>1, <2>2, <2>3
<1> QED
  BY <1>1, <1>2 DEF q, d

\* Notes counted on top of others: the counts of disjoint sets add up.
LEMMA ManiaCountMore ==
    ASSUME objs \in Seq(Mania!Object), NEW e \in ManiaExpressions,
           NEW s \in Mania!Notes,
           NEW J \in SUBSET DOMAIN objs, IsFiniteSet(J),
           NEW K \in SUBSET DOMAIN objs, IsFiniteSet(K), J \cap K = {}
    PROVE  /\ Mania!Count(s, J, e) \in Mania!Notes
           /\ Mania!Count(Mania!Count(s, J, e), K, e) = Mania!Count(s, J \cup K, e)
<1> DEFINE w == [j \in DOMAIN objs |-> objs[j][e]]
           H(I) == Mania!HoldNotes(I)
<1>1. H(J \cup K) = H(J) \cup H(K) /\ H(J) \cap H(K) = {}
      /\ H(J) \in SUBSET J /\ H(K) \in SUBSET K
  BY DEF Mania!HoldNotes
<1>2. IsFiniteSet(H(J)) /\ IsFiniteSet(H(K))
  BY <1>1, FS_Subset
<1>3. \A j \in DOMAIN objs : w[j] \in Nat
  <2>1. \A j \in DOMAIN objs : objs[j] \in Mania!Object
    OBVIOUS
  <2>2. \A o \in Mania!Object : o[e] \in Nat
    BY DEF Mania!Object, ManiaExpressions
  <2> QED
    BY <2>1, <2>2
<1>4. /\ \A j \in H(J) \cup H(K) : w[j] \in Nat
      /\ \A j \in H(J) : w[j] \in Nat
      /\ \A j \in H(K) : w[j] \in Nat
  BY <1>1, <1>3
<1> HIDE DEF w, H
<1>5. /\ TotalOf(w, H(J) \cup H(K)) = TotalOf(w, H(J)) + TotalOf(w, H(K))
      /\ TotalOf(w, H(J)) \in Nat /\ TotalOf(w, H(K)) \in Nat
  BY <1>1, <1>2, <1>4, TotalOfDisjoint, TotalType
<1>6. /\ Cardinality(J \cup K) = Cardinality(J) + Cardinality(K)
      /\ Cardinality(J) \in Nat /\ Cardinality(K) \in Nat
  BY SizeOfDisjoint
<1>7. /\ Cardinality(H(J) \cup H(K)) = Cardinality(H(J)) + Cardinality(H(K))
      /\ Cardinality(H(J)) \in Nat /\ Cardinality(H(K)) \in Nat
  BY <1>1, <1>2, SizeOfDisjoint
<1>8. ASSUME NEW t, NEW I
      PROVE  Mania!Count(t, I, e)
               = [curr_combo   |-> t.curr_combo + Cardinality(I) + TotalOf(w, H(I)),
                  n_hold_notes |-> t.n_hold_notes + Cardinality(H(I))]
  BY ManiaLibrary DEF Mania!Count, Mania!Ticks, w, H
<1>9. s.curr_combo \in Nat /\ s.n_hold_notes \in Nat
  BY DEF Mania!Notes
<1>10. Mania!Count(s, J, e) \in Mania!Notes
  BY <1>5, <1>6, <1>7, <1>8, <1>9 DEF Mania!Notes
<1>11. Mania!Count(Mania!Count(s, J, e), K, e)
         = [curr_combo   |-> s.curr_combo + Cardinality(J) + TotalOf(w, H(J))
                               + Cardinality(K) + TotalOf(w, H(K)),
            n_hold_notes |-> s.n_hold_notes + Cardinality(H(J)) + Cardinality(H(K))]
  BY <1>8
<1>12. Mania!Count(s, J \cup K, e)
         = [curr_combo   |-> s.curr_combo + (Cardinality(J) + Cardinality(K))
                               + (TotalOf(w, H(J)) + TotalOf(w, H(K))),
            n_hold_notes |-> s.n_hold_notes + (Cardinality(H(J)) + Cardinality(H(K)))]
  BY <1>1, <1>5, <1>6, <1>7, <1>8
<1>13. /\ s.curr_combo + Cardinality(J) + TotalOf(w, H(J)) + Cardinality(K) + TotalOf(w, H(K))
            = s.curr_combo + (Cardinality(J) + Cardinality(K))
                + (TotalOf(w, H(J)) + TotalOf(w, H(K)))
       /\ s.n_hold_notes + Cardinality(H(J)) + Cardinality(H(K))
            = s.n_hold_notes + (Cardinality(H(J)) + Cardinality(H(K)))
  BY ONLY <1>5, <1>6, <1>7, <1>9
<1> QED
  BY <1>10, <1>11, <1>12, <1>13

\* How many items and difficulty objects there are
LEMMA ManiaSizes ==
    ASSUME objs \in Seq(Mania!Object), take \in Nat
    PROVE  /\ Mania!NDiffObjects \in Nat
           /\ Mania!NItems \in 0 .. Len(objs)
           /\ Mania!NItems = 0 => Mania!NDiffObjects = 0 /\ objs = <<>>
           /\ Mania!NItems > 0 => Mania!NItems = Mania!NDiffObjects + 1 /\ objs # <<>>
<1>1. Len(objs) \in Nat /\ (Len(objs) = 0 <=> objs = <<>>)
  BY EmptySeq, SeqEqual
<1>2. Mania!NDiffObjects = SatSub(MinOf(take, Len(objs)), 1)
  BY ManiaLibrary DEF Mania!NDiffObjects
<1> QED
  BY <1>1, <1>2 DEF Mania!NItems, SatSub, MinOf

\* The notes of k objects and those between k and m are the notes of m objects.
LEMMA ManiaNotesMore ==
    ASSUME objs \in Seq(Mania!Object), NEW k \in Nat, NEW m \in 0 .. Len(objs), k <= m
    PROVE  /\ ManiaNotes(m) \in Mania!Notes
           /\ Mania!Count(ManiaNotes(k), SatSub(k, 1) + 1 + 1 .. SatSub(m, 1) + 1,
                          "scaled_combo") = ManiaNotes(m)
<1> DEFINE f == Mania!Count(Mania!ZeroNotes, 1 .. MinOf(1, Len(objs)), "raw_combo")
           J == 2 .. k
           K == SatSub(k, 1) + 1 + 1 .. SatSub(m, 1) + 1
<1>1. f \in Mania!Notes
  <2>1. Mania!ZeroNotes \in Mania!Notes
    BY DEF Mania!ZeroNotes, Mania!Notes
  <2>2. 1 .. MinOf(1, Len(objs)) \in SUBSET DOMAIN objs /\ {} \in SUBSET DOMAIN objs
    BY DEF MinOf
  <2>3. IsFiniteSet(1 .. MinOf(1, Len(objs))) /\ IsFiniteSet({})
    <3>1. MinOf(1, Len(objs)) \in Int
      BY DEF MinOf
    <3> QED
      BY <3>1, FS_Interval, FS_EmptySet
  <2> QED
    BY <2>1, <2>2, <2>3, ManiaCountMore DEF ManiaExpressions
<1> HIDE DEF f
<1>2. J \in SUBSET DOMAIN objs /\ K \in SUBSET DOMAIN objs /\ 2 .. m \in SUBSET DOMAIN objs
  BY DEF SatSub
<1>3. J \cap K = {} /\ J \cup K = 2 .. m
  BY DEF SatSub
<1>4. IsFiniteSet(J) /\ IsFiniteSet(K) /\ IsFiniteSet(2 .. m)
  <2>1. SatSub(k, 1) + 1 + 1 \in Int /\ SatSub(m, 1) + 1 \in Int
    BY DEF SatSub
  <2> QED
    BY <2>1, FS_Interval
<1> HIDE DEF J, K
<1>5. Mania!Count(Mania!Count(f, J, "scaled_combo"), K, "scaled_combo")
        = Mania!Count(f, 2 .. m, "scaled_combo")
  BY <1>1, <1>2, <1>3, <1>4, ManiaCountMore DEF ManiaExpressions
<1>6. Mania!Count(f, 2 .. m, "scaled_combo") \in Mania!Notes
  <2>1. IsFiniteSet({}) /\ {} \in SUBSET DOMAIN objs /\ (2 .. m) \cap {} = {}
    BY FS_EmptySet
  <2> QED
    BY <1>1, <1>2, <1>4, <2>1, ManiaCountMore DEF ManiaExpressions
<1> QED
  BY <1>5, <1>6 DEF ManiaNotes, f, J, K

\* A skill that saw the difficulty objects up to a and is given those up to b
\* saw those up to b.
LEMMA ManiaProcessMore ==
    ASSUME NEW a \in Nat, NEW b \in Nat, a <= b
    PROVE  /\ Mania!Process(Mania!Process(<<>>, 1, a), a + 1, b) = Mania!Process(<<>>, 1, b)
           /\ Mania!Process(<<>>, 1, a) \in Seq(Nat)
<1>1. (<<>> \o [i \in 1 .. a + 1 - 1 |-> 1 - 1 + i])
          \o [i \in 1 .. b + 1 - (a + 1) |-> a + 1 - 1 + i]
        = <<>> \o [i \in 1 .. b + 1 - 1 |-> 1 - 1 + i]
  OBVIOUS
<1>2. [i \in 1 .. a + 1 - 1 |-> 1 - 1 + i] \in Seq(Nat)
  OBVIOUS
<1>3. <<>> \o [i \in 1 .. a + 1 - 1 |-> 1 - 1 + i] \in Seq(Nat)
  BY <1>2, EmptySeq, ConcatProperties
<1> QED
  BY <1>1, <1>3 DEF Mania!Process

\* Consuming what lies between k and m items
LEMMA ManiaConsumeAt ==
    ASSUME objs \in Seq(Mania!Object), NEW k \in Nat, NEW m \in 0 .. Len(objs), k <= m
    PROVE  Mania!Consume(ManiaAt(k), SatSub(k, 1) + 1, SatSub(m, 1)) = [ManiaAt(m) EXCEPT !.idx = k]
<1>1. SatSub(k, 1) \in Nat /\ SatSub(m, 1) \in Nat /\ SatSub(k, 1) <= SatSub(m, 1)
  BY DEF SatSub
<1>2. Mania!Process(Mania!Process(<<>>, 1, SatSub(k, 1)), SatSub(k, 1) + 1, SatSub(m, 1))
        = Mania!Process(<<>>, 1, SatSub(m, 1))
  BY <1>1, ManiaProcessMore
<1>3. Mania!Count(ManiaNotes(k), SatSub(k, 1) + 1 + 1 .. SatSub(m, 1) + 1, "scaled_combo")
        = ManiaNotes(m)
  BY ManiaNotesMore
<1>4. Mania!Consume(ManiaAt(k), SatSub(k, 1) + 1, SatSub(m, 1))
        = ManiaStruct(k, ManiaNotes(m), Mania!Process(<<>>, 1, SatSub(m, 1)))
  BY <1>2, <1>3, ManiaConsumes DEF ManiaAt
<1> QED
  BY <1>4, ManiaFields DEF ManiaAt

\* The skipping part of nth, from k items
LEMMA ManiaSkipAt ==
    ASSUME objs \in Seq(Mania!Object), take \in Nat, NEW n \in Nat, NEW k \in 0 .. Mania!NItems
    PROVE  Mania!Skipped(ManiaAt(k), n)
             = ManiaAt(IF k < Mania!NItems THEN MinOf(k + n, Mania!NItems - 1) ELSE k)
<1> DEFINE D == Mania!NDiffObjects
           s == ManiaAt(k)
           start   == SatSub(k, 1)
           wanted  == MinOf(n, SatSub(D + 1 - k, 1))
           isFirst == k = 0 /\ wanted > 0
           stop    == MinOf(start + (IF isFirst THEN wanted - 1 ELSE wanted), D)
           m == IF k < Mania!NItems THEN MinOf(k + n, Mania!NItems - 1) ELSE k
<1>1. D \in Nat /\ Mania!NItems \in 0 .. Len(objs) /\ k <= D + 1
      /\ (k < Mania!NItems => k <= D /\ Mania!NItems = D + 1)
      /\ (k >= Mania!NItems => (k = 0 /\ D = 0) \/ k = D + 1)
  BY ManiaSizes
<1>2. s.idx = k
  BY ManiaFields DEF ManiaAt
<1>3. /\ k + (stop - start) + (IF isFirst THEN 1 ELSE 0) = m
      /\ stop = SatSub(m, 1)
  <2>1. CASE k < Mania!NItems
    <3>1. m = MinOf(k + n, D) /\ k \in 0 .. D /\ D \in Nat
      BY <1>1, <2>1
    <3> HIDE DEF D, m
    <3>2. /\ k + (stop - start) + (IF isFirst THEN 1 ELSE 0) = MinOf(k + n, D)
          /\ stop = SatSub(MinOf(k + n, D), 1)
      BY <3>1, SkipArithmetic
    <3> QED
      BY <3>1, <3>2
  <2>2. CASE k = 0 /\ D = 0 /\ ~(k < Mania!NItems)
    <3>1. MinOf(k + n, D) = k
      BY <2>2 DEF MinOf
    <3> QED
      BY <1>1, <2>2, <3>1, SkipArithmetic
  <2>3. CASE k = D + 1 /\ ~(k < Mania!NItems)
    <3>1. SatSub(m, 1) = D
      BY <1>1, <2>3 DEF SatSub
    <3> QED
      BY <1>1, <2>3, <3>1, SkipNothing
  <2> QED
    BY <1>1, <2>1, <2>2, <2>3
<1>4. m \in 0 .. Len(objs) /\ k <= m
  BY <1>1 DEF MinOf
<1>5. Mania!Skipped(s, n) = [Mania!Consume(s, start + 1, stop) EXCEPT
                                !.idx = @ + (stop - start) + (IF isFirst THEN 1 ELSE 0)]
  BY <1>2, ManiaLibrary DEF Mania!Skipped, Mania!RemainingLen
<1>6. Mania!Consume(s, start + 1, stop) = [ManiaAt(m) EXCEPT !.idx = k]
  BY <1>3, <1>4, ManiaConsumeAt
<1>7. [[ManiaAt(m) EXCEPT !.idx = k] EXCEPT
          !.idx = @ + (stop - start) + (IF isFirst THEN 1 ELSE 0)] = ManiaAt(m)
  <2> HIDE DEF stop, start, isFirst, m
  <2>1. [ManiaAt(m) EXCEPT !.idx = k]
          = ManiaStruct(k, ManiaNotes(m), Mania!Process(<<>>, 1, SatSub(m, 1)))
    BY ManiaFields DEF ManiaAt
  <2> DEFINE c == ManiaNotes(m)
             p == Mania!Process(<<>>, 1, SatSub(m, 1))
  <2> HIDE DEF c, p
  <2>2. [ManiaStruct(k, c, p) EXCEPT !.idx = @ + (stop - start) + (IF isFirst THEN 1 ELSE 0)]
          = ManiaStruct(k + (stop - start) + (IF isFirst THEN 1 ELSE 0), c, p)
    BY DEF ManiaStruct
  <2> QED
    BY <1>3, <2>1, <2>2 DEF ManiaAt, c, p
<1> HIDE DEF stop, start, isFirst, m
<1> QED
  BY <1>5, <1>6, <1>7 DEF m

\* What is returned after m items: in the combo of the first long note the
\* duration is the raw one, in that of every other one the scaled one.
ManiaValue(m) == Mania!Attrs(m, ManiaNotes(m), Mania!Process(<<>>, 1, SatSub(m, 1)))

\* A call that passes over n items from position k, but never over the last
ManiaMove(k, n) ==
    IF k < Mania!NItems
    THEN LET m == MinOf(k + n + 1, Mania!NItems)
         IN  it' = ManiaAt(m) /\ ret' = <<ManiaValue(m)>>
    ELSE it' = ManiaAt(k) /\ ret' = <<>>

\* next from k items
LEMMA ManiaNextAt ==
    ASSUME objs \in Seq(Mania!Object), take \in Nat, NEW k \in 0 .. Mania!NItems,
           Mania!NextFrom(ManiaAt(k))
    PROVE  ManiaMove(k, 0)
<1> DEFINE s == ManiaAt(k)
<1>1. s.idx = k
  BY ManiaFields DEF ManiaAt
<1>2. CASE k < Mania!NItems
  <2>1. /\ k \in Nat /\ k + 1 \in 0 .. Len(objs) /\ k <= Mania!NDiffObjects /\ objs # <<>>
        /\ MinOf(k + 0 + 1, Mania!NItems) = k + 1
    <3>1. k \in Nat /\ Len(objs) \in Nat
      OBVIOUS
    <3>2. /\ Mania!NItems \in 0 .. Len(objs)
          /\ Mania!NItems = Mania!NDiffObjects + 1 /\ Mania!NDiffObjects \in Nat /\ objs # <<>>
      BY <1>2, ManiaSizes
    <3> QED
      BY <1>2, <3>1, <3>2 DEF MinOf
  <2>0. Mania!HasNext(s)
    BY <1>1, <2>1 DEF Mania!HasNext
  <2>2. (IF s.idx > 0 THEN Mania!Consume(s, s.idx, s.idx) ELSE s)
           = ManiaStruct(k, ManiaNotes(k + 1), Mania!Process(<<>>, 1, k))
    <3>1. CASE k = 0
      <4>1. 2 .. k = 2 .. k + 1 /\ SatSub(k, 1) = k
        BY <3>1 DEF SatSub
      <4> QED
        BY <1>1, <3>1, <4>1 DEF ManiaAt, ManiaNotes
    <3>2. CASE k > 0
      <4>1. SatSub(k, 1) + 1 = k /\ SatSub(k + 1, 1) = k
        BY <3>2 DEF SatSub
      <4>2. Mania!Consume(s, k, k) = [ManiaAt(k + 1) EXCEPT !.idx = k]
        <5>1. Mania!Consume(s, SatSub(k, 1) + 1, SatSub(k + 1, 1))
                = [ManiaAt(k + 1) EXCEPT !.idx = k]
          BY <2>1, ManiaConsumeAt
        <5> QED
          BY <4>1, <5>1
      <4>3. [ManiaAt(k + 1) EXCEPT !.idx = k]
              = ManiaStruct(k, ManiaNotes(k + 1), Mania!Process(<<>>, 1, k))
        BY <4>1, ManiaFields DEF ManiaAt
      <4> QED
        BY <1>1, <3>2, <4>2, <4>3
    <3> QED
      BY <3>1, <3>2
  <2>3. Mania!Advanced(s) = ManiaAt(k + 1)
    <3>1. Mania!Advanced(s)
            = [ManiaStruct(k, ManiaNotes(k + 1), Mania!Process(<<>>, 1, k)) EXCEPT !.idx = @ + 1]
      BY <2>2 DEF Mania!Advanced
    <3>2. SatSub(k + 1, 1) = k
      BY DEF SatSub
    <3> QED
      BY <3>1, <3>2, ManiaFields DEF ManiaAt
  <2>4. it' = ManiaAt(k + 1) /\ ret' = <<Mania!Attrs(it'.idx, it'.notes, it'.strain)>>
    BY <2>0, <2>3 DEF Mania!NextFrom
  <2>5. ret' = <<ManiaValue(k + 1)>>
    BY <2>4, ManiaFields DEF ManiaAt, ManiaValue
  <2> QED
    BY <1>2, <2>1, <2>4, <2>5 DEF ManiaMove
<1>3. CASE k = Mania!NItems
  <2>1. ~Mania!HasNext(s)
    BY <1>1, <1>3, ManiaSizes DEF Mania!HasNext
  <2> QED
    BY <1>3, <2>1, ManiaSizes DEF Mania!NextFrom, ManiaMove
<1> QED
  BY <1>2, <1>3, ManiaSizes

\* The position determines the struct and the value returned.
ManiaInv ==
    /\ objs \in ManiaMaps /\ take \in Takes
    /\ it.idx \in 0 .. Mania!NItems
    /\ it = ManiaAt(it.idx)
    /\ \/ ret = <<>>
       \/ it.idx > 0 /\ ret = <<ManiaValue(it.idx)>>

\* What the assumptions say of the map and of passed_objects
LEMMA ManiaTypes ==
    ASSUME ManiaInv
    PROVE  objs \in Seq(Mania!Object) /\ take \in Nat
BY ModesAssumption, CallsAssumption DEF ManiaInv, Mania!MapsAssumption, Mania!ArgsAssumption

\* Every call is a move.
LEMMA ManiaMoves ==
    ASSUME ManiaInv
    PROVE  /\ Mania!NextCall => ManiaMove(it.idx, 0) /\ UNCHANGED <<objs, take>>
           /\ \A n \in Nat : Mania!NthCall(n) => ManiaMove(it.idx, n) /\ UNCHANGED <<objs, take>>
<1> DEFINE k == it.idx
<1>1. objs \in Seq(Mania!Object) /\ take \in Nat /\ k \in 0 .. Mania!NItems /\ it = ManiaAt(k)
  BY ManiaTypes DEF ManiaInv
<1> HIDE DEF k
<1>2. Mania!NextCall => ManiaMove(k, 0) /\ UNCHANGED <<objs, take>>
  BY <1>1, ManiaNextAt DEF Mania!NextCall
<1>3. ASSUME NEW n \in Nat, Mania!NthCall(n)
      PROVE  ManiaMove(k, n) /\ UNCHANGED <<objs, take>>
  <2> DEFINE m == IF k < Mania!NItems THEN MinOf(k + n, Mania!NItems - 1) ELSE k
  <2>1. Mania!NextFrom(ManiaAt(m))
    BY <1>1, <1>3, ManiaSkipAt DEF Mania!NthCall
  <2>2. m \in 0 .. Mania!NItems /\ (m < Mania!NItems <=> k < Mania!NItems)
        /\ (k < Mania!NItems => MinOf(m + 0 + 1, Mania!NItems) = MinOf(k + n + 1, Mania!NItems))
        /\ (k >= Mania!NItems => m = k)
    BY <1>1, ManiaSizes DEF MinOf
  <2> HIDE DEF m
  <2>3. ManiaMove(m, 0)
    BY <1>1, <2>1, <2>2, ManiaNextAt
  <2>4. ManiaMove(k, n)
    <3>1. CASE k < Mania!NItems
      BY <2>2, <2>3, <3>1 DEF ManiaMove
    <3>2. CASE k >= Mania!NItems
      BY <1>1, <2>2, <2>3, <3>2, ManiaSizes DEF ManiaMove
    <3> QED
      BY <1>1, <3>1, <3>2, ManiaSizes
  <2> QED
    BY <1>3, <2>4 DEF Mania!NthCall
<1> QED
  BY <1>2, <1>3 DEF k

\* The functions of the map do not change when the map does not.
LEMMA ManiaSameMap ==
    ASSUME objs' = objs, take' = take, NEW m
    PROVE  /\ ManiaAt(m)' = ManiaAt(m) /\ ManiaValue(m)' = ManiaValue(m)
           /\ Mania!Calculate(m)' = Mania!Calculate(m)
           /\ Mania!NItems' = Mania!NItems
<1>1. ManiaNotes(m)' = ManiaNotes(m)
  BY DEF ManiaNotes, Mania!Count, Mania!Ticks, Mania!HoldNotes
<1>2. Mania!Calculate(m)' = Mania!Calculate(m)
  BY DEF Mania!Calculate, Mania!Count, Mania!Ticks, Mania!HoldNotes
<1> QED
  BY <1>1, <1>2 DEF ManiaAt, ManiaValue, Mania!NItems, Mania!NDiffObjects

\* A move preserves the invariant.
LEMMA ManiaMovePreserves ==
    ASSUME ManiaInv, NEW n \in Nat, ManiaMove(it.idx, n), UNCHANGED <<objs, take>>
    PROVE  ManiaInv' /\ it'.idx = IF it.idx < Mania!NItems THEN MinOf(it.idx + n + 1, Mania!NItems)
                                                            ELSE it.idx
<1>1. objs \in Seq(Mania!Object) /\ take \in Nat /\ it.idx \in 0 .. Mania!NItems
      /\ Mania!NItems \in Nat
  BY ManiaTypes, ManiaSizes DEF ManiaInv
<1>2. PICK m \in 0 .. Mania!NItems :
          /\ m = IF it.idx < Mania!NItems THEN MinOf(it.idx + n + 1, Mania!NItems) ELSE it.idx
          /\ it' = ManiaAt(m)
          /\ ret' = <<>> \/ (m > 0 /\ ret' = <<ManiaValue(m)>>)
  BY <1>1 DEF ManiaMove, MinOf
<1>3. it'.idx = m
  BY <1>2, ManiaFields DEF ManiaAt
<1>4. ManiaAt(m)' = ManiaAt(m) /\ ManiaValue(m)' = ManiaValue(m) /\ Mania!NItems' = Mania!NItems
  BY ManiaSameMap
<1> QED
  BY <1>2, <1>3, <1>4 DEF ManiaInv

\* The invariant holds at first.
LEMMA ManiaInit == Mania!Init => ManiaInv
<1> SUFFICES ASSUME Mania!Init
             PROVE  ManiaInv
  OBVIOUS
<1>1. objs \in ManiaMaps /\ take \in Takes /\ objs \in Seq(Mania!Object) /\ take \in Nat
  BY ModesAssumption, CallsAssumption DEF Mania!Init, Mania!MapsAssumption, Mania!ArgsAssumption
<1>2. it.idx = 0 /\ ret = <<>> /\ Mania!NItems \in Nat
  BY <1>1, ManiaSizes DEF Mania!Init
<1>3. it = ManiaAt(0)
  <2> DEFINE f == Mania!Count(Mania!ZeroNotes, 1 .. MinOf(1, Len(objs)), "raw_combo")
  <2>1. it = ManiaStruct(0, f, <<>>)
    BY ManiaLibrary DEF Mania!Init, ManiaStruct
  <2>2. Mania!Process(<<>>, 1, SatSub(0, 1)) = <<>>
    BY DEF Mania!Process, SatSub
  <2>3. ManiaNotes(0) = f
    <3>1. f \in Mania!Notes
      <4>1. Mania!ZeroNotes \in Mania!Notes
        BY DEF Mania!ZeroNotes, Mania!Notes
      <4>2. 1 .. MinOf(1, Len(objs)) \in SUBSET DOMAIN objs /\ {} \in SUBSET DOMAIN objs
        BY <1>1 DEF MinOf
      <4>3. IsFiniteSet(1 .. MinOf(1, Len(objs))) /\ IsFiniteSet({})
        <5>1. MinOf(1, Len(objs)) \in Int
          BY <1>1 DEF MinOf
        <5> QED
          BY <5>1, FS_Interval, FS_EmptySet
      <4> QED
        BY <1>1, <4>1, <4>2, <4>3, ManiaCountMore DEF ManiaExpressions
    <3>2. 2 .. 0 = {}
      OBVIOUS
    <3>3. Mania!Count(f, {}, "scaled_combo") = f
      <4>1. Mania!HoldNotes({}) = {} /\ Cardinality({}) = 0
        BY FS_EmptySet DEF Mania!HoldNotes
      <4>2. \A w : TotalOf(w, {}) = 0
        <5>1. \A w : UNION {{j} \X (1 .. w[j]) : j \in {}} = {}
          OBVIOUS
        <5> QED
          BY <4>1, <5>1 DEF TotalOf
      <4>3. f = [curr_combo |-> f.curr_combo, n_hold_notes |-> f.n_hold_notes]
            /\ f.curr_combo \in Nat /\ f.n_hold_notes \in Nat
        BY <3>1 DEF Mania!Notes
      <4> HIDE DEF f
      <4>4. Mania!Count(f, {}, "scaled_combo")
              = [curr_combo |-> f.curr_combo + 0 + 0, n_hold_notes |-> f.n_hold_notes + 0]
        BY <4>1, <4>2, ManiaLibrary DEF Mania!Count, Mania!Ticks
      <4> QED
        BY <4>3, <4>4
    <3> QED
      BY <3>2, <3>3 DEF ManiaNotes
  <2> QED
    BY <2>1, <2>2, <2>3 DEF ManiaAt
<1> QED
  BY <1>1, <1>2, <1>3 DEF ManiaInv

\* Any number of notes has as many long notes as its objects.
LEMMA ManiaLongNotes ==
    ASSUME objs \in Seq(Mania!Object), NEW k \in 0 .. Len(objs)
    PROVE  ManiaNotes(k).n_hold_notes
             = Cardinality(Mania!HoldNotes(1 .. MinOf(MaxOf(k, 1), Len(objs))))
<1> DEFINE J == 1 .. MinOf(1, Len(objs))
           H(I) == Mania!HoldNotes(I)
<1>1. ManiaNotes(k).n_hold_notes = 0 + Cardinality(H(J)) + Cardinality(H(2 .. k))
  BY ManiaLibrary DEF ManiaNotes, Mania!Count, Mania!ZeroNotes
<1>2. J \cup (2 .. k) = 1 .. MinOf(MaxOf(k, 1), Len(objs)) /\ J \cap (2 .. k) = {}
  BY DEF MinOf, MaxOf
<1>3. /\ H(J \cup (2 .. k)) = H(J) \cup H(2 .. k) /\ H(J) \cap H(2 .. k) = {}
      /\ H(J) \in SUBSET J /\ H(2 .. k) \in SUBSET (2 .. k)
  BY <1>2 DEF Mania!HoldNotes
<1>4. IsFiniteSet(H(J)) /\ IsFiniteSet(H(2 .. k))
  <2>1. MinOf(1, Len(objs)) \in Int /\ k \in Int
    BY DEF MinOf
  <2>2. IsFiniteSet(J) /\ IsFiniteSet(2 .. k)
    BY <2>1, FS_Interval
  <2> QED
    BY <1>3, <2>2, FS_Subset
<1> HIDE DEF H, J
<1>5. /\ Cardinality(H(J) \cup H(2 .. k)) = Cardinality(H(J)) + Cardinality(H(2 .. k))
      /\ Cardinality(H(J)) \in Nat /\ Cardinality(H(2 .. k)) \in Nat
  BY <1>3, <1>4, SizeOfDisjoint
<1>6. ManiaNotes(k).n_hold_notes = Cardinality(H(J \cup (2 .. k)))
  <2>1. Cardinality(H(J \cup (2 .. k))) = Cardinality(H(J)) + Cardinality(H(2 .. k))
    BY <1>3, <1>5
  <2> QED
    BY <1>1, <1>5, <2>1
<1> QED
  BY <1>2, <1>6 DEF H

\* The invariant gives the properties of the mania iterator.
LEMMA ManiaProperties ==
    ASSUME ManiaInv
    PROVE  Mania!TypeOK /\ Mania!StrainInStep
<1> DEFINE k == it.idx
           p == Mania!Process(<<>>, 1, SatSub(k, 1))
<1>1. /\ objs \in ManiaMaps /\ take \in Takes /\ objs \in Seq(Mania!Object) /\ take \in Nat
      /\ k \in 0 .. Len(objs) /\ k \in Nat /\ it = ManiaAt(k)
  <2>1. objs \in Seq(Mania!Object) /\ take \in Nat
    BY ManiaTypes
  <2> QED
    BY <2>1, ManiaSizes DEF ManiaInv
<1>2. ManiaNotes(k) \in Mania!Notes
  <2>1. k <= k
    BY <1>1
  <2> QED
    BY <1>1, <2>1, ManiaNotesMore
<1>3. p \in Seq(Nat)
  <2>1. SatSub(k, 1) \in Nat /\ SatSub(k, 1) <= SatSub(k, 1)
    BY <1>1 DEF SatSub
  <2> QED
    BY <2>1, ManiaProcessMore
<1>4. it.notes = ManiaNotes(k) /\ it.strain = p
  BY <1>1, ManiaFields DEF ManiaAt
<1>5. it \in [idx : 0 .. Len(objs), notes : Mania!Notes, strain : Seq(Nat)]
  <2>1. it = [idx |-> k, notes |-> ManiaNotes(k), strain |-> p]
    BY <1>1 DEF ManiaAt, ManiaStruct
  <2> HIDE DEF k, p
  <2> QED
    BY <1>1, <1>2, <1>3, <2>1
<1>6. ret \in Seq([n_objects : 0 .. Len(objs), notes : Mania!Notes, rated : Seq(Nat)])
      /\ Len(ret) <= 1
  <2>1. CASE ret = <<>>
    BY <2>1, EmptySeq
  <2>2. CASE k > 0 /\ ret = <<ManiaValue(k)>>
    <3>1. ManiaValue(k) = [n_objects |-> k, notes |-> ManiaNotes(k), rated |-> p]
      BY DEF ManiaValue, Mania!Attrs
    <3> HIDE DEF k, p
    <3>2. ManiaValue(k) \in [n_objects : 0 .. Len(objs), notes : Mania!Notes, rated : Seq(Nat)]
      BY <1>1, <1>2, <1>3, <3>1
    <3>3. \A S : \A x \in S : <<x>> \in Seq(S) /\ Len(<<x>>) <= 1
      OBVIOUS
    <3> QED
      BY <2>2, <3>2, <3>3
  <2> QED
    BY <2>1, <2>2 DEF ManiaInv
<1>7. Mania!TypeOK
  BY <1>1, <1>5, <1>6 DEF Mania!TypeOK
<1>8. Mania!StrainInStep
  BY <1>1, <1>4, ManiaLongNotes, ManiaLibrary DEF Mania!StrainInStep
<1> QED
  BY <1>7, <1>8

\* Where the three expressions for the ticks of a long note agree, what is
\* returned after k items is what the calculation of k objects gives.
LEMMA ManiaExactValue ==
    ASSUME objs \in Seq(Mania!Object), NEW k \in 1 .. Len(objs),
           \A j \in DOMAIN objs : /\ objs[j].combo = objs[j].raw_combo
                                  /\ objs[j].scaled_combo = objs[j].combo
    PROVE  ManiaValue(k) = Mania!Calculate(k)
<1>1. \A e \in ManiaExpressions : [j \in DOMAIN objs |-> objs[j][e]]
                                    = [j \in DOMAIN objs |-> objs[j]["combo"]]
  BY DEF ManiaExpressions
<1>2. \A e \in ManiaExpressions : \A s, J : Mania!Count(s, J, e) = Mania!Count(s, J, "combo")
  <2>1. \A e \in ManiaExpressions : \A J : Mania!Ticks(J, e) = Mania!Ticks(J, "combo")
    BY <1>1 DEF Mania!Ticks
  <2> QED
    BY <2>1 DEF Mania!Count
<1>3. k \in Nat /\ Len(objs) \in Nat /\ MinOf(1, Len(objs)) = 1 /\ MinOf(k, Len(objs)) = k
  BY DEF MinOf
<1>4. ManiaNotes(k) = Mania!Count(Mania!Count(Mania!ZeroNotes, 1 .. 1, "combo"), 2 .. k, "combo")
  <2>1. ManiaNotes(k)
          = Mania!Count(Mania!Count(Mania!ZeroNotes, 1 .. 1, "raw_combo"), 2 .. k, "scaled_combo")
    BY <1>3 DEF ManiaNotes
  <2>2. "raw_combo" \in ManiaExpressions /\ "scaled_combo" \in ManiaExpressions
    BY DEF ManiaExpressions
  <2>3. \A s, J : /\ Mania!Count(s, J, "raw_combo") = Mania!Count(s, J, "combo")
                  /\ Mania!Count(s, J, "scaled_combo") = Mania!Count(s, J, "combo")
    BY <1>2, <2>2
  <2> QED
    BY ONLY <2>1, <2>3
<1>5. ManiaNotes(k) = Mania!Count(Mania!ZeroNotes, 1 .. k, "combo")
  <2>1. /\ 1 .. 1 \in SUBSET DOMAIN objs /\ 2 .. k \in SUBSET DOMAIN objs
        /\ (1 .. 1) \cap (2 .. k) = {} /\ (1 .. 1) \cup (2 .. k) = 1 .. k
    BY <1>3
  <2>2. IsFiniteSet(1 .. 1) /\ IsFiniteSet(2 .. k)
    <3>1. 1 \in Int /\ 2 \in Int /\ k \in Int
      BY <1>3
    <3> QED
      BY <3>1, FS_Interval
  <2>3. Mania!ZeroNotes \in Mania!Notes
    BY DEF Mania!ZeroNotes, Mania!Notes
  <2> QED
    BY <1>4, <2>1, <2>2, <2>3, ManiaCountMore DEF ManiaExpressions
<1> QED
  BY <1>3, <1>5, ManiaLibrary DEF ManiaValue, Mania!Calculate

------------------------------------------------------------------------------
(* osu!catch *)

\* The operators of the instance are those of this module.
LEMMA CatchLibrary ==
    /\ \A J : Catch!Cardinality(J) = Cardinality(J)
    /\ \A w, J : Catch!TotalOf(w, J) = TotalOf(w, J)
    /\ \A a, b : /\ Catch!MinOf(a, b) = MinOf(a, b)
                 /\ Catch!SatSub(a, b) = SatSub(a, b)
<1>1. \A J : Catch!Cardinality(J) = Cardinality(J)
  BY DEF Catch!Cardinality, Cardinality, Catch!IsFiniteSet, IsFiniteSet
<1>2. \A w, J : Catch!TotalOf(w, J) = TotalOf(w, J)
  BY <1>1 DEF Catch!TotalOf, TotalOf
<1> QED
  BY <1>1, <1>2 DEF Catch!MinOf, MinOf, Catch!SatSub, SatSub

\* Sets of events are finite.
LEMMA CatchFinite ==
    ASSUME objs \in Seq(Catch!Event)
    PROVE  /\ \A J \in SUBSET DOMAIN objs :
                /\ IsFiniteSet(J) /\ Cardinality(J) \in Nat
                /\ \A K \in SUBSET J : Cardinality(K) <= Cardinality(J)
           /\ \A j \in Nat : Catch!Palpable(1 .. j - 1 \cap DOMAIN objs) \in SUBSET DOMAIN objs
<1>1. DOMAIN objs = 1 .. Len(objs) /\ Len(objs) \in Nat
  OBVIOUS
<1>2. IsFiniteSet(DOMAIN objs)
  BY <1>1, FS_Interval
<1>3. \A J \in SUBSET DOMAIN objs : IsFiniteSet(J) /\ Cardinality(J) \in Nat
  BY <1>2, FS_Subset, FS_CardinalityType
<1>4. ASSUME NEW J \in SUBSET DOMAIN objs, NEW K \in SUBSET J
      PROVE  Cardinality(K) <= Cardinality(J)
  BY <1>3, FS_Subset
<1> QED
  BY <1>3, <1>4 DEF Catch!Palpable

\* Where a palpable object is among the palpable objects
LEMMA CatchBefore ==
    ASSUME objs \in Seq(Catch!Event)
    PROVE  /\ Catch!NPalpable \in Nat
           /\ \A j \in DOMAIN objs :
                /\ Catch!Before(j) \in 0 .. Catch!NPalpable
                /\ Catch!Before(j) < j
                /\ objs[j].kind # "tiny" => Catch!Before(j) < Catch!NPalpable
           /\ \A i, j \in DOMAIN objs :
                i < j /\ objs[i].kind # "tiny" => Catch!Before(i) < Catch!Before(j)
           /\ \A k \in 1 .. Catch!NPalpable :
                \E j \in DOMAIN objs : objs[j].kind # "tiny" /\ Catch!Before(j) = k - 1
<1> DEFINE D == DOMAIN objs
           P(j) == {i \in D : i <= j /\ objs[i].kind # "tiny"}
           N == Cardinality(Catch!Palpable(D))
<1>1. D = 1 .. Len(objs) /\ Len(objs) \in Nat
  OBVIOUS
<1>2. \A j \in D : Catch!Before(j) = Cardinality(P(j - 1))
  <2>1. ASSUME NEW j \in D
        PROVE  Catch!Palpable(1 .. j - 1) = P(j - 1)
    BY <1>1 DEF Catch!Palpable
  <2> QED
    BY <2>1, CatchLibrary DEF Catch!Before
<1>3. Catch!NPalpable = N
  BY CatchLibrary DEF Catch!NPalpable
<1>4. \A j : P(j) \in SUBSET Catch!Palpable(D) /\ P(j) \in SUBSET D
  BY DEF Catch!Palpable
<1>5. Catch!Palpable(D) \in SUBSET D
  BY DEF Catch!Palpable
<1>6. N \in Nat /\ \A j : Cardinality(P(j)) \in Nat /\ Cardinality(P(j)) <= N /\ IsFiniteSet(P(j))
  <2> HIDE DEF D, P
  <2> QED
    BY <1>4, <1>5, CatchFinite DEF D
<1>7. ASSUME NEW j \in D, objs[j].kind # "tiny"
      PROVE  Cardinality(P(j)) = Cardinality(P(j - 1)) + 1
  <2>1. P(j) = P(j - 1) \cup {j} /\ j \notin P(j - 1)
    BY <1>1, <1>7
  <2> HIDE DEF P
  <2> QED
    BY <1>6, <2>1, FS_AddElement
<1>8. \A j \in D : Cardinality(P(j - 1)) < j
  <2>1. ASSUME NEW j \in D
        PROVE  Cardinality(P(j - 1)) < j
    <3>1. P(j - 1) \in SUBSET (1 .. j - 1) /\ j - 1 \in Nat
      BY <1>1
    <3>2. IsFiniteSet(1 .. j - 1) /\ Cardinality(1 .. j - 1) = j - 1
      BY <3>1, FS_Interval
    <3> HIDE DEF P
    <3>3. Cardinality(P(j - 1)) <= j - 1
      BY <3>1, <3>2, FS_Subset
    <3> QED
      BY <1>1, <1>6, <3>3
  <2> QED
    BY <2>1
<1>9. ASSUME NEW j \in D, objs[j].kind # "tiny"
      PROVE  Cardinality(P(j - 1)) < N
  <2> HIDE DEF P, N
  <2>1. Cardinality(P(j)) <= N /\ Cardinality(P(j - 1)) \in Nat /\ N \in Nat
    BY <1>6
  <2> QED
    BY <1>7, <1>9, <2>1
<1>10. ASSUME NEW i \in D, NEW j \in D, i < j, objs[i].kind # "tiny"
       PROVE  Cardinality(P(i - 1)) < Cardinality(P(j - 1))
  <2>1. P(i) \in SUBSET P(j - 1)
    BY <1>1, <1>10
  <2> HIDE DEF P, N
  <2>2. Cardinality(P(i)) <= Cardinality(P(j - 1))
    BY <2>1, <1>6, FS_Subset
  <2> QED
    BY <1>6, <1>7, <1>10, <2>2
<1>11. ASSUME NEW k \in 1 .. N
       PROVE  \E j \in D : objs[j].kind # "tiny" /\ Cardinality(P(j - 1)) = k - 1
  <2>1. Catch!Palpable(D) \in SUBSET (1 .. Len(objs))
    BY <1>1, <1>5
  <2>2. PICK d \in Catch!Palpable(D) : Cardinality({e \in Catch!Palpable(D) : e <= d}) = k
    BY <1>1, <2>1, KthElement
  <2>3. d \in D /\ objs[d].kind # "tiny" /\ {e \in Catch!Palpable(D) : e <= d} = P(d)
    BY DEF Catch!Palpable
  <2> HIDE DEF P, D
  <2>4. Cardinality(P(d)) = Cardinality(P(d - 1)) + 1 /\ Cardinality(P(d - 1)) \in Nat
    BY <1>6, <1>7, <2>3
  <2>5. Cardinality(P(d - 1)) = k - 1
    <3>1. Cardinality(P(d)) = k
      BY <2>2, <2>3
    <3>2. k \in Int
      OBVIOUS
    <3> QED
      BY <2>4, <3>1, <3>2
  <2> QED
    BY <2>3, <2>5
<1> HIDE DEF N, P
<1> QED
  BY <1>1, <1>2, <1>3, <1>6, <1>8, <1>9, <1>10, <1>11

\* Delta k holds one palpable object: a fruit or a droplet.
LEMMA CatchDelta ==
    ASSUME objs \in Seq(Catch!Event), NEW k \in 1 .. Catch!NPalpable
    PROVE  \E p \in Catch!Delta(k) :
               \/ /\ Catch!FruitEvents(Catch!Delta(k)) = {p}
                  /\ Catch!DropletEvents(Catch!Delta(k)) = {}
               \/ /\ Catch!FruitEvents(Catch!Delta(k)) = {}
                  /\ Catch!DropletEvents(Catch!Delta(k)) = {p}
<1>1. PICK p \in DOMAIN objs : objs[p].kind # "tiny" /\ Catch!Before(p) = k - 1
  BY CatchBefore
<1>2. p \in Catch!Delta(k)
  BY <1>1 DEF Catch!Delta
<1>3. ASSUME NEW q \in Catch!Delta(k), objs[q].kind # "tiny"
      PROVE  q = p
  <2>1. q \in DOMAIN objs /\ Catch!Before(q) = k - 1
    BY DEF Catch!Delta
  <2>2. ~(p < q) /\ ~(q < p)
    <3>1. p < q => Catch!Before(p) < Catch!Before(q)
      BY <1>1, <2>1, CatchBefore
    <3>2. q < p => Catch!Before(q) < Catch!Before(p)
      BY <1>1, <1>3, <2>1, CatchBefore
    <3> QED
      BY <1>1, <2>1, <3>1, <3>2
  <2>3. p \in Nat /\ q \in Nat
    BY <2>1
  <2> QED
    BY <2>2, <2>3
<1>4. objs[p].kind \in {"fruit", "droplet"}
  <2>1. objs[p] \in Catch!Event
    OBVIOUS
  <2> QED
    BY <1>1, <2>1 DEF Catch!Event
<1>5. CASE objs[p].kind = "fruit"
  BY <1>2, <1>3, <1>5 DEF Catch!FruitEvents, Catch!DropletEvents
<1>6. CASE objs[p].kind = "droplet"
  BY <1>2, <1>3, <1>6 DEF Catch!FruitEvents, Catch!DropletEvents
<1> QED
  BY <1>4, <1>5, <1>6, <1>2

\* The number carried by an event
CatchWeight == [j \in DOMAIN objs |-> objs[j].n]

\* The events that record tiny droplets
TinyEvents(J) == {j \in J : objs[j].kind = "tiny"}

\* Tiny droplets of disjoint sets of events add up.
LEMMA CatchTiny ==
    ASSUME objs \in Seq(Catch!Event),
           NEW J \in SUBSET DOMAIN objs, NEW K \in SUBSET DOMAIN objs, J \cap K = {}
    PROVE  /\ Catch!TinyDroplets(J \cup K) = Catch!TinyDroplets(J) + Catch!TinyDroplets(K)
           /\ Catch!TinyDroplets(J) \in Nat /\ Catch!TinyDroplets(K) \in Nat
<1>1. \A I : Catch!TinyDroplets(I) = TotalOf(CatchWeight, TinyEvents(I))
  BY CatchLibrary DEF Catch!TinyDroplets, CatchWeight, TinyEvents
<1>2. \A j \in DOMAIN objs : CatchWeight[j] \in Nat
  <2>1. \A j \in DOMAIN objs : objs[j] \in Catch!Event
    OBVIOUS
  <2> QED
    BY <2>1 DEF CatchWeight, Catch!Event
<1>3. /\ TinyEvents(J \cup K) = TinyEvents(J) \cup TinyEvents(K)
      /\ TinyEvents(J) \cap TinyEvents(K) = {}
      /\ TinyEvents(J) \in SUBSET DOMAIN objs /\ TinyEvents(K) \in SUBSET DOMAIN objs
  BY DEF TinyEvents
<1>4. IsFiniteSet(TinyEvents(J)) /\ IsFiniteSet(TinyEvents(K))
  BY <1>3, CatchFinite
<1>5. /\ \A j \in TinyEvents(J) \cup TinyEvents(K) : CatchWeight[j] \in Nat
      /\ \A j \in TinyEvents(J) : CatchWeight[j] \in Nat
      /\ \A j \in TinyEvents(K) : CatchWeight[j] \in Nat
  BY <1>2, <1>3
<1>6. TotalOf(CatchWeight, TinyEvents(J) \cup TinyEvents(K))
        = TotalOf(CatchWeight, TinyEvents(J)) + TotalOf(CatchWeight, TinyEvents(K))
  BY <1>3, <1>4, <1>5, TotalOfDisjoint
<1>7. TotalOf(CatchWeight, TinyEvents(J)) \in Nat /\ TotalOf(CatchWeight, TinyEvents(K)) \in Nat
  BY <1>4, <1>5, TotalType
<1> QED
  BY <1>1, <1>3, <1>6, <1>7

\* Counting deltas on top of others
LEMMA CatchDeltas ==
    ASSUME NEW count, NEW n \in Nat, DOMAIN count = 1 .. n,
           \A k \in 1 .. n : count[k].tiny \in Nat,
           NEW a \in Catch!Counts,
           NEW J \in SUBSET (1 .. n), NEW K \in SUBSET (1 .. n), J \cap K = {}
    PROVE  /\ Catch!AddObjectCounts(a, count, J) \in Catch!Counts
           /\ Catch!AddObjectCounts(Catch!AddObjectCounts(a, count, J), count, K)
                = Catch!AddObjectCounts(a, count, J \cup K)
<1> DEFINE F(I) == Catch!FruitsOf(count, I)
           w == [k \in 1 .. n |-> count[k].tiny]
<1>1. /\ F(J \cup K) = F(J) \cup F(K) /\ F(J) \cap F(K) = {}
      /\ (J \cup K) \ F(J \cup K) = (J \ F(J)) \cup (K \ F(K))
      /\ (J \ F(J)) \cap (K \ F(K)) = {}
      /\ F(J) \in SUBSET J /\ F(K) \in SUBSET K
  BY DEF Catch!FruitsOf
<1>2. IsFiniteSet(J) /\ IsFiniteSet(K)
  <2>1. IsFiniteSet(1 .. n)
    BY FS_Interval
  <2> QED
    BY <2>1, FS_Subset
<1>3. /\ IsFiniteSet(F(J)) /\ IsFiniteSet(F(K))
      /\ IsFiniteSet(J \ F(J)) /\ IsFiniteSet(K \ F(K))
  BY <1>1, <1>2, FS_Subset
<1>4. /\ \A k \in J \cup K : w[k] \in Nat
      /\ \A k \in J : w[k] \in Nat
      /\ \A k \in K : w[k] \in Nat
  OBVIOUS
<1> HIDE DEF F
<1>5. \A I, c : Catch!AddObjectCounts(c, count, I)
                  = [fruits   |-> c.fruits + Cardinality(F(I)),
                     droplets |-> c.droplets + Cardinality(I \ F(I)),
                     tiny     |-> c.tiny + TotalOf(w, I)]
  BY CatchLibrary DEF Catch!AddObjectCounts, Catch!TinyOf, F
<1> HIDE DEF w
<1>6. /\ Cardinality(F(J) \cup F(K)) = Cardinality(F(J)) + Cardinality(F(K))
      /\ Cardinality(F(J)) \in Nat /\ Cardinality(F(K)) \in Nat
  BY <1>1, <1>3, SizeOfDisjoint
<1>7. /\ Cardinality((J \ F(J)) \cup (K \ F(K))) = Cardinality(J \ F(J)) + Cardinality(K \ F(K))
      /\ Cardinality(J \ F(J)) \in Nat /\ Cardinality(K \ F(K)) \in Nat
  BY <1>1, <1>3, SizeOfDisjoint
<1>8. /\ TotalOf(w, J \cup K) = TotalOf(w, J) + TotalOf(w, K)
      /\ TotalOf(w, J) \in Nat /\ TotalOf(w, K) \in Nat
  BY <1>2, <1>4, TotalOfDisjoint, TotalType
<1>9. a.fruits \in Nat /\ a.droplets \in Nat /\ a.tiny \in Nat
  BY DEF Catch!Counts
<1>10. Catch!AddObjectCounts(a, count, J) \in Catch!Counts
  <2>1. Catch!AddObjectCounts(a, count, J)
          = [fruits   |-> a.fruits + Cardinality(F(J)),
             droplets |-> a.droplets + Cardinality(J \ F(J)),
             tiny     |-> a.tiny + TotalOf(w, J)]
    BY <1>5
  <2>2. /\ a.fruits + Cardinality(F(J)) \in Nat /\ a.droplets + Cardinality(J \ F(J)) \in Nat
        /\ a.tiny + TotalOf(w, J) \in Nat
    BY <1>6, <1>7, <1>8, <1>9, SumOfNats, Zenon
  <2> QED
    BY <2>1, <2>2 DEF Catch!Counts
<1>11. Catch!AddObjectCounts(Catch!AddObjectCounts(a, count, J), count, K)
         = [fruits   |-> a.fruits + Cardinality(F(J)) + Cardinality(F(K)),
            droplets |-> a.droplets + Cardinality(J \ F(J)) + Cardinality(K \ F(K)),
            tiny     |-> a.tiny + TotalOf(w, J) + TotalOf(w, K)]
  <2> DEFINE b == [fruits   |-> a.fruits + Cardinality(F(J)),
                   droplets |-> a.droplets + Cardinality(J \ F(J)),
                   tiny     |-> a.tiny + TotalOf(w, J)]
  <2>1. Catch!AddObjectCounts(a, count, J) = b
    BY <1>5
  <2>2. Catch!AddObjectCounts(b, count, K)
          = [fruits   |-> b.fruits + Cardinality(F(K)),
             droplets |-> b.droplets + Cardinality(K \ F(K)),
             tiny     |-> b.tiny + TotalOf(w, K)]
    <3> HIDE DEF b
    <3> QED
      BY <1>5
  <2>3. /\ b.fruits = a.fruits + Cardinality(F(J))
        /\ b.droplets = a.droplets + Cardinality(J \ F(J))
        /\ b.tiny = a.tiny + TotalOf(w, J)
    OBVIOUS
  <2> HIDE DEF b
  <2> QED
    BY <2>1, <2>2, <2>3
<1>12. Catch!AddObjectCounts(a, count, J \cup K)
         = [fruits   |-> a.fruits + (Cardinality(F(J)) + Cardinality(F(K))),
            droplets |-> a.droplets + (Cardinality(J \ F(J)) + Cardinality(K \ F(K))),
            tiny     |-> a.tiny + (TotalOf(w, J) + TotalOf(w, K))]
  BY <1>1, <1>5, <1>6, <1>7, <1>8
<1>13. /\ a.fruits + Cardinality(F(J)) + Cardinality(F(K))
            = a.fruits + (Cardinality(F(J)) + Cardinality(F(K)))
       /\ a.droplets + Cardinality(J \ F(J)) + Cardinality(K \ F(K))
            = a.droplets + (Cardinality(J \ F(J)) + Cardinality(K \ F(K)))
       /\ a.tiny + TotalOf(w, J) + TotalOf(w, K) = a.tiny + (TotalOf(w, J) + TotalOf(w, K))
  BY ONLY <1>6, <1>7, <1>8, <1>9
<1> QED
  BY <1>10, <1>11, <1>12, <1>13

\* There is a delta for every palpable object.
LEMMA CatchGradualCounts ==
    ASSUME objs \in Seq(Catch!Event)
    PROVE  /\ Catch!NPalpable \in Nat
           /\ DOMAIN Catch!GradualCounts = 1 .. Catch!NPalpable
           /\ Len(Catch!GradualCounts) = Catch!NPalpable
           /\ Catch!GradualCounts \in Seq([fruit : BOOLEAN, tiny : Nat])
           /\ \A k \in 1 .. Catch!NPalpable : Catch!GradualCounts[k].tiny \in Nat
<1>1. Catch!NPalpable \in Nat
  BY CatchBefore
<1>2. \A k \in 1 .. Catch!NPalpable : Catch!TinyDroplets(Catch!Delta(k)) \in Nat
  <2>1. \A k \in 1 .. Catch!NPalpable : Catch!Delta(k) \in SUBSET DOMAIN objs
    BY DEF Catch!Delta
  <2>2. {} \in SUBSET DOMAIN objs /\ \A J : J \cap {} = {}
    OBVIOUS
  <2> QED
    BY <2>1, <2>2, CatchTiny
<1> QED
  BY <1>1, <1>2 DEF Catch!GradualCounts

\* One object more in the ordinary calculation is one delta more.
LEMMA CatchOneMore ==
    ASSUME objs \in Seq(Catch!Event), NEW k \in Nat, k < Catch!NPalpable
    PROVE  Catch!AddObjectCounts(Catch!RegularCount(k), Catch!GradualCounts, {k + 1})
             = Catch!RegularCount(k + 1)
<1> DEFINE R == Catch!Recorded(k)
           E == Catch!Delta(k + 1)
           FR(J) == Catch!FruitEvents(J)
           DR(J) == Catch!DropletEvents(J)
           TD(J) == Catch!TinyDroplets(J)
           fruit == Catch!FruitEvents(E) # {}
<1>1. k + 1 \in 1 .. Catch!NPalpable /\ Catch!NPalpable \in Nat
  BY CatchBefore
<1>2. Catch!Recorded(k + 1) = R \cup E /\ R \cap E = {}
  <2>1. \A j \in DOMAIN objs : Catch!Before(j) \in Nat
    BY CatchBefore
  <2>2. \A j \in DOMAIN objs : /\ Catch!Before(j) < k + 1
                                    <=> (Catch!Before(j) < k \/ Catch!Before(j) = k + 1 - 1)
                               /\ ~(Catch!Before(j) < k /\ Catch!Before(j) = k + 1 - 1)
    BY <2>1
  <2> QED
    BY <2>2 DEF Catch!Recorded, Catch!Delta
<1>3. R \in SUBSET DOMAIN objs /\ E \in SUBSET DOMAIN objs
  BY DEF Catch!Recorded, Catch!Delta
<1> HIDE DEF R, E
<1>4. TD(R \cup E) = TD(R) + TD(E) /\ TD(R) \in Nat /\ TD(E) \in Nat
  BY <1>2, <1>3, CatchTiny
<1>5. /\ FR(R \cup E) = FR(R) \cup FR(E) /\ FR(R) \cap FR(E) = {}
      /\ DR(R \cup E) = DR(R) \cup DR(E) /\ DR(R) \cap DR(E) = {}
      /\ FR(R) \in SUBSET DOMAIN objs /\ FR(E) \in SUBSET DOMAIN objs
      /\ DR(R) \in SUBSET DOMAIN objs /\ DR(E) \in SUBSET DOMAIN objs
  BY <1>2, <1>3 DEF Catch!FruitEvents, Catch!DropletEvents
<1>6. /\ Cardinality(FR(R \cup E)) = Cardinality(FR(R)) + Cardinality(FR(E))
      /\ Cardinality(DR(R \cup E)) = Cardinality(DR(R)) + Cardinality(DR(E))
      /\ Cardinality(FR(R)) \in Nat /\ Cardinality(DR(R)) \in Nat
  <2> HIDE DEF FR, DR
  <2>1. IsFiniteSet(FR(R)) /\ IsFiniteSet(FR(E)) /\ IsFiniteSet(DR(R)) /\ IsFiniteSet(DR(E))
    BY <1>5, CatchFinite
  <2> QED
    BY <1>5, <2>1, SizeOfDisjoint
<1>7. /\ Cardinality(FR(E)) = IF fruit THEN 1 ELSE 0
      /\ Cardinality(DR(E)) = IF fruit THEN 0 ELSE 1
  <2>1. PICK p : \/ FR(E) = {p} /\ DR(E) = {}
                 \/ FR(E) = {} /\ DR(E) = {p}
    BY <1>1, CatchDelta DEF E
  <2>2. Cardinality({p}) = 1 /\ Cardinality({}) = 0 /\ {p} # {}
    BY FS_Singleton, FS_EmptySet
  <2> QED
    BY <2>1, <2>2
<1>8. Catch!GradualCounts[k + 1] = [fruit |-> fruit, tiny |-> TD(E)]
  BY <1>1 DEF Catch!GradualCounts, E
<1> HIDE DEF fruit, FR, DR, TD
<1>9. /\ Cardinality(Catch!FruitsOf(Catch!GradualCounts, {k + 1})) = IF fruit THEN 1 ELSE 0
      /\ Cardinality({k + 1} \ Catch!FruitsOf(Catch!GradualCounts, {k + 1}))
            = IF fruit THEN 0 ELSE 1
  <2>1. Catch!FruitsOf(Catch!GradualCounts, {k + 1}) = IF fruit THEN {k + 1} ELSE {}
    <3>1. Catch!GradualCounts[k + 1].fruit = fruit
      BY <1>8
    <3>2. CASE fruit
      BY <3>1, <3>2 DEF Catch!FruitsOf
    <3>3. CASE ~fruit
      BY <3>1, <3>3 DEF Catch!FruitsOf
    <3> QED
      BY <3>2, <3>3
  <2>2. Cardinality({k + 1}) = 1 /\ Cardinality({}) = 0
    BY FS_Singleton, FS_EmptySet
  <2>3. {k + 1} \ {k + 1} = {} /\ {k + 1} \ {} = {k + 1}
    OBVIOUS
  <2>4. CASE fruit
    BY <2>1, <2>2, <2>3, <2>4
  <2>5. CASE ~fruit
    BY <2>1, <2>2, <2>3, <2>5
  <2> QED
    BY <2>4, <2>5
<1>10. Catch!TinyOf(Catch!GradualCounts, {k + 1}) = TD(E)
  <2> DEFINE w == [j \in DOMAIN Catch!GradualCounts |-> Catch!GradualCounts[j].tiny]
  <2>1. w[k + 1] = TD(E)
    BY <1>1, <1>8, CatchGradualCounts
  <2> HIDE DEF w
  <2>2. TotalOf(w, {k + 1}) = TD(E)
    BY <1>4, <2>1, TotalOfSingleton
  <2> QED
    BY <2>2, CatchLibrary DEF Catch!TinyOf, w
<1>11. /\ Catch!RegularCount(k) = [fruits |-> Cardinality(FR(R)), droplets |-> Cardinality(DR(R)),
                                   tiny |-> TD(R)]
       /\ Catch!RegularCount(k + 1) = [fruits |-> Cardinality(FR(R \cup E)),
                                       droplets |-> Cardinality(DR(R \cup E)),
                                       tiny |-> TD(R \cup E)]
  BY <1>2, CatchLibrary DEF Catch!RegularCount, R, FR, DR, TD
<1>12. Catch!AddObjectCounts(Catch!RegularCount(k), Catch!GradualCounts, {k + 1})
         = [fruits   |-> Cardinality(FR(R)) + (IF fruit THEN 1 ELSE 0),
            droplets |-> Cardinality(DR(R)) + (IF fruit THEN 0 ELSE 1),
            tiny     |-> TD(R) + TD(E)]
  BY <1>9, <1>10, <1>11, CatchLibrary DEF Catch!AddObjectCounts
<1> QED
  BY <1>4, <1>6, <1>7, <1>11, <1>12

\* Adding up the first k deltas gives the counts of the ordinary calculation
\* with passed_objects = k: by induction, on the least k for which it does not.
LEMMA CatchFirstDeltas ==
    ASSUME objs \in Seq(Catch!Event), NEW k \in 0 .. Catch!NPalpable
    PROVE  Catch!AddObjectCounts(Catch!ZeroCount, Catch!GradualCounts, 1 .. k)
             = Catch!RegularCount(k)
<1> DEFINE G(i) == Catch!AddObjectCounts(Catch!ZeroCount, Catch!GradualCounts, 1 .. i)
           T == {i \in 0 .. Catch!NPalpable : G(i) # Catch!RegularCount(i)}
<1>1. Catch!NPalpable \in Nat
  BY CatchBefore
<1>2. SUFFICES ASSUME k \in T
               PROVE  FALSE
  OBVIOUS
<1>3. PICK i \in T : \A j \in T : i <= j
  <2>1. T \in SUBSET Nat /\ T # {}
    BY <1>1, <1>2
  <2> HIDE DEF T
  <2> QED
    BY <2>1, LeastNatural
<1>4. i \in 0 .. Catch!NPalpable /\ G(i) # Catch!RegularCount(i)
  BY <1>3
<1>5. Catch!ZeroCount \in Catch!Counts
  BY DEF Catch!ZeroCount, Catch!Counts
<1>6. i # 0
  <2>1. 1 .. 0 = {} /\ Catch!Recorded(0) = {}
    <3>1. \A j \in DOMAIN objs : Catch!Before(j) \in Nat /\ ~(Catch!Before(j) < 0)
      BY CatchBefore
    <3> QED
      BY <3>1 DEF Catch!Recorded
  <2>2. /\ Catch!FruitsOf(Catch!GradualCounts, {}) = {} /\ {} \ {} = {}
        /\ Catch!FruitEvents({}) = {} /\ Catch!DropletEvents({}) = {}
        /\ {j \in {} : objs[j].kind = "tiny"} = {}
    BY DEF Catch!FruitsOf, Catch!FruitEvents, Catch!DropletEvents
  <2>3. Cardinality({}) = 0 /\ \A w : TotalOf(w, {}) = 0
    BY FS_EmptySet, TotalOfEmpty
  <2>4. G(0) = [fruits |-> 0, droplets |-> 0, tiny |-> 0]
    <3>1. G(0) = [fruits |-> 0 + 0, droplets |-> 0 + 0, tiny |-> 0 + 0]
      <4>1. Catch!TinyOf(Catch!GradualCounts, {}) = 0
        BY <2>3, CatchLibrary DEF Catch!TinyOf
      <4>2. /\ Catch!ZeroCount.fruits = 0 /\ Catch!ZeroCount.droplets = 0
            /\ Catch!ZeroCount.tiny = 0
        BY DEF Catch!ZeroCount
      <4> QED
        BY <2>1, <2>2, <2>3, <4>1, <4>2, CatchLibrary DEF Catch!AddObjectCounts
    <3> QED
      BY <3>1
  <2>5. Catch!RegularCount(0) = [fruits |-> 0, droplets |-> 0, tiny |-> 0]
    BY <2>1, <2>2, <2>3, CatchLibrary DEF Catch!RegularCount, Catch!TinyDroplets
  <2> QED
    BY <1>4, <2>4, <2>5
<1>7. i - 1 \in Nat /\ i - 1 < Catch!NPalpable /\ i - 1 + 1 = i
  BY <1>1, <1>4, <1>6
<1>8. G(i - 1) = Catch!RegularCount(i - 1)
  <2>1. i - 1 \notin T
    <3>1. ~(i <= i - 1)
      BY <1>4
    <3> HIDE DEF T
    <3> QED
      BY <1>3, <3>1
  <2>2. i - 1 \in 0 .. Catch!NPalpable
    BY <1>1, <1>7
  <2> QED
    BY <2>1, <2>2
<1>9. G(i) = Catch!AddObjectCounts(G(i - 1), Catch!GradualCounts, {i})
  <2>1. /\ (1 .. i - 1) \cup {i} = 1 .. i /\ (1 .. i - 1) \cap {i} = {}
        /\ 1 .. i - 1 \in SUBSET (1 .. Catch!NPalpable) /\ {i} \in SUBSET (1 .. Catch!NPalpable)
    BY <1>1, <1>4, <1>7
  <2> DEFINE J == 1 .. i - 1
             c == Catch!GradualCounts
  <2>2. DOMAIN c = 1 .. Catch!NPalpable /\ \A j \in 1 .. Catch!NPalpable : c[j].tiny \in Nat
    BY CatchGradualCounts
  <2> HIDE DEF J, c
  <2>3. Catch!AddObjectCounts(Catch!AddObjectCounts(Catch!ZeroCount, c, J), c, {i})
          = Catch!AddObjectCounts(Catch!ZeroCount, c, J \cup {i})
    BY <1>1, <1>5, <2>1, <2>2, CatchDeltas DEF J
  <2> QED
    BY <2>1, <2>3 DEF J, c
<1>10. Catch!AddObjectCounts(Catch!RegularCount(i - 1), Catch!GradualCounts, {i})
         = Catch!RegularCount(i)
  BY <1>7, CatchOneMore
<1> QED
  BY <1>4, <1>8, <1>9, <1>10

\* The counts after k items
CatchCounts(k) == Catch!AddObjectCounts(Catch!ZeroCount, Catch!GradualCounts, 1 .. k)

\* The struct by its fields
CatchStruct(i, c, g, p) == [idx |-> i, counts |-> c, count |-> g, movement |-> p]

\* The struct after k items
CatchAt(k) ==
    CatchStruct(k, CatchCounts(k), Catch!GradualCounts, Catch!Process(<<>>, 1, SatSub(k, 1)))

\* Reading and updating a field of a struct
LEMMA CatchFields ==
    ASSUME NEW i, NEW c, NEW g, NEW p
    PROVE  /\ CatchStruct(i, c, g, p).idx = i
           /\ CatchStruct(i, c, g, p).counts = c
           /\ CatchStruct(i, c, g, p).count = g
           /\ CatchStruct(i, c, g, p).movement = p
           /\ \A x : [CatchStruct(i, c, g, p) EXCEPT !.idx = x] = CatchStruct(x, c, g, p)
           /\ \A x : [CatchStruct(i, c, g, p) EXCEPT !.counts = x] = CatchStruct(i, x, g, p)
           /\ \A x : [CatchStruct(i, c, g, p) EXCEPT !.movement = x] = CatchStruct(i, c, g, x)
BY DEF CatchStruct

\* What consuming and counting do to the fields of a struct
LEMMA CatchSteps ==
    ASSUME NEW i, NEW c, NEW g, NEW p
    PROVE  /\ \A from, to : Catch!Consume(CatchStruct(i, c, g, p), from, to)
                = CatchStruct(i, Catch!AddObjectCounts(c, g, from + 1 .. to + 1), g,
                              Catch!Process(p, from, to))
           /\ Catch!CountFirst(CatchStruct(i, c, g, p))
                = CatchStruct(i, Catch!AddObjectCounts(c, g, {1}), g, p)
<1> DEFINE s == CatchStruct(i, c, g, p)
<1>1. s.movement = p /\ s.counts = c /\ s.count = g
  BY CatchFields
<1>2. ASSUME NEW from, NEW to
      PROVE  Catch!Consume(s, from, to)
                = CatchStruct(i, Catch!AddObjectCounts(c, g, from + 1 .. to + 1), g,
                              Catch!Process(p, from, to))
  <2> DEFINE q == Catch!Process(p, from, to)
             d == Catch!AddObjectCounts(c, g, from + 1 .. to + 1)
  <2>1. Catch!Consume(s, from, to) = [s EXCEPT !.movement = q, !.counts = d]
    BY <1>1 DEF Catch!Consume
  <2> HIDE DEF q, d
  <2>2. [s EXCEPT !.movement = q] = CatchStruct(i, c, g, q)
    BY CatchFields
  <2>3. [CatchStruct(i, c, g, q) EXCEPT !.counts = d] = CatchStruct(i, d, g, q)
    BY CatchFields
  <2>4. [s EXCEPT !.movement = q, !.counts = d] = [[s EXCEPT !.movement = q] EXCEPT !.counts = d]
    OBVIOUS
  <2> QED
    BY <2>1, <2>2, <2>3, <2>4 DEF q, d
<1>3. Catch!CountFirst(s) = CatchStruct(i, Catch!AddObjectCounts(c, g, {1}), g, p)
  <2>1. Catch!CountFirst(s) = [s EXCEPT !.counts = Catch!AddObjectCounts(c, g, {1})]
    BY <1>1 DEF Catch!CountFirst
  <2> QED
    BY <2>1, CatchFields
<1> QED
  BY <1>2, <1>3

\* Counting the deltas after k on top of those up to k counts all of them.
LEMMA CatchCountMore ==
    ASSUME objs \in Seq(Catch!Event), NEW k \in Nat, NEW m \in 0 .. Catch!NPalpable, k <= m
    PROVE  /\ CatchCounts(m) \in Catch!Counts
           /\ Catch!AddObjectCounts(CatchCounts(k), Catch!GradualCounts, k + 1 .. m) = CatchCounts(m)
<1> DEFINE c == Catch!GradualCounts
           N == Catch!NPalpable
           J == 1 .. k
           K == k + 1 .. m
<1>1. N \in Nat /\ DOMAIN c = 1 .. N /\ \A i \in 1 .. N : c[i].tiny \in Nat
  BY CatchGradualCounts
<1>2. Catch!ZeroCount \in Catch!Counts
  BY DEF Catch!ZeroCount, Catch!Counts
<1>3. /\ J \in SUBSET (1 .. N) /\ K \in SUBSET (1 .. N) /\ 1 .. m \in SUBSET (1 .. N)
      /\ J \cap K = {} /\ J \cup K = 1 .. m
  BY <1>1
<1> HIDE DEF c, N, J, K
<1>4. Catch!AddObjectCounts(Catch!AddObjectCounts(Catch!ZeroCount, c, J), c, K)
        = Catch!AddObjectCounts(Catch!ZeroCount, c, J \cup K)
  BY <1>1, <1>2, <1>3, CatchDeltas
<1>5. Catch!AddObjectCounts(Catch!ZeroCount, c, 1 .. m) \in Catch!Counts
  <2>1. {} \in SUBSET (1 .. N) /\ (1 .. m) \cap {} = {}
    OBVIOUS
  <2> QED
    BY <1>1, <1>2, <1>3, <2>1, CatchDeltas
<1> QED
  BY <1>3, <1>4, <1>5 DEF CatchCounts, c, J, K

\* A skill that saw the difficulty objects up to a and is given those up to b
\* saw those up to b.
LEMMA CatchProcessMore ==
    ASSUME NEW a \in Nat, NEW b \in Nat, a <= b
    PROVE  /\ Catch!Process(Catch!Process(<<>>, 1, a), a + 1, b) = Catch!Process(<<>>, 1, b)
           /\ Catch!Process(<<>>, 1, a) \in Seq(Nat)
BY ManiaProcessMore DEF Catch!Process, Mania!Process

\* How many difficulty objects and deltas there are
LEMMA CatchSizes ==
    ASSUME objs \in Seq(Catch!Event)
    PROVE  /\ Catch!NPalpable \in Nat /\ Catch!NDiffObjects \in Nat
           /\ Catch!NPalpable = 0 => Catch!NDiffObjects = 0 /\ Catch!GradualCounts = <<>>
           /\ Catch!NPalpable > 0 => /\ Catch!NPalpable = Catch!NDiffObjects + 1
                                     /\ Catch!GradualCounts # <<>>
<1>1. /\ Catch!NPalpable \in Nat /\ Len(Catch!GradualCounts) = Catch!NPalpable
      /\ Catch!GradualCounts \in Seq([fruit : BOOLEAN, tiny : Nat])
  BY CatchGradualCounts
<1>2. Catch!NPalpable = 0 <=> Catch!GradualCounts = <<>>
  BY <1>1, EmptySeq, SeqEqual
<1>3. Catch!NDiffObjects = SatSub(Catch!NPalpable, 1)
  BY CatchLibrary DEF Catch!NDiffObjects
<1> QED
  BY <1>1, <1>2, <1>3 DEF SatSub

\* The skipping part of nth, from k items
LEMMA CatchSkipAt ==
    ASSUME objs \in Seq(Catch!Event), NEW n \in Nat, NEW k \in 0 .. Catch!NPalpable
    PROVE  Catch!Skipped(CatchAt(k), n)
             = CatchAt(IF k < Catch!NPalpable THEN MinOf(k + n, Catch!NPalpable - 1) ELSE k)
<1> DEFINE N == Catch!NPalpable
           D == Catch!NDiffObjects
           c == Catch!GradualCounts
           s == CatchAt(k)
           start   == SatSub(k, 1)
           wanted  == MinOf(n, SatSub(D + 1 - k, 1))
           isFirst == k = 0 /\ wanted > 0
           stop    == MinOf(start + (IF isFirst THEN wanted - 1 ELSE wanted), D)
           m == IF k < N THEN MinOf(k + n, N - 1) ELSE k
           begun == IF isFirst THEN Catch!CountFirst(s) ELSE s
           counted == IF isFirst THEN 1 ELSE k
           p(i) == Catch!Process(<<>>, 1, SatSub(i, 1))
<1>1. D \in Nat /\ N \in Nat /\ k \in Nat /\ k <= N
      /\ (N = 0 => D = 0) /\ (N > 0 => N = D + 1)
  BY CatchSizes
<1>2. s.idx = k
  BY CatchFields DEF CatchAt
<1>3. /\ k + (stop - start) + (IF isFirst THEN 1 ELSE 0) = m
      /\ stop = SatSub(m, 1)
      /\ isFirst <=> (k = 0 /\ m > 0)
  <2> HIDE DEF N, D
  <2>1. CASE k < N
    <3>1. m = MinOf(k + n, D) /\ k \in 0 .. D
      BY <1>1, <2>1
    <3> HIDE DEF m
    <3>2. /\ k + (stop - start) + (IF isFirst THEN 1 ELSE 0) = MinOf(k + n, D)
          /\ stop = SatSub(MinOf(k + n, D), 1)
          /\ isFirst <=> (k = 0 /\ MinOf(k + n, D) > 0)
      BY <1>1, <3>1, SkipArithmetic
    <3> QED
      BY <3>1, <3>2
  <2>2. CASE k = 0 /\ D = 0 /\ ~(k < N)
    <3>1. MinOf(k + n, D) = k /\ m = k /\ k \in 0 .. D
      BY <2>2 DEF MinOf
    <3> HIDE DEF m
    <3>2. /\ k + (stop - start) + (IF isFirst THEN 1 ELSE 0) = MinOf(k + n, D)
          /\ stop = SatSub(MinOf(k + n, D), 1)
          /\ isFirst <=> (k = 0 /\ MinOf(k + n, D) > 0)
      BY <1>1, <3>1, SkipArithmetic
    <3> QED
      BY <3>1, <3>2
  <2>3. CASE k = D + 1 /\ ~(k < N)
    <3>1. SatSub(m, 1) = D /\ k # 0 /\ m = k
      BY <1>1, <2>3 DEF SatSub
    <3>2. k + (stop - start) + (IF isFirst THEN 1 ELSE 0) = k /\ stop = D
      BY <1>1, <2>3, SkipNothing
    <3> QED
      BY <3>1, <3>2
  <2> QED
    BY <1>1, <2>1, <2>2, <2>3
<1>4. m \in 0 .. N /\ k <= m /\ m \in Nat
  <2> HIDE DEF N
  <2> QED
    BY <1>1 DEF MinOf
<1>5. Catch!Skipped(s, n) = [Catch!Consume(begun, start + 1, stop) EXCEPT
                                !.idx = @ + (stop - start) + (IF isFirst THEN 1 ELSE 0)]
  BY <1>2, CatchLibrary DEF Catch!Skipped, Catch!RemainingLen
<1> HIDE DEF m
<1>6. counted \in Nat /\ counted <= m /\ begun = CatchStruct(k, CatchCounts(counted), c, p(k))
  <2>1. CASE isFirst
    <3>1. k = 0 /\ m >= 1 /\ counted = 1
      BY <1>3, <1>4, <2>1
    <3>2. Catch!AddObjectCounts(CatchCounts(k), c, k + 1 .. 1) = CatchCounts(1)
      <4>1. 1 \in 0 .. Catch!NPalpable /\ k <= 1
        BY <1>1, <1>4, <3>1
      <4> QED
        BY <1>1, <4>1, CatchCountMore
    <3>3. k + 1 .. 1 = {1}
      BY <3>1
    <3>4. Catch!CountFirst(s) = CatchStruct(k, Catch!AddObjectCounts(CatchCounts(k), c, {1}), c, p(k))
      BY CatchSteps DEF CatchAt
    <3> QED
      BY <2>1, <3>1, <3>2, <3>3, <3>4
  <2>2. CASE ~isFirst
    <3>1. counted = k /\ begun = s
      BY <2>2
    <3> QED
      BY <1>1, <1>4, <3>1 DEF CatchAt
  <2> QED
    BY <2>1, <2>2
<1>7. start + 1 + 1 .. stop + 1 = counted + 1 .. m
  <2>1. CASE isFirst
    <3>1. k = 0 /\ m >= 1 /\ counted = 1 /\ start = 0 /\ stop = m - 1
      BY <1>3, <1>4, <2>1 DEF SatSub
    <3> HIDE DEF start, stop, counted, isFirst
    <3> QED
      BY <1>4, <3>1
  <2>2. CASE ~isFirst /\ k = 0
    <3>1. m = 0 /\ counted = 0 /\ start = 0 /\ stop = 0
      BY <1>3, <1>4, <2>2 DEF SatSub
    <3> HIDE DEF start, stop, counted, isFirst
    <3> QED
      BY <3>1
  <2>3. CASE k > 0
    <3>1. counted = k /\ start = k - 1 /\ stop = m - 1
      BY <1>1, <1>3, <1>4, <2>3 DEF SatSub
    <3> HIDE DEF start, stop, counted, isFirst
    <3> QED
      BY <1>1, <1>4, <3>1
  <2> QED
    BY <1>1, <2>1, <2>2, <2>3
<1>8. Catch!Consume(begun, start + 1, stop) = CatchStruct(k, CatchCounts(m), c, p(m))
  <2>1. Catch!AddObjectCounts(CatchCounts(counted), c, counted + 1 .. m) = CatchCounts(m)
    BY <1>4, <1>6, CatchCountMore
  <2>2. Catch!Process(p(k), start + 1, stop) = p(m)
    <3>1. SatSub(k, 1) \in Nat /\ SatSub(m, 1) \in Nat /\ SatSub(k, 1) <= SatSub(m, 1)
      BY <1>1, <1>4 DEF SatSub
    <3> QED
      BY <1>3, <3>1, CatchProcessMore
  <2> HIDE DEF begun, counted, start, stop, c, p
  <2>3. Catch!Consume(begun, start + 1, stop)
          = CatchStruct(k, Catch!AddObjectCounts(CatchCounts(counted), c,
                                                 start + 1 + 1 .. stop + 1), c,
                        Catch!Process(p(k), start + 1, stop))
    BY <1>6, CatchSteps
  <2> QED
    BY <1>7, <2>1, <2>2, <2>3
<1>9. [CatchStruct(k, CatchCounts(m), c, p(m)) EXCEPT
          !.idx = @ + (stop - start) + (IF isFirst THEN 1 ELSE 0)]
        = CatchStruct(m, CatchCounts(m), c, p(m))
  <2> DEFINE d == CatchCounts(m)
             q == p(m)
  <2> HIDE DEF d, q, c, stop, start, isFirst
  <2>1. [CatchStruct(k, d, c, q) EXCEPT !.idx = @ + (stop - start) + (IF isFirst THEN 1 ELSE 0)]
          = CatchStruct(k + (stop - start) + (IF isFirst THEN 1 ELSE 0), d, c, q)
    BY DEF CatchStruct
  <2> QED
    BY <1>3, <2>1 DEF d, q
<1> HIDE DEF begun, stop, start, isFirst
<1>10. Catch!Skipped(s, n) = CatchStruct(m, CatchCounts(m), c, p(m))
  BY <1>5, <1>8, <1>9
<1> QED
  BY <1>10 DEF m, CatchAt

\* A call that passes over n items from position k, but never over the last
CatchMove(k, n) ==
    IF k < Catch!NPalpable
    THEN LET m == MinOf(k + n + 1, Catch!NPalpable)
         IN  it' = CatchAt(m) /\ ret' = <<Catch!Calculate(m)>>
    ELSE it' = CatchAt(k) /\ ret' = <<>>

\* eval on the struct of k items gives what the calculation of k items gives.
LEMMA CatchEvalAt ==
    ASSUME objs \in Seq(Catch!Event), NEW k \in 1 .. Catch!NPalpable
    PROVE  Catch!Calculate(k) = Catch!Attrs(CatchAt(k).counts, CatchAt(k).movement)
<1>1. CatchCounts(k) = Catch!RegularCount(k)
  <2>1. k \in 0 .. Catch!NPalpable
    OBVIOUS
  <2> QED
    BY <2>1, CatchFirstDeltas DEF CatchCounts
<1>2. MinOf(k, Catch!NPalpable) = k
  BY CatchSizes DEF MinOf
<1> QED
  BY <1>1, <1>2, CatchFields, CatchLibrary DEF CatchAt, Catch!Calculate

\* next from k items
LEMMA CatchNextAt ==
    ASSUME objs \in Seq(Catch!Event), NEW k \in 0 .. Catch!NPalpable, Catch!NextFrom(CatchAt(k))
    PROVE  CatchMove(k, 0)
<1> DEFINE s == CatchAt(k)
           N == Catch!NPalpable
           c == Catch!GradualCounts
<1>1. s.idx = k /\ s.count = c
  BY CatchFields DEF CatchAt
<1>2. N \in Nat /\ k \in Nat
  BY CatchSizes
<1>3. CASE k < N
  <2>1. /\ k + 1 \in 1 .. N /\ k + 1 \in 0 .. N /\ MinOf(k + 0 + 1, N) = k + 1
        /\ k <= Catch!NDiffObjects /\ c # <<>>
    <3>1. N = Catch!NDiffObjects + 1 /\ Catch!NDiffObjects \in Nat /\ c # <<>>
      BY <1>2, <1>3, CatchSizes
    <3> HIDE DEF N, c
    <3> QED
      BY <1>2, <1>3, <3>1 DEF MinOf
  <2>2. Catch!HasNext(s)
    BY <1>1, <2>1 DEF Catch!HasNext
  <2>3. Catch!AddObjectCounts(CatchCounts(k), c, k + 1 .. k + 1) = CatchCounts(k + 1)
    <3>1. PICK m \in 0 .. N : m = k + 1 /\ k <= m
      BY <1>2, <2>1
    <3>2. Catch!AddObjectCounts(CatchCounts(k), c, k + 1 .. m) = CatchCounts(m)
      BY <1>2, <3>1, CatchCountMore
    <3> QED
      BY <3>1, <3>2
  <2>4. (IF s.idx > 0 THEN Catch!Consume(s, s.idx, s.idx) ELSE Catch!CountFirst(s))
           = CatchStruct(k, CatchCounts(k + 1), c, Catch!Process(<<>>, 1, k))
    <3>1. CASE k = 0
      <4>1. k + 1 .. k + 1 = {1} /\ SatSub(k, 1) = k
        BY <3>1 DEF SatSub
      <4>2. Catch!CountFirst(s) = CatchStruct(k, Catch!AddObjectCounts(CatchCounts(k), c, {1}), c,
                                              Catch!Process(<<>>, 1, k))
        BY <4>1, CatchSteps DEF CatchAt
      <4> QED
        BY <1>1, <2>3, <3>1, <4>1, <4>2
    <3>2. CASE k > 0
      <4>1. SatSub(k, 1) + 1 = k /\ SatSub(k, 1) \in Nat /\ SatSub(k, 1) <= k
        BY <1>2, <3>2 DEF SatSub
      <4>2. Catch!Process(Catch!Process(<<>>, 1, SatSub(k, 1)), SatSub(k, 1) + 1, k)
              = Catch!Process(<<>>, 1, k)
        BY <1>2, <4>1, CatchProcessMore
      <4>3. Catch!Consume(s, k, k)
              = CatchStruct(k, Catch!AddObjectCounts(CatchCounts(k), c, k + 1 .. k + 1), c,
                            Catch!Process(Catch!Process(<<>>, 1, SatSub(k, 1)), k, k))
        <5> DEFINE p == Catch!Process(<<>>, 1, SatSub(k, 1))
        <5>1. s = CatchStruct(k, CatchCounts(k), c, p)
          BY DEF CatchAt
        <5> HIDE DEF s, p, c
        <5> DEFINE f == SatSub(k, 1) + 1
        <5>2. f = k
          BY <4>1
        <5> HIDE DEF f
        <5>3. Catch!Consume(CatchStruct(k, CatchCounts(k), c, p), f, k)
                = CatchStruct(k, Catch!AddObjectCounts(CatchCounts(k), c, f + 1 .. k + 1), c,
                              Catch!Process(p, f, k))
          BY CatchSteps
        <5> QED
          BY <5>1, <5>2, <5>3 DEF p
      <4> QED
        BY <1>1, <2>3, <3>2, <4>1, <4>2, <4>3
    <3> QED
      BY <1>2, <3>1, <3>2
  <2>5. Catch!Advanced(s) = CatchAt(k + 1)
    <3>1. Catch!Advanced(s)
            = [CatchStruct(k, CatchCounts(k + 1), c, Catch!Process(<<>>, 1, k)) EXCEPT !.idx = @ + 1]
      BY <2>4 DEF Catch!Advanced
    <3>2. SatSub(k + 1, 1) = k
      BY <1>2 DEF SatSub
    <3> QED
      BY <3>1, <3>2, CatchFields DEF CatchAt
  <2>6. it' = CatchAt(k + 1) /\ ret' = <<Catch!Attrs(it'.counts, it'.movement)>>
    BY <2>2, <2>5 DEF Catch!NextFrom
  <2>7. ret' = <<Catch!Calculate(k + 1)>>
    BY <2>1, <2>6, CatchEvalAt
  <2> QED
    BY <1>3, <2>1, <2>6, <2>7 DEF CatchMove
<1>4. CASE k = N
  <2>1. ~Catch!HasNext(s)
    BY <1>1, <1>4, CatchSizes DEF Catch!HasNext
  <2> QED
    BY <1>2, <1>4, <2>1 DEF Catch!NextFrom, CatchMove
<1> QED
  BY <1>2, <1>3, <1>4

\* The position determines the struct and the value returned.
CatchInv ==
    /\ objs \in CatchMaps
    /\ it.idx \in 0 .. Catch!NPalpable
    /\ it = CatchAt(it.idx)
    /\ \/ ret = <<>>
       \/ it.idx > 0 /\ ret = <<Catch!Calculate(it.idx)>>

\* What the assumption says of a map
LEMMA CatchTypes ==
    ASSUME objs \in CatchMaps
    PROVE  objs \in Seq(Catch!Event) /\ (objs # <<>> => objs[Len(objs)].kind = "fruit")
BY ModesAssumption DEF Catch!MapsAssumption

\* Every call is a move.
LEMMA CatchMoves ==
    ASSUME CatchInv
    PROVE  /\ Catch!NextCall => CatchMove(it.idx, 0) /\ UNCHANGED objs
           /\ \A n \in Nat : Catch!NthCall(n) => CatchMove(it.idx, n) /\ UNCHANGED objs
<1> DEFINE k == it.idx
           N == Catch!NPalpable
<1>1. objs \in Seq(Catch!Event) /\ k \in 0 .. N /\ k \in Nat /\ N \in Nat /\ it = CatchAt(k)
  BY CatchTypes, CatchSizes DEF CatchInv
<1> HIDE DEF k
<1>2. Catch!NextCall => CatchMove(k, 0) /\ UNCHANGED objs
  BY <1>1, CatchNextAt DEF Catch!NextCall
<1>3. ASSUME NEW n \in Nat, Catch!NthCall(n)
      PROVE  CatchMove(k, n) /\ UNCHANGED objs
  <2> DEFINE m == IF k < N THEN MinOf(k + n, N - 1) ELSE k
  <2>1. Catch!NextFrom(CatchAt(m))
    BY <1>1, <1>3, CatchSkipAt DEF Catch!NthCall
  <2>2. /\ m \in 0 .. N /\ (m < N <=> k < N)
        /\ (k < N => MinOf(m + 0 + 1, N) = MinOf(k + n + 1, N))
        /\ (k >= N => m = k)
    <3> HIDE DEF N
    <3> QED
      BY <1>1 DEF MinOf
  <2> HIDE DEF m
  <2>3. CatchMove(m, 0)
    BY <1>1, <2>1, <2>2, CatchNextAt
  <2>4. CatchMove(k, n)
    <3>1. CASE k < N
      BY <2>2, <2>3, <3>1 DEF CatchMove
    <3>2. CASE k >= N
      BY <1>1, <2>2, <2>3, <3>2 DEF CatchMove
    <3> QED
      BY <1>1, <3>1, <3>2
  <2> QED
    BY <1>3, <2>4 DEF Catch!NthCall
<1> QED
  BY <1>2, <1>3 DEF k

\* The functions of the map do not change when the map does not.
LEMMA CatchSameMap ==
    ASSUME objs' = objs
    PROVE  /\ \A m : CatchAt(m)' = CatchAt(m) /\ Catch!Calculate(m)' = Catch!Calculate(m)
           /\ Catch!NPalpable' = Catch!NPalpable
<1>1. \A J : /\ Catch!Palpable(J)' = Catch!Palpable(J)
             /\ Catch!FruitEvents(J)' = Catch!FruitEvents(J)
             /\ Catch!DropletEvents(J)' = Catch!DropletEvents(J)
             /\ Catch!TinyDroplets(J)' = Catch!TinyDroplets(J)
  BY DEF Catch!Palpable, Catch!FruitEvents, Catch!DropletEvents, Catch!TinyDroplets
<1>2. \A j : Catch!Before(j)' = Catch!Before(j)
  BY <1>1 DEF Catch!Before
<1>3. \A k : Catch!Delta(k)' = Catch!Delta(k) /\ Catch!Recorded(k)' = Catch!Recorded(k)
  BY <1>2 DEF Catch!Delta, Catch!Recorded
<1>4. Catch!NPalpable' = Catch!NPalpable
  BY <1>1 DEF Catch!NPalpable
<1>5. Catch!GradualCounts' = Catch!GradualCounts
  BY <1>1, <1>3, <1>4 DEF Catch!GradualCounts
<1>6. \A k : Catch!RegularCount(k)' = Catch!RegularCount(k)
  BY <1>1, <1>3 DEF Catch!RegularCount
<1>7. \A m : CatchCounts(m)' = CatchCounts(m)
  BY <1>5 DEF CatchCounts
<1>8. \A m : Catch!Calculate(m)' = Catch!Calculate(m)
  BY <1>4, <1>6 DEF Catch!Calculate
<1> QED
  BY <1>4, <1>5, <1>7, <1>8 DEF CatchAt

\* A move preserves the invariant.
LEMMA CatchMovePreserves ==
    ASSUME CatchInv, NEW n \in Nat, CatchMove(it.idx, n), UNCHANGED objs
    PROVE  CatchInv' /\ it'.idx = IF it.idx < Catch!NPalpable
                                  THEN MinOf(it.idx + n + 1, Catch!NPalpable) ELSE it.idx
<1>1. it.idx \in Nat /\ it.idx <= Catch!NPalpable /\ Catch!NPalpable \in Nat
  BY CatchTypes, CatchSizes DEF CatchInv
<1>2. PICK m \in 0 .. Catch!NPalpable :
          /\ m = IF it.idx < Catch!NPalpable THEN MinOf(it.idx + n + 1, Catch!NPalpable) ELSE it.idx
          /\ it' = CatchAt(m)
          /\ ret' = <<>> \/ (m > 0 /\ ret' = <<Catch!Calculate(m)>>)
  BY <1>1 DEF CatchMove, MinOf
<1>3. it'.idx = m
  BY <1>2, CatchFields DEF CatchAt
<1>4. /\ CatchAt(m)' = CatchAt(m) /\ Catch!Calculate(m)' = Catch!Calculate(m)
      /\ Catch!NPalpable' = Catch!NPalpable
  BY CatchSameMap
<1> QED
  BY <1>2, <1>3, <1>4 DEF CatchInv

\* The invariant holds at first.
LEMMA CatchInit == Catch!Init => CatchInv
<1> SUFFICES ASSUME Catch!Init
             PROVE  CatchInv
  OBVIOUS
<1>1. objs \in CatchMaps /\ objs \in Seq(Catch!Event) /\ Catch!NPalpable \in Nat
  BY CatchTypes, CatchSizes DEF Catch!Init
<1>2. Catch!Process(<<>>, 1, SatSub(0, 1)) = <<>>
  BY DEF Catch!Process, SatSub
<1>3. CatchCounts(0) = Catch!ZeroCount
  <2>1. Catch!FruitsOf(Catch!GradualCounts, {}) = {} /\ {} \ {} = {} /\ 1 .. 0 = {}
    BY DEF Catch!FruitsOf
  <2>2. Catch!TinyOf(Catch!GradualCounts, {}) = 0
    BY TotalOfEmpty, CatchLibrary DEF Catch!TinyOf
  <2>3. Cardinality({}) = 0
    BY FS_EmptySet
  <2>4. /\ Catch!ZeroCount.fruits = 0 /\ Catch!ZeroCount.droplets = 0
        /\ Catch!ZeroCount.tiny = 0
    BY DEF Catch!ZeroCount
  <2>5. CatchCounts(0) = [fruits |-> 0 + 0, droplets |-> 0 + 0, tiny |-> 0 + 0]
    BY <2>1, <2>2, <2>3, <2>4, CatchLibrary DEF CatchCounts, Catch!AddObjectCounts
  <2> QED
    BY <2>5 DEF Catch!ZeroCount
<1>4. it = CatchAt(0)
  BY <1>2, <1>3 DEF Catch!Init, CatchAt, CatchStruct
<1>5. it.idx = 0 /\ ret = <<>>
  BY DEF Catch!Init
<1> QED
  BY <1>1, <1>4, <1>5 DEF CatchInv

\* The invariant gives the properties of the catch iterator.
LEMMA CatchProperties ==
    ASSUME CatchInv
    PROVE  Catch!TypeOK /\ Catch!TinyDropletsKept
<1> DEFINE k == it.idx
           N == Catch!NPalpable
           c == Catch!GradualCounts
<1>1. /\ objs \in CatchMaps /\ objs \in Seq(Catch!Event) /\ N \in Nat /\ k \in 0 .. N /\ k \in Nat
      /\ it = CatchAt(k)
  BY CatchTypes, CatchSizes DEF CatchInv
<1>2. c \in Seq([fruit : BOOLEAN, tiny : Nat]) /\ Len(c) = N
  BY <1>1, CatchGradualCounts
<1>3. \A i \in 0 .. N : /\ CatchCounts(i) \in Catch!Counts
                        /\ Catch!Process(<<>>, 1, SatSub(i, 1)) \in Seq(Nat)
  <2>1. ASSUME NEW i \in 0 .. N
        PROVE  /\ CatchCounts(i) \in Catch!Counts
               /\ Catch!Process(<<>>, 1, SatSub(i, 1)) \in Seq(Nat)
    <3>1. i \in Nat /\ i <= i /\ SatSub(i, 1) \in Nat /\ SatSub(i, 1) <= SatSub(i, 1)
      BY <1>1 DEF SatSub
    <3> QED
      BY <1>1, <3>1, CatchCountMore, CatchProcessMore
  <2> QED
    BY <2>1
<1>4. it \in [idx : 0 .. N, counts : Catch!Counts, movement : Seq(Nat),
              count : Seq([fruit : BOOLEAN, tiny : Nat])] /\ Len(it.count) = N /\ it.count = c
      /\ it.counts = CatchCounts(k)
  <2> HIDE DEF N, c, k
  <2>1. it = CatchStruct(k, CatchCounts(k), c, Catch!Process(<<>>, 1, SatSub(k, 1)))
    BY <1>1 DEF CatchAt, c
  <2> QED
    BY <1>1, <1>2, <1>3, <2>1 DEF CatchStruct
<1>5. ret \in Seq([counts : Catch!Counts, rated : Seq(Nat)]) /\ Len(ret) <= 1
  <2>1. CASE ret = <<>>
    BY <2>1, EmptySeq
  <2>2. CASE k > 0 /\ ret = <<Catch!Calculate(k)>>
    <3>1. Catch!Calculate(k) = Catch!Attrs(CatchAt(k).counts, CatchAt(k).movement)
      BY <1>1, <2>2, CatchEvalAt
    <3>2. Catch!Calculate(k) \in [counts : Catch!Counts, rated : Seq(Nat)]
      BY <1>1, <1>3, <3>1, CatchFields DEF CatchAt, Catch!Attrs
    <3>3. \A S : \A x \in S : <<x>> \in Seq(S) /\ Len(<<x>>) <= 1
      OBVIOUS
    <3> QED
      BY <2>2, <3>2, <3>3
  <2> QED
    BY <2>1, <2>2 DEF CatchInv
<1>6. Catch!TypeOK
  BY <1>1, <1>4, <1>5 DEF Catch!TypeOK
<1>7. Catch!RegularCount(Len(objs)) = Catch!RegularCount(N)
  <2>1. ASSUME NEW j \in DOMAIN objs
        PROVE  Catch!Before(j) < Len(objs) /\ Catch!Before(j) < N
    <3>1. Len(objs) \in DOMAIN objs /\ j <= Len(objs) /\ Len(objs) \in Nat /\ j \in Nat /\ objs # <<>>
      BY <1>1
    <3>2. objs[Len(objs)].kind = "fruit"
      BY <1>1, <3>1, CatchTypes
    <3>3. /\ Catch!Before(Len(objs)) < N /\ Catch!Before(Len(objs)) \in Nat
          /\ Catch!Before(j) < j /\ Catch!Before(j) \in Nat
      BY <1>1, <3>1, <3>2, CatchBefore
    <3>4. objs[j].kind # "tiny" => Catch!Before(j) < N
      BY <1>1, CatchBefore
    <3>5. Catch!Before(j) <= Catch!Before(Len(objs))
      <4>1. Catch!Before(j) = Cardinality(Catch!Palpable(1 .. j - 1))
            /\ Catch!Before(Len(objs)) = Cardinality(Catch!Palpable(1 .. Len(objs) - 1))
        BY CatchLibrary DEF Catch!Before
      <4>2. /\ Catch!Palpable(1 .. Len(objs) - 1) \in SUBSET DOMAIN objs
            /\ Catch!Palpable(1 .. j - 1) \in SUBSET Catch!Palpable(1 .. Len(objs) - 1)
        BY <1>1, <3>1 DEF Catch!Palpable
      <4> QED
        BY <1>1, <4>1, <4>2, CatchFinite
    <3> QED
      BY <1>1, <3>1, <3>3, <3>5
  <2>2. Catch!Recorded(Len(objs)) = Catch!Recorded(N)
    BY <2>1 DEF Catch!Recorded
  <2> QED
    BY <2>2 DEF Catch!RegularCount
<1>8. Catch!TinyDropletsKept
  <2>1. Catch!AddObjectCounts(CatchCounts(k), c, k + 1 .. N) = CatchCounts(N)
    BY <1>1, CatchCountMore
  <2>2. CatchCounts(N) = Catch!RegularCount(N)
    BY <1>1, CatchFirstDeltas DEF CatchCounts
  <2> QED
    BY <1>2, <1>4, <1>7, <2>1, <2>2 DEF Catch!TinyDropletsKept
<1> QED
  BY <1>6, <1>8

------------------------------------------------------------------------------
(* osu!taiko *)

\* The operators of the instance are those of this module.
LEMMA TaikoLibrary ==
    /\ \A J : Taiko!Cardinality(J) = Cardinality(J)
    /\ \A a, b : Taiko!MinOf(a, b) = MinOf(a, b) /\ Taiko!SatSub(a, b) = SatSub(a, b)
<1>1. \A J : Taiko!Cardinality(J) = Cardinality(J)
  BY DEF Taiko!Cardinality, Cardinality, Taiko!IsFiniteSet, IsFiniteSet
<1> QED
  BY <1>1 DEF Taiko!MinOf, MinOf, Taiko!SatSub, SatSub

\* How many of the first p objects are hits
TaikoHits(p) == Cardinality(Taiko!HitsIn(1 .. p))

\* The hits among the objects up to b are those up to a and those after it.
LEMMA TaikoHitsMore ==
    ASSUME NEW a \in Nat, NEW b \in Nat, a <= b
    PROVE  /\ TaikoHits(a) \in Nat /\ TaikoHits(b) \in Nat
           /\ Cardinality(Taiko!HitsIn(a + 1 .. b)) \in Nat
           /\ TaikoHits(b) = TaikoHits(a) + Cardinality(Taiko!HitsIn(a + 1 .. b))
           /\ TaikoHits(a) <= TaikoHits(b)
           /\ TaikoHits(a) <= a
<1> DEFINE A == Taiko!HitsIn(1 .. a)
           B == Taiko!HitsIn(a + 1 .. b)
<1>1. A \cup B = Taiko!HitsIn(1 .. b) /\ A \cap B = {}
  BY DEF Taiko!HitsIn
<1>2. /\ IsFiniteSet(1 .. a) /\ IsFiniteSet(a + 1 .. b) /\ Cardinality(1 .. a) = a
      /\ A \in SUBSET (1 .. a) /\ B \in SUBSET (a + 1 .. b)
  <2>1. a + 1 \in Int /\ a \in Int /\ b \in Int /\ 1 \in Int /\ (1 > a => a = 0) /\ a - 1 + 1 = a
    OBVIOUS
  <2>2. IsFiniteSet(1 .. a) /\ IsFiniteSet(a + 1 .. b) /\ Cardinality(1 .. a) = a
    BY <2>1, FS_Interval
  <2> QED
    BY <2>2 DEF Taiko!HitsIn
<1>3. IsFiniteSet(A) /\ IsFiniteSet(B) /\ Cardinality(A) <= a
  BY <1>2, FS_Subset
<1> HIDE DEF A, B
<1>4. /\ Cardinality(A \cup B) = Cardinality(A) + Cardinality(B)
      /\ Cardinality(A) \in Nat /\ Cardinality(B) \in Nat
  BY <1>1, <1>3, SizeOfDisjoint
<1>5. TaikoHits(a) = Cardinality(A) /\ TaikoHits(b) = Cardinality(A \cup B)
  BY <1>1 DEF TaikoHits, A
<1>6. /\ Cardinality(A \cup B) \in Nat
      /\ Cardinality(A) <= Cardinality(A \cup B)
  BY <1>4
<1> QED
  BY <1>3, <1>4, <1>5, <1>6 DEF B

\* One object more is one hit more or none.
LEMMA TaikoHitsNext ==
    ASSUME NEW a \in Nat
    PROVE  /\ objs[a + 1] => TaikoHits(a + 1) = TaikoHits(a) + 1
           /\ ~objs[a + 1] => TaikoHits(a + 1) = TaikoHits(a)
<1>1. a + 1 \in Nat /\ a <= a + 1 /\ a + 1 .. a + 1 = {a + 1}
  OBVIOUS
<1>2. TaikoHits(a + 1) = TaikoHits(a) + Cardinality(Taiko!HitsIn({a + 1})) /\ TaikoHits(a) \in Nat
  <2>1. PICK b \in Nat : b = a + 1 /\ a <= b
    BY <1>1
  <2>2. TaikoHits(b) = TaikoHits(a) + Cardinality(Taiko!HitsIn(a + 1 .. b)) /\ TaikoHits(a) \in Nat
    BY <2>1, TaikoHitsMore
  <2> QED
    BY <1>1, <2>1, <2>2
<1>3. objs[a + 1] => Taiko!HitsIn({a + 1}) = {a + 1}
  BY DEF Taiko!HitsIn
<1>4. ~objs[a + 1] => Taiko!HitsIn({a + 1}) = {}
  BY DEF Taiko!HitsIn
<1>5. Cardinality({a + 1}) = 1 /\ Cardinality({}) = 0
  BY FS_Singleton, FS_EmptySet
<1>6. CASE objs[a + 1]
  BY <1>2, <1>3, <1>5, <1>6
<1>7. CASE ~objs[a + 1]
  BY <1>2, <1>4, <1>5, <1>7
<1> QED
  BY <1>6, <1>7

\* The difficulty objects of a range that are hits are as many as the hits two
\* objects further on.
LEMMA TaikoShift ==
    ASSUME NEW a \in Nat, NEW b \in Nat
    PROVE  /\ IsFiniteSet({d \in a + 1 .. b : objs[d + 2]})
           /\ Cardinality({d \in a + 1 .. b : objs[d + 2]})
                = Cardinality(Taiko!HitsIn(a + 2 + 1 .. b + 2))
<1> DEFINE S == {d \in a + 1 .. b : objs[d + 2]}
           T == Taiko!HitsIn(a + 2 + 1 .. b + 2)
           f == [d \in S |-> d + 2]
<1>1. IsFiniteSet(S)
  <2>1. a + 1 \in Int /\ b \in Int
    OBVIOUS
  <2>2. IsFiniteSet(a + 1 .. b)
    BY <2>1, FS_Interval
  <2> QED
    BY <2>2, FS_Subset
<1>2. f \in Bijection(S, T)
  <2>1. \A d \in S : d + 2 \in T /\ d \in Int
    BY DEF Taiko!HitsIn
  <2>2. \A t \in T : t \in Int /\ t - 2 \in S /\ t = (t - 2) + 2
    <3>1. ASSUME NEW t \in T
          PROVE  t \in Int /\ t - 2 \in S /\ t = (t - 2) + 2
      <4>1. t \in a + 2 + 1 .. b + 2 /\ objs[t]
        BY DEF Taiko!HitsIn
      <4>2. t \in Int /\ t - 2 \in a + 1 .. b /\ (t - 2) + 2 = t
        BY <4>1
      <4> QED
        BY <4>1, <4>2
    <3> QED
      BY <3>1
  <2> HIDE DEF S, T
  <2>3. f \in [S -> T]
    BY <2>1
  <2>4. \A x, y \in S : f[x] = f[y] => x = y
    BY <2>1
  <2>5. \A t \in T : \E d \in S : f[d] = t
    BY <2>2
  <2> QED
    BY <2>3, <2>4, <2>5 DEF Bijection, Injection, Surjection, IsInjective
<1>3. ExistsBijection(S, T)
  BY <1>2 DEF ExistsBijection
<1> HIDE DEF S, T
<1>4. Cardinality(T) = Cardinality(S)
  BY <1>1, <1>3, FS_Bijection
<1> QED
  BY <1>1, <1>4 DEF S, T

\* How many objects were passed by an iterator of idx i and position c
TaikoPosition(i, c) == IF i < 2 THEN i ELSE c + 2

\* The struct by its fields
TaikoStruct(i, h, p, c) == [idx |-> i, max_combo |-> h, skills |-> p, cursor |-> c]

\* The struct of idx i and position c
TaikoAt(i, c) ==
    TaikoStruct(i, TaikoHits(TaikoPosition(i, c)), Taiko!Process(Taiko!FreshSkills, 1, c), c)

\* Reading and updating a field of a struct
LEMMA TaikoFields ==
    ASSUME NEW i, NEW h, NEW p, NEW c
    PROVE  /\ TaikoStruct(i, h, p, c).idx = i
           /\ TaikoStruct(i, h, p, c).max_combo = h
           /\ TaikoStruct(i, h, p, c).skills = p
           /\ TaikoStruct(i, h, p, c).cursor = c
           /\ \A x : [TaikoStruct(i, h, p, c) EXCEPT !.idx = x] = TaikoStruct(x, h, p, c)
           /\ \A x : [TaikoStruct(i, h, p, c) EXCEPT !.max_combo = x] = TaikoStruct(i, x, p, c)
           /\ \A x : [TaikoStruct(i, h, p, c) EXCEPT !.skills = x] = TaikoStruct(i, h, x, c)
           /\ \A x : [TaikoStruct(i, h, p, c) EXCEPT !.cursor = x] = TaikoStruct(i, h, p, x)
BY DEF TaikoStruct

\* Skills that saw the difficulty objects up to a and are given those up to b
\* saw those up to b.
LEMMA TaikoProcessMore ==
    ASSUME NEW a \in Nat, NEW b \in Nat, a <= b
    PROVE  /\ Taiko!Process(Taiko!Process(Taiko!FreshSkills, 1, a), a + 1, b)
                = Taiko!Process(Taiko!FreshSkills, 1, b)
           /\ Taiko!Process(Taiko!FreshSkills, 1, a) \in [Taiko!Skills -> Seq(Nat)]
<1>1. (<<>> \o [i \in 1 .. a + 1 - 1 |-> 1 - 1 + i])
          \o [i \in 1 .. b + 1 - (a + 1) |-> a + 1 - 1 + i]
        = <<>> \o [i \in 1 .. b + 1 - 1 |-> 1 - 1 + i]
  OBVIOUS
<1>2. [i \in 1 .. a + 1 - 1 |-> 1 - 1 + i] \in Seq(Nat)
  OBVIOUS
<1>3. <<>> \o [i \in 1 .. a + 1 - 1 |-> 1 - 1 + i] \in Seq(Nat)
  BY <1>2, EmptySeq, ConcatProperties
<1> DEFINE x == <<>> \o [i \in 1 .. a + 1 - 1 |-> 1 - 1 + i]
           y == [i \in 1 .. b + 1 - (a + 1) |-> a + 1 - 1 + i]
           z == <<>> \o [i \in 1 .. b + 1 - 1 |-> 1 - 1 + i]
<1>4. /\ Taiko!Process(Taiko!FreshSkills, 1, a) = [s \in Taiko!Skills |-> x]
      /\ Taiko!Process(Taiko!FreshSkills, 1, b) = [s \in Taiko!Skills |-> z]
  BY DEF Taiko!Process, Taiko!FreshSkills
<1>5. Taiko!Process([s \in Taiko!Skills |-> x], a + 1, b) = [s \in Taiko!Skills |-> x \o y]
  BY DEF Taiko!Process
<1>6. x \o y = z /\ x \in Seq(Nat)
  BY <1>1, <1>3
<1> HIDE DEF x, y, z
<1> QED
  BY <1>4, <1>5, <1>6

\* The hits ahead of position c
TaikoAhead(c) == {d \in c + 1 .. Taiko!NDiffObjects : objs[d + 2]}

\* Where reading k hits ends
TaikoStop(s, k) ==
    IF k = 0 THEN s.cursor
    ELSE IF Taiko!MinOf(k, Taiko!Cardinality(Taiko!HitsAhead(s))) < k THEN Taiko!NDiffObjects
    ELSE CHOOSE d \in Taiko!HitsAhead(s) :
            Taiko!Cardinality({e \in Taiko!HitsAhead(s) : e <= d}) = k

\* The members of S up to d
UpTo(S, d) == {e \in S : e <= d}

\* The last hit that is read is the k-th one ahead.
LEMMA TaikoStops ==
    ASSUME NEW s, NEW k \in Nat, k > 0, NEW ahead, Taiko!HitsAhead(s) = ahead,
           Cardinality(ahead) \in Nat, NEW n \in Nat, ahead \in SUBSET (1 .. n)
    PROVE  /\ k > Cardinality(ahead) => TaikoStop(s, k) = Taiko!NDiffObjects
           /\ k <= Cardinality(ahead) =>
                \E d \in ahead : TaikoStop(s, k) = d /\ Cardinality(UpTo(ahead, d)) = k
<1> DEFINE least == Taiko!MinOf(k, Taiko!Cardinality(Taiko!HitsAhead(s)))
           P(d) == Taiko!Cardinality({e \in Taiko!HitsAhead(s) : e <= d}) = k
<1>1. least = MinOf(k, Cardinality(ahead))
  BY TaikoLibrary
<1>2. TaikoStop(s, k) = IF k = 0 THEN s.cursor
                        ELSE IF least < k THEN Taiko!NDiffObjects
                        ELSE CHOOSE d \in Taiko!HitsAhead(s) : P(d)
  BY Zenon DEF TaikoStop
<1> HIDE DEF least
<1>3. CASE k > Cardinality(ahead)
  <2>1. least < k
    BY <1>1, <1>3 DEF MinOf
  <2> HIDE DEF P
  <2>2. TaikoStop(s, k) = Taiko!NDiffObjects
    BY <1>2, <2>1
  <2> QED
    BY <1>3, <2>2
<1>4. CASE k <= Cardinality(ahead)
  <2>1. ~(least < k) /\ k \in 1 .. Cardinality(ahead)
    BY <1>1, <1>4 DEF MinOf
  <2>2. \E d \in ahead : Cardinality({e \in ahead : e <= d}) = k
    BY <2>1, KthElement
  <2>3. \A d : P(d) <=> Cardinality({e \in ahead : e <= d}) = k
    BY TaikoLibrary
  <2> HIDE DEF P
  <2>4. TaikoStop(s, k) = CHOOSE d \in Taiko!HitsAhead(s) : P(d)
    BY <1>2, <2>1
  <2>5. \E d \in Taiko!HitsAhead(s) : P(d)
    BY <2>2, <2>3
  <2>6. TaikoStop(s, k) \in Taiko!HitsAhead(s) /\ P(TaikoStop(s, k))
    BY <2>4, <2>5, Zenon
  <2>7. PICK d \in ahead : d = TaikoStop(s, k) /\ P(d)
    BY <2>6
  <2> QED
    BY <1>4, <2>3, <2>7 DEF UpTo
<1> QED
  BY <1>3, <1>4

\* What reading k hits does to the fields of a struct
LEMMA TaikoReads ==
    ASSUME NEW i, NEW h, NEW p, NEW c, NEW k
    PROVE  Taiko!ReadHits(TaikoStruct(i, h, p, c), k)
             = TaikoStruct(i, h + MinOf(k, Cardinality(TaikoAhead(c))),
                           Taiko!Process(p, c + 1, TaikoStop(TaikoStruct(i, h, p, c), k)),
                           TaikoStop(TaikoStruct(i, h, p, c), k))
<1> DEFINE s == TaikoStruct(i, h, p, c)
           passed == h + MinOf(k, Cardinality(TaikoAhead(c)))
           stop == TaikoStop(s, k)
           q == Taiko!Process(p, c + 1, stop)
<1>1. s.cursor = c /\ s.max_combo = h /\ s.skills = p
  BY TaikoFields
<1>2. Taiko!HitsAhead(s) = TaikoAhead(c)
  BY <1>1 DEF Taiko!HitsAhead, TaikoAhead
<1>3. passed = s.max_combo + Taiko!MinOf(k, Taiko!Cardinality(Taiko!HitsAhead(s)))
  BY <1>1, <1>2, TaikoLibrary
<1>4. q = Taiko!Process(s.skills, s.cursor + 1, stop)
  BY <1>1
<1>5. Taiko!ReadHits(s, k)
        = [s EXCEPT !.max_combo = s.max_combo + Taiko!MinOf(k, Taiko!Cardinality(Taiko!HitsAhead(s))),
                    !.cursor    = stop,
                    !.skills    = Taiko!Process(s.skills, s.cursor + 1, stop)]
  <2> HIDE DEF s
  <2> QED
    BY Zenon DEF Taiko!ReadHits, TaikoStop
<1>6. Taiko!ReadHits(s, k) = [s EXCEPT !.max_combo = passed, !.cursor = stop, !.skills = q]
  BY <1>3, <1>4, <1>5, Zenon
<1> HIDE DEF passed, stop, q
<1>7. [s EXCEPT !.max_combo = passed, !.cursor = stop, !.skills = q]
        = [[[s EXCEPT !.max_combo = passed] EXCEPT !.cursor = stop] EXCEPT !.skills = q]
  OBVIOUS
<1>8. /\ [s EXCEPT !.max_combo = passed] = TaikoStruct(i, passed, p, c)
      /\ [TaikoStruct(i, passed, p, c) EXCEPT !.cursor = stop] = TaikoStruct(i, passed, p, stop)
      /\ [TaikoStruct(i, passed, p, stop) EXCEPT !.skills = q] = TaikoStruct(i, passed, q, stop)
  BY TaikoFields
<1> QED
  BY <1>6, <1>7, <1>8 DEF passed, stop, q

\* How many hits are ahead of a position in the list of difficulty objects
LEMMA TaikoAheadSize ==
    ASSUME objs \in Seq(BOOLEAN), NEW c \in 0 .. Taiko!NDiffObjects, Taiko!NDiffObjects > 0
    PROVE  /\ Len(objs) = Taiko!NDiffObjects + 2
           /\ Taiko!NDiffObjects \in Nat
           /\ IsFiniteSet(TaikoAhead(c)) /\ Cardinality(TaikoAhead(c)) \in Nat
           /\ Taiko!TotalHits = TaikoHits(c + 2) + Cardinality(TaikoAhead(c))
           /\ TaikoHits(c + 2) \in Nat
<1> DEFINE D == Taiko!NDiffObjects
<1>1. Len(objs) = D + 2 /\ D \in Nat /\ DOMAIN objs = 1 .. D + 2
  BY TaikoLibrary DEF Taiko!NDiffObjects, SatSub
<1> HIDE DEF D
<1>2. c \in Nat /\ c + 2 \in Nat /\ D + 2 \in Nat /\ c + 2 <= D + 2
  BY <1>1 DEF D
<1>3. /\ TaikoHits(c + 2) \in Nat
      /\ Cardinality(Taiko!HitsIn(c + 2 + 1 .. D + 2)) \in Nat
      /\ TaikoHits(D + 2) = TaikoHits(c + 2) + Cardinality(Taiko!HitsIn(c + 2 + 1 .. D + 2))
  BY <1>2, TaikoHitsMore
<1>4. IsFiniteSet(TaikoAhead(c))
      /\ Cardinality(TaikoAhead(c)) = Cardinality(Taiko!HitsIn(c + 2 + 1 .. D + 2))
  BY <1>1, <1>2, TaikoShift DEF TaikoAhead, D
<1>5. Taiko!TotalHits = TaikoHits(D + 2)
  BY <1>1, TaikoLibrary DEF Taiko!TotalHits, TaikoHits
<1> QED
  BY <1>1, <1>3, <1>4, <1>5 DEF D

\* Reading k > 0 hits from position c
LEMMA TaikoReadAt ==
    ASSUME objs \in Seq(BOOLEAN), NEW c \in 0 .. Taiko!NDiffObjects, Taiko!NDiffObjects > 0,
           NEW i \in Nat, i >= 2, NEW k \in Nat, k > 0
    PROVE  \E stop \in c .. Taiko!NDiffObjects :
              /\ Taiko!ReadHits(TaikoAt(i, c), k) = TaikoAt(i, stop)
              /\ TaikoHits(stop + 2) = TaikoHits(c + 2) + MinOf(k, Cardinality(TaikoAhead(c)))
              /\ k > Cardinality(TaikoAhead(c)) => stop = Taiko!NDiffObjects
              /\ k <= Cardinality(TaikoAhead(c)) => objs[stop + 2]
<1> DEFINE D == Taiko!NDiffObjects
           h == TaikoHits(c + 2)
           p == Taiko!Process(Taiko!FreshSkills, 1, c)
           s == TaikoStruct(i, h, p, c)
           ahead  == TaikoAhead(c)
           passed == MinOf(k, Cardinality(ahead))
           stop   == TaikoStop(s, k)
<1>1. /\ D \in Nat /\ IsFiniteSet(ahead) /\ Cardinality(ahead) \in Nat
      /\ c \in Nat /\ c + 2 \in Nat /\ h \in Nat
      /\ Taiko!TotalHits = h + Cardinality(ahead)
      /\ Taiko!TotalHits = TaikoHits(D + 2)
  <2>1. DOMAIN objs = 1 .. D + 2
    BY TaikoAheadSize
  <2> QED
    BY <2>1, TaikoAheadSize, TaikoLibrary DEF Taiko!TotalHits, TaikoHits
<1>2. ahead = {d \in c + 1 .. D : objs[d + 2]} /\ ahead \in SUBSET (1 .. D)
  BY DEF TaikoAhead
<1>3. TaikoAt(i, c) = s
  BY DEF TaikoAt, TaikoPosition
<1>4. Taiko!ReadHits(s, k) = TaikoStruct(i, h + passed, Taiko!Process(p, c + 1, stop), stop)
  BY TaikoReads
<1>5. Taiko!HitsAhead(s) = ahead
  <2>1. s.cursor = c
    BY TaikoFields
  <2> QED
    BY <2>1 DEF Taiko!HitsAhead, TaikoAhead
<1> HIDE DEF D, h, ahead, p, s, stop
<1>6. /\ stop \in c .. D
      /\ TaikoHits(stop + 2) = h + passed
      /\ k > Cardinality(ahead) => stop = D
      /\ k <= Cardinality(ahead) => objs[stop + 2]
  <2>1. CASE k > Cardinality(ahead)
    <3>1. passed = Cardinality(ahead)
      BY <1>1, <2>1 DEF MinOf
    <3>0. stop = D
      BY <1>1, <1>2, <1>5, <2>1, TaikoStops DEF D, stop
    <3> HIDE DEF passed
    <3>2. stop \in c .. D
      BY <1>1, <3>0 DEF D
    <3> QED
      BY <1>1, <2>1, <3>0, <3>1, <3>2
  <2>2. CASE k <= Cardinality(ahead)
    <3>1. passed = k
      BY <1>1, <2>2 DEF MinOf
    <3> HIDE DEF passed
    <3>0. PICK x \in ahead : stop = x /\ Cardinality(UpTo(ahead, x)) = k
      <4>1. D \in Nat /\ ahead \in SUBSET (1 .. D) /\ Cardinality(ahead) \in Nat
            /\ Taiko!HitsAhead(s) = ahead
        BY <1>1, <1>2, <1>5
      <4>2. \E d \in ahead : TaikoStop(s, k) = d /\ Cardinality(UpTo(ahead, d)) = k
        BY <2>2, <4>1, TaikoStops
      <4> QED
        BY <4>2 DEF stop
    <3>2. stop \in ahead /\ Cardinality({e \in ahead : e <= stop}) = k
      BY <3>0 DEF UpTo
    <3>3. stop \in c + 1 .. D /\ objs[stop + 2] /\ stop \in Nat /\ stop + 2 \in Nat
          /\ c + 2 <= stop + 2 /\ stop \in c .. D
      BY <1>1, <1>2, <3>2
    <3>4. {e \in ahead : e <= stop} = {d \in c + 1 .. stop : objs[d + 2]}
      BY <1>1, <1>2, <3>3
    <3>5. k = Cardinality(Taiko!HitsIn(c + 2 + 1 .. stop + 2))
      BY <1>1, <3>2, <3>3, <3>4, TaikoShift
    <3>6. TaikoHits(stop + 2) = TaikoHits(c + 2) + Cardinality(Taiko!HitsIn(c + 2 + 1 .. stop + 2))
      BY <1>1, <3>3, TaikoHitsMore
    <3>7. TaikoHits(stop + 2) = h + passed
      BY <3>1, <3>5, <3>6 DEF h
    <3> QED
      BY <1>1, <2>2, <3>3, <3>7
  <2> QED
    BY <1>1, <2>1, <2>2
<1> HIDE DEF passed
<1>7. Taiko!Process(p, c + 1, stop) = Taiko!Process(Taiko!FreshSkills, 1, stop)
  BY <1>1, <1>6, TaikoProcessMore DEF p
<1>8. Taiko!ReadHits(TaikoAt(i, c), k) = TaikoAt(i, stop)
  BY <1>3, <1>4, <1>6, <1>7 DEF TaikoAt, TaikoPosition
<1> QED
  BY <1>6, <1>8 DEF D, h, passed, ahead

\* Reading no hit
LEMMA TaikoReadNone ==
    ASSUME NEW c \in Nat, NEW i \in Nat, Cardinality(TaikoAhead(c)) \in Nat
    PROVE  Taiko!ReadHits(TaikoAt(i, c), 0) = TaikoAt(i, c)
<1> DEFINE h == TaikoHits(TaikoPosition(i, c))
           p == Taiko!Process(Taiko!FreshSkills, 1, c)
<1>1. MinOf(0, Cardinality(TaikoAhead(c))) = 0
  BY DEF MinOf
<1>2. TaikoStop(TaikoStruct(i, h, p, c), 0) = c
  BY TaikoFields DEF TaikoStop
<1>3. Taiko!ReadHits(TaikoStruct(i, h, p, c), 0)
        = TaikoStruct(i, h + 0, Taiko!Process(p, c + 1, c), c)
  <2> HIDE DEF h, p
  <2> QED
    BY <1>1, <1>2, TaikoReads
<1>4. h + 0 = h
  <2>1. TaikoPosition(i, c) \in Nat /\ TaikoPosition(i, c) <= TaikoPosition(i, c)
    BY DEF TaikoPosition
  <2>2. h \in Nat
    BY <2>1, TaikoHitsMore
  <2> HIDE DEF h
  <2> QED
    BY <2>2
<1>5. Taiko!Process(p, c + 1, c) = p
  BY TaikoProcessMore
<1> QED
  BY <1>3, <1>4, <1>5 DEF TaikoAt

\* Regular on a map of osu!taiko
TaikoRegular == Len(objs) > 2 /\ objs[1] /\ objs[2]

\* The pairs of idx and position that an iterator can reach
TaikoReached(i, c) ==
    /\ i \in Nat /\ c \in 0 .. Taiko!NDiffObjects
    /\ i < 2 => c = 0
    /\ i > 0 => \/ Taiko!NDiffObjects > 0
                \/ i = 1 /\ Len(objs) = 2 /\ objs[1] /\ objs[2]
    /\ TaikoRegular => i = TaikoHits(TaikoPosition(i, c))

\* How long the list of difficulty objects is and how many hits there are
LEMMA TaikoSizes ==
    ASSUME objs \in Seq(BOOLEAN)
    PROVE  /\ Len(objs) \in Nat /\ Taiko!NDiffObjects \in Nat
           /\ Taiko!NDiffObjects > 0 <=> Len(objs) > 2
           /\ Len(objs) > 2 => Len(objs) = Taiko!NDiffObjects + 2
           /\ Taiko!TotalHits = TaikoHits(Len(objs))
           /\ Taiko!TotalHits \in Nat /\ Taiko!TotalHits <= Len(objs)
           /\ TaikoHits(0) = 0
<1>1. Len(objs) \in Nat /\ DOMAIN objs = 1 .. Len(objs) /\ Len(objs) <= Len(objs)
  OBVIOUS
<1>2. Taiko!TotalHits = TaikoHits(Len(objs))
  BY <1>1, TaikoLibrary DEF Taiko!TotalHits, TaikoHits
<1>3. TaikoHits(Len(objs)) \in Nat /\ TaikoHits(Len(objs)) <= Len(objs)
  BY <1>1, TaikoHitsMore
<1>4. Taiko!HitsIn(1 .. 0) = {}
  BY DEF Taiko!HitsIn
<1>5. Taiko!NDiffObjects = SatSub(Len(objs), 2)
  BY TaikoLibrary DEF Taiko!NDiffObjects
<1>6. TaikoHits(0) = 0
  BY <1>4, FS_EmptySet DEF TaikoHits
<1> HIDE DEF TaikoHits
<1>7. /\ Taiko!NDiffObjects \in Nat
      /\ Taiko!NDiffObjects > 0 <=> Len(objs) > 2
      /\ Len(objs) > 2 => Len(objs) = Taiko!NDiffObjects + 2
  <2>1. PICK n \in Nat : n = Len(objs)
    BY <1>1
  <2>2. Taiko!NDiffObjects = IF n >= 2 THEN n - 2 ELSE 0
    BY <1>5, <2>1 DEF SatSub
  <2>3. CASE n > 2
    BY <2>1, <2>2, <2>3
  <2>4. CASE n <= 2
    BY <2>1, <2>2, <2>4
  <2> QED
    BY <2>3, <2>4
<1> QED
  BY <1>1, <1>2, <1>3, <1>6, <1>7

\* A regular map begins with two hits.
LEMMA TaikoFirstHits ==
    ASSUME objs \in Seq(BOOLEAN), TaikoRegular
    PROVE  TaikoHits(2) = 2
<1>1. TaikoHits(0) = 0 /\ objs[0 + 1] /\ objs[1 + 1]
  BY TaikoSizes DEF TaikoRegular
<1>2. TaikoHits(0 + 1) = TaikoHits(0) + 1
  BY <1>1, TaikoHitsNext
<1>3. TaikoHits(1 + 1) = TaikoHits(1) + 1
  BY <1>1, TaikoHitsNext
<1> QED
  BY <1>1, <1>2, <1>3

\* How many hits a reached position has behind it
LEMMA TaikoPassed ==
    ASSUME objs \in Seq(BOOLEAN), NEW i, NEW c, TaikoReached(i, c), TaikoRegular
    PROVE  /\ i \in Nat /\ i <= Taiko!TotalHits
           /\ i >= 2 => i + Cardinality(TaikoAhead(c)) = Taiko!TotalHits
           /\ i < 2 => i < Taiko!TotalHits
<1>1. /\ i \in Nat /\ c \in 0 .. Taiko!NDiffObjects /\ i = TaikoHits(TaikoPosition(i, c))
      /\ i < 2 => c = 0
      /\ Len(objs) \in Nat /\ Taiko!NDiffObjects \in Nat /\ Taiko!NDiffObjects > 0
      /\ Len(objs) = Taiko!NDiffObjects + 2 /\ Taiko!TotalHits = TaikoHits(Len(objs))
      /\ Taiko!TotalHits \in Nat
  BY TaikoSizes DEF TaikoReached, TaikoRegular
<1>2. TaikoPosition(i, c) \in Nat /\ TaikoPosition(i, c) <= Len(objs)
  BY <1>1 DEF TaikoPosition
<1>3. TaikoHits(TaikoPosition(i, c)) <= TaikoHits(Len(objs))
  BY <1>1, <1>2, TaikoHitsMore
<1>4. i >= 2 => i + Cardinality(TaikoAhead(c)) = Taiko!TotalHits
  BY <1>1, TaikoAheadSize DEF TaikoPosition
<1>5. 2 <= Taiko!TotalHits
  <2>1. TaikoHits(2) <= TaikoHits(Len(objs))
    BY <1>1, TaikoHitsMore
  <2> QED
    BY <1>1, <2>1, TaikoFirstHits
<1> QED
  BY <1>1, <1>3, <1>4, <1>5

\* How many items a position has before it, by the conditions of next: those
\* of the first two objects that are not passed, and the hits ahead
TaikoToCome(i, c) ==
    (IF Taiko!NDiffObjects > 0 THEN SatSub(2, i) ELSE 0) + Cardinality(TaikoAhead(c))

\* The cases of that number; on a regular map it is the number of hits that
\* are not passed.
LEMMA TaikoComing ==
    ASSUME objs \in Seq(BOOLEAN), NEW i, NEW c, TaikoReached(i, c)
    PROVE  /\ Cardinality(TaikoAhead(c)) \in Nat /\ TaikoToCome(i, c) \in Nat
           /\ Taiko!NDiffObjects = 0 => TaikoToCome(i, c) = 0
           /\ i >= 2 => TaikoToCome(i, c) = Cardinality(TaikoAhead(c))
           /\ i < 2 /\ Taiko!NDiffObjects > 0
                => TaikoToCome(i, c) = 2 - i + Cardinality(TaikoAhead(c))
           /\ TaikoRegular => TaikoToCome(i, c) = Taiko!TotalHits - i
<1> DEFINE D == Taiko!NDiffObjects
<1>1. /\ i \in Nat /\ c \in Nat /\ D \in Nat /\ c \in 0 .. D
      /\ i < 2 => c = 0
      /\ i >= 2 => D > 0
  BY TaikoSizes DEF TaikoReached
<1>2. /\ IsFiniteSet(TaikoAhead(c)) /\ Cardinality(TaikoAhead(c)) \in Nat
      /\ D = 0 => TaikoAhead(c) = {}
  <2>1. IsFiniteSet(TaikoAhead(c))
    BY <1>1, TaikoShift DEF TaikoAhead
  <2>2. D = 0 => TaikoAhead(c) = {}
    BY <1>1 DEF TaikoAhead
  <2> QED
    BY <2>1, <2>2, FS_CardinalityType
<1>3. D = 0 => Cardinality(TaikoAhead(c)) = 0
  BY <1>2, FS_EmptySet
<1> HIDE DEF D
<1>4. PICK a \in Nat : a = Cardinality(TaikoAhead(c))
  BY <1>2
<1>5. TaikoToCome(i, c) = (IF D > 0 THEN SatSub(2, i) ELSE 0) + a
  BY <1>4 DEF TaikoToCome, D
<1>6. /\ TaikoToCome(i, c) \in Nat
      /\ D = 0 => TaikoToCome(i, c) = 0
      /\ i >= 2 => TaikoToCome(i, c) = a
      /\ i < 2 /\ D > 0 => TaikoToCome(i, c) = 2 - i + a
  BY <1>1, <1>3, <1>4, <1>5 DEF SatSub
<1>7. TaikoRegular => TaikoToCome(i, c) = Taiko!TotalHits - i
  <2>1. SUFFICES ASSUME TaikoRegular
                 PROVE  TaikoToCome(i, c) = Taiko!TotalHits - i
    OBVIOUS
  <2>2. D > 0 /\ Taiko!TotalHits \in Nat
    BY <2>1, TaikoSizes DEF TaikoRegular, D
  <2>3. CASE i >= 2
    BY <1>1, <1>4, <1>6, <2>1, <2>2, <2>3, TaikoPassed
  <2>4. CASE i < 2
    <3>1. c + 2 = 2
      BY <1>1, <2>4
    <3>2. Taiko!TotalHits = TaikoHits(2) + a
      BY <1>1, <1>4, <2>2, <3>1, TaikoAheadSize DEF D
    <3> QED
      BY <1>1, <1>6, <2>1, <2>2, <2>4, <3>2, TaikoFirstHits
  <2> QED
    BY <1>1, <2>3, <2>4
<1> QED
  BY <1>2, <1>4, <1>6, <1>7 DEF D

\* Passing one of the first two objects
LEMMA TaikoPassFirstAt ==
    ASSUME objs \in Seq(BOOLEAN), NEW i \in {0, 1}, Len(objs) >= 2
    PROVE  /\ Taiko!PassFirst(TaikoAt(i, 0)) = TaikoAt(i + 1, 0)
           /\ TaikoReached(i, 0) /\ Taiko!NDiffObjects > 0 => TaikoReached(i + 1, 0)
<1>1. TaikoHits(0) = 0 /\ Taiko!NDiffObjects \in Nat
  BY TaikoSizes
<1>2. /\ objs[0 + 1] => TaikoHits(0 + 1) = TaikoHits(0) + 1
      /\ ~objs[0 + 1] => TaikoHits(0 + 1) = TaikoHits(0)
  BY TaikoHitsNext
<1>3. /\ objs[1 + 1] => TaikoHits(1 + 1) = TaikoHits(1) + 1
      /\ ~objs[1 + 1] => TaikoHits(1 + 1) = TaikoHits(1)
  BY TaikoHitsNext
<1>4. /\ objs[1] => TaikoHits(1) = 1
      /\ ~objs[1] => TaikoHits(1) = 0
      /\ objs[2] => TaikoHits(2) = TaikoHits(1) + 1
      /\ ~objs[2] => TaikoHits(2) = TaikoHits(1)
  BY <1>1, <1>2, <1>3
<1>5. TaikoPosition(i, 0) = i /\ TaikoPosition(i + 1, 0) = i + 1
  BY DEF TaikoPosition
<1> DEFINE p == Taiko!Process(Taiko!FreshSkills, 1, 0)
           s == TaikoStruct(i, TaikoHits(i), p, 0)
<1>6. s.idx = i /\ s.max_combo = TaikoHits(i)
  BY TaikoFields
<1> HIDE DEF p, s
<1>7. Taiko!ComboAfter(s) = TaikoHits(i + 1)
  <2>1. objs[1] \in BOOLEAN /\ objs[2] \in BOOLEAN
    BY ElementOfSeq
  <2>2. /\ objs[1] /\ objs[2] => Taiko!FirstTwoCombos = "Both"
        /\ objs[1] /\ ~objs[2] => Taiko!FirstTwoCombos = "OnlyFirst"
        /\ ~objs[1] /\ objs[2] => Taiko!FirstTwoCombos = "OnlySecond"
        /\ ~objs[1] /\ ~objs[2] => Taiko!FirstTwoCombos = "None"
    BY DEF Taiko!FirstTwoCombos
  <2>3. CASE objs[1] /\ objs[2]
    <3>1. TaikoHits(i + 1) = i + 1
      BY <1>4, <2>3
    <3> QED
      BY <1>6, <2>2, <2>3, <3>1 DEF Taiko!ComboAfter
  <2>4. CASE objs[1] /\ ~objs[2]
    <3>1. TaikoHits(i + 1) = 1
      BY <1>4, <2>4
    <3> QED
      BY <1>6, <2>2, <2>4, <3>1 DEF Taiko!ComboAfter
  <2>5. CASE ~objs[1] /\ objs[2]
    <3>1. TaikoHits(i + 1) = IF i = 1 THEN 1 ELSE TaikoHits(i)
      BY <1>1, <1>4, <2>5
    <3> QED
      BY <1>6, <2>2, <2>5, <3>1 DEF Taiko!ComboAfter
  <2>6. CASE ~objs[1] /\ ~objs[2]
    <3>1. TaikoHits(i + 1) = TaikoHits(i)
      BY <1>1, <1>4, <2>6
    <3> QED
      BY <1>6, <2>2, <2>6, <3>1 DEF Taiko!ComboAfter
  <2> QED
    BY <2>1, <2>3, <2>4, <2>5, <2>6
<1>8. Taiko!PassFirst(s) = TaikoStruct(i + 1, TaikoHits(i + 1), p, 0)
  <2> DEFINE h == TaikoHits(i + 1)
  <2> HIDE DEF h
  <2>1. Taiko!PassFirst(s) = [s EXCEPT !.max_combo = h, !.idx = i + 1]
    BY <1>6, <1>7 DEF Taiko!PassFirst, h
  <2>2. [s EXCEPT !.max_combo = h] = TaikoStruct(i, h, p, 0)
    BY TaikoFields DEF s
  <2>3. [TaikoStruct(i, h, p, 0) EXCEPT !.idx = i + 1] = TaikoStruct(i + 1, h, p, 0)
    BY TaikoFields
  <2>4. [s EXCEPT !.max_combo = h, !.idx = i + 1] = [[s EXCEPT !.max_combo = h] EXCEPT !.idx = i + 1]
    OBVIOUS
  <2> QED
    BY <2>1, <2>2, <2>3, <2>4 DEF h
<1>9. Taiko!PassFirst(TaikoAt(i, 0)) = TaikoAt(i + 1, 0)
  BY <1>5, <1>8 DEF TaikoAt, s, p
<1>10. TaikoReached(i, 0) /\ Taiko!NDiffObjects > 0 => TaikoReached(i + 1, 0)
  <2>1. TaikoRegular => TaikoHits(i + 1) = i + 1
    BY <1>4 DEF TaikoRegular
  <2>2. 0 \in 0 .. Taiko!NDiffObjects
    BY <1>1
  <2> QED
    BY <1>5, <2>1, <2>2 DEF TaikoReached
<1> QED
  BY <1>9, <1>10

\* next from a reached position
LEMMA TaikoNextAt ==
    ASSUME objs \in Seq(BOOLEAN), NEW i, NEW c, TaikoReached(i, c),
           Taiko!NextFrom(TaikoAt(i, c))
    PROVE  \E j, e :
              /\ TaikoReached(j, e) /\ it' = TaikoAt(j, e)
              /\ \/ /\ ret' = <<Taiko!Eval(TaikoAt(j, e))>> /\ j = i + 1
                    /\ TaikoRegular => objs[TaikoPosition(j, e)]
                    /\ i >= 2 => TaikoAhead(c) # {}
                    /\ TaikoToCome(i, c) = TaikoToCome(j, e) + 1
                 \/ /\ ret' = <<>> /\ j = i
                    /\ TaikoRegular => i = Taiko!TotalHits
                    /\ TaikoToCome(i, c) = 0 /\ TaikoToCome(j, e) = 0
<1> DEFINE D == Taiko!NDiffObjects
           s == TaikoAt(i, c)
<1>1. /\ i \in Nat /\ c \in 0 .. D /\ D \in Nat /\ c \in Nat
      /\ i < 2 => c = 0
      /\ i >= 2 => D > 0
  BY TaikoSizes DEF TaikoReached
<1>2. s.idx = i /\ s.cursor = c /\ Taiko!HitsAhead(s) = TaikoAhead(c)
  BY TaikoFields DEF TaikoAt, Taiko!HitsAhead, TaikoAhead
<1>3. CASE i >= 2
  <2>1. PICK stop \in c .. D :
              /\ Taiko!ReadHits(s, 1) = TaikoAt(i, stop)
              /\ TaikoHits(stop + 2) = TaikoHits(c + 2) + MinOf(1, Cardinality(TaikoAhead(c)))
              /\ 1 > Cardinality(TaikoAhead(c)) => stop = D
              /\ 1 <= Cardinality(TaikoAhead(c)) => objs[stop + 2]
    <3>1. 1 \in Nat /\ 1 > 0
      OBVIOUS
    <3> QED
      BY <1>1, <1>3, <3>1, TaikoReadAt
  <2>2. /\ Cardinality(TaikoAhead(c)) \in Nat
        /\ Cardinality(TaikoAhead(c)) = 0 <=> TaikoAhead(c) = {}
        /\ Taiko!TotalHits = TaikoHits(c + 2) + Cardinality(TaikoAhead(c))
        /\ TaikoHits(c + 2) \in Nat
    BY <1>1, <1>3, TaikoAheadSize, FS_EmptySet
  <2>3. /\ stop \in 0 .. D
        /\ TaikoPosition(i, c) = c + 2
        /\ \A j : j \in Nat /\ j >= 2 => TaikoPosition(j, stop) = stop + 2
    BY <1>1, <1>3 DEF TaikoPosition
  <2>6. /\ Taiko!TotalHits = TaikoHits(stop + 2) + Cardinality(TaikoAhead(stop))
        /\ Cardinality(TaikoAhead(stop)) \in Nat /\ TaikoHits(stop + 2) \in Nat
    BY <1>1, <1>3, <2>3, TaikoAheadSize
  <2>4. CASE TaikoAhead(c) # {}
    <3>1. it' = [TaikoAt(i, stop) EXCEPT !.idx = i + 1] /\ ret' = <<Taiko!Eval(it')>>
      <4>1. it' = [Taiko!ReadHits(s, 1) EXCEPT !.idx = @ + 1] /\ ret' = <<Taiko!Eval(it')>>
        BY <1>1, <1>2, <1>3, <2>4 DEF Taiko!NextFrom
      <4>2. TaikoAt(i, stop).idx = i
        BY TaikoFields DEF TaikoAt
      <4> QED
        BY <2>1, <4>1, <4>2
    <3>2. [TaikoAt(i, stop) EXCEPT !.idx = i + 1] = TaikoAt(i + 1, stop)
      <4>1. TaikoPosition(i, stop) = TaikoPosition(i + 1, stop)
        BY <1>1, <1>3 DEF TaikoPosition
      <4> QED
        BY <4>1, TaikoFields DEF TaikoAt
    <3>3. MinOf(1, Cardinality(TaikoAhead(c))) = 1 /\ 1 <= Cardinality(TaikoAhead(c))
      BY <2>2, <2>4 DEF MinOf
    <3>4. i + 1 \in Nat /\ i + 1 >= 2 /\ TaikoPosition(i + 1, stop) = stop + 2
      BY <1>1, <1>3, <2>3
    <3>5. TaikoReached(i + 1, stop)
      <4>1. TaikoRegular => i = TaikoHits(c + 2)
        BY <2>3 DEF TaikoReached
      <4>2. TaikoRegular => i + 1 = TaikoHits(TaikoPosition(i + 1, stop))
        BY <2>1, <3>3, <3>4, <4>1
      <4> QED
        BY <1>1, <1>3, <2>3, <3>4, <4>2 DEF TaikoReached
    <3>6. objs[TaikoPosition(i + 1, stop)]
      BY <2>1, <3>3, <3>4
    <3>7. it' = TaikoAt(i + 1, stop) /\ ret' = <<Taiko!Eval(TaikoAt(i + 1, stop))>>
      BY <3>1, <3>2
    <3>8. TaikoToCome(i, c) = TaikoToCome(i + 1, stop) + 1
      <4>1. Cardinality(TaikoAhead(c)) = Cardinality(TaikoAhead(stop)) + 1
        <5>1. TaikoHits(stop + 2) = TaikoHits(c + 2) + 1
          BY <2>1, <3>3
        <5> QED
          BY ONLY <2>2, <2>6, <5>1
      <4>2. TaikoToCome(i, c) = Cardinality(TaikoAhead(c))
        BY <1>3, TaikoComing
      <4>3. TaikoToCome(i + 1, stop) = Cardinality(TaikoAhead(stop))
        BY <3>4, <3>5, TaikoComing
      <4> QED
        BY <4>1, <4>2, <4>3
    <3> QED
      BY <2>4, <3>5, <3>6, <3>7, <3>8
  <2>5. CASE TaikoAhead(c) = {}
    <3>1. it' = TaikoAt(i, stop) /\ ret' = <<>>
      BY <1>1, <1>2, <1>3, <2>1, <2>5 DEF Taiko!NextFrom
    <3>2. MinOf(1, Cardinality(TaikoAhead(c))) = 0
      BY <2>2, <2>5 DEF MinOf
    <3>3. TaikoHits(stop + 2) = TaikoHits(c + 2)
      BY <2>1, <2>2, <3>2
    <3>4. TaikoReached(i, stop)
      <4>1. TaikoPosition(i, stop) = stop + 2
        BY <1>1, <1>3, <2>3
      <4> QED
        BY <1>1, <1>3, <2>3, <3>3, <4>1 DEF TaikoReached
    <3>5. TaikoRegular => i = Taiko!TotalHits
      BY <2>2, <2>3, <2>5 DEF TaikoReached
    <3>6. TaikoToCome(i, c) = 0 /\ TaikoToCome(i, stop) = 0
      <4>1. TaikoToCome(i, c) = Cardinality(TaikoAhead(c))
        BY <1>3, TaikoComing
      <4>2. TaikoToCome(i, stop) = Cardinality(TaikoAhead(stop))
        BY <1>3, <3>4, TaikoComing
      <4> QED
        BY <2>2, <2>5, <2>6, <3>3, <4>1, <4>2
    <3> QED
      BY <3>1, <3>4, <3>5, <3>6
  <2> QED
    BY <2>4, <2>5
<1>4. CASE i < 2 /\ D > 0
  <2>1. i \in {0, 1} /\ c = 0 /\ Len(objs) >= 2 /\ objs \in Seq(BOOLEAN)
    BY <1>1, <1>4, TaikoSizes
  <2>2. Taiko!PassFirst(s) = TaikoAt(i + 1, 0) /\ TaikoReached(i + 1, 0)
    BY <1>4, <2>1, TaikoPassFirstAt
  <2>3. it' = TaikoAt(i + 1, 0) /\ ret' = <<Taiko!Eval(TaikoAt(i + 1, 0))>>
    <3>1. it' = Taiko!PassFirst(s) /\ ret' = <<Taiko!Eval(it')>>
      BY <1>1, <1>2, <1>4 DEF Taiko!NextFrom
    <3> QED
      BY <2>2, <3>1
  <2>4. TaikoRegular => objs[TaikoPosition(i + 1, 0)]
    BY <2>1 DEF TaikoPosition, TaikoRegular
  <2>5. TaikoToCome(i, c) = TaikoToCome(i + 1, 0) + 1
    <3>1. PICK a \in Nat : a = Cardinality(TaikoAhead(0))
      BY <2>1, TaikoComing
    <3>2. TaikoToCome(i, 0) = 2 - i + a
      BY <1>4, <2>1, <3>1, TaikoComing
    <3>3. PICK j : j = i + 1
      OBVIOUS
    <3>4. TaikoReached(j, 0)
      BY <2>2, <3>3
    <3>5. /\ j >= 2 => TaikoToCome(j, 0) = a
          /\ j < 2 => TaikoToCome(j, 0) = 2 - j + a
      BY <1>4, <3>1, <3>4, TaikoComing
    <3> QED
      BY <2>1, <3>1, <3>2, <3>3, <3>5
  <2> QED
    BY <1>1, <1>4, <2>2, <2>3, <2>4, <2>5
<1>5. CASE i < 2 /\ D = 0
  <2>1. it' = s /\ ret' = <<>>
    BY <1>1, <1>2, <1>5 DEF Taiko!NextFrom
  <2>2. ~TaikoRegular
    BY <1>5, TaikoSizes DEF TaikoRegular
  <2>3. TaikoToCome(i, c) = 0
    BY <1>5, TaikoComing
  <2> QED
    BY <2>1, <2>2, <2>3
<1> QED
  BY <1>1, <1>3, <1>4, <1>5

\* Below its modulus a number stays itself.
LEMMA ModSmall ==
    ASSUME NEW a \in Nat, NEW b \in Nat, a < b
    PROVE  a % b = a
OBVIOUS

\* A remainder is a natural number.
LEMMA ModType ==
    ASSUME NEW a \in Int, NEW b \in Nat, b > 0
    PROVE  a % b \in Nat
OBVIOUS

\* Reading any number of hits, also none, and passing that many items
LEMMA TaikoReadMany ==
    ASSUME objs \in Seq(BOOLEAN), NEW i, NEW c, TaikoReached(i, c),
           NEW k \in Nat, k > 0 => i >= 2,
           NEW hits, hits = MinOf(k, Cardinality(TaikoAhead(c)))
    PROVE  \E stop :
              /\ TaikoReached(i + hits, stop)
              /\ [Taiko!ReadHits(TaikoAt(i, c), k) EXCEPT !.idx = @ + hits]
                    = TaikoAt(i + hits, stop)
              /\ k = 0 => stop = c
<1>1. /\ i \in Nat /\ c \in 0 .. Taiko!NDiffObjects /\ c \in Nat
      /\ Taiko!NDiffObjects \in Nat
      /\ i >= 2 => Taiko!NDiffObjects > 0
  BY TaikoSizes DEF TaikoReached
<1>2. TaikoAhead(c) \in SUBSET (1 .. Taiko!NDiffObjects) /\ IsFiniteSet(1 .. Taiko!NDiffObjects)
  <2>1. 1 \in Int /\ Taiko!NDiffObjects \in Int
    BY <1>1
  <2>2. IsFiniteSet(1 .. Taiko!NDiffObjects)
    BY <2>1, FS_Interval
  <2> QED
    BY <1>1, <2>2 DEF TaikoAhead
<1>3. Cardinality(TaikoAhead(c)) \in Nat
  BY <1>2, FS_Subset, FS_CardinalityType
<1>4. \A e : TaikoAt(i, e).idx = i
  BY TaikoFields DEF TaikoAt
<1>5. CASE k = 0
  <2>1. hits = 0 /\ i + hits = i
    BY <1>1, <1>3, <1>5 DEF MinOf
  <2>2. Taiko!ReadHits(TaikoAt(i, c), 0) = TaikoAt(i, c)
    BY <1>1, <1>3, TaikoReadNone
  <2>3. [TaikoAt(i, c) EXCEPT !.idx = i + hits] = TaikoAt(i, c)
    BY <2>1, TaikoFields DEF TaikoAt
  <2> QED
    BY <1>4, <1>5, <2>1, <2>2, <2>3
<1>6. CASE k > 0
  <2>1. PICK stop \in c .. Taiko!NDiffObjects :
              /\ Taiko!ReadHits(TaikoAt(i, c), k) = TaikoAt(i, stop)
              /\ TaikoHits(stop + 2) = TaikoHits(c + 2) + hits
    BY <1>1, <1>6, TaikoReadAt
  <2>2. i >= 2 /\ i + hits \in Nat /\ i + hits >= 2 /\ stop \in 0 .. Taiko!NDiffObjects
    BY <1>1, <1>3, <1>6, <2>1 DEF MinOf
  <2>3. /\ TaikoPosition(i, c) = c + 2 /\ TaikoPosition(i, stop) = stop + 2
        /\ TaikoPosition(i + hits, stop) = stop + 2
    BY <1>1, <2>2 DEF TaikoPosition
  <2>4. [TaikoAt(i, stop) EXCEPT !.idx = i + hits] = TaikoAt(i + hits, stop)
    BY <2>3, TaikoFields DEF TaikoAt
  <2>5. TaikoReached(i + hits, stop)
    <3>1. TaikoRegular => i + hits = TaikoHits(TaikoPosition(i + hits, stop))
      BY <2>1, <2>3 DEF TaikoReached
    <3>2. ~(i + hits < 2) /\ Taiko!NDiffObjects > 0
      BY <1>1, <2>2
    <3> QED
      BY <2>2, <3>1, <3>2 DEF TaikoReached
  <2> QED
    BY <1>4, <1>6, <2>1, <2>4, <2>5
<1> QED
  BY <1>5, <1>6

\* The first part of nth, that passes up to two of the first two objects
LEMMA TaikoSkipFirstAt ==
    ASSUME objs \in Seq(BOOLEAN), NEW i, NEW c, TaikoReached(i, c),
           NEW first \in Nat, first > 0 => i + first <= 2,
           Taiko!NDiffObjects = 0 => i + first <= 1,
           first > 0 => Len(objs) >= 2,
           first > 0 /\ Taiko!NDiffObjects = 0 => Len(objs) = 2 /\ objs[1] /\ objs[2]
    PROVE  /\ Taiko!SkipFirst(TaikoAt(i, c), first) = TaikoAt(i + first, c)
           /\ TaikoReached(i + first, c)
<1>1. i \in Nat /\ (i < 2 => c = 0) /\ Taiko!NDiffObjects \in Nat
  BY TaikoSizes DEF TaikoReached
<1>2. CASE first = 0
  BY <1>1, <1>2 DEF Taiko!SkipFirst
<1>3. CASE first = 1
  <2>1. i \in {0, 1} /\ c = 0 /\ Len(objs) >= 2
    BY <1>1, <1>3
  <2>2. Taiko!SkipFirst(TaikoAt(i, c), first) = TaikoAt(i + 1, 0)
    BY <1>3, <2>1, TaikoPassFirstAt DEF Taiko!SkipFirst
  <2>3. CASE Taiko!NDiffObjects > 0
    BY <1>3, <2>1, <2>2, <2>3, TaikoPassFirstAt
  <2>4. CASE Taiko!NDiffObjects = 0
    <3>1. i = 0 /\ ~TaikoRegular
      BY <1>1, <1>3, <2>4, TaikoSizes DEF TaikoRegular
    <3>2. TaikoReached(1, 0)
      BY <1>1, <1>3, <2>4, <3>1 DEF TaikoReached
    <3> QED
      BY <1>3, <2>1, <2>2, <3>1, <3>2
  <2> QED
    BY <1>1, <2>3, <2>4
<1>4. CASE first = 2
  <2>1. i = 0 /\ c = 0 /\ Len(objs) >= 2 /\ Taiko!NDiffObjects > 0
    BY <1>1, <1>4
  <2>2. 0 \in {0, 1} /\ 1 \in {0, 1}
    OBVIOUS
  <2>3. /\ Taiko!PassFirst(TaikoAt(0, 0)) = TaikoAt(0 + 1, 0)
        /\ TaikoReached(0, 0) /\ Taiko!NDiffObjects > 0 => TaikoReached(0 + 1, 0)
    BY <2>1, <2>2, TaikoPassFirstAt
  <2>4. /\ Taiko!PassFirst(TaikoAt(1, 0)) = TaikoAt(1 + 1, 0)
        /\ TaikoReached(1, 0) /\ Taiko!NDiffObjects > 0 => TaikoReached(1 + 1, 0)
    BY <2>1, <2>2, TaikoPassFirstAt
  <2>5. Taiko!SkipFirst(TaikoAt(0, 0), 2) = TaikoAt(2, 0)
    BY <2>3, <2>4 DEF Taiko!SkipFirst
  <2> QED
    BY <1>4, <2>1, <2>3, <2>4, <2>5
<1>5. first \in {0, 1, 2}
  BY <1>1
<1> QED
  BY <1>2, <1>3, <1>4, <1>5

\* len() of a reached position
LEMMA TaikoLength ==
    ASSUME objs \in Seq(BOOLEAN), USizeMax \in Nat, Len(objs) <= USizeMax,
           NEW i, NEW c, TaikoReached(i, c)
    PROVE  /\ Taiko!RemainingLen(TaikoAt(i, c)) \in Nat
           /\ i <= Taiko!TotalHits => Taiko!RemainingLen(TaikoAt(i, c)) = Taiko!TotalHits - i
<1>1. TaikoAt(i, c).idx = i
  BY TaikoFields DEF TaikoAt
<1>2. Taiko!RemainingLen(TaikoAt(i, c)) = (Taiko!TotalHits - i) % (USizeMax + 1)
  BY <1>1 DEF Taiko!RemainingLen
<1>3. /\ i \in Nat /\ Taiko!TotalHits \in Nat /\ Taiko!TotalHits < USizeMax + 1
      /\ Taiko!TotalHits - i \in Int /\ USizeMax + 1 \in Nat /\ USizeMax + 1 > 0
  <2>1. i \in Nat /\ Taiko!TotalHits \in Nat /\ Taiko!TotalHits <= Len(objs) /\ Len(objs) \in Nat
    BY TaikoSizes DEF TaikoReached
  <2> QED
    BY <2>1
<1>4. (Taiko!TotalHits - i) % (USizeMax + 1) \in Nat
  BY <1>3, ModType
<1>5. ASSUME i <= Taiko!TotalHits
      PROVE  (Taiko!TotalHits - i) % (USizeMax + 1) = Taiko!TotalHits - i
  <2>1. Taiko!TotalHits - i \in Nat /\ Taiko!TotalHits - i < USizeMax + 1
    BY <1>3, <1>5
  <2> QED
    BY <1>3, <2>1, ModSmall
<1> QED
  BY <1>2, <1>4, <1>5

\* How many of the first two objects nth passes
LEMMA TaikoSkips ==
    ASSUME objs \in Seq(BOOLEAN), USizeMax \in Nat, Len(objs) <= USizeMax,
           NEW i, NEW c, TaikoReached(i, c), NEW n \in Nat,
           NEW wanted, wanted = Taiko!Wanted(TaikoAt(i, c), n),
           NEW first, first = Taiko!SkippedFirst(TaikoAt(i, c), wanted)
    PROVE  /\ wanted \in Nat /\ first \in Nat /\ wanted - first \in Nat
           /\ i >= 2 => first = 0
           /\ wanted - first > 0 => i + first >= 2
           /\ Taiko!SkipFirst(TaikoAt(i, c), first) = TaikoAt(i + first, c)
           /\ TaikoReached(i + first, c)
           /\ i < Taiko!TotalHits => wanted = MinOf(n, Taiko!TotalHits - i - 1)
           /\ i = Taiko!TotalHits => wanted = 0
<1> DEFINE R == Taiko!RemainingLen(TaikoAt(i, c))
           T == Taiko!TotalHits
           D == Taiko!NDiffObjects
<1>1. /\ i \in Nat /\ R \in Nat /\ T \in Nat /\ T <= Len(objs) /\ Len(objs) \in Nat
      /\ D \in Nat /\ (D > 0 <=> Len(objs) > 2)
      /\ i <= T => R = T - i
      /\ i > 0 => D > 0 \/ (i = 1 /\ Len(objs) = 2 /\ objs[1] /\ objs[2])
  BY TaikoSizes, TaikoLength DEF TaikoReached
<1>2. wanted = MinOf(n, SatSub(R, 1))
  BY TaikoLibrary DEF Taiko!Wanted
<1>3. first = IF i >= 2 THEN 0 ELSE MinOf(wanted, 2 - i)
  <2>1. TaikoAt(i, c).idx = i
    BY TaikoFields DEF TaikoAt
  <2> QED
    BY <2>1, TaikoLibrary DEF Taiko!SkippedFirst
<1>4. CASE D = 0
  <2>1. Len(objs) = 2 /\ objs[1] /\ objs[2] => T = 2
    <3>1. ASSUME Len(objs) = 2, objs[1], objs[2]
          PROVE  T = 2
      <4>1. objs[0 + 1] /\ objs[1 + 1] /\ TaikoHits(0) = 0 /\ T = TaikoHits(2)
        BY <3>1, TaikoSizes
      <4>2. TaikoHits(0 + 1) = TaikoHits(0) + 1
        BY <4>1, TaikoHitsNext
      <4>3. TaikoHits(1 + 1) = TaikoHits(1) + 1
        BY <4>1, TaikoHitsNext
      <4> QED
        BY <4>1, <4>2, <4>3
    <3> QED
      BY <3>1
  <2>2. T = 2 => Len(objs) = 2 /\ objs[1] /\ objs[2]
    <3>1. ASSUME T = 2
          PROVE  Len(objs) = 2 /\ objs[1] /\ objs[2]
      <4>1. Len(objs) = 2
        <5>1. PICK l \in Nat : l = Len(objs)
          BY <1>1
        <5>2. 2 <= l /\ ~(l > 2)
          BY <1>1, <1>4, <3>1, <5>1
        <5>3. l = 2
          BY <5>2
        <5> QED
          BY <5>1, <5>3
      <4>2. TaikoHits(0) = 0 /\ T = TaikoHits(2)
        BY <4>1, TaikoSizes
      <4>3. /\ objs[0 + 1] => TaikoHits(0 + 1) = TaikoHits(0) + 1
            /\ ~objs[0 + 1] => TaikoHits(0 + 1) = TaikoHits(0)
        BY TaikoHitsNext
      <4>4. /\ objs[1 + 1] => TaikoHits(1 + 1) = TaikoHits(1) + 1
            /\ ~objs[1 + 1] => TaikoHits(1 + 1) = TaikoHits(1)
        BY TaikoHitsNext
      <4>5. objs[1] /\ objs[2]
        BY <3>1, <4>2, <4>3, <4>4
      <4> QED
        BY <4>1, <4>5
    <3> QED
      BY <3>1
  <2>3. T <= 2 /\ i <= 1 /\ (i = 1 => T = 2)
    BY <1>1, <1>4, <2>1
  <2> HIDE DEF R, T, D
  <2>4. wanted \in Nat /\ first = wanted /\ i + first <= 1 /\ (first > 0 => T = 2)
        /\ (i < T => wanted = MinOf(n, T - i - 1)) /\ (i = T => wanted = 0)
    <3>1. CASE i = 0
      <4>1. R = T
        BY <1>1, <3>1
      <4>2. SatSub(R, 1) = IF T = 2 THEN 1 ELSE 0
        BY <1>1, <2>3, <4>1 DEF SatSub
      <4>3. wanted \in {0, 1} /\ (wanted > 0 => T = 2) /\ (i < T => wanted = MinOf(n, T - i - 1))
        BY <1>1, <1>2, <2>3, <3>1, <4>2 DEF MinOf
      <4>4. first = wanted
        BY <1>3, <3>1, <4>3 DEF MinOf
      <4> QED
        BY <1>1, <2>3, <3>1, <4>3, <4>4
    <3>2. CASE i = 1
      <4>1. R = 1 /\ T = 2
        BY <1>1, <2>3, <3>2
      <4>2. wanted = 0
        BY <1>2, <4>1 DEF SatSub, MinOf
      <4> QED
        BY <1>3, <3>2, <4>1, <4>2 DEF MinOf
    <3> QED
      BY <1>1, <2>3, <3>1, <3>2
  <2>5. /\ Taiko!SkipFirst(TaikoAt(i, c), first) = TaikoAt(i + first, c)
        /\ TaikoReached(i + first, c)
    <3>1. first > 0 => Len(objs) = 2 /\ objs[1] /\ objs[2]
      BY <2>2, <2>4 DEF T
    <3>2. first > 0 => i + first <= 2
      BY <1>1, <2>4
    <3> QED
      BY <1>4, <2>4, <3>1, <3>2, TaikoSkipFirstAt DEF D
  <2> QED
    BY <1>1, <2>3, <2>4, <2>5 DEF T
<1>5. CASE D > 0
  <2>0. Len(objs) >= 2
    BY <1>1, <1>5
  <2> HIDE DEF R, T, D
  <2>1. /\ wanted \in Nat
        /\ i < T => wanted = MinOf(n, T - i - 1)
        /\ i = T => wanted = 0
    <3>1. SatSub(R, 1) \in Nat /\ (i < T => SatSub(R, 1) = T - i - 1) /\ (i = T => SatSub(R, 1) = 0)
      BY <1>1 DEF SatSub
    <3> QED
      BY <1>2, <3>1 DEF MinOf
  <2>2. /\ first \in Nat /\ wanted - first \in Nat
        /\ i >= 2 => first = 0
        /\ first > 0 => i + first <= 2
        /\ wanted - first > 0 => i + first >= 2
    BY <1>1, <1>3, <2>1 DEF MinOf
  <2>3. /\ Taiko!SkipFirst(TaikoAt(i, c), first) = TaikoAt(i + first, c)
        /\ TaikoReached(i + first, c)
    BY <1>1, <1>5, <2>0, <2>2, TaikoSkipFirstAt DEF D
  <2> QED
    BY <2>1, <2>2, <2>3 DEF T
<1> QED
  BY <1>1, <1>4, <1>5

\* nth from a reached position
LEMMA TaikoNthAt ==
    ASSUME objs \in Seq(BOOLEAN), USizeMax \in Nat, Len(objs) <= USizeMax,
           NEW i, NEW c, TaikoReached(i, c), NEW n \in Nat,
           Taiko!NthFrom(TaikoAt(i, c), n)
    PROVE  \E j, e :
              /\ TaikoReached(j, e) /\ it' = TaikoAt(j, e)
              /\ \/ /\ ret' = <<Taiko!Eval(TaikoAt(j, e))>> /\ j > 0
                    /\ TaikoRegular => /\ objs[TaikoPosition(j, e)]
                                       /\ i < Taiko!TotalHits
                                       /\ j = MinOf(i + n + 1, Taiko!TotalHits)
                    /\ i >= 2 => TaikoAhead(c) # {}
                 \/ /\ ret' = <<>>
                    /\ TaikoRegular => i = Taiko!TotalHits /\ j = i
                    /\ i >= 2 /\ TaikoAhead(c) = {} => j = i
<1> DEFINE T      == Taiko!TotalHits
           s      == TaikoAt(i, c)
           wanted == Taiko!Wanted(s, n)
           first  == Taiko!SkippedFirst(s, wanted)
           k      == wanted - first
           begun  == Taiko!SkipFirst(s, first)
           hits   == Taiko!MinOf(k, Taiko!Cardinality(Taiko!HitsAhead(begun)))
           read   == [Taiko!ReadHits(begun, k) EXCEPT !.idx = @ + hits]
<1>1. \/ hits = k /\ Taiko!NextFrom(read)
      \/ hits < k /\ it' = read /\ ret' = <<>>
  BY DEF Taiko!NthFrom
<1>2. /\ wanted \in Nat /\ first \in Nat /\ k \in Nat
      /\ i >= 2 => first = 0
      /\ k > 0 => i + first >= 2
      /\ begun = TaikoAt(i + first, c)
      /\ TaikoReached(i + first, c)
      /\ i < T => wanted = MinOf(n, T - i - 1)
      /\ i = T => wanted = 0
  BY TaikoSkips
<1>3. hits = MinOf(k, Cardinality(TaikoAhead(c)))
  <2>1. TaikoAt(i + first, c).cursor = c
    BY TaikoFields DEF TaikoAt
  <2>2. Taiko!HitsAhead(TaikoAt(i + first, c)) = TaikoAhead(c)
    BY <2>1 DEF Taiko!HitsAhead, TaikoAhead
  <2> QED
    BY <1>2, <2>2, TaikoLibrary
<1>4. PICK stop : /\ TaikoReached(i + first + hits, stop)
                  /\ read = TaikoAt(i + first + hits, stop)
                  /\ k = 0 => stop = c
  <2> HIDE DEF hits, k, first, wanted
  <2>1. \E stop : /\ TaikoReached(i + first + hits, stop)
                  /\ [Taiko!ReadHits(TaikoAt(i + first, c), k) EXCEPT !.idx = @ + hits]
                        = TaikoAt(i + first + hits, stop)
                  /\ k = 0 => stop = c
    BY <1>2, <1>3, TaikoReadMany
  <2> QED
    BY <1>2, <2>1
<1>5. /\ TaikoRegular => /\ i \in Nat /\ T \in Nat /\ i <= T
                         /\ i >= 2 => i + Cardinality(TaikoAhead(c)) = T
                         /\ i + first >= 2 => i + first + Cardinality(TaikoAhead(c)) = T
      /\ T \in Nat /\ i \in Nat
      /\ Cardinality(TaikoAhead(c)) \in Nat
      /\ TaikoAhead(c) = {} => Cardinality(TaikoAhead(c)) = 0
  <2>1. Cardinality(TaikoAhead(c)) \in Nat
    <3>1. TaikoAhead(c) \in SUBSET (c + 1 .. Taiko!NDiffObjects)
      BY DEF TaikoAhead
    <3>2. c + 1 \in Int /\ Taiko!NDiffObjects \in Int
      BY TaikoSizes DEF TaikoReached
    <3> QED
      BY <3>1, <3>2, FS_Interval, FS_Subset, FS_CardinalityType
  <2>2. T \in Nat /\ i \in Nat
    BY TaikoSizes DEF TaikoReached
  <2> QED
    BY <1>2, <2>1, <2>2, TaikoPassed, FS_EmptySet
<1> HIDE DEF read, hits, begun, k, first, wanted, s
<1>6. i + first + k = i + wanted
  BY <1>2, <1>5 DEF k
<1>7. CASE hits = k /\ Taiko!NextFrom(read)
  <2>1. PICK j, e :
              /\ TaikoReached(j, e) /\ it' = TaikoAt(j, e)
              /\ \/ /\ ret' = <<Taiko!Eval(TaikoAt(j, e))>> /\ j = i + wanted + 1
                    /\ TaikoRegular => objs[TaikoPosition(j, e)]
                    /\ i + wanted >= 2 => TaikoAhead(stop) # {}
                 \/ /\ ret' = <<>> /\ j = i + wanted
                    /\ TaikoRegular => i + wanted = T
    <3> DEFINE m == i + wanted
    <3>1. i + first + hits = m
      BY <1>6, <1>7
    <3>2. TaikoReached(m, stop) /\ Taiko!NextFrom(TaikoAt(m, stop))
      BY <1>4, <1>7, <3>1
    <3> HIDE DEF m
    <3>3. \E j, e :
              /\ TaikoReached(j, e) /\ it' = TaikoAt(j, e)
              /\ \/ /\ ret' = <<Taiko!Eval(TaikoAt(j, e))>> /\ j = m + 1
                    /\ TaikoRegular => objs[TaikoPosition(j, e)]
                    /\ m >= 2 => TaikoAhead(stop) # {}
                 \/ /\ ret' = <<>> /\ j = m
                    /\ TaikoRegular => m = T
      BY <3>2, TaikoNextAt
    <3> QED
      BY <3>3 DEF m
  <2>2. TaikoRegular => j \in Nat /\ j <= T
    BY <2>1, TaikoPassed
  <2>3. i >= 2 /\ TaikoAhead(c) = {} => wanted = 0 /\ stop = c
    <3>1. ASSUME i >= 2, TaikoAhead(c) = {}
          PROVE  k = 0
      BY <1>2, <1>3, <1>5, <1>7, <3>1 DEF MinOf
    <3> QED
      BY <1>2, <1>4, <3>1 DEF k
  <2>4. CASE /\ ret' = <<Taiko!Eval(TaikoAt(j, e))>> /\ j = i + wanted + 1
             /\ TaikoRegular => objs[TaikoPosition(j, e)]
             /\ i + wanted >= 2 => TaikoAhead(stop) # {}
    <3>1. j > 0
      BY <1>2, <1>5, <2>4
    <3>2. TaikoRegular => i < T /\ j = MinOf(i + n + 1, T)
      <4>1. TaikoRegular => i < T
        BY <1>2, <1>5, <2>2, <2>4
      <4> QED
        BY <1>2, <1>5, <2>2, <2>4, <4>1 DEF MinOf
    <3>3. i >= 2 => TaikoAhead(c) # {}
      BY <1>2, <1>5, <2>3, <2>4
    <3> QED
      BY <2>1, <2>4, <3>1, <3>2, <3>3
  <2>5. CASE /\ ret' = <<>> /\ j = i + wanted
             /\ TaikoRegular => i + wanted = T
    <3>1. TaikoRegular => i = T /\ j = i
      BY <1>2, <1>5, <2>5 DEF MinOf
    <3>2. i >= 2 /\ TaikoAhead(c) = {} => j = i
      BY <1>5, <2>3, <2>5
    <3> QED
      BY <2>1, <2>5, <3>1, <3>2
  <2> QED
    BY <2>1, <2>4, <2>5
<1>8. CASE hits < k /\ it' = read /\ ret' = <<>>
  <2>1. TaikoReached(i + first + hits, stop) /\ it' = TaikoAt(i + first + hits, stop)
    BY <1>4, <1>8
  <2>2. hits = Cardinality(TaikoAhead(c)) /\ k > 0 /\ i + first >= 2
    BY <1>2, <1>3, <1>5, <1>8 DEF MinOf
  <2>3. ~TaikoRegular
    <3>1. SUFFICES ASSUME TaikoRegular
                   PROVE  FALSE
      OBVIOUS
    <3>2. i + first + hits = T /\ i <= T
      BY <1>5, <2>2, <3>1
    <3>3. i < T => wanted <= T - i - 1
      BY <1>2, <1>5 DEF MinOf
    <3>4. i + wanted > T
      BY <1>2, <1>5, <1>6, <1>8, <2>2, <3>2
    <3> QED
      BY <1>2, <1>5, <3>2, <3>3, <3>4
  <2>4. i >= 2 /\ TaikoAhead(c) = {} => i + first + hits = i
    BY <1>2, <1>5, <2>2
  <2> QED
    BY <1>8, <2>1, <2>3, <2>4
<1> QED
  BY <1>1, <1>7, <1>8

\* What the calculation of j hits gives is what the iterator has after them.
LEMMA TaikoCalculateAt ==
    ASSUME objs \in Seq(BOOLEAN), TaikoRegular, NEW j, NEW e, TaikoReached(j, e), j > 0,
           objs[TaikoPosition(j, e)]
    PROVE  Taiko!Calculate(j) = Taiko!Eval(TaikoAt(j, e))
<1> DEFINE D == Taiko!NDiffObjects
           P == TaikoPosition(j, e)
<1>1. /\ j \in Nat /\ e \in 0 .. D /\ (j < 2 => e = 0) /\ j = TaikoHits(P)
      /\ D \in Nat /\ Len(objs) = D + 2 /\ DOMAIN objs = 1 .. D + 2 /\ D > 0
  BY TaikoSizes DEF TaikoReached, TaikoRegular
<1> HIDE DEF D
<1>2. P \in Nat /\ P >= 1 /\ P <= D + 2 /\ P - 1 \in Nat /\ P = (P - 1) + 1 /\ objs[P]
  BY <1>1 DEF TaikoPosition
<1>3. SatSub(P - 1, 1) = e /\ SatSub(P, 1) = P - 1 /\ MinOf(e, D) = e
  BY <1>1 DEF TaikoPosition, SatSub, MinOf
<1> HIDE DEF P
<1>4. TaikoHits(P) = TaikoHits(P - 1) + 1 /\ TaikoHits(P - 1) \in Nat
  <2>1. PICK q \in Nat : q = P - 1
    BY <1>2
  <2>2. TaikoHits(q + 1) = TaikoHits(q) + 1 /\ TaikoHits(q) \in Nat
    <3>1. q <= q /\ objs[q + 1]
      BY <1>2, <2>1
    <3> QED
      BY <3>1, TaikoHitsNext, TaikoHitsMore
  <2>3. q + 1 = P
    BY <1>2, <2>1
  <2> QED
    BY <2>1, <2>2, <2>3
<1>5. Taiko!Prefix(j) = 1 .. P
  <2>1. ASSUME NEW x \in 1 .. D + 2
        PROVE  Cardinality(Taiko!HitsIn(1 .. x - 1)) < j <=> x <= P
    <3>1. PICK y \in Nat : y = x - 1 /\ y <= D + 2
      BY <1>1
    <3>2. Cardinality(Taiko!HitsIn(1 .. x - 1)) = TaikoHits(y)
      BY <3>1 DEF TaikoHits
    <3>3. CASE x <= P
      <4>1. PICK q \in Nat : q = P - 1 /\ y <= q
        BY <1>2, <3>1, <3>3
      <4>2. TaikoHits(y) <= TaikoHits(q) /\ TaikoHits(y) \in Nat
        BY <4>1, TaikoHitsMore
      <4> QED
        BY <1>1, <1>4, <3>2, <3>3, <4>1, <4>2
    <3>4. CASE ~(x <= P)
      <4>1. P <= y
        BY <1>2, <3>1, <3>4
      <4>2. TaikoHits(P) <= TaikoHits(y) /\ TaikoHits(y) \in Nat
        BY <1>2, <4>1, TaikoHitsMore
      <4> QED
        BY <1>1, <3>2, <3>4, <4>2
    <3> QED
      BY <3>3, <3>4
  <2>2. Taiko!Prefix(j) = {x \in 1 .. D + 2 : Cardinality(Taiko!HitsIn(1 .. x - 1)) < j}
    BY <1>1, TaikoLibrary DEF Taiko!Prefix
  <2>3. Taiko!Prefix(j) = {x \in 1 .. D + 2 : x <= P}
    BY <2>1, <2>2
  <2> QED
    BY <1>1, <1>2, <2>3
<1>6. Cardinality(1 .. P) = P
  <2>1. 1 \in Int /\ P \in Int /\ ~(1 > P) /\ P - 1 + 1 = P
    BY <1>2
  <2> QED
    BY <2>1, FS_Interval
<1>7. Taiko!Calculate(j) = [max_combo |-> TaikoHits(P), rated |-> Taiko!Process(Taiko!FreshSkills, 1, e)]
  <2>1. Len(objs) >= 2 /\ j > 0
    BY <1>1
  <2>2. Taiko!Cardinality(Taiko!Prefix(j)) = P
    BY <1>5, <1>6, TaikoLibrary
  <2>3. Taiko!Cardinality(Taiko!HitsIn(Taiko!Prefix(j))) = TaikoHits(P)
    BY <1>5, TaikoLibrary DEF TaikoHits
  <2>4. (IF Len(objs) >= 2 /\ j > 0 THEN Taiko!SatSub(P, 1) ELSE P) = P - 1
    BY <1>3, <2>1, TaikoLibrary
  <2>5. Taiko!MinOf(Taiko!SatSub(P - 1, 1), Taiko!NDiffObjects) = e
    BY <1>3, TaikoLibrary DEF D
  <2> QED
    BY <2>2, <2>3, <2>4, <2>5 DEF Taiko!Calculate
<1> QED
  BY <1>7, TaikoFields DEF TaikoAt, Taiko!Eval, P

\* Where an iterator stands and what it returned last
TaikoState(i, c) ==
    /\ TaikoReached(i, c) /\ it = TaikoAt(i, c)
    /\ \/ ret = <<>>
       \/ /\ i > 0 /\ ret = <<Taiko!Eval(TaikoAt(i, c))>>
          /\ TaikoRegular => objs[TaikoPosition(i, c)]

\* Idx and position belong together and determine the struct and the value.
TaikoInv ==
    /\ objs \in TaikoMaps /\ take \in Takes
    /\ TaikoState(it.idx, it.cursor)

\* A call that skips n items
TaikoMove(n) ==
    \E j, e :
        /\ TaikoReached(j, e) /\ it' = TaikoAt(j, e)
        /\ \/ /\ ret' = <<Taiko!Eval(TaikoAt(j, e))>> /\ j > 0
              /\ TaikoRegular => /\ objs[TaikoPosition(j, e)]
                                 /\ it.idx < Taiko!TotalHits
                                 /\ j = MinOf(it.idx + n + 1, Taiko!TotalHits)
              /\ it.idx >= 2 => Taiko!HitsAhead(it) # {}
           \/ /\ ret' = <<>>
              /\ TaikoRegular => it.idx = Taiko!TotalHits /\ j = it.idx
              /\ it.idx >= 2 /\ Taiko!HitsAhead(it) = {} => j = it.idx

\* What the assumptions say of the map and of the arguments
LEMMA TaikoTypes ==
    ASSUME objs \in TaikoMaps
    PROVE  /\ objs \in Seq(BOOLEAN) /\ USizeMax \in Nat /\ NthArgs \subseteq Nat
           /\ Len(objs) <= USizeMax
BY ModesAssumption, CallsAssumption, LengthsAssumption
   DEF Taiko!MapsAssumption, Mania!ArgsAssumption

\* Every call is a move.
LEMMA TaikoMoves ==
    ASSUME TaikoInv
    PROVE  /\ Taiko!NextCall => TaikoMove(0) /\ UNCHANGED objs
           /\ \A n \in Nat : Taiko!NthCall(n) => TaikoMove(n) /\ UNCHANGED objs
<1> DEFINE i == it.idx
           c == it.cursor
           T == Taiko!TotalHits
<1>1. /\ objs \in Seq(BOOLEAN) /\ USizeMax \in Nat /\ Len(objs) <= USizeMax
      /\ TaikoReached(i, c) /\ it = TaikoAt(i, c)
      /\ Taiko!HitsAhead(it) = TaikoAhead(c)
      /\ T \in Nat /\ i \in Nat
  BY TaikoTypes, TaikoSizes DEF TaikoInv, TaikoState, Taiko!HitsAhead, TaikoAhead, TaikoReached
<1> HIDE DEF i, c
<1>2. ASSUME Taiko!NextCall
      PROVE  TaikoMove(0) /\ UNCHANGED objs
  <2>1. Taiko!NextFrom(TaikoAt(i, c)) /\ UNCHANGED objs
    BY <1>1, <1>2 DEF Taiko!NextCall
  <2>2. PICK j, e :
              /\ TaikoReached(j, e) /\ it' = TaikoAt(j, e)
              /\ \/ /\ ret' = <<Taiko!Eval(TaikoAt(j, e))>> /\ j = i + 1
                    /\ TaikoRegular => objs[TaikoPosition(j, e)]
                    /\ i >= 2 => TaikoAhead(c) # {}
                 \/ /\ ret' = <<>> /\ j = i
                    /\ TaikoRegular => i = Taiko!TotalHits
    BY <1>1, <2>1, TaikoNextAt
  <2>3. TaikoRegular => j \in Nat /\ j <= T
    BY <1>1, <2>2, TaikoPassed
  <2>4. j = i + 1 => j > 0 /\ (TaikoRegular => i < T /\ j = MinOf(i + 0 + 1, T))
    BY <1>1, <2>3 DEF MinOf
  <2>5. it.idx = i
    BY DEF i
  <2> QED
    BY <1>1, <2>1, <2>2, <2>4, <2>5 DEF TaikoMove
<1>3. ASSUME NEW n \in Nat, Taiko!NthCall(n)
      PROVE  TaikoMove(n) /\ UNCHANGED objs
  <2>1. Taiko!NthFrom(TaikoAt(i, c), n) /\ UNCHANGED objs
    BY <1>1, <1>3 DEF Taiko!NthCall
  <2>2. \E j, e :
              /\ TaikoReached(j, e) /\ it' = TaikoAt(j, e)
              /\ \/ /\ ret' = <<Taiko!Eval(TaikoAt(j, e))>> /\ j > 0
                    /\ TaikoRegular => /\ objs[TaikoPosition(j, e)]
                                       /\ i < Taiko!TotalHits
                                       /\ j = MinOf(i + n + 1, Taiko!TotalHits)
                    /\ i >= 2 => TaikoAhead(c) # {}
                 \/ /\ ret' = <<>>
                    /\ TaikoRegular => i = Taiko!TotalHits /\ j = i
                    /\ i >= 2 /\ TaikoAhead(c) = {} => j = i
    BY <1>1, <2>1, TaikoNthAt
  <2>5. it.idx = i
    BY DEF i
  <2> QED
    BY <1>1, <2>1, <2>2, <2>5 DEF TaikoMove
<1> QED
  BY <1>2, <1>3

\* The functions of the map do not change when the map does not.
LEMMA TaikoSameMap ==
    ASSUME objs' = objs
    PROVE  /\ \A i, c : /\ TaikoAt(i, c)' = TaikoAt(i, c)
                        /\ TaikoReached(i, c)' <=> TaikoReached(i, c)
           /\ \A k : Taiko!Calculate(k)' = Taiko!Calculate(k)
           /\ Taiko!TotalHits' = Taiko!TotalHits
           /\ TaikoRegular' <=> TaikoRegular
<1>1. \A p : TaikoHits(p)' = TaikoHits(p)
  BY DEF TaikoHits, Taiko!HitsIn
<1>2. Taiko!NDiffObjects' = Taiko!NDiffObjects
  BY DEF Taiko!NDiffObjects
<1>3. TaikoRegular' <=> TaikoRegular
  BY DEF TaikoRegular
<1>4. \A i, c : TaikoAt(i, c)' = TaikoAt(i, c)
  BY <1>1 DEF TaikoAt
<1>5. \A i, c : TaikoReached(i, c)' <=> TaikoReached(i, c)
  BY <1>1, <1>2, <1>3 DEF TaikoReached
<1>6. \A J : Taiko!HitsIn(J)' = Taiko!HitsIn(J)
  BY DEF Taiko!HitsIn
<1>7. Taiko!TotalHits' = Taiko!TotalHits
  BY <1>6 DEF Taiko!TotalHits
<1>8. \A k : Taiko!Prefix(k)' = Taiko!Prefix(k)
  BY <1>6 DEF Taiko!Prefix
<1>9. \A k : Taiko!Calculate(k)' = Taiko!Calculate(k)
  BY <1>2, <1>6, <1>8 DEF Taiko!Calculate
<1> QED
  BY <1>3, <1>4, <1>5, <1>7, <1>9

\* A move preserves the invariant; on a regular map it goes to the item that
\* the argument names.
LEMMA TaikoMovePreserves ==
    ASSUME TaikoInv, NEW n \in Nat, TaikoMove(n), UNCHANGED <<objs, take>>
    PROVE  /\ TaikoInv'
           /\ TaikoRegular =>
                IF it.idx < Taiko!TotalHits
                THEN /\ it'.idx = MinOf(it.idx + n + 1, Taiko!TotalHits)
                     /\ ret' = <<Taiko!Calculate(it'.idx)>>
                ELSE it'.idx = it.idx /\ ret' = <<>>
           /\ it.idx >= 2 /\ Taiko!HitsAhead(it) = {} => ret' = <<>> /\ it'.idx = it.idx
<1>1. PICK j, e :
        /\ TaikoReached(j, e) /\ it' = TaikoAt(j, e)
        /\ \/ /\ ret' = <<Taiko!Eval(TaikoAt(j, e))>> /\ j > 0
              /\ TaikoRegular => /\ objs[TaikoPosition(j, e)]
                                 /\ it.idx < Taiko!TotalHits
                                 /\ j = MinOf(it.idx + n + 1, Taiko!TotalHits)
              /\ it.idx >= 2 => Taiko!HitsAhead(it) # {}
           \/ /\ ret' = <<>>
              /\ TaikoRegular => it.idx = Taiko!TotalHits /\ j = it.idx
              /\ it.idx >= 2 /\ Taiko!HitsAhead(it) = {} => j = it.idx
  BY DEF TaikoMove
<1>2. it'.idx = j /\ it'.cursor = e
  BY <1>1, TaikoFields DEF TaikoAt
<1>3. /\ TaikoReached(j, e)' /\ TaikoAt(j, e)' = TaikoAt(j, e)
      /\ TaikoRegular' <=> TaikoRegular
      /\ Taiko!Eval(TaikoAt(j, e))' = Taiko!Eval(TaikoAt(j, e))
      /\ TaikoPosition(j, e)' = TaikoPosition(j, e)
  BY <1>1, TaikoSameMap DEF Taiko!Eval
<1>4. /\ TaikoReached(j, e)' /\ it' = TaikoAt(j, e)'
      /\ \/ ret' = <<>>
         \/ /\ j > 0 /\ ret' = <<Taiko!Eval(TaikoAt(j, e))'>>
            /\ TaikoRegular' => objs[TaikoPosition(j, e)]'
  BY <1>1, <1>3
<1>5. TaikoInv'
  BY <1>2, <1>4 DEF TaikoInv, TaikoState
<1>6. TaikoRegular =>
                IF it.idx < Taiko!TotalHits
                THEN /\ it'.idx = MinOf(it.idx + n + 1, Taiko!TotalHits)
                     /\ ret' = <<Taiko!Calculate(it'.idx)>>
                ELSE it'.idx = it.idx /\ ret' = <<>>
  <2>1. SUFFICES ASSUME TaikoRegular
                 PROVE  IF it.idx < Taiko!TotalHits
                        THEN /\ it'.idx = MinOf(it.idx + n + 1, Taiko!TotalHits)
                             /\ ret' = <<Taiko!Calculate(it'.idx)>>
                        ELSE it'.idx = it.idx /\ ret' = <<>>
    OBVIOUS
  <2>2. objs \in Seq(BOOLEAN) /\ Taiko!TotalHits \in Nat
    BY TaikoTypes, TaikoSizes DEF TaikoInv
  <2>3. CASE /\ ret' = <<Taiko!Eval(TaikoAt(j, e))>> /\ j > 0 /\ objs[TaikoPosition(j, e)]
             /\ it.idx < Taiko!TotalHits /\ j = MinOf(it.idx + n + 1, Taiko!TotalHits)
    <3>1. Taiko!Calculate(j) = Taiko!Eval(TaikoAt(j, e))
      BY <1>1, <2>1, <2>2, <2>3, TaikoCalculateAt
    <3> QED
      BY <1>2, <2>3, <3>1
  <2>4. CASE ret' = <<>> /\ it.idx = Taiko!TotalHits /\ j = it.idx
    BY <1>2, <2>2, <2>4
  <2> QED
    BY <1>1, <2>1, <2>3, <2>4
<1>7. it.idx >= 2 /\ Taiko!HitsAhead(it) = {} => ret' = <<>> /\ it'.idx = it.idx
  BY <1>1, <1>2
<1> QED
  BY <1>5, <1>6, <1>7

\* The invariant holds at first.
LEMMA TaikoInit == Taiko!Init /\ take \in Takes => TaikoInv /\ it.idx = 0 /\ ret = <<>>
<1> SUFFICES ASSUME Taiko!Init, take \in Takes
             PROVE  TaikoInv /\ it.idx = 0 /\ ret = <<>>
  OBVIOUS
<1>1. objs \in TaikoMaps /\ objs \in Seq(BOOLEAN) /\ ret = <<>>
  BY TaikoTypes DEF Taiko!Init
<1>2. TaikoHits(0) = 0 /\ Taiko!NDiffObjects \in Nat
  BY <1>1, TaikoSizes
<1>3. Taiko!Process(Taiko!FreshSkills, 1, 0) = Taiko!FreshSkills
  <2>1. <<>> \o [i \in 1 .. 0 + 1 - 1 |-> 1 - 1 + i] = <<>>
    OBVIOUS
  <2>2. Taiko!Process(Taiko!FreshSkills, 1, 0)
          = [s \in Taiko!Skills |-> <<>> \o [i \in 1 .. 0 + 1 - 1 |-> 1 - 1 + i]]
    BY DEF Taiko!Process, Taiko!FreshSkills
  <2> QED
    BY <2>1, <2>2 DEF Taiko!FreshSkills
<1>4. TaikoPosition(0, 0) = 0
  BY DEF TaikoPosition
<1>5. it = TaikoAt(0, 0)
  BY <1>2, <1>3, <1>4 DEF Taiko!Init, TaikoAt, TaikoStruct
<1>6. it.idx = 0 /\ it.cursor = 0
  BY <1>5, TaikoFields DEF TaikoAt
<1>7. TaikoReached(0, 0)
  BY <1>2, <1>4 DEF TaikoReached
<1> QED
  BY <1>1, <1>5, <1>6, <1>7 DEF TaikoInv, TaikoState

\* The invariant gives the properties of the taiko iterator.
LEMMA TaikoProperties ==
    ASSUME TaikoInv
    PROVE  /\ Taiko!TypeOK /\ Taiko!SkillsInStep /\ Taiko!ComboCountsHits
           /\ TaikoRegular /\ ret # <<>> => ret = <<Taiko!Calculate(it.idx)>>
           /\ TaikoRegular => /\ it.idx \in Nat /\ it.idx <= Taiko!TotalHits
                              /\ Taiko!RemainingLen(it) = Taiko!TotalHits - it.idx
<1> DEFINE i == it.idx
           c == it.cursor
           p == Taiko!Process(Taiko!FreshSkills, 1, c)
           h == TaikoHits(TaikoPosition(i, c))
<1>1. /\ objs \in TaikoMaps /\ objs \in Seq(BOOLEAN) /\ USizeMax \in Nat /\ Len(objs) <= USizeMax
      /\ TaikoReached(i, c) /\ it = TaikoStruct(i, h, p, c)
      /\ i \in Nat /\ c \in 0 .. Taiko!NDiffObjects /\ c \in Nat
      /\ ret = <<>> \/ (i > 0 /\ ret = <<Taiko!Eval(TaikoAt(i, c))>>
                          /\ (TaikoRegular => objs[TaikoPosition(i, c)]))
  BY TaikoTypes, TaikoSizes DEF TaikoInv, TaikoState, TaikoReached, TaikoAt
<1>2. h \in Nat
  <2>1. TaikoPosition(i, c) \in Nat /\ TaikoPosition(i, c) <= TaikoPosition(i, c)
    BY <1>1 DEF TaikoPosition
  <2> QED
    BY <2>1, TaikoHitsMore
<1>3. p \in [Taiko!Skills -> Seq(Nat)]
  <2>1. c <= c
    BY <1>1
  <2> QED
    BY <1>1, <2>1, TaikoProcessMore
<1>4. it.max_combo = h /\ it.skills = p
  BY <1>1, TaikoFields
<1>5. Taiko!SkillsInStep
  BY <1>4 DEF Taiko!SkillsInStep
<1>6. Taiko!ComboCountsHits
  BY <1>4, TaikoLibrary DEF Taiko!ComboCountsHits, TaikoHits, TaikoPosition
<1>7. it \in [idx : Nat, max_combo : Nat, skills : [Taiko!Skills -> Seq(Nat)],
              cursor : 0 .. Taiko!NDiffObjects]
  <2>1. it = [idx |-> i, max_combo |-> h, skills |-> p, cursor |-> c]
    BY <1>1 DEF TaikoStruct
  <2> HIDE DEF i, h, p, c
  <2> QED
    BY <1>1, <1>2, <1>3, <2>1
<1>8. ret \in Seq(Taiko!Values) /\ Len(ret) <= 1
  <2>1. CASE ret = <<>>
    BY <2>1, EmptySeq
  <2>2. CASE ret = <<Taiko!Eval(TaikoAt(i, c))>>
    <3>1. Taiko!Eval(TaikoAt(i, c)) = [max_combo |-> h, rated |-> p]
      BY TaikoFields DEF Taiko!Eval, TaikoAt
    <3> HIDE DEF h, p
    <3>2. Taiko!Eval(TaikoAt(i, c)) \in Taiko!Values
      BY <1>2, <1>3, <3>1 DEF Taiko!Values
    <3>3. \A S : \A x \in S : <<x>> \in Seq(S) /\ Len(<<x>>) <= 1
      OBVIOUS
    <3> QED
      BY <2>2, <3>2, <3>3
  <2> QED
    BY <1>1, <2>1, <2>2
<1>9. Taiko!TypeOK
  BY <1>1, <1>7, <1>8 DEF Taiko!TypeOK
<1>10. TaikoRegular /\ ret # <<>> => ret = <<Taiko!Calculate(i)>>
  BY <1>1, TaikoCalculateAt
<1>11. TaikoRegular => /\ i \in Nat /\ i <= Taiko!TotalHits
                       /\ Taiko!RemainingLen(it) = Taiko!TotalHits - i
  <2>1. it = TaikoAt(i, c)
    BY <1>1 DEF TaikoAt
  <2> QED
    BY <1>1, <2>1, TaikoPassed, TaikoLength
<1> QED
  BY <1>5, <1>6, <1>9, <1>10, <1>11

------------------------------------------------------------------------------
(* osu!standard *)

\* The proofs about the osu!standard iterator alone
OsuP == INSTANCE OsuGradual_proofs WITH Maps <- OsuMaps

\* What they assume of the constants is assumed here.
LEMMA OsuAssumptions == OsuP!MapsAssumption /\ OsuP!ArgsAssumption
BY ModesAssumption, CallsAssumption
   DEF Osu!MapsAssumption, OsuP!MapsAssumption, Osu!ArgsAssumption, OsuP!ArgsAssumption,
       Osu!Object, OsuP!Object

\* The cardinality of the instance is that of this module.
LEMMA CardinalitiesAgree == \A J : Osu!Cardinality(J) = Cardinality(J)
BY DEF Osu!Cardinality, Cardinality, Osu!IsFiniteSet, IsFiniteSet

\* Both instances of the calculator are the same one: its parts ...
LEMMA OsuParts ==
    /\ \A a, b : Osu!MinOf(a, b) = OsuP!MinOf(a, b) /\ Osu!SatSub(a, b) = OsuP!SatSub(a, b)
    /\ Osu!NDiffObjects = OsuP!NDiffObjects
    /\ Osu!ZeroAttrs = OsuP!ZeroAttrs
    /\ Osu!FreshSkills = OsuP!FreshSkills
    /\ Osu!Skills = OsuP!Skills
    /\ \A s, a, b : Osu!Process(s, a, b) = OsuP!Process(s, a, b)
    /\ \A a, J : Osu!IncrementCombo(a, J) = OsuP!IncrementCombo(a, J)
    /\ \A a, b : Osu!ScoreOf(a, b) = OsuP!ScoreOf(a, b)
<1>1. /\ \A J : Osu!Cardinality(J) = OsuP!Cardinality(J)
      /\ \A k, J : Osu!OfKind(k, J) = OsuP!OfKind(k, J)
      /\ Osu!NestedCount = OsuP!NestedCount /\ Osu!LargeTickCount = OsuP!LargeTickCount
  BY DEF Osu!Cardinality, OsuP!Cardinality, Osu!IsFiniteSet, OsuP!IsFiniteSet,
         Osu!OfKind, OsuP!OfKind, Osu!NestedCount, OsuP!NestedCount,
         Osu!LargeTickCount, OsuP!LargeTickCount
<1>2. \A w, J : Osu!TotalOf(w, J) = OsuP!TotalOf(w, J)
  BY <1>1 DEF Osu!TotalOf, OsuP!TotalOf
<1>3. Osu!Skills = OsuP!Skills
  BY DEF Osu!Skills, OsuP!Skills
<1>4. \A a, J : Osu!IncrementCombo(a, J) = OsuP!IncrementCombo(a, J)
  BY <1>1, <1>2 DEF Osu!IncrementCombo, OsuP!IncrementCombo
<1> QED
  BY <1>3, <1>4
     DEF Osu!MinOf, OsuP!MinOf, Osu!SatSub, OsuP!SatSub, Osu!NDiffObjects, OsuP!NDiffObjects,
         Osu!ZeroAttrs, OsuP!ZeroAttrs, Osu!FreshSkills, OsuP!FreshSkills,
         Osu!Process, OsuP!Process, Osu!ScoreOf, OsuP!ScoreOf

\* ... its calculations ...
LEMMA OsuCalculations ==
    /\ \A k : Osu!Calculate(k) = OsuP!Calculate(k) /\ Osu!StructAt(k) = OsuP!StructAt(k)
    /\ \A s : Osu!RemainingLen(s) = OsuP!RemainingLen(s)
    /\ \A s, a, b : Osu!Consume(s, a, b) = OsuP!Consume(s, a, b)
BY OsuParts
   DEF Osu!Calculate, OsuP!Calculate, Osu!StructAt, OsuP!StructAt,
       Osu!RemainingLen, OsuP!RemainingLen, Osu!Consume, OsuP!Consume

\* ... and its actions and properties.
LEMMA OsuActions ==
    /\ Osu!Init <=> OsuP!Init
    /\ Osu!NextCall <=> OsuP!NextCall
    /\ \A n : Osu!NthCall(n) <=> OsuP!NthCall(n)
    /\ Osu!TypeOK <=> OsuP!TypeOK
    /\ Osu!InStep <=> OsuP!InStep
<1>1. Osu!Init <=> OsuP!Init
  BY OsuParts DEF Osu!Init, OsuP!Init
<1>2. \A s : /\ Osu!HasNext(s) <=> OsuP!HasNext(s)
             /\ Osu!Advanced(s) = OsuP!Advanced(s)
             /\ Osu!Eval(s) = OsuP!Eval(s)
  BY OsuParts, OsuCalculations
     DEF Osu!HasNext, OsuP!HasNext, Osu!Advanced, OsuP!Advanced, Osu!Eval, OsuP!Eval,
         Osu!UpdateLegacyScoreAttributes, OsuP!UpdateLegacyScoreAttributes
<1>3. Osu!Eval(it') = OsuP!Eval(it')
  BY DEF Osu!Eval, OsuP!Eval
<1>4. \A s : Osu!NextFrom(s) <=> OsuP!NextFrom(s)
  BY <1>2, <1>3 DEF Osu!NextFrom, OsuP!NextFrom
<1>5. \A s, n : Osu!Skipped(s, n) = OsuP!Skipped(s, n)
  BY OsuParts, OsuCalculations DEF Osu!Skipped, OsuP!Skipped
<1>6. Osu!TypeOK <=> OsuP!TypeOK
  BY OsuParts
     DEF Osu!TypeOK, OsuP!TypeOK, Osu!Attrs, OsuP!Attrs, Osu!Score, OsuP!Score,
         Osu!Values, OsuP!Values
<1>7. Osu!InStep <=> OsuP!InStep
  BY OsuCalculations DEF Osu!InStep, OsuP!InStep
<1> QED
  BY <1>1, <1>4, <1>5, <1>6, <1>7 DEF Osu!NextCall, OsuP!NextCall, Osu!NthCall, OsuP!NthCall

------------------------------------------------------------------------------
(* Every mode *)

\* In every mode the invariant of its iterator
AnyInv ==
    \/ mode = "osu"   /\ OsuP!IInv /\ take \in Takes
    \/ mode = "taiko" /\ TaikoInv
    \/ mode = "catch" /\ CatchInv /\ take \in Takes
    \/ mode = "mania" /\ ManiaInv

\* What is returned at position k: in three modes the ordinary calculation, in
\* osu!mania the one with the ticks that the iterator computes.
Returned(k) == IF mode = "mania" THEN ManiaValue(k) ELSE Calculate(k)

\* n items are passed over, but not the last one, and the next is returned.
Goes(n) ==
    IF it.idx < NItems
    THEN it'.idx = MinOf(it.idx + n + 1, NItems) /\ ret' = <<Returned(it'.idx)>>
    ELSE it'.idx = it.idx /\ ret' = <<>>

\* What a call of nth(n), or of next with n = 0, does in every mode
Goal(n) ==
    /\ AnyInv'
    /\ UNCHANGED <<mode, objs, take>>
    /\ Regular => Goes(n)
    /\ mode = "taiko" /\ it.idx >= 2 /\ Taiko!HitsAhead(it) = {}
            => ret' = <<>> /\ it'.idx = it.idx

\* osu!standard, whose moves are those of its own proofs
LEMMA OsuStep ==
    ASSUME mode = "osu", OsuP!IInv, take \in Takes, NEW n \in Nat, UNCHANGED <<mode, take>>,
           Osu!NthCall(n) \/ (n = 0 /\ Osu!NextCall)
    PROVE  Goal(n)
<1>1. OsuP!NthCall(n) \/ (n = 0 /\ OsuP!NextCall)
  BY OsuActions
<1>2. objs' = objs
  BY <1>1 DEF OsuP!NthCall, OsuP!NextCall
<1>3. OsuP!Move(it.idx, n)
  BY <1>1, OsuP!Moves, OsuAssumptions
<1>4. OsuP!IInv'
  BY <1>2, <1>3, OsuP!MovePreserves, OsuAssumptions
<1>5. it.idx \in Nat /\ Len(objs) \in Nat /\ it.idx <= Len(objs)
  BY OsuAssumptions DEF OsuP!IInv, OsuP!MapsAssumption
<1>6. Goes(n)
  <2>1. /\ NItems = Len(objs) /\ \A k : Returned(k) = OsuP!Calculate(k)
    BY OsuCalculations DEF NItems, Returned, Calculate
  <2>2. \A k : OsuP!StructAt(k).idx = k
    BY DEF OsuP!StructAt
  <2>3. CASE it.idx < Len(objs)
    <3>1. OsuP!Target(it.idx, n) + 1 = MinOf(it.idx + n + 1, Len(objs))
      BY <1>5, <2>3 DEF OsuP!Target, OsuP!MinOf, MinOf
    <3>2. /\ it' = OsuP!StructAt(OsuP!Target(it.idx, n) + 1)
          /\ ret' = <<OsuP!Calculate(OsuP!Target(it.idx, n) + 1)>>
      BY <1>3, <1>5, <2>3 DEF OsuP!Move
    <3>3. it'.idx = MinOf(it.idx + n + 1, Len(objs))
      BY <2>2, <3>1, <3>2
    <3> QED
      BY <2>1, <2>3, <3>1, <3>2, <3>3 DEF Goes
  <2>4. CASE it.idx = Len(objs)
    <3>1. it' = OsuP!StructAt(it.idx) /\ ret' = <<>>
      BY <1>3, <1>5, <2>4 DEF OsuP!Move
    <3> QED
      BY <1>5, <2>1, <2>2, <2>4, <3>1 DEF Goes
  <2> QED
    BY <1>5, <2>3, <2>4
<1> QED
  BY <1>2, <1>4, <1>6 DEF Goal, AnyInv

\* osu!taiko, where only regular maps promise the position
LEMMA TaikoStep ==
    ASSUME mode = "taiko", TaikoInv, NEW n \in Nat, UNCHANGED <<mode, take>>,
           Taiko!NthCall(n) \/ (n = 0 /\ Taiko!NextCall)
    PROVE  Goal(n)
<1>1. TaikoMove(n) /\ objs' = objs
  BY TaikoMoves
<1>2. /\ TaikoInv'
      /\ TaikoRegular =>
           IF it.idx < Taiko!TotalHits
           THEN /\ it'.idx = MinOf(it.idx + n + 1, Taiko!TotalHits)
                /\ ret' = <<Taiko!Calculate(it'.idx)>>
           ELSE it'.idx = it.idx /\ ret' = <<>>
      /\ it.idx >= 2 /\ Taiko!HitsAhead(it) = {} => ret' = <<>> /\ it'.idx = it.idx
  BY <1>1, TaikoMovePreserves
<1>3. Regular => TaikoRegular
  BY DEF Regular, TaikoRegular
<1>4. NItems = Taiko!TotalHits /\ \A k : Returned(k) = Taiko!Calculate(k)
  BY DEF NItems, Returned, Calculate
<1>5. Regular => Goes(n)
  BY <1>2, <1>3, <1>4 DEF Goes
<1> QED
  BY <1>1, <1>2, <1>5 DEF Goal, AnyInv

\* osu!catch
LEMMA CatchStep ==
    ASSUME mode = "catch", CatchInv, take \in Takes, NEW n \in Nat, UNCHANGED <<mode, take>>,
           Catch!NthCall(n) \/ (n = 0 /\ Catch!NextCall)
    PROVE  Goal(n)
<1>1. CatchMove(it.idx, n) /\ objs' = objs
  BY CatchMoves
<1>2. /\ CatchInv'
      /\ it'.idx = IF it.idx < Catch!NPalpable
                   THEN MinOf(it.idx + n + 1, Catch!NPalpable) ELSE it.idx
  BY <1>1, CatchMovePreserves
<1>3. NItems = Catch!NPalpable /\ \A k : Returned(k) = Catch!Calculate(k)
  BY DEF NItems, Returned, Calculate
<1>4. ret' = IF it.idx < Catch!NPalpable
             THEN <<Catch!Calculate(MinOf(it.idx + n + 1, Catch!NPalpable))>> ELSE <<>>
  BY <1>1 DEF CatchMove
<1>5. Goes(n)
  BY <1>2, <1>3, <1>4 DEF Goes
<1> QED
  BY <1>1, <1>2, <1>5 DEF Goal, AnyInv

\* osu!mania
LEMMA ManiaStep ==
    ASSUME mode = "mania", ManiaInv, NEW n \in Nat, UNCHANGED <<mode, take>>,
           Mania!NthCall(n) \/ (n = 0 /\ Mania!NextCall)
    PROVE  Goal(n)
<1>1. ManiaMove(it.idx, n) /\ UNCHANGED <<objs, take>>
  BY ManiaMoves
<1>2. /\ ManiaInv'
      /\ it'.idx = IF it.idx < Mania!NItems THEN MinOf(it.idx + n + 1, Mania!NItems)
                                            ELSE it.idx
  BY <1>1, ManiaMovePreserves
<1>3. NItems = Mania!NItems /\ \A k : Returned(k) = ManiaValue(k)
  BY DEF NItems, Returned
<1>4. ret' = IF it.idx < Mania!NItems
             THEN <<ManiaValue(MinOf(it.idx + n + 1, Mania!NItems))>> ELSE <<>>
  BY <1>1 DEF ManiaMove
<1>5. Goes(n)
  BY <1>2, <1>3, <1>4 DEF Goes
<1> QED
  BY <1>1, <1>2, <1>5 DEF Goal, AnyInv

\* Every call does it in the mode that the calculator was made for.
LEMMA AnyMoves ==
    ASSUME AnyInv
    PROVE  /\ NextCall => Goal(0)
           /\ \A n \in Nat : NthCall(n) => Goal(n)
<1>1. NextCall => Goal(0)
  BY OsuStep, TaikoStep, CatchStep, ManiaStep DEF AnyInv, NextCall
<1>2. ASSUME NEW n \in Nat, NthCall(n)
      PROVE  Goal(n)
  BY <1>2, OsuStep, TaikoStep, CatchStep, ManiaStep DEF AnyInv, NthCall
<1> QED
  BY <1>1, <1>2

\* The arguments of all calls are natural numbers.
LEMMA AnyArguments == NthArgs \in SUBSET Nat /\ {0, USizeMax} \in SUBSET NthArgs
BY CallsAssumption DEF Osu!ArgsAssumption

\* Every step of the caller is a call.
LEMMA AnySteps ==
    ASSUME AnyInv, Next
    PROVE  \E n \in NthArgs : Goal(n)
BY AnyMoves, AnyArguments DEF Next, LastCall

\* The invariant holds at first.
LEMMA AnyInit == Init => AnyInv /\ it.idx = 0 /\ ret = <<>>
<1> SUFFICES ASSUME Init
             PROVE  AnyInv /\ it.idx = 0 /\ ret = <<>>
  OBVIOUS
<1>1. CASE mode = "osu" /\ take \in Takes /\ Osu!Init
  <2>1. OsuP!IInv
    BY <1>1, OsuActions, OsuAssumptions, OsuP!InitIInv
  <2> QED
    BY <1>1, <2>1 DEF AnyInv, Osu!Init
<1>2. CASE mode = "taiko" /\ take \in Takes /\ Taiko!Init
  BY <1>2, TaikoInit DEF AnyInv
<1>3. CASE mode = "catch" /\ take \in Takes /\ Catch!Init
  BY <1>3, CatchInit DEF AnyInv, Catch!Init
<1>4. CASE mode = "mania" /\ Mania!Init
  BY <1>4, ManiaInit DEF AnyInv, Mania!Init
<1> QED
  BY <1>1, <1>2, <1>3, <1>4 DEF Init

\* The items of a map stay what they are.
LEMMA AnySameMap ==
    ASSUME AnyInv, UNCHANGED <<mode, objs, take>>
    PROVE  NItems' = NItems /\ \A k : Calculate(k)' = Calculate(k)
<1>1. /\ Taiko!TotalHits' = Taiko!TotalHits
      /\ \A k : Taiko!Calculate(k)' = Taiko!Calculate(k)
  BY TaikoSameMap
<1>2. Catch!NPalpable' = Catch!NPalpable /\ \A k : Catch!Calculate(k)' = Catch!Calculate(k)
  BY CatchSameMap
<1>3. Mania!NItems' = Mania!NItems /\ \A k : Mania!Calculate(k)' = Mania!Calculate(k)
  BY ManiaSameMap
<1>4. \A k : Osu!Calculate(k)' = Osu!Calculate(k)
  BY DEF Osu!Calculate, Osu!IncrementCombo, Osu!OfKind, Osu!NestedCount, Osu!LargeTickCount,
         Osu!NDiffObjects
<1> QED
  BY <1>1, <1>2, <1>3, <1>4 DEF AnyInv, NItems, Calculate

\* A position lies within the items, and what len() says is what is left.
LEMMA AnyPosition ==
    ASSUME AnyInv, Regular
    PROVE  /\ it.idx \in Nat /\ NItems \in Nat /\ it.idx <= NItems
           /\ NItems > 0 => RemainingLen(it) = NItems - it.idx
<1>1. CASE mode = "osu" /\ OsuP!IInv
  <2>1. objs \in Seq(OsuP!Object) /\ it.idx \in 0 .. Len(objs)
    BY <1>1, OsuAssumptions DEF OsuP!IInv, OsuP!MapsAssumption
  <2>2. NItems = Len(objs) /\ RemainingLen(it) = OsuP!RemainingLen(it)
    BY <1>1, OsuCalculations DEF NItems, RemainingLen
  <2> QED
    BY <2>1, <2>2 DEF OsuP!RemainingLen, OsuP!NDiffObjects, OsuP!SatSub
<1>2. CASE mode = "taiko" /\ TaikoInv
  <2>1. TaikoRegular
    BY <1>2 DEF Regular, TaikoRegular
  <2>2. NItems = Taiko!TotalHits /\ RemainingLen(it) = Taiko!RemainingLen(it)
    BY <1>2 DEF NItems, RemainingLen
  <2>3. Taiko!TotalHits \in Nat
    BY <1>2, TaikoTypes, TaikoSizes DEF TaikoInv
  <2> QED
    BY <1>2, <2>1, <2>2, <2>3, TaikoProperties
<1>3. CASE mode = "catch" /\ CatchInv
  <2>1. NItems = Catch!NPalpable /\ RemainingLen(it) = Catch!NDiffObjects + 1 - it.idx
    BY <1>3 DEF NItems, RemainingLen, Catch!RemainingLen
  <2> QED
    BY <1>3, <2>1, CatchTypes, CatchSizes DEF CatchInv
<1>4. CASE mode = "mania" /\ ManiaInv
  <2>1. NItems = Mania!NItems /\ RemainingLen(it) = Mania!NDiffObjects + 1 - it.idx
    BY <1>4 DEF NItems, RemainingLen, Mania!RemainingLen
  <2>2. /\ Mania!NItems \in Nat /\ Mania!NDiffObjects \in Nat
        /\ (Mania!NItems > 0 => Mania!NItems = Mania!NDiffObjects + 1)
    BY <1>4, ManiaTypes, ManiaSizes
  <2>3. it.idx \in 0 .. Mania!NItems
    BY <1>4 DEF ManiaInv
  <2> QED
    BY <2>1, <2>2, <2>3
<1> QED
  BY <1>1, <1>2, <1>3, <1>4 DEF AnyInv

\* S are the positions from k to L at which next finds an item, where there
\* are N items, the first without a difficulty object and the others with one
\* of D.
FindsAt(S, k, L, N, D) ==
    /\ N \in Nat /\ D \in Nat /\ L \in Nat /\ N <= L
    /\ N = 0 => D = 0
    /\ N > 0 => N = D + 1
    /\ k \in 0 .. N /\ S \in SUBSET (k .. L)
    /\ \A j \in k .. L : j > 0 => (j \in S <=> j <= D)
    /\ k = 0 => (0 \in S <=> N > 0)

\* They are as many as the items from k on.
LEMMA ComingSize ==
    ASSUME NEW S, NEW k, NEW L, NEW N, NEW D, FindsAt(S, k, L, N, D)
    PROVE  Cardinality(S) = N - k
<1> USE DEF FindsAt
<1>1. PICK m \in Int : m = N - 1
  OBVIOUS
<1>2. \A j : j \in S => j \in k .. m
  <2>1. ASSUME NEW j \in S
        PROVE  j \in k .. m
    <3>1. j \in k .. L /\ j \in Nat
      OBVIOUS
    <3>2. CASE j > 0
      BY <1>1, <3>1, <3>2
    <3>3. CASE j = 0
      BY <1>1, <3>1, <3>3
    <3> QED
      BY <3>1, <3>2, <3>3
  <2> QED
    BY <2>1
<1>3. \A j : j \in k .. m => j \in S
  <2>1. ASSUME NEW j \in k .. m
        PROVE  j \in S
    <3>1. j \in k .. L /\ j \in Nat /\ N > 0
      BY <1>1
    <3>2. CASE j > 0
      BY <1>1, <3>1, <3>2
    <3>3. CASE j = 0
      BY <1>1, <3>1, <3>3
    <3> QED
      BY <3>1, <3>2, <3>3
  <2> QED
    BY <2>1
<1>4. S = k .. m
  BY <1>2, <1>3
<1>5. Cardinality(k .. m) = IF k > m THEN 0 ELSE m - k + 1
  BY FS_Interval
<1> QED
  BY <1>1, <1>4, <1>5

\* In the three modes that look at their position only, the items to come are
\* those between the position and the end.
LEMMA ItemsAfterPosition ==
    ASSUME AnyInv, mode # "taiko"
    PROVE  /\ it.idx \in Nat /\ NItems \in Nat /\ it.idx <= NItems
           /\ ItemsToCome = NItems - it.idx
<1>1. CASE mode = "osu" /\ OsuP!IInv
  <2>1. /\ objs \in Seq(OsuP!Object) /\ it.idx \in 0 .. Len(objs)
        /\ it = OsuP!StructAt(it.idx)
    BY <1>1, OsuAssumptions DEF OsuP!IInv, OsuP!MapsAssumption
  <2>2. Len(objs) \in Nat /\ (Len(objs) = 0 <=> objs = <<>>)
    BY <2>1, EmptySeq, SeqEqual
  <2>3. \A k : [it EXCEPT !.idx = k].idx = k
    BY <2>1 DEF OsuP!StructAt
  <2>4. /\ \A k : k > 0 => (Osu!HasNext([it EXCEPT !.idx = k]) <=> k <= OsuP!NDiffObjects)
        /\ Osu!HasNext([it EXCEPT !.idx = 0]) <=> objs # <<>>
    BY <2>3, OsuParts DEF Osu!HasNext
  <2>5. /\ OsuP!NDiffObjects \in Nat
        /\ Len(objs) = 0 => OsuP!NDiffObjects = 0
        /\ Len(objs) > 0 => Len(objs) = OsuP!NDiffObjects + 1
    BY <2>2 DEF OsuP!NDiffObjects, OsuP!SatSub
  <2> DEFINE S == {k \in it.idx .. Len(objs) : Osu!HasNext([it EXCEPT !.idx = k])}
  <2>6. FindsAt(S, it.idx, Len(objs), Len(objs), OsuP!NDiffObjects)
    BY <2>1, <2>2, <2>4, <2>5 DEF FindsAt
  <2>7. Osu!ItemsToCome(it) = Cardinality(S)
    BY CardinalitiesAgree DEF Osu!ItemsToCome
  <2> HIDE DEF S
  <2>8. Cardinality(S) = Len(objs) - it.idx
    BY <2>6, ComingSize
  <2>9. NItems = Len(objs) /\ ItemsToCome = Osu!ItemsToCome(it)
    BY <1>1 DEF NItems, ItemsToCome
  <2> QED
    BY <2>1, <2>2, <2>7, <2>8, <2>9
<1>2. CASE mode = "catch" /\ CatchInv
  <2>1. /\ objs \in Seq(Catch!Event) /\ it.idx \in 0 .. Catch!NPalpable
        /\ it = CatchAt(it.idx)
    BY <1>2, CatchTypes DEF CatchInv
  <2>2. /\ Catch!NPalpable \in Nat /\ Catch!NDiffObjects \in Nat
        /\ Catch!NPalpable = 0 => Catch!NDiffObjects = 0 /\ Catch!GradualCounts = <<>>
        /\ Catch!NPalpable > 0 => /\ Catch!NPalpable = Catch!NDiffObjects + 1
                                  /\ Catch!GradualCounts # <<>>
        /\ Len(Catch!GradualCounts) = Catch!NPalpable
    BY <2>1, CatchSizes, CatchGradualCounts
  <2>3. /\ it.count = Catch!GradualCounts
        /\ \A k : [it EXCEPT !.idx = k].idx = k /\ [it EXCEPT !.idx = k].count = it.count
    BY <2>1, CatchFields DEF CatchAt
  <2>4. /\ \A k : k > 0 => (Catch!HasNext([it EXCEPT !.idx = k]) <=> k <= Catch!NDiffObjects)
        /\ Catch!HasNext([it EXCEPT !.idx = 0]) <=> Catch!GradualCounts # <<>>
    BY <2>3 DEF Catch!HasNext
  <2> DEFINE S == {k \in it.idx .. Len(it.count) : Catch!HasNext([it EXCEPT !.idx = k])}
  <2>5. FindsAt(S, it.idx, Catch!NPalpable, Catch!NPalpable, Catch!NDiffObjects)
    BY <2>1, <2>2, <2>3, <2>4 DEF FindsAt
  <2>6. Catch!ItemsToCome(it) = Cardinality(S)
    BY CatchLibrary DEF Catch!ItemsToCome
  <2> HIDE DEF S
  <2>7. Cardinality(S) = Catch!NPalpable - it.idx
    BY <2>5, ComingSize
  <2>8. NItems = Catch!NPalpable /\ ItemsToCome = Catch!ItemsToCome(it)
    BY <1>2 DEF NItems, ItemsToCome
  <2> QED
    BY <2>1, <2>2, <2>6, <2>7, <2>8
<1>3. CASE mode = "mania" /\ ManiaInv
  <2>1. /\ objs \in Seq(Mania!Object) /\ take \in Nat /\ Len(objs) \in Nat
        /\ it.idx \in 0 .. Mania!NItems
        /\ it = ManiaAt(it.idx)
    BY <1>3, ManiaTypes DEF ManiaInv
  <2>2. /\ Mania!NDiffObjects \in Nat
        /\ Mania!NItems \in Nat /\ Mania!NItems <= Len(objs)
        /\ Mania!NItems = 0 => Mania!NDiffObjects = 0 /\ objs = <<>>
        /\ Mania!NItems > 0 => Mania!NItems = Mania!NDiffObjects + 1 /\ objs # <<>>
    BY <2>1, ManiaSizes
  <2>3. \A k : [it EXCEPT !.idx = k].idx = k
    BY <2>1, ManiaFields DEF ManiaAt
  <2>4. /\ \A k : k > 0 => (Mania!HasNext([it EXCEPT !.idx = k]) <=> k <= Mania!NDiffObjects)
        /\ Mania!HasNext([it EXCEPT !.idx = 0]) <=> objs # <<>>
    BY <2>3 DEF Mania!HasNext
  <2> DEFINE S == {k \in it.idx .. Len(objs) : Mania!HasNext([it EXCEPT !.idx = k])}
  <2>5. FindsAt(S, it.idx, Len(objs), Mania!NItems, Mania!NDiffObjects)
    BY <2>1, <2>2, <2>4 DEF FindsAt
  <2>6. Mania!ItemsToCome(it) = Cardinality(S)
    BY ManiaLibrary DEF Mania!ItemsToCome
  <2> HIDE DEF S
  <2>7. Cardinality(S) = Mania!NItems - it.idx
    BY <2>5, ComingSize
  <2>8. NItems = Mania!NItems /\ ItemsToCome = Mania!ItemsToCome(it)
    BY <1>3 DEF NItems, ItemsToCome
  <2> QED
    BY <2>1, <2>2, <2>6, <2>7, <2>8
<1> QED
  BY <1>1, <1>2, <1>3 DEF AnyInv

\* The same after a step
LEMMA ItemsAfterPositionNext ==
    (AnyInv /\ mode # "taiko" => it.idx \in Nat /\ ItemsToCome = NItems - it.idx)'
<1>1. AnyInv /\ mode # "taiko" => it.idx \in Nat /\ ItemsToCome = NItems - it.idx
  BY ItemsAfterPosition
<1> QED
  BY <1>1, PTL

\* In osu!taiko they are those of its own two parts.
LEMMA TaikoItems ==
    ASSUME mode = "taiko", TaikoInv
    PROVE  /\ objs \in Seq(BOOLEAN)
           /\ TaikoReached(it.idx, it.cursor) /\ it = TaikoAt(it.idx, it.cursor)
           /\ ItemsToCome = TaikoToCome(it.idx, it.cursor)
<1>1. Taiko!HitsAhead(it) = TaikoAhead(it.cursor)
  BY DEF Taiko!HitsAhead, TaikoAhead
<1>2. ItemsToCome = Taiko!ItemsToCome(it)
  BY DEF ItemsToCome
<1> QED
  BY <1>1, <1>2, TaikoLibrary, TaikoTypes
     DEF TaikoInv, TaikoState, Taiko!ItemsToCome, TaikoToCome

\* Where items and prefixes are the same thing, the items to come are those
\* that are not passed.
LEMMA AnyItems ==
    ASSUME AnyInv, Regular
    PROVE  ItemsToCome = NItems - it.idx
<1>1. CASE mode = "taiko" /\ TaikoInv
  <2>1. TaikoRegular /\ NItems = Taiko!TotalHits
    BY <1>1 DEF Regular, TaikoRegular, NItems
  <2>2. TaikoToCome(it.idx, it.cursor) = Taiko!TotalHits - it.idx
    BY <1>1, <2>1, TaikoItems, TaikoComing
  <2> QED
    BY <1>1, <2>1, <2>2, TaikoItems
<1>2. CASE mode # "taiko"
  BY <1>2, ItemsAfterPosition
<1> QED
  BY <1>1, <1>2 DEF AnyInv

\* A call of next returns one of the items to come, as long as there are any.
LEMMA AnyCounts ==
    ASSUME AnyInv, NextCall
    PROVE  \/ ItemsToCome = 0 /\ ItemsToCome' = 0 /\ ret' = <<>>
           \/ ItemsToCome > 0 /\ ItemsToCome' = ItemsToCome - 1 /\ ret' # <<>>
<1>1. Goal(0)
  BY AnyMoves
<1>2. \A x : <<x>> # <<>>
  OBVIOUS
<1>3. CASE mode = "taiko" /\ TaikoInv
  <2>1. mode' = "taiko" /\ TaikoInv' /\ objs' = objs
    BY <1>1, <1>3 DEF Goal, AnyInv
  <2>2. PICK i, c : i = it.idx /\ c = it.cursor
    OBVIOUS
  <2>3. /\ objs \in Seq(BOOLEAN) /\ TaikoReached(i, c) /\ it = TaikoAt(i, c)
        /\ ItemsToCome = TaikoToCome(i, c)
    BY <1>3, <2>2, TaikoItems
  <2>4. Taiko!NextFrom(TaikoAt(i, c))
    BY <1>3, <2>3 DEF NextCall, Taiko!NextCall
  <2>5. PICK j, e :
          /\ TaikoReached(j, e) /\ it' = TaikoAt(j, e)
          /\ \/ /\ ret' = <<Taiko!Eval(TaikoAt(j, e))>>
                /\ TaikoToCome(i, c) = TaikoToCome(j, e) + 1
             \/ /\ ret' = <<>>
                /\ TaikoToCome(i, c) = 0 /\ TaikoToCome(j, e) = 0
    BY <2>3, <2>4, TaikoNextAt
  <2>6. ItemsToCome' = TaikoToCome(j, e)
    <3>1. it'.idx = j /\ it'.cursor = e
      BY <2>5, TaikoFields DEF TaikoAt
    <3>2. Taiko!HitsAhead(it)' = TaikoAhead(e) /\ Taiko!NDiffObjects' = Taiko!NDiffObjects
      BY <2>1, <3>1 DEF Taiko!HitsAhead, TaikoAhead, Taiko!NDiffObjects
    <3>3. ItemsToCome' = Taiko!ItemsToCome(it)'
      BY <2>1 DEF ItemsToCome
    <3> QED
      BY <3>1, <3>2, <3>3, TaikoLibrary DEF Taiko!ItemsToCome, TaikoToCome
  <2>7. TaikoToCome(i, c) \in Nat /\ TaikoToCome(j, e) \in Nat
    BY <2>3, <2>5, TaikoComing
  <2>8. PICK a, b : a = ItemsToCome /\ b = ItemsToCome'
    OBVIOUS
  <2>9. /\ a \in Nat /\ b \in Nat
        /\ \/ a = b + 1 /\ ret' # <<>>
           \/ a = 0 /\ b = 0 /\ ret' = <<>>
    BY <1>2, <2>3, <2>5, <2>6, <2>7, <2>8
  <2>10. CASE a = b + 1 /\ ret' # <<>>
    <3>1. a > 0 /\ b = a - 1
      BY <2>9, <2>10
    <3> QED
      BY <2>8, <2>10, <3>1
  <2>11. CASE a = 0 /\ b = 0 /\ ret' = <<>>
    BY <2>8, <2>11
  <2> QED
    BY <2>9, <2>10, <2>11
<1>4. CASE mode # "taiko"
  <2>1. /\ it.idx \in Nat /\ NItems \in Nat /\ it.idx <= NItems
        /\ ItemsToCome = NItems - it.idx
    BY <1>4, ItemsAfterPosition
  <2>2. (it.idx \in Nat /\ ItemsToCome = NItems - it.idx)'
    BY <1>1, <1>4, ItemsAfterPositionNext DEF Goal
  <2>3. NItems' = NItems
    BY <1>1, AnySameMap DEF Goal
  <2>4. IF it.idx < NItems THEN it'.idx = it.idx + 1 /\ ret' # <<>>
                           ELSE it'.idx = it.idx /\ ret' = <<>>
    <3>1. Goes(0)
      BY <1>1, <1>4 DEF Goal, Regular
    <3>2. it.idx < NItems => MinOf(it.idx + 0 + 1, NItems) = it.idx + 1
      BY <2>1 DEF MinOf
    <3> QED
      BY <1>2, <3>1, <3>2 DEF Goes
  <2> QED
    BY <2>1, <2>2, <2>3, <2>4
<1> QED
  BY <1>3, <1>4 DEF AnyInv

\* Every step preserves it.
LEMMA AnyNext == AnyInv /\ [Next]_vars => AnyInv'
<1> SUFFICES ASSUME AnyInv, [Next]_vars
             PROVE  AnyInv'
  OBVIOUS
<1>1. CASE Next
  BY <1>1, AnySteps DEF Goal
<1>2. CASE UNCHANGED vars
  <2>1. UNCHANGED <<mode, objs, take, it, ret>>
    BY <1>2 DEF vars
  <2>2. ASSUME OsuP!IInv
        PROVE  OsuP!IInv'
    <3>1. PICK m : m = it.idx
      OBVIOUS
    <3>2. OsuP!StructAt(m)' = OsuP!StructAt(m) /\ OsuP!Calculate(m)' = OsuP!Calculate(m)
      BY <2>1, OsuP!SameMap, OsuAssumptions
    <3> QED
      BY <2>1, <2>2, <3>1, <3>2 DEF OsuP!IInv
  <2>3. ASSUME TaikoInv
        PROVE  TaikoInv'
    <3>1. PICK i, c : i = it.idx /\ c = it.cursor
      OBVIOUS
    <3>2. /\ TaikoAt(i, c)' = TaikoAt(i, c) /\ (TaikoReached(i, c)' <=> TaikoReached(i, c))
          /\ (TaikoRegular' <=> TaikoRegular)
      BY <2>1, TaikoSameMap
    <3> QED
      BY <2>1, <2>3, <3>1, <3>2 DEF TaikoInv, TaikoState, TaikoPosition, Taiko!Eval
  <2>4. ASSUME CatchInv
        PROVE  CatchInv'
    <3>1. PICK m : m = it.idx
      OBVIOUS
    <3>2. /\ CatchAt(m)' = CatchAt(m) /\ Catch!Calculate(m)' = Catch!Calculate(m)
          /\ Catch!NPalpable' = Catch!NPalpable
      BY <2>1, CatchSameMap
    <3> QED
      BY <2>1, <2>4, <3>1, <3>2 DEF CatchInv
  <2>5. ASSUME ManiaInv
        PROVE  ManiaInv'
    <3>1. PICK m : m = it.idx
      OBVIOUS
    <3>2. /\ ManiaAt(m)' = ManiaAt(m) /\ ManiaValue(m)' = ManiaValue(m)
          /\ Mania!NItems' = Mania!NItems
      BY <2>1, ManiaSameMap
    <3> QED
      BY <2>1, <2>5, <3>1, <3>2 DEF ManiaInv
  <2> QED
    BY <2>1, <2>2, <2>3, <2>4, <2>5 DEF AnyInv
<1> QED
  BY <1>1, <1>2

\* It holds always.
LEMMA AnySpec == Spec => []AnyInv
BY AnyInit, AnyNext, PTL DEF Spec

\* On a map whose notes have the same ticks by all three expressions, which
\* they have at clock rate 1, everything returned is that of the calculation.
ExactTicks ==
    mode = "mania" => \A j \in DOMAIN objs : /\ objs[j].combo = objs[j].raw_combo
                                             /\ objs[j].scaled_combo = objs[j].combo

\* With exact ticks the values of osu!mania are those of the calculation.
LEMMA AnyExact ==
    ASSUME AnyInv, ExactTicks, NEW k \in 1 .. NItems
    PROVE  Returned(k) = Calculate(k)
<1>1. CASE mode = "mania"
  <2>1. /\ objs \in Seq(Mania!Object)
        /\ NItems = Mania!NItems /\ Mania!NItems \in 0 .. Len(objs)
    <3>1. ManiaInv
      BY <1>1 DEF AnyInv
    <3>2. objs \in Seq(Mania!Object) /\ take \in Nat
      BY <3>1, ManiaTypes
    <3> QED
      BY <1>1, <3>1, <3>2, ManiaSizes DEF NItems, ManiaInv
  <2>2. \A j \in DOMAIN objs : /\ objs[j].combo = objs[j].raw_combo
                               /\ objs[j].scaled_combo = objs[j].combo
    BY <1>1 DEF ExactTicks
  <2>3. k \in 1 .. Len(objs)
    BY <2>1
  <2>4. ManiaValue(k) = Mania!Calculate(k)
    BY <2>1, <2>2, <2>3, ManiaExactValue
  <2> QED
    BY <1>1, <2>4 DEF Returned, Calculate
<1>2. CASE mode # "mania"
  BY <1>2 DEF Returned
<1> QED
  BY <1>1, <1>2

------------------------------------------------------------------------------
(* The theorems *)

\* In every mode the struct and the returned value keep the types of their
\* fields, and the position of an iterator never leaves its map.
THEOREM TypeCorrect == Spec => []TypeOK
<1>1. ASSUME AnyInv
      PROVE  TypeOK
  <2>1. OsuP!IInv => Osu!TypeOK
    BY OsuP!InvTyped, OsuAssumptions, OsuActions
  <2> QED
    BY <1>1, <2>1, TaikoProperties, CatchProperties, ManiaProperties
       DEF AnyInv, TypeOK, TaikoInv
<1> QED
  BY <1>1, AnySpec, PTL

\* Whichever calls led to a position, what has been counted and what the
\* skills saw is what belongs to it: nothing of the objects, hits, tiny
\* droplets and long notes of a map is lost or repeated.
THEOREM InStepHolds == Spec => []InStep
<1>1. ASSUME AnyInv
      PROVE  InStep
  <2>1. OsuP!IInv => Osu!InStep
    BY OsuActions DEF OsuP!IInv, OsuP!InStep
  <2>2. mode \in {"osu", "taiko", "catch", "mania"}
    BY <1>1 DEF AnyInv
  <2> QED
    BY <1>1, <2>1, <2>2, TaikoProperties, CatchProperties, ManiaProperties
       DEF AnyInv, InStep
<1> QED
  BY <1>1, AnySpec, PTL

\* On maps where items and prefixes are the same thing, len() is the number of
\* items that next will still return, as its comment says.
THEOREM LengthIsRemaining == Spec => [](Regular => LenIsRemaining)
<1>1. AnyInv => (Regular => LenIsRemaining)
  BY AnyPosition, AnyItems DEF LenIsRemaining
<1> QED
  BY <1>1, AnySpec, PTL

\* The number of items to come is what its name says, on irregular taiko maps
\* too: next returns an item as long as there are any, each call one of them,
\* and nothing afterwards, so that this many calls return an item and no more.
THEOREM ItemsAreCountedHolds == Spec => ItemsAreCounted
<1> DEFINE A == NextCall =>
                  \/ ItemsToCome = 0 /\ ItemsToCome' = 0 /\ ret' = <<>>
                  \/ ItemsToCome > 0 /\ ItemsToCome' = ItemsToCome - 1 /\ ret' # <<>>
<1>1. AnyInv /\ [Next]_vars => [A]_vars
  BY AnyCounts
<1> QED
  BY <1>1, AnySpec, PTL DEF Spec, ItemsAreCounted

\* In every mode a call returns an item exactly when len() is positive.
THEOREM ExactSizeHolds == Spec => ExactSize
<1> DEFINE A == Regular /\ NItems > 0 => ((ret' # <<>>) <=> (RemainingLen(it) > 0))
<1>1. ASSUME AnyInv, Next
      PROVE  A
  <2>1. SUFFICES ASSUME Regular, NItems > 0
                 PROVE  (ret' # <<>>) <=> (RemainingLen(it) > 0)
    OBVIOUS
  <2>2. PICK n \in NthArgs : Goes(n)
    BY <1>1, <2>1, AnySteps DEF Goal
  <2>3. /\ it.idx \in Nat /\ NItems \in Nat /\ it.idx <= NItems
        /\ RemainingLen(it) = NItems - it.idx
    BY <1>1, <2>1, AnyPosition
  <2>4. (ret' # <<>>) <=> (it.idx < NItems)
    <3>1. \A x : <<x>> # <<>>
      OBVIOUS
    <3> QED
      BY <2>2, <3>1 DEF Goes
  <2> QED
    BY <2>3, <2>4
<1>2. AnyInv /\ [Next]_vars => [A]_vars
  BY <1>1
<1> QED
  BY <1>2, AnySpec, PTL DEF Spec, ExactSize

\* An exhausted taiko iterator returns nothing any more.
THEOREM FusedHolds == Spec => Fused
<1> DEFINE A == mode = "taiko" /\ it.idx >= 2 /\ Taiko!HitsAhead(it) = {}
                    => ret' = <<>> /\ it'.idx = it.idx
<1>1. AnyInv /\ [Next]_vars => [A]_vars
  BY AnySteps DEF Goal
<1> QED
  BY <1>1, AnySpec, PTL DEF Spec, Fused

\* Every value returned is that of the ordinary calculation for the items
\* passed, in osu!mania if the ticks of a note do not depend on the expression.
THEOREM MatchesCalculateHolds == Spec => [](ExactTicks => MatchesCalculate)
<1>1. ASSUME AnyInv, ExactTicks
      PROVE  MatchesCalculate
  <2>1. SUFFICES ASSUME Regular, ret # <<>>
                 PROVE  ret = <<Calculate(it.idx)>>
    BY DEF MatchesCalculate
  <2>2. it.idx \in Nat /\ NItems \in Nat /\ it.idx <= NItems
    BY <1>1, <2>1, AnyPosition
  <2>3. CASE mode = "osu" /\ OsuP!IInv
    <3>1. ret = <<OsuP!Calculate(it.idx)>>
      BY <2>1, <2>3 DEF OsuP!IInv
    <3> QED
      BY <2>3, <3>1, OsuCalculations DEF Calculate
  <2>4. CASE mode = "taiko" /\ TaikoInv
    <3>1. ret = <<Taiko!Calculate(it.idx)>>
      BY <2>1, <2>4, TaikoProperties DEF Regular, TaikoRegular
    <3> QED
      BY <2>4, <3>1 DEF Calculate
  <2>5. CASE mode = "catch" /\ CatchInv
    <3>1. ret = <<Catch!Calculate(it.idx)>>
      BY <2>1, <2>5 DEF CatchInv
    <3> QED
      BY <2>5, <3>1 DEF Calculate
  <2>6. CASE mode = "mania" /\ ManiaInv
    <3>1. it.idx > 0 /\ ret = <<Returned(it.idx)>>
      BY <2>1, <2>6 DEF ManiaInv, Returned
    <3>2. Returned(it.idx) = Calculate(it.idx)
      <4>1. it.idx \in 1 .. NItems
        BY <2>2, <3>1
      <4> QED
        BY <1>1, <4>1, AnyExact
    <3> QED
      BY <3>1, <3>2
  <2> QED
    BY <1>1, <2>3, <2>4, <2>5, <2>6 DEF AnyInv
<1> QED
  BY <1>1, AnySpec, PTL

\* Every calculator implements the abstract iterator over the results of the
\* ordinary calculation, under the same condition for osu!mania.
THEOREM Refinement == Spec /\ []ExactTicks => IsPrefixIterator
<1> DEFINE items == [k \in 1 .. NItems |-> Calculate(k)]
<1>1. Init => (Regular => Promise!Init)
  BY AnyInit DEF Promise!Init
<1>2. ASSUME AnyInv, ExactTicks, Regular, NEW n \in NthArgs, Goal(n)
      PROVE  Promise!Next
  <2>1. it.idx \in Nat /\ NItems \in Nat /\ it.idx <= NItems /\ n \in Nat
    BY <1>2, AnyPosition, AnyArguments
  <2>2. items' = items
    <3>1. NItems' = NItems /\ \A k : Calculate(k)' = Calculate(k)
      BY <1>2, AnySameMap DEF Goal
    <3> QED
      BY <3>1
  <2>3. Len(items) = NItems
    BY <2>1
  <2>4. Goes(n)
    BY <1>2 DEF Goal
  <2>5. CASE it.idx < NItems
    <3>1. it'.idx = MinOf(it.idx + n + 1, NItems) /\ ret' = <<Returned(it'.idx)>>
      BY <2>4, <2>5 DEF Goes
    <3>2. it'.idx \in 1 .. NItems
      BY <2>1, <2>5, <3>1 DEF MinOf
    <3>3. Returned(it'.idx) = Calculate(it'.idx)
      BY <1>2, <3>2, AnyExact
    <3>4. ret' = <<items[it'.idx]>>
      BY <3>1, <3>2, <3>3
    <3>5. Promise!Nth(n)
      BY <2>2, <2>3, <2>5, <3>1, <3>4 DEF Promise!Nth, Promise!MinOf, MinOf
    <3> QED
      BY <3>5 DEF Promise!Next
  <2>6. CASE it.idx = NItems
    <3>1. it'.idx = it.idx /\ ret' = <<>>
      BY <2>1, <2>4, <2>6 DEF Goes
    <3> QED
      BY <2>2, <2>3, <2>6, <3>1 DEF Promise!Next, Promise!Exhausted
  <2> QED
    BY <2>1, <2>5, <2>6
<1>3. ASSUME AnyInv, ExactTicks, Next
      PROVE  Regular => Promise!Next
  BY <1>2, <1>3, AnySteps
<1>4. ASSUME AnyInv, UNCHANGED vars
      PROVE  UNCHANGED Promise!vars
  <2>1. NItems' = NItems /\ \A k : Calculate(k)' = Calculate(k)
    BY <1>4, AnySameMap DEF vars
  <2> QED
    BY <1>4, <2>1 DEF vars, Promise!vars
<1>5. AnyInv /\ ExactTicks /\ [Next]_vars => [Regular => Promise!Next]_(Promise!vars)
  BY <1>3, <1>4
<1> QED
  BY <1>1, <1>5, AnySpec, PTL DEF Spec, IsPrefixIterator
=============================================================================
