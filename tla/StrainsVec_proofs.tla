--------------------------- MODULE StrainsVec_proofs ---------------------------
(***************************************************************************)
(* For every set of values and every number of them: the compact list of   *)
(* strain peaks keeps its representation and implements the plain list of  *)
(* RawStrainsVec.                                                          *)
(*                                                                         *)
(* The representation invariant TypeOK is inductive as it stands; what     *)
(* takes the work are the list operations.  FlattenSeq and the insertion   *)
(* sort are functions over the length of a list, so each gets a lemma on   *)
(* what one more element does, and what into_vec, retain_non_zero and      *)
(* sort_desc do to each other follows by adding element after element      *)
(* (ListInduction).                                                        *)
(***************************************************************************)
EXTENDS StrainsVec, Counting_proofs, SequenceTheorems

------------------------------------------------------------------------------
(* Lists written one after the other *)

\* A list that is not empty is one that an element was appended to.
LEMMA FrontAndLast ==
    ASSUME NEW X, NEW s \in Seq(X), s # <<>>
    PROVE  \E f \in Seq(X), e \in X : s = Append(f, e) /\ Len(f) = Len(s) - 1
<1> DEFINE f == SubSeq(s, 1, Len(s) - 1)
<1>1. Len(s) \in Nat /\ Len(s) > 0
  BY EmptySeq
<1>2. f \in Seq(X) /\ Len(f) = Len(s) - 1 /\ s[Len(s)] \in X
  BY <1>1
<1>3. s = Append(f, s[Len(s)])
  BY <1>1
<1> QED
  BY <1>2, <1>3

\* The function that FlattenSeq is defined by
IsFlattening(f, S) == f = [i \in 1 .. Len(S) |-> IF i = 1 THEN S[i] ELSE f[i - 1] \o S[i]]

\* There is one,
LEMMA FlatteningExists ==
    ASSUME NEW X, NEW S \in Seq(Seq(X))
    PROVE  \E f : IsFlattening(f, S) /\ \A i \in 1 .. Len(S) : f[i] \in Seq(X)
<1> DEFINE Upto(n, f) == /\ f = [i \in 1 .. n |-> IF i = 1 THEN S[i] ELSE f[i - 1] \o S[i]]
                         /\ \A i \in 1 .. n : f[i] \in Seq(X)
           T == {n \in 0 .. Len(S) : ~\E f : Upto(n, f)}
<1>1. ASSUME T # {}
      PROVE  FALSE
  <2>0. T \in SUBSET Nat
    <3> HIDE DEF Upto
    <3> QED
      OBVIOUS
  <2>1. PICK n \in T : \A m \in T : n <= m
    <3> HIDE DEF T
    <3> QED
      BY <1>1, <2>0, LeastNatural
  <2>2. n # 0
    <3>1. Upto(0, <<>>)
      OBVIOUS
    <3> QED
      BY <3>1
  <2>3. n \in 1 .. Len(S) /\ n - 1 \in 0 .. Len(S)
    BY <2>1, <2>2
  <2>4. PICK f : Upto(n - 1, f)
    <3>1. n - 1 \notin T
      <4> HIDE DEF T
      <4> QED
        BY <2>0, <2>1, <2>3
    <3> QED
      BY <2>3, <3>1
  <2> DEFINE new == IF n = 1 THEN S[n] ELSE f[n - 1] \o S[n]
             g   == [i \in 1 .. n |-> IF i = n THEN new ELSE f[i]]
  <2>5. new \in Seq(X)
    BY <2>3, <2>4
  <2>6. ASSUME NEW i \in 1 .. n
        PROVE  g[i] = IF i = 1 THEN S[i] ELSE g[i - 1] \o S[i]
    <3>1. CASE i = n
      <4>1. g[i] = new /\ (i # 1 => g[i - 1] = f[n - 1])
        BY <2>3, <3>1
      <4> QED
        BY <3>1, <4>1
    <3>2. CASE i < n
      <4>1. i \in 1 .. n - 1 /\ (i # 1 => i - 1 \in 1 .. n - 1)
        BY <2>3, <3>2
      <4>2. g[i] = f[i] /\ (i # 1 => g[i - 1] = f[i - 1])
        BY <2>3, <3>2, <4>1
      <4>3. f[i] = IF i = 1 THEN S[i] ELSE f[i - 1] \o S[i]
        <5> HIDE DEF g, new
        <5> QED
          BY <2>4, <4>1
      <4> QED
        BY <4>2, <4>3
    <3>3. i = n \/ i < n
      BY <2>3
    <3> HIDE DEF g, new
    <3> QED
      BY <3>1, <3>2, <3>3
  <2>7. g = [i \in 1 .. n |-> IF i = 1 THEN S[i] ELSE g[i - 1] \o S[i]]
    BY <2>6
  <2>8. \A i \in 1 .. n : g[i] \in Seq(X)
    BY <2>1, <2>4, <2>5
  <2> QED
    BY <2>1, <2>7, <2>8
<1> QED
  <2>1. Len(S) \notin T
    <3> HIDE DEF T
    <3> QED
      BY <1>1
  <2>2. \E f : Upto(Len(S), f)
    <3>1. Len(S) \in 0 .. Len(S)
      OBVIOUS
    <3> HIDE DEF Upto
    <3> QED
      BY <2>1, <3>1
  <2> QED
    BY <2>2 DEF IsFlattening

\* and what it says up to n depends on the first n lists only.
LEMMA FlatteningUnique ==
    ASSUME NEW S, NEW T, NEW f, NEW g, IsFlattening(f, S), IsFlattening(g, T),
           NEW n \in Nat, n > 0, n <= Len(S), n <= Len(T), Len(S) \in Nat, Len(T) \in Nat,
           \A i \in 1 .. n : S[i] = T[i]
    PROVE  f[n] = g[n]
<1> DEFINE D == {m \in 1 .. n : f[m] # g[m]}
<1>0. /\ \A i \in 1 .. Len(S) : f[i] = IF i = 1 THEN S[i] ELSE f[i - 1] \o S[i]
      /\ \A i \in 1 .. Len(T) : g[i] = IF i = 1 THEN T[i] ELSE g[i - 1] \o T[i]
  BY DEF IsFlattening
<1>1. ASSUME D # {}
      PROVE  FALSE
  <2>0. D \in SUBSET Nat
    OBVIOUS
  <2>1. PICK m \in D : \A k \in D : m <= k
    <3> HIDE DEF D
    <3> QED
      BY <1>1, <2>0, LeastNatural
  <2>2. CASE m = 1
    BY <1>0, <2>1, <2>2
  <2>3. CASE m > 1
    <3>0. m \in 1 .. n /\ m - 1 \in 1 .. n /\ m - 1 < m /\ m \in 1 .. Len(S) /\ m \in 1 .. Len(T)
      BY <2>1, <2>3
    <3>1. f[m - 1] = g[m - 1]
      BY <2>1, <3>0
    <3>2. f[m] = f[m - 1] \o S[m] /\ g[m] = g[m - 1] \o T[m]
      <4>1. m # 1
        BY <2>3
      <4> QED
        BY ONLY <1>0, <3>0, <4>1, Zenon
    <3> QED
      BY <2>1, <3>1, <3>2
  <2> QED
    BY <2>1, <2>2, <2>3
<1> QED
  BY <1>1

\* FlattenSeq is its last value.
LEMMA FlattenIsLast ==
    ASSUME NEW X, NEW S \in Seq(Seq(X)), S # <<>>, NEW f, IsFlattening(f, S)
    PROVE  FlattenSeq(S) = f[Len(S)]
<1> DEFINE h == CHOOSE h : h = [i \in 1 .. Len(S) |-> IF i = 1 THEN S[i] ELSE h[i - 1] \o S[i]]
<1>1. IsFlattening(h, S)
  BY DEF IsFlattening
<1>2. Len(S) \in Nat /\ Len(S) > 0
  BY EmptySeq
<1>3. FlattenSeq(S) = h[Len(S)]
  BY <1>2 DEF FlattenSeq
<1> HIDE DEF h
<1> QED
  BY <1>1, <1>2, <1>3, FlatteningUnique

\* Lists are written one after the other.
LEMMA FlattenAppend ==
    ASSUME NEW X, NEW S \in Seq(Seq(X)), NEW t \in Seq(X)
    PROVE  /\ FlattenSeq(S) \in Seq(X)
           /\ FlattenSeq(Append(S, t)) = FlattenSeq(S) \o t
<1> DEFINE R == Append(S, t)
<1>0. /\ R \in Seq(Seq(X)) /\ R # <<>> /\ Len(R) = Len(S) + 1 /\ Len(S) \in Nat
      /\ R[Len(S) + 1] = t /\ \A i \in 1 .. Len(S) : R[i] = S[i]
  <2>1. Len(S) \in Nat
    OBVIOUS
  <2> QED
    BY <2>1, AppendProperties
<1> HIDE DEF R
<1>1. PICK g : IsFlattening(g, R)
  BY <1>0, FlatteningExists DEF R
<1>5. \A i \in 1 .. Len(R) : g[i] = IF i = 1 THEN R[i] ELSE g[i - 1] \o R[i]
  BY <1>1 DEF IsFlattening
<1>2. FlattenSeq(R) = g[Len(R)]
  BY <1>0, <1>1, FlattenIsLast
<1>3. CASE S = <<>>
  <2>1. FlattenSeq(S) = <<>>
    BY <1>3 DEF FlattenSeq
  <2>2. g[Len(R)] = t
    <3>1. Len(R) = 1 /\ R[1] = t
      BY <1>0, <1>3
    <3> QED
      BY <1>5, <3>1
  <2>3. <<>> \o t = t /\ <<>> \in Seq(X)
    BY ConcatEmptySeq
  <2> QED
    BY <1>2, <2>1, <2>2, <2>3 DEF R
<1>4. CASE S # <<>>
  <2>1. PICK f : IsFlattening(f, S) /\ \A i \in 1 .. Len(S) : f[i] \in Seq(X)
    BY FlatteningExists
  <2>2. FlattenSeq(S) = f[Len(S)] /\ Len(S) > 0
    BY <1>4, <2>1, FlattenIsLast
  <2>3. f[Len(S)] = g[Len(S)]
    <3>1. Len(R) \in Nat /\ Len(S) <= Len(R) /\ \A i \in 1 .. Len(S) : S[i] = R[i]
      BY <1>0
    <3>2. Len(S) \in Nat
      BY <1>0
    <3> QED
      BY <1>1, <2>1, <2>2, <3>1, <3>2, FlatteningUnique
  <2>4. g[Len(R)] = g[Len(S)] \o t
    <3>1. Len(R) \in 1 .. Len(R) /\ Len(R) # 1 /\ Len(R) - 1 = Len(S) /\ R[Len(R)] = t
      BY <1>0, <2>2
    <3> QED
      BY <1>5, <3>1
  <2>5. Len(S) \in 1 .. Len(S)
    BY <1>0, <2>2
  <2> QED
    BY <1>2, <2>1, <2>2, <2>3, <2>4, <2>5 DEF R
<1> QED
  BY <1>3, <1>4 DEF R

\* The results of an operation that takes the elements of s one after the other
IsFolding(f, base, op, s) ==
    f = [i \in 0 .. Len(s) |-> IF i = 0 THEN base ELSE op[f[i - 1]][s[i]]]

\* There are such results,
LEMMA FoldingExists ==
    ASSUME NEW X, NEW Y, NEW base \in Y, NEW op \in [Y -> [X -> Y]], NEW s \in Seq(X)
    PROVE  \E f : IsFolding(f, base, op, s) /\ \A i \in 0 .. Len(s) : f[i] \in Y
<1> DEFINE Upto(n, f) == /\ f = [i \in 0 .. n |-> IF i = 0 THEN base ELSE op[f[i - 1]][s[i]]]
                         /\ \A i \in 0 .. n : f[i] \in Y
           T == {n \in 0 .. Len(s) : ~\E f : Upto(n, f)}
<1>1. ASSUME T # {}
      PROVE  FALSE
  <2>0. T \in SUBSET Nat
    <3> HIDE DEF Upto
    <3> QED
      OBVIOUS
  <2>1. PICK n \in T : \A m \in T : n <= m
    <3> HIDE DEF T
    <3> QED
      BY <1>1, <2>0, LeastNatural
  <2>2. n # 0
    <3>1. Upto(0, [i \in 0 .. 0 |-> base])
      OBVIOUS
    <3> QED
      BY <3>1
  <2>3. n \in 1 .. Len(s) /\ n - 1 \in 0 .. Len(s)
    BY <2>1, <2>2
  <2>4. PICK f : Upto(n - 1, f)
    <3>1. n - 1 \notin T
      <4> HIDE DEF T
      <4> QED
        BY <2>0, <2>1, <2>3
    <3> QED
      BY <2>3, <3>1
  <2> DEFINE new == op[f[n - 1]][s[n]]
             g   == [i \in 0 .. n |-> IF i = n THEN new ELSE f[i]]
  <2>5. new \in Y
    <3>1. f[n - 1] \in Y /\ s[n] \in X
      BY <2>3, <2>4
    <3> QED
      BY <3>1
  <2>6. ASSUME NEW i \in 0 .. n
        PROVE  g[i] = IF i = 0 THEN base ELSE op[g[i - 1]][s[i]]
    <3>1. CASE i = n
      <4>1. g[i] = new /\ g[i - 1] = f[n - 1]
        BY <2>3, <3>1
      <4>2. i # 0
        BY <2>3, <3>1
      <4> HIDE DEF g
      <4> QED
        BY <3>1, <4>1, <4>2
    <3>2. CASE i < n
      <4>1. i \in 0 .. n - 1 /\ (i # 0 => i - 1 \in 0 .. n - 1)
        BY <2>3, <3>2
      <4>2. g[i] = f[i] /\ (i # 0 => g[i - 1] = f[i - 1])
        BY <2>3, <3>2, <4>1
      <4>3. f[i] = IF i = 0 THEN base ELSE op[f[i - 1]][s[i]]
        <5> HIDE DEF g, new
        <5> QED
          BY <2>4, <4>1
      <4> QED
        BY <4>2, <4>3
    <3>3. i = n \/ i < n
      BY <2>3
    <3> HIDE DEF g, new
    <3> QED
      BY <3>1, <3>2, <3>3
  <2>7. g = [i \in 0 .. n |-> IF i = 0 THEN base ELSE op[g[i - 1]][s[i]]]
    <3>1. g = [i \in 0 .. n |-> g[i]]
      OBVIOUS
    <3> HIDE DEF g
    <3> QED
      BY ONLY <2>6, <3>1
  <2>8. ASSUME NEW i \in 0 .. n
        PROVE  g[i] \in Y
    <3>1. CASE i = n
      BY <2>5, <3>1
    <3>2. CASE i # n
      <4>1. i \in 0 .. n - 1
        BY <2>3, <3>2
      <4>2. f[i] \in Y /\ g[i] = f[i]
        BY <2>4, <3>2, <4>1
      <4> QED
        BY ONLY <4>2
    <3> QED
      BY <3>1, <3>2
  <2> QED
    BY <2>1, <2>7, <2>8
<1> QED
  <2>1. Len(s) \notin T
    <3> HIDE DEF T
    <3> QED
      BY <1>1
  <2>2. \E f : Upto(Len(s), f)
    <3>1. Len(s) \in 0 .. Len(s)
      OBVIOUS
    <3> HIDE DEF Upto
    <3> QED
      BY <2>1, <3>1
  <2> QED
    BY <2>2 DEF IsFolding

\* and they are what anything is that goes on in the same way, up to n.
GoesOn(g, n, f, Y, base, op, s) ==
    /\ base \in Y /\ Len(s) \in Nat /\ n \in 0 .. Len(s)
    /\ IsFolding(f, base, op, s) /\ \A i \in 0 .. Len(s) : f[i] \in Y
    /\ g[0] = base
    /\ \A i \in 1 .. n : g[i - 1] \in Y => g[i] = op[g[i - 1]][s[i]]

LEMMA FoldingUnique ==
    ASSUME NEW Y, NEW base, NEW op, NEW s, NEW f, NEW n, NEW g, GoesOn(g, n, f, Y, base, op, s)
    PROVE  g[n] = f[n]
<1> DEFINE D == {m \in 0 .. n : f[m] # g[m]}
<1> USE DEF GoesOn
<1>0. \A i \in 0 .. Len(s) : f[i] = IF i = 0 THEN base ELSE op[f[i - 1]][s[i]]
  BY DEF IsFolding
<1>1. ASSUME D # {}
      PROVE  FALSE
  <2>0. D \in SUBSET Nat
    OBVIOUS
  <2>1. PICK m \in D : \A k \in D : m <= k
    <3> HIDE DEF D
    <3> QED
      BY <1>1, <2>0, LeastNatural
  <2>2. CASE m = 0
    BY <1>0, <2>1, <2>2
  <2>3. CASE m > 0
    <3>1. m \in 1 .. n /\ m - 1 \in 0 .. n /\ m - 1 \in 0 .. Len(s) /\ m \in 0 .. Len(s) /\ m # 0
      BY <2>1, <2>3
    <3>2. f[m - 1] = g[m - 1]
      BY <2>1, <3>1
    <3>3. f[m] = op[f[m - 1]][s[m]]
      BY <1>0, <3>1
    <3>4. g[m] = op[g[m - 1]][s[m]]
      BY <3>1, <3>2
    <3> QED
      BY <2>1, <3>2, <3>3, <3>4
  <2> QED
    BY <2>1, <2>2, <2>3
<1> QED
  BY <1>1

------------------------------------------------------------------------------
(* Sorting *)

\* An element inserted stands between what was before and behind its place.
IsInsertion(X, s, e, k) == s \in Seq(X) /\ e \in X /\ k \in 0 .. Len(s)

LEMMA InsertAtPlace ==
    ASSUME NEW X, NEW s, NEW e, NEW k, IsInsertion(X, s, e, k)
    PROVE  /\ InsertAt(s, k + 1, e) \in Seq(X) /\ Len(InsertAt(s, k + 1, e)) = Len(s) + 1
           /\ InsertAt(s, k + 1, e)[k + 1] = e
           /\ \A i \in 1 .. k : InsertAt(s, k + 1, e)[i] = s[i]
           /\ \A i \in k + 1 .. Len(s) : InsertAt(s, k + 1, e)[i + 1] = s[i]
<1> USE DEF IsInsertion
<1>1. /\ Len(s) \in Nat /\ DOMAIN s = 1 .. Len(s) /\ k \in Nat /\ k <= Len(s)
      /\ (k + 1) - 1 = k
  OBVIOUS
<1>2. PICK a : a = SubSeq(s, 1, k)
  OBVIOUS
<1>3. PICK b : b = SubSeq(s, k + 1, Len(s))
  OBVIOUS
<1>4. InsertAt(s, k + 1, e) = a \o <<e>> \o b
  BY <1>1, <1>2, <1>3, Zenon DEF InsertAt
<1>5. a \in Seq(X) /\ Len(a) = k /\ \A i \in 1 .. k : a[i] = s[i]
  BY <1>1, <1>2
<1>6. /\ b \in Seq(X) /\ Len(b) = Len(s) - k
      /\ \A i \in 1 .. Len(s) - k : b[i] = s[k + i]
  <2>1. k + 1 \in Int /\ Len(s) \in Int /\ \A i \in k + 1 .. Len(s) : s[i] \in X
    BY <1>1
  <2>2. /\ b \in Seq(X)
        /\ Len(b) = IF k + 1 <= Len(s) THEN Len(s) - (k + 1) + 1 ELSE 0
        /\ \A i \in 1 .. Len(s) - (k + 1) + 1 : b[i] = s[k + 1 + i - 1]
    BY <1>3, <2>1, SubSeqProperties
  <2>3. Len(s) - (k + 1) + 1 = Len(s) - k /\ \A i \in Int : k + 1 + i - 1 = k + i
    BY <1>1
  <2>4. ASSUME NEW i \in 1 .. Len(s) - k
        PROVE  b[i] = s[k + i]
    <3>1. i \in 1 .. Len(s) - (k + 1) + 1 /\ k + 1 + i - 1 = k + i
      BY <1>1
    <3>2. b[i] = s[k + 1 + i - 1]
      BY <2>2, <3>1
    <3> QED
      BY <3>1, <3>2
  <2>5. Len(b) = Len(s) - k
    <3>1. CASE k + 1 <= Len(s)
      BY <1>1, <2>2, <3>1
    <3>2. CASE k = Len(s)
      <4>1. ~(k + 1 <= Len(s)) /\ Len(s) - k = 0
        BY <1>1, <3>2
      <4> QED
        BY <2>2, <4>1
    <3>3. k + 1 <= Len(s) \/ k = Len(s)
      <4>1. \A m, j \in Nat : j <= m => j + 1 <= m \/ j = m
        OBVIOUS
      <4> QED
        BY <1>1, <4>1, Zenon
    <3> QED
      BY <3>1, <3>2, <3>3
  <2> QED
    BY <2>2, <2>4, <2>5
<1>7. PICK c : c = a \o <<e>>
  OBVIOUS
<1>8. /\ c \in Seq(X) /\ Len(c) = k + 1 /\ c[k + 1] = e
      /\ \A i \in 1 .. k : c[i] = s[i]
  <2>1. c = Append(a, e)
    BY <1>5, <1>7, AppendIsConcat
  <2> QED
    BY <1>1, <1>5, <2>1, AppendProperties
<1>9. /\ c \o b \in Seq(X) /\ Len(c \o b) = Len(s) + 1
      /\ \A i \in 1 .. Len(s) + 1 :
            (c \o b)[i] = IF i <= k + 1 THEN c[i] ELSE b[i - (k + 1)]
  <2>1. Len(c) + Len(b) = Len(s) + 1
    BY <1>1, <1>6, <1>8
  <2> QED
    BY <1>6, <1>8, <2>1, ConcatProperties
<1>10. PICK d : d = c \o b
  OBVIOUS
<1>11. \A i \in k + 1 .. Len(s) : d[i + 1] = s[i]
  <2>1. ASSUME NEW i \in k + 1 .. Len(s)
        PROVE  d[i + 1] = s[i]
    <3>1. i \in Int /\ i + 1 \in 1 .. Len(s) + 1 /\ ~(i + 1 <= k + 1) /\ i + 1 - (k + 1) = i - k
          /\ i - k \in 1 .. Len(s) - k /\ k + (i - k) = i
      BY <1>1
    <3>2. d[i + 1] = b[i - k]
      BY <1>9, <1>10, <3>1
    <3>3. b[i - k] = s[k + (i - k)]
      BY <1>6, <3>1
    <3> QED
      BY <3>1, <3>2, <3>3
  <2> QED
    BY <2>1
<1>12. \A i \in 1 .. k + 1 : d[i] = c[i]
  <2>1. \A i \in 1 .. k + 1 : i \in 1 .. Len(s) + 1 /\ i <= k + 1
    BY <1>1
  <2> QED
    BY <1>9, <1>10, <2>1
<1>13. \A i \in 1 .. k : d[i] = s[i]
  <2>1. \A i \in 1 .. k : i \in 1 .. k + 1
    BY <1>1
  <2> QED
    BY <1>8, <1>12, <2>1
<1>14. d[k + 1] = e
  BY <1>1, <1>8, <1>12
<1> QED
  BY <1>4, <1>7, <1>9, <1>10, <1>11, <1>13, <1>14

\* A place that is found by counting is one of the list.
LEMMA PlaceType ==
    ASSUME NEW n \in Nat, NEW I \in SUBSET (1 .. n)
    PROVE  Cardinality(I) \in 0 .. n
<1>1. IsFiniteSet(1 .. n) /\ Cardinality(1 .. n) = n
  BY FS_Interval
<1>2. Cardinality(I) \in Nat /\ Cardinality(I) <= n
  BY <1>1, FS_Subset, FS_CardinalityType
<1> QED
  BY <1>2

\* Sorting keeps the type of a list and puts the elements in one by one.
LEMMA FallingAppend ==
    ASSUME NEW X, NEW s \in Seq(X), NEW e \in X
    PROVE  /\ Falling(s) \in Seq(X)
           /\ Falling(<<>>) = <<>>
           /\ Falling(Append(s, e)) = Inserted(Falling(s), e)
           /\ Inserted(Falling(s), e) \in Seq(X)
<1>1. ASSUME NEW t \in Seq(X), NEW x \in X
      PROVE  Inserted(t, x) \in Seq(X)
  <2>1. {i \in DOMAIN t : t[i].n >= x.n} \in SUBSET (1 .. Len(t)) /\ Len(t) \in Nat
    OBVIOUS
  <2>2. Cardinality({i \in DOMAIN t : t[i].n >= x.n}) \in 0 .. Len(t)
    BY <2>1, PlaceType
  <2>3. PICK k : k = Cardinality({i \in DOMAIN t : t[i].n >= x.n})
    OBVIOUS
  <2>4. IsInsertion(X, t, x, k)
    BY <2>2, <2>3 DEF IsInsertion
  <2>5. Inserted(t, x) = InsertAt(t, k + 1, x)
    BY <2>3, Zenon DEF Inserted
  <2> QED
    BY ONLY <2>4, <2>5, InsertAtPlace
<1> DEFINE op == [t \in Seq(X) |-> [x \in X |-> Inserted(t, x)]]
<1>2. op \in [Seq(X) -> [X -> Seq(X)]]
  BY <1>1
<1>3. <<>> \in Seq(X)
  OBVIOUS
<1>4. \A t \in Seq(X) : \A x \in X : op[t][x] = Inserted(t, x)
  OBVIOUS
<1> HIDE DEF op
<1>5. ASSUME NEW t \in Seq(X)
      PROVE  \E f : /\ IsFolding(f, <<>>, op, t) /\ \A i \in 0 .. Len(t) : f[i] \in Seq(X)
                    /\ Falling(t) = f[Len(t)]
  <2>1. PICK f : IsFolding(f, <<>>, op, t) /\ \A i \in 0 .. Len(t) : f[i] \in Seq(X)
    BY <1>2, <1>3, FoldingExists
  <2>2. /\ DOMAIN f = 0 .. Len(t)
        /\ \A i \in 0 .. Len(t) : f[i] = IF i = 0 THEN <<>> ELSE Inserted(f[i - 1], t[i])
    <3>1. DOMAIN f = 0 .. Len(t)
      BY <2>1 DEF IsFolding
    <3>2. \A i \in 0 .. Len(t) : f[i] = IF i = 0 THEN <<>> ELSE op[f[i - 1]][t[i]]
      BY <2>1 DEF IsFolding
    <3>3. \A i \in 0 .. Len(t) : i # 0 => i - 1 \in 0 .. Len(t) /\ t[i] \in X
      OBVIOUS
    <3> QED
      BY <1>4, <2>1, <3>1, <3>2, <3>3
  <2>3. f = [i \in 0 .. Len(t) |-> IF i = 0 THEN <<>> ELSE Inserted(f[i - 1], t[i])]
    <3>1. f = [i \in DOMAIN f |-> f[i]]
      BY <2>1 DEF IsFolding
    <3> QED
      BY <2>2, <3>1
  <2> DEFINE G(h) == h = [i \in 0 .. Len(t) |-> IF i = 0 THEN <<>> ELSE Inserted(h[i - 1], t[i])]
             g == CHOOSE h : G(h)
  <2>4. G(g)
    BY <2>3
  <2>5. Falling(t) = g[Len(t)]
    BY DEF Falling
  <2>6. PICK h : h = g
    OBVIOUS
  <2>7. \A i \in 0 .. Len(t) : h[i] = IF i = 0 THEN <<>> ELSE Inserted(h[i - 1], t[i])
    <3> HIDE DEF g
    <3> QED
      BY <2>4, <2>6
  <2>8. h[Len(t)] = f[Len(t)]
    <3>1. h[0] = <<>>
      <4>1. Len(t) \in Nat
        OBVIOUS
      <4>2. 0 \in 0 .. Len(t)
        BY ONLY <4>1
      <4> QED
        BY ONLY <2>7, <4>2
    <3>2. \A i \in 1 .. Len(t) : h[i - 1] \in Seq(X) => h[i] = op[h[i - 1]][t[i]]
      <4>1. \A i \in 1 .. Len(t) : i \in 0 .. Len(t) /\ i # 0 /\ t[i] \in X
        OBVIOUS
      <4> QED
        BY <1>4, <2>7, <4>1
    <3>3. Len(t) \in Nat /\ Len(t) \in 0 .. Len(t)
      OBVIOUS
    <3>4. GoesOn(h, Len(t), f, Seq(X), <<>>, op, t)
      BY ONLY <1>3, <2>1, <3>1, <3>2, <3>3, Zenon DEF GoesOn
    <3> QED
      BY ONLY <3>4, FoldingUnique
  <2> HIDE DEF g
  <2> QED
    BY <2>1, <2>5, <2>6, <2>8
<1>6. Falling(s) \in Seq(X)
  <2>1. Len(s) \in 0 .. Len(s)
    OBVIOUS
  <2> QED
    BY <1>5, <2>1
<1>7. Falling(<<>>) = <<>>
  <2>1. PICK f : IsFolding(f, <<>>, op, <<>>) /\ Falling(<<>>) = f[Len(<<>>)]
    BY <1>3, <1>5
  <2>2. f[0] = <<>>
    BY <2>1 DEF IsFolding
  <2> QED
    BY <2>1, <2>2
<1>8. Falling(Append(s, e)) = Inserted(Falling(s), e)
  <2>1. PICK r : r = Append(s, e)
    OBVIOUS
  <2>2. /\ r \in Seq(X) /\ Len(r) = Len(s) + 1 /\ Len(s) \in Nat /\ r[Len(s) + 1] = e
        /\ \A i \in 1 .. Len(s) : r[i] = s[i]
    BY <2>1, AppendProperties
  <2>3. PICK f : /\ IsFolding(f, <<>>, op, s) /\ \A i \in 0 .. Len(s) : f[i] \in Seq(X)
                 /\ Falling(s) = f[Len(s)]
    BY <1>5
  <2>4. PICK g : /\ IsFolding(g, <<>>, op, r) /\ \A i \in 0 .. Len(r) : g[i] \in Seq(X)
                 /\ Falling(r) = g[Len(r)]
    BY <1>5, <2>2
  <2>5. \A i \in 0 .. Len(r) : g[i] = IF i = 0 THEN <<>> ELSE op[g[i - 1]][r[i]]
    BY <2>4 DEF IsFolding
  <2>6. g[Len(s)] = f[Len(s)]
    <3>1. g[0] = <<>> /\ Len(s) \in 0 .. Len(s)
      BY <2>2, <2>5
    <3>2. \A i \in 1 .. Len(s) : g[i - 1] \in Seq(X) => g[i] = op[g[i - 1]][s[i]]
      <4>1. \A i \in 1 .. Len(s) : i \in 0 .. Len(r) /\ i # 0
        BY <2>2
      <4> QED
        BY <2>2, <2>5, <4>1
    <3>3. GoesOn(g, Len(s), f, Seq(X), <<>>, op, s)
      BY ONLY <1>3, <2>2, <2>3, <3>1, <3>2, Zenon DEF GoesOn
    <3> QED
      BY ONLY <3>3, FoldingUnique
  <2>7. g[Len(r)] = op[g[Len(s)]][e]
    <3>1. Len(r) \in 0 .. Len(r) /\ Len(r) # 0 /\ Len(r) - 1 = Len(s) /\ r[Len(r)] = e
      BY <2>2
    <3> QED
      BY <2>5, <3>1
  <2>8. op[Falling(s)][e] = Inserted(Falling(s), e)
    BY <1>4, <1>6
  <2> QED
    BY <2>1, <2>3, <2>4, <2>6, <2>7, <2>8
<1> QED
  BY <1>1, <1>6, <1>7, <1>8

\* The plain list inserts in the same way.
LEMMA SameCardinality == \A S : Plain!Cardinality(S) = Cardinality(S)
BY DEF Plain!Cardinality, Cardinality

LEMMA SameInsertAt == \A s, i, e : Plain!InsertAt(s, i, e) = InsertAt(s, i, e)
BY DEF Plain!InsertAt, InsertAt

\* The plain list is sorted in the same way.
LEMMA DescendingAppend ==
    ASSUME NEW X, NEW s \in Seq(X), NEW e \in X
    PROVE  /\ Plain!Descending(s) \in Seq(X)
           /\ Plain!Descending(<<>>) = <<>>
           /\ Plain!Descending(Append(s, e)) = Plain!Inserted(Plain!Descending(s), e)
           /\ Plain!Inserted(Plain!Descending(s), e) \in Seq(X)
<1>1. ASSUME NEW t \in Seq(X), NEW x \in X
      PROVE  Plain!Inserted(t, x) \in Seq(X)
  <2>1. {i \in DOMAIN t : t[i] >= x} \in SUBSET (1 .. Len(t)) /\ Len(t) \in Nat
    OBVIOUS
  <2>2. Cardinality({i \in DOMAIN t : t[i] >= x}) \in 0 .. Len(t)
    BY <2>1, PlaceType
  <2>3. PICK k : k = Cardinality({i \in DOMAIN t : t[i] >= x})
    OBVIOUS
  <2>4. InsertAt(t, k + 1, x) \in Seq(X)
    <3>1. IsInsertion(X, t, x, k)
      BY <2>2, <2>3 DEF IsInsertion
    <3> QED
      BY ONLY <3>1, InsertAtPlace
  <2>5. Plain!Inserted(t, x) = Plain!InsertAt(t, k + 1, x)
    BY <2>3, SameCardinality, Zenon DEF Plain!Inserted
  <2>6. Plain!InsertAt(t, k + 1, x) = InsertAt(t, k + 1, x)
    BY SameInsertAt, Zenon
  <2> QED
    BY <2>4, <2>5, <2>6
<1> DEFINE op == [t \in Seq(X) |-> [x \in X |-> Plain!Inserted(t, x)]]
<1>2. op \in [Seq(X) -> [X -> Seq(X)]]
  BY <1>1
<1>3. <<>> \in Seq(X)
  OBVIOUS
<1>4. \A t \in Seq(X) : \A x \in X : op[t][x] = Plain!Inserted(t, x)
  OBVIOUS
<1> HIDE DEF op
<1>5. ASSUME NEW t \in Seq(X)
      PROVE  \E f : /\ IsFolding(f, <<>>, op, t) /\ \A i \in 0 .. Len(t) : f[i] \in Seq(X)
                    /\ Plain!Descending(t) = f[Len(t)]
  <2>1. PICK f : IsFolding(f, <<>>, op, t) /\ \A i \in 0 .. Len(t) : f[i] \in Seq(X)
    BY <1>2, <1>3, FoldingExists
  <2>2. /\ DOMAIN f = 0 .. Len(t)
        /\ \A i \in 0 .. Len(t) : f[i] = IF i = 0 THEN <<>> ELSE Plain!Inserted(f[i - 1], t[i])
    <3>1. DOMAIN f = 0 .. Len(t)
      BY <2>1 DEF IsFolding
    <3>2. \A i \in 0 .. Len(t) : f[i] = IF i = 0 THEN <<>> ELSE op[f[i - 1]][t[i]]
      BY <2>1 DEF IsFolding
    <3>3. \A i \in 0 .. Len(t) : i # 0 => i - 1 \in 0 .. Len(t) /\ t[i] \in X
      OBVIOUS
    <3> QED
      BY <1>4, <2>1, <3>1, <3>2, <3>3
  <2>3. f = [i \in 0 .. Len(t) |-> IF i = 0 THEN <<>> ELSE Plain!Inserted(f[i - 1], t[i])]
    <3>1. f = [i \in DOMAIN f |-> f[i]]
      BY <2>1 DEF IsFolding
    <3> QED
      BY <2>2, <3>1
  <2> DEFINE G(h) == h = [i \in 0 .. Len(t) |->
                            IF i = 0 THEN <<>> ELSE Plain!Inserted(h[i - 1], t[i])]
             g == CHOOSE h : G(h)
  <2>4. G(g)
    BY <2>3
  <2>5. Plain!Descending(t) = g[Len(t)]
    BY DEF Plain!Descending
  <2>6. PICK h : h = g
    OBVIOUS
  <2>7. \A i \in 0 .. Len(t) : h[i] = IF i = 0 THEN <<>> ELSE Plain!Inserted(h[i - 1], t[i])
    <3> HIDE DEF g
    <3> QED
      BY <2>4, <2>6
  <2>8. h[Len(t)] = f[Len(t)]
    <3>1. h[0] = <<>>
      <4>1. 0 \in 0 .. Len(t)
        OBVIOUS
      <4> QED
        BY <2>7, <4>1
    <3>2. \A i \in 1 .. Len(t) : h[i - 1] \in Seq(X) => h[i] = op[h[i - 1]][t[i]]
      <4>1. \A i \in 1 .. Len(t) : i \in 0 .. Len(t) /\ i # 0 /\ t[i] \in X
        OBVIOUS
      <4> QED
        BY <1>4, <2>7, <4>1
    <3>3. Len(t) \in Nat /\ Len(t) \in 0 .. Len(t)
      OBVIOUS
    <3>4. GoesOn(h, Len(t), f, Seq(X), <<>>, op, t)
      BY ONLY <1>3, <2>1, <3>1, <3>2, <3>3, Zenon DEF GoesOn
    <3> QED
      BY ONLY <3>4, FoldingUnique
  <2> HIDE DEF g
  <2> QED
    BY <2>1, <2>5, <2>6, <2>8
<1>6. Plain!Descending(s) \in Seq(X)
  <2>1. Len(s) \in 0 .. Len(s)
    OBVIOUS
  <2> QED
    BY <1>5, <2>1
<1>7. Plain!Descending(<<>>) = <<>>
  <2>1. PICK f : IsFolding(f, <<>>, op, <<>>) /\ Plain!Descending(<<>>) = f[Len(<<>>)]
    BY <1>3, <1>5
  <2>2. f[0] = <<>>
    BY <2>1 DEF IsFolding
  <2> QED
    BY <2>1, <2>2
<1>8. Plain!Descending(Append(s, e)) = Plain!Inserted(Plain!Descending(s), e)
  <2>1. PICK r : r = Append(s, e)
    OBVIOUS
  <2>2. /\ r \in Seq(X) /\ Len(r) = Len(s) + 1 /\ Len(s) \in Nat /\ r[Len(s) + 1] = e
        /\ \A i \in 1 .. Len(s) : r[i] = s[i]
    BY <2>1, AppendProperties
  <2>3. PICK f : /\ IsFolding(f, <<>>, op, s) /\ \A i \in 0 .. Len(s) : f[i] \in Seq(X)
                 /\ Plain!Descending(s) = f[Len(s)]
    BY <1>5
  <2>4. PICK g : /\ IsFolding(g, <<>>, op, r) /\ \A i \in 0 .. Len(r) : g[i] \in Seq(X)
                 /\ Plain!Descending(r) = g[Len(r)]
    BY <1>5, <2>2
  <2>5. \A i \in 0 .. Len(r) : g[i] = IF i = 0 THEN <<>> ELSE op[g[i - 1]][r[i]]
    BY <2>4 DEF IsFolding
  <2>6. g[Len(s)] = f[Len(s)]
    <3>1. g[0] = <<>> /\ Len(s) \in 0 .. Len(s)
      BY <2>2, <2>5
    <3>2. \A i \in 1 .. Len(s) : g[i - 1] \in Seq(X) => g[i] = op[g[i - 1]][s[i]]
      <4>1. \A i \in 1 .. Len(s) : i \in 0 .. Len(r) /\ i # 0
        BY <2>2
      <4> QED
        BY <2>2, <2>5, <4>1
    <3>3. GoesOn(g, Len(s), f, Seq(X), <<>>, op, s)
      BY ONLY <1>3, <2>2, <2>3, <3>1, <3>2, Zenon DEF GoesOn
    <3> QED
      BY ONLY <3>3, FoldingUnique
  <2>7. g[Len(r)] = op[g[Len(s)]][e]
    <3>1. Len(r) \in 0 .. Len(r) /\ Len(r) # 0 /\ Len(r) - 1 = Len(s) /\ r[Len(r)] = e
      BY <2>2
    <3> QED
      BY <2>5, <3>1
  <2>8. op[Plain!Descending(s)][e] = Plain!Inserted(Plain!Descending(s), e)
    BY <1>4, <1>6
  <2> QED
    BY <2>1, <2>3, <2>4, <2>6, <2>7, <2>8
<1> QED
  BY <1>1, <1>6, <1>7, <1>8

\* What holds of the empty list and of every list with an element more than one
\* it holds of, holds of all.
LEMMA ListInduction ==
    ASSUME NEW X, NEW Good, <<>> \in Good,
           \A s \in Seq(X), e \in X : s \in Good => Append(s, e) \in Good
    PROVE  \A s \in Seq(X) : s \in Good
<1> DEFINE T == {n \in Nat : \E s \in Seq(X) : Len(s) = n /\ s \notin Good}
<1>1. ASSUME T # {}
      PROVE  FALSE
  <2>0. T \in SUBSET Nat
    OBVIOUS
  <2>1. PICK n \in T : \A m \in T : n <= m
    <3> HIDE DEF T
    <3> QED
      BY <1>1, <2>0, LeastNatural
  <2>2. PICK s \in Seq(X) : Len(s) = n /\ s \notin Good
    BY <2>1
  <2>3. PICK f \in Seq(X), e \in X : s = Append(f, e) /\ Len(f) = Len(s) - 1
    BY <2>2, FrontAndLast
  <2>4. f \notin Good
    BY <2>2, <2>3
  <2>5. Len(f) \in T
    BY <2>4
  <2>6. Len(f) < n /\ Len(f) \in Nat /\ n \in Nat
    BY <2>2, <2>3
  <2> QED
    <3> HIDE DEF T
    <3> QED
      BY <2>1, <2>5, <2>6
<1> QED
  BY <1>1

\* The empty list is written as nothing.
LEMMA FlattenNothing == FlattenSeq(<<>>) = <<>>
BY DEF FlattenSeq

\* A function of the elements of a list
MapOf(F, s) == [i \in DOMAIN s |-> F[s[i]]]

MapsToLists(X, Y, F, s, e) == F \in [X -> Seq(Y)] /\ s \in Seq(X) /\ e \in X

WritesOut(Y, F, s, e) ==
    /\ FlattenSeq(MapOf(F, s)) \in Seq(Y)
    /\ FlattenSeq(MapOf(F, Append(s, e))) = FlattenSeq(MapOf(F, s)) \o F[e]

\* Writing out the elements of a list one after the other
LEMMA FlattenMapAppend ==
    ASSUME NEW X, NEW Y, NEW F, NEW s, NEW e, MapsToLists(X, Y, F, s, e)
    PROVE  WritesOut(Y, F, s, e)
<1> USE DEF MapsToLists
<1>0. PICK Z : Z = Seq(Y) /\ F \in [X -> Z]
  OBVIOUS
<1>1. /\ Len(s) \in Nat /\ DOMAIN s = 1 .. Len(s) /\ \A i \in 1 .. Len(s) : s[i] \in X
  OBVIOUS
<1>2. PICK m : m = [i \in 1 .. Len(s) |-> F[s[i]]]
  OBVIOUS
<1>3. m \in Seq(Z) /\ Len(m) = Len(s) /\ \A i \in 1 .. Len(s) : m[i] = F[s[i]]
  BY <1>0, <1>1, <1>2
<1>4. PICK r : r = Append(s, e)
  OBVIOUS
<1>5. /\ r \in Seq(X) /\ Len(r) = Len(s) + 1 /\ r[Len(s) + 1] = e
      /\ \A i \in 1 .. Len(s) : r[i] = s[i]
  BY <1>4, AppendProperties
<1>6. PICK u : u = [i \in DOMAIN r |-> F[r[i]]]
  OBVIOUS
<1>7. u \in Seq(Z) /\ Len(u) = Len(s) + 1 /\ \A i \in 1 .. Len(s) + 1 : u[i] = F[r[i]]
  <2>1. DOMAIN r = 1 .. Len(s) + 1 /\ \A i \in 1 .. Len(s) + 1 : r[i] \in X
    BY <1>5
  <2> QED
    BY <1>0, <1>1, <1>6, <2>1
<1>8. PICK w : w = Append(m, F[e])
  OBVIOUS
<1>9. /\ w \in Seq(Z) /\ Len(w) = Len(s) + 1 /\ w[Len(s) + 1] = F[e]
      /\ \A i \in 1 .. Len(s) : w[i] = m[i]
  BY <1>0, <1>3, <1>8, AppendProperties
<1>10. u = w
  <2>1. \A i \in 1 .. Len(s) + 1 : u[i] = w[i]
    <3>1. ASSUME NEW i \in 1 .. Len(s) + 1
          PROVE  u[i] = w[i]
      <4>1. CASE i = Len(s) + 1
        BY <1>5, <1>7, <1>9, <4>1
      <4>2. CASE i \in 1 .. Len(s)
        BY <1>3, <1>5, <1>7, <1>9, <4>2
      <4> QED
        BY <1>1, <4>1, <4>2
    <3> QED
      BY <3>1
  <2> QED
    BY <1>7, <1>9, <2>1, SeqEqual
<1>11. MapOf(F, s) = m /\ MapOf(F, r) = w
  BY <1>1, <1>2, <1>6, <1>10 DEF MapOf
<1>12. FlattenSeq(m) \in Seq(Y) /\ FlattenSeq(w) = FlattenSeq(m) \o F[e]
  <2>1. m \in Seq(Seq(Y)) /\ F[e] \in Seq(Y)
    BY <1>0, <1>3
  <2> QED
    BY <1>8, <2>1, FlattenAppend
<1> QED
  BY <1>4, <1>11, <1>12 DEF WritesOut

------------------------------------------------------------------------------
(* What a list stands for *)

Entries  == [zero : BOOLEAN, n : Nat \ {0}]
NonZeros == [zero : {FALSE}, n : Nat \ {0}]

\* The values of a list of entries
ValuesOf(s) == FlattenSeq([i \in DOMAIN s |-> Written(s[i])])

\* The entries that are values
RetainedOf(s) == FlattenSeq([i \in DOMAIN s |-> IF s[i].zero THEN <<>> ELSE <<s[i]>>])

\* The bits of the entries
NumbersOf(s) == [i \in DOMAIN s |-> s[i].n]

LEMMA ValuesAppend ==
    ASSUME NEW s \in Seq(Entries), NEW e \in Entries
    PROVE  /\ ValuesOf(s) \in Seq(Nat) /\ ValuesOf(<<>>) = <<>>
           /\ Written(e) \in Seq(Nat)
           /\ ValuesOf(Append(s, e)) = ValuesOf(s) \o Written(e)
<1> DEFINE F == [x \in Entries |-> Written(x)]
<1>1. /\ F \in [Entries -> Seq(Nat)]
      /\ \A x \in Entries : F[x] = Written(x) /\ F[x] \in Seq(Nat)
  <2>1. ASSUME NEW x \in Entries
        PROVE  Written(x) \in Seq(Nat)
    <3>1. x.n \in Nat
      BY DEF Entries
    <3> QED
      BY <3>1 DEF Written
  <2> QED
    BY <2>1
<1> HIDE DEF F
<1>2. ASSUME NEW t \in Seq(Entries)
      PROVE  ValuesOf(t) = FlattenSeq(MapOf(F, t))
  <2>1. [i \in DOMAIN t |-> F[t[i]]] = [i \in DOMAIN t |-> Written(t[i])]
    BY <1>1
  <2> QED
    BY <2>1 DEF ValuesOf, MapOf
<1>3. /\ FlattenSeq(MapOf(F, s)) \in Seq(Nat)
      /\ FlattenSeq(MapOf(F, Append(s, e)))
            = FlattenSeq(MapOf(F, s)) \o F[e]
  <2>1. MapsToLists(Entries, Nat, F, s, e)
    BY <1>1 DEF MapsToLists
  <2>2. WritesOut(Nat, F, s, e)
    BY <2>1, FlattenMapAppend
  <2> QED
    BY <2>2 DEF WritesOut
<1>4. Append(s, e) \in Seq(Entries)
  OBVIOUS
<1>5. ValuesOf(<<>>) = <<>>
  <2>1. [i \in DOMAIN <<>> |-> Written(<<>>[i])] = <<>>
    OBVIOUS
  <2> QED
    BY <2>1, FlattenNothing DEF ValuesOf
<1> QED
  BY <1>1, <1>2, <1>3, <1>4, <1>5

LEMMA RetainedAppend ==
    ASSUME NEW s \in Seq(Entries), NEW e \in Entries
    PROVE  /\ RetainedOf(s) \in Seq(NonZeros) /\ RetainedOf(<<>>) = <<>>
           /\ RetainedOf(Append(s, e)) = IF e.zero THEN RetainedOf(s) ELSE Append(RetainedOf(s), e)
           /\ ~e.zero => e \in NonZeros
<1> DEFINE F == [x \in Entries |-> IF x.zero THEN <<>> ELSE <<x>>]
<1>0. \A x \in Entries : ~x.zero => x \in NonZeros
  BY DEF Entries, NonZeros
<1>1. /\ F \in [Entries -> Seq(NonZeros)]
      /\ \A x \in Entries : /\ F[x] = IF x.zero THEN <<>> ELSE <<x>>
                            /\ F[x] \in Seq(NonZeros)
  BY <1>0
<1> HIDE DEF F
<1>2. ASSUME NEW t \in Seq(Entries)
      PROVE  RetainedOf(t) = FlattenSeq(MapOf(F, t))
  <2>1. [i \in DOMAIN t |-> F[t[i]]]
            = [i \in DOMAIN t |-> IF t[i].zero THEN <<>> ELSE <<t[i]>>]
    BY <1>1
  <2> QED
    BY <2>1 DEF RetainedOf, MapOf
<1>3. /\ FlattenSeq(MapOf(F, s)) \in Seq(NonZeros)
      /\ FlattenSeq(MapOf(F, Append(s, e)))
            = FlattenSeq(MapOf(F, s)) \o F[e]
  <2>1. MapsToLists(Entries, NonZeros, F, s, e)
    BY <1>1 DEF MapsToLists
  <2>2. WritesOut(NonZeros, F, s, e)
    BY <2>1, FlattenMapAppend
  <2> QED
    BY <2>2 DEF WritesOut
<1>4. Append(s, e) \in Seq(Entries)
  OBVIOUS
<1>5. RetainedOf(<<>>) = <<>>
  <2>1. [i \in DOMAIN <<>> |-> IF <<>>[i].zero THEN <<>> ELSE << <<>>[i] >>] = <<>>
    OBVIOUS
  <2> QED
    BY <2>1, FlattenNothing DEF RetainedOf
<1>6. RetainedOf(s) \in Seq(NonZeros) /\ RetainedOf(Append(s, e)) = RetainedOf(s) \o F[e]
  BY <1>2, <1>3, <1>4
<1>7. CASE e.zero
  <2>1. RetainedOf(s) \o <<>> = RetainedOf(s)
    BY <1>6, ConcatEmptySeq
  <2> QED
    BY <1>0, <1>1, <1>5, <1>6, <1>7, <2>1
<1>8. CASE ~e.zero
  <2>1. RetainedOf(s) \o <<e>> = Append(RetainedOf(s), e)
    BY <1>0, <1>6, <1>8, AppendIsConcat
  <2> QED
    BY <1>0, <1>1, <1>5, <1>6, <1>8, <2>1
<1> QED
  BY <1>7, <1>8

\* The plain list has the same operator under another name.
LEMMA SameFlatten == \A S : Plain!FlattenSeq(S) = FlattenSeq(S)
BY DEF Plain!FlattenSeq, FlattenSeq

LEMMA NonZeroAppend ==
    ASSUME NEW s \in Seq(Nat), NEW x \in Nat
    PROVE  /\ Plain!NonZero(s) \in Seq(Nat \ {0}) /\ Plain!NonZero(<<>>) = <<>>
           /\ Plain!NonZero(Append(s, x))
                = IF x > 0 THEN Append(Plain!NonZero(s), x) ELSE Plain!NonZero(s)
<1> DEFINE F == [y \in Nat |-> IF y > 0 THEN <<y>> ELSE <<>>]
<1>1. /\ F \in [Nat -> Seq(Nat \ {0})]
      /\ \A y \in Nat : /\ F[y] = IF y > 0 THEN <<y>> ELSE <<>>
                        /\ F[y] \in Seq(Nat \ {0})
  <2>1. \A y \in Nat : y > 0 => <<y>> \in Seq(Nat \ {0})
    <3>1. \A y \in Nat : y > 0 => y \in Nat \ {0}
      OBVIOUS
    <3>2. \A y \in Nat \ {0} : <<y>> \in Seq(Nat \ {0})
      OBVIOUS
    <3> QED
      BY <3>1, <3>2
  <2>2. <<>> \in Seq(Nat \ {0})
    OBVIOUS
  <2> QED
    BY <2>1, <2>2
<1> HIDE DEF F
<1>2. ASSUME NEW t \in Seq(Nat)
      PROVE  Plain!NonZero(t) = FlattenSeq(MapOf(F, t))
  <2>1. [i \in DOMAIN t |-> F[t[i]]]
            = [i \in DOMAIN t |-> IF t[i] > 0 THEN <<t[i]>> ELSE <<>>]
    <3>1. \A i \in DOMAIN t : t[i] \in Nat
      OBVIOUS
    <3> QED
      BY <1>1, <3>1, Zenon
  <2> QED
    BY <2>1, SameFlatten DEF Plain!NonZero, MapOf
<1>3. /\ FlattenSeq(MapOf(F, s)) \in Seq(Nat \ {0})
      /\ FlattenSeq(MapOf(F, Append(s, x)))
            = FlattenSeq(MapOf(F, s)) \o F[x]
  <2>1. MapsToLists(Nat, Nat \ {0}, F, s, x)
    BY <1>1 DEF MapsToLists
  <2>2. WritesOut(Nat \ {0}, F, s, x)
    BY <2>1, FlattenMapAppend
  <2> QED
    BY <2>2 DEF WritesOut
<1>4. Append(s, x) \in Seq(Nat)
  OBVIOUS
<1>5. Plain!NonZero(<<>>) = <<>>
  <2>1. [i \in DOMAIN <<>> |-> IF <<>>[i] > 0 THEN << <<>>[i] >> ELSE <<>>] = <<>>
    OBVIOUS
  <2> QED
    BY <2>1, FlattenNothing, SameFlatten DEF Plain!NonZero
<1>6. /\ Plain!NonZero(s) \in Seq(Nat \ {0})
      /\ Plain!NonZero(Append(s, x)) = Plain!NonZero(s) \o F[x]
  BY <1>2, <1>3, <1>4
<1>7. CASE ~(x > 0)
  <2>1. Plain!NonZero(s) \o <<>> = Plain!NonZero(s)
    BY <1>6, ConcatEmptySeq
  <2> QED
    BY <1>1, <1>5, <1>6, <1>7, <2>1
<1>8. CASE x > 0
  <2>1. x \in Nat \ {0}
    BY <1>8
  <2>2. Plain!NonZero(s) \o <<x>> = Append(Plain!NonZero(s), x)
    BY <1>6, <2>1, AppendIsConcat
  <2> QED
    BY <1>1, <1>5, <1>6, <1>8, <2>2
<1> QED
  BY <1>7, <1>8
------------------------------------------------------------------------------
(* Values and zeros *)

ZerosOf(k) == [j \in 1 .. k |-> 0]

LEMMA ZerosMore ==
    ASSUME NEW l \in Seq(Nat), NEW k \in Nat
    PROVE  /\ l \o ZerosOf(k) \in Seq(Nat) /\ l \o ZerosOf(0) = l
           /\ l \o ZerosOf(k + 1) = Append(l \o ZerosOf(k), 0)
<1>1. ZerosOf(k) \in Seq(Nat) /\ Len(ZerosOf(k)) = k
  BY DEF ZerosOf
<1>2. ZerosOf(0) = <<>>
  BY DEF ZerosOf
<1>3. ZerosOf(k + 1) = Append(ZerosOf(k), 0)
  BY DEF ZerosOf
<1>4. PICK z : z = ZerosOf(k)
  OBVIOUS
<1>5. l \o Append(z, 0) = Append(l \o z, 0)
  <2>1. 0 \in Nat /\ <<0>> \in Seq(Nat) /\ z \in Seq(Nat)
    BY <1>1, <1>4
  <2>2. Append(z, 0) = z \o <<0>>
    BY <2>1, AppendIsConcat
  <2>3. l \o z \in Seq(Nat)
    BY <2>1, ConcatProperties
  <2>4. Append(l \o z, 0) = (l \o z) \o <<0>>
    BY <2>1, <2>3, AppendIsConcat
  <2>5. (l \o z) \o <<0>> = l \o (z \o <<0>>)
    BY <2>1, ConcatAssociative
  <2> QED
    BY <2>2, <2>4, <2>5
<1>6. l \o z \in Seq(Nat) /\ l \o <<>> = l
  BY <1>1, <1>4, ConcatProperties, ConcatEmptySeq
<1> QED
  BY <1>2, <1>3, <1>4, <1>5, <1>6

\* Zeros behind a list leave no trace when zeros are removed.
LEMMA NonZeroOfZeros ==
    ASSUME NEW l \in Seq(Nat), NEW k \in Nat
    PROVE  Plain!NonZero(l \o ZerosOf(k)) = Plain!NonZero(l)
<1> DEFINE T == {n \in Nat : Plain!NonZero(l \o ZerosOf(n)) # Plain!NonZero(l)}
<1>1. ASSUME T # {}
      PROVE  FALSE
  <2>0. T \in SUBSET Nat
    OBVIOUS
  <2>1. PICK n \in T : \A m \in T : n <= m
    <3> HIDE DEF T
    <3> QED
      BY <1>1, <2>0, LeastNatural
  <2>2. n # 0
    BY <2>1, ZerosMore
  <2>3. n - 1 \in Nat /\ n - 1 + 1 = n /\ ~(n <= n - 1)
    BY <2>1, <2>2
  <2>4. Plain!NonZero(l \o ZerosOf(n - 1)) = Plain!NonZero(l)
    BY <2>1, <2>3
  <2>5. PICK m : m = n - 1
    OBVIOUS
  <2>6. m \in Nat /\ ZerosOf(n) = ZerosOf(m + 1)
    BY <2>3, <2>5
  <2>7. l \o ZerosOf(m) \in Seq(Nat) /\ l \o ZerosOf(n) = Append(l \o ZerosOf(m), 0)
    BY <2>6, ZerosMore
  <2>8. Plain!NonZero(Append(l \o ZerosOf(m), 0)) = Plain!NonZero(l \o ZerosOf(m))
    <3>1. 0 \in Nat /\ ~(0 > 0)
      OBVIOUS
    <3> QED
      BY <2>7, <3>1, NonZeroAppend
  <2> QED
    BY <2>1, <2>4, <2>5, <2>7, <2>8
<1> QED
  BY <1>1

\* Removing the runs of zeros removes the zeros of the values and no other.
LEMMA ValuesOfRetained ==
    ASSUME NEW s \in Seq(Entries)
    PROVE  ValuesOf(RetainedOf(s)) = Plain!NonZero(ValuesOf(s))
<1> DEFINE Good == {t \in Seq(Entries) : ValuesOf(RetainedOf(t)) = Plain!NonZero(ValuesOf(t))}
<1>0. \E e : e \in Entries
  <2>1. [zero |-> TRUE, n |-> 1] \in Entries
    BY DEF Entries
  <2> QED
    BY <2>1
<1>1. <<>> \in Good
  <2>1. <<>> \in Seq(Entries) /\ <<>> \in Seq(Nat) /\ 0 \in Nat
    OBVIOUS
  <2>2. RetainedOf(<<>>) = <<>> /\ ValuesOf(<<>>) = <<>>
    BY <1>0, <2>1, RetainedAppend, ValuesAppend
  <2>3. Plain!NonZero(<<>>) = <<>>
    BY <2>1, NonZeroAppend
  <2> QED
    BY <2>1, <2>2, <2>3
<1>2. ASSUME NEW t \in Seq(Entries), NEW e \in Entries, t \in Good
      PROVE  Append(t, e) \in Good
  <2>1. /\ ValuesOf(t) \in Seq(Nat) /\ ValuesOf(Append(t, e)) = ValuesOf(t) \o Written(e)
        /\ RetainedOf(t) \in Seq(NonZeros)
        /\ RetainedOf(Append(t, e)) = IF e.zero THEN RetainedOf(t) ELSE Append(RetainedOf(t), e)
    BY RetainedAppend, ValuesAppend
  <2>2. CASE e.zero
    <3>1. Written(e) = ZerosOf(e.n) /\ e.n \in Nat
      BY <2>2 DEF Written, ZerosOf, Entries
    <3>2. Plain!NonZero(ValuesOf(t) \o ZerosOf(e.n)) = Plain!NonZero(ValuesOf(t))
      BY <2>1, <3>1, NonZeroOfZeros
    <3>3. ValuesOf(RetainedOf(Append(t, e))) = ValuesOf(RetainedOf(t))
      BY <2>1, <2>2
    <3>4. Plain!NonZero(ValuesOf(Append(t, e))) = Plain!NonZero(ValuesOf(t))
      BY <2>1, <3>1, <3>2
    <3>5. ValuesOf(RetainedOf(t)) = Plain!NonZero(ValuesOf(t))
      BY <1>2
    <3>6. ValuesOf(RetainedOf(Append(t, e))) = Plain!NonZero(ValuesOf(Append(t, e)))
      BY <3>3, <3>4, <3>5
    <3>7. Append(t, e) \in Seq(Entries)
      OBVIOUS
    <3> QED
      BY <3>6, <3>7
  <2>3. CASE ~e.zero
    <3>1. Written(e) = <<e.n>> /\ e.n \in Nat /\ e.n > 0
      BY <2>3 DEF Written, Entries
    <3>2. ValuesOf(t) \o Written(e) = Append(ValuesOf(t), e.n)
      BY <2>1, <3>1, AppendIsConcat
    <3>3. Plain!NonZero(Append(ValuesOf(t), e.n)) = Append(Plain!NonZero(ValuesOf(t)), e.n)
      BY <2>1, <3>1, NonZeroAppend
    <3>4. PICK r : r = RetainedOf(t)
      OBVIOUS
    <3>5. r \in Seq(Entries)
      <4>1. NonZeros \subseteq Entries
        BY DEF NonZeros, Entries
      <4> QED
        BY <2>1, <3>4, <4>1, SeqMonotonic
    <3>6. ValuesOf(r) \in Seq(Nat) /\ ValuesOf(Append(r, e)) = ValuesOf(r) \o Written(e)
      BY <3>5, ValuesAppend
    <3>7. ValuesOf(r) \o Written(e) = Append(ValuesOf(r), e.n)
      BY <3>1, <3>6, AppendIsConcat
    <3>8. ValuesOf(r) = Plain!NonZero(ValuesOf(t))
      BY <1>2, <3>4
    <3>9. ValuesOf(RetainedOf(Append(t, e))) = Append(ValuesOf(r), e.n)
      BY <2>1, <2>3, <3>4, <3>6, <3>7
    <3>10. Plain!NonZero(ValuesOf(Append(t, e))) = Append(Plain!NonZero(ValuesOf(t)), e.n)
      BY <2>1, <3>2, <3>3
    <3>11. ValuesOf(RetainedOf(Append(t, e))) = Plain!NonZero(ValuesOf(Append(t, e)))
      BY <3>8, <3>9, <3>10
    <3>12. Append(t, e) \in Seq(Entries)
      OBVIOUS
    <3> QED
      BY <3>11, <3>12
  <2> QED
    BY <2>2, <2>3
<1> HIDE DEF Good
<1>3. s \in Good
  BY <1>1, <1>2, ListInduction
<1> QED
  BY <1>3 DEF Good

\* One number more
LEMMA NumbersAppend ==
    ASSUME NEW s \in Seq(Entries), NEW e \in Entries
    PROVE  /\ NumbersOf(s) \in Seq(Nat) /\ Len(NumbersOf(s)) = Len(s)
           /\ NumbersOf(<<>>) = <<>>
           /\ NumbersOf(Append(s, e)) = Append(NumbersOf(s), e.n)
<1>1. \A x \in Entries : x.n \in Nat
  BY DEF Entries
<1>2. /\ Len(s) \in Nat /\ DOMAIN s = 1 .. Len(s) /\ \A i \in 1 .. Len(s) : s[i] \in Entries
  OBVIOUS
<1>3. NumbersOf(s) = [i \in 1 .. Len(s) |-> s[i].n]
  BY <1>2 DEF NumbersOf
<1>4. NumbersOf(s) \in Seq(Nat) /\ Len(NumbersOf(s)) = Len(s)
  BY <1>1, <1>2, <1>3
<1>5. PICK r : r = Append(s, e)
  OBVIOUS
<1>6. /\ Len(r) = Len(s) + 1 /\ DOMAIN r = 1 .. Len(s) + 1 /\ r[Len(s) + 1] = e
      /\ \A i \in 1 .. Len(s) : r[i] = s[i]
  BY <1>5, AppendProperties
<1>7. NumbersOf(r) = [i \in 1 .. Len(s) + 1 |-> r[i].n]
  BY <1>6 DEF NumbersOf
<1>8. PICK w : w = Append(NumbersOf(s), e.n)
  OBVIOUS
<1>9. w = [i \in 1 .. Len(s) + 1 |-> IF i <= Len(s) THEN s[i].n ELSE e.n]
  BY <1>2, <1>3, <1>4, <1>8
<1>10. \A i \in 1 .. Len(s) + 1 : r[i].n = IF i <= Len(s) THEN s[i].n ELSE e.n
  BY <1>2, <1>6
<1>11. NumbersOf(r) = w
  BY <1>7, <1>9, <1>10
<1>12. NumbersOf(<<>>) = <<>>
  BY DEF NumbersOf
<1> QED
  BY <1>4, <1>5, <1>8, <1>11, <1>12

\* Where there are no zeros the entries are the values.
LEMMA ValuesOfNonZeros ==
    ASSUME NEW s \in Seq(NonZeros)
    PROVE  ValuesOf(s) = NumbersOf(s)
<1> DEFINE Good == {t \in Seq(NonZeros) : ValuesOf(t) = NumbersOf(t)}
<1>0. NonZeros \subseteq Entries
  BY DEF NonZeros, Entries
<1>1. <<>> \in Good
  <2>1. [zero |-> TRUE, n |-> 1] \in Entries
    BY DEF Entries
  <2>2. <<>> \in Seq(NonZeros) /\ <<>> \in Seq(Entries)
    OBVIOUS
  <2>3. ValuesOf(<<>>) = <<>> /\ NumbersOf(<<>>) = <<>>
    BY <2>1, <2>2, ValuesAppend, NumbersAppend
  <2> QED
    BY <2>2, <2>3
<1>2. ASSUME NEW t \in Seq(NonZeros), NEW e \in NonZeros, t \in Good
      PROVE  Append(t, e) \in Good
  <2>1. t \in Seq(Entries) /\ e \in Entries /\ Append(t, e) \in Seq(NonZeros)
    BY <1>0
  <2>2. Written(e) = <<e.n>> /\ e.n \in Nat
    BY DEF Written, NonZeros
  <2>3. ValuesOf(t) \in Seq(Nat) /\ ValuesOf(Append(t, e)) = ValuesOf(t) \o Written(e)
    BY <2>1, ValuesAppend
  <2>4. ValuesOf(t) \o Written(e) = Append(ValuesOf(t), e.n)
    BY <2>2, <2>3, AppendIsConcat
  <2>5. NumbersOf(Append(t, e)) = Append(NumbersOf(t), e.n)
    BY <2>1, NumbersAppend
  <2>6. ValuesOf(Append(t, e)) = NumbersOf(Append(t, e))
    BY <1>2, <2>3, <2>4, <2>5
  <2> QED
    BY <2>1, <2>6
<1> HIDE DEF Good
<1>3. s \in Good
  BY <1>1, <1>2, ListInduction
<1> QED
  BY <1>3 DEF Good
------------------------------------------------------------------------------
(* Sorting entries and sorting numbers *)

LEMMA NumbersOfInserted ==
    ASSUME NEW t \in Seq(Entries), NEW e \in Entries
    PROVE  NumbersOf(Inserted(t, e)) = Plain!Inserted(NumbersOf(t), e.n)
<1>1. /\ Len(t) \in Nat /\ DOMAIN t = 1 .. Len(t) /\ \A i \in 1 .. Len(t) : t[i] \in Entries
  OBVIOUS
<1>2. PICK a : a = NumbersOf(t)
  OBVIOUS
<1>3. a \in Seq(Nat) /\ Len(a) = Len(t) /\ DOMAIN a = 1 .. Len(t)
  BY <1>2, NumbersAppend
<1>4. \A i \in 1 .. Len(t) : a[i] = t[i].n
  BY <1>1, <1>2 DEF NumbersOf
<1>5. PICK k : k = Cardinality({i \in DOMAIN t : t[i].n >= e.n})
  OBVIOUS
<1>6. {i \in DOMAIN a : a[i] >= e.n} = {i \in DOMAIN t : t[i].n >= e.n}
  BY <1>1, <1>3, <1>4
<1>7. k \in 0 .. Len(t)
  <2>1. PICK I, n : I = {i \in DOMAIN t : t[i].n >= e.n} /\ n = Len(t)
    OBVIOUS
  <2>2. I \in SUBSET (1 .. n) /\ n \in Nat
    BY <1>1, <2>1
  <2>3. Cardinality(I) \in 0 .. n
    BY ONLY <2>2, PlaceType
  <2> QED
    BY <1>5, <2>1, <2>3
<1>8. e.n \in Nat
  BY DEF Entries
<1>9. PICK u : u = InsertAt(t, k + 1, e)
  OBVIOUS
<1>10. PICK w : w = InsertAt(a, k + 1, e.n)
  OBVIOUS
<1>11. /\ u \in Seq(Entries) /\ Len(u) = Len(t) + 1 /\ u[k + 1] = e
       /\ \A i \in 1 .. k : u[i] = t[i]
       /\ \A i \in k + 1 .. Len(t) : u[i + 1] = t[i]
  <2>1. IsInsertion(Entries, t, e, k)
    BY <1>7 DEF IsInsertion
  <2> QED
    BY ONLY <1>9, <2>1, InsertAtPlace
<1>12. /\ w \in Seq(Nat) /\ Len(w) = Len(t) + 1 /\ w[k + 1] = e.n
       /\ \A i \in 1 .. k : w[i] = a[i]
       /\ \A i \in k + 1 .. Len(t) : w[i + 1] = a[i]
  <2>1. IsInsertion(Nat, a, e.n, k)
    BY <1>3, <1>7, <1>8 DEF IsInsertion
  <2> QED
    BY ONLY <1>3, <1>10, <2>1, InsertAtPlace
<1>13. ASSUME NEW i \in 1 .. Len(t) + 1
       PROVE  u[i].n = w[i]
  <2>1. i \in 1 .. k \/ i = k + 1 \/ (i - 1 \in k + 1 .. Len(t) /\ i - 1 + 1 = i)
    BY <1>1, <1>7
  <2>2. CASE i \in 1 .. k
    <3>1. i \in 1 .. Len(t)
      BY <1>1, <1>7, <2>2
    <3> QED
      BY <1>4, <1>11, <1>12, <2>2, <3>1
  <2>3. CASE i = k + 1
    BY <1>11, <1>12, <2>3
  <2>4. CASE i - 1 \in k + 1 .. Len(t) /\ i - 1 + 1 = i
    <3>1. i - 1 \in 1 .. Len(t)
      BY <1>1, <1>7, <2>4
    <3>2. u[i] = t[i - 1] /\ w[i] = a[i - 1]
      BY <1>11, <1>12, <2>4
    <3> QED
      BY <1>4, <3>1, <3>2
  <2> QED
    BY <2>1, <2>2, <2>3, <2>4
<1>14. NumbersOf(u) = w
  <2>1. DOMAIN u = 1 .. Len(t) + 1 /\ w = [i \in 1 .. Len(t) + 1 |-> w[i]]
    BY <1>11, <1>12
  <2> QED
    BY <1>13, <2>1 DEF NumbersOf
<1>15. Inserted(t, e) = u
  BY <1>5, <1>9, Zenon DEF Inserted
<1>16. Plain!Inserted(a, e.n) = w
  <2>1. Plain!Inserted(a, e.n) = Plain!InsertAt(a, k + 1, e.n)
    BY <1>5, <1>6, SameCardinality, Zenon DEF Plain!Inserted
  <2> QED
    BY <1>10, <2>1, SameInsertAt, Zenon
<1> QED
  BY <1>2, <1>14, <1>15, <1>16

\* The bits of the sorted entries are the sorted numbers.
LEMMA NumbersOfFalling ==
    ASSUME NEW s \in Seq(Entries)
    PROVE  NumbersOf(Falling(s)) = Plain!Descending(NumbersOf(s))
<1> DEFINE Good == {t \in Seq(Entries) : NumbersOf(Falling(t)) = Plain!Descending(NumbersOf(t))}
<1>1. <<>> \in Good
  <2>1. [zero |-> TRUE, n |-> 1] \in Entries
    BY DEF Entries
  <2>2. <<>> \in Seq(Entries) /\ <<>> \in Seq(Nat) /\ 0 \in Nat
    OBVIOUS
  <2>3. Falling(<<>>) = <<>> /\ NumbersOf(<<>>) = <<>>
    BY <2>1, <2>2, FallingAppend, NumbersAppend
  <2>4. Plain!Descending(<<>>) = <<>>
    BY <2>2, DescendingAppend
  <2> QED
    BY <2>2, <2>3, <2>4
<1>2. ASSUME NEW t \in Seq(Entries), NEW e \in Entries, t \in Good
      PROVE  Append(t, e) \in Good
  <2>1. Falling(t) \in Seq(Entries) /\ Falling(Append(t, e)) = Inserted(Falling(t), e)
    BY FallingAppend
  <2>2. e.n \in Nat
    BY DEF Entries
  <2>3. PICK a, x : a = NumbersOf(t) /\ x = e.n
    OBVIOUS
  <2>4. a \in Seq(Nat) /\ x \in Nat /\ NumbersOf(Append(t, e)) = Append(a, x)
    BY <2>2, <2>3, NumbersAppend
  <2>5. Plain!Descending(Append(a, x)) = Plain!Inserted(Plain!Descending(a), x)
    BY <2>4, DescendingAppend
  <2>6. PICK f : f = Falling(t)
    OBVIOUS
  <2>7. NumbersOf(Inserted(f, e)) = Plain!Inserted(NumbersOf(f), x)
    BY <2>1, <2>3, <2>6, NumbersOfInserted
  <2>8. NumbersOf(f) = Plain!Descending(a)
    BY <1>2, <2>3, <2>6
  <2>9. NumbersOf(Falling(Append(t, e))) = Plain!Descending(NumbersOf(Append(t, e)))
    BY <2>1, <2>4, <2>5, <2>6, <2>7, <2>8, Zenon
  <2>10. Append(t, e) \in Seq(Entries)
    OBVIOUS
  <2> QED
    BY <2>9, <2>10
<1> HIDE DEF Good
<1>3. s \in Good
  BY <1>1, <1>2, ListInduction
<1> QED
  BY <1>3 DEF Good
------------------------------------------------------------------------------
(* The operations of the struct *)

\* What TypeOK says, of any list
IsStrainsVec(v) ==
    /\ v \in [inner : Seq(Entries), len : Nat, has_zero : BOOLEAN]
    /\ \A i \in 1 .. Len(v.inner) - 1 : ~(v.inner[i].zero /\ v.inner[i + 1].zero)
    /\ v.has_zero <=> \E i \in DOMAIN v.inner : v.inner[i].zero

\* A list of values alone is one.
LEMMA NonZerosMakeStrainsVec ==
    ASSUME NEW v, v \in [inner : Seq(NonZeros), len : Nat, has_zero : BOOLEAN], ~v.has_zero
    PROVE  IsStrainsVec(v) /\ IntoVec(v) = NumbersOf(v.inner)
<1>1. NonZeros \subseteq Entries
  BY DEF NonZeros, Entries
<1>2. v.inner \in Seq(NonZeros) /\ v.len \in Nat
  OBVIOUS
<1>3. v.inner \in Seq(Entries)
  BY <1>1, <1>2, SeqMonotonic
<1>4. v \in [inner : Seq(Entries), len : Nat, has_zero : BOOLEAN]
  BY <1>3
<1>5. \A i \in DOMAIN v.inner : ~v.inner[i].zero
  <2>1. \A i \in DOMAIN v.inner : v.inner[i] \in NonZeros
    BY <1>2
  <2> QED
    BY <2>1 DEF NonZeros
<1>6. \A i \in 1 .. Len(v.inner) - 1 : i \in DOMAIN v.inner
  <2>1. PICK n \in Nat : n = Len(v.inner) /\ DOMAIN v.inner = 1 .. n
    BY <1>2
  <2> QED
    BY <2>1
<1>7. IntoVec(v) = NumbersOf(v.inner)
  BY <1>2, ValuesOfNonZeros DEF IntoVec, ValuesOf
<1> QED
  BY <1>4, <1>5, <1>6, <1>7 DEF IsStrainsVec

\* The three cases of push, field by field
LEMMA PushedCases ==
    ASSUME NEW v \in [inner : Seq(Entries), len : Nat, has_zero : BOOLEAN], NEW x \in Nat,
           NEW s, s = v.inner
    PROVE  /\ x > 0 =>
                Pushed(v, x) = [inner |-> Append(s, Entry(FALSE, x)), len |-> v.len + 1,
                                has_zero |-> v.has_zero]
           /\ x = 0 /\ ~(Len(s) > 0 /\ s[Len(s)].zero) =>
                Pushed(v, x) = [inner |-> Append(s, Entry(TRUE, 1)), len |-> v.len + 1,
                                has_zero |-> TRUE]
           /\ x = 0 /\ Len(s) > 0 /\ s[Len(s)].zero =>
                Pushed(v, x) = [inner |-> [s EXCEPT ![Len(s)].n = @ + 1], len |-> v.len + 1,
                                has_zero |-> v.has_zero]
<1>0. PICK l, h : v = [inner |-> s, len |-> l, has_zero |-> h] /\ l = v.len /\ h = v.has_zero
  OBVIOUS
<1>1. v.inner = s /\ v.len = l /\ v.has_zero = h
  BY <1>0
<1>2. x > 0 => Pushed(v, x) = [v EXCEPT !.inner = Append(s, Entry(FALSE, x)), !.len = l + 1]
  BY <1>1 DEF Pushed
<1>3. x = 0 /\ ~(Len(s) > 0 /\ s[Len(s)].zero) =>
        Pushed(v, x)
            = [v EXCEPT !.inner = Append(s, Entry(TRUE, 1)), !.len = l + 1, !.has_zero = TRUE]
  BY <1>1 DEF Pushed
<1>4. x = 0 /\ Len(s) > 0 /\ s[Len(s)].zero =>
        Pushed(v, x)
            = [v EXCEPT !.inner[Len(s)].n = s[Len(s)].n + 1, !.len = l + 1]
  BY <1>1 DEF Pushed
<1>5. [v EXCEPT !.inner[Len(s)].n = s[Len(s)].n + 1, !.len = l + 1]
        = [v EXCEPT !.inner = [s EXCEPT ![Len(s)].n = @ + 1], !.len = l + 1]
  BY <1>1
<1>7. ASSUME NEW r, NEW m, NEW g
      PROVE  /\ [v EXCEPT !.inner = r, !.len = m]
                   = [inner |-> r, len |-> m, has_zero |-> v.has_zero]
             /\ [v EXCEPT !.inner = r, !.len = m, !.has_zero = g]
                   = [inner |-> r, len |-> m, has_zero |-> g]
  <2>1. \A a, b, c, d : [[inner |-> a, len |-> b, has_zero |-> c] EXCEPT !.inner = d]
                          = [inner |-> d, len |-> b, has_zero |-> c]
    OBVIOUS
  <2>2. \A a, b, c, d : [[inner |-> a, len |-> b, has_zero |-> c] EXCEPT !.len = d]
                          = [inner |-> a, len |-> d, has_zero |-> c]
    OBVIOUS
  <2>3. \A a, b, c, d : [[inner |-> a, len |-> b, has_zero |-> c] EXCEPT !.has_zero = d]
                          = [inner |-> a, len |-> b, has_zero |-> d]
    OBVIOUS
  <2>4. PICK w : w = [v EXCEPT !.inner = r]
    OBVIOUS
  <2>5. w = [inner |-> r, len |-> l, has_zero |-> h]
    BY <1>0, <2>1, <2>4
  <2>6. PICK u : u = [w EXCEPT !.len = m]
    OBVIOUS
  <2>7. u = [inner |-> r, len |-> m, has_zero |-> h]
    BY <2>2, <2>5, <2>6
  <2>8. [u EXCEPT !.has_zero = g] = [inner |-> r, len |-> m, has_zero |-> g]
    BY <2>3, <2>7
  <2>9. [v EXCEPT !.inner = r, !.len = m] = u
    BY ONLY <2>4, <2>6
  <2>10. [v EXCEPT !.inner = r, !.len = m, !.has_zero = g] = [u EXCEPT !.has_zero = g]
    BY ONLY <2>4, <2>6
  <2> QED
    BY <1>0, <2>7, <2>8, <2>9, <2>10, Zenon
<1>8. ASSUME x > 0
      PROVE  Pushed(v, x) = [inner |-> Append(s, Entry(FALSE, x)), len |-> l + 1, has_zero |-> h]
  BY <1>0, <1>2, <1>7, <1>8, Zenon
<1>9. ASSUME x = 0, ~(Len(s) > 0 /\ s[Len(s)].zero)
      PROVE  Pushed(v, x) = [inner |-> Append(s, Entry(TRUE, 1)), len |-> l + 1, has_zero |-> TRUE]
  BY <1>3, <1>7, <1>9, Zenon
<1>10. ASSUME x = 0, Len(s) > 0, s[Len(s)].zero
       PROVE  Pushed(v, x) = [inner |-> [s EXCEPT ![Len(s)].n = @ + 1], len |-> l + 1,
                              has_zero |-> h]
  BY <1>0, <1>4, <1>5, <1>7, <1>10, Zenon
<1> QED
  BY <1>0, <1>8, <1>9, <1>10, Zenon

\* push appends a value, and two runs of zeros do not come to lie next to
\* each other.
LEMMA PushedAppends ==
    ASSUME NEW v, IsStrainsVec(v), NEW x \in Nat
    PROVE  IsStrainsVec(Pushed(v, x)) /\ IntoVec(Pushed(v, x)) = Append(IntoVec(v), x)
<1>1. PICK s : s = v.inner
  OBVIOUS
<1>2. /\ s \in Seq(Entries) /\ Len(s) \in Nat /\ DOMAIN s = 1 .. Len(s)
      /\ v.len \in Nat /\ v.has_zero \in BOOLEAN
  BY <1>1 DEF IsStrainsVec
<1>3. /\ \A i \in 1 .. Len(s) - 1 : ~(s[i].zero /\ s[i + 1].zero)
      /\ v.has_zero <=> \E i \in 1 .. Len(s) : s[i].zero
  BY <1>1, <1>2 DEF IsStrainsVec
<1>4. IntoVec(v) = ValuesOf(s)
  BY <1>1 DEF IntoVec, ValuesOf
<1>5. v = [inner |-> s, len |-> v.len, has_zero |-> v.has_zero]
  BY <1>1 DEF IsStrainsVec
<1>12. v \in [inner : Seq(Entries), len : Nat, has_zero : BOOLEAN] /\ x \in Nat
  BY DEF IsStrainsVec
\* an entry of its own
<1>6. ASSUME NEW e \in Entries, NEW flag \in BOOLEAN,
             e.zero => ~(Len(s) > 0 /\ s[Len(s)].zero),
             flag <=> v.has_zero \/ e.zero
      PROVE  LET w == [inner |-> Append(s, e), len |-> v.len + 1, has_zero |-> flag]
             IN  IsStrainsVec(w) /\ IntoVec(w) = ValuesOf(s) \o Written(e)
  <2>1. PICK r : r = Append(s, e)
    OBVIOUS
  <2>2. /\ r \in Seq(Entries) /\ Len(r) = Len(s) + 1 /\ r[Len(s) + 1] = e
        /\ DOMAIN r = 1 .. Len(s) + 1 /\ \A i \in 1 .. Len(s) : r[i] = s[i]
    BY <1>2, <2>1, AppendProperties
  <2>3. ASSUME NEW i \in 1 .. Len(r) - 1
        PROVE  ~(r[i].zero /\ r[i + 1].zero)
    <3>1. CASE i = Len(s)
      BY <1>2, <1>6, <2>2, <3>1
    <3>2. CASE i # Len(s)
      <4>1. i \in 1 .. Len(s) - 1 /\ i \in 1 .. Len(s) /\ i + 1 \in 1 .. Len(s)
        <5>1. PICK n \in Nat : n = Len(s)
          BY <1>2
        <5>2. i \in 1 .. n + 1 - 1 /\ i # n
          BY <2>2, <3>2, <5>1
        <5>3. i \in 1 .. n - 1 /\ i \in 1 .. n /\ i + 1 \in 1 .. n
          BY ONLY <5>1, <5>2
        <5> QED
          BY <5>1, <5>3
      <4> QED
        BY <1>3, <2>2, <4>1
    <3> QED
      BY <3>1, <3>2
  <2>4. flag <=> \E i \in DOMAIN r : r[i].zero
    <3>1. \A i \in DOMAIN r : i \in 1 .. Len(s) \/ i = Len(s) + 1
      BY <1>2, <2>2
    <3>2. \A i \in 1 .. Len(s) : i \in DOMAIN r
      BY <1>2, <2>2
    <3>3. Len(s) + 1 \in DOMAIN r
      BY <1>2, <2>2
    <3> QED
      BY <1>3, <1>6, <2>2, <3>1, <3>2, <3>3
  <2>5. v.len + 1 \in Nat
    BY <1>2
  <2>6. ValuesOf(r) = ValuesOf(s) \o Written(e)
    BY <1>2, <2>1, ValuesAppend
  <2> DEFINE w == [inner |-> r, len |-> v.len + 1, has_zero |-> flag]
  <2>7. IsStrainsVec(w)
    BY <2>2, <2>3, <2>4, <2>5 DEF IsStrainsVec
  <2>8. IntoVec(w) = ValuesOf(r)
    BY DEF IntoVec, ValuesOf
  <2> QED
    BY <2>1, <2>6, <2>7, <2>8
<1>7. ValuesOf(s) \in Seq(Nat) /\ ValuesOf(s) \o <<x>> = Append(ValuesOf(s), x)
  <2>1. [zero |-> TRUE, n |-> 1] \in Entries
    BY DEF Entries
  <2>2. ValuesOf(s) \in Seq(Nat)
    BY <1>2, <2>1, ValuesAppend
  <2> QED
    BY <2>2, AppendIsConcat
<1>8. CASE x > 0
  <2>1. Entry(FALSE, x) \in Entries /\ Written(Entry(FALSE, x)) = <<x>>
    BY <1>8 DEF Entry, Entries, Written
  <2>2. ~Entry(FALSE, x).zero
    BY DEF Entry
  <2>3. Pushed(v, x)
            = [inner |-> Append(s, Entry(FALSE, x)), len |-> v.len + 1, has_zero |-> v.has_zero]
    BY ONLY <1>1, <1>8, <1>12, PushedCases
  <2> QED
    BY <1>2, <1>4, <1>6, <1>7, <2>1, <2>2, <2>3
<1>9. CASE x = 0 /\ ~(Len(s) > 0 /\ s[Len(s)].zero)
  <2>1. Entry(TRUE, 1) \in Entries /\ Written(Entry(TRUE, 1)) = <<0>> /\ Entry(TRUE, 1).zero
    BY DEF Entry, Entries, Written
  <2>2. Pushed(v, x) = [inner |-> Append(s, Entry(TRUE, 1)), len |-> v.len + 1, has_zero |-> TRUE]
    BY ONLY <1>1, <1>9, <1>12, PushedCases
  <2> QED
    BY <1>4, <1>6, <1>7, <1>9, <2>1, <2>2
<1>10. CASE x = 0 /\ Len(s) > 0 /\ s[Len(s)].zero
  <2>1. s # <<>>
    BY <1>10
  <2>2. PICK f \in Seq(Entries), e \in Entries : s = Append(f, e) /\ Len(f) = Len(s) - 1
    BY <1>2, <2>1, FrontAndLast
  <2>3. e.zero /\ e.n \in Nat \ {0} /\ e = s[Len(s)]
    BY <1>2, <1>10, <2>2 DEF Entries
  <2>4. PICK m : m = [e EXCEPT !.n = @ + 1]
    OBVIOUS
  <2>5. m \in Entries /\ m.zero /\ m.n = e.n + 1
    BY <2>3, <2>4 DEF Entries
  <2>6. PICK r : r = [s EXCEPT ![Len(s)].n = @ + 1]
    OBVIOUS
  <2>7. /\ r \in Seq(Entries) /\ Len(r) = Len(s) /\ r[Len(s)] = m
        /\ \A i \in 1 .. Len(s) - 1 : r[i] = s[i]
    <3>1. r = [s EXCEPT ![Len(s)] = m]
      BY <1>2, <1>10, <2>3, <2>4, <2>6
    <3>2. Len(s) \in 1 .. Len(s)
      BY <1>2, <1>10
    <3>3. \A n \in Nat : \A i \in 1 .. n - 1 : i \in 1 .. n /\ i # n
      OBVIOUS
    <3>4. \A i \in 1 .. Len(s) - 1 : i \in 1 .. Len(s) /\ i # Len(s)
      BY ONLY <1>2, <3>3, Zenon
    <3>5. r \in Seq(Entries) /\ Len(r) = Len(s)
      BY <1>2, <2>5, <3>1, <3>2
    <3> QED
      BY <1>2, <3>1, <3>2, <3>4, <3>5
  <2>8. r = Append(f, m)
    <3>1. \A i \in 1 .. Len(s) - 1 : r[i] = f[i]
      BY <2>2, <2>7
    <3>2. Append(f, m) \in Seq(Entries) /\ Len(Append(f, m)) = Len(s)
      BY <1>2, <2>2, <2>5
    <3>3. \A i \in 1 .. Len(s) : r[i] = Append(f, m)[i]
      BY <1>2, <2>2, <2>7, <3>1
    <3> QED
      BY <2>7, <3>2, <3>3, SeqEqual
  <2>9. ValuesOf(r) = Append(ValuesOf(s), 0)
    <3>1. ValuesOf(s) = ValuesOf(f) \o Written(e) /\ ValuesOf(r) = ValuesOf(f) \o Written(m)
          /\ ValuesOf(f) \in Seq(Nat)
      BY <2>2, <2>5, <2>8, ValuesAppend
    <3>2. Written(e) = ZerosOf(e.n) /\ Written(m) = ZerosOf(e.n + 1)
      BY <2>3, <2>5 DEF Written, ZerosOf
    <3>3. PICK l \in Seq(Nat), k \in Nat : l = ValuesOf(f) /\ k = e.n
      BY <2>3, <3>1
    <3>4. l \o ZerosOf(k + 1) = Append(l \o ZerosOf(k), 0)
      BY ONLY <3>3, ZerosMore
    <3> QED
      BY <3>1, <3>2, <3>3, <3>4, Zenon
  <2>10. \A i \in 1 .. Len(s) : r[i].zero <=> s[i].zero
    <3>0. \A n \in Nat : \A i \in 1 .. n : i \in 1 .. n - 1 \/ i = n
      OBVIOUS
    <3>1. \A i \in 1 .. Len(s) : i \in 1 .. Len(s) - 1 \/ i = Len(s)
      BY ONLY <1>2, <3>0, Zenon
    <3> QED
      BY <2>3, <2>5, <2>7, <3>1
  <2>11. Pushed(v, x) = [inner |-> r, len |-> v.len + 1, has_zero |-> v.has_zero]
    BY ONLY <1>1, <1>10, <1>12, <2>6, PushedCases
  <2> DEFINE w == [inner |-> r, len |-> v.len + 1, has_zero |-> v.has_zero]
  <2>12. \A i \in 1 .. Len(r) - 1 : ~(r[i].zero /\ r[i + 1].zero)
    <3>1. \A i \in 1 .. Len(s) - 1 : i \in 1 .. Len(s) /\ i + 1 \in 1 .. Len(s)
      BY <1>2
    <3> QED
      BY <1>3, <2>7, <2>10, <3>1
  <2>13. v.has_zero <=> \E i \in DOMAIN r : r[i].zero
    <3>1. DOMAIN r = 1 .. Len(s)
      BY <1>2, <2>7
    <3> QED
      BY <1>3, <2>10, <3>1
  <2>14. IsStrainsVec(w)
    <3>1. v.len + 1 \in Nat
      BY <1>2
    <3> QED
      BY <1>2, <2>7, <2>12, <2>13, <3>1 DEF IsStrainsVec
  <2>15. IntoVec(w) = ValuesOf(r)
    BY DEF IntoVec, ValuesOf
  <2> QED
    BY <1>4, <1>10, <2>9, <2>11, <2>14, <2>15
<1>11. x > 0 \/ x = 0
  OBVIOUS
<1> QED
  BY <1>8, <1>9, <1>10, <1>11

\* A list of values alone: its type is OnlyValues.
OnlyValues == [inner : Seq(NonZeros), len : Nat, has_zero : {FALSE}]

LEMMA OnlyValuesType ==
    ASSUME NEW v \in OnlyValues
    PROVE  /\ IsStrainsVec(v) /\ IntoVec(v) = NumbersOf(v.inner)
           /\ v.inner \in Seq(NonZeros) /\ v.inner \in Seq(Entries)
<1>1. v \in [inner : Seq(NonZeros), len : Nat, has_zero : BOOLEAN] /\ ~v.has_zero
  BY DEF OnlyValues
<1>2. v.inner \in Seq(NonZeros)
  BY DEF OnlyValues
<1>3. IsStrainsVec(v) /\ IntoVec(v) = NumbersOf(v.inner)
  BY ONLY <1>1, NonZerosMakeStrainsVec
<1> QED
  BY <1>2, <1>3 DEF IsStrainsVec

\* A list whose flag is not set has values alone.
LEMMA FlagDown ==
    ASSUME NEW v, IsStrainsVec(v), ~v.has_zero
    PROVE  v \in OnlyValues
<1>1. v.inner \in Seq(Entries) /\ v.len \in Nat /\ v.has_zero = FALSE
  BY DEF IsStrainsVec
<1>2. ASSUME NEW i \in 1 .. Len(v.inner)
      PROVE  v.inner[i] \in NonZeros
  <2>1. v.inner[i] \in Entries /\ ~v.inner[i].zero
    BY <1>1 DEF IsStrainsVec
  <2> QED
    BY <2>1 DEF Entries, NonZeros
<1>3. v.inner \in Seq(NonZeros)
  <2>1. Len(v.inner) \in Nat /\ v.inner = [i \in 1 .. Len(v.inner) |-> v.inner[i]]
    BY <1>1
  <2> QED
    BY <1>2, <2>1
<1> QED
  BY <1>1, <1>3 DEF IsStrainsVec, OnlyValues

\* retain_non_zero removes the zeros of the plain list.
LEMMA WithoutZerosRetains ==
    ASSUME NEW v, IsStrainsVec(v)
    PROVE  WithoutZeros(v) \in OnlyValues /\ IntoVec(WithoutZeros(v)) = Plain!NonZero(IntoVec(v))
<1>1. PICK s, l, h : v = [inner |-> s, len |-> l, has_zero |-> h] /\ s = v.inner
                     /\ s \in Seq(Entries) /\ l \in Nat /\ h \in BOOLEAN
  BY DEF IsStrainsVec
<1>2. PICK r, g : r = RetainedOf(s) /\ g = FALSE
  OBVIOUS
<1>3. WithoutZeros(v) = [v EXCEPT !.inner = r, !.has_zero = g]
  BY <1>1, <1>2 DEF WithoutZeros, RetainedOf
<1>4. WithoutZeros(v) = [inner |-> r, len |-> l, has_zero |-> g]
  <2>1. \A a, b, c, d : [[inner |-> a, len |-> b, has_zero |-> c] EXCEPT !.inner = d]
                          = [inner |-> d, len |-> b, has_zero |-> c]
    OBVIOUS
  <2>2. \A a, b, c, d : [[inner |-> a, len |-> b, has_zero |-> c] EXCEPT !.has_zero = d]
                          = [inner |-> a, len |-> b, has_zero |-> d]
    OBVIOUS
  <2>3. PICK w : w = [v EXCEPT !.inner = r]
    OBVIOUS
  <2>4. w = [inner |-> r, len |-> l, has_zero |-> h]
    BY <1>1, <2>1, <2>3
  <2>5. [w EXCEPT !.has_zero = g] = [inner |-> r, len |-> l, has_zero |-> g]
    BY <2>2, <2>4
  <2>6. [v EXCEPT !.inner = r, !.has_zero = g] = [w EXCEPT !.has_zero = g]
    BY ONLY <2>3
  <2> QED
    BY <1>3, <2>5, <2>6, Zenon
<1>5. PICK e \in Entries : TRUE
  <2>1. [zero |-> TRUE, n |-> 1] \in Entries
    BY DEF Entries
  <2> QED
    BY <2>1
<1>6. r \in Seq(NonZeros)
  BY <1>1, <1>2, <1>5, RetainedAppend
<1>7. WithoutZeros(v) \in OnlyValues
  <2>1. g \in {FALSE} /\ l \in Nat
    BY <1>1, <1>2
  <2> QED
    BY ONLY <1>4, <1>6, <2>1 DEF OnlyValues
<1>8. IntoVec(v) = ValuesOf(s)
  BY <1>1 DEF IntoVec, ValuesOf
<1>9. IntoVec(WithoutZeros(v)) = ValuesOf(r)
  BY <1>4 DEF IntoVec, ValuesOf
<1>10. ValuesOf(r) = Plain!NonZero(ValuesOf(s))
  BY <1>1, <1>2, ValuesOfRetained
<1> QED
  BY <1>7, <1>8, <1>9, <1>10

\* sort_desc sorts the plain list.
LEMMA SortedFalls ==
    ASSUME NEW v \in OnlyValues
    PROVE  Sorted(v) \in OnlyValues /\ IntoVec(Sorted(v)) = Plain!Descending(IntoVec(v))
<1>1. /\ v.inner \in Seq(NonZeros) /\ v.inner \in Seq(Entries)
      /\ IntoVec(v) = NumbersOf(v.inner)
  BY OnlyValuesType
<1>2. PICK f : f = Falling(v.inner)
  OBVIOUS
<1>3. f \in Seq(NonZeros)
  <2>1. [zero |-> FALSE, n |-> 1] \in NonZeros
    BY DEF NonZeros
  <2> QED
    BY <1>1, <1>2, <2>1, FallingAppend
<1>4. Sorted(v) = [v EXCEPT !.inner = f]
  BY <1>2 DEF Sorted
<1>5. Sorted(v) \in OnlyValues /\ Sorted(v).inner = f
  BY <1>3, <1>4 DEF OnlyValues
<1>6. IntoVec(Sorted(v)) = NumbersOf(f)
  BY <1>5, OnlyValuesType
<1> QED
  BY <1>1, <1>2, <1>5, <1>6, NumbersOfFalling

------------------------------------------------------------------------------
(* What a sorted list holds *)

HowOften(x, list) == Cardinality({i \in DOMAIN list : list[i] = x})

Falls(list) == \A i, j \in DOMAIN list : i < j => list[i] >= list[j]

\* The same elements, each as often; the two lists may differ in their zeros.
SameBut0(a, b) == \A x \in Nat \ {0} : HowOften(x, a) = HowOften(x, b)

LEMMA CountedAppend ==
    ASSUME NEW X, NEW s \in Seq(X), NEW e \in X, NEW x
    PROVE  /\ HowOften(x, s) \in Nat
           /\ HowOften(x, Append(s, e)) = IF e = x THEN HowOften(x, s) + 1 ELSE HowOften(x, s)
<1>1. PICK r : r = Append(s, e)
  OBVIOUS
<1>2. /\ Len(s) \in Nat /\ DOMAIN s = 1 .. Len(s)
      /\ DOMAIN r = 1 .. Len(s) + 1 /\ r[Len(s) + 1] = e
      /\ \A i \in 1 .. Len(s) : r[i] = s[i]
  BY <1>1, AppendProperties
<1> DEFINE A == {i \in 1 .. Len(s) : s[i] = x}
           B == {i \in 1 .. Len(s) + 1 : r[i] = x}
<1>3. IsFiniteSet(A) /\ Cardinality(A) \in Nat
  <2>1. IsFiniteSet(1 .. Len(s)) /\ A \in SUBSET (1 .. Len(s))
    BY <1>2, FS_Interval
  <2> QED
    BY <2>1, FS_Subset, FS_CardinalityType
<1>4. Len(s) + 1 \notin A
  BY <1>2
<1>5. B = IF e = x THEN A \cup {Len(s) + 1} ELSE A
  BY <1>2
<1>6. Cardinality(A \cup {Len(s) + 1}) = Cardinality(A) + 1
  BY <1>3, <1>4, FS_AddElement
<1>7. HowOften(x, s) = Cardinality(A) /\ HowOften(x, r) = Cardinality(B)
  BY <1>2 DEF HowOften
<1> QED
  BY <1>1, <1>3, <1>5, <1>6, <1>7

LEMMA CountedInsertion ==
    ASSUME NEW X, NEW s, NEW e, NEW k, IsInsertion(X, s, e, k), NEW x
    PROVE  HowOften(x, InsertAt(s, k + 1, e))
             = IF e = x THEN HowOften(x, s) + 1 ELSE HowOften(x, s)
<1>1. PICK r : r = InsertAt(s, k + 1, e)
  OBVIOUS
<1>2. PICK n \in Nat : n = Len(s) /\ DOMAIN s = 1 .. n /\ k \in 0 .. n
  BY DEF IsInsertion
<1>3. /\ DOMAIN r = 1 .. n + 1 /\ r[k + 1] = e
      /\ \A i \in 1 .. k : r[i] = s[i]
      /\ \A i \in k + 1 .. n : r[i + 1] = s[i]
  BY <1>1, <1>2, InsertAtPlace
<1> DEFINE A == {i \in 1 .. n : s[i] = x}
           B == {i \in (1 .. n + 1) \ {k + 1} : r[i] = x}
           C == {i \in 1 .. n + 1 : r[i] = x}
           g == [i \in A |-> IF i <= k THEN i ELSE i + 1]
<1>4. IsFiniteSet(A)
  <2>1. IsFiniteSet(1 .. n) /\ A \in SUBSET (1 .. n)
    BY <1>2, FS_Interval
  <2> QED
    BY <2>1, FS_Subset
<1>5. g \in Bijection(A, B)
  <2>1. g \in [A -> B]
    <3>1. ASSUME NEW i \in A
          PROVE  g[i] \in B
      <4>1. CASE i <= k
        BY <1>2, <1>3, <4>1
      <4>2. CASE ~(i <= k)
        <5>1. i \in k + 1 .. n /\ i + 1 \in 1 .. n + 1 /\ i + 1 # k + 1
          BY <1>2, <4>2
        <5> QED
          BY <1>3, <4>2, <5>1
      <4> QED
        BY <4>1, <4>2
    <3> QED
      BY <3>1
  <2>2. \A i, j \in A : g[i] = g[j] => i = j
    BY <1>2
  <2>3. ASSUME NEW b \in B
        PROVE  \E a \in A : g[a] = b
    <3>1. CASE b <= k
      <4>1. b \in A /\ g[b] = b
        BY <1>2, <1>3, <3>1
      <4> QED
        BY <4>1
    <3>2. CASE ~(b <= k)
      <4>1. b - 1 \in k + 1 .. n /\ b - 1 \in 1 .. n /\ (b - 1) + 1 = b /\ ~(b - 1 <= k)
        BY <1>2, <3>2
      <4>2. s[b - 1] = x
        BY <1>3, <4>1
      <4>3. b - 1 \in A /\ g[b - 1] = b
        BY <4>1, <4>2
      <4> QED
        BY <4>3
    <3> QED
      BY <3>1, <3>2
  <2> HIDE DEF A, B, g
  <2> QED
    BY <2>1, <2>2, <2>3 DEF Bijection, Injection, Surjection, IsInjective
<1>6. IsFiniteSet(B) /\ Cardinality(B) = Cardinality(A)
  <2>1. ExistsBijection(A, B)
    BY <1>5 DEF ExistsBijection
  <2> HIDE DEF A, B
  <2> QED
    BY <1>4, <2>1, FS_Bijection
<1>7. C = IF e = x THEN B \cup {k + 1} ELSE B
  BY <1>2, <1>3
<1>8. Cardinality(B \cup {k + 1}) = Cardinality(B) + 1
  <2>1. k + 1 \notin B
    OBVIOUS
  <2> HIDE DEF B
  <2> QED
    BY <1>6, <2>1, FS_AddElement
<1>9. HowOften(x, s) = Cardinality(A) /\ HowOften(x, r) = Cardinality(C)
  BY <1>2, <1>3 DEF HowOften
<1> QED
  BY <1>1, <1>6, <1>7, <1>8, <1>9

\* In a list that falls, the elements that are not lower than e come first.
LEMMA PlaceInFalling ==
    ASSUME NEW s \in Seq(Nat), Falls(s), NEW e \in Nat, NEW k,
           k = Cardinality({i \in DOMAIN s : s[i] >= e})
    PROVE  /\ k \in 0 .. Len(s)
           /\ \A i \in 1 .. k : s[i] >= e
           /\ \A i \in k + 1 .. Len(s) : s[i] < e
<1>1. PICK n \in Nat : n = Len(s) /\ DOMAIN s = 1 .. n
  OBVIOUS
<1>2. \A i \in 1 .. n : s[i] \in Nat
  BY <1>1
<1> DEFINE S == {i \in 1 .. n : s[i] >= e}
           U == (1 .. n + 1) \ S
<1>3. PICK u \in U : \A m \in U : u <= m
  <2>1. U \in SUBSET Nat /\ n + 1 \in U
    OBVIOUS
  <2> HIDE DEF U
  <2> QED
    BY <2>1, LeastNatural
<1>4. u \in 1 .. n + 1 /\ u \notin S
  OBVIOUS
<1>5. S = 1 .. u - 1
  <2>1. ASSUME NEW i \in 1 .. u - 1
        PROVE  i \in S
    <3>1. i \in 1 .. n + 1 /\ ~(u <= i)
      BY <1>4
    <3> QED
      BY <1>3, <3>1
  <2>2. ASSUME NEW i \in S, i \notin 1 .. u - 1
        PROVE  FALSE
    <3>1. u \in 1 .. n /\ i \in 1 .. n /\ u <= i /\ s[i] >= e
      BY <1>4, <2>2
    <3>2. s[u] >= s[i]
      <4>1. u = i \/ u < i
        BY <3>1
      <4> QED
        BY <1>1, <1>2, <3>1, <4>1 DEF Falls
    <3>3. s[u] >= e
      BY <1>2, <3>1, <3>2
    <3> QED
      BY <1>4, <3>1, <3>3
  <2> HIDE DEF S
  <2> QED
    BY <2>1, <2>2
<1>6. k = u - 1
  <2>1. k = Cardinality(S)
    BY <1>1
  <2>2. Cardinality(1 .. u - 1) = u - 1
    BY <1>4, FS_Interval
  <2> QED
    BY <1>5, <2>1, <2>2
<1>7. \A i \in 1 .. n : s[i] < e \/ i \in S
  BY <1>2
<1>8. k \in 0 .. n /\ 1 .. k = S /\ \A i \in k + 1 .. n : i \in 1 .. n /\ i \notin 1 .. k
  <2>1. u \in 1 .. n + 1
    BY <1>4
  <2> HIDE DEF S, U
  <2>2. k \in 0 .. n /\ 1 .. k = 1 .. u - 1
    BY <1>6, <2>1
  <2>3. \A i \in k + 1 .. n : i \in 1 .. n /\ i \notin 1 .. k
    BY <2>2
  <2> QED
    BY <1>5, <2>2, <2>3
<1> QED
  BY <1>1, <1>7, <1>8

\* The sorted list falls and holds what the list held.
LEMMA DescendingFalls ==
    ASSUME NEW s \in Seq(Nat)
    PROVE  Falls(Plain!Descending(s)) /\ SameBut0(Plain!Descending(s), s)
<1> DEFINE Good == {t \in Seq(Nat) : Falls(Plain!Descending(t))
                                     /\ SameBut0(Plain!Descending(t), t)}
<1>1. <<>> \in Good
  <2>1. <<>> \in Seq(Nat) /\ 0 \in Nat
    OBVIOUS
  <2>2. Plain!Descending(<<>>) = <<>>
    BY <2>1, DescendingAppend
  <2>3. Falls(<<>>)
    BY DEF Falls
  <2> QED
    BY <2>1, <2>2, <2>3 DEF SameBut0
<1>2. ASSUME NEW t \in Seq(Nat), NEW e \in Nat, t \in Good
      PROVE  Append(t, e) \in Good
  <2>1. PICK d : d = Plain!Descending(t)
    OBVIOUS
  <2>2. d \in Seq(Nat) /\ Plain!Descending(Append(t, e)) = Plain!Inserted(d, e)
    BY <2>1, DescendingAppend
  <2>3. Falls(d) /\ SameBut0(d, t)
    BY <1>2, <2>1
  <2>4. PICK k : k = Cardinality({i \in DOMAIN d : d[i] >= e})
    OBVIOUS
  <2>5. Plain!Inserted(d, e) = InsertAt(d, k + 1, e)
    BY <2>4, SameCardinality, SameInsertAt DEF Plain!Inserted
  <2>6. /\ k \in 0 .. Len(d)
        /\ \A i \in 1 .. k : d[i] >= e
        /\ \A i \in k + 1 .. Len(d) : d[i] < e
    BY <2>2, <2>3, <2>4, PlaceInFalling
  <2>7. IsInsertion(Nat, d, e, k)
    BY <2>2, <2>6 DEF IsInsertion
  <2>8. PICK n \in Nat : n = Len(d) /\ DOMAIN d = 1 .. n
    BY <2>2
  <2>9. PICK r : r = InsertAt(d, k + 1, e)
    OBVIOUS
  <2>10. /\ r \in Seq(Nat) /\ DOMAIN r = 1 .. n + 1 /\ r[k + 1] = e
         /\ \A i \in 1 .. k : r[i] = d[i]
         /\ \A i \in k + 1 .. n : r[i + 1] = d[i]
    BY <2>7, <2>8, <2>9, InsertAtPlace
  <2>11. \A i \in 1 .. n : d[i] \in Nat
    BY <2>2, <2>8
  <2>12. ASSUME NEW i \in 1 .. n + 1, NEW j \in 1 .. n + 1, i < j
         PROVE  r[i] >= r[j]
    <3>0. k \in 0 .. n /\ k \in Nat
      BY <2>6, <2>8
    <3>1. CASE j <= k
      <4>1. i \in 1 .. k /\ j \in 1 .. k /\ i \in 1 .. n /\ j \in 1 .. n
        BY <2>12, <3>0, <3>1
      <4> QED
        BY <2>3, <2>8, <2>10, <2>12, <4>1 DEF Falls
    <3>2. CASE j = k + 1
      <4>1. i \in 1 .. k
        BY <2>12, <3>0, <3>2
      <4> QED
        BY <2>6, <2>10, <3>2, <4>1
    <3>3. CASE j > k + 1
      <4>1. j - 1 \in k + 1 .. n /\ j - 1 \in 1 .. n /\ (j - 1) + 1 = j
        BY <3>0, <3>3
      <4>2. r[j] = d[j - 1] /\ d[j - 1] < e
        BY <2>6, <2>8, <2>10, <4>1
      <4>3. CASE i <= k
        <5>1. i \in 1 .. k /\ i \in 1 .. n /\ i < j - 1
          BY <3>0, <3>3, <4>3
        <5> QED
          BY <2>3, <2>8, <2>10, <4>1, <4>2, <5>1 DEF Falls
      <4>4. CASE i = k + 1
        BY <2>10, <2>11, <4>1, <4>2, <4>4
      <4>5. CASE i > k + 1
        <5>1. /\ i - 1 \in k + 1 .. n /\ i - 1 \in 1 .. n /\ (i - 1) + 1 = i
              /\ i - 1 < j - 1
          BY <2>12, <3>0, <4>5
        <5>2. r[i] = d[i - 1]
          BY <2>10, <5>1
        <5> QED
          BY <2>3, <2>8, <4>1, <4>2, <5>1, <5>2 DEF Falls
      <4> QED
        BY <3>0, <4>3, <4>4, <4>5
    <3> QED
      BY <3>0, <3>1, <3>2, <3>3
  <2>13. Falls(r)
    BY <2>10, <2>12 DEF Falls
  <2>14. SameBut0(r, Append(t, e))
    <3>1. ASSUME NEW x \in Nat \ {0}
          PROVE  HowOften(x, r) = HowOften(x, Append(t, e))
      <4>1. HowOften(x, r) = IF e = x THEN HowOften(x, d) + 1 ELSE HowOften(x, d)
        BY <2>7, <2>9, CountedInsertion
      <4>2. HowOften(x, Append(t, e)) = IF e = x THEN HowOften(x, t) + 1 ELSE HowOften(x, t)
        BY CountedAppend
      <4>3. HowOften(x, d) = HowOften(x, t)
        BY <2>3 DEF SameBut0
      <4> QED
        BY <4>1, <4>2, <4>3
    <3> QED
      BY <3>1 DEF SameBut0
  <2>15. Append(t, e) \in Seq(Nat)
    OBVIOUS
  <2> QED
    BY <2>2, <2>5, <2>9, <2>13, <2>14, <2>15
<1>3. s \in Good
  <2> HIDE DEF Good
  <2> QED
    BY <1>1, <1>2, ListInduction
<1> QED
  BY <1>3

\* Removing the zeros removes nothing else.
LEMMA NonZeroKeeps ==
    ASSUME NEW s \in Seq(Nat)
    PROVE  SameBut0(Plain!NonZero(s), s)
<1> DEFINE Good == {t \in Seq(Nat) : SameBut0(Plain!NonZero(t), t)}
<1>1. <<>> \in Good
  <2>1. <<>> \in Seq(Nat) /\ 0 \in Nat
    OBVIOUS
  <2>2. Plain!NonZero(<<>>) = <<>>
    BY <2>1, NonZeroAppend
  <2> QED
    BY <2>1, <2>2 DEF SameBut0
<1>2. ASSUME NEW t \in Seq(Nat), NEW e \in Nat, t \in Good
      PROVE  Append(t, e) \in Good
  <2>1. PICK d : d = Plain!NonZero(t)
    OBVIOUS
  <2>2. /\ d \in Seq(Nat \ {0})
        /\ Plain!NonZero(Append(t, e)) = IF e > 0 THEN Append(d, e) ELSE d
    BY <2>1, NonZeroAppend
  <2>3. SameBut0(d, t)
    BY <1>2, <2>1
  <2>4. ASSUME NEW x \in Nat \ {0}
        PROVE  HowOften(x, Plain!NonZero(Append(t, e))) = HowOften(x, Append(t, e))
    <3>1. HowOften(x, Append(t, e)) = IF e = x THEN HowOften(x, t) + 1 ELSE HowOften(x, t)
      BY CountedAppend
    <3>2. HowOften(x, d) = HowOften(x, t)
      BY <2>3 DEF SameBut0
    <3>3. CASE e > 0
      <4>1. e \in Nat \ {0}
        BY <3>3
      <4>2. HowOften(x, Append(d, e)) = IF e = x THEN HowOften(x, d) + 1 ELSE HowOften(x, d)
        <5>1. PICK X : X = Nat \ {0}
          OBVIOUS
        <5>2. d \in Seq(X) /\ e \in X
          BY <2>2, <4>1, <5>1
        <5> QED
          BY <5>2, CountedAppend
      <4> QED
        BY <2>2, <3>1, <3>2, <3>3, <4>2
    <3>4. CASE ~(e > 0)
      <4>1. e # x
        BY <3>4
      <4> QED
        BY <2>2, <3>1, <3>2, <3>4, <4>1
    <3> QED
      BY <3>3, <3>4
  <2>5. Append(t, e) \in Seq(Nat)
    OBVIOUS
  <2> QED
    BY <2>4, <2>5 DEF SameBut0
<1>3. s \in Good
  <2> HIDE DEF Good
  <2> QED
    BY <1>1, <1>2, ListInduction
<1> QED
  BY <1>3

\* What is ranked: the values that are not 0, each as often as it was pushed,
\* the highest first.
Ranked(v) == TransmuteIntoVec(Sorted(WithoutZeros(v)))

LEMMA RankedFalls ==
    ASSUME NEW v, IsStrainsVec(v)
    PROVE  Ranked(v) \in Seq(Nat \ {0}) /\ Falls(Ranked(v)) /\ SameBut0(Ranked(v), IntoVec(v))
<1>1. PICK w, u : w = WithoutZeros(v) /\ u = Sorted(w)
  OBVIOUS
<1>2. w \in OnlyValues /\ IntoVec(w) = Plain!NonZero(IntoVec(v))
  BY <1>1, WithoutZerosRetains
<1>3. u \in OnlyValues /\ IntoVec(u) = Plain!Descending(IntoVec(w))
  BY <1>1, <1>2, SortedFalls
<1>4. u.inner \in Seq(NonZeros) /\ IntoVec(u) = NumbersOf(u.inner)
  BY <1>3, OnlyValuesType
<1>5. Ranked(v) = NumbersOf(u.inner)
  BY <1>1 DEF Ranked, TransmuteIntoVec, NumbersOf
<1>6. Ranked(v) \in Seq(Nat \ {0})
  <2>1. \A e \in NonZeros : e.n \in Nat \ {0}
    BY DEF NonZeros
  <2>2. PICK n \in Nat : DOMAIN u.inner = 1 .. n /\ \A i \in 1 .. n : u.inner[i] \in NonZeros
    <3>1. Len(u.inner) \in Nat /\ DOMAIN u.inner = 1 .. Len(u.inner)
          /\ \A i \in 1 .. Len(u.inner) : u.inner[i] \in NonZeros
      BY <1>4
    <3> QED
      BY <3>1
  <2> QED
    BY <1>5, <2>1, <2>2 DEF NumbersOf
<1>7. PICK a, b, c : a = IntoVec(v) /\ b = Plain!NonZero(a) /\ c = Plain!Descending(b)
  OBVIOUS
<1>8. a \in Seq(Nat)
  <2>1. v.inner \in Seq(Entries)
    BY DEF IsStrainsVec
  <2>2. PICK e : e \in Entries
    <3>1. [zero |-> TRUE, n |-> 1] \in Entries
      BY DEF Entries
    <3> QED
      BY <3>1
  <2> QED
    BY <1>7, <2>1, <2>2, ValuesAppend DEF IntoVec, ValuesOf
<1>9. b \in Seq(Nat) /\ SameBut0(b, a)
  <2>1. b \in Seq(Nat \ {0})
    <3>1. 0 \in Nat
      OBVIOUS
    <3> QED
      BY <1>7, <1>8, <3>1, NonZeroAppend
  <2> QED
    BY <1>7, <1>8, <2>1, NonZeroKeeps
<1>10. Falls(c) /\ SameBut0(c, b)
  BY <1>7, <1>9, DescendingFalls
<1>11. SameBut0(c, a)
  BY <1>9, <1>10 DEF SameBut0
<1> QED
  BY <1>2, <1>3, <1>4, <1>5, <1>6, <1>7, <1>10, <1>11

------------------------------------------------------------------------------
(* The specification *)

LEMMA TypeOKSays == TypeOK <=> IsStrainsVec(vec)
BY DEF TypeOK, Compact, FlagTellsZeros, IsStrainsVec, Entries

LEMMA InitStep == Init => TypeOK /\ Plain!Init
<1> SUFFICES ASSUME Init
             PROVE  IsStrainsVec(vec) /\ IntoVec(vec) = <<>>
  BY TypeOKSays DEF Plain!Init
<1>1. vec = [inner |-> <<>>, len |-> 0, has_zero |-> FALSE]
  BY DEF Init, Empty
<1>2. vec \in OnlyValues
  BY <1>1 DEF OnlyValues
<1>3. IsStrainsVec(vec) /\ IntoVec(vec) = NumbersOf(<<>>)
  BY <1>1, <1>2, OnlyValuesType
<1>4. NumbersOf(<<>>) = <<>>
  BY DEF NumbersOf
<1> QED
  BY <1>3, <1>4

LEMMA NextStep == TypeOK /\ [Next]_vec => TypeOK' /\ [Plain!Next]_(IntoVec(vec))
<1> SUFFICES ASSUME TypeOK, [Next]_vec
             PROVE  IsStrainsVec(vec') /\ [Plain!Next]_(IntoVec(vec))
  BY TypeOKSays DEF TypeOK, Compact, FlagTellsZeros, IsStrainsVec, Entries
<1>1. IsStrainsVec(vec)
  BY TypeOKSays
<1>2. IntoVec(vec)' = IntoVec(vec')
  BY DEF IntoVec
<1>3. ASSUME NEW x \in Values, Push(x)
      PROVE  IsStrainsVec(vec') /\ Plain!Push(x)
  <2>1. x \in Nat /\ vec' = Pushed(vec, x)
    BY <1>3, ValuesAssumption DEF Push
  <2>2. IsStrainsVec(vec') /\ IntoVec(vec') = Append(IntoVec(vec), x)
    BY <1>1, <2>1, PushedAppends
  <2> QED
    BY <1>2, <2>2 DEF Plain!Push
<1>4. CASE RetainNonZero
  <2>1. vec' \in OnlyValues /\ IntoVec(vec') = Plain!NonZero(IntoVec(vec))
    BY <1>1, <1>4, WithoutZerosRetains DEF RetainNonZero
  <2>2. IsStrainsVec(vec')
    BY <2>1, OnlyValuesType
  <2> QED
    BY <1>2, <2>1, <2>2 DEF Plain!Next, Plain!RetainNonZero
<1>5. CASE SortDesc
  <2>1. vec \in OnlyValues
    BY <1>1, <1>5, FlagDown DEF SortDesc
  <2>2. vec' \in OnlyValues /\ IntoVec(vec') = Plain!Descending(IntoVec(vec))
    BY <1>5, <2>1, SortedFalls DEF SortDesc
  <2>3. IsStrainsVec(vec')
    BY <2>2, OnlyValuesType
  <2> QED
    BY <1>2, <2>2, <2>3 DEF Plain!Next, Plain!SortDesc
<1>6. CASE RetainNonZeroAndSort
  <2>1. PICK w : w = WithoutZeros(vec)
    OBVIOUS
  <2>2. w \in OnlyValues /\ IntoVec(w) = Plain!NonZero(IntoVec(vec))
    BY <1>1, <2>1, WithoutZerosRetains
  <2>3. vec' = Sorted(w)
    BY <1>6, <2>1 DEF RetainNonZeroAndSort
  <2>4. vec' \in OnlyValues /\ IntoVec(vec') = Plain!Descending(IntoVec(w))
    BY <2>2, <2>3, SortedFalls
  <2>5. IsStrainsVec(vec')
    BY <2>4, OnlyValuesType
  <2> QED
    BY <1>2, <2>2, <2>4, <2>5 DEF Plain!Next, Plain!RetainNonZeroAndSort
<1>7. CASE UNCHANGED vec
  BY <1>1, <1>2, <1>7
<1> QED
  BY <1>3, <1>4, <1>5, <1>6, <1>7 DEF Next, Plain!Next

\* TypeOK of StrainsVec.tla: the entries are values and runs of zeros, no two
\* runs lie next to each other, and the flag that sort_desc asserts is true
\* just while there is a run, after every sequence of calls of push,
\* retain_non_zero, sort_desc and retain_non_zero_and_sort.
THEOREM TypeCorrect == Spec => []TypeOK
<1>1. Init => TypeOK
  BY InitStep
<1>2. TypeOK /\ [Next]_vec => TypeOK'
  BY NextStep
<1> QED
  BY <1>1, <1>2, PTL DEF Spec

\* The compact list implements the plain one of the feature raw_strains: what
\* into_vec writes out starts empty, and every operation changes it the way the
\* plain operation does, for every set of values and every number of them.
THEOREM Refinement == Spec => IsRawStrainsVec
<1>1. Init => Plain!Init
  BY InitStep
<1>2. TypeOK /\ [Next]_vec => [Plain!Next]_(IntoVec(vec))
  BY NextStep
<1> QED
  BY <1>1, <1>2, TypeCorrect, PTL DEF Spec, IsRawStrainsVec, Plain!Spec
=============================================================================
