---------------------------- MODULE Counting_proofs ----------------------------
(***************************************************************************)
(* Counting one set of objects after another is the same as counting both  *)
(* at once; least elements, k-th elements and multiples of numbers.        *)
(***************************************************************************)
EXTENDS RustStd, FiniteSetTheorems, WellFoundedInduction, TLAPS

\* The image of a finite set is finite (the library states this with an
\* operator for the mapping, here the mapping is a function).
LEMMA FiniteImage ==
    ASSUME NEW S, IsFiniteSet(S), NEW f, f = [s \in S |-> f[s]]
    PROVE  IsFiniteSet({f[s] : s \in S})
<1> DEFINE T == {f[s] : s \in S}
<1>1. f \in [S -> T]
  OBVIOUS
<1>2. \A t \in T : \E s \in S : f[s] = t
  OBVIOUS
<1>3. f \in Surjection(S, T)
  BY <1>1, <1>2 DEF Surjection
<1> HIDE DEF T
<1>4. IsFiniteSet(T)
  BY <1>3, FS_Surjection
<1> QED
  BY <1>4 DEF T

\* The elements that stand for the weights of a finite set of indices are
\* finitely many, so that their number is the sum of the weights.
LEMMA FiniteCopies ==
    ASSUME NEW J, IsFiniteSet(J), NEW w, \A j \in J : w[j] \in Nat
    PROVE  IsFiniteSet(UNION {{j} \X (1 .. w[j]) : j \in J})
<1> DEFINE f == [j \in J |-> {j} \X (1 .. w[j])]
<1>1. {f[j] : j \in J} = {{j} \X (1 .. w[j]) : j \in J}
  OBVIOUS
<1>2. f = [j \in J |-> f[j]]
  OBVIOUS
<1>3. ASSUME NEW j \in J
      PROVE  IsFiniteSet({j} \X (1 .. w[j]))
  <2>1. IsFiniteSet({j})
    BY FS_Singleton
  <2>2. IsFiniteSet(1 .. w[j])
    <3>1. w[j] \in Int
      OBVIOUS
    <3> QED
      BY <3>1, FS_Interval
  <2> QED
    BY <2>1, <2>2, FS_Product
<1> HIDE DEF f
<1>4. IsFiniteSet({f[j] : j \in J})
  BY <1>2, FiniteImage
<1> QED
  BY <1>1, <1>3, <1>4, FS_UNION

\* A sum of natural numbers is a natural number.
LEMMA TotalType ==
    ASSUME NEW J, IsFiniteSet(J), NEW w, \A j \in J : w[j] \in Nat
    PROVE  TotalOf(w, J) \in Nat
BY FiniteCopies, FS_CardinalityType DEF TotalOf

\* Sizes of disjoint finite sets add up.
LEMMA SizeOfDisjoint ==
    ASSUME NEW A, IsFiniteSet(A), NEW B, IsFiniteSet(B), A \cap B = {}
    PROVE  /\ Cardinality(A \cup B) = Cardinality(A) + Cardinality(B)
           /\ Cardinality(A) \in Nat
           /\ Cardinality(B) \in Nat
<1>1. Cardinality(A) \in Nat /\ Cardinality(B) \in Nat
  BY FS_CardinalityType
<1>2. Cardinality(A \cap B) = 0
  BY FS_EmptySet
<1>3. Cardinality(A \cup B) = Cardinality(A) + Cardinality(B) - Cardinality(A \cap B)
  BY FS_Union
<1> QED
  BY <1>1, <1>2, <1>3

\* Sums over disjoint finite sets add up: counting the objects of A and then
\* those of B counts every object of both once.
LEMMA TotalOfDisjoint ==
    ASSUME NEW A, IsFiniteSet(A), NEW B, IsFiniteSet(B), A \cap B = {},
           NEW w, \A j \in A \cup B : w[j] \in Nat
    PROVE  TotalOf(w, A \cup B) = TotalOf(w, A) + TotalOf(w, B)
<1> DEFINE Copies(J) == UNION {{j} \X (1 .. w[j]) : j \in J}
<1>1. Copies(A \cup B) = Copies(A) \cup Copies(B)
  OBVIOUS
<1>2. Copies(A) \cap Copies(B) = {}
  OBVIOUS
<1>3. IsFiniteSet(Copies(A)) /\ IsFiniteSet(Copies(B))
  BY FiniteCopies
<1> QED
  BY <1>1, <1>2, <1>3, SizeOfDisjoint DEF TotalOf

\* A set of natural numbers that is not empty has a least element.
LEMMA LeastNatural ==
    ASSUME NEW T \in SUBSET Nat, T # {}
    PROVE  \E x \in T : \A y \in T : x <= y
<1>1. PICK x \in T : \A y \in T : <<y, x>> \notin OpToRel(<, Nat)
  BY NatLessThanWellFounded, WFMin
<1>2. ASSUME NEW y \in T
      PROVE  x <= y
  <2>1. ~(y < x)
    BY <1>1 DEF OpToRel
  <2> QED
    BY <2>1
<1> QED
  BY <1>2

\* The natural numbers are closed under addition.
LEMMA SumOfNats ==
    ASSUME NEW x \in Nat, NEW y \in Nat
    PROVE  x + y \in Nat
OBVIOUS

\* The sum over no index
LEMMA TotalOfEmpty ==
    ASSUME NEW w
    PROVE  TotalOf(w, {}) = 0
<1>1. UNION {{j} \X (1 .. w[j]) : j \in {}} = {}
  OBVIOUS
<1> QED
  BY <1>1, FS_EmptySet DEF TotalOf

\* The sum over one index
LEMMA TotalOfSingleton ==
    ASSUME NEW w, NEW j, w[j] \in Nat
    PROVE  TotalOf(w, {j}) = w[j]
<1>1. UNION {{i} \X (1 .. w[i]) : i \in {j}} = {j} \X (1 .. w[j])
  OBVIOUS
<1>2. IsFiniteSet({j}) /\ Cardinality({j}) = 1
  BY FS_Singleton
<1>3. IsFiniteSet(1 .. w[j]) /\ Cardinality(1 .. w[j]) = w[j]
  BY FS_Interval
<1>4. Cardinality({j} \X (1 .. w[j])) = 1 * w[j]
  <2>1. PICK S, T : S = {j} /\ T = 1 .. w[j]
    OBVIOUS
  <2>2. /\ IsFiniteSet(S) /\ IsFiniteSet(T)
        /\ Cardinality(S) = 1 /\ Cardinality(T) = w[j]
    BY <1>2, <1>3, <2>1, Zenon
  <2>3. Cardinality(S \X T) = Cardinality(S) * Cardinality(T)
    BY <2>2, FS_Product, Zenon
  <2> QED
    BY <2>1, <2>2, <2>3, Zenon
<1>5. 1 * w[j] = w[j]
  OBVIOUS
<1> QED
  BY <1>1, <1>4, <1>5 DEF TotalOf

\* A finite set of numbers has a k-th element, for each k up to its size.
LEMMA KthElement ==
    ASSUME NEW n \in Nat, NEW S \in SUBSET (1 .. n), NEW k \in 1 .. Cardinality(S)
    PROVE  \E d \in S : Cardinality({e \in S : e <= d}) = k
<1> DEFINE U(d) == {e \in S : e <= d}
           T == {d \in Nat : Cardinality(U(d)) >= k}
<1>0. \A e \in S : e \in Nat /\ 1 <= e /\ e <= n
  OBVIOUS
<1>1. IsFiniteSet(S) /\ Cardinality(S) \in Nat
  <2>1. IsFiniteSet(1 .. n)
    BY FS_Interval
  <2> QED
    BY <2>1, FS_Subset, FS_CardinalityType
<1>2. \A d \in Nat : IsFiniteSet(U(d)) /\ Cardinality(U(d)) \in Nat
  <2>1. ASSUME NEW d \in Nat
        PROVE  IsFiniteSet(U(d)) /\ Cardinality(U(d)) \in Nat
    <3>1. U(d) \in SUBSET S
      OBVIOUS
    <3> QED
      BY <1>1, <3>1, FS_Subset, FS_CardinalityType
  <2> QED
    BY <2>1
<1>3. n \in T
  <2>1. U(n) = S
    BY <1>0
  <2> QED
    BY <1>1, <2>1
<1>4. PICK d \in T : \A y \in T : d <= y
  <2>1. T \in SUBSET Nat /\ T # {}
    BY <1>3
  <2> HIDE DEF T
  <2> QED
    BY <2>1, LeastNatural
<1>5. d \in Nat /\ Cardinality(U(d)) >= k
  BY <1>4
<1>6. d # 0
  <2>1. SUFFICES ASSUME d = 0
                 PROVE  FALSE
    OBVIOUS
  <2>2. U(d) = {}
    <3>1. \A e \in S : ~(e <= d)
      BY <1>0, <2>1
    <3> QED
      BY <3>1
  <2>3. Cardinality(U(d)) = 0
    BY <2>2, FS_EmptySet
  <2> QED
    BY <1>5, <2>3
<1>7. d - 1 \in Nat /\ Cardinality(U(d - 1)) < k
  <2>1. d - 1 \in Nat
    BY <1>5, <1>6
  <2>2. d - 1 \notin T
    <3>1. ~(d <= d - 1)
      BY <1>5
    <3> HIDE DEF T
    <3> QED
      BY <1>4, <3>1
  <2>3. ~(Cardinality(U(d - 1)) >= k)
    BY <2>1, <2>2
  <2>4. Cardinality(U(d - 1)) \in Nat
    BY <1>2, <2>1
  <2> HIDE DEF U
  <2> QED
    BY <2>1, <2>3, <2>4
<1>8. d \in S
  <2>1. SUFFICES ASSUME d \notin S
                 PROVE  FALSE
    OBVIOUS
  <2>2. U(d) = U(d - 1)
    <3>1. \A e \in S : e <= d <=> e <= d - 1
      BY <1>0, <1>5, <2>1
    <3> QED
      BY <3>1
  <2> QED
    BY <1>2, <1>5, <1>7, <2>2
<1>9. U(d) = U(d - 1) \cup {d} /\ d \notin U(d - 1)
  <2>1. \A e \in S : e <= d <=> (e <= d - 1 \/ e = d)
    BY <1>0, <1>5
  <2>2. ~(d <= d - 1)
    BY <1>5
  <2> QED
    BY <1>8, <2>1, <2>2
<1>10. Cardinality(U(d)) = Cardinality(U(d - 1)) + 1
  <2>1. IsFiniteSet(U(d - 1))
    BY <1>2, <1>7
  <2> HIDE DEF U
  <2> QED
    BY <1>9, <2>1, FS_AddElement
<1>11. Cardinality(U(d)) = k
  <2>1. Cardinality(U(d - 1)) \in Nat
    BY <1>2, <1>7
  <2> HIDE DEF U
  <2> QED
    BY <2>1, <1>5, <1>7, <1>10
<1> QED
  BY <1>8, <1>11

\* Division rounds down.
LEMMA Quotient ==
    ASSUME NEW a \in Int, NEW d \in Nat \ {0}
    PROVE  a \div d \in Int /\ d * (a \div d) <= a /\ a < d * (a \div d) + d
OBVIOUS

\* Multiples are ordered as their factors are.
LEMMA Multiples ==
    ASSUME NEW x \in Int, NEW y \in Int, NEW d \in Nat \ {0}
    PROVE  /\ x < y => d * x + d <= d * y
           /\ x <= y => d * x <= d * y
<1>1. x < y => d * (x + 1) <= d * y
  <2>1. \A u, v \in Int, k \in Nat : u <= v => k * u <= k * v
    OBVIOUS
  <2>2. x < y => x + 1 <= y
    OBVIOUS
  <2> QED
    BY <2>1, <2>2
<1>2. d * (x + 1) = d * x + d
  OBVIOUS
<1>3. x <= y => d * x <= d * y
  <2>1. \A u, v \in Int, k \in Nat : u <= v => k * u <= k * v
    OBVIOUS
  <2> QED
    BY <2>1
<1> QED
  BY <1>1, <1>2, <1>3
=============================================================================
