-------------------------- MODULE NoteDensity_proofs --------------------------
(***************************************************************************)
(* For every capacity N and every set of times: the queue keeps its types, *)
(* its index and its slices agree, and NoteDensity implements              *)
(* LastElements.                                                           *)
(*                                                                         *)
(* The inductive invariant says where end stands: while the queue is not   *)
(* full the array has not wrapped, and end is the index before len.        *)
(***************************************************************************)
EXTENDS NoteDensity, SequenceTheorems, TLAPS

Unwrapped(q) == q.len < N => q.end = IF q.len = 0 THEN N - 1 ELSE q.len - 1

DensityType == density = <<>> \/ density \in Elem \X Elem \X (2 .. N)

IInv ==
    /\ prev_note_times \in Queue
    /\ Unwrapped(prev_note_times)
    /\ DensityType

\* One subtraction is enough for every index the queue computes modulo N.
LEMMA OneWrap ==
    ASSUME NEW i \in 0 .. 2 * N - 1
    PROVE  i % N = IF i < N THEN i ELSE i - N
<1> USE CapacityAssumption
<1>1. CASE i < N
    BY <1>1, SMT
<1>2. CASE i >= N
    BY <1>2, SMT
<1> QED
    BY <1>1, <1>2

\* The index in the array of element i of the queue: a full queue starts behind
\* end, any other one at the index 0.
Place(q, i) ==
    IF q.len < N THEN i - 1 ELSE IF q.end + i < N THEN q.end + i ELSE q.end + i - N

LEMMA Fields ==
    ASSUME NEW q \in Queue
    PROVE  /\ q.end \in Nat /\ q.end < N
           /\ q.len \in Nat /\ q.len <= N
           /\ N \in Nat /\ N > 0
           /\ \A i \in Int : 0 <= i /\ i < N => q.queue[i] \in Elem
BY CapacityAssumption DEF Queue

\* A slice is a sequence of the elements between its bounds.
LEMMA SliceIs ==
    ASSUME NEW q \in Queue, NEW from \in Nat, NEW to \in Nat, from <= to, to <= N
    PROVE  /\ Slice(q, from, to) \in Seq(Elem)
           /\ Len(Slice(q, from, to)) = to - from
           /\ \A i \in 1 .. to - from : Slice(q, from, to)[i] = q.queue[from + i - 1]
<1>1. to - from \in Nat
    OBVIOUS
<1>2. \A i \in 1 .. to - from : q.queue[from + i - 1] \in Elem
    BY Fields
<1>3. Slice(q, from, to) \in [1 .. to - from -> Elem]
    BY <1>2 DEF Slice
<1> QED
    BY <1>1, <1>3 DEF Slice

\* The elements of the two slices one by one.
LEMMA ElementsAre ==
    ASSUME NEW q \in Queue
    PROVE  /\ Elements(q) \in Seq(Elem)
           /\ Len(Elements(q)) = q.len
           /\ \A i \in 1 .. q.len : Elements(q)[i] = q.queue[Place(q, i)]
<1>1. CASE q.len = N
    <2> DEFINE older == Slice(q, q.end + 1, N)
               newer == Slice(q, 0, q.end + 1)
    <2>1. Elements(q) = older \o newer
        BY <1>1 DEF Elements, AsSlices, IsFull
    <2>2. /\ older \in Seq(Elem)
          /\ Len(older) = N - (q.end + 1)
          /\ \A i \in 1 .. N - (q.end + 1) : older[i] = q.queue[(q.end + 1) + i - 1]
        <3>1. q.end + 1 \in Nat /\ N \in Nat /\ q.end + 1 <= N /\ N <= N
            BY Fields
        <3> QED
            BY <3>1, SliceIs
    <2>3. /\ newer \in Seq(Elem)
          /\ Len(newer) = (q.end + 1) - 0
          /\ \A i \in 1 .. (q.end + 1) - 0 : newer[i] = q.queue[0 + i - 1]
        <3>1. 0 \in Nat /\ q.end + 1 \in Nat /\ 0 <= q.end + 1 /\ q.end + 1 <= N
            BY Fields
        <3> QED
            BY <3>1, SliceIs
    <2> HIDE DEF older, newer
    <2>4. /\ older \o newer \in Seq(Elem)
          /\ Len(older \o newer) = Len(older) + Len(newer)
          /\ \A i \in 1 .. Len(older) + Len(newer) : (older \o newer)[i] =
                    IF i <= Len(older) THEN older[i] ELSE newer[i - Len(older)]
        BY <2>2, <2>3, ConcatProperties
    <2>5. Len(older) + Len(newer) = q.len
        BY <1>1, <2>2, <2>3, Fields
    <2>6. ASSUME NEW i \in 1 .. q.len
          PROVE  Elements(q)[i] = q.queue[Place(q, i)]
        <3>1. CASE i <= Len(older)
            <4>1. i \in 1 .. N - (q.end + 1)
                BY <2>2, <3>1, Fields
            <4>2. Place(q, i) = (q.end + 1) + i - 1
                BY <1>1, <4>1, Fields DEF Place
            <4>3. (older \o newer)[i] = older[i]
                BY <2>4, <2>5, <3>1
            <4> QED
                BY <2>1, <2>2, <4>1, <4>2, <4>3
        <3>2. CASE i > Len(older)
            <4>1. i - Len(older) \in 1 .. q.end + 1
                BY <1>1, <2>2, <3>2, Fields
            <4>2. /\ q.end \in Nat /\ N \in Nat /\ i \in Nat /\ i <= N
                  /\ Len(older) = N - (q.end + 1)
                BY <1>1, <2>2, Fields
            <4>3. 0 + (i - Len(older)) - 1 = q.end + i - N
                BY <4>2
            <4>4. newer[i - Len(older)] = q.queue[0 + (i - Len(older)) - 1]
                <5> DEFINE k == i - Len(older)
                <5>1. k \in 1 .. (q.end + 1) - 0
                    BY <4>1, <4>2
                <5> HIDE DEF k
                <5>2. newer[k] = q.queue[0 + k - 1]
                    BY <2>3, <5>1
                <5> QED
                    BY <5>2 DEF k
            <4>5. Place(q, i) = q.end + i - N
                <5>1. ~(q.len < N)
                    BY <1>1, <4>2
                <5>2. ~(q.end + i < N)
                    BY <3>2, <4>2
                <5> QED
                    BY <5>1, <5>2 DEF Place
            <4>6. (older \o newer)[i] = newer[i - Len(older)]
                <5>1. i \in 1 .. Len(older) + Len(newer)
                    BY <2>5
                <5>2. ~(i <= Len(older))
                    BY <3>2, <4>2
                <5> QED
                    BY <2>4, <5>1, <5>2
            <4> QED
                BY <2>1, <4>3, <4>4, <4>5, <4>6
        <3> QED
            BY <2>2, <3>1, <3>2, Fields
    <2> QED
        BY <2>1, <2>4, <2>5, <2>6
<1>2. CASE q.len # N
    <2> DEFINE all == Slice(q, 0, q.len)
    <2>1. Elements(q) = <<>> \o all
        BY <1>2 DEF Elements, AsSlices, IsFull
    <2>2. /\ all \in Seq(Elem)
          /\ Len(all) = q.len - 0
          /\ \A i \in 1 .. q.len - 0 : all[i] = q.queue[0 + i - 1]
        <3>1. 0 \in Nat /\ q.len \in Nat /\ 0 <= q.len /\ q.len <= N
            BY Fields
        <3> QED
            BY <3>1, SliceIs
    <2> HIDE DEF all
    <2>3. <<>> \o all = all
        BY <2>2, ConcatEmptySeq
    <2> QED
        BY <1>2, <2>1, <2>2, <2>3, Fields DEF Place
<1> QED
    BY <1>1, <1>2

\* The index computed modulo N is that place, too.
LEMMA AtIs ==
    ASSUME NEW q \in Queue, NEW i \in 0 .. q.len - 1
    PROVE  At(q, i) = Elements(q)[i + 1]
<1>1. i + 1 \in 1 .. q.len
    BY Fields
<1>2. Elements(q)[i + 1] = q.queue[Place(q, i + 1)]
    BY <1>1, ElementsAre
<1>3. CASE q.len = N
    <2>1. i + (q.end + 1) \in 0 .. 2 * N - 1
        BY <1>3, Fields
    <2>2. (i + (q.end + 1)) % N = Place(q, i + 1)
        <3>1. PICK j \in 0 .. 2 * N - 1 : j = i + (q.end + 1)
            BY <2>1
        <3>2. j % N = IF j < N THEN j ELSE j - N
            BY OneWrap
        <3>3. Place(q, i + 1) = IF j < N THEN j ELSE j - N
            BY <1>3, <3>1, Fields DEF Place
        <3> QED
            BY <3>1, <3>2, <3>3
    <2> QED
        BY <1>2, <1>3, <2>2 DEF At, IsFull
<1>4. CASE q.len # N
    <2>1. i + 0 \in 0 .. 2 * N - 1
        BY Fields
    <2>2. (i + 0) % N = Place(q, i + 1)
        BY <1>4, <2>1, OneWrap, Fields DEF Place
    <2> QED
        BY <1>2, <1>4, <2>2 DEF At, IsFull
<1> QED
    BY <1>3, <1>4

------------------------------------------------------------------------------
(* A push *)

\* The queue after a push, with the wrap of end spelt out.
LEMMA PushIs ==
    ASSUME NEW q \in Queue, Unwrapped(q), NEW x \in Elem
    PROVE  LET end == IF q.end = N - 1 THEN 0 ELSE q.end + 1
           IN  /\ Push(q, x) \in Queue
               /\ Unwrapped(Push(q, x))
               /\ Push(q, x).end = end
               /\ Push(q, x).len = IF q.len < N THEN q.len + 1 ELSE N
               /\ Push(q, x).queue[end] = x
               /\ \A i \in 0 .. N - 1 : i # end => Push(q, x).queue[i] = q.queue[i]
<1> DEFINE end == IF q.end = N - 1 THEN 0 ELSE q.end + 1
<1>1. (q.end + 1) % N = end
    <2>1. q.end + 1 \in 0 .. 2 * N - 1
        BY Fields
    <2> QED
        BY <2>1, OneWrap, Fields
<1>2. end \in 0 .. N - 1
    BY Fields
<1>3. Push(q, x) = [queue |-> [q.queue EXCEPT ![end] = x],
                    end   |-> end,
                    len   |-> IF q.len < N THEN q.len + 1 ELSE q.len]
    BY <1>1 DEF Push
<1> HIDE DEF end
<1>4. q.queue \in [0 .. N - 1 -> Elem]
    BY DEF Queue
<1>5. [q.queue EXCEPT ![end] = x] \in [0 .. N - 1 -> Elem]
    BY <1>4
<1>6. Push(q, x) \in Queue
    BY <1>2, <1>3, <1>5, Fields DEF Queue
<1>7. Unwrapped(Push(q, x))
    BY <1>3, Fields DEF end, Unwrapped
<1>8. /\ Push(q, x).queue[end] = x
      /\ \A i \in 0 .. N - 1 : i # end => Push(q, x).queue[i] = q.queue[i]
    <2>1. Push(q, x).queue = [q.queue EXCEPT ![end] = x]
        BY <1>3
    <2> QED
        BY <1>2, <1>4, <2>1
<1> QED
    BY <1>3, <1>6, <1>7, <1>8, Fields DEF end

\* The elements after a push: the new one behind the others, the oldest of
\* which is gone if the queue was full.
LEMMA PushAppends ==
    ASSUME NEW q \in Queue, Unwrapped(q), NEW x \in Elem
    PROVE  Elements(Push(q, x)) =
                Append(IF Len(Elements(q)) < N THEN Elements(q) ELSE Tail(Elements(q)), x)
<1> DEFINE p    == Push(q, x)
           old  == Elements(q)
           kept == IF Len(old) < N THEN old ELSE Tail(old)
<1>1. /\ p \in Queue
      /\ Unwrapped(p)
      /\ p.end = IF q.end = N - 1 THEN 0 ELSE q.end + 1
      /\ p.len = IF q.len < N THEN q.len + 1 ELSE N
      /\ p.queue[p.end] = x
      /\ \A i \in 0 .. N - 1 : i # p.end => p.queue[i] = q.queue[i]
    BY PushIs
<1>2. /\ old \in Seq(Elem)
      /\ Len(old) = q.len
      /\ \A i \in 1 .. q.len : old[i] = q.queue[Place(q, i)]
    BY ElementsAre
<1>3. /\ Elements(p) \in Seq(Elem)
      /\ Len(Elements(p)) = p.len
      /\ \A i \in 1 .. p.len : Elements(p)[i] = p.queue[Place(p, i)]
    BY <1>1, ElementsAre
<1> HIDE DEF p, old
<1>4. /\ kept \in Seq(Elem)
      /\ Len(kept) = p.len - 1
      /\ \A i \in 1 .. p.len - 1 :
            kept[i] = IF q.len < N THEN old[i] ELSE old[i + 1]
    <2>1. CASE q.len < N
        BY <1>1, <1>2, <2>1, Fields
    <2>2. CASE q.len = N
        <3>1. old # <<>>
            BY <1>2, <2>2, EmptySeq, Fields
        <3>2. /\ Tail(old) \in Seq(Elem)
              /\ Len(Tail(old)) = Len(old) - 1
              /\ \A i \in 1 .. Len(Tail(old)) : Tail(old)[i] = old[i + 1]
            BY <1>2, <3>1, HeadTailProperties
        <3> QED
            BY <1>1, <1>2, <2>2, <3>2, Fields
    <2> QED
        BY <2>1, <2>2, Fields
<1> HIDE DEF kept
<1>5. /\ Append(kept, x) \in Seq(Elem)
      /\ Len(Append(kept, x)) = p.len
      /\ \A i \in 1 .. p.len - 1 : Append(kept, x)[i] = kept[i]
      /\ Append(kept, x)[p.len] = x
    BY <1>1, <1>4, Fields
<1>6. ASSUME NEW i \in 1 .. p.len
      PROVE  Elements(p)[i] = Append(kept, x)[i]
    <2>1. CASE i = p.len
        <3>1. Place(p, i) = p.end
            <4>1. p.end \in Nat /\ p.end < N /\ p.len \in Nat /\ p.len <= N
                BY <1>1, Fields
            <4>2. CASE p.len < N
                BY <1>1, <2>1, <4>1, <4>2 DEF Place, Unwrapped
            <4>3. CASE p.len = N
                BY <2>1, <4>1, <4>3, CapacityAssumption DEF Place
            <4> QED
                BY <4>1, <4>2, <4>3, CapacityAssumption
        <3> QED
            BY <1>1, <1>3, <1>5, <2>1, <3>1
    <2>2. CASE i # p.len
        <3> DEFINE j == IF q.len < N THEN i ELSE i + 1
        <3>1. i \in 1 .. p.len - 1 /\ j \in 1 .. q.len
            BY <1>1, <2>2, Fields
        <3>2. Place(p, i) = Place(q, j)
            BY <1>1, <3>1, Fields DEF Place, Unwrapped
        <3>3. Place(p, i) # p.end /\ Place(p, i) \in 0 .. N - 1
            <4>1. p.end \in Nat /\ p.end < N /\ p.len \in Nat /\ p.len <= N
                BY <1>1, Fields
            <4>2. CASE p.len < N
                BY <1>1, <3>1, <4>1, <4>2, Fields DEF Place, Unwrapped
            <4>3. CASE p.len = N
                BY <3>1, <4>1, <4>3, Fields DEF Place
            <4> QED
                BY <4>1, <4>2, <4>3, Fields
        <3>4. Elements(p)[i] = q.queue[Place(q, j)]
            BY <1>1, <1>3, <3>2, <3>3
        <3>5. Append(kept, x)[i] = old[j]
            BY <1>4, <1>5, <3>1
        <3> QED
            BY <1>2, <3>1, <3>4, <3>5
    <2> QED
        BY <2>1, <2>2
<1>7. Elements(p) = Append(kept, x)
    BY <1>3, <1>5, <1>6, SeqEqual
<1> QED
    BY <1>7 DEF p, old, kept

------------------------------------------------------------------------------
(* The density *)

\* The first and the last element of the slices, or the old density where there
\* are fewer than two elements.
LEMMA DensityIs ==
    ASSUME NEW q \in Queue, NEW before
    PROVE  DensityOf(q, before) =
                LET items == Elements(q)
                IN  IF Len(items) >= 2
                    THEN <<items[1], items[Len(items)], Len(items)>>
                    ELSE before
<1> DEFINE older == AsSlices(q)[1]
           newer == AsSlices(q)[2]
           items == Elements(q)
<1>1. items = older \o newer
    BY DEF Elements
<1>2. older \in Seq(Elem) /\ newer \in Seq(Elem)
    <2>1. CASE q.len = N
        <3>1. older = Slice(q, q.end + 1, N) /\ newer = Slice(q, 0, q.end + 1)
            BY <2>1 DEF AsSlices, IsFull
        <3>2. q.end + 1 \in Nat /\ N \in Nat /\ q.end + 1 <= N /\ N <= N /\ 0 \in Nat
            BY Fields
        <3>3. Slice(q, q.end + 1, N) \in Seq(Elem)
            BY <3>2, SliceIs
        <3>4. Slice(q, 0, q.end + 1) \in Seq(Elem)
            <4>1. 0 \in Nat /\ q.end + 1 \in Nat /\ 0 <= q.end + 1 /\ q.end + 1 <= N
                BY <3>2, Fields
            <4> QED
                BY <4>1, SliceIs
        <3> QED
            BY <3>1, <3>3, <3>4
    <2>2. CASE q.len # N
        <3>1. older = <<>> /\ newer = Slice(q, 0, q.len)
            BY <2>2 DEF AsSlices, IsFull
        <3>2. 0 \in Nat /\ q.len \in Nat /\ 0 <= q.len /\ q.len <= N
            BY Fields
        <3>3. Slice(q, 0, q.len) \in Seq(Elem)
            BY <3>2, SliceIs
        <3> QED
            BY <3>1, <3>3, EmptySeq
    <2> QED
        BY <2>1, <2>2
<1>3. Len(items) = q.len
    BY ElementsAre
<1>4. DensityOf(q, before) =
            CASE older # <<>> /\ newer # <<>> -> <<older[1], newer[Len(newer)], q.len>>
              [] older = <<>> /\ Len(newer) >= 2 -> <<newer[1], newer[Len(newer)], q.len>>
              [] newer = <<>> /\ Len(older) >= 2 -> <<older[1], older[Len(older)], q.len>>
              [] OTHER -> before
    BY DEF DensityOf
<1> HIDE DEF older, newer, items
<1>5. /\ Len(items) = Len(older) + Len(newer)
      /\ \A i \in 1 .. Len(older) + Len(newer) :
            items[i] = IF i <= Len(older) THEN older[i] ELSE newer[i - Len(older)]
    BY <1>1, <1>2, ConcatProperties
<1>6. /\ Len(older) \in Nat /\ Len(newer) \in Nat
      /\ (older = <<>>) <=> (Len(older) = 0)
      /\ (newer = <<>>) <=> (Len(newer) = 0)
    BY <1>2, EmptySeq, LenProperties
<1>7. CASE older # <<>> /\ newer # <<>>
    <2>1. Len(items) >= 2 /\ items[1] = older[1] /\ items[Len(items)] = newer[Len(newer)]
        BY <1>5, <1>6, <1>7
    <2> QED
        BY <1>3, <1>4, <1>7, <2>1 DEF items
<1>8. CASE older = <<>>
    <2>1. /\ Len(items) = Len(newer)
          /\ Len(newer) >= 2 =>
                items[1] = newer[1] /\ items[Len(items)] = newer[Len(newer)]
        BY <1>5, <1>6, <1>8
    <2>2. ~(Len(older) >= 2)
        BY <1>6, <1>8
    <2> QED
        BY <1>3, <1>4, <1>8, <2>1, <2>2 DEF items
<1>9. CASE older # <<>> /\ newer = <<>>
    <2>1. /\ Len(items) = Len(older)
          /\ Len(older) >= 2 =>
                items[1] = older[1] /\ items[Len(items)] = older[Len(older)]
        BY <1>5, <1>6, <1>9
    <2> QED
        BY <1>3, <1>4, <1>9, <2>1 DEF items
<1> QED
    BY <1>7, <1>8, <1>9

------------------------------------------------------------------------------
(* The invariant *)

LEMMA NewIs == New \in Queue /\ Unwrapped(New) /\ New.len = 0
<1>1. [i \in 0 .. N - 1 |-> Default] \in [0 .. N - 1 -> Elem]
    BY DefaultAssumption
<1>2. N - 1 \in 0 .. N - 1 /\ 0 \in 0 .. N
    BY CapacityAssumption
<1> QED
    BY <1>1, <1>2 DEF New, Queue, Unwrapped

LEMMA InitIInv == Init => IInv
BY NewIs DEF Init, IInv, DensityType

LEMMA NextIInv == IInv /\ [Next]_vars => IInv'
<1> SUFFICES ASSUME IInv, [Next]_vars
             PROVE  IInv'
    OBVIOUS
<1>1. ASSUME NEW t \in Elem, ComputeDensity(t)
      PROVE  IInv'
    <2> DEFINE q     == Push(prev_note_times, t)
               items == Elements(q)
    <2>1. q \in Queue /\ Unwrapped(q)
        BY PushIs DEF IInv
    <2>2. prev_note_times' = q /\ density' = DensityOf(q, density)
        BY <1>1 DEF ComputeDensity
    <2>3. items \in Seq(Elem) /\ Len(items) \in Nat /\ Len(items) <= N
        BY <2>1, ElementsAre, Fields
    <2>4. density' = IF Len(items) >= 2
                     THEN <<items[1], items[Len(items)], Len(items)>>
                     ELSE density
        BY <2>1, <2>2, DensityIs
    <2> HIDE DEF q, items
    <2>5. DensityType'
        <3>1. CASE Len(items) >= 2
            <4>1. items[1] \in Elem /\ items[Len(items)] \in Elem /\ Len(items) \in 2 .. N
                BY <2>3, <3>1, CapacityAssumption, ElementOfSeq
            <4>2. density' = <<items[1], items[Len(items)], Len(items)>>
                BY <2>4, <3>1
            <4> QED
                BY <4>1, <4>2 DEF DensityType
        <3>2. CASE ~(Len(items) >= 2)
            BY <2>4, <3>2 DEF IInv, DensityType
        <3> QED
            BY <3>1, <3>2
    <2> QED
        BY <2>1, <2>2, <2>5 DEF IInv
<1>2. CASE UNCHANGED vars
    BY <1>2 DEF vars, IInv, DensityType
<1> QED
    BY <1>1, <1>2 DEF Next

LEMMA SpecIInv == Spec => []IInv
BY InitIInv, NextIInv, PTL DEF Spec

\* The queue and the density keep their types: end never leaves the array.
THEOREM TypeCorrect == Spec => []TypeOK
<1>1. IInv => TypeOK
    BY DEF IInv, DensityType, TypeOK
<1> QED
    BY <1>1, SpecIInv, PTL

\* The index operator and the two slices agree in every reachable queue.
THEOREM IndexAgreesHolds == Spec => []IndexAgrees
<1>1. IInv => IndexAgrees
    <2> SUFFICES ASSUME IInv
                 PROVE  IndexAgrees
        OBVIOUS
    <2>1. prev_note_times \in Queue
        BY DEF IInv
    <2>2. Len(Elements(prev_note_times)) = prev_note_times.len
        BY <2>1, ElementsAre
    <2>3. \A i \in 0 .. prev_note_times.len - 1 :
                At(prev_note_times, i) = Elements(prev_note_times)[i + 1]
        BY <2>1, AtIs
    <2> QED
        BY <2>2, <2>3 DEF IndexAgrees
<1> QED
    BY <1>1, SpecIInv, PTL

\* The circular array implements the list of the last N times, and the density
\* is taken over exactly that list.
THEOREM Refinement == Spec => IsLastElements
<1>1. Init => Promise!Init
    <2> SUFFICES ASSUME Init
                 PROVE  Promise!Init
        OBVIOUS
    <2>1. Elements(New) \in Seq(Elem) /\ Len(Elements(New)) = 0
        BY NewIs, ElementsAre
    <2>2. Elements(New) = <<>>
        BY <2>1, EmptySeq
    <2> QED
        BY <2>2 DEF Init, Promise!Init
<1>2. IInv /\ [Next]_vars => [Promise!Next]_Promise!vars
    <2> SUFFICES ASSUME IInv, [Next]_vars
                 PROVE  [Promise!Next]_Promise!vars
        OBVIOUS
    <2>1. ASSUME NEW t \in Elem, ComputeDensity(t)
          PROVE  Promise!Add(t)
        <3> DEFINE q == Push(prev_note_times, t)
        <3>1. q \in Queue /\ prev_note_times \in Queue /\ Unwrapped(prev_note_times)
            BY PushIs DEF IInv
        <3>2. prev_note_times' = q /\ density' = DensityOf(q, density)
            BY <2>1 DEF ComputeDensity
        <3>3. Elements(q) =
                    Append(IF Len(Elements(prev_note_times)) < N
                           THEN Elements(prev_note_times)
                           ELSE Tail(Elements(prev_note_times)), t)
            BY <3>1, PushAppends
        <3>4. density' = IF Len(Elements(q)) >= 2
                         THEN <<Elements(q)[1], Elements(q)[Len(Elements(q))], Len(Elements(q))>>
                         ELSE density
            BY <3>1, <3>2, DensityIs
        <3> HIDE DEF q
        <3>5. Elements(prev_note_times)' = Elements(q)
            BY <3>2 DEF Elements, AsSlices, IsFull, Slice
        <3> QED
            BY <3>3, <3>4, <3>5 DEF Promise!Add
    <2>2. CASE UNCHANGED vars
        BY <2>2 DEF vars, Promise!vars, Elements, AsSlices, IsFull, Slice
    <2> QED
        BY <2>1, <2>2 DEF Next, Promise!Next
<1> QED
    BY <1>1, <1>2, SpecIInv, PTL DEF Spec, IsLastElements, Promise!Spec
=============================================================================
