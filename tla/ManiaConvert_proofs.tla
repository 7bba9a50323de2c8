------------------------ MODULE ManiaConvert_proofs ------------------------
(***************************************************************************)
(* The conversion to osu!mania, for every map: each pattern generator      *)
(* finds a column whenever it looks for one, no two notes it makes for an  *)
(* object share a column at a time, it keeps to the object's times, and it *)
(* keeps off the previous columns where there is room.                     *)
(*                                                                         *)
(* The generators are proved one by one, over the notes they have made so  *)
(* far (IsNotes, IsSized, HeldNotes); the objects of a map are then joined *)
(* by the invariant IInv, which says of the pattern an object leaves what  *)
(* the next generator needs of it.                                         *)
(***************************************************************************)
EXTENDS ManiaConvert, Counting_proofs, SequenceTheorems

------------------------------------------------------------------------------
(* Patterns are made note by note *)

\* A function of the number of steps that starts with base and goes on with Q,
\* and that has a value of J[k] after k steps
IsRun(f, Q, J, base, n) ==
    /\ f = [k \in 0 .. n |-> IF k = 0 THEN base ELSE Q[k][f[k - 1]]]
    /\ \A k \in 0 .. n : f[k] \in J[k]

\* There is such a function if each step leads from one of the sets to the next.
LEMMA RunExists ==
    ASSUME NEW N \in Nat, NEW J, NEW base \in J[0], NEW Q,
           \A k \in 1 .. N : \A a \in J[k - 1] : Q[k][a] \in J[k]
    PROVE  \E f : IsRun(f, Q, J, base, N)
<1> DEFINE T == {n \in 0 .. N : ~\E f : IsRun(f, Q, J, base, n)}
<1>1. ASSUME T # {}
      PROVE  FALSE
  <2>0. T \in SUBSET Nat
    OBVIOUS
  <2>1. PICK n \in T : \A m \in T : n <= m
    <3> HIDE DEF T
    <3> QED
      BY <1>1, <2>0, LeastNatural
  <2>2. n # 0
    <3> DEFINE f == [k \in 0 .. 0 |-> base]
    <3>1. \A k \in 0 .. 0 : k = 0
      OBVIOUS
    <3>2. f = [k \in 0 .. 0 |-> IF k = 0 THEN base ELSE Q[k][f[k - 1]]]
      BY <3>1, Zenon
    <3>3. \A k \in 0 .. 0 : f[k] \in J[k]
      BY <3>1
    <3> HIDE DEF f
    <3> QED
      BY <2>1, <3>2, <3>3 DEF IsRun
  <2>3. n \in 1 .. N /\ n - 1 \in 0 .. N /\ ~(n <= n - 1) /\ n \in Nat
    BY <2>1, <2>2
  <2>4. PICK f : IsRun(f, Q, J, base, n - 1)
    <3>1. n - 1 \notin T
      <4> HIDE DEF T
      <4> QED
        BY <2>1, <2>3
    <3> QED
      BY <2>3, <3>1
  <2>5. /\ f = [k \in 0 .. n - 1 |-> IF k = 0 THEN base ELSE Q[k][f[k - 1]]]
        /\ \A k \in 0 .. n - 1 : f[k] \in J[k]
    BY <2>4 DEF IsRun
  <2> DEFINE g == [k \in 0 .. n |-> IF k = n THEN Q[n][f[n - 1]] ELSE f[k]]
  <2>6. ASSUME NEW k \in 0 .. n
        PROVE  g[k] = IF k = 0 THEN base ELSE Q[k][g[k - 1]]
    <3>1. CASE k = n
      <4>1. g[k] = Q[n][f[n - 1]] /\ k # 0 /\ n - 1 \in 0 .. n /\ n - 1 # n
        BY <2>3, <3>1
      <4>2. g[n - 1] = f[n - 1]
        BY <4>1
      <4> HIDE DEF g
      <4> QED
        BY <3>1, <4>1, <4>2
    <3>2. CASE k # n
      <4>1. g[k] = f[k] /\ k \in 0 .. n - 1
        BY <2>3, <3>2
      <4>2. k # 0 => k - 1 \in 0 .. n /\ k - 1 # n
        BY <2>3, <4>1
      <4>3. k # 0 => g[k - 1] = f[k - 1]
        BY <4>2
      <4>4. f[k] = IF k = 0 THEN base ELSE Q[k][f[k - 1]]
        BY <2>5, <4>1
      <4> HIDE DEF g
      <4> QED
        BY <4>1, <4>3, <4>4, Zenon
    <3> QED
      BY <3>1, <3>2
  <2>7. ASSUME NEW k \in 0 .. n
        PROVE  g[k] \in J[k]
    <3>1. CASE k = n
      <4>1. g[k] = Q[n][f[n - 1]] /\ f[n - 1] \in J[n - 1]
        BY <2>3, <2>5, <3>1
      <4> HIDE DEF g
      <4> QED
        BY <2>3, <3>1, <4>1
    <3>2. CASE k # n
      <4>1. g[k] = f[k] /\ k \in 0 .. n - 1
        BY <2>3, <3>2
      <4> HIDE DEF g
      <4> QED
        BY <2>5, <4>1
    <3> QED
      BY <3>1, <3>2
  <2>8. IsRun(g, Q, J, base, n)
    <3>1. g = [k \in 0 .. n |-> g[k]]
      OBVIOUS
    <3> HIDE DEF g
    <3>2. [k \in 0 .. n |-> g[k]] = [k \in 0 .. n |-> IF k = 0 THEN base ELSE Q[k][g[k - 1]]]
      BY ONLY <2>6
    <3> QED
      BY <2>7, <3>1, <3>2 DEF IsRun
  <2> QED
    BY <2>1, <2>8
<1> QED
  <2>1. N \notin T /\ N \in 0 .. N
    <3> HIDE DEF T
    <3> QED
      BY <1>1
  <2> QED
    BY <2>1

\* What each step keeps holds after all steps.
LEMMA StepsKeep ==
    ASSUME NEW N \in Nat, NEW f, NEW J, f[0] \in J[0],
           \A k \in 1 .. N : f[k - 1] \in J[k - 1] => f[k] \in J[k]
    PROVE  \A n \in 0 .. N : f[n] \in J[n]
<1> DEFINE T == {n \in 0 .. N : f[n] \notin J[n]}
<1>1. ASSUME T # {}
      PROVE  FALSE
  <2>1. PICK n \in T : \A m \in T : n <= m
    <3>1. T \in SUBSET Nat
      OBVIOUS
    <3> HIDE DEF T
    <3> QED
      BY <1>1, <3>1, LeastNatural
  <2>2. n # 0
    BY <2>1
  <2>3. n \in 1 .. N /\ n - 1 \in 0 .. N /\ ~(n <= n - 1)
    BY <2>1, <2>2
  <2>4. f[n - 1] \in J[n - 1]
    BY <2>1, <2>3
  <2> QED
    BY <2>1, <2>3, <2>4
<1> QED
  BY <1>1

\* The sets that the steps P reach from base
IsReached(f, P, I, base, n) ==
    /\ f = [k \in 0 .. n |-> IF k = 0 THEN base ELSE UNION {P[k][s] : s \in f[k - 1]}]
    /\ \A k \in 0 .. n : f[k] \subseteq I[k]

LEMMA ReachedExists ==
    ASSUME NEW N \in Nat, NEW I, NEW base \in SUBSET I[0], NEW P,
           \A k \in 1 .. N : \A s \in I[k - 1] : P[k][s] \subseteq I[k]
    PROVE  \E f : IsReached(f, P, I, base, N)
<1> DEFINE Step(k, A) == UNION {P[k][s] : s \in A}
           J == [k \in 0 .. N |-> SUBSET I[k]]
           Q == [k \in 1 .. N |-> [A \in SUBSET I[k - 1] |-> Step(k, A)]]
<1>1. \A k \in 0 .. N : J[k] = SUBSET I[k]
  OBVIOUS
<1>2. \A k \in 1 .. N : \A A \in SUBSET I[k - 1] : Q[k][A] = Step(k, A)
  <2> HIDE DEF Step
  <2> QED
    OBVIOUS
<1>3. ASSUME NEW k \in 1 .. N, NEW A \in SUBSET I[k - 1]
      PROVE  Step(k, A) \in SUBSET I[k]
  <2>1. \A s \in A : P[k][s] \subseteq I[k]
    OBVIOUS
  <2> QED
    BY <2>1
<1>4. \A k \in 1 .. N : k - 1 \in 0 .. N /\ k \in 0 .. N /\ k # 0
  OBVIOUS
<1>5. base \in J[0] /\ \A k \in 1 .. N : \A A \in J[k - 1] : Q[k][A] \in J[k]
  <2> HIDE DEF J, Q, Step
  <2>1. ASSUME NEW k \in 1 .. N, NEW A \in J[k - 1]
        PROVE  Q[k][A] \in J[k]
    <3>1. J[k - 1] = SUBSET I[k - 1] /\ J[k] = SUBSET I[k]
      BY <1>1, <1>4
    <3>2. A \in SUBSET I[k - 1]
      BY <3>1
    <3>3. Q[k][A] = Step(k, A) /\ Step(k, A) \in SUBSET I[k]
      BY <1>2, <1>3, <3>2
    <3> QED
      BY <3>1, <3>3
  <2>2. base \in J[0]
    <3>1. 0 \in 0 .. N
      OBVIOUS
    <3> QED
      BY <1>1, <3>1
  <2> QED
    BY <2>1, <2>2
<1>6. PICK f : IsRun(f, Q, J, base, N)
  <2> HIDE DEF J, Q
  <2> QED
    BY <1>5, RunExists
<1>7. /\ f = [k \in 0 .. N |-> IF k = 0 THEN base ELSE Q[k][f[k - 1]]]
      /\ \A k \in 0 .. N : f[k] \in J[k]
  <2> HIDE DEF J, Q
  <2> QED
    BY <1>6 DEF IsRun
<1>8. \A k \in 0 .. N : f[k] \subseteq I[k]
  <2> HIDE DEF J
  <2> QED
    BY <1>1, <1>7
<1>9. ASSUME NEW k \in 0 .. N
      PROVE  (IF k = 0 THEN base ELSE Q[k][f[k - 1]]) = IF k = 0 THEN base ELSE Step(k, f[k - 1])
  <2>1. CASE k # 0
    <3>1. k \in 1 .. N /\ k - 1 \in 0 .. N
      BY <2>1
    <3> HIDE DEF Q, Step
    <3> QED
      BY <1>2, <1>8, <3>1
  <2> HIDE DEF Q, Step
  <2> QED
    BY <2>1
<1>10. f = [k \in 0 .. N |-> IF k = 0 THEN base ELSE Step(k, f[k - 1])]
  <2> HIDE DEF Q, Step, J
  <2> QED
    BY ONLY <1>7, <1>9
<1> QED
  BY <1>8, <1>10 DEF IsReached

------------------------------------------------------------------------------
(* Columns and patterns *)

\* The position of a column gives the column again.
LEMMA ColumnOfPos ==
    ASSUME NEW total \in 1 .. 10, NEW c \in Columns(total)
    PROVE  ColumnOf(ColumnToPos(c, total), total) = c
<1>1. c \in Int /\ 0 <= c /\ c <= total - 1
  BY DEF Columns
<1>2. PICK q \in Int : q = CeilDiv(512 * c, total) /\ q * total >= 512 * c
                       /\ q * total < 512 * c + 512
  <2>1. total = 1 \/ total = 2 \/ total = 3 \/ total = 4 \/ total = 5 \/ total = 6
          \/ total = 7 \/ total = 8 \/ total = 9 \/ total = 10
    OBVIOUS
  <2>2. CASE total = 1
    BY <1>1, <2>2 DEF CeilDiv
  <2>3. CASE total = 2
    BY <1>1, <2>3 DEF CeilDiv
  <2>4. CASE total = 3
    BY <1>1, <2>4 DEF CeilDiv
  <2>5. CASE total = 4
    BY <1>1, <2>5 DEF CeilDiv
  <2>6. CASE total = 5
    BY <1>1, <2>6 DEF CeilDiv
  <2>7. CASE total = 6
    BY <1>1, <2>7 DEF CeilDiv
  <2>8. CASE total = 7
    BY <1>1, <2>8 DEF CeilDiv
  <2>9. CASE total = 8
    BY <1>1, <2>9 DEF CeilDiv
  <2>10. CASE total = 9
    BY <1>1, <2>10 DEF CeilDiv
  <2>11. CASE total = 10
    BY <1>1, <2>11 DEF CeilDiv
  <2> QED
    BY <2>1, <2>2, <2>3, <2>4, <2>5, <2>6, <2>7, <2>8, <2>9, <2>10, <2>11
<1>3. PICK r \in Int : r = q * total
  OBVIOUS
<1>4. r \div 512 = c
  BY ONLY <1>1, <1>2, <1>3
<1> QED
  BY <1>1, <1>2, <1>3, <1>4 DEF ColumnOf, ColumnToPos, Within, MinOf, MaxOf

\* The column of any position is one of the stage.
LEMMA ColumnOfIs ==
    ASSUME NEW total \in 1 .. 10, NEW x \in Int
    PROVE  ColumnOf(x, total) \in Columns(total)
<1>1. PICK d \in Int : d = (x * total) \div 512
  OBVIOUS
<1> QED
  BY ONLY <1>1, total \in 1 .. 10 DEF ColumnOf, Columns, Within, MinOf, MaxOf

LEMMA ColumnToPosType ==
    ASSUME NEW total \in 1 .. 10, NEW c \in Int
    PROVE  ColumnToPos(c, total) \in Int
BY DEF ColumnToPos, CeilDiv

\* An object has one of the usual columns.
LEMMA GetColumnIs ==
    ASSUME NEW total \in 1 .. 10, NEW x \in Int
    PROVE  GetColumn(x, total) \in Usual(total)
<1>1. CASE total = 8
  <2>1. PICK d \in Int : d = (x * 7) \div 512
    OBVIOUS
  <2> QED
    BY <1>1, <2>1 DEF GetColumn, Usual, RandomStart, Within, MinOf, MaxOf
<1>2. CASE total # 8
  <2>1. ColumnOf(x, total) \in Columns(total)
    BY ColumnOfIs
  <2> QED
    BY <1>2, <2>1 DEF GetColumn, Usual, RandomStart, Columns
<1> QED
  BY <1>1, <1>2

\* The columns of a stage
LEMMA StageColumns ==
    ASSUME NEW total \in 1 .. 10
    PROVE  /\ Usual(total) \subseteq Columns(total) /\ Columns(total) \subseteq Int
           /\ RandomStart(total) \in 0 .. 1 /\ (RandomStart(total) = 1 <=> total = 8)
           /\ Usual(total) = IF total = 8 THEN Columns(total) \ {0} ELSE Columns(total)
           /\ \A c : c \in Usual(total) <=> c \in Int /\ RandomStart(total) <= c /\ c < total
           /\ \A c : c \in Columns(total) <=> c \in Int /\ 0 <= c /\ c < total
           /\ total - 1 \in Usual(total) /\ RandomStart(total) \in Usual(total)
           /\ IsFiniteSet(Columns(total)) /\ Cardinality(Columns(total)) = total
           /\ IsFiniteSet(Usual(total)) /\ Cardinality(Usual(total)) = total - RandomStart(total)
<1>1. RandomStart(total) \in 0 .. 1 /\ (RandomStart(total) = 1 <=> total = 8)
  BY DEF RandomStart
<1>2. IsFiniteSet(Columns(total)) /\ Cardinality(Columns(total)) = total
  <2>1. 0 \in Int /\ total - 1 \in Int /\ ~(0 > total - 1) /\ total - 1 - 0 + 1 = total
    OBVIOUS
  <2> QED
    BY <2>1, FS_Interval DEF Columns
<1>3. IsFiniteSet(Usual(total)) /\ Cardinality(Usual(total)) = total - RandomStart(total)
  <2>1. PICK a, b \in Int : a = RandomStart(total) /\ b = total - 1
    BY <1>1
  <2>2. ~(a > b) /\ b - a + 1 = total - RandomStart(total)
    BY <1>1, <2>1
  <2>3. IsFiniteSet(a .. b) /\ Cardinality(a .. b) = b - a + 1
    BY <2>2, FS_Interval
  <2> QED
    BY <2>1, <2>2, <2>3 DEF Usual
<1>4. \A c : c \in Usual(total) <=> c \in Int /\ RandomStart(total) <= c /\ c < total
  BY <1>1 DEF Usual
<1>5. \A c : c \in Columns(total) <=> c \in Int /\ 0 <= c /\ c < total
  BY DEF Columns
<1>6. /\ Usual(total) \subseteq Columns(total) /\ Columns(total) \subseteq Int
      /\ total - 1 \in Usual(total) /\ RandomStart(total) \in Usual(total)
  BY <1>1, <1>4, <1>5
<1>7. Usual(total) = IF total = 8 THEN Columns(total) \ {0} ELSE Columns(total)
  <2>1. CASE total = 8
    BY <1>1, <1>4, <1>5, <2>1
  <2>2. CASE total # 8
    BY <1>1, <1>4, <1>5, <2>2
  <2> QED
    BY <2>1, <2>2
<1> QED
  BY <1>1, <1>2, <1>3, <1>4, <1>5, <1>6, <1>7

------------------------------------------------------------------------------
(* Notes and patterns *)

NoteType == [x : Int, start_time : Int, end_time : Int]
PatternType == [hit_objects : Seq(NoteType), columns : SUBSET Int, ok : BOOLEAN]

ColumnAt(p, total, i) == ColumnOf(p.hit_objects[i].x, total)

\* A pattern knows the columns of its notes.
IsPattern(p, total) ==
    /\ p \in PatternType
    /\ p.ok
    /\ p.columns = {ColumnAt(p, total, i) : i \in DOMAIN p.hit_objects}
    /\ p.columns \subseteq Columns(total)

\* q is p with one more note in column c.
Added(q, p, c, total, start_time, end_time) ==
    /\ q \in PatternType
    /\ q.ok = p.ok
    /\ q.columns = p.columns \cup {c}
    /\ Len(p.hit_objects) \in Nat
    /\ DOMAIN p.hit_objects = 1 .. Len(p.hit_objects)
    /\ DOMAIN q.hit_objects = 1 .. Len(p.hit_objects) + 1
    /\ Len(q.hit_objects) = Len(p.hit_objects) + 1
    /\ \A i \in DOMAIN p.hit_objects : q.hit_objects[i] = p.hit_objects[i]
    /\ q.hit_objects[Len(p.hit_objects) + 1]
         = [x |-> ColumnToPos(c, total), start_time |-> start_time, end_time |-> end_time]

LEMMA NoteAdded ==
    ASSUME NEW total \in 1 .. 10, NEW p \in PatternType, NEW c \in Int,
           NEW start_time \in Int, NEW end_time \in Int
    PROVE  Added(AddNote(p, c, total, start_time, end_time), p, c, total, start_time, end_time)
<1>1. PICK notes, columns, ok : p = [hit_objects |-> notes, columns |-> columns, ok |-> ok]
                                /\ notes \in Seq(NoteType) /\ columns \in SUBSET Int
                                /\ ok \in BOOLEAN
  BY DEF PatternType
<1>2. /\ p.hit_objects = notes /\ p.columns = columns /\ p.ok = ok
  BY <1>1
<1>3. PICK note \in NoteType :
        note = [x |-> ColumnToPos(c, total), start_time |-> start_time, end_time |-> end_time]
  BY ColumnToPosType DEF NoteType
<1>4. PICK q : q = AddNote(p, c, total, start_time, end_time)
  OBVIOUS
<1>5. q = [hit_objects |-> Append(notes, note), columns |-> columns \cup {c}, ok |-> ok]
  BY <1>1, <1>3, <1>4 DEF AddNote
<1>6. PICK r : r = Append(notes, note)
  OBVIOUS
<1>7. /\ Len(notes) \in Nat /\ DOMAIN notes = 1 .. Len(notes)
      /\ r \in Seq(NoteType) /\ Len(r) = Len(notes) + 1 /\ DOMAIN r = 1 .. Len(r)
      /\ \A i \in 1 .. Len(notes) : r[i] = notes[i]
      /\ r[Len(notes) + 1] = note
  BY <1>1, <1>3, <1>6, AppendProperties
<1>8. q.hit_objects = r /\ q.columns = columns \cup {c} /\ q.ok = ok
  BY <1>5, <1>6
<1>9. q \in PatternType
  <2>1. columns \cup {c} \in SUBSET Int
    BY <1>1
  <2> QED
    BY <1>1, <1>5, <1>6, <1>7, <2>1 DEF PatternType
<1>10. Added(q, p, c, total, start_time, end_time)
  BY <1>2, <1>3, <1>7, <1>8, <1>9 DEF Added
<1> QED
  BY <1>4, <1>10

\* The old notes are still there, and note n of q is the new one.
NewNote(q, p, n, c, total, start_time, end_time) ==
    /\ n \in DOMAIN q.hit_objects /\ n \notin DOMAIN p.hit_objects
    /\ \A i \in DOMAIN q.hit_objects : i = n \/ i \in DOMAIN p.hit_objects
    /\ \A i \in DOMAIN p.hit_objects : /\ i \in DOMAIN q.hit_objects
                                       /\ q.hit_objects[i] = p.hit_objects[i]
                                       /\ ColumnAt(q, total, i) = ColumnAt(p, total, i)
    /\ ColumnAt(q, total, n) = c
    /\ q.hit_objects[n].start_time = start_time
    /\ q.hit_objects[n].end_time = end_time

LEMMA AddedNote ==
    ASSUME NEW total \in 1 .. 10, NEW p, NEW q, NEW c \in Columns(total),
           NEW start_time, NEW end_time, Added(q, p, c, total, start_time, end_time)
    PROVE  NewNote(q, p, Len(p.hit_objects) + 1, c, total, start_time, end_time)
<1>1. PICK n \in Nat : /\ n = Len(p.hit_objects) + 1 /\ n \in DOMAIN q.hit_objects
                       /\ n \notin DOMAIN p.hit_objects
  BY DEF Added
<1>2. ASSUME NEW i \in DOMAIN q.hit_objects
      PROVE  i = n \/ i \in DOMAIN p.hit_objects
  BY <1>1 DEF Added
<1>3. ASSUME NEW i \in DOMAIN p.hit_objects
      PROVE  /\ i \in DOMAIN q.hit_objects
             /\ q.hit_objects[i] = p.hit_objects[i]
             /\ ColumnAt(q, total, i) = ColumnAt(p, total, i)
  BY DEF Added, ColumnAt
<1>4. /\ q.hit_objects[n].x = ColumnToPos(c, total)
      /\ q.hit_objects[n].start_time = start_time
      /\ q.hit_objects[n].end_time = end_time
  BY <1>1 DEF Added
<1>5. ColumnAt(q, total, n) = c
  BY <1>4, ColumnOfPos DEF ColumnAt
<1> QED
  BY <1>1, <1>2, <1>3, <1>4, <1>5 DEF NewNote

\* A pattern with one more note is a pattern.
LEMMA AddedIsPattern ==
    ASSUME NEW total \in 1 .. 10, NEW p, IsPattern(p, total), NEW q, NEW c \in Columns(total),
           NEW start_time, NEW end_time, Added(q, p, c, total, start_time, end_time)
    PROVE  IsPattern(q, total)
<1>0. PICK n : NewNote(q, p, n, c, total, start_time, end_time)
  BY AddedNote
<1>1. /\ n \in DOMAIN q.hit_objects
      /\ \A i \in DOMAIN q.hit_objects : i = n \/ i \in DOMAIN p.hit_objects
      /\ \A i \in DOMAIN p.hit_objects :
           i \in DOMAIN q.hit_objects /\ ColumnAt(q, total, i) = ColumnAt(p, total, i)
      /\ ColumnAt(q, total, n) = c
  BY <1>0 DEF NewNote
<1>2. /\ q \in PatternType /\ q.ok /\ q.columns = p.columns \cup {c}
      /\ p.columns = {ColumnAt(p, total, i) : i \in DOMAIN p.hit_objects}
      /\ p.columns \subseteq Columns(total)
  BY DEF Added, IsPattern
<1>3. q.columns = {ColumnAt(q, total, i) : i \in DOMAIN q.hit_objects}
  <2>1. ASSUME NEW d \in q.columns
        PROVE  \E i \in DOMAIN q.hit_objects : d = ColumnAt(q, total, i)
    <3>1. CASE d = c
      BY <1>1, <3>1
    <3>2. CASE d \in p.columns
      BY <1>1, <1>2, <3>2
    <3> QED
      BY <1>2, <3>1, <3>2
  <2>2. ASSUME NEW i \in DOMAIN q.hit_objects
        PROVE  ColumnAt(q, total, i) \in q.columns
    <3>1. CASE i = n
      BY <1>1, <1>2, <3>1
    <3>2. CASE i \in DOMAIN p.hit_objects
      BY <1>1, <1>2, <3>2
    <3> QED
      BY <1>1, <3>1, <3>2
  <2> QED
    BY <2>1, <2>2
<1>4. q.columns \subseteq Columns(total)
  BY <1>2
<1> QED
  BY <1>2, <1>3, <1>4 DEF IsPattern

LEMMA EmptyIsPattern ==
    ASSUME NEW total
    PROVE  /\ IsPattern(EmptyPattern, total) /\ EmptyPattern \in PatternType
           /\ FailedPattern \in PatternType /\ EmptyPattern.hit_objects = <<>>
           /\ EmptyPattern.columns = {} /\ EmptyPattern.ok /\ ~FailedPattern.ok
           /\ DOMAIN EmptyPattern.hit_objects = {} /\ Len(EmptyPattern.hit_objects) = 0
<1>1. /\ EmptyPattern.hit_objects = <<>> /\ EmptyPattern.columns = {} /\ EmptyPattern.ok = TRUE
      /\ FailedPattern = [hit_objects |-> <<>>, columns |-> {}, ok |-> FALSE]
  <2>1. EmptyPattern = [hit_objects |-> <<>>, columns |-> {}, ok |-> TRUE]
    BY DEF EmptyPattern
  <2>2. FailedPattern = [[hit_objects |-> <<>>, columns |-> {}, ok |-> TRUE] EXCEPT !.ok = FALSE]
    BY <2>1 DEF FailedPattern
  <2> QED
    BY <2>1, <2>2
<1>2. <<>> \in Seq(NoteType) /\ DOMAIN <<>> = {} /\ Len(<<>>) = 0
  OBVIOUS
<1>3. EmptyPattern \in PatternType /\ FailedPattern \in PatternType
  BY <1>1, <1>2 DEF PatternType, EmptyPattern
<1> QED
  BY <1>1, <1>2, <1>3 DEF IsPattern

\* No two notes are in one column at one time.
Apart(p, total) ==
    \A i, j \in DOMAIN p.hit_objects :
        i # j /\ ColumnAt(p, total, i) = ColumnAt(p, total, j) =>
            \/ p.hit_objects[i].end_time < p.hit_objects[j].start_time
            \/ p.hit_objects[j].end_time < p.hit_objects[i].start_time

\* The notes of an object that lasts until end; the first begins with it.
IsNotes(p, total, end) ==
    /\ IsPattern(p, total)
    /\ Apart(p, total)
    /\ \A i \in DOMAIN p.hit_objects :
           p.hit_objects[i].start_time >= 0 /\ p.hit_objects[i].end_time <= end
    /\ 1 \in DOMAIN p.hit_objects => p.hit_objects[1].start_time = 0

LEMMA EmptyIsNotes ==
    ASSUME NEW total, NEW end
    PROVE  IsNotes(EmptyPattern, total, end)
BY EmptyIsPattern DEF IsNotes, Apart

\* A note joins the others if those in its column ended before, and is the
\* first of them only at the begin.
Joins(p, c, total, start_time, end_time, end) ==
    /\ c \in Columns(total)
    /\ start_time \in Int /\ end_time \in Int
    /\ start_time >= 0 /\ end_time <= end
    /\ \A i \in DOMAIN p.hit_objects :
           ColumnAt(p, total, i) = c => p.hit_objects[i].end_time < start_time
    /\ p.hit_objects = <<>> => start_time = 0

\* The pattern q that this gives
Joined(q, p, c, total, start_time, end_time, end) ==
    /\ IsNotes(q, total, end)
    /\ Added(q, p, c, total, start_time, end_time)
    /\ NewNote(q, p, Len(p.hit_objects) + 1, c, total, start_time, end_time)
    /\ q.columns = p.columns \cup {c} /\ q \in PatternType /\ q.ok
    /\ Len(q.hit_objects) = Len(p.hit_objects) + 1 /\ Len(p.hit_objects) \in Nat

LEMMA NoteJoined ==
    ASSUME NEW total \in 1 .. 10, NEW end, NEW p, IsNotes(p, total, end), NEW c,
           NEW start_time, NEW end_time, Joins(p, c, total, start_time, end_time, end),
           NEW q, q = AddNote(p, c, total, start_time, end_time)
    PROVE  Joined(q, p, c, total, start_time, end_time, end)
<1>1. /\ IsPattern(p, total) /\ Apart(p, total)
      /\ \A i \in DOMAIN p.hit_objects :
           p.hit_objects[i].start_time >= 0 /\ p.hit_objects[i].end_time <= end
      /\ 1 \in DOMAIN p.hit_objects => p.hit_objects[1].start_time = 0
  BY DEF IsNotes
<1>2. /\ c \in Columns(total)
      /\ start_time \in Int /\ end_time \in Int
      /\ start_time >= 0 /\ end_time <= end
      /\ \A i \in DOMAIN p.hit_objects :
           ColumnAt(p, total, i) = c => p.hit_objects[i].end_time < start_time
      /\ p.hit_objects = <<>> => start_time = 0
  BY DEF Joins
<1>3. Added(q, p, c, total, start_time, end_time)
  <2>1. p \in PatternType /\ c \in Int
    BY <1>1, <1>2, StageColumns DEF IsPattern
  <2> QED
    BY <1>2, <2>1, NoteAdded
<1>4. PICK n : n = Len(p.hit_objects) + 1 /\ NewNote(q, p, n, c, total, start_time, end_time)
  BY <1>2, <1>3, AddedNote
<1>5. IsPattern(q, total)
  BY <1>1, <1>2, <1>3, AddedIsPattern
<1>6. /\ \A i \in DOMAIN q.hit_objects : i = n \/ i \in DOMAIN p.hit_objects
      /\ \A i \in DOMAIN p.hit_objects : /\ q.hit_objects[i] = p.hit_objects[i]
                                         /\ ColumnAt(q, total, i) = ColumnAt(p, total, i)
      /\ ColumnAt(q, total, n) = c
      /\ q.hit_objects[n].start_time = start_time
      /\ q.hit_objects[n].end_time = end_time
  BY <1>4 DEF NewNote
<1>7. Apart(q, total)
  <2>1. ASSUME NEW i \in DOMAIN q.hit_objects, NEW j \in DOMAIN q.hit_objects, i # j,
               ColumnAt(q, total, i) = ColumnAt(q, total, j)
        PROVE  \/ q.hit_objects[i].end_time < q.hit_objects[j].start_time
               \/ q.hit_objects[j].end_time < q.hit_objects[i].start_time
    <3>1. CASE i = n
      <4>1. j \in DOMAIN p.hit_objects
        BY <1>6, <2>1, <3>1
      <4> QED
        BY <1>2, <1>6, <2>1, <3>1, <4>1
    <3>2. CASE j = n
      <4>1. i \in DOMAIN p.hit_objects
        BY <1>6, <2>1, <3>2
      <4> QED
        BY <1>2, <1>6, <2>1, <3>2, <4>1
    <3>3. CASE i \in DOMAIN p.hit_objects /\ j \in DOMAIN p.hit_objects
      BY <1>1, <1>6, <2>1, <3>3 DEF Apart
    <3> QED
      BY <1>6, <3>1, <3>2, <3>3
  <2> QED
    BY <2>1 DEF Apart
<1>8. ASSUME NEW i \in DOMAIN q.hit_objects
      PROVE  q.hit_objects[i].start_time >= 0 /\ q.hit_objects[i].end_time <= end
  <2>1. CASE i = n
    BY <1>2, <1>6, <2>1
  <2>2. CASE i \in DOMAIN p.hit_objects
    BY <1>1, <1>6, <2>2
  <2> QED
    BY <1>6, <2>1, <2>2
<1>9. Len(p.hit_objects) \in Nat /\ DOMAIN p.hit_objects = 1 .. Len(p.hit_objects)
  BY <1>3 DEF Added
<1>10. q.hit_objects[1].start_time = 0
  <2>1. CASE 1 \in DOMAIN p.hit_objects
    BY <1>1, <1>6, <2>1
  <2>2. CASE 1 \notin DOMAIN p.hit_objects
    <3>1. n = 1 /\ Len(p.hit_objects) = 0
      BY <1>4, <1>9, <2>2
    <3>2. p.hit_objects = <<>>
      <4>1. p.hit_objects \in Seq(NoteType)
        BY <1>1 DEF IsPattern, PatternType
      <4> QED
        BY <3>1, <4>1, EmptySeq
    <3> QED
      BY <1>2, <1>6, <3>1, <3>2
  <2> QED
    BY <2>1, <2>2
<1>11. IsNotes(q, total, end)
  BY <1>5, <1>7, <1>8, <1>10 DEF IsNotes
<1>12. /\ q.columns = p.columns \cup {c} /\ q \in PatternType /\ q.ok
       /\ Len(q.hit_objects) = Len(p.hit_objects) + 1
  BY <1>1, <1>3 DEF Added, IsPattern
<1> QED
  BY <1>3, <1>4, <1>9, <1>11, <1>12 DEF Joined

\* Each note has a column of its own.
IsSized(p, total, end, m) ==
    /\ IsNotes(p, total, end) /\ Len(p.hit_objects) = m
    /\ IsFiniteSet(p.columns) /\ Cardinality(p.columns) = m

LEMMA EmptyIsSized ==
    ASSUME NEW total, NEW end
    PROVE  IsSized(EmptyPattern, total, end, 0)
BY EmptyIsPattern, EmptyIsNotes, FS_EmptySet DEF IsSized

\* q is p with a note in a column of its own, the one of number m.
AddedAlone(q, p, c, total, start_time, end_time, end, m) ==
    /\ IsSized(q, total, end, m) /\ q.columns = p.columns \cup {c}
    /\ q \in PatternType /\ q.ok /\ Added(q, p, c, total, start_time, end_time)

LEMMA AddedToSized ==
    ASSUME NEW total \in 1 .. 10, NEW end, NEW m \in Nat, NEW p, IsSized(p, total, end, m),
           NEW k, k = m + 1,
           NEW c \in Columns(total), c \notin p.columns,
           NEW start_time \in Int, NEW end_time \in Int, start_time >= 0, end_time <= end,
           m = 0 => start_time = 0,
           NEW q, q = AddNote(p, c, total, start_time, end_time)
    PROVE  AddedAlone(q, p, c, total, start_time, end_time, end, k)
<1>1. /\ IsNotes(p, total, end) /\ IsPattern(p, total) /\ Len(p.hit_objects) = m
      /\ IsFiniteSet(p.columns) /\ Cardinality(p.columns) = m
  BY DEF IsSized, IsNotes
<1>2. ASSUME NEW i \in DOMAIN p.hit_objects
      PROVE  ColumnAt(p, total, i) # c
  BY <1>1 DEF IsPattern
<1>3. p.hit_objects = <<>> => m = 0
  BY <1>1
<1>4. Joins(p, c, total, start_time, end_time, end)
  BY <1>2, <1>3 DEF Joins
<1>5. /\ IsNotes(q, total, end) /\ Added(q, p, c, total, start_time, end_time)
      /\ q.columns = p.columns \cup {c} /\ q \in PatternType /\ q.ok
      /\ Len(q.hit_objects) = m + 1
  <2>1. Joined(q, p, c, total, start_time, end_time, end)
    BY <1>1, <1>4, NoteJoined
  <2> QED
    BY <1>1, <2>1 DEF Joined
<1>6. IsFiniteSet(q.columns) /\ Cardinality(q.columns) = m + 1
  <2>1. PICK S : S = p.columns
    OBVIOUS
  <2>2. IsFiniteSet(S) /\ Cardinality(S) = m /\ c \notin S
    BY <1>1, <2>1
  <2>3. IsFiniteSet(S \cup {c}) /\ Cardinality(S \cup {c}) = Cardinality(S) + 1
    BY <2>2, FS_AddElement
  <2> QED
    BY <1>5, <2>1, <2>2, <2>3
<1> QED
  BY <1>5, <1>6 DEF IsSized, AddedAlone

\* As long as few columns are taken, there is another one.
LEMMA FreeColumn ==
    ASSUME NEW U, IsFiniteSet(U), NEW S, IsFiniteSet(S), NEW T, IsFiniteSet(T),
           Cardinality(S) + Cardinality(T) < Cardinality(U)
    PROVE  \E c \in U : c \notin S /\ c \notin T
<1>1. SUFFICES ASSUME U \subseteq S \cup T
               PROVE  FALSE
  OBVIOUS
<1>2. /\ IsFiniteSet(S \cup T)
      /\ Cardinality(S \cup T) = Cardinality(S) + Cardinality(T) - Cardinality(S \cap T)
  BY FS_Union
<1>3. Cardinality(U) <= Cardinality(S \cup T)
  BY <1>1, <1>2, FS_Subset
<1>4. IsFiniteSet(S \cap T)
  BY FS_Subset
<1>5. /\ Cardinality(U) \in Nat /\ Cardinality(S \cap T) \in Nat
      /\ Cardinality(S) \in Nat /\ Cardinality(T) \in Nat
  BY <1>4, FS_CardinalityType
<1> QED
  BY <1>2, <1>3, <1>5

\* What find_available_column may find
LEMMA FindAvailableIs ==
    ASSUME NEW total \in 1 .. 10, NEW initial \in Usual(total), NEW valid
    PROVE  LET found == FindAvailable(initial, valid, RandomStart(total), total)
           IN  /\ found \subseteq valid /\ found \subseteq Usual(total)
               /\ valid \cap Usual(total) # {} => found # {}
<1>1. CASE initial \in valid
  BY <1>1 DEF FindAvailable
<1>2. CASE initial \notin valid
  <2>1. FindAvailable(initial, valid, RandomStart(total), total) = valid \cap Usual(total)
    BY <1>2 DEF FindAvailable, Usual
  <2> QED
    BY <2>1
<1> QED
  BY <1>1, <1>2

\* With GATHERED there is one next column.
LEMMA GatheredIs ==
    ASSUME NEW total \in 1 .. 10, NEW last \in Usual(total), NEW valid, valid # {},
           valid \subseteq Usual(total)
    PROVE  Gathered(valid, last, total) # {} /\ Gathered(valid, last, total) \subseteq valid
<1> DEFINE Steps(c) == IF c > last THEN c - last ELSE c - last + total
           T == {Steps(c) : c \in valid}
<1>1. /\ last \in Int /\ 0 <= last /\ last < total
      /\ \A c \in valid : c \in Int /\ 0 <= c /\ c < total
  BY StageColumns
<1>2. \A c \in valid : Steps(c) \in Nat
  BY <1>1
<1>3. \E c \in valid : \A d \in valid : Steps(c) <= Steps(d)
  <2> HIDE DEF Steps
  <2>1. T \in SUBSET Nat /\ T # {}
    BY <1>2
  <2>2. PICK x \in T : \A y \in T : x <= y
    <3> HIDE DEF T
    <3> QED
      BY <2>1, LeastNatural
  <2> QED
    BY <2>2
<1> DEFINE best == CHOOSE c \in valid : \A d \in valid : Steps(c) <= Steps(d)
<1>4. best \in valid
  <2> HIDE DEF Steps
  <2> QED
    BY <1>3
<1>5. Gathered(valid, last, total) = {best}
  BY DEF Gathered
<1> HIDE DEF best
<1> QED
  BY <1>4, <1>5

------------------------------------------------------------------------------
(* Circles *)

\* With eight columns a pattern is not the special column alone, and leaves two
\* of the others.
Roomy(columns, total) ==
    total = 8 => columns # {0} /\ \E c, d \in Usual(total) \ columns : c # d

LEMMA RoomyIsSmall ==
    ASSUME NEW columns, columns \subseteq Columns(8), Roomy(columns, 8)
    PROVE  IsFiniteSet(columns) /\ Cardinality(columns) <= 6
<1>1. PICK c \in Usual(8), d \in Usual(8) : c # d /\ c \notin columns /\ d \notin columns
  BY DEF Roomy
<1>2. /\ IsFiniteSet(Columns(8)) /\ Cardinality(Columns(8)) = 8
      /\ c \in Columns(8) /\ d \in Columns(8)
  <2>1. 8 \in 1 .. 10
    OBVIOUS
  <2> QED
    BY <1>1, <2>1, StageColumns
<1>3. IsFiniteSet(columns) /\ Cardinality(columns) \in Nat
  BY <1>2, FS_Subset, FS_CardinalityType
<1>4. IsFiniteSet(columns \cup {c}) /\ Cardinality(columns \cup {c}) = Cardinality(columns) + 1
  BY <1>1, <1>3, FS_AddElement
<1>5. PICK S : S = columns \cup {c}
  OBVIOUS
<1>6. d \notin S /\ IsFiniteSet(S) /\ Cardinality(S) = Cardinality(columns) + 1
  BY <1>1, <1>4, <1>5
<1>7. Cardinality(S \cup {d}) = Cardinality(columns) + 1 + 1
  BY <1>6, FS_AddElement
<1>8. S \cup {d} \subseteq Columns(8)
  BY <1>2, <1>5
<1>9. Cardinality(S \cup {d}) <= 8
  <2>1. PICK T : T = S \cup {d}
    OBVIOUS
  <2>2. T \subseteq Columns(8)
    BY <1>8, <2>1
  <2>3. Cardinality(T) <= Cardinality(Columns(8))
    BY <1>2, <2>2, FS_Subset
  <2> QED
    BY <1>2, <2>1, <2>3
<1> QED
  BY <1>3, <1>7, <1>9

\* A few columns leave others.
LEMMA FewAreRoomy ==
    ASSUME NEW total \in 1 .. 10, NEW columns, IsFiniteSet(columns), Cardinality(columns) <= 5,
           columns # {0}
    PROVE  Roomy(columns, total)
<1> SUFFICES ASSUME total = 8
             PROVE  \E c, d \in Usual(total) \ columns : c # d
  BY DEF Roomy
<1>1. IsFiniteSet(Usual(total)) /\ Cardinality(Usual(total)) = 7
  BY StageColumns
<1>2. Cardinality(columns) \in Nat
  BY FS_CardinalityType
<1>3. PICK c \in Usual(total) : c \notin columns
  <2>1. IsFiniteSet({}) /\ Cardinality({}) = 0
    BY FS_EmptySet
  <2> QED
    BY <1>1, <1>2, <2>1, FreeColumn
<1>4. PICK d \in Usual(total) : d \notin columns /\ d \notin {c}
  <2>1. IsFiniteSet({c}) /\ Cardinality({c}) = 1
    BY FS_Singleton
  <2>2. Cardinality(columns) + Cardinality({c}) < Cardinality(Usual(total))
    BY <1>1, <1>2, <2>1
  <2> QED
    BY <1>1, <2>1, <2>2, FreeColumn
<1> QED
  BY <1>3, <1>4

\* What is known of a pattern when the next object asks
IsSummary(prev, total) ==
    /\ prev.columns \subseteq Columns(total)
    /\ prev.objects \in 0 .. 2
    /\ prev.objects = 0 <=> prev.columns = {}
    /\ prev.objects > 0 => prev.last_column \in prev.columns
    /\ prev.objects = 1 => prev.columns = {prev.last_column}
    /\ Roomy(prev.columns, total)

IsGen(gen) ==
    /\ gen.total \in 1 .. 10
    /\ gen.obj.x \in Int
    /\ IsSummary(gen.prev, gen.total)

\* A pattern under way and the column of its last note
Partial(total) == [pattern : PatternType, next : Usual(total)]

\* The columns that generate_random_notes leaves alone
TakenColumns(gen) == IF AllowStacking(gen) THEN {} ELSE gen.prev.columns

SizeOfRandomNotes(gen, note_count) == MaxOf(Placeable(gen, note_count), 0)

\* No more notes are asked for than there are columns.
LEMMA PlaceableFits ==
    ASSUME NEW gen, IsGen(gen), NEW note_count \in Nat,
           AllowStacking(gen) => note_count <= gen.total - RandomStart(gen.total)
    PROVE  /\ SizeOfRandomNotes(gen, note_count) \in Nat
           /\ SizeOfRandomNotes(gen, note_count) <= note_count
           /\ IsFiniteSet(TakenColumns(gen))
           /\ SizeOfRandomNotes(gen, note_count) > 0 =>
                SizeOfRandomNotes(gen, note_count) + Cardinality(TakenColumns(gen))
                    <= Cardinality(Usual(gen.total))
<1>1. PICK total \in 1 .. 10 : total = gen.total
  BY DEF IsGen
<1>2. PICK lower \in 0 .. 1 : lower = RandomStart(total)
  BY StageColumns
<1>3. IsFiniteSet(gen.prev.columns)
  <2>1. gen.prev.columns \subseteq Columns(total)
    BY <1>1 DEF IsGen, IsSummary
  <2>2. IsFiniteSet(Columns(total))
    BY StageColumns
  <2> QED
    BY <2>1, <2>2, FS_Subset
<1>4. PICK taken \in Nat : taken = Cardinality(gen.prev.columns)
  BY <1>3, FS_CardinalityType
<1>5. Cardinality(Usual(total)) = total - lower
  BY <1>2, StageColumns
<1>6. CASE AllowStacking(gen)
  <2>1. SizeOfRandomNotes(gen, note_count) = note_count
    BY <1>6 DEF SizeOfRandomNotes, Placeable, MaxOf
  <2>2. TakenColumns(gen) = {}
    BY <1>6 DEF TakenColumns
  <2>3. IsFiniteSet({}) /\ Cardinality({}) = 0
    BY FS_EmptySet
  <2> QED
    BY <1>1, <1>2, <1>5, <1>6, <2>1, <2>2, <2>3
<1>7. CASE ~AllowStacking(gen)
  <2>1. SizeOfRandomNotes(gen, note_count) = MaxOf(MinOf(total - lower - taken, note_count), 0)
    BY <1>1, <1>2, <1>4, <1>7 DEF SizeOfRandomNotes, Placeable
  <2>2. TakenColumns(gen) = gen.prev.columns
    BY <1>7 DEF TakenColumns
  <2>3. PICK size \in Nat : /\ size = MaxOf(MinOf(total - lower - taken, note_count), 0)
                            /\ size <= note_count /\ (size > 0 => size + taken <= total - lower)
    BY DEF MaxOf, MinOf
  <2> QED
    BY <1>1, <1>3, <1>4, <1>5, <2>1, <2>2, <2>3
<1> QED
  BY <1>6, <1>7

\* generate_random_notes finds a column of its own for each note, and one that
\* is not taken.
LEMMA RandomNotesAre ==
    ASSUME NEW gen, IsGen(gen), NEW note_count \in Nat,
           AllowStacking(gen) => note_count <= gen.total - RandomStart(gen.total),
           NEW p \in RandomNotes(gen, note_count)
    PROVE  /\ IsSized(p, gen.total, 0, SizeOfRandomNotes(gen, note_count))
           /\ p.columns \subseteq Usual(gen.total) \ TakenColumns(gen)
<1> DEFINE
    taken == TakenColumns(gen)
    Valid(s) == Columns(gen.total) \ (s.pattern.columns \cup taken)
    Found(s) == IF s.next \in Valid(s) THEN {s.next}
                ELSE IF "GATHERED" \in gen.type /\ Valid(s) \cap Usual(gen.total) # {}
                THEN Gathered(Valid(s) \cap Usual(gen.total), s.next, gen.total)
                ELSE FindAvailable(s.next, Valid(s), RandomStart(gen.total), gen.total)
    Place(s, k) == IF ~s.pattern.ok THEN {s}
                   ELSE IF Found(s) = {} THEN {[s EXCEPT !.pattern = FailedPattern]}
                   ELSE {[pattern |-> Note(gen, s.pattern, c), next |-> c] : c \in Found(s)}
    base == {[pattern |-> EmptyPattern, next |-> GetColumn(gen.obj.x, gen.total)]}
    n == SizeOfRandomNotes(gen, note_count)
    Iter(h) == [k \in 0 .. n |-> IF k = 0 THEN base ELSE UNION {Place(s, k) : s \in h[k - 1]}]
    h == CHOOSE h : h = Iter(h)
    I(k) == {s \in Partial(gen.total) : /\ IsSized(s.pattern, gen.total, 0, k)
                                        /\ s.pattern.columns \subseteq Usual(gen.total) \ taken}
<1>1. RandomNotes(gen, note_count) = {s.pattern : s \in h[n]}
  BY DEF RandomNotes, TakenColumns, SizeOfRandomNotes
<1>2. PICK total \in 1 .. 10 : total = gen.total
  BY DEF IsGen
<1>3. /\ n \in Nat /\ IsFiniteSet(taken)
      /\ n > 0 => n + Cardinality(taken) <= Cardinality(Usual(total))
  BY <1>2, PlaceableFits
<1>4. base \in SUBSET I(0)
  <2>1. GetColumn(gen.obj.x, gen.total) \in Usual(total) /\ gen.obj.x \in Int
    BY <1>2, GetColumnIs DEF IsGen
  <2>2. IsSized(EmptyPattern, total, 0, 0) /\ EmptyPattern \in PatternType
        /\ EmptyPattern.columns = {}
    BY EmptyIsSized, EmptyIsPattern
  <2> QED
    BY <1>2, <2>1, <2>2 DEF Partial
<1>5. ASSUME NEW k \in 1 .. n, NEW s \in I(k - 1)
      PROVE  Place(s, k) \subseteq I(k)
  <2>1. /\ s \in Partial(total) /\ IsSized(s.pattern, total, 0, k - 1)
        /\ s.pattern.columns \subseteq Usual(total) \ taken
        /\ s.next \in Usual(total) /\ s.pattern \in PatternType
    BY <1>2 DEF Partial
  <2>2. s.pattern.ok /\ IsFiniteSet(s.pattern.columns) /\ Cardinality(s.pattern.columns) = k - 1
    BY <2>1 DEF IsSized, IsNotes, IsPattern
  <2>3. \E c \in Usual(total) : c \notin s.pattern.columns /\ c \notin taken
    <3> HIDE DEF taken, n
    <3>1. IsFiniteSet(Usual(total)) /\ Cardinality(Usual(total)) \in Nat
      BY StageColumns, FS_CardinalityType
    <3>2. Cardinality(s.pattern.columns) + Cardinality(taken) < Cardinality(Usual(total))
      <4>1. Cardinality(taken) \in Nat
        BY <1>3, FS_CardinalityType
      <4> QED
        BY <1>3, <2>2, <3>1, <4>1
    <3> QED
      BY <1>3, <2>2, <3>1, <3>2, FreeColumn
  <2>4. Valid(s) \cap Usual(total) # {}
    BY <1>2, <2>3, StageColumns
  <2>5. Found(s) # {} /\ Found(s) \subseteq Valid(s) /\ Found(s) \subseteq Usual(total)
    <3> DEFINE valid == Valid(s)
    <3>1. PICK found : found = Found(s)
      OBVIOUS
    <3>2. found = IF s.next \in valid THEN {s.next}
                  ELSE IF "GATHERED" \in gen.type /\ valid \cap Usual(total) # {}
                  THEN Gathered(valid \cap Usual(total), s.next, total)
                  ELSE FindAvailable(s.next, valid, RandomStart(total), total)
      BY <1>2, <3>1
    <3>3. valid \cap Usual(total) # {}
      BY <2>4
    <3> HIDE DEF valid
    <3>4. found # {} /\ found \subseteq valid /\ found \subseteq Usual(total)
      <4>1. CASE s.next \in valid
        BY <2>1, <3>2, <4>1
      <4>2. CASE s.next \notin valid /\ "GATHERED" \in gen.type
        <5>1. found = Gathered(valid \cap Usual(total), s.next, total)
          BY <3>2, <3>3, <4>2
        <5>2. found # {} /\ found \subseteq valid \cap Usual(total)
          BY <2>1, <3>3, <5>1, GatheredIs
        <5> QED
          BY <5>2
      <4>3. CASE s.next \notin valid /\ "GATHERED" \notin gen.type
        <5>1. found = FindAvailable(s.next, valid, RandomStart(total), total)
          BY <3>2, <4>3
        <5> QED
          BY <2>1, <3>3, <5>1, FindAvailableIs
      <4> QED
        BY <4>1, <4>2, <4>3
    <3> USE DEF valid
    <3> QED
      BY <3>1, <3>4
  <2>6. Place(s, k) = {[pattern |-> Note(gen, s.pattern, c), next |-> c] : c \in Found(s)}
    <3> HIDE DEF Found
    <3> QED
      BY <2>2, <2>5
  <2>7. ASSUME NEW c \in Found(s)
        PROVE  [pattern |-> Note(gen, s.pattern, c), next |-> c] \in I(k)
    <3>1. /\ c \in Usual(total) /\ c \in Columns(total) /\ c \notin s.pattern.columns
          /\ c \notin taken
      BY <1>2, <2>5
    <3>2. PICK q : q = Note(gen, s.pattern, c)
      OBVIOUS
    <3>3. q = AddNote(s.pattern, c, total, 0, 0)
      BY <1>2, <3>2 DEF Note
    <3>4. PICK m \in Nat : m = k - 1 /\ m + 1 = k
      BY <1>3
    <3> HIDE DEF n, taken, Found
    <3>5. AddedAlone(q, s.pattern, c, total, 0, 0, 0, m + 1)
      <4>1. IsSized(s.pattern, total, 0, m)
        BY <2>1, <3>4
      <4> QED
        BY <3>1, <3>3, <4>1, AddedToSized
    <3>6. /\ IsSized(q, total, 0, k) /\ q.columns = s.pattern.columns \cup {c}
          /\ q \in PatternType
      BY <3>4, <3>5 DEF AddedAlone
    <3> HIDE DEF taken, Found
    <3> QED
      BY <1>2, <2>1, <3>1, <3>2, <3>6 DEF Partial
  <2> QED
    <3> HIDE DEF Place, I, Found
    <3> QED
      BY <2>6, <2>7
<1>6. ASSUME NEW s \in I(n)
      PROVE  /\ IsSized(s.pattern, gen.total, 0, n)
             /\ s.pattern.columns \subseteq Usual(gen.total) \ taken
  OBVIOUS
<1>7. h[n] \subseteq I(n)
  <2> DEFINE If == [k \in 0 .. n |-> I(k)]
             P == [k \in 1 .. n |-> [s \in I(k - 1) |-> Place(s, k)]]
  <2>0. n \in Nat /\ \A k \in 1 .. n : k \in 0 .. n /\ k - 1 \in 0 .. n /\ k # 0
    <3> HIDE DEF n
    <3> QED
      BY <1>3
  <2>1. /\ \A k \in 0 .. n : If[k] = I(k)
        /\ \A k \in 1 .. n : \A s \in I(k - 1) : P[k][s] = Place(s, k)
    <3> HIDE DEF Place, I, n
    <3> QED
      OBVIOUS
  <2>2. PICK f : IsReached(f, P, If, base, n)
    <3> HIDE DEF Place, I, n, If, P, base
    <3>1. base \in SUBSET If[0]
      BY <1>4, <2>0, <2>1
    <3>2. \A k \in 1 .. n : \A s \in If[k - 1] : P[k][s] \subseteq If[k]
      BY <1>5, <2>0, <2>1
    <3> QED
      BY <2>0, <3>1, <3>2, ReachedExists
  <2>3. f = Iter(f)
    <3>1. ASSUME NEW k \in 0 .. n
          PROVE  (IF k = 0 THEN base ELSE UNION {P[k][s] : s \in f[k - 1]})
                   = IF k = 0 THEN base ELSE UNION {Place(s, k) : s \in f[k - 1]}
      <4> HIDE DEF Place, I, n, If, P, base
      <4>1. CASE k # 0
        <5>1. k \in 1 .. n /\ k - 1 \in 0 .. n
          BY <2>0, <4>1
        <5>2. f[k - 1] \subseteq I(k - 1)
          BY <2>1, <2>2, <5>1 DEF IsReached
        <5>3. \A s \in f[k - 1] : P[k][s] = Place(s, k)
          BY <2>1, <5>1, <5>2
        <5>4. UNION {P[k][s] : s \in f[k - 1]} = UNION {Place(s, k) : s \in f[k - 1]}
          BY <5>3
        <5> QED
          BY <4>1, <5>4
      <4> QED
        BY <4>1
    <3> HIDE DEF Place, I, n, If, P, base
    <3> QED
      BY <2>2, <3>1 DEF IsReached
  <2>4. h = Iter(h)
    <3> HIDE DEF Iter
    <3> QED
      BY <2>3
  <2>5. h[0] = base /\ \A k \in 1 .. n : h[k] = UNION {Place(s, k) : s \in h[k - 1]}
    <3> HIDE DEF h, n, base, Place
    <3>1. ASSUME NEW k \in 0 .. n
          PROVE  h[k] = IF k = 0 THEN base ELSE UNION {Place(s, k) : s \in h[k - 1]}
      BY ONLY <2>4
    <3>2. h[0] = base
      <4>1. 0 \in 0 .. n
        BY <2>0
      <4> QED
        BY <3>1, <4>1
    <3>3. ASSUME NEW k \in 1 .. n
          PROVE  h[k] = UNION {Place(s, k) : s \in h[k - 1]}
      <4>1. k \in 0 .. n /\ k # 0
        BY <2>0
      <4> QED
        BY <3>1, <4>1, Zenon
    <3> QED
      BY <3>2, <3>3
  <2> DEFINE J == [k \in 0 .. n |-> SUBSET I(k)]
  <2>6. \A k \in 0 .. n : J[k] = SUBSET I(k)
    <3> HIDE DEF I, n
    <3> QED
      OBVIOUS
  <2> HIDE DEF h, n, base, J, I, Place
  <2>7. h[0] \in J[0]
    BY <1>4, <2>0, <2>5, <2>6
  <2>8. \A k \in 1 .. n : h[k - 1] \in J[k - 1] => h[k] \in J[k]
    <3>1. ASSUME NEW k \in 1 .. n, h[k - 1] \in J[k - 1]
          PROVE  h[k] \in J[k]
      <4>1. h[k - 1] \subseteq I(k - 1)
        BY <2>0, <2>6, <3>1
      <4>2. UNION {Place(s, k) : s \in h[k - 1]} \subseteq I(k)
        BY <1>5, <4>1
      <4> QED
        BY <2>0, <2>5, <2>6, <4>2
    <3> QED
      BY <3>1
  <2>9. h[n] \in J[n]
    BY <2>0, <2>7, <2>8, StepsKeep
  <2> QED
    BY <2>0, <2>6, <2>9
<1> QED
  <2> HIDE DEF I, h
  <2> QED
    BY <1>1, <1>6, <1>7

\* The counts that a probability of zero excludes
LEMMA NoteCountsBelow ==
    ASSUME NEW p2, NEW p3, NEW p4, NEW p5, NEW n \in RandomNoteCounts(p2, p3, p4, p5)
    PROVE  /\ n \in 1 .. 5
           /\ (p2 = 0 => n # 2) /\ (p3 = 0 => n # 3) /\ (p4 = 0 => n # 4) /\ (p5 = 0 => n # 5)
<1> DEFINE p == <<100, p2, p3, p4, p5>>
<1>1. n \in 1 .. 5 /\ p[n] > 0
  BY DEF RandomNoteCounts
<1>2. p[2] = p2 /\ p[3] = p3 /\ p[4] = p4 /\ p[5] = p5
  OBVIOUS
<1> HIDE DEF p
<1> QED
  BY <1>1, <1>2

\* get_random_note_count never gives more notes than there are columns.
LEMMA NoteCountsFit ==
    ASSUME NEW gen, IsGen(gen), gen.total # 1, NEW p2, NEW p3, NEW p4, NEW p5,
           NEW n \in NoteCounts(gen, p2, p3, p4, p5)
    PROVE  n \in 1 .. 5 /\ n <= gen.total - RandomStart(gen.total)
           /\ (p4 = 0 /\ p5 = 0 => n <= 3)
<1>1. PICK total \in 1 .. 10 : total = gen.total
  BY DEF IsGen
<1>2. PICK q2, q3, q4, q5 :
        /\ n \in RandomNoteCounts(q2, q3, q4, q5)
        /\ total \in {2, 3} => q3 = 0
        /\ total \in 2 .. 4 => q4 = 0
        /\ total \in 2 .. 5 => q5 = 0
        /\ p4 = 0 => q4 = 0
        /\ p5 = 0 => q5 = 0
  <2> DEFINE q2 == CASE total = 2 -> 0 [] total = 3 -> MinOf(p2, 10) [] total = 4 -> MinOf(p2, 23)
                     [] OTHER -> p2
             q3 == CASE total \in {2, 3} -> 0 [] total = 4 -> MinOf(p3, 4)
                     [] total = 5 -> MinOf(p3, 15) [] OTHER -> p3
             q4 == CASE total \in 2 .. 4 -> 0 [] total = 5 -> MinOf(p4, 3) [] OTHER -> p4
             q5 == IF total \in 2 .. 5 THEN 0 ELSE p5
  <2>1. n \in RandomNoteCounts(IF "CLAP" \in gen.obj.sample THEN 100 ELSE q2, q3, q4, q5)
    BY <1>1 DEF NoteCounts
  <2>2. total \in {2, 3} => q3 = 0
    OBVIOUS
  <2>3. (total \in 2 .. 4 => q4 = 0) /\ (p4 = 0 => q4 = 0)
    BY DEF MinOf
  <2>4. (total \in 2 .. 5 => q5 = 0) /\ (p5 = 0 => q5 = 0)
    OBVIOUS
  <2> HIDE DEF q2, q3, q4, q5
  <2> QED
    BY <2>1, <2>2, <2>3, <2>4
<1>3. /\ n \in 1 .. 5
      /\ (q3 = 0 => n # 3) /\ (q4 = 0 => n # 4) /\ (q5 = 0 => n # 5)
  BY <1>2, NoteCountsBelow
<1>4. n <= total - RandomStart(total)
  <2>1. RandomStart(total) = IF total = 8 THEN 1 ELSE 0
    BY DEF RandomStart
  <2> QED
    BY ONLY <1>1, <1>2, <1>3, <2>1, gen.total # 1
<1> QED
  BY <1>1, <1>2, <1>3, <1>4

\* A circle that must not be stacked has notes only beside the columns before
\* it, other than the special one, and none only if no column was left.
Beside(columns, gen) ==
    /\ columns \cap gen.prev.columns \subseteq (IF gen.total = 8 THEN {0} ELSE {})
    /\ columns = {} => Usual(gen.total) \subseteq gen.prev.columns

\* What the generator makes of a circle
IsCircle(p, gen) ==
    /\ IsNotes(p, gen.total, 0)
    /\ Roomy(p.columns, gen.total)
    /\ ~AllowStacking(gen) => Beside(p.columns, gen)

\* Notes are missing only if the pattern before filled the stage.
LEMMA NotesForColumns ==
    ASSUME NEW gen, IsGen(gen), NEW n \in Nat, n # 0, SizeOfRandomNotes(gen, n) = 0
    PROVE  gen.total # 8 /\ Usual(gen.total) \subseteq gen.prev.columns
<1>1. PICK total \in 1 .. 10 : total = gen.total
  BY DEF IsGen
<1>2. PICK S : S = gen.prev.columns
  OBVIOUS
<1>3. S \subseteq Columns(total) /\ Roomy(S, total)
  BY <1>1, <1>2 DEF IsGen, IsSummary
<1>4. /\ IsFiniteSet(Columns(total)) /\ Cardinality(Columns(total)) = total
      /\ RandomStart(total) = IF total = 8 THEN 1 ELSE 0
  BY StageColumns DEF RandomStart
<1>5. IsFiniteSet(S) /\ Cardinality(S) \in Nat
  BY <1>3, <1>4, FS_Subset, FS_CardinalityType
<1>6. total - RandomStart(total) <= Cardinality(S)
  <2>1. CASE AllowStacking(gen)
    BY <2>1 DEF SizeOfRandomNotes, Placeable, MaxOf
  <2>2. CASE ~AllowStacking(gen)
    <3>1. PICK r \in Nat, m \in Nat : r = RandomStart(total) /\ m = Cardinality(S)
      BY <1>4, <1>5
    <3>2. MaxOf(MinOf(total - r - m, n), 0) = 0
      BY <1>1, <1>2, <2>2, <3>1 DEF SizeOfRandomNotes, Placeable
    <3>3. total - r <= m
      BY ONLY <3>2, n \in Nat, n # 0, r \in Nat, m \in Nat, total \in 1 .. 10 DEF MaxOf, MinOf
    <3> QED
      BY <3>1, <3>3
  <2> QED
    BY <2>1, <2>2
<1>7. total # 8
  <2>1. CASE total = 8
    <3>1. Cardinality(S) <= 6
      BY <1>3, <2>1, RoomyIsSmall
    <3> QED
      BY <1>4, <1>5, <1>6, <2>1, <3>1
  <2> QED
    BY <2>1
<1>8. S = Columns(total)
  <2>1. Cardinality(S) >= Cardinality(Columns(total))
    BY <1>4, <1>5, <1>6, <1>7
  <2>2. Cardinality(S) <= Cardinality(Columns(total))
    BY <1>3, <1>4, FS_Subset
  <2>3. Cardinality(S) = Cardinality(Columns(total))
    BY <1>4, <1>5, <2>1, <2>2
  <2> QED
    BY <1>3, <1>4, <2>3, FS_Subset
<1> QED
  BY <1>1, <1>2, <1>7, <1>8, StageColumns

\* generate_random_pattern, and generate_random_notes for one note
LEMMA RandomNotesAreCircle ==
    ASSUME NEW gen, IsGen(gen), gen.total # 1, NEW n \in 1 .. 5,
           n <= gen.total - RandomStart(gen.total), gen.total = 8 => n <= 3,
           NEW p \in WithSpecial(gen, RandomNotes(gen, n)) \cup RandomNotes(gen, n)
    PROVE  IsCircle(p, gen)
<1>1. PICK total \in 1 .. 10 : total = gen.total
  BY DEF IsGen
<1>2. PICK m \in Nat : m = SizeOfRandomNotes(gen, n) /\ m <= n
  BY PlaceableFits
<1>3. ASSUME NEW q \in RandomNotes(gen, n)
      PROVE  IsSized(q, total, 0, m) /\ q.columns \subseteq Usual(total) \ TakenColumns(gen)
  BY <1>1, <1>2, RandomNotesAre
<1>4. m = 0 => total # 8 /\ Usual(gen.total) \subseteq gen.prev.columns
  <2>1. n \in Nat /\ n # 0
    OBVIOUS
  <2>2. ASSUME m = 0
        PROVE  gen.total # 8 /\ Usual(gen.total) \subseteq gen.prev.columns
    <3>1. SizeOfRandomNotes(gen, n) = 0
      BY <1>2, <2>2
    <3> QED
      BY <2>1, <3>1, NotesForColumns
  <2> QED
    BY <1>1, <2>2
<1>5. ASSUME NEW q \in RandomNotes(gen, n)
      PROVE  IsCircle(q, gen)
  <2>1. /\ IsNotes(q, total, 0) /\ IsFiniteSet(q.columns) /\ Cardinality(q.columns) = m
        /\ q.columns \subseteq Usual(total) \ TakenColumns(gen)
    BY <1>3 DEF IsSized
  <2>2. Roomy(q.columns, total)
    <3>1. CASE total = 8
      <4>1. q.columns # {0} /\ Cardinality(q.columns) <= 5
        BY <1>1, <1>2, <2>1, <3>1, StageColumns
      <4> QED
        BY <2>1, <4>1, FewAreRoomy
    <3> QED
      BY <3>1 DEF Roomy
  <2>3. ASSUME ~AllowStacking(gen)
        PROVE  Beside(q.columns, gen)
    <3>1. q.columns \cap gen.prev.columns = {}
      BY <2>1, <2>3 DEF TakenColumns
    <3>2. ASSUME q.columns = {}
          PROVE  Usual(gen.total) \subseteq gen.prev.columns
      <4>1. m = 0
        BY <2>1, <3>2, FS_EmptySet
      <4> QED
        BY <1>4, <4>1
    <3> QED
      BY <3>1, <3>2 DEF Beside
  <2> QED
    BY <1>1, <2>1, <2>2, <2>3 DEF IsCircle
<1>6. ASSUME NEW q \in RandomNotes(gen, n), total = 8, p = Note(gen, q, 0)
      PROVE  IsCircle(p, gen)
  <2>1. /\ IsSized(q, total, 0, m) /\ IsFiniteSet(q.columns) /\ Cardinality(q.columns) = m
        /\ q.columns \subseteq Usual(total) \ TakenColumns(gen)
    BY <1>3 DEF IsSized
  <2>2. 0 \in Columns(total) /\ 0 \notin Usual(total)
    BY <1>6, StageColumns
  <2>3. p = AddNote(q, 0, total, 0, 0)
    BY <1>1, <1>6 DEF Note
  <2>4. AddedAlone(p, q, 0, total, 0, 0, 0, m + 1)
    BY <2>1, <2>2, <2>3, AddedToSized
  <2>5. /\ IsNotes(p, total, 0) /\ p.columns = q.columns \cup {0}
        /\ IsFiniteSet(p.columns) /\ Cardinality(p.columns) = m + 1
    BY <2>4 DEF AddedAlone, IsSized
  <2>6. Roomy(p.columns, total)
    <3>1. q.columns # {}
      BY <1>4, <1>6, <2>1, FS_EmptySet
    <3>2. p.columns # {0}
      BY <2>1, <2>2, <2>5, <3>1
    <3>3. Cardinality(p.columns) <= 5
      BY <1>1, <1>2, <1>6, <2>5
    <3> QED
      BY <2>5, <3>2, <3>3, FewAreRoomy
  <2>7. ASSUME ~AllowStacking(gen)
        PROVE  Beside(p.columns, gen)
    <3>1. q.columns \cap gen.prev.columns = {}
      BY <2>1, <2>7 DEF TakenColumns
    <3> QED
      BY <1>1, <1>6, <2>5, <3>1 DEF Beside
  <2> QED
    BY <1>1, <2>5, <2>6, <2>7 DEF IsCircle
<1>7. ASSUME p \in WithSpecial(gen, RandomNotes(gen, n)), p \notin RandomNotes(gen, n)
      PROVE  total = 8 /\ \E q \in RandomNotes(gen, n) : p = Note(gen, q, 0)
  BY <1>1, <1>7 DEF WithSpecial
<1> QED
  BY <1>5, <1>6, <1>7

LEMMA RandomPatternIsCircle ==
    ASSUME NEW gen, IsGen(gen), gen.total # 1, NEW p2, NEW p3, NEW p4, NEW p5,
           gen.total = 8 => p4 = 0 /\ p5 = 0, NEW p \in RandomPattern(gen, p2, p3, p4, p5)
    PROVE  IsCircle(p, gen)
<1>1. PICK n \in NoteCounts(gen, p2, p3, p4, p5) :
        p \in WithSpecial(gen, RandomNotes(gen, n)) \cup RandomNotes(gen, n)
  BY DEF RandomPattern, WithSpecial
<1>2. /\ n \in 1 .. 5 /\ n <= gen.total - RandomStart(gen.total)
      /\ p4 = 0 /\ p5 = 0 => n <= 3
  BY NoteCountsFit
<1> QED
  BY <1>1, <1>2, RandomNotesAreCircle

\* The map leads the usual columns apart.
LeadsApart(column, total) ==
    /\ \A c \in Usual(total) : column[c] \in Usual(total)
    /\ \A c, d \in Usual(total) : c # d => column[c] # column[d]

\* The notes of the previous pattern, each in another column
LEMMA MappedNotesIsCircle ==
    ASSUME NEW gen, IsGen(gen), gen.prev.objects > 0, AllowStacking(gen), NEW column,
           LeadsApart(column, gen.total), NEW p \in MappedNotes(gen, column)
    PROVE  IsCircle(p, gen)
<1> DEFINE
    total == gen.total
    mapped == gen.prev.columns \cap Usual(total)
    Step(q, k) == IF k - 1 \in mapped THEN Note(gen, q, column[k - 1]) ELSE q
    n == gen.total
    base == EmptyPattern
    Iter(h) == [k \in 0 .. n |-> IF k = 0 THEN base ELSE Step(h[k - 1], k)]
    h == CHOOSE h : h = Iter(h)
    Image(k) == {column[c] : c \in {d \in mapped : d < k}}
    I(k) == {q \in PatternType : /\ \E m \in 0 .. k : IsSized(q, total, 0, m)
                                 /\ q.columns = Image(k)}
<1>1. p = h[total]
  BY DEF MappedNotes
<1>2. total \in 1 .. 10 /\ total \in Nat /\ n \in Nat
  BY DEF IsGen
<1>0. /\ \A c \in Usual(gen.total) : column[c] \in Usual(gen.total)
      /\ \A c, d \in Usual(gen.total) : c # d => column[c] # column[d]
  BY DEF LeadsApart
<1>3. base \in I(0)
  <2>1. Image(0) = {}
    BY <1>2, StageColumns
  <2>2. 0 \in 0 .. 0
    OBVIOUS
  <2> HIDE DEF Image, total
  <2> QED
    BY <2>1, <2>2, EmptyIsSized, EmptyIsPattern
<1>4. ASSUME NEW k \in 1 .. n, NEW q \in I(k - 1)
      PROVE  Step(q, k) \in I(k)
  <2> HIDE DEF Image, total, mapped
  <2>1. PICK m \in 0 .. k - 1 : IsSized(q, total, 0, m)
    OBVIOUS
  <2>2. q.columns = Image(k - 1) /\ q \in PatternType
    OBVIOUS
  <2>3. k \in Int /\ k - 1 \in Int /\ m \in Nat /\ m \in 0 .. k /\ m + 1 \in 0 .. k
    BY <1>2
  <2>4. \A d \in mapped : d \in Int /\ d \in Usual(total)
    BY <1>2, StageColumns DEF mapped
  <2>5. CASE k - 1 \in mapped
    <3>1. PICK c : c = column[k - 1]
      OBVIOUS
    <3>2. Image(k) = Image(k - 1) \cup {c}
      <4>1. {d \in mapped : d < k} = {d \in mapped : d < k - 1} \cup {k - 1}
        BY <2>3, <2>4, <2>5
      <4> QED
        BY <3>1, <4>1 DEF Image
    <3>3. c \notin Image(k - 1) /\ c \in Usual(total)
      <4>1. \A d \in mapped : d < k - 1 => d # k - 1
        BY <2>3, <2>4
      <4> QED
        BY <1>0, <2>4, <2>5, <3>1, <4>1 DEF Image, total
    <3>4. c \in Columns(total)
      BY <1>2, <3>3, StageColumns
    <3>5. PICK r : r = Note(gen, q, c)
      OBVIOUS
    <3>6. r = AddNote(q, c, total, 0, 0)
      BY <3>5 DEF Note, total
    <3>7. AddedAlone(r, q, c, total, 0, 0, 0, m + 1)
      BY <1>2, <2>1, <2>2, <2>3, <3>3, <3>4, <3>6, AddedToSized
    <3>8. IsSized(r, total, 0, m + 1) /\ r.columns = Image(k) /\ r \in PatternType
      BY <2>2, <3>2, <3>7 DEF AddedAlone
    <3>9. Step(q, k) = r
      BY <2>5, <3>1, <3>5
    <3> QED
      BY <2>3, <3>8, <3>9
  <2>6. CASE k - 1 \notin mapped
    <3>1. {d \in mapped : d < k} = {d \in mapped : d < k - 1}
      BY <2>3, <2>4, <2>6
    <3>2. Image(k) = Image(k - 1)
      BY <3>1 DEF Image
    <3>3. Step(q, k) = q
      BY <2>6
    <3> HIDE DEF Step
    <3> QED
      BY <2>1, <2>2, <2>3, <3>2, <3>3
  <2> QED
    BY <2>5, <2>6
<1>5. h[n] \in I(n)
  <2> DEFINE J == [k \in 0 .. n |-> I(k)]
             Q == [k \in 1 .. n |-> [q \in I(k - 1) |-> Step(q, k)]]
  <2>0. n \in Nat /\ \A k \in 1 .. n : k \in 0 .. n /\ k - 1 \in 0 .. n /\ k # 0
    <3> HIDE DEF n
    <3> QED
      BY <1>2
  <2>1. /\ \A k \in 0 .. n : J[k] = I(k)
        /\ \A k \in 1 .. n : \A q \in I(k - 1) : Q[k][q] = Step(q, k)
    <3> HIDE DEF Step, I, n
    <3> QED
      OBVIOUS
  <2>2. PICK f : IsRun(f, Q, J, base, n)
    <3> HIDE DEF Step, I, n, J, Q, base
    <3>1. base \in J[0]
      BY <1>3, <2>0, <2>1
    <3>2. \A k \in 1 .. n : \A q \in J[k - 1] : Q[k][q] \in J[k]
      BY <1>4, <2>0, <2>1
    <3> QED
      BY <2>0, <3>1, <3>2, RunExists
  <2>3. f = Iter(f)
    <3>1. ASSUME NEW k \in 0 .. n
          PROVE  (IF k = 0 THEN base ELSE Q[k][f[k - 1]])
                   = IF k = 0 THEN base ELSE Step(f[k - 1], k)
      <4> HIDE DEF Step, I, n, J, Q, base
      <4>1. CASE k # 0
        <5>1. k \in 1 .. n /\ k - 1 \in 0 .. n
          BY <2>0, <4>1
        <5>2. f[k - 1] \in I(k - 1)
          BY <2>1, <2>2, <5>1 DEF IsRun
        <5> QED
          BY <2>1, <4>1, <5>1, <5>2
      <4> QED
        BY <4>1
    <3> HIDE DEF Step, I, n, J, Q, base
    <3> QED
      BY <2>2, <3>1 DEF IsRun
  <2>4. h = Iter(h)
    <3> HIDE DEF Iter
    <3> QED
      BY <2>3
  <2>5. h[0] = base /\ \A k \in 1 .. n : h[k] = Step(h[k - 1], k)
    <3> HIDE DEF h, n, base, Step
    <3>1. ASSUME NEW k \in 0 .. n
          PROVE  h[k] = IF k = 0 THEN base ELSE Step(h[k - 1], k)
      BY ONLY <2>4
    <3>2. h[0] = base
      <4>1. 0 \in 0 .. n
        BY <2>0
      <4> QED
        BY <3>1, <4>1
    <3>3. ASSUME NEW k \in 1 .. n
          PROVE  h[k] = Step(h[k - 1], k)
      <4>1. k \in 0 .. n /\ k # 0
        BY <2>0
      <4> QED
        BY <3>1, <4>1, Zenon
    <3> QED
      BY <3>2, <3>3
  <2> HIDE DEF h, n, base, J, I, Step
  <2>7. h[0] \in J[0]
    BY <1>3, <2>0, <2>1, <2>5
  <2>8. \A k \in 1 .. n : h[k - 1] \in J[k - 1] => h[k] \in J[k]
    BY <1>4, <2>0, <2>1, <2>5
  <2>9. h[n] \in J[n]
    BY <2>0, <2>7, <2>8, StepsKeep
  <2> QED
    BY <2>0, <2>1, <2>9
<1>6. p.columns = {column[c] : c \in mapped} /\ \E m \in 0 .. total : IsSized(p, total, 0, m)
  <2>1. {d \in mapped : d < total} = mapped
    BY <1>2, StageColumns
  <2> HIDE DEF h, mapped
  <2> QED
    BY <1>1, <1>5, <2>1
<1>7. Roomy(p.columns, total)
  <2> HIDE DEF h
  <2> SUFFICES ASSUME total = 8
               PROVE  p.columns # {0} /\ \E c, d \in Usual(total) \ p.columns : c # d
    BY DEF Roomy
  <2>1. \E c \in Usual(total) : c \in gen.prev.columns
    BY <1>2, StageColumns DEF IsGen, IsSummary, Roomy
  <2>2. p.columns # {} /\ p.columns \subseteq Usual(total) /\ 0 \notin Usual(total)
    BY <1>0, <1>2, <1>6, <2>1, StageColumns
  <2>3. PICK c \in Usual(total), d \in Usual(total) :
          c # d /\ c \notin gen.prev.columns /\ d \notin gen.prev.columns
    BY DEF IsGen, IsSummary, Roomy
  <2>4. column[c] \notin p.columns /\ column[d] \notin p.columns
    BY <1>0, <1>6, <2>3
  <2> QED
    BY <1>0, <2>2, <2>3, <2>4
<1> QED
  <2> HIDE DEF h
  <2> QED
    BY <1>6, <1>7 DEF IsCircle, IsSized

\* The counts that are mirrored fit into one half.
LEMMA MirroredCountsFit ==
    ASSUME NEW gen, IsGen(gen), gen.total # 1, gen.total # 8, NEW centre, NEW p2, NEW p3,
           NEW nc \in MirroredCounts(gen, centre, p2, p3)
    PROVE  /\ nc[1] \in 1 .. 3 /\ nc[1] <= gen.total \div 2
           /\ nc[2] => gen.total % 2 # 0
<1>1. PICK total \in 1 .. 10 : total = gen.total
  BY DEF IsGen
<1>2. PICK q2, q3 :
        /\ nc[1] \in RandomNoteCounts(Within(q2, 0, 100), Within(q3, 0, 100), 0, 0)
        /\ nc[2] => total % 2 # 0
        /\ total \in {2, 3} => q2 = 0
        /\ total \in 2 .. 5 => q3 = 0
  <2> DEFINE
    c  == CASE total \in {2, 4, 6} -> 0 [] total \in {3, 5} -> MinOf(centre, 3)
            [] OTHER -> centre
    q2 == CASE total \in {2, 3} -> 0
            [] total = 4 -> 100 - MaxOf((100 - p2) * 2, 80)
            [] total = 6 -> 100 - MaxOf((100 - p2) * 2, 5)
            [] OTHER -> p2
    q3 == CASE total \in 2 .. 5 -> 0
            [] total = 6 -> 100 - MaxOf((100 - p3) * 2, 85)
            [] OTHER -> p3
  <2>1. nc \in {nc_ \in RandomNoteCounts(Within(q2, 0, 100), Within(q3, 0, 100), 0, 0) \X BOOLEAN :
                  nc_[2] => total % 2 # 0 /\ nc_[1] # 3 /\ c > 0}
    BY <1>1 DEF MirroredCounts
  <2>2. (total \in {2, 3} => q2 = 0) /\ (total \in 2 .. 5 => q3 = 0)
    OBVIOUS
  <2> HIDE DEF q2, q3, c
  <2>3. /\ nc[1] \in RandomNoteCounts(Within(q2, 0, 100), Within(q3, 0, 100), 0, 0)
        /\ nc[2] => total % 2 # 0
    BY <2>1
  <2> QED
    BY <2>2, <2>3
<1>3. PICK n : n = nc[1]
  OBVIOUS
<1>4. /\ n \in 1 .. 5 /\ n # 4 /\ n # 5
      /\ (Within(q2, 0, 100) = 0 => n # 2) /\ (Within(q3, 0, 100) = 0 => n # 3)
  BY <1>2, <1>3, NoteCountsBelow
<1>5. Within(0, 0, 100) = 0
  BY DEF Within, MinOf, MaxOf
<1>6. /\ n \in 1 .. 3
      /\ total \in {2, 3} => n # 2
      /\ total \in 2 .. 5 => n # 3
  BY <1>2, <1>4, <1>5
<1>7. n <= total \div 2
  <2>1. total \in 2 .. 10
    BY <1>1
  <2> QED
    BY ONLY <1>6, <2>1
<1> QED
  BY <1>1, <1>2, <1>3, <1>6, <1>7

\* The columns of the left half and their mirror images
MirroredColumns(L, total) == L \cup {total - c - 1 : c \in L}

\* There is room for c and its mirror image.
MirrorsFit(c, L, total) ==
    /\ c \in Columns(total) /\ c \notin MirroredColumns(L, total)
    /\ total - c - 1 \in Columns(total)
    /\ total - c - 1 \notin MirroredColumns(L, total) \cup {c}
    /\ MirroredColumns(L, total) \cup {c} \cup {total - c - 1} = MirroredColumns(L \cup {c}, total)

\* A column of the left half, its mirror image and the centre are columns of
\* their own.
LEMMA MirrorsApart ==
    ASSUME NEW total \in 2 .. 10, NEW half \in Int, half = total \div 2,
           NEW L \in SUBSET (0 .. half - 1)
    PROVE  /\ MirroredColumns(L, total) \subseteq Columns(total)
           /\ \A c \in 0 .. half - 1 : c \notin L => MirrorsFit(c, L, total)
           /\ total % 2 # 0 =>
                  half \in Columns(total) /\ half \notin MirroredColumns(L, total)
<1>1. /\ 2 * half <= total /\ total <= 2 * half + 1 /\ half >= 1
      /\ total % 2 # 0 => total = 2 * half + 1
  OBVIOUS
<1>2. \A c \in L : c \in Int /\ 0 <= c /\ c < half
  BY <1>1
<1>3. MirroredColumns(L, total) \subseteq Columns(total)
  <2>1. \A c \in L : c \in 0 .. total - 1 /\ total - c - 1 \in 0 .. total - 1
    BY <1>1, <1>2
  <2> QED
    BY <2>1 DEF MirroredColumns, Columns
<1>4. ASSUME NEW c \in 0 .. half - 1, c \notin L
      PROVE  MirrorsFit(c, L, total)
  <2>1. c \in Int /\ 0 <= c /\ c < half
    BY <1>1
  <2>2. \A d \in L : total - d - 1 # c /\ total - c - 1 # d /\ d # c
                     /\ total - d - 1 # total - c - 1
    BY <1>1, <1>2, <1>4, <2>1
  <2>3. total - c - 1 # c
    BY <1>1, <2>1
  <2>4. c \in Columns(total) /\ total - c - 1 \in Columns(total)
    BY <1>1, <2>1 DEF Columns
  <2>5. c \notin MirroredColumns(L, total) /\ total - c - 1 \notin MirroredColumns(L, total) \cup {c}
    BY <2>2, <2>3, <1>4 DEF MirroredColumns
  <2>6. MirroredColumns(L, total) \cup {c} \cup {total - c - 1} = MirroredColumns(L \cup {c}, total)
    BY DEF MirroredColumns
  <2> QED
    BY <2>4, <2>5, <2>6 DEF MirrorsFit
<1>5. ASSUME total % 2 # 0
      PROVE  half \in Columns(total) /\ half \notin MirroredColumns(L, total)
  <2>1. \A d \in L : d # half /\ total - d - 1 # half
    BY <1>1, <1>2, <1>5
  <2> QED
    BY <1>1, <1>5, <2>1 DEF Columns, MirroredColumns
<1> QED
  BY <1>1, <1>3, <1>4, <1>5

\* The mirrored notes, without the centre
MirroredNotes(gen, n) ==
    {p \in PatternType : /\ \E m \in Nat : IsSized(p, gen.total, 0, m)
                         /\ \E L \in SUBSET (0 .. gen.total \div 2 - 1) :
                                /\ IsFiniteSet(L) /\ Cardinality(L) = n
                                /\ p.columns = MirroredColumns(L, gen.total)}

\* generate_random_pattern_with_mirrored
LEMMA MirroredPatternIsCircle ==
    ASSUME NEW gen, IsGen(gen), gen.total # 1, gen.total # 8, NEW centre, NEW p2, NEW p3,
           NEW p \in MirroredPattern(gen, centre, p2, p3)
    PROVE  IsCircle(p, gen)
<1> DEFINE
    limit == gen.total \div 2
    lower == RandomStart(gen.total)
    Found(s) == FindAvailable(s.next, Columns(gen.total) \ s.pattern.columns, lower, limit)
    Both(s, c) == [pattern |-> Note(gen, Note(gen, s.pattern, c), lower + gen.total - c - 1),
                   next |-> c]
    Place(s, k) == IF ~s.pattern.ok THEN {s}
                   ELSE IF Found(s) = {} THEN {[s EXCEPT !.pattern = FailedPattern]}
                   ELSE {Both(s, c) : c \in Found(s)}
    base == {[pattern |-> EmptyPattern, next |-> c] : c \in lower .. MaxOf(limit - 1, lower)}
    Iter_(h, n) == [k \in 0 .. n |-> IF k = 0 THEN base ELSE UNION {Place(s, k) : s \in h[k - 1]}]
    Patterns_(n) == {s.pattern : s \in (CHOOSE h : h = Iter_(h, n))[n]}
    Centred(patterns) ==
        {IF pattern.ok THEN Note(gen, pattern, gen.total \div 2) ELSE pattern :
            pattern \in patterns}
    I(k) == {s \in [pattern : PatternType, next : 0 .. limit - 1] :
                s.pattern \in MirroredNotes(gen, k)}
<1>1. PICK total \in 2 .. 10 : total = gen.total /\ total \in 1 .. 10 /\ lower = 0
  BY DEF IsGen, RandomStart
<1>2. limit \in Int /\ limit = total \div 2 /\ limit >= 1 /\ limit - 1 \in Int /\ MaxOf(limit - 1, 0) = limit - 1
  BY <1>1 DEF MaxOf
<1>3. CASE ~AllowStacking(gen)
  <2>1. p \in RandomPattern(gen, 50 + p2 \div 2, p2, (p2 + p3) \div 2, p3)
    BY <1>3 DEF MirroredPattern
  <2> QED
    BY <2>1, RandomPatternIsCircle
<1>4. ASSUME NEW n \in 1 .. 3, n <= limit, NEW q \in Patterns_(n)
      PROVE  q \in MirroredNotes(gen, n)
  <2> DEFINE Iter(h) == Iter_(h, n)
             h == CHOOSE h : h = Iter(h)
  <2>1. \E s \in h[n] : q = s.pattern
    OBVIOUS
  <2>2. base \in SUBSET I(0)
    <3>1. EmptyPattern \in MirroredNotes(gen, 0)
      <4>1. {} \in SUBSET (0 .. limit - 1) /\ MirroredColumns({}, total) = {}
        BY DEF MirroredColumns
      <4>2. 0 \in Nat /\ EmptyPattern \in PatternType /\ EmptyPattern.columns = {}
        BY EmptyIsPattern
      <4>3. IsSized(EmptyPattern, total, 0, 0) /\ IsFiniteSet({}) /\ Cardinality({}) = 0
        BY EmptyIsSized, FS_EmptySet
      <4> QED
        BY <1>1, <4>1, <4>2, <4>3 DEF MirroredNotes
    <3>2. lower .. MaxOf(limit - 1, lower) = 0 .. limit - 1
      BY <1>1, <1>2
    <3>3. EmptyPattern \in PatternType
      BY EmptyIsPattern
    <3> HIDE DEF lower, limit
    <3>4. \A c \in 0 .. limit - 1 : [pattern |-> EmptyPattern, next |-> c] \in I(0)
      BY <3>1, <3>3
    <3> QED
      BY <3>2, <3>4
  <2>3. ASSUME NEW k \in 1 .. n, NEW s \in I(k - 1)
        PROVE  Place(s, k) \subseteq I(k)
    <3>1. /\ s.pattern \in PatternType /\ s.next \in 0 .. limit - 1
          /\ s = [pattern |-> s.pattern, next |-> s.next]
      OBVIOUS
    <3>2. PICK m \in Nat : IsSized(s.pattern, total, 0, m)
      BY <1>1 DEF MirroredNotes
    <3> HIDE DEF limit
    <3>3. PICK L \in SUBSET (0 .. limit - 1) :
            /\ IsFiniteSet(L) /\ Cardinality(L) = k - 1
            /\ s.pattern.columns = MirroredColumns(L, total)
      BY <1>1 DEF MirroredNotes, limit
    <3>4. s.pattern.ok
      BY <3>2 DEF IsSized, IsNotes, IsPattern
    <3>5. Found(s) # {} /\ Found(s) \subseteq (0 .. limit - 1) \ L
      <4>1. PICK c \in 0 .. limit - 1 : c \notin L
        <5>1. IsFiniteSet(0 .. limit - 1) /\ Cardinality(0 .. limit - 1) = limit
          <6>1. PICK a \in Int : a = limit - 1 /\ a >= 0 /\ a - 0 + 1 = limit /\ ~(0 > a)
            BY <1>2
          <6>2. IsFiniteSet(0 .. a) /\ Cardinality(0 .. a) = a - 0 + 1
            BY <6>1, FS_Interval
          <6> QED
            BY <6>1, <6>2
        <5>2. IsFiniteSet({}) /\ Cardinality({}) = 0
          BY FS_EmptySet
        <5>3. Cardinality(L) + Cardinality({}) < Cardinality(0 .. limit - 1)
          BY <1>2, <1>4, <3>3, <5>1, <5>2
        <5> QED
          BY <3>3, <5>1, <5>2, <5>3, FreeColumn
      <4>2. \A d \in 0 .. limit - 1 : d \notin L => d \in Columns(total) \ s.pattern.columns
        <5>1. \A d \in 0 .. limit - 1 : d \notin L => MirrorsFit(d, L, total)
          BY <1>1, <1>2, <3>3, MirrorsApart
        <5>2. ASSUME NEW d \in 0 .. limit - 1, d \notin L
              PROVE  d \in Columns(total) /\ d \notin MirroredColumns(L, total)
          <6>1. MirrorsFit(d, L, total)
            BY <5>1, <5>2
          <6> QED
            BY <6>1 DEF MirrorsFit
        <5> QED
          BY <3>3, <5>2
      <4>3. \A d \in L : d \in s.pattern.columns
        BY <3>3 DEF MirroredColumns
      <4>4. PICK valid : valid = Columns(total) \ s.pattern.columns
        OBVIOUS
      <4>5. PICK found : found = FindAvailable(s.next, valid, 0, limit) /\ found = Found(s)
        BY <1>1, <4>4
      <4>6. CASE s.next \in valid
        <5>1. found = {s.next}
          BY <4>5, <4>6 DEF FindAvailable
        <5> QED
          BY <3>1, <4>3, <4>4, <4>5, <4>6, <5>1
      <4>7. CASE s.next \notin valid
        <5>1. found = valid \cap (0 .. limit - 1)
          BY <4>5, <4>7 DEF FindAvailable
        <5> QED
          BY <4>1, <4>2, <4>3, <4>4, <4>5, <5>1
      <4> QED
        BY <4>6, <4>7
    <3>6. Place(s, k) = {Both(s, c) : c \in Found(s)}
      <4> HIDE DEF Found, Both
      <4> QED
        BY <3>4, <3>5
    <3>7. ASSUME NEW c \in Found(s)
          PROVE  Both(s, c) \in I(k)
      <4>1. c \in 0 .. limit - 1 /\ c \notin L
        BY <3>5
      <4>2. MirrorsFit(c, L, total)
        BY <1>1, <1>2, <3>3, <4>1, MirrorsApart
      <4>3. PICK q1 : q1 = AddNote(s.pattern, c, total, 0, 0)
        OBVIOUS
      <4>4. PICK d \in Columns(total) : d = total - c - 1 /\ d = lower + gen.total - c - 1
        <5>1. c \in Int /\ lower + gen.total - c - 1 = total - c - 1
          BY <1>1, <4>1
        <5> QED
          BY <4>2, <5>1 DEF MirrorsFit
      <4>5. PICK q2 : q2 = AddNote(q1, d, total, 0, 0)
        OBVIOUS
      <4>6. Both(s, c) = [pattern |-> q2, next |-> c]
        <5> HIDE DEF lower
        <5> QED
          BY <1>1, <4>3, <4>4, <4>5 DEF Note
      <4> HIDE DEF Found, Both, limit, I, h, Place, base, Patterns_
      <4>7. AddedAlone(q1, s.pattern, c, total, 0, 0, 0, m + 1)
        <5>1. c \in Columns(total) /\ c \notin s.pattern.columns
          BY <3>3, <4>2 DEF MirrorsFit
        <5> QED
          BY <1>1, <3>2, <4>3, <5>1, AddedToSized
      <4>8. /\ IsSized(q1, total, 0, m + 1) /\ q1.columns = MirroredColumns(L, total) \cup {c}
            /\ d \notin q1.columns
        BY <3>3, <4>2, <4>4, <4>7 DEF AddedAlone, MirrorsFit
      <4>9. PICK m1 \in Nat : m1 = m + 1 /\ IsSized(q1, total, 0, m1)
        BY <4>8
      <4>10. AddedAlone(q2, q1, d, total, 0, 0, 0, m1 + 1)
        <5>1. d \in Columns(total) /\ d \notin q1.columns /\ total \in 1 .. 10
          BY <1>1, <4>4, <4>8
        <5> QED
          BY SMTT(30), <4>5, <4>9, <5>1, AddedToSized
      <4>11. /\ IsSized(q2, total, 0, m1 + 1) /\ q2 \in PatternType /\ m1 + 1 \in Nat
             /\ q2.columns = MirroredColumns(L \cup {c}, total)
        <5>1. IsSized(q2, total, 0, m1 + 1) /\ q2 \in PatternType /\ q2.columns = q1.columns \cup {d}
          BY <4>10 DEF AddedAlone
        <5>2. q1.columns \cup {d} = MirroredColumns(L \cup {c}, total)
          BY <4>2, <4>4, <4>8 DEF MirrorsFit
        <5>3. m1 + 1 \in Nat
          BY <4>9
        <5> QED
          BY <5>1, <5>2, <5>3
      <4>12. IsFiniteSet(L \cup {c}) /\ Cardinality(L \cup {c}) = k
        <5>1. IsFiniteSet(L \cup {c}) /\ Cardinality(L \cup {c}) = Cardinality(L) + 1
          BY <3>3, <4>1, FS_AddElement
        <5> QED
          BY <3>3, <5>1
      <4>13. L \cup {c} \in SUBSET (0 .. limit - 1)
        BY <4>1
      <4>14. q2 \in MirroredNotes(gen, k)
        BY <1>1, <4>11, <4>12, <4>13 DEF MirroredNotes, limit
      <4> QED
        BY <4>1, <4>6, <4>11, <4>14 DEF I
    <3> HIDE DEF Place, I, Found, Both
    <3> QED
      BY <3>6, <3>7
  <2>4. h[n] \subseteq I(n)
    <3> DEFINE If == [k \in 0 .. n |-> I(k)]
               P == [k \in 1 .. n |-> [s \in I(k - 1) |-> Place(s, k)]]
    <3>0. n \in Nat /\ \A k \in 1 .. n : k \in 0 .. n /\ k - 1 \in 0 .. n /\ k # 0
      <4> QED
        BY <1>2
    <3>1. /\ \A k \in 0 .. n : If[k] = I(k)
          /\ \A k \in 1 .. n : \A s \in I(k - 1) : P[k][s] = Place(s, k)
      <4> HIDE DEF Place, I
      <4> QED
        OBVIOUS
    <3>2. PICK f : IsReached(f, P, If, base, n)
      <4> HIDE DEF Place, I, If, P, base
      <4>1. base \in SUBSET If[0]
        BY <2>2, <3>0, <3>1
      <4>2. \A k \in 1 .. n : \A s \in If[k - 1] : P[k][s] \subseteq If[k]
        <5>1. ASSUME NEW k \in 1 .. n, NEW s \in If[k - 1]
              PROVE  P[k][s] \subseteq If[k]
          <6>1. s \in I(k - 1)
            BY <3>0, <3>1
          <6>2. Place(s, k) \subseteq I(k)
            BY <2>3, <6>1
          <6> QED
            BY <3>0, <3>1, <6>1, <6>2
        <5> QED
          BY <5>1
      <4> QED
        BY <3>0, <4>1, <4>2, ReachedExists
    <3>3. f = Iter(f)
      <4>1. ASSUME NEW k \in 0 .. n
            PROVE  (IF k = 0 THEN base ELSE UNION {P[k][s] : s \in f[k - 1]})
                     = IF k = 0 THEN base ELSE UNION {Place(s, k) : s \in f[k - 1]}
        <5> HIDE DEF Place, I, If, P, base
        <5>1. CASE k # 0
          <6>1. k \in 1 .. n /\ k - 1 \in 0 .. n
            BY <3>0, <5>1
          <6>2. f[k - 1] \subseteq I(k - 1)
            BY <3>1, <3>2, <6>1 DEF IsReached
          <6>3. \A s \in f[k - 1] : P[k][s] = Place(s, k)
            BY <3>1, <6>1, <6>2
          <6>4. UNION {P[k][s] : s \in f[k - 1]} = UNION {Place(s, k) : s \in f[k - 1]}
            BY <6>3
          <6> QED
            BY <5>1, <6>4
        <5> QED
          BY <5>1
      <4> HIDE DEF Place, I, If, P, base
      <4> QED
        BY <3>2, <4>1 DEF IsReached
    <3>4. h = Iter(h)
      <4> HIDE DEF Iter
      <4> QED
        BY <3>3
    <3>5. h[0] = base /\ \A k \in 1 .. n : h[k] = UNION {Place(s, k) : s \in h[k - 1]}
      <4> HIDE DEF h, base, Place
      <4>1. ASSUME NEW k \in 0 .. n
            PROVE  h[k] = IF k = 0 THEN base ELSE UNION {Place(s, k) : s \in h[k - 1]}
        BY ONLY <3>4
      <4>2. h[0] = base
        <5>1. 0 \in 0 .. n
          BY <3>0
        <5> QED
          BY <4>1, <5>1
      <4>3. ASSUME NEW k \in 1 .. n
            PROVE  h[k] = UNION {Place(s, k) : s \in h[k - 1]}
        <5>1. k \in 0 .. n /\ k # 0
          BY <3>0
        <5> QED
          BY <4>1, <5>1, Zenon
      <4> QED
        BY <4>2, <4>3
    <3> DEFINE J == [k \in 0 .. n |-> SUBSET I(k)]
    <3>6. \A k \in 0 .. n : J[k] = SUBSET I(k)
      <4> HIDE DEF I
      <4> QED
        OBVIOUS
    <3> HIDE DEF h, base, J, I, Place
    <3>7. h[0] \in J[0]
      BY <2>2, <3>0, <3>5, <3>6
    <3>8. \A k \in 1 .. n : h[k - 1] \in J[k - 1] => h[k] \in J[k]
      <4>1. ASSUME NEW k \in 1 .. n, h[k - 1] \in J[k - 1]
            PROVE  h[k] \in J[k]
        <5>1. h[k - 1] \subseteq I(k - 1)
          BY <3>0, <3>6, <4>1
        <5>2. UNION {Place(s, k) : s \in h[k - 1]} \subseteq I(k)
          BY <2>3, <5>1
        <5> QED
          BY <3>0, <3>5, <3>6, <5>2
      <4> QED
        BY <4>1
    <3>9. h[n] \in J[n]
      BY <3>0, <3>7, <3>8, StepsKeep
    <3> QED
      BY <3>0, <3>6, <3>9
  <2> HIDE DEF h
  <2> QED
    BY <2>1, <2>4
<1>5. CASE AllowStacking(gen)
  <2>1. PICK nc \in MirroredCounts(gen, centre, p2, p3) :
          p \in IF nc[2] THEN Centred(Patterns_(nc[1])) ELSE Patterns_(nc[1])
    BY <1>1, <1>5 DEF MirroredPattern, WithSpecial
  <2>2. nc[1] \in 1 .. 3 /\ nc[1] <= limit /\ (nc[2] => total % 2 # 0)
    BY <1>1, MirroredCountsFit
  <2> HIDE DEF Patterns_, limit
  <2>3. ASSUME NEW q \in Patterns_(nc[1])
        PROVE  \E L \in SUBSET (0 .. limit - 1), m \in Nat :
                   IsSized(q, total, 0, m) /\ q.columns = MirroredColumns(L, total)
    <3>1. q \in MirroredNotes(gen, nc[1])
      BY <1>4, <2>2
    <3> QED
      BY <1>1, <3>1 DEF MirroredNotes, limit
  <2>4. IsNotes(p, total, 0)
    <3>1. CASE p \in Patterns_(nc[1])
      BY <2>3, <3>1 DEF IsSized
    <3>2. CASE nc[2] /\ p \notin Patterns_(nc[1])
      <4>1. PICK q \in Patterns_(nc[1]) : p = Note(gen, q, limit)
        BY <1>1, <2>1, <3>2 DEF limit
      <4>2. PICK L \in SUBSET (0 .. limit - 1), m \in Nat :
              IsSized(q, total, 0, m) /\ q.columns = MirroredColumns(L, total)
        BY <2>3
      <4>3. PICK c \in Columns(total) : c = limit /\ c \notin q.columns
        BY <1>1, <1>2, <2>2, <3>2, <4>2, MirrorsApart
      <4>4. p = AddNote(q, c, total, 0, 0)
        BY <1>1, <4>1, <4>3 DEF Note
      <4>5. AddedAlone(p, q, c, total, 0, 0, 0, m + 1)
        BY <1>1, <4>2, <4>3, <4>4, AddedToSized
      <4> QED
        BY <4>5 DEF AddedAlone, IsSized
    <3> QED
      BY <2>1, <3>1, <3>2
  <2> QED
    BY <1>1, <1>5, <2>4 DEF IsCircle, Roomy
<1> QED
  BY <1>3, <1>5

LEMMA ByDifficultyIsCircle ==
    ASSUME NEW gen, IsGen(gen), gen.total # 1, gen.total = 8 => "MIRROR" \notin gen.type,
           NEW p \in ByDifficulty(gen)
    PROVE  IsCircle(p, gen)
<1>1. \/ "MIRROR" \in gen.type /\ \E centre, p2, p3 : p \in MirroredPattern(gen, centre, p2, p3)
      \/ \E p2, p3 : p \in RandomPattern(gen, p2, p3, 0, 0)
  <2> DEFINE low == "LOW_PROBABILITY" \in gen.type
  <2>1. \/ "MIRROR" \in gen.type /\ (\/ p \in MirroredPattern(gen, 12, 38, 12)
                                     \/ p \in MirroredPattern(gen, 12, 17, 0)
                                     \/ p \in MirroredPattern(gen, 12, 0, 0))
        \/ p \in IF low THEN RandomPattern(gen, 78, 42, 0, 0) ELSE RandomPattern(gen, 100, 62, 0, 0)
        \/ p \in IF low THEN RandomPattern(gen, 35, 8, 0, 0) ELSE RandomPattern(gen, 52, 15, 0, 0)
        \/ p \in IF low THEN RandomPattern(gen, 18, 0, 0, 0) ELSE RandomPattern(gen, 45, 0, 0, 0)
        \/ p \in RandomPattern(gen, 0, 0, 0, 0)
    BY DEF ByDifficulty
  <2>2. CASE p \in RandomPattern(gen, 0, 0, 0, 0)
    BY <2>2
  <2>3. CASE "MIRROR" \in gen.type /\ (\/ p \in MirroredPattern(gen, 12, 38, 12)
                                       \/ p \in MirroredPattern(gen, 12, 17, 0)
                                       \/ p \in MirroredPattern(gen, 12, 0, 0))
    BY <2>3
  <2>4. CASE p \in IF low THEN RandomPattern(gen, 78, 42, 0, 0) ELSE RandomPattern(gen, 100, 62, 0, 0)
    BY <2>4
  <2>5. CASE p \in IF low THEN RandomPattern(gen, 35, 8, 0, 0) ELSE RandomPattern(gen, 52, 15, 0, 0)
    BY <2>5
  <2>6. CASE p \in IF low THEN RandomPattern(gen, 18, 0, 0, 0) ELSE RandomPattern(gen, 45, 0, 0, 0)
    BY <2>6
  <2> QED
    BY <2>1, <2>2, <2>3, <2>4, <2>5, <2>6
<1>2. CASE "MIRROR" \in gen.type /\ \E centre, p2, p3 : p \in MirroredPattern(gen, centre, p2, p3)
  <2>1. PICK centre, p2, p3 : p \in MirroredPattern(gen, centre, p2, p3)
    BY <1>2
  <2> QED
    BY <1>2, <2>1, MirroredPatternIsCircle
<1>3. CASE \E p2, p3 : p \in RandomPattern(gen, p2, p3, 0, 0)
  <2>1. PICK p2, p3 : p \in RandomPattern(gen, p2, p3, 0, 0)
    BY <1>3
  <2> QED
    BY <2>1, RandomPatternIsCircle
<1> QED
  BY <1>1, <1>2, <1>3

\* A single note
LEMMA SingleIsCircle ==
    ASSUME NEW gen, IsGen(gen), NEW c \in Usual(gen.total),
           ~AllowStacking(gen) => c \notin gen.prev.columns, NEW p \in Single(gen, c)
    PROVE  IsCircle(p, gen)
<1>1. PICK total \in 1 .. 10 : total = gen.total
  BY DEF IsGen
<1>2. c \in Columns(total) /\ c \notin EmptyPattern.columns /\ (total = 8 => c # 0)
  BY <1>1, StageColumns, EmptyIsPattern
<1>3. p = AddNote(EmptyPattern, c, total, 0, 0)
  BY <1>1 DEF Single, Note
<1>4. \E k : AddedAlone(p, EmptyPattern, c, total, 0, 0, 0, k)
  <2>1. PICK m \in Nat : IsSized(EmptyPattern, total, 0, m)
    BY EmptyIsSized
  <2>2. AddedAlone(p, EmptyPattern, c, total, 0, 0, 0, m + 1)
    BY <1>2, <1>3, <2>1, AddedToSized
  <2> QED
    BY <2>2
<1>5. IsNotes(p, total, 0) /\ p.columns = {c} /\ IsFiniteSet(p.columns) /\ Cardinality(p.columns) = 1
  <2>1. IsNotes(p, total, 0) /\ p.columns = {c}
    BY <1>4, EmptyIsPattern DEF AddedAlone, IsSized
  <2>2. IsFiniteSet({c}) /\ Cardinality({c}) = 1
    BY FS_Singleton
  <2> QED
    BY <2>1, <2>2
<1>6. Roomy(p.columns, total)
  <2>1. CASE total = 8
    <3>1. p.columns # {0}
      BY <1>2, <1>5, <2>1
    <3> QED
      BY <1>5, <3>1, FewAreRoomy
  <2> QED
    BY <2>1 DEF Roomy
<1> QED
  BY <1>1, <1>5, <1>6 DEF IsCircle, Beside

\* What the type of a pattern says of stacking
IsType(type, time_separation, total) ==
    /\ "REVERSE" \in type \/ "CYCLE" \in type \/ "FORCE_STACK" \in type => "FORCE_NOT_STACK" \notin type
    /\ total = 8 => "MIRROR" \notin type
    /\ time_separation <= 125 => "FORCE_NOT_STACK" \in type

LEMMA ConvertTypeIs ==
    ASSUME NEW o, o.time_separation \in Int, NEW s \in {"STAIR", "REVERSE_STAIR"}, NEW total
    PROVE  IsType(ConvertType(o, s, total), o.time_separation, total)
<1>1. PICK dt \in Int : dt = o.time_separation
  OBVIOUS
<1>2. PICK type : type = TimingType(o, s)
  OBVIOUS
<1>3. /\ dt <= 125 => "FORCE_NOT_STACK" \in type
      /\ "REVERSE" \in type \/ "CYCLE" \in type \/ "FORCE_STACK" \in type => "FORCE_NOT_STACK" \notin type
      /\ "MIRROR" \notin type
  <2>1. CASE dt <= 80
    BY <1>1, <1>2, <2>1 DEF TimingType
  <2>2. CASE dt > 80 /\ dt <= 95
    BY <1>1, <1>2, <2>2 DEF TimingType
  <2>3. CASE dt > 95 /\ dt <= 105
    BY <1>1, <1>2, <2>3 DEF TimingType
  <2>4. CASE dt > 105 /\ dt <= 125
    BY <1>1, <1>2, <2>4 DEF TimingType
  <2>5. CASE dt > 125
    <3>1. type \in {{"CYCLE", "KEEP_SINGLE"}, {"FORCE_STACK", "LOW_PROBABILITY"},
                    {"REVERSE", "LOW_PROBABILITY"}, {}, {"LOW_PROBABILITY"}}
      BY <1>1, <1>2, <2>5 DEF TimingType
    <3> QED
      BY <1>1, <2>5, <3>1
  <2> QED
    BY <2>1, <2>2, <2>3, <2>4, <2>5
<1>4. \/ ConvertType(o, s, total) = type
      \/ total # 8 /\ ConvertType(o, s, total) = type \cup {"MIRROR"}
      \/ ConvertType(o, s, total) = type \cup {"GATHERED"}
  BY <1>2 DEF ConvertType
<1> QED
  BY <1>1, <1>3, <1>4 DEF IsType

\* What ConvertCircle asks of a generator
IsCircleGen(gen) ==
    /\ IsGen(gen)
    /\ IsType(gen.type, gen.obj.time_separation, gen.total)

\* The columns of the usual part of the stage, reversed
LEMMA ReversedIs ==
    ASSUME NEW gen, IsGen(gen), NEW column, column = Reversed(gen)
    PROVE  LeadsApart(column, gen.total)
<1>1. PICK total \in 1 .. 10 : total = gen.total
  BY DEF IsGen
<1>2. PICK lower \in 0 .. 1 : lower = RandomStart(total)
  BY StageColumns
<1>3. \A c \in Columns(total) : column[c] = lower + total - c - 1
  BY <1>1, <1>2 DEF Reversed
<1>4. \A c \in Usual(total) : c \in Columns(total) /\ c \in Int /\ lower <= c /\ c < total
  BY <1>2, StageColumns
<1>5. ASSUME NEW c \in Usual(total)
      PROVE  column[c] \in Usual(total)
  <2>1. column[c] \in Int /\ lower <= column[c] /\ column[c] < total
    BY <1>3, <1>4
  <2> QED
    BY <1>2, <2>1, StageColumns
<1>6. ASSUME NEW c \in Usual(total), NEW d \in Usual(total), c # d
      PROVE  column[c] # column[d]
  BY <1>3, <1>4, <1>6
<1> QED
  BY <1>1, <1>5, <1>6 DEF LeadsApart

\* The next column of a stair is another one.
LEMMA StairColumnsAre ==
    ASSUME NEW gen, IsGen(gen), gen.total # 1, gen.prev.objects = 1
    PROVE  /\ gen.prev.last_column \in Usual(gen.total)
           /\ StairColumn(gen) \in Usual(gen.total) /\ StairColumn(gen) \notin gen.prev.columns
           /\ ReverseStairColumn(gen) \in Usual(gen.total)
           /\ ReverseStairColumn(gen) \notin gen.prev.columns
<1>1. PICK total \in 1 .. 10 : total = gen.total
  BY DEF IsGen
<1>2. PICK lower \in 0 .. 1 : lower = RandomStart(total) /\ (lower = 1 <=> total = 8)
  BY StageColumns
<1>3. PICK last : last = gen.prev.last_column /\ gen.prev.columns = {last}
  BY DEF IsGen, IsSummary
<1>4. last \in Columns(total) /\ (total = 8 => last # 0)
  BY <1>1, <1>3 DEF IsGen, IsSummary, Roomy
<1>5. last \in Int /\ lower <= last /\ last < total
  <2>1. last \in Int /\ 0 <= last /\ last < total
    BY <1>4, StageColumns
  <2> QED
    BY <1>2, <1>4, <2>1
<1>6. /\ StairColumn(gen) = IF last + 1 = total THEN lower ELSE last + 1
      /\ ReverseStairColumn(gen) = IF last = lower THEN total - 1 ELSE last - 1
  BY <1>1, <1>2, <1>3 DEF StairColumn, ReverseStairColumn
<1>7. \A c : c \in Int /\ lower <= c /\ c < total => c \in Usual(total)
  BY <1>2, StageColumns
<1>8. /\ StairColumn(gen) \in Int /\ lower <= StairColumn(gen) /\ StairColumn(gen) < total
      /\ StairColumn(gen) # last
  BY <1>1, <1>2, <1>5, <1>6
<1>9. /\ ReverseStairColumn(gen) \in Int /\ lower <= ReverseStairColumn(gen)
      /\ ReverseStairColumn(gen) < total /\ ReverseStairColumn(gen) # last
  BY <1>1, <1>2, <1>5, <1>6
<1> QED
  BY <1>1, <1>3, <1>5, <1>7, <1>8, <1>9

\* generate_core: with one column there is nothing beside it.
LEMMA HitObjectPatternIsCircle ==
    ASSUME NEW gen, IsCircleGen(gen), NEW p \in HitObjectPatterns(gen)
    PROVE  IF gen.total = 1 THEN IsNotes(p, 1, 0) ELSE IsCircle(p, gen)
<1>1. IsGen(gen) /\ gen.total \in 1 .. 10
  BY DEF IsCircleGen, IsGen
<1>2. /\ "REVERSE" \in gen.type \/ "CYCLE" \in gen.type \/ "FORCE_STACK" \in gen.type =>
             AllowStacking(gen)
      /\ gen.total = 8 => "MIRROR" \notin gen.type
  BY DEF IsCircleGen, IsType, AllowStacking
<1>3. CASE gen.total = 1
  <2>1. p = AddNote(EmptyPattern, 0, 1, 0, 0)
    BY <1>3 DEF HitObjectPatterns, Single, Note
  <2>2. Joins(EmptyPattern, 0, 1, 0, 0, 0)
    <3>1. 1 \in 1 .. 10 /\ 0 \in Columns(1)
      BY DEF Columns
    <3> QED
      BY <3>1, EmptyIsPattern DEF Joins
  <2>3. Joined(p, EmptyPattern, 0, 1, 0, 0, 0)
    <3>1. 1 \in 1 .. 10 /\ IsNotes(EmptyPattern, 1, 0)
      BY EmptyIsNotes
    <3> QED
      BY <2>1, <2>2, <3>1, NoteJoined
  <2> QED
    BY <1>3, <2>3 DEF Joined
<1>4. CASE gen.total # 1
  <2>1. \/ "REVERSE" \in gen.type /\ gen.prev.objects > 0 /\ p \in MappedNotes(gen, Reversed(gen))
        \/ Cycles(gen) /\ p \in Single(gen, Reversed(gen)[gen.prev.last_column])
        \/ "FORCE_STACK" \in gen.type /\ gen.prev.objects > 0 /\ p \in MappedNotes(gen, Same(gen))
        \/ gen.prev.objects = 1 /\ p \in Single(gen, StairColumn(gen))
        \/ gen.prev.objects = 1 /\ p \in Single(gen, ReverseStairColumn(gen))
        \/ p \in RandomNotes(gen, 1)
        \/ p \in ByDifficulty(gen)
    BY <1>4 DEF HitObjectPatterns
  <2>2. CASE "REVERSE" \in gen.type /\ gen.prev.objects > 0 /\ p \in MappedNotes(gen, Reversed(gen))
    <3>1. PICK column : column = Reversed(gen)
      OBVIOUS
    <3>2. LeadsApart(column, gen.total)
      BY <1>1, <3>1, ReversedIs
    <3>3. p \in MappedNotes(gen, column)
      BY <2>2, <3>1
    <3> QED
      BY <1>1, <1>2, <1>4, <2>2, <3>2, <3>3, MappedNotesIsCircle
  <2>3. CASE Cycles(gen) /\ p \in Single(gen, Reversed(gen)[gen.prev.last_column])
    <3>1. AllowStacking(gen) /\ gen.prev.objects = 1
      BY <1>2, <2>3 DEF Cycles
    <3>2. PICK column : column = Reversed(gen)
      OBVIOUS
    <3>3. PICK c \in Usual(gen.total) : c = column[gen.prev.last_column]
      BY <1>1, <1>4, <3>1, <3>2, ReversedIs, StairColumnsAre DEF LeadsApart
    <3>4. p \in Single(gen, c)
      BY <2>3, <3>2, <3>3
    <3> QED
      BY <1>1, <1>4, <3>1, <3>3, <3>4, SingleIsCircle
  <2>4. CASE "FORCE_STACK" \in gen.type /\ gen.prev.objects > 0 /\ p \in MappedNotes(gen, Same(gen))
    <3>1. PICK column : column = Same(gen)
      OBVIOUS
    <3>2. LeadsApart(column, gen.total)
      BY <1>1, <3>1, StageColumns DEF Same, LeadsApart
    <3>3. p \in MappedNotes(gen, column)
      BY <2>4, <3>1
    <3> QED
      BY <1>1, <1>2, <1>4, <2>4, <3>2, <3>3, MappedNotesIsCircle
  <2>5. CASE gen.prev.objects = 1 /\ p \in Single(gen, StairColumn(gen))
    <3>1. PICK c \in Usual(gen.total) : c = StairColumn(gen) /\ c \notin gen.prev.columns
      BY <1>1, <1>4, <2>5, StairColumnsAre
    <3> QED
      BY <1>1, <1>4, <2>5, <3>1, SingleIsCircle
  <2>6. CASE gen.prev.objects = 1 /\ p \in Single(gen, ReverseStairColumn(gen))
    <3>1. PICK c \in Usual(gen.total) : c = ReverseStairColumn(gen) /\ c \notin gen.prev.columns
      BY <1>1, <1>4, <2>6, StairColumnsAre
    <3> QED
      BY <1>1, <1>4, <2>6, <3>1, SingleIsCircle
  <2>7. CASE p \in RandomNotes(gen, 1)
    <3>1. 1 \in 1 .. 5 /\ 1 <= gen.total - RandomStart(gen.total) /\ 1 <= 3
      BY <1>1, <1>4 DEF RandomStart
    <3> QED
      BY <1>1, <1>4, <2>7, <3>1, RandomNotesAreCircle
  <2>8. CASE p \in ByDifficulty(gen)
    BY <1>1, <1>2, <1>4, <2>8, ByDifficultyIsCircle
  <2> QED
    BY <1>4, <2>1, <2>2, <2>3, <2>4, <2>5, <2>6, <2>7, <2>8
<1> QED
  BY <1>3, <1>4

LEMMA NextStairIs ==
    ASSUME NEW gen, gen.stair \in {"STAIR", "REVERSE_STAIR"}, NEW pattern
    PROVE  NextStair(gen, pattern) \in {"STAIR", "REVERSE_STAIR"}
BY DEF NextStair

------------------------------------------------------------------------------
(* Sliders *)

\* What ConvertSlider asks of a generator
IsSliderGen(gen) ==
    /\ IsGen(gen)
    /\ gen.obj.span_count \in Nat \ {0} /\ gen.obj.duration \in Nat
    /\ gen = [obj |-> gen.obj, total |-> gen.total, prev |-> gen.prev, diff |-> gen.diff,
              type |-> gen.type]

\* The columns of the notes that end with the slider
EndColumns(p, total, end) ==
    {ColumnAt(p, total, i) : i \in {j \in DOMAIN p.hit_objects : p.hit_objects[j].end_time = end}}

\* What the generator makes of a slider
IsSlider(p, gen) ==
    /\ IsNotes(p, gen.total, gen.obj.duration)
    /\ p.hit_objects # <<>>
    /\ Len(p.hit_objects) = 1 => Roomy(p.columns, gen.total)
    /\ Roomy(EndColumns(p, gen.total, gen.obj.duration), gen.total)

LEMMA NotStackingIsGen ==
    ASSUME NEW gen, IsSliderGen(gen), NEW g, g = NotStacking(gen)
    PROVE  /\ IsSliderGen(g) /\ g.obj = gen.obj /\ g.total = gen.total /\ g.prev = gen.prev
           /\ \A p : IsSlider(p, g) <=> IsSlider(p, gen)
<1>1. PICK o, t, v, d, y : gen = [obj |-> o, total |-> t, prev |-> v, diff |-> d, type |-> y]
  BY DEF IsSliderGen
<1>2. gen.obj = o /\ gen.total = t /\ gen.prev = v /\ gen.type = y /\ gen.diff = d
  BY <1>1
<1>3. g = [obj |-> o, total |-> t, prev |-> v, diff |-> d, type |-> y \cup {"FORCE_NOT_STACK"}]
  BY <1>1, <1>2 DEF NotStacking
<1>4. g.obj = o /\ g.total = t /\ g.prev = v /\ g.diff = d /\ g.type = y \cup {"FORCE_NOT_STACK"}
  BY <1>3
<1>5. IsSliderGen(g)
  BY <1>2, <1>3, <1>4 DEF IsSliderGen, IsGen
<1> QED
  BY <1>2, <1>4, <1>5 DEF IsSlider

\* The columns that a slider may begin in
LEMMA FirstColumnsAre ==
    ASSUME NEW gen, IsGen(gen)
    PROVE  FirstColumns(gen) # {} /\ FirstColumns(gen) \subseteq Usual(gen.total)
<1>1. PICK total \in 1 .. 10 : total = gen.total
  BY DEF IsGen
<1>2. PICK column \in Usual(total) : column = GetColumn(gen.obj.x, total)
  BY <1>1, GetColumnIs DEF IsGen
<1>3. CASE "FORCE_NOT_STACK" \in gen.type /\ Cardinality(gen.prev.columns) < gen.total
  <2>1. PICK S : S = gen.prev.columns
    OBVIOUS
  <2>2. S \subseteq Columns(total) /\ Roomy(S, total) /\ Cardinality(S) < total
    BY <1>1, <1>3, <2>1 DEF IsGen, IsSummary
  <2>3. \E c \in Usual(total) : c \notin S
    <3>1. CASE total = 8
      BY <2>2, <3>1 DEF Roomy
    <3>2. CASE total # 8
      <4>1. IsFiniteSet(Columns(total)) /\ Cardinality(Columns(total)) = total
            /\ Usual(total) = Columns(total)
        BY <3>2, StageColumns
      <4>2. IsFiniteSet(S) /\ Cardinality(S) \in Nat
        BY <2>2, <4>1, FS_Subset, FS_CardinalityType
      <4>3. IsFiniteSet({}) /\ Cardinality({}) = 0
        BY FS_EmptySet
      <4>4. Cardinality(S) + Cardinality({}) < Cardinality(Columns(total))
        BY <2>2, <4>1, <4>2, <4>3
      <4> QED
        BY <4>1, <4>2, <4>3, <4>4, FreeColumn
    <3> QED
      BY <3>1, <3>2
  <2>4. PICK valid : valid = Columns(total) \ S
    OBVIOUS
  <2>5. valid \cap Usual(total) # {}
    BY <2>3, <2>4, StageColumns
  <2>6. FirstColumns(gen) = FindAvailable(column, valid, RandomStart(total), total)
    BY <1>1, <1>2, <1>3, <2>1, <2>4 DEF FirstColumns
  <2> QED
    BY <1>1, <1>2, <2>5, <2>6, FindAvailableIs
<1>4. CASE ~("FORCE_NOT_STACK" \in gen.type /\ Cardinality(gen.prev.columns) < gen.total)
  <2>1. FirstColumns(gen) = {column}
    BY <1>1, <1>2, <1>4 DEF FirstColumns
  <2> QED
    BY <1>1, <1>2, <2>1
<1> QED
  BY <1>3, <1>4

\* A note in one of the valid columns
IsPlaced(t, s, valid, total, start_time, end_time) ==
    \E c \in Usual(total) :
        /\ c \in valid
        /\ t = [pattern |-> AddNote(s.pattern, c, total, start_time, end_time), next |-> c]

LEMMA PlacedIs ==
    ASSUME NEW gen, IsGen(gen), NEW s, s.pattern.ok, s.next \in Usual(gen.total), NEW valid,
           valid \cap Usual(gen.total) # {}, NEW start_time, NEW end_time,
           NEW t \in Placed(gen, s, valid, start_time, end_time)
    PROVE  IsPlaced(t, s, valid, gen.total, start_time, end_time)
<1>1. PICK total \in 1 .. 10 : total = gen.total
  BY DEF IsGen
<1>2. PICK found : found = FindAvailable(s.next, valid, RandomStart(total), total)
  OBVIOUS
<1>3. found # {} /\ found \subseteq valid /\ found \subseteq Usual(total)
  BY <1>1, <1>2, FindAvailableIs
<1>4. Placed(gen, s, valid, start_time, end_time)
        = {[pattern |-> AddNote(s.pattern, c, gen.total, start_time, end_time), next |-> c] :
               c \in found}
  BY <1>1, <1>2, <1>3 DEF Placed
<1> QED
  BY <1>1, <1>3, <1>4 DEF IsPlaced

\* The columns at the end are some of the pattern.
LEMMA EndColumnsAre ==
    ASSUME NEW total \in 1 .. 10, NEW end, NEW p, IsNotes(p, total, end)
    PROVE  EndColumns(p, total, end) \subseteq p.columns /\ p.columns \subseteq Columns(total)
BY DEF EndColumns, IsNotes, IsPattern

\* Notes in columns of their own, not too many
LEMMA SizedIsSlider ==
    ASSUME NEW gen, IsSliderGen(gen), NEW p, NEW m \in Nat, m # 0, gen.total = 8 => m <= 5,
           IsSized(p, gen.total, gen.obj.duration, m), p.columns \subseteq Usual(gen.total)
    PROVE  IsSlider(p, gen)
<1>1. PICK total \in 1 .. 10, end \in Nat : total = gen.total /\ end = gen.obj.duration
  BY DEF IsSliderGen, IsGen
<1>2. /\ IsNotes(p, total, end) /\ Len(p.hit_objects) = m
      /\ IsFiniteSet(p.columns) /\ Cardinality(p.columns) = m
  BY <1>1 DEF IsSized
<1>3. p.hit_objects # <<>>
  BY <1>2
<1>4. ASSUME NEW S, S \subseteq p.columns
      PROVE  Roomy(S, total)
  <2>1. CASE total = 8
    <3>1. PICK T : T = p.columns
      OBVIOUS
    <3>2. IsFiniteSet(T) /\ Cardinality(T) <= 5 /\ S \subseteq T
      BY <1>1, <1>2, <1>4, <2>1, <3>1
    <3>3. IsFiniteSet(S) /\ Cardinality(S) <= Cardinality(T)
      BY <3>2, FS_Subset
    <3>4. Cardinality(S) \in Nat /\ Cardinality(T) \in Nat
      BY <3>2, <3>3, FS_CardinalityType
    <3>5. S # {0}
      BY <1>1, <1>4, <2>1, StageColumns
    <3> QED
      BY <3>2, <3>3, <3>4, <3>5, FewAreRoomy
  <2> QED
    BY <2>1 DEF Roomy
<1>5. EndColumns(p, total, end) \subseteq p.columns
  BY <1>2, EndColumnsAre
<1> QED
  BY <1>1, <1>2, <1>3, <1>4, <1>5 DEF IsSlider

\* A note within the object, the first one (m = 0) at its begin
TimesFit(m, start_time, end_time, end) ==
    /\ start_time \in Int /\ end_time \in Int /\ start_time >= 0 /\ end_time <= end
    /\ m = 0 => start_time = 0

\* A placed note in a column of its own
LEMMA PlacedAlone ==
    ASSUME NEW total \in 1 .. 10, NEW end, NEW m \in Nat, NEW k, k = m + 1,
           NEW s \in Partial(total), IsSized(s.pattern, total, end, m),
           s.pattern.columns \subseteq Usual(total), NEW valid, valid \cap s.pattern.columns = {},
           NEW start_time, NEW end_time, TimesFit(m, start_time, end_time, end),
           NEW t, IsPlaced(t, s, valid, total, start_time, end_time)
    PROVE  /\ t \in Partial(total) /\ IsSized(t.pattern, total, end, k)
           /\ t.pattern.columns \subseteq Usual(total)
<1>1. PICK c \in Usual(total) :
        /\ c \in valid
        /\ t = [pattern |-> AddNote(s.pattern, c, total, start_time, end_time), next |-> c]
  BY DEF IsPlaced
<1>2. PICK p : p = s.pattern
  OBVIOUS
<1>3. PICK q : q = AddNote(p, c, total, start_time, end_time)
  OBVIOUS
<1>4. c \in Columns(total) /\ c \notin p.columns /\ IsSized(p, total, end, m)
  BY <1>1, <1>2, StageColumns
<1>5. AddedAlone(q, p, c, total, start_time, end_time, end, k)
  BY <1>3, <1>4, AddedToSized DEF TimesFit
<1>6. /\ IsSized(q, total, end, k) /\ q \in PatternType /\ q.columns \subseteq Usual(total)
  BY <1>1, <1>2, <1>5 DEF AddedAlone
<1>7. t = [pattern |-> q, next |-> c]
  BY <1>1, <1>2, <1>3
<1> QED
  BY <1>1, <1>6, <1>7 DEF Partial

\* generate_random_hold_notes
LEMMA RandomHoldNotesAre ==
    ASSUME NEW gen, IsSliderGen(gen), NEW note_count \in 1 .. 4,
           note_count <= gen.total - RandomStart(gen.total),
           NEW p \in RandomHoldNotes(gen, note_count)
    PROVE  IsSlider(p, gen)
<1> DEFINE
    usable == gen.total - RandomStart(gen.total) - Cardinality(gen.prev.columns)
    beside == MaxOf(MinOf(usable, note_count), 0)
    n == beside + SatSub(note_count, usable)
    Taken(s, k) == s.pattern.columns \cup (IF k <= beside THEN gen.prev.columns ELSE {})
    Valid(s, k) == Columns(gen.total) \ Taken(s, k)
    Place(s, k) == Placed(gen, s, Valid(s, k), 0, gen.obj.duration)
    base == Start(Usual(gen.total))
    Iter(h) == [k \in 0 .. n |-> IF k = 0 THEN base ELSE UNION {Place(s, k) : s \in h[k - 1]}]
    h == CHOOSE h : h = Iter(h)
    I(k) == {s \in Partial(gen.total) : /\ IsSized(s.pattern, gen.total, gen.obj.duration, k)
                                        /\ s.pattern.columns \subseteq Usual(gen.total)}
<1>1. \E s \in h[n] : p = s.pattern
  BY DEF RandomHoldNotes, Patterns
<1>2. PICK total \in 1 .. 10 : total = gen.total
  BY DEF IsSliderGen, IsGen
<1>3. PICK end \in Nat : end = gen.obj.duration
  BY DEF IsSliderGen
<1>4. PICK S : S = gen.prev.columns
  OBVIOUS
<1>5. S \subseteq Columns(total) /\ Roomy(S, total)
  BY <1>2, <1>4 DEF IsSliderGen, IsGen, IsSummary
<1>6. /\ IsFiniteSet(Columns(total)) /\ Cardinality(Columns(total)) = total
      /\ IsFiniteSet(Usual(total)) /\ Cardinality(Usual(total)) = total - RandomStart(total)
      /\ RandomStart(total) = IF total = 8 THEN 1 ELSE 0
  BY StageColumns DEF RandomStart
<1>7. IsFiniteSet(S) /\ Cardinality(S) \in Nat /\ Cardinality(S) <= total - RandomStart(total)
  <2>1. IsFiniteSet(S) /\ Cardinality(S) \in Nat /\ Cardinality(S) <= total
    BY <1>5, <1>6, FS_Subset, FS_CardinalityType
  <2>2. total = 8 => Cardinality(S) <= 6
    BY <1>5, RoomyIsSmall
  <2> QED
    BY <1>6, <2>1, <2>2
<1>8. PICK r \in Nat : r = Cardinality(Usual(total)) /\ r = total - RandomStart(total)
  BY <1>6
<1>9. PICK u \in Nat : u = usable /\ u = r - Cardinality(S)
  BY <1>2, <1>4, <1>7, <1>8
<1>10. n = note_count /\ n \in 1 .. 4 /\ n <= r
  BY <1>2, <1>8, <1>9 DEF MaxOf, MinOf, SatSub
<1>11. beside <= u
  BY <1>9 DEF MaxOf, MinOf
<1>12. n \in Nat
  BY <1>10
<1>13. base \in SUBSET I(0)
  <2>1. EmptyPattern \in PatternType /\ EmptyPattern.columns = {}
        /\ IsSized(EmptyPattern, gen.total, gen.obj.duration, 0)
    BY EmptyIsPattern, EmptyIsSized
  <2> QED
    BY <2>1 DEF Start, Partial
<1>14. ASSUME NEW k \in 1 .. n, NEW s \in I(k - 1)
       PROVE  Place(s, k) \subseteq I(k)
  <2>1. /\ s \in Partial(total) /\ IsSized(s.pattern, total, end, k - 1)
        /\ s.pattern.columns \subseteq Usual(total)
        /\ s.next \in Usual(total)
    BY <1>2, <1>3 DEF Partial
  <2>2. s.pattern.ok /\ IsFiniteSet(s.pattern.columns) /\ Cardinality(s.pattern.columns) = k - 1
    BY <2>1 DEF IsSized, IsNotes, IsPattern
  <2>3. PICK beside_ : beside_ = IF k <= beside THEN S ELSE {}
    OBVIOUS
  <2>4. IsFiniteSet(beside_) /\ k - 1 + Cardinality(beside_) < r
    <3>1. CASE k <= beside
      <4>1. k <= u
        <5>1. beside \in Int
          BY <1>9 DEF MaxOf, MinOf
        <5> QED
          BY <1>10, <1>11, <3>1, <5>1
      <4> QED
        BY <1>7, <1>8, <1>9, <1>10, <2>3, <3>1, <4>1
    <3>2. CASE ~(k <= beside)
      <4>1. IsFiniteSet(beside_) /\ Cardinality(beside_) = 0
        BY <2>3, <3>2, FS_EmptySet
      <4> QED
        BY <1>8, <1>10, <4>1
    <3> QED
      BY <3>1, <3>2
  <2> HIDE DEF n, beside, usable, h, I
  <2>5. Valid(s, k) = Columns(total) \ (s.pattern.columns \cup beside_)
    BY <1>2, <1>4, <2>3
  <2>6. PICK valid : valid = Valid(s, k)
    OBVIOUS
  <2>7. valid \cap Usual(total) # {} /\ valid \cap s.pattern.columns = {}
    <3>1. \E c \in Usual(total) : c \notin s.pattern.columns /\ c \notin beside_
      <4>1. Cardinality(s.pattern.columns) + Cardinality(beside_) < Cardinality(Usual(total))
        BY <1>8, <2>2, <2>4
      <4> QED
        BY <1>6, <2>2, <2>4, <4>1, FreeColumn
    <3> QED
      BY <2>5, <2>6, <3>1, StageColumns
  <2>8. ASSUME NEW t \in Place(s, k)
        PROVE  t \in I(k)
    <3>1. t \in Placed(gen, s, valid, 0, end)
      BY <1>3, <2>6, <2>8
    <3>2. IsPlaced(t, s, valid, total, 0, end)
      <4>1. IsGen(gen)
        BY DEF IsSliderGen
      <4> QED
        BY <1>2, <2>1, <2>2, <2>7, <3>1, <4>1, PlacedIs
    <3>3. PICK m \in Nat : m = k - 1 /\ k = m + 1
      BY <1>12
    <3>4. /\ t \in Partial(total) /\ IsSized(t.pattern, total, end, k)
          /\ t.pattern.columns \subseteq Usual(total)
      <4>1. IsSized(s.pattern, total, end, m)
        BY <2>1, <3>3
      <4>2. TimesFit(m, 0, end, end)
        BY <1>3 DEF TimesFit
      <4> QED
        BY <2>1, <2>7, <3>2, <3>3, <4>1, <4>2, PlacedAlone
    <3> QED
      BY <1>2, <1>3, <3>4 DEF I
  <2> QED
    BY <2>8
<1>15. h[n] \subseteq I(n)
  <2> DEFINE If == [k \in 0 .. n |-> I(k)]
             P == [k \in 1 .. n |-> [s \in I(k - 1) |-> Place(s, k)]]
  <2>0. n \in Nat /\ \A k \in 1 .. n : k \in 0 .. n /\ k - 1 \in 0 .. n /\ k # 0
    <3> HIDE DEF n
    <3> QED
      BY <1>12
  <2>1. /\ \A k \in 0 .. n : If[k] = I(k)
        /\ \A k \in 1 .. n : \A s \in I(k - 1) : P[k][s] = Place(s, k)
    <3> HIDE DEF Place, I, n
    <3> QED
      OBVIOUS
  <2>2. PICK f : IsReached(f, P, If, base, n)
    <3> HIDE DEF Place, I, n, If, P, base
    <3>1. base \in SUBSET If[0]
      BY <1>13, <2>0, <2>1
    <3>2. \A k \in 1 .. n : \A s \in If[k - 1] : P[k][s] \subseteq If[k]
      BY <1>14, <2>0, <2>1
    <3> QED
      BY <2>0, <3>1, <3>2, ReachedExists
  <2>3. f = Iter(f)
    <3>1. ASSUME NEW k \in 0 .. n
          PROVE  (IF k = 0 THEN base ELSE UNION {P[k][s] : s \in f[k - 1]})
                   = IF k = 0 THEN base ELSE UNION {Place(s, k) : s \in f[k - 1]}
      <4> HIDE DEF Place, I, n, If, P, base
      <4>1. CASE k # 0
        <5>1. k \in 1 .. n /\ k - 1 \in 0 .. n
          BY <2>0, <4>1
        <5>2. f[k - 1] \subseteq I(k - 1)
          BY <2>1, <2>2, <5>1 DEF IsReached
        <5>3. \A s \in f[k - 1] : P[k][s] = Place(s, k)
          BY <2>1, <5>1, <5>2
        <5>4. UNION {P[k][s] : s \in f[k - 1]} = UNION {Place(s, k) : s \in f[k - 1]}
          BY <5>3
        <5> QED
          BY <4>1, <5>4
      <4> QED
        BY <4>1
    <3> HIDE DEF Place, I, n, If, P, base
    <3> QED
      BY <2>2, <3>1 DEF IsReached
  <2>4. h = Iter(h)
    <3> HIDE DEF Iter
    <3> QED
      BY <2>3
  <2>5. h[0] = base /\ \A k \in 1 .. n : h[k] = UNION {Place(s, k) : s \in h[k - 1]}
    <3> HIDE DEF h, n, base, Place
    <3>1. ASSUME NEW k \in 0 .. n
          PROVE  h[k] = IF k = 0 THEN base ELSE UNION {Place(s, k) : s \in h[k - 1]}
      BY ONLY <2>4
    <3>2. h[0] = base
      <4>1. 0 \in 0 .. n
        BY <2>0
      <4> QED
        BY <3>1, <4>1
    <3>3. ASSUME NEW k \in 1 .. n
          PROVE  h[k] = UNION {Place(s, k) : s \in h[k - 1]}
      <4>1. k \in 0 .. n /\ k # 0
        BY <2>0
      <4> QED
        BY <3>1, <4>1, Zenon
    <3> QED
      BY <3>2, <3>3
  <2> DEFINE J == [k \in 0 .. n |-> SUBSET I(k)]
  <2>6. \A k \in 0 .. n : J[k] = SUBSET I(k)
    <3> HIDE DEF I, n
    <3> QED
      OBVIOUS
  <2> HIDE DEF h, n, base, J, I, Place
  <2>7. h[0] \in J[0]
    BY <1>13, <2>0, <2>5, <2>6
  <2>8. \A k \in 1 .. n : h[k - 1] \in J[k - 1] => h[k] \in J[k]
    <3>1. ASSUME NEW k \in 1 .. n, h[k - 1] \in J[k - 1]
          PROVE  h[k] \in J[k]
      <4>1. h[k - 1] \subseteq I(k - 1)
        BY <2>0, <2>6, <3>1
      <4>2. UNION {Place(s, k) : s \in h[k - 1]} \subseteq I(k)
        BY <1>14, <4>1
      <4> QED
        BY <2>0, <2>5, <2>6, <4>2
    <3> QED
      BY <3>1
  <2>9. h[n] \in J[n]
    BY <2>0, <2>7, <2>8, StepsKeep
  <2> QED
    BY <2>0, <2>6, <2>9
<1>16. IsSized(p, gen.total, gen.obj.duration, n) /\ p.columns \subseteq Usual(gen.total)
  <2> HIDE DEF h, n
  <2> QED
    BY <1>1, <1>15
<1>17. n \in Nat /\ n # 0 /\ n <= 5
  BY <1>10
<1> QED
  <2> HIDE DEF h, n
  <2> QED
    BY <1>16, <1>17, SizedIsSlider

LEMMA NRandomNotesAre ==
    ASSUME NEW gen, IsSliderGen(gen), gen.total # 1, NEW p2, NEW p3, NEW p4,
           NEW p \in NRandomNotes(gen, p2, p3, p4)
    PROVE  IsSlider(p, gen)
<1>1. PICK total \in 1 .. 10 : total = gen.total
  BY DEF IsSliderGen, IsGen
<1>2. PICK q2, q3, q4, n :
        /\ n \in RandomNoteCounts(q2, q3, q4, 0) /\ p \in RandomHoldNotes(gen, n)
        /\ total \in {2, 3} => q3 = 0
        /\ total \in 2 .. 4 => q4 = 0
  <2> DEFINE q2 == CASE total = 2 -> 0 [] total = 3 -> MinOf(p2, 10) [] total = 4 -> MinOf(p2, 30)
                     [] total = 5 -> MinOf(p2, 34) [] OTHER -> p2
             q3 == CASE total \in {2, 3} -> 0 [] total = 4 -> MinOf(p3, 4)
                     [] total = 5 -> MinOf(p3, 10) [] OTHER -> p3
             q4 == CASE total \in 2 .. 4 -> 0 [] total = 5 -> MinOf(p4, 3) [] OTHER -> p4
             two == /\ "LOW_PROBABILITY" \notin gen.type
                    /\ HasAny(gen.obj.sample \cup gen.obj.first_sample, {"CLAP", "FINISH"})
  <2>1. PICK n \in RandomNoteCounts(IF two THEN 100 ELSE q2, q3, q4, 0) : p \in RandomHoldNotes(gen, n)
    BY <1>1 DEF NRandomNotes
  <2>2. (total \in {2, 3} => q3 = 0) /\ (total \in 2 .. 4 => q4 = 0)
    OBVIOUS
  <2> HIDE DEF q2, q3, q4, two
  <2> QED
    BY <2>1, <2>2
<1>3. n \in 1 .. 5 /\ n # 5 /\ (q3 = 0 => n # 3) /\ (q4 = 0 => n # 4)
  BY <1>2, NoteCountsBelow
<1>4. n \in 1 .. 4 /\ n <= total - RandomStart(total)
  <2>1. RandomStart(total) = IF total = 8 THEN 1 ELSE 0
    BY DEF RandomStart
  <2>2. total # 1
    BY <1>1
  <2> QED
    BY ONLY <1>2, <1>3, <2>1, <2>2, total \in 1 .. 10
<1> QED
  BY <1>1, <1>2, <1>4, RandomHoldNotesAre

\* The rows of a slider are evenly spaced, up to its last span.
LEMMA TimeOfIs ==
    ASSUME NEW gen, IsSliderGen(gen), NEW row \in Nat
    PROVE  /\ SegmentDuration(gen.obj) \in Nat /\ TimeOf(gen, row) \in Nat /\ TimeOf(gen, 0) = 0
           /\ TimeOf(gen, row + 1) = TimeOf(gen, row) + SegmentDuration(gen.obj)
           /\ row <= gen.obj.span_count => TimeOf(gen, row) <= gen.obj.duration
<1>1. PICK spans \in Nat \ {0}, duration \in Nat :
        spans = gen.obj.span_count /\ duration = gen.obj.duration
  BY DEF IsSliderGen
<1>2. PICK segment \in Nat : segment = duration \div spans /\ spans * segment <= duration
  <2>1. duration \div spans \in Nat
    OBVIOUS
  <2>2. spans * (duration \div spans) <= duration
    BY ONLY spans \in Nat \ {0}, duration \in Nat
  <2> QED
    BY <2>1, <2>2
<1>3. \A k : TimeOf(gen, k) = k * segment
  BY <1>1, <1>2 DEF TimeOf, SegmentDuration
<1>4. row * segment \in Nat /\ 0 * segment = 0 /\ (row + 1) * segment = row * segment + segment
  BY ONLY row \in Nat, segment \in Nat
<1>5. row <= spans => row * segment <= spans * segment
  BY ONLY row \in Nat, segment \in Nat, spans \in Nat
<1>6. row <= spans => row * segment <= duration
  <2>1. PICK a \in Int, b \in Int : a = row * segment /\ b = spans * segment
    OBVIOUS
  <2> QED
    BY <1>2, <1>5, <2>1
<1>7. SegmentDuration(gen.obj) = segment
  BY <1>1, <1>2 DEF SegmentDuration
<1> QED
  BY <1>1, <1>3, <1>4, <1>6, <1>7

\* generate_tiled_hold_notes
LEMMA TiledHoldNotesAre ==
    ASSUME NEW gen, IsSliderGen(gen), gen.obj.span_count < gen.total - 1 - RandomStart(gen.total),
           NEW p \in TiledHoldNotes(gen)
    PROVE  IsSlider(p, gen)
<1> DEFINE
    n == MinOf(gen.obj.span_count, gen.total)
    last == TimeOf(gen, gen.obj.span_count)
    Valid(s) == Columns(gen.total) \ s.pattern.columns
    Place(s, k) == Placed(gen, s, Valid(s), TimeOf(gen, k - 1), last)
    base == Start(FirstColumns(gen))
    Iter(h) == [k \in 0 .. n |-> IF k = 0 THEN base ELSE UNION {Place(s, k) : s \in h[k - 1]}]
    h == CHOOSE h : h = Iter(h)
    I(k) == {s \in Partial(gen.total) : /\ IsSized(s.pattern, gen.total, gen.obj.duration, k)
                                        /\ s.pattern.columns \subseteq Usual(gen.total)}
<1>1. PICK total \in 1 .. 10 : total = gen.total
  BY DEF IsSliderGen, IsGen
<1>2. PICK end \in Nat : end = gen.obj.duration
  BY DEF IsSliderGen
<1>3. PICK spans \in Nat \ {0} : spans = gen.obj.span_count
  BY DEF IsSliderGen
<1>4. IsGen(gen) /\ FirstColumns(gen) # {} /\ FirstColumns(gen) \subseteq Usual(total)
  BY <1>1, FirstColumnsAre DEF IsSliderGen
<1>5. \E s \in h[n] : p = s.pattern
  BY <1>4 DEF TiledHoldNotes, Patterns
<1>6. /\ IsFiniteSet(Usual(total)) /\ Cardinality(Usual(total)) = total - RandomStart(total)
      /\ RandomStart(total) = IF total = 8 THEN 1 ELSE 0
  BY StageColumns DEF RandomStart
<1>7. n = spans /\ n \in Nat /\ n # 0 /\ n < Cardinality(Usual(total)) /\ (total = 8 => n <= 5)
  BY <1>1, <1>3, <1>6 DEF MinOf
<1>8. base \in SUBSET I(0)
  <2>1. EmptyPattern \in PatternType /\ EmptyPattern.columns = {}
        /\ IsSized(EmptyPattern, gen.total, gen.obj.duration, 0)
    BY EmptyIsPattern, EmptyIsSized
  <2>2. FirstColumns(gen) \subseteq Usual(gen.total)
    BY <1>1, <1>4
  <2> QED
    BY <2>1, <2>2 DEF Start, Partial
<1>9. ASSUME NEW k \in 1 .. n, NEW s \in I(k - 1)
      PROVE  Place(s, k) \subseteq I(k)
  <2>1. /\ s \in Partial(total) /\ IsSized(s.pattern, total, end, k - 1)
        /\ s.pattern.columns \subseteq Usual(total)
        /\ s.next \in Usual(total)
    BY <1>1, <1>2 DEF Partial
  <2>2. s.pattern.ok /\ IsFiniteSet(s.pattern.columns) /\ Cardinality(s.pattern.columns) = k - 1
    BY <2>1 DEF IsSized, IsNotes, IsPattern
  <2>3. PICK m \in Nat : m = k - 1 /\ k = m + 1 /\ m <= spans
    BY <1>7
  <2>4. PICK start_time \in Nat, end_time \in Nat :
          /\ start_time = TimeOf(gen, k - 1) /\ end_time = last
          /\ end_time <= end /\ (m = 0 => start_time = 0)
    <3>1. spans \in Nat /\ spans <= gen.obj.span_count
      BY <1>3
    <3>2. last \in Nat /\ last <= end
      BY <1>2, <1>3, <3>1, TimeOfIs
    <3>3. TimeOf(gen, m) \in Nat /\ (m = 0 => TimeOf(gen, m) = 0)
      BY TimeOfIs
    <3> QED
      BY <2>3, <3>2, <3>3
  <2> HIDE DEF n, h, I
  <2>5. PICK valid : valid = Columns(total) \ s.pattern.columns /\ valid = Valid(s)
    BY <1>1
  <2>6. valid \cap Usual(total) # {} /\ valid \cap s.pattern.columns = {}
    <3>1. \E c \in Usual(total) : c \notin s.pattern.columns /\ c \notin {}
      <4>1. IsFiniteSet({}) /\ Cardinality({}) = 0
        BY FS_EmptySet
      <4>2. Cardinality(s.pattern.columns) + Cardinality({}) < Cardinality(Usual(total))
        BY <1>6, <1>7, <2>2, <2>3, <4>1
      <4> QED
        BY <1>6, <2>2, <4>1, <4>2, FreeColumn
    <3> QED
      BY <2>5, <3>1, StageColumns
  <2>7. ASSUME NEW t \in Place(s, k)
        PROVE  t \in I(k)
    <3>1. t \in Placed(gen, s, valid, start_time, end_time)
      BY <2>4, <2>5, <2>7
    <3>2. IsPlaced(t, s, valid, total, start_time, end_time)
      BY <1>1, <1>4, <2>1, <2>2, <2>6, <3>1, PlacedIs
    <3>3. /\ t \in Partial(total) /\ IsSized(t.pattern, total, end, k)
          /\ t.pattern.columns \subseteq Usual(total)
      <4>1. IsSized(s.pattern, total, end, m)
        BY <2>1, <2>3
      <4>2. TimesFit(m, start_time, end_time, end)
        BY <1>2, <2>4 DEF TimesFit
      <4> QED
        BY <2>1, <2>3, <2>6, <3>2, <4>1, <4>2, PlacedAlone
    <3> QED
      BY <1>1, <1>2, <3>3 DEF I
  <2> QED
    BY <2>7
<1>10. h[n] \subseteq I(n)
  <2> DEFINE If == [k \in 0 .. n |-> I(k)]
             P == [k \in 1 .. n |-> [s \in I(k - 1) |-> Place(s, k)]]
  <2>0. n \in Nat /\ \A k \in 1 .. n : k \in 0 .. n /\ k - 1 \in 0 .. n /\ k # 0
    <3> HIDE DEF n
    <3> QED
      BY <1>7
  <2>1. /\ \A k \in 0 .. n : If[k] = I(k)
        /\ \A k \in 1 .. n : \A s \in I(k - 1) : P[k][s] = Place(s, k)
    <3> HIDE DEF Place, I, n
    <3> QED
      OBVIOUS
  <2>2. PICK f : IsReached(f, P, If, base, n)
    <3> HIDE DEF Place, I, n, If, P, base
    <3>1. base \in SUBSET If[0]
      BY <1>8, <2>0, <2>1
    <3>2. \A k \in 1 .. n : \A s \in If[k - 1] : P[k][s] \subseteq If[k]
      BY <1>9, <2>0, <2>1
    <3> QED
      BY <2>0, <3>1, <3>2, ReachedExists
  <2>3. f = Iter(f)
    <3>1. ASSUME NEW k \in 0 .. n
          PROVE  (IF k = 0 THEN base ELSE UNION {P[k][s] : s \in f[k - 1]})
                   = IF k = 0 THEN base ELSE UNION {Place(s, k) : s \in f[k - 1]}
      <4> HIDE DEF Place, I, n, If, P, base
      <4>1. CASE k # 0
        <5>1. k \in 1 .. n /\ k - 1 \in 0 .. n
          BY <2>0, <4>1
        <5>2. f[k - 1] \subseteq I(k - 1)
          BY <2>1, <2>2, <5>1 DEF IsReached
        <5>3. \A s \in f[k - 1] : P[k][s] = Place(s, k)
          BY <2>1, <5>1, <5>2
        <5>4. UNION {P[k][s] : s \in f[k - 1]} = UNION {Place(s, k) : s \in f[k - 1]}
          BY <5>3
        <5> QED
          BY <4>1, <5>4
      <4> QED
        BY <4>1
    <3> HIDE DEF Place, I, n, If, P, base
    <3> QED
      BY <2>2, <3>1 DEF IsReached
  <2>4. h = Iter(h)
    <3> HIDE DEF Iter
    <3> QED
      BY <2>3
  <2>5. h[0] = base /\ \A k \in 1 .. n : h[k] = UNION {Place(s, k) : s \in h[k - 1]}
    <3> HIDE DEF h, n, base, Place
    <3>1. ASSUME NEW k \in 0 .. n
          PROVE  h[k] = IF k = 0 THEN base ELSE UNION {Place(s, k) : s \in h[k - 1]}
      BY ONLY <2>4
    <3>2. h[0] = base
      <4>1. 0 \in 0 .. n
        BY <2>0
      <4> QED
        BY <3>1, <4>1
    <3>3. ASSUME NEW k \in 1 .. n
          PROVE  h[k] = UNION {Place(s, k) : s \in h[k - 1]}
      <4>1. k \in 0 .. n /\ k # 0
        BY <2>0
      <4> QED
        BY <3>1, <4>1, Zenon
    <3> QED
      BY <3>2, <3>3
  <2> DEFINE J == [k \in 0 .. n |-> SUBSET I(k)]
  <2>6. \A k \in 0 .. n : J[k] = SUBSET I(k)
    <3> HIDE DEF I, n
    <3> QED
      OBVIOUS
  <2> HIDE DEF h, n, base, J, I, Place
  <2>7. h[0] \in J[0]
    BY <1>8, <2>0, <2>5, <2>6
  <2>8. \A k \in 1 .. n : h[k - 1] \in J[k - 1] => h[k] \in J[k]
    <3>1. ASSUME NEW k \in 1 .. n, h[k - 1] \in J[k - 1]
          PROVE  h[k] \in J[k]
      <4>1. h[k - 1] \subseteq I(k - 1)
        BY <2>0, <2>6, <3>1
      <4>2. UNION {Place(s, k) : s \in h[k - 1]} \subseteq I(k)
        BY <1>9, <4>1
      <4> QED
        BY <2>0, <2>5, <2>6, <4>2
    <3> QED
      BY <3>1
  <2>9. h[n] \in J[n]
    BY <2>0, <2>7, <2>8, StepsKeep
  <2> QED
    BY <2>0, <2>6, <2>9
<1>11. IsSized(p, gen.total, gen.obj.duration, n) /\ p.columns \subseteq Usual(gen.total)
  <2> HIDE DEF h, n
  <2> QED
    BY <1>5, <1>10
<1> QED
  <2> HIDE DEF h, n
  <2> QED
    BY <1>1, <1>7, <1>11, SizedIsSlider

LEMMA TimesOfNotes ==
    ASSUME NEW total, NEW end, NEW p, IsNotes(p, total, end), NEW i \in DOMAIN p.hit_objects
    PROVE  /\ p.hit_objects[i].start_time \in Int /\ p.hit_objects[i].end_time \in Int
           /\ p.hit_objects[i].start_time >= 0 /\ p.hit_objects[i].end_time <= end
<1>1. p.hit_objects \in Seq(NoteType)
  BY DEF IsNotes, IsPattern, PatternType
<1>2. p.hit_objects[i] \in NoteType
  BY <1>1
<1> QED
  BY <1>2 DEF IsNotes, NoteType

\* The notes up to a row, which has a note in a column c of the usual ones, and
\* no other than one in column d
RowNotes(p, total, end, time, c, d) ==
    /\ IsNotes(p, total, end)
    /\ c \in Usual(total) /\ d \in Columns(total)
    /\ \E i \in DOMAIN p.hit_objects :
           ColumnAt(p, total, i) = c /\ p.hit_objects[i].end_time = time
    /\ \A i \in DOMAIN p.hit_objects :
           /\ p.hit_objects[i].end_time <= time
           /\ p.hit_objects[i].end_time = time => ColumnAt(p, total, i) \in {c, d}

\* The notes before a row
Before(p, total, end, time) ==
    /\ IsNotes(p, total, end)
    /\ p.hit_objects = <<>> => time = 0
    /\ \A i \in DOMAIN p.hit_objects : p.hit_objects[i].end_time < time

LEMMA FirstOfRow ==
    ASSUME NEW total \in 1 .. 10, NEW end \in Nat, NEW time \in Nat, time <= end,
           NEW p, Before(p, total, end, time), NEW c \in Usual(total),
           NEW q, q = AddNote(p, c, total, time, time)
    PROVE  RowNotes(q, total, end, time, c, c) /\ q \in PatternType
<1>1. c \in Columns(total) /\ IsNotes(p, total, end)
  BY StageColumns DEF Before
<1>2. Joins(p, c, total, time, time, end)
  BY <1>1 DEF Joins, Before
<1>3. Joined(q, p, c, total, time, time, end)
  BY <1>1, <1>2, NoteJoined
<1>4. PICK n : NewNote(q, p, n, c, total, time, time)
  BY <1>3 DEF Joined
<1>5. ColumnAt(q, total, n) = c /\ q.hit_objects[n].end_time = time /\ n \in DOMAIN q.hit_objects
  BY <1>4 DEF NewNote
<1>6. ASSUME NEW i \in DOMAIN q.hit_objects
      PROVE  /\ q.hit_objects[i].end_time <= time
             /\ q.hit_objects[i].end_time = time => ColumnAt(q, total, i) \in {c, c}
  <2>1. CASE i = n
    BY <1>5, <2>1
  <2>2. CASE i # n
    <3>1. i \in DOMAIN p.hit_objects /\ q.hit_objects[i] = p.hit_objects[i]
      BY <1>4, <2>2 DEF NewNote
    <3>2. p.hit_objects[i].end_time < time /\ p.hit_objects[i].end_time \in Int
      BY <1>1, <3>1, TimesOfNotes DEF Before
    <3> QED
      BY <3>1, <3>2
  <2> QED
    BY <2>1, <2>2
<1> QED
  BY <1>1, <1>3, <1>5, <1>6 DEF RowNotes, Joined

LEMMA SecondOfRow ==
    ASSUME NEW total \in 1 .. 10, NEW end \in Nat, NEW time \in Nat, time <= end,
           NEW p, NEW c, RowNotes(p, total, end, time, c, c), NEW d \in Columns(total), d # c,
           NEW q, q = AddNote(p, d, total, time, time)
    PROVE  RowNotes(q, total, end, time, c, d) /\ q \in PatternType
<1>1. IsNotes(p, total, end) /\ c \in Usual(total)
  BY DEF RowNotes
<1>2. PICK k \in DOMAIN p.hit_objects :
        ColumnAt(p, total, k) = c /\ p.hit_objects[k].end_time = time
  BY DEF RowNotes
<1>3. ASSUME NEW i \in DOMAIN p.hit_objects
      PROVE  /\ p.hit_objects[i].end_time \in Int /\ p.hit_objects[i].end_time <= time
             /\ p.hit_objects[i].end_time = time => ColumnAt(p, total, i) = c
  BY <1>1, TimesOfNotes DEF RowNotes
<1>4. Joins(p, d, total, time, time, end)
  <2>1. p.hit_objects # <<>>
    BY <1>2
  <2>2. ASSUME NEW i \in DOMAIN p.hit_objects, ColumnAt(p, total, i) = d
        PROVE  p.hit_objects[i].end_time < time
    BY <1>3, <2>2
  <2> QED
    BY <2>1, <2>2 DEF Joins
<1>5. Joined(q, p, d, total, time, time, end)
  BY <1>1, <1>4, NoteJoined
<1>6. PICK n : NewNote(q, p, n, d, total, time, time)
  BY <1>5 DEF Joined
<1>7. ColumnAt(q, total, n) = d /\ q.hit_objects[n].end_time = time /\ n \in DOMAIN q.hit_objects
  BY <1>6 DEF NewNote
<1>8. /\ k \in DOMAIN q.hit_objects
      /\ ColumnAt(q, total, k) = c /\ q.hit_objects[k].end_time = time
  BY <1>2, <1>6 DEF NewNote
<1>9. ASSUME NEW i \in DOMAIN q.hit_objects
      PROVE  /\ q.hit_objects[i].end_time <= time
             /\ q.hit_objects[i].end_time = time => ColumnAt(q, total, i) \in {c, d}
  <2>1. CASE i = n
    BY <1>7, <2>1
  <2>2. CASE i # n
    <3>1. i \in DOMAIN p.hit_objects /\ q.hit_objects[i] = p.hit_objects[i]
          /\ ColumnAt(q, total, i) = ColumnAt(p, total, i)
      BY <1>6, <2>2 DEF NewNote
    <3> QED
      BY <1>3, <3>1
  <2> QED
    BY <2>1, <2>2
<1> QED
  BY <1>1, <1>5, <1>8, <1>9 DEF RowNotes, Joined

\* A row later
LEMMA RowIsBefore ==
    ASSUME NEW total, NEW end, NEW time \in Int, NEW p, NEW c, NEW d,
           RowNotes(p, total, end, time, c, d), NEW next \in Int, time < next
    PROVE  Before(p, total, end, next)
<1>1. ASSUME NEW i \in DOMAIN p.hit_objects
      PROVE  p.hit_objects[i].end_time < next
  <2>1. p.hit_objects[i].end_time \in Int /\ p.hit_objects[i].end_time <= time
    BY TimesOfNotes DEF RowNotes
  <2> QED
    BY <2>1
<1>2. p.hit_objects # <<>>
  BY DEF RowNotes
<1> QED
  BY <1>1, <1>2 DEF Before, RowNotes

\* Few columns end with the slider, and not only the special one.
LEMMA FewEndsAreSlider ==
    ASSUME NEW gen, IsSliderGen(gen), NEW p, IsNotes(p, gen.total, gen.obj.duration),
           p.hit_objects # <<>>, NEW C, IsFiniteSet(C), Cardinality(C) <= 3,
           EndColumns(p, gen.total, gen.obj.duration) \subseteq C,
           gen.total = 8 => EndColumns(p, gen.total, gen.obj.duration) # {0},
           Len(p.hit_objects) = 1 => ColumnAt(p, gen.total, 1) \in Usual(gen.total)
    PROVE  IsSlider(p, gen)
<1>1. PICK total \in 1 .. 10, end \in Nat : total = gen.total /\ end = gen.obj.duration
  BY DEF IsSliderGen, IsGen
<1>2. PICK E : E = EndColumns(p, total, end)
  OBVIOUS
<1>3. Roomy(E, total)
  <2>1. E \subseteq C /\ (total = 8 => E # {0})
    BY <1>1, <1>2
  <2>2. IsFiniteSet(E) /\ Cardinality(E) <= Cardinality(C)
    BY <2>1, FS_Subset
  <2>3. Cardinality(E) \in Nat /\ Cardinality(C) \in Nat
    BY <2>2, FS_CardinalityType
  <2>4. Cardinality(E) <= 5
    BY <2>2, <2>3
  <2> QED
    BY <2>1, <2>2, <2>4, FewAreRoomy DEF Roomy
<1>4. ASSUME Len(p.hit_objects) = 1
      PROVE  Roomy(p.columns, total)
  <2>1. PICK c : c = ColumnAt(p, total, 1) /\ c \in Usual(total)
    BY <1>1, <1>4
  <2>2. p.hit_objects \in Seq(NoteType)
    BY DEF IsNotes, IsPattern, PatternType
  <2>3. DOMAIN p.hit_objects = {1}
    BY <1>4, <2>2
  <2>4. p.columns = {c}
    BY <1>1, <2>1, <2>3 DEF IsNotes, IsPattern
  <2>5. IsFiniteSet({c}) /\ Cardinality({c}) = 1
    BY FS_Singleton
  <2>6. {c} # {0} \/ total # 8
    BY <2>1, StageColumns
  <2> QED
    BY <2>4, <2>5, <2>6, FewAreRoomy DEF Roomy
<1> QED
  BY <1>1, <1>2, <1>3, <1>4 DEF IsSlider

LEMMA RowsAreSlider ==
    ASSUME NEW gen, IsSliderGen(gen), NEW p, NEW time, NEW c, NEW d,
           RowNotes(p, gen.total, gen.obj.duration, time, c, d), time <= gen.obj.duration,
           time \in Nat, Len(p.hit_objects) = 1 => ColumnAt(p, gen.total, 1) \in Usual(gen.total)
    PROVE  IsSlider(p, gen)
<1>1. PICK total \in 1 .. 10, end \in Nat : total = gen.total /\ end = gen.obj.duration
  BY DEF IsSliderGen, IsGen
<1>2. IsNotes(p, total, end) /\ p.hit_objects # <<>> /\ c \in Usual(total)
  BY <1>1 DEF RowNotes
<1>3. IsFiniteSet({c, d}) /\ Cardinality({c, d}) <= 3
  <2>1. IsFiniteSet({c}) /\ Cardinality({c}) = 1
    BY FS_Singleton
  <2>2. IsFiniteSet({c} \cup {d}) /\ Cardinality({c} \cup {d}) \in {1, 2}
    BY <2>1, FS_AddElement
  <2>3. {c} \cup {d} = {c, d}
    OBVIOUS
  <2> QED
    BY <2>2, <2>3
<1>4. PICK E : E = EndColumns(p, total, end)
  OBVIOUS
<1>5. E \subseteq {c, d} /\ (total = 8 => E # {0})
  <2>1. CASE time = end
    <3>1. E \subseteq {c, d}
      BY <1>1, <1>4, <2>1 DEF EndColumns, RowNotes
    <3>2. c \in E
      BY <1>1, <1>4, <2>1 DEF EndColumns, RowNotes
    <3>3. total = 8 => c # 0
      BY <1>2, StageColumns
    <3> QED
      BY <3>1, <3>2, <3>3
  <2>2. CASE time # end
    <3>1. ASSUME NEW i \in DOMAIN p.hit_objects
          PROVE  p.hit_objects[i].end_time # end
      <4>1. p.hit_objects[i].end_time \in Int /\ p.hit_objects[i].end_time <= time
        BY <1>1, <1>2, TimesOfNotes DEF RowNotes
      <4> QED
        BY <1>1, <2>2, <4>1
    <3>2. E = {}
      BY <1>4, <3>1 DEF EndColumns
    <3> QED
      BY <3>2
  <2> QED
    BY <2>1, <2>2
<1> QED
  BY <1>1, <1>2, <1>3, <1>4, <1>5, FewEndsAreSlider

\* A pattern after a number of rows of notes
RowState(s, gen, rows) ==
    /\ s.pattern \in PatternType /\ s.next \in Usual(gen.total)
    /\ rows = 0 => s.pattern = EmptyPattern
    /\ rows # 0 => /\ \E c, d : RowNotes(s.pattern, gen.total, gen.obj.duration,
                                         TimeOf(gen, rows - 1), c, d)
                   /\ Len(s.pattern.hit_objects) = 1 =>
                          ColumnAt(s.pattern, gen.total, 1) \in Usual(gen.total)

\* The rows that are left have a time of their own.
LEMMA RowStateIsBefore ==
    ASSUME NEW gen, IsSliderGen(gen), NEW row \in Nat, NEW s, RowState(s, gen, row),
           row # 0 => SegmentDuration(gen.obj) # 0
    PROVE  Before(s.pattern, gen.total, gen.obj.duration, TimeOf(gen, row))
<1>1. CASE row = 0
  <2>1. TimeOf(gen, row) = 0
    BY <1>1, TimeOfIs
  <2>2. s.pattern = EmptyPattern
    BY <1>1 DEF RowState
  <2>3. IsNotes(EmptyPattern, gen.total, gen.obj.duration) /\ DOMAIN EmptyPattern.hit_objects = {}
    BY EmptyIsNotes, EmptyIsPattern
  <2> QED
    BY <2>1, <2>2, <2>3 DEF Before
<1>2. CASE row # 0
  <2>1. PICK r \in Nat : r = row - 1 /\ row = r + 1
    BY <1>2
  <2>2. PICK time \in Nat, next \in Nat :
          time = TimeOf(gen, r) /\ next = TimeOf(gen, r + 1) /\ time < next
    <3>1. /\ SegmentDuration(gen.obj) \in Nat /\ TimeOf(gen, r) \in Nat
          /\ TimeOf(gen, r + 1) = TimeOf(gen, r) + SegmentDuration(gen.obj)
      BY TimeOfIs
    <3>2. SegmentDuration(gen.obj) # 0
      BY <1>2
    <3> QED
      BY <3>1, <3>2
  <2>3. PICK c, d : RowNotes(s.pattern, gen.total, gen.obj.duration, time, c, d)
    BY <1>2, <2>1, <2>2 DEF RowState
  <2> QED
    BY <2>1, <2>2, <2>3, RowIsBefore
<1> QED
  BY <1>1, <1>2

LEMMA RowStateIsSlider ==
    ASSUME NEW gen, IsSliderGen(gen), NEW row \in Nat, row <= gen.obj.span_count,
           NEW s, NEW rows, rows = row + 1, RowState(s, gen, rows)
    PROVE  IsSlider(s.pattern, gen)
<1>1. rows # 0 /\ rows - 1 = row
  OBVIOUS
<1>2. PICK time \in Nat : time = TimeOf(gen, row) /\ time <= gen.obj.duration
  BY TimeOfIs
<1>3. PICK c, d : RowNotes(s.pattern, gen.total, gen.obj.duration, time, c, d)
  BY <1>1, <1>2 DEF RowState
<1>4. Len(s.pattern.hit_objects) = 1 => ColumnAt(s.pattern, gen.total, 1) \in Usual(gen.total)
  BY <1>1 DEF RowState
<1> QED
  BY <1>2, <1>3, <1>4, RowsAreSlider

\* One note in a row
LEMMA SingleRow ==
    ASSUME NEW gen, IsSliderGen(gen), NEW row \in Nat, row <= gen.obj.span_count,
           row # 0 => SegmentDuration(gen.obj) # 0, NEW s, RowState(s, gen, row),
           NEW q, q = AddNote(s.pattern, s.next, gen.total, TimeOf(gen, row), TimeOf(gen, row))
    PROVE  /\ RowNotes(q, gen.total, gen.obj.duration, TimeOf(gen, row), s.next, s.next)
           /\ q \in PatternType
           /\ Len(q.hit_objects) = 1 => ColumnAt(q, gen.total, 1) \in Usual(gen.total)
<1>1. PICK total \in 1 .. 10, end \in Nat : total = gen.total /\ end = gen.obj.duration
  BY DEF IsSliderGen, IsGen
<1>2. PICK time \in Nat : time = TimeOf(gen, row) /\ time <= end
  BY <1>1, TimeOfIs
<1>3. PICK p : p = s.pattern
  OBVIOUS
<1>4. PICK c \in Usual(total) : c = s.next
  BY <1>1 DEF RowState
<1>5. Before(p, total, end, time)
  BY <1>1, <1>2, <1>3, RowStateIsBefore
<1>6. RowNotes(q, total, end, time, c, c) /\ q \in PatternType
  BY <1>1, <1>2, <1>3, <1>4, <1>5, FirstOfRow
<1>7. ASSUME Len(q.hit_objects) = 1
      PROVE  ColumnAt(q, total, 1) \in Usual(total)
  <2>1. q.hit_objects \in Seq(NoteType)
    BY <1>6 DEF PatternType
  <2>2. DOMAIN q.hit_objects = {1}
    BY <1>7, <2>1
  <2> QED
    BY <1>6, <2>2 DEF RowNotes
<1> QED
  BY <1>1, <1>2, <1>4, <1>6, <1>7

\* generate_random_notes of a slider
LEMMA RandomNotesOfAre ==
    ASSUME NEW gen, IsSliderGen(gen), gen.total # 1, NEW note_count \in Nat \ {0},
           note_count <= gen.obj.span_count + 1,
           note_count # 1 => SegmentDuration(gen.obj) # 0,
           NEW p \in RandomNotesOf(gen, note_count)
    PROVE  IsSlider(p, gen)
<1> DEFINE
    n == note_count
    More(s, row) ==
        LET added == [s EXCEPT !.pattern =
                         AddNote(@, s.next, gen.total, TimeOf(gen, row), TimeOf(gen, row))]
            found == FindAvailable(s.next, Columns(gen.total) \ {s.next},
                                   RandomStart(gen.total), gen.total)
        IN  IF ~s.pattern.ok THEN {s}
            ELSE IF found = {} THEN {[s EXCEPT !.pattern = FailedPattern]}
            ELSE {[added EXCEPT !.next = c] : c \in found}
    Place(s, k) == More(s, k - 1)
    base == Start(FirstColumns(gen))
    Iter(h) == [k \in 0 .. n |-> IF k = 0 THEN base ELSE UNION {Place(s, k) : s \in h[k - 1]}]
    h == CHOOSE h : h = Iter(h)
    I(k) == {s \in Partial(gen.total) : RowState(s, gen, k)}
<1>1. PICK total \in 1 .. 10 : total = gen.total /\ total # 1
  BY DEF IsSliderGen, IsGen
<1>2. PICK spans \in Nat \ {0} : spans = gen.obj.span_count
  BY DEF IsSliderGen
<1>3. FirstColumns(gen) # {} /\ FirstColumns(gen) \subseteq Usual(total)
  BY <1>1, FirstColumnsAre DEF IsSliderGen
<1>4. \E s \in h[n] : p = s.pattern
  BY <1>3 DEF RandomNotesOf, Patterns
<1>5. n \in Nat
  OBVIOUS
<1>6. base \in SUBSET I(0)
  <2>1. EmptyPattern \in PatternType
    BY EmptyIsPattern
  <2> QED
    BY <1>1, <1>3, <2>1 DEF Start, Partial, RowState
<1>7. ASSUME NEW k \in 1 .. n, NEW s \in I(k - 1)
      PROVE  Place(s, k) \subseteq I(k)
  <2>1. PICK row \in Nat :
          row = k - 1 /\ k = row + 1 /\ k # 0 /\ row <= spans /\ (row # 0 => n # 1)
    BY <1>2
  <2>2. s \in Partial(total) /\ RowState(s, gen, row) /\ s.next \in Usual(total)
    BY <1>1, <2>1 DEF Partial
  <2>3. row # 0 => SegmentDuration(gen.obj) # 0
    BY <2>1
  <2>4. PICK q : q = AddNote(s.pattern, s.next, gen.total, TimeOf(gen, row), TimeOf(gen, row))
    OBVIOUS
  <2>5. /\ RowNotes(q, gen.total, gen.obj.duration, TimeOf(gen, row), s.next, s.next)
        /\ q \in PatternType
        /\ Len(q.hit_objects) = 1 => ColumnAt(q, gen.total, 1) \in Usual(gen.total)
    BY <1>2, <2>1, <2>2, <2>3, <2>4, SingleRow
  <2>6. s.pattern.ok
    <3>1. Before(s.pattern, gen.total, gen.obj.duration, TimeOf(gen, row))
      BY <2>2, <2>3, RowStateIsBefore
    <3> QED
      BY <3>1 DEF Before, IsNotes, IsPattern
  <2>7. PICK found : found = FindAvailable(s.next, Columns(gen.total) \ {s.next},
                                           RandomStart(gen.total), gen.total)
    OBVIOUS
  <2>8. found # {} /\ found \subseteq Usual(total)
    <3>1. PICK valid : valid = Columns(total) \ {s.next}
      OBVIOUS
    <3>2. total - 1 \in Usual(total) /\ RandomStart(total) \in Usual(total)
          /\ Usual(total) \subseteq Columns(total) /\ RandomStart(total) # total - 1
      BY <1>1, StageColumns DEF RandomStart
    <3>3. valid \cap Usual(total) # {}
      BY <3>1, <3>2
    <3>4. found = FindAvailable(s.next, valid, RandomStart(total), total)
      BY <1>1, <2>7, <3>1
    <3> QED
      BY <2>2, <3>3, <3>4, FindAvailableIs
  <2> HIDE DEF h, n, I
  <2>9. ASSUME NEW t \in Place(s, k)
        PROVE  t \in I(k)
    <3>1. PICK c \in found :
            t = [[s EXCEPT !.pattern = AddNote(@, s.next, gen.total, TimeOf(gen, row),
                                               TimeOf(gen, row))] EXCEPT !.next = c]
      BY <2>1, <2>6, <2>7, <2>8
    <3>2. t = [pattern |-> q, next |-> c]
      BY <2>2, <2>4, <3>1 DEF Partial
    <3> HIDE DEF Place, More
    <3>3. t \in Partial(total) /\ t.pattern = q
      BY <2>5, <2>8, <3>2 DEF Partial
    <3>4. k # 0 /\ k - 1 = row
      BY <2>1
    <3>5. RowState(t, gen, k)
      BY <1>1, <2>5, <3>3, <3>4 DEF RowState, Partial
    <3> QED
      BY <1>1, <3>3, <3>5 DEF I
  <2> QED
    BY <2>9
<1>8. h[n] \subseteq I(n)
  <2> DEFINE If == [k \in 0 .. n |-> I(k)]
             P == [k \in 1 .. n |-> [s \in I(k - 1) |-> Place(s, k)]]
  <2>0. n \in Nat /\ \A k \in 1 .. n : k \in 0 .. n /\ k - 1 \in 0 .. n /\ k # 0
    <3> HIDE DEF n
    <3> QED
      BY <1>5
  <2>1. /\ \A k \in 0 .. n : If[k] = I(k)
        /\ \A k \in 1 .. n : \A s \in I(k - 1) : P[k][s] = Place(s, k)
    <3> HIDE DEF Place, I, n
    <3> QED
      OBVIOUS
  <2>2. PICK f : IsReached(f, P, If, base, n)
    <3> HIDE DEF Place, I, n, If, P, base
    <3>1. base \in SUBSET If[0]
      BY <1>6, <2>0, <2>1
    <3>2. \A k \in 1 .. n : \A s \in If[k - 1] : P[k][s] \subseteq If[k]
      BY <1>7, <2>0, <2>1
    <3> QED
      BY <2>0, <3>1, <3>2, ReachedExists
  <2>3. f = Iter(f)
    <3>1. ASSUME NEW k \in 0 .. n
          PROVE  (IF k = 0 THEN base ELSE UNION {P[k][s] : s \in f[k - 1]})
                   = IF k = 0 THEN base ELSE UNION {Place(s, k) : s \in f[k - 1]}
      <4> HIDE DEF Place, I, n, If, P, base
      <4>1. CASE k # 0
        <5>1. k \in 1 .. n /\ k - 1 \in 0 .. n
          BY <2>0, <4>1
        <5>2. f[k - 1] \subseteq I(k - 1)
          BY <2>1, <2>2, <5>1 DEF IsReached
        <5>3. \A s \in f[k - 1] : P[k][s] = Place(s, k)
          BY <2>1, <5>1, <5>2
        <5>4. UNION {P[k][s] : s \in f[k - 1]} = UNION {Place(s, k) : s \in f[k - 1]}
          BY <5>3
        <5> QED
          BY <4>1, <5>4
      <4> QED
        BY <4>1
    <3> HIDE DEF Place, I, n, If, P, base
    <3> QED
      BY <2>2, <3>1 DEF IsReached
  <2>4. h = Iter(h)
    <3> HIDE DEF Iter
    <3> QED
      BY <2>3
  <2>5. h[0] = base /\ \A k \in 1 .. n : h[k] = UNION {Place(s, k) : s \in h[k - 1]}
    <3> HIDE DEF h, n, base, Place
    <3>1. ASSUME NEW k \in 0 .. n
          PROVE  h[k] = IF k = 0 THEN base ELSE UNION {Place(s, k) : s \in h[k - 1]}
      BY ONLY <2>4
    <3>2. h[0] = base
      <4>1. 0 \in 0 .. n
        BY <2>0
      <4> QED
        BY <3>1, <4>1
    <3>3. ASSUME NEW k \in 1 .. n
          PROVE  h[k] = UNION {Place(s, k) : s \in h[k - 1]}
      <4>1. k \in 0 .. n /\ k # 0
        BY <2>0
      <4> QED
        BY <3>1, <4>1, Zenon
    <3> QED
      BY <3>2, <3>3
  <2> DEFINE J == [k \in 0 .. n |-> SUBSET I(k)]
  <2>6. \A k \in 0 .. n : J[k] = SUBSET I(k)
    <3> HIDE DEF I, n
    <3> QED
      OBVIOUS
  <2> HIDE DEF h, n, base, J, I, Place
  <2>7. h[0] \in J[0]
    BY <1>6, <2>0, <2>5, <2>6
  <2>8. \A k \in 1 .. n : h[k - 1] \in J[k - 1] => h[k] \in J[k]
    <3>1. ASSUME NEW k \in 1 .. n, h[k - 1] \in J[k - 1]
          PROVE  h[k] \in J[k]
      <4>1. h[k - 1] \subseteq I(k - 1)
        BY <2>0, <2>6, <3>1
      <4>2. UNION {Place(s, k) : s \in h[k - 1]} \subseteq I(k)
        BY <1>7, <4>1
      <4> QED
        BY <2>0, <2>5, <2>6, <4>2
    <3> QED
      BY <3>1
  <2>9. h[n] \in J[n]
    BY <2>0, <2>7, <2>8, StepsKeep
  <2> QED
    BY <2>0, <2>6, <2>9
<1>9. RowState(CHOOSE s \in h[n] : p = s.pattern, gen, n)
      /\ (CHOOSE s \in h[n] : p = s.pattern).pattern = p
  <2> HIDE DEF h, n
  <2> QED
    BY <1>4, <1>8
<1>10. PICK row \in Nat : n = row + 1 /\ row <= gen.obj.span_count
  <2>1. n - 1 \in Nat /\ n = (n - 1) + 1 /\ n - 1 <= spans
    BY <1>2
  <2> QED
    BY <1>2, <2>1
<1> QED
  <2> HIDE DEF h, n
  <2> QED
    BY <1>9, <1>10, RowStateIsSlider

\* The second column of a row is another one.
LEMMA SecondColumnIs ==
    ASSUME NEW total \in 3 .. 10, NEW c \in Usual(total), NEW interval \in Intervals(total)
    PROVE  /\ SecondColumn(total, c, interval) \in Columns(total)
           /\ SecondColumn(total, c, interval) # c
<1>1. PICK legacy \in 0 .. 1, start \in 0 .. 1 :
        /\ legacy = LegacyColumns(total) /\ start = RandomStart(total)
        /\ legacy = (IF total \in 4 .. 8 THEN 1 ELSE 0)
        /\ start = (IF total = 8 THEN 1 ELSE 0)
  BY DEF LegacyColumns, RandomStart
<1>2. interval \in 1 .. total - legacy - 1
  BY <1>1 DEF Intervals, MaxOf
<1>3. c \in Int /\ start <= c /\ c < total
  BY <1>1 DEF Usual
<1>4. PICK d : d = SecondColumn(total, c, interval)
  OBVIOUS
<1>5. d = (IF c + interval >= total - start THEN (c + interval) - total - start + legacy
           ELSE c + interval) + start
  <2>1. d = (IF c + interval >= total - RandomStart(total)
             THEN (c + interval) - total - RandomStart(total) + LegacyColumns(total)
             ELSE c + interval) + RandomStart(total)
    BY ONLY <1>4 DEF SecondColumn
  <2> QED
    BY ONLY <1>1, <2>1
<1>6. d \in Int /\ d >= 0 /\ d < total /\ d # c
  BY ONLY <1>1, <1>2, <1>3, <1>5, total \in 3 .. 10
<1> QED
  BY <1>4, <1>6, StageColumns

\* generate_random_multiple_notes
LEMMA RandomMultipleNotesAre ==
    ASSUME NEW gen, IsSliderGen(gen), gen.total # 1, SegmentDuration(gen.obj) # 0,
           NEW p \in RandomMultipleNotes(gen)
    PROVE  IsSlider(p, gen)
<1> DEFINE
    n == gen.obj.span_count + 1
    Row(s, row, interval) ==
        LET time  == TimeOf(gen, row)
            first == AddNote(s.pattern, s.next, gen.total, time, time)
            both  == IF gen.total > 2
                     THEN AddNote(first, SecondColumn(gen.total, s.next, interval), gen.total,
                                  time, time)
                     ELSE first
        IN  {[pattern |-> both, next |-> c] : c \in Usual(gen.total)}
    base == Start({GetColumn(gen.obj.x, gen.total)})
    With(interval) ==
        LET rows[k \in 0 .. gen.obj.span_count + 1] ==
                IF k = 0 THEN Start({GetColumn(gen.obj.x, gen.total)})
                ELSE UNION {Row(s, k - 1, interval) : s \in rows[k - 1]}
        IN  rows[gen.obj.span_count + 1]
<1>1. PICK total \in 1 .. 10, end \in Nat :
        total = gen.total /\ total # 1 /\ end = gen.obj.duration
  BY DEF IsSliderGen, IsGen
<1>2. PICK spans \in Nat \ {0} : spans = gen.obj.span_count
  BY DEF IsSliderGen
<1>3. PICK column \in Usual(total) : column = GetColumn(gen.obj.x, total)
  BY <1>1, GetColumnIs DEF IsSliderGen, IsGen
<1>4. PICK interval \in Intervals(total) : p \in Patterns(With(interval))
  <2>1. RandomMultipleNotes(gen)
          = Patterns(UNION {With(interval) : interval \in Intervals(gen.total)})
    BY DEF RandomMultipleNotes
  <2> HIDE DEF With
  <2> QED
    BY <1>1, <2>1 DEF Patterns
<1> DEFINE
    Place(s, k) == Row(s, k - 1, interval)
    Iter(h) == [k \in 0 .. n |-> IF k = 0 THEN base ELSE UNION {Place(s, k) : s \in h[k - 1]}]
    h == CHOOSE h : h = Iter(h)
    I(k) == {s \in Partial(gen.total) : RowState(s, gen, k)}
<1>5. \E s \in h[n] : p = s.pattern
  <2>1. With(interval) = h[n]
    OBVIOUS
  <2> HIDE DEF With, h, n
  <2> QED
    BY <1>4, <2>1 DEF Patterns
<1> HIDE DEF With
<1>6. n \in Nat
  BY <1>2
<1>7. base \in SUBSET I(0)
  <2>1. EmptyPattern \in PatternType
    BY EmptyIsPattern
  <2> QED
    BY <1>1, <1>3, <2>1 DEF Start, Partial, RowState
<1>8. ASSUME NEW k \in 1 .. n, NEW s \in I(k - 1)
      PROVE  Place(s, k) \subseteq I(k)
  <2>1. PICK row \in Nat : row = k - 1 /\ k = row + 1 /\ k # 0 /\ row <= spans
    BY <1>2
  <2>2. s \in Partial(total) /\ RowState(s, gen, row) /\ s.next \in Usual(total)
    BY <1>1, <2>1 DEF Partial
  <2>3. PICK time \in Nat : time = TimeOf(gen, row) /\ time <= end
    BY <1>1, <1>2, <2>1, TimeOfIs
  <2>4. PICK q : q = AddNote(s.pattern, s.next, gen.total, time, time)
    OBVIOUS
  <2>5. /\ RowNotes(q, total, end, time, s.next, s.next) /\ q \in PatternType
        /\ Len(q.hit_objects) = 1 => ColumnAt(q, total, 1) \in Usual(total)
    BY <1>1, <1>2, <2>1, <2>2, <2>3, <2>4, SingleRow
  <2>6. PICK r : r = IF total > 2 THEN AddNote(q, SecondColumn(total, s.next, interval), total,
                                               time, time)
                     ELSE q
    OBVIOUS
  <2>7. /\ \E c, d : RowNotes(r, total, end, time, c, d)
        /\ r \in PatternType
        /\ Len(r.hit_objects) = 1 => ColumnAt(r, total, 1) \in Usual(total)
    <3>1. CASE total > 2
      <4>1. PICK d \in Columns(total) : d = SecondColumn(total, s.next, interval) /\ d # s.next
        <5>1. total \in 3 .. 10
          BY <3>1
        <5> QED
          BY <2>2, <5>1, SecondColumnIs
      <4>2. r = AddNote(q, d, total, time, time)
        BY <2>6, <3>1, <4>1
      <4>3. RowNotes(r, total, end, time, s.next, d) /\ r \in PatternType
        BY <2>3, <2>5, <4>1, <4>2, SecondOfRow
      <4>4. Len(r.hit_objects) # 1
        <5>1. Added(r, q, d, total, time, time)
          BY <2>3, <2>5, <4>1, <4>2, NoteAdded, StageColumns
        <5>2. q.hit_objects # <<>> /\ q.hit_objects \in Seq(NoteType)
          BY <2>5 DEF RowNotes, PatternType
        <5>3. Len(r.hit_objects) = Len(q.hit_objects) + 1 /\ Len(q.hit_objects) # 0
              /\ Len(q.hit_objects) \in Nat
          BY <5>1, <5>2 DEF Added
        <5> QED
          BY <5>3
      <4> QED
        BY <4>3, <4>4
    <3>2. CASE ~(total > 2)
      BY <2>5, <2>6, <3>2
    <3> QED
      BY <3>1, <3>2
  <2> HIDE DEF h, n, I
  <2>8. ASSUME NEW t \in Place(s, k)
        PROVE  t \in I(k)
    <3>1. PICK c \in Usual(total) : t = [pattern |-> r, next |-> c]
      BY <1>1, <2>1, <2>3, <2>4, <2>6
    <3> HIDE DEF Place, Row
    <3>2. t \in Partial(total) /\ t.pattern = r /\ t.next \in Usual(total)
      BY <2>7, <3>1 DEF Partial
    <3>3. k # 0 /\ k - 1 = row
      BY <2>1
    <3>4. RowState(t, gen, k)
      BY <1>1, <2>3, <2>7, <3>2, <3>3 DEF RowState
    <3> QED
      BY <1>1, <3>2, <3>4 DEF I
  <2> QED
    BY <2>8
<1>9. h[n] \subseteq I(n)
  <2> DEFINE If == [k \in 0 .. n |-> I(k)]
             P == [k \in 1 .. n |-> [s \in I(k - 1) |-> Place(s, k)]]
  <2>0. n \in Nat /\ \A k \in 1 .. n : k \in 0 .. n /\ k - 1 \in 0 .. n /\ k # 0
    <3> HIDE DEF n
    <3> QED
      BY <1>6
  <2>1. /\ \A k \in 0 .. n : If[k] = I(k)
        /\ \A k \in 1 .. n : \A s \in I(k - 1) : P[k][s] = Place(s, k)
    <3> HIDE DEF Place, I, n
    <3> QED
      OBVIOUS
  <2>2. PICK f : IsReached(f, P, If, base, n)
    <3> HIDE DEF Place, I, n, If, P, base
    <3>1. base \in SUBSET If[0]
      BY <1>7, <2>0, <2>1
    <3>2. \A k \in 1 .. n : \A s \in If[k - 1] : P[k][s] \subseteq If[k]
      BY <1>8, <2>0, <2>1
    <3> QED
      BY <2>0, <3>1, <3>2, ReachedExists
  <2>3. f = Iter(f)
    <3>1. ASSUME NEW k \in 0 .. n
          PROVE  (IF k = 0 THEN base ELSE UNION {P[k][s] : s \in f[k - 1]})
                   = IF k = 0 THEN base ELSE UNION {Place(s, k) : s \in f[k - 1]}
      <4> HIDE DEF Place, I, n, If, P, base
      <4>1. CASE k # 0
        <5>1. k \in 1 .. n /\ k - 1 \in 0 .. n
          BY <2>0, <4>1
        <5>2. f[k - 1] \subseteq I(k - 1)
          BY <2>1, <2>2, <5>1 DEF IsReached
        <5>3. \A s \in f[k - 1] : P[k][s] = Place(s, k)
          BY <2>1, <5>1, <5>2
        <5>4. UNION {P[k][s] : s \in f[k - 1]} = UNION {Place(s, k) : s \in f[k - 1]}
          BY <5>3
        <5> QED
          BY <4>1, <5>4
      <4> QED
        BY <4>1
    <3> HIDE DEF Place, I, n, If, P, base
    <3> QED
      BY <2>2, <3>1 DEF IsReached
  <2>4. h = Iter(h)
    <3> HIDE DEF Iter
    <3> QED
      BY <2>3
  <2>5. h[0] = base /\ \A k \in 1 .. n : h[k] = UNION {Place(s, k) : s \in h[k - 1]}
    <3> HIDE DEF h, n, base, Place
    <3>1. ASSUME NEW k \in 0 .. n
          PROVE  h[k] = IF k = 0 THEN base ELSE UNION {Place(s, k) : s \in h[k - 1]}
      BY ONLY <2>4
    <3>2. h[0] = base
      <4>1. 0 \in 0 .. n
        BY <2>0
      <4> QED
        BY <3>1, <4>1
    <3>3. ASSUME NEW k \in 1 .. n
          PROVE  h[k] = UNION {Place(s, k) : s \in h[k - 1]}
      <4>1. k \in 0 .. n /\ k # 0
        BY <2>0
      <4> QED
        BY <3>1, <4>1, Zenon
    <3> QED
      BY <3>2, <3>3
  <2> DEFINE J == [k \in 0 .. n |-> SUBSET I(k)]
  <2>6. \A k \in 0 .. n : J[k] = SUBSET I(k)
    <3> HIDE DEF I, n
    <3> QED
      OBVIOUS
  <2> HIDE DEF h, n, base, J, I, Place
  <2>7. h[0] \in J[0]
    BY <1>7, <2>0, <2>5, <2>6
  <2>8. \A k \in 1 .. n : h[k - 1] \in J[k - 1] => h[k] \in J[k]
    <3>1. ASSUME NEW k \in 1 .. n, h[k - 1] \in J[k - 1]
          PROVE  h[k] \in J[k]
      <4>1. h[k - 1] \subseteq I(k - 1)
        BY <2>0, <2>6, <3>1
      <4>2. UNION {Place(s, k) : s \in h[k - 1]} \subseteq I(k)
        BY <1>8, <4>1
      <4> QED
        BY <2>0, <2>5, <2>6, <4>2
    <3> QED
      BY <3>1
  <2>9. h[n] \in J[n]
    BY <2>0, <2>7, <2>8, StepsKeep
  <2> QED
    BY <2>0, <2>6, <2>9
<1>10. PICK s : s \in I(n) /\ s.pattern = p
  <2> HIDE DEF h, n, I
  <2> QED
    BY <1>5, <1>9
<1>11. RowState(s, gen, n)
  <2> HIDE DEF h, n
  <2> QED
    BY <1>10
<1>12. spans \in Nat /\ spans <= gen.obj.span_count /\ n = spans + 1
  BY <1>2
<1> QED
  <2> HIDE DEF h, n, I
  <2> QED
    BY <1>10, <1>11, <1>12, RowStateIsSlider

\* generate_stair never leaves the stage.
LEMMA StairIs ==
    ASSUME NEW gen, IsSliderGen(gen), gen.total # 1, SegmentDuration(gen.obj) # 0,
           NEW p \in Stair(gen)
    PROVE  IsSlider(p, gen)
<1> DEFINE
    n == gen.obj.span_count + 1
    lowest  == RandomStart(gen.total)
    highest == gen.total - 1
    Climb(s, row) ==
        LET up == \/ s.increasing /\ s.next < highest
                  \/ ~s.increasing /\ s.next <= lowest
        IN  [pattern |-> AddNote(s.pattern, s.next, gen.total, TimeOf(gen, row),
                                 TimeOf(gen, row)),
             next |-> IF up THEN s.next + 1 ELSE s.next - 1,
             increasing |-> up]
    From(increasing) ==
        [pattern |-> EmptyPattern, next |-> GetColumn(gen.obj.x, gen.total),
         increasing |-> increasing]
    Step(q, k) == [increasing \in BOOLEAN |-> Climb(q[increasing], k - 1)]
    base == [increasing \in BOOLEAN |-> From(increasing)]
    Iter(h) == [k \in 0 .. n |-> IF k = 0 THEN base ELSE Step(h[k - 1], k)]
    h == CHOOSE h : h = Iter(h)
    I(k) == {q \in [BOOLEAN -> [pattern : PatternType, next : Int, increasing : BOOLEAN]] :
                \A b \in BOOLEAN : RowState(q[b], gen, k)}
<1>1. PICK total \in 1 .. 10, end \in Nat :
        total = gen.total /\ total # 1 /\ end = gen.obj.duration
  BY DEF IsSliderGen, IsGen
<1>2. PICK spans \in Nat \ {0} : spans = gen.obj.span_count
  BY DEF IsSliderGen
<1>3. PICK column \in Usual(total) : column = GetColumn(gen.obj.x, total)
  BY <1>1, GetColumnIs DEF IsSliderGen, IsGen
<1>4. PICK b \in BOOLEAN : p = h[n][b].pattern
  BY DEF Stair
<1>5. n \in Nat
  BY <1>2
<1>6. base \in I(0)
  <2>1. EmptyPattern \in PatternType
    BY EmptyIsPattern
  <2>2. column \in Int
    BY StageColumns
  <2>3. base = [increasing \in BOOLEAN |-> [pattern |-> EmptyPattern, next |-> column,
                                            increasing |-> increasing]]
    BY <1>1, <1>3
  <2>4. \A c \in BOOLEAN : base[c] = [pattern |-> EmptyPattern, next |-> column, increasing |-> c]
    BY <2>3
  <2>5. \A c \in BOOLEAN : RowState(base[c], gen, 0)
    BY <1>1, <2>1, <2>4 DEF RowState
  <2>6. base \in [BOOLEAN -> [pattern : PatternType, next : Int, increasing : BOOLEAN]]
    BY <2>1, <2>2, <2>3
  <2> HIDE DEF base
  <2> QED
    BY <2>5, <2>6
<1>7. ASSUME NEW k \in 1 .. n, NEW q \in I(k - 1)
      PROVE  Step(q, k) \in I(k)
  <2>1. PICK row \in Nat : row = k - 1 /\ k = row + 1 /\ k # 0 /\ row <= spans
    BY <1>2
  <2>2. ASSUME NEW s, s = q[TRUE] \/ s = q[FALSE], NEW t, t = Climb(s, row)
        PROVE  /\ t \in [pattern : PatternType, next : Int, increasing : BOOLEAN]
               /\ RowState(t, gen, k)
    <3>1. RowState(s, gen, row) /\ s \in [pattern : PatternType, next : Int, increasing : BOOLEAN]
      BY <2>1, <2>2
    <3>2. PICK c \in Usual(total), up \in BOOLEAN :
            /\ c = (IF up THEN s.next + 1 ELSE s.next - 1)
            /\ t = [pattern |-> AddNote(s.pattern, s.next, gen.total, TimeOf(gen, row),
                                        TimeOf(gen, row)),
                    next |-> c, increasing |-> up]
      <4>1. PICK d \in Usual(total) : d = s.next
        BY <1>1, <3>1 DEF RowState
      <4>2. PICK low \in Int, high \in Int :
              /\ low = lowest /\ high = highest /\ low < high /\ low <= d /\ d <= high /\ d \in Int
              /\ \A e \in Int : low <= e /\ e <= high => e \in Usual(total)
        BY <1>1, StageColumns DEF RandomStart
      <4> DEFINE up == \/ s.increasing /\ d < high
                       \/ ~s.increasing /\ d <= low
                 c == IF up THEN d + 1 ELSE d - 1
      <4>3. up \in BOOLEAN
        OBVIOUS
      <4>4. c \in Int /\ low <= c /\ c <= high
        <5>1. CASE s.increasing
          BY ONLY <4>2, <5>1
        <5>2. CASE ~s.increasing
          BY ONLY <4>2, <5>2
        <5> QED
          BY <5>1, <5>2
      <4>5. t = [pattern |-> AddNote(s.pattern, s.next, gen.total, TimeOf(gen, row),
                                     TimeOf(gen, row)),
                 next |-> c, increasing |-> up]
        BY <2>2, <4>1, <4>2
      <4>6. c = (IF up THEN s.next + 1 ELSE s.next - 1)
        BY <4>1
      <4> HIDE DEF up, c
      <4> QED
        BY <4>2, <4>3, <4>4, <4>5, <4>6
    <3>3. PICK r : r = AddNote(s.pattern, s.next, gen.total, TimeOf(gen, row), TimeOf(gen, row))
      OBVIOUS
    <3>4. /\ RowNotes(r, gen.total, gen.obj.duration, TimeOf(gen, row), s.next, s.next)
          /\ r \in PatternType
          /\ Len(r.hit_objects) = 1 => ColumnAt(r, gen.total, 1) \in Usual(gen.total)
      BY <1>2, <2>1, <3>1, <3>3, SingleRow
    <3> HIDE DEF Climb, n
    <3>5. c \in Int
      BY <3>2, StageColumns
    <3>6. t = [pattern |-> r, next |-> c, increasing |-> up]
      BY <3>2, <3>3
    <3>7. t.pattern = r /\ t.next = c
          /\ t \in [pattern : PatternType, next : Int, increasing : BOOLEAN]
      BY <3>4, <3>5, <3>6
    <3>8. k # 0 /\ k - 1 = row
      BY <2>1
    <3>9. RowState(t, gen, k)
      BY <1>1, <3>2, <3>4, <3>7, <3>8 DEF RowState
    <3> QED
      BY <3>7, <3>9
  <2>3. Step(q, k) = [increasing \in BOOLEAN |-> Climb(q[increasing], row)]
    BY <2>1
  <2>4. PICK u : u = Step(q, k)
    OBVIOUS
  <2> HIDE DEF Climb, Step, n
  <2>5. \A c \in BOOLEAN : u[c] = Climb(q[c], row)
    BY <2>3, <2>4
  <2>6. \A c \in BOOLEAN : /\ u[c] \in [pattern : PatternType, next : Int, increasing : BOOLEAN]
                           /\ RowState(u[c], gen, k)
    BY <2>2, <2>5
  <2>7. u \in [BOOLEAN -> [pattern : PatternType, next : Int, increasing : BOOLEAN]]
    BY <2>3, <2>4, <2>6
  <2> QED
    BY <2>4, <2>6, <2>7
<1>8. h[n] \in I(n)
  <2> DEFINE J == [k \in 0 .. n |-> I(k)]
             Q == [k \in 1 .. n |-> [q \in I(k - 1) |-> Step(q, k)]]
  <2>0. n \in Nat /\ \A k \in 1 .. n : k \in 0 .. n /\ k - 1 \in 0 .. n /\ k # 0
    <3> HIDE DEF n
    <3> QED
      BY <1>5
  <2>1. /\ \A k \in 0 .. n : J[k] = I(k)
        /\ \A k \in 1 .. n : \A q \in I(k - 1) : Q[k][q] = Step(q, k)
    <3> HIDE DEF Step, I, n
    <3> QED
      OBVIOUS
  <2>2. PICK f : IsRun(f, Q, J, base, n)
    <3> HIDE DEF Step, I, n, J, Q, base
    <3>1. base \in J[0]
      BY <1>6, <2>0, <2>1
    <3>2. ASSUME NEW k \in 1 .. n, NEW q \in J[k - 1]
          PROVE  Q[k][q] \in J[k]
      <4>1. q \in I(k - 1)
        BY <2>0, <2>1
      <4>2. Step(q, k) \in I(k)
        BY <1>7, <4>1
      <4> QED
        BY <2>0, <2>1, <4>1, <4>2
    <3> QED
      BY <2>0, <3>1, <3>2, RunExists
  <2>3. f = Iter(f)
    <3>1. ASSUME NEW k \in 0 .. n
          PROVE  (IF k = 0 THEN base ELSE Q[k][f[k - 1]])
                   = IF k = 0 THEN base ELSE Step(f[k - 1], k)
      <4> HIDE DEF Step, I, n, J, Q, base
      <4>1. CASE k # 0
        <5>1. k \in 1 .. n /\ k - 1 \in 0 .. n
          BY <2>0, <4>1
        <5>2. f[k - 1] \in I(k - 1)
          BY <2>1, <2>2, <5>1 DEF IsRun
        <5> QED
          BY <2>1, <4>1, <5>1, <5>2
      <4> QED
        BY <4>1
    <3> HIDE DEF Step, I, n, J, Q, base
    <3> QED
      BY <2>2, <3>1 DEF IsRun
  <2>4. h = Iter(h)
    <3> HIDE DEF Iter
    <3> QED
      BY <2>3
  <2>5. h[0] = base /\ \A k \in 1 .. n : h[k] = Step(h[k - 1], k)
    <3> HIDE DEF h, n, base, Step
    <3>1. ASSUME NEW k \in 0 .. n
          PROVE  h[k] = IF k = 0 THEN base ELSE Step(h[k - 1], k)
      BY ONLY <2>4
    <3>2. h[0] = base
      <4>1. 0 \in 0 .. n
        BY <2>0
      <4> QED
        BY <3>1, <4>1
    <3>3. ASSUME NEW k \in 1 .. n
          PROVE  h[k] = Step(h[k - 1], k)
      <4>1. k \in 0 .. n /\ k # 0
        BY <2>0
      <4> QED
        BY <3>1, <4>1, Zenon
    <3> QED
      BY <3>2, <3>3
  <2> HIDE DEF h, n, base, J, I, Step
  <2>7. h[0] \in J[0]
    BY <1>6, <2>0, <2>1, <2>5
  <2>8. \A k \in 1 .. n : h[k - 1] \in J[k - 1] => h[k] \in J[k]
    BY <1>7, <2>0, <2>1, <2>5
  <2>9. h[n] \in J[n]
    BY <2>0, <2>7, <2>8, StepsKeep
  <2> QED
    BY <2>0, <2>1, <2>9
<1>9. RowState(h[n][b], gen, n)
  <2> HIDE DEF h, n
  <2> QED
    BY <1>8
<1>10. spans \in Nat /\ spans <= gen.obj.span_count /\ n = spans + 1
  BY <1>2
<1> QED
  <2> HIDE DEF h, n, I
  <2> QED
    BY <1>4, <1>9, <1>10, RowStateIsSlider

\* The hold note of a slider in a column of its own, and notes up to a time,
\* those at that time in columns of C
HeldNotes(p, total, end, hold, time, C) ==
    /\ IsNotes(p, total, end)
    /\ hold \in Usual(total)
    /\ 1 \in DOMAIN p.hit_objects
    /\ ColumnAt(p, total, 1) = hold /\ p.hit_objects[1].end_time = end
    /\ \A i \in DOMAIN p.hit_objects \ {1} :
           /\ ColumnAt(p, total, i) # hold
           /\ p.hit_objects[i].end_time <= time
           /\ p.hit_objects[i].end_time = time => ColumnAt(p, total, i) \in C

LEMMA HeldAndBeside ==
    ASSUME NEW total \in 1 .. 10, NEW end \in Nat, NEW time \in Nat, time <= end,
           NEW p, NEW hold, NEW C, HeldNotes(p, total, end, hold, time, C),
           NEW c \in Columns(total), c # hold, c \notin C,
           NEW q, q = AddNote(p, c, total, time, time)
    PROVE  HeldNotes(q, total, end, hold, time, C \cup {c}) /\ q \in PatternType
<1>1. IsNotes(p, total, end) /\ 1 \in DOMAIN p.hit_objects
  BY DEF HeldNotes
<1>2. ASSUME NEW i \in DOMAIN p.hit_objects, i # 1
      PROVE  /\ ColumnAt(p, total, i) # hold
             /\ p.hit_objects[i].end_time \in Int /\ p.hit_objects[i].end_time <= time
             /\ p.hit_objects[i].end_time = time => ColumnAt(p, total, i) \in C
  BY <1>1, <1>2, TimesOfNotes DEF HeldNotes
<1>3. Joins(p, c, total, time, time, end)
  <2>1. p.hit_objects # <<>>
    BY <1>1
  <2>2. ASSUME NEW i \in DOMAIN p.hit_objects, ColumnAt(p, total, i) = c
        PROVE  p.hit_objects[i].end_time < time
    <3>1. i # 1
      BY <2>2 DEF HeldNotes
    <3> QED
      BY <1>2, <2>2, <3>1
  <2> QED
    BY <2>1, <2>2 DEF Joins
<1>4. Joined(q, p, c, total, time, time, end)
  BY <1>1, <1>3, NoteJoined
<1>5. PICK n : NewNote(q, p, n, c, total, time, time)
  BY <1>4 DEF Joined
<1>6. ColumnAt(q, total, n) = c /\ q.hit_objects[n].end_time = time
  BY <1>5 DEF NewNote
<1>7. /\ 1 \in DOMAIN q.hit_objects
      /\ ColumnAt(q, total, 1) = hold /\ q.hit_objects[1].end_time = end
  BY <1>1, <1>5 DEF NewNote, HeldNotes
<1>8. ASSUME NEW i \in DOMAIN q.hit_objects \ {1}
      PROVE  /\ ColumnAt(q, total, i) # hold
             /\ q.hit_objects[i].end_time <= time
             /\ q.hit_objects[i].end_time = time => ColumnAt(q, total, i) \in C \cup {c}
  <2>1. CASE i = n
    BY <1>6, <2>1
  <2>2. CASE i # n
    <3>1. i \in DOMAIN p.hit_objects /\ q.hit_objects[i] = p.hit_objects[i]
          /\ ColumnAt(q, total, i) = ColumnAt(p, total, i)
      BY <1>5, <2>2 DEF NewNote
    <3> QED
      BY <1>2, <3>1
  <2> QED
    BY <2>1, <2>2
<1> QED
  BY <1>4, <1>7, <1>8 DEF HeldNotes, Joined

LEMMA HeldLater ==
    ASSUME NEW total, NEW end, NEW time \in Int, NEW p, NEW hold, NEW C,
           HeldNotes(p, total, end, hold, time, C), NEW next \in Int, time < next
    PROVE  HeldNotes(p, total, end, hold, next, {})
<1>1. ASSUME NEW i \in DOMAIN p.hit_objects, i # 1
      PROVE  /\ p.hit_objects[i].end_time \in Int
             /\ p.hit_objects[i].end_time <= time /\ ColumnAt(p, total, i) # hold
  BY <1>1, TimesOfNotes DEF HeldNotes
<1>2. ASSUME NEW i \in DOMAIN p.hit_objects \ {1}
      PROVE  /\ ColumnAt(p, total, i) # hold
             /\ p.hit_objects[i].end_time <= next
             /\ p.hit_objects[i].end_time = next => ColumnAt(p, total, i) \in {}
  <2>1. PICK t \in Int : t = p.hit_objects[i].end_time /\ t <= time
    BY <1>1
  <2>2. t <= next /\ t # next
    BY ONLY <2>1, time \in Int, next \in Int, time < next
  <2> QED
    BY <1>1, <2>1, <2>2
<1> QED
  BY <1>2 DEF HeldNotes

LEMMA HeldIsSlider ==
    ASSUME NEW gen, IsSliderGen(gen), NEW p, NEW hold, NEW time \in Int, time <= gen.obj.duration,
           NEW C, HeldNotes(p, gen.total, gen.obj.duration, hold, time, C),
           IsFiniteSet(C), Cardinality(C) <= 2
    PROVE  IsSlider(p, gen)
<1>1. PICK total \in 1 .. 10, end \in Nat : total = gen.total /\ end = gen.obj.duration
  BY DEF IsSliderGen, IsGen
<1>2. /\ IsNotes(p, total, end) /\ p.hit_objects # <<>> /\ hold \in Usual(total)
      /\ 1 \in DOMAIN p.hit_objects
      /\ ColumnAt(p, total, 1) = hold /\ p.hit_objects[1].end_time = end
  BY <1>1 DEF HeldNotes
<1>3. PICK D : D = C \cup {hold}
  OBVIOUS
<1>4. IsFiniteSet(D) /\ Cardinality(D) <= 3
  <2>1. IsFiniteSet(D) /\ (Cardinality(D) = Cardinality(C) \/ Cardinality(D) = Cardinality(C) + 1)
    BY <1>3, FS_AddElement
  <2>2. Cardinality(C) \in Nat
    BY FS_CardinalityType
  <2> QED
    BY <2>1, <2>2
<1>5. PICK E : E = EndColumns(p, total, end)
  OBVIOUS
<1>6. ASSUME NEW i \in DOMAIN p.hit_objects, p.hit_objects[i].end_time = end
      PROVE  ColumnAt(p, total, i) \in D
  <2>1. CASE i = 1
    BY <1>2, <1>3, <2>1
  <2>2. CASE i # 1
    <3>1. p.hit_objects[i].end_time <= time
          /\ (p.hit_objects[i].end_time = time => ColumnAt(p, total, i) \in C)
      BY <1>1, <2>2 DEF HeldNotes
    <3>2. time = end
      BY <1>1, <1>6, <3>1
    <3> QED
      BY <1>3, <1>6, <3>1, <3>2
  <2> QED
    BY <2>1, <2>2
<1>7. E \subseteq D /\ hold \in E
  BY <1>2, <1>5, <1>6 DEF EndColumns
<1>8. total = 8 => E # {0}
  BY <1>2, <1>7, StageColumns
<1> QED
  BY <1>1, <1>2, <1>4, <1>5, <1>7, <1>8, FewEndsAreSlider

HoldStates(total) ==
    [pattern : PatternType, next : Usual(total), hold : Usual(total), row : SUBSET Columns(total)]

\* The notes of the row that are already made are in few columns.
RowBeside(s, gen, time, k) ==
    /\ HeldNotes(s.pattern, gen.total, gen.obj.duration, s.hold, time, s.row)
    /\ IsFiniteSet(s.row) /\ Cardinality(s.row) <= k

\* What is known of a state after the row at a time
RowIsHeld(s, gen, time) ==
    /\ s \in HoldStates(gen.total) /\ s.row = {}
    /\ \E C : /\ HeldNotes(s.pattern, gen.total, gen.obj.duration, s.hold, time, C)
              /\ IsFiniteSet(C) /\ Cardinality(C) <= 2

LEMMA HoldRowIs ==
    ASSUME NEW gen, IsSliderGen(gen), gen.total # 1, NEW time \in Nat, time <= gen.obj.duration,
           NEW note_count \in 0 .. 2, note_count <= gen.total - 1,
           NEW state \in HoldStates(gen.total), state.row = {},
           HeldNotes(state.pattern, gen.total, gen.obj.duration, state.hold, time, {}),
           NEW result \in HoldRow(gen, state, time, note_count)
    PROVE  RowIsHeld(result, gen, time)
<1> DEFINE
    n == note_count
    Found(t) == Placed(gen, t, Columns(gen.total) \ ({t.hold} \cup t.row), time, time)
    Place(t, k) == {[pattern |-> u.pattern, next |-> u.next, hold |-> t.hold,
                     row |-> t.row \cup {u.next}] : u \in Found(t)}
    base == {state}
    Iter(h) == [k \in 0 .. n |-> IF k = 0 THEN base ELSE UNION {Place(t, k) : t \in h[k - 1]}]
    h == CHOOSE h : h = Iter(h)
    I(k) == {s \in HoldStates(gen.total) : RowBeside(s, gen, time, k)}
<1>1. PICK total \in 1 .. 10, end \in Nat :
        total = gen.total /\ total # 1 /\ end = gen.obj.duration
  BY DEF IsSliderGen, IsGen
<1>2. PICK last \in h[n] : result = [last EXCEPT !.row = {}]
  BY DEF HoldRow
<1>3. n \in Nat
  OBVIOUS
<1>4. base \in SUBSET I(0)
  <2>1. IsFiniteSet({}) /\ Cardinality({}) = 0
    BY FS_EmptySet
  <2>2. IsFiniteSet(state.row) /\ Cardinality(state.row) <= 0
    BY <2>1
  <2>3. HeldNotes(state.pattern, gen.total, gen.obj.duration, state.hold, time, state.row)
    BY Zenon
  <2>4. RowBeside(state, gen, time, 0)
    BY <2>2, <2>3 DEF RowBeside
  <2> QED
    BY <2>4
<1>5. ASSUME NEW k \in 1 .. n, NEW t \in I(k - 1)
      PROVE  Place(t, k) \subseteq I(k)
  <2>1. PICK m \in Nat : m = k - 1 /\ k = m + 1 /\ k <= 2 /\ k <= total - 1
    BY <1>1
  <2>2. PICK hold \in Usual(total), row \in SUBSET Columns(total), p \in PatternType :
          hold = t.hold /\ row = t.row /\ p = t.pattern
    BY <1>1 DEF HoldStates
  <2>3. /\ HeldNotes(p, total, end, hold, time, row)
        /\ IsFiniteSet(row) /\ Cardinality(row) <= m
    BY <1>1, <2>1, <2>2 DEF RowBeside
  <2>4. p.ok /\ t.next \in Usual(total)
    BY <1>1, <2>3 DEF HeldNotes, IsNotes, IsPattern, HoldStates
  <2>5. PICK valid : valid = Columns(total) \ ({hold} \cup row)
    OBVIOUS
  <2>6. valid \cap Usual(total) # {}
    <3>1. IsFiniteSet({hold}) /\ Cardinality({hold}) = 1 /\ Cardinality(row) \in Nat
      BY <2>3, FS_Singleton, FS_CardinalityType
    <3>2. /\ IsFiniteSet(Usual(total)) /\ Usual(total) \subseteq Columns(total)
          /\ Cardinality(Usual(total)) = total - (IF total = 8 THEN 1 ELSE 0)
      BY StageColumns DEF RandomStart
    <3>3. Cardinality({hold}) + Cardinality(row) < Cardinality(Usual(total))
      BY <2>1, <2>3, <3>1, <3>2
    <3>4. \E c \in Usual(total) : c \notin {hold} /\ c \notin row
      BY <2>3, <3>1, <3>2, <3>3, FreeColumn
    <3> QED
      BY <2>5, <3>2, <3>4
  <2> HIDE DEF h, n, I
  <2>7. ASSUME NEW r \in Place(t, k)
        PROVE  r \in I(k)
    <3>1. PICK u \in Found(t) : r = [pattern |-> u.pattern, next |-> u.next, hold |-> t.hold,
                                     row |-> t.row \cup {u.next}]
      OBVIOUS
    <3>2. u \in Placed(gen, t, valid, time, time)
      BY <1>1, <2>2, <2>5, <3>1
    <3> HIDE DEF Place, Found
    <3>3. IsPlaced(u, t, valid, total, time, time)
      BY <1>1, <2>2, <2>4, <2>6, <3>2, PlacedIs DEF IsSliderGen
    <3>4. PICK c \in Usual(total) :
            c \in valid /\ u = [pattern |-> AddNote(t.pattern, c, total, time, time), next |-> c]
      BY <3>3 DEF IsPlaced
    <3>5. PICK q : q = AddNote(p, c, total, time, time)
      OBVIOUS
    <3>6. HeldNotes(q, total, end, hold, time, row \cup {c}) /\ q \in PatternType
      <4>1. c \in Columns(total) /\ c # hold /\ c \notin row
        BY <2>5, <3>4
      <4>2. time <= end /\ time \in Nat /\ end \in Nat
        BY <1>1
      <4> QED
        BY ONLY <2>3, <3>5, <4>1, <4>2, HeldAndBeside, total \in 1 .. 10
    <3>7. r = [pattern |-> q, next |-> c, hold |-> hold, row |-> row \cup {c}]
      BY <2>2, <3>1, <3>4, <3>5
    <3>8. r \in HoldStates(total)
      BY <2>5, <3>4, <3>6, <3>7 DEF HoldStates
    <3>9. IsFiniteSet(row \cup {c}) /\ Cardinality(row \cup {c}) <= k
      <4>1. PICK S : S = row \cup {c}
        OBVIOUS
      <4>2. IsFiniteSet(S) /\ (Cardinality(S) = Cardinality(row)
                               \/ Cardinality(S) = Cardinality(row) + 1)
        BY <2>3, <4>1, FS_AddElement
      <4>3. Cardinality(row) \in Nat
        BY <2>3, FS_CardinalityType
      <4> QED
        BY <2>1, <2>3, <4>1, <4>2, <4>3
    <3> QED
      BY <1>1, <3>6, <3>7, <3>8, <3>9 DEF I, RowBeside
  <2> QED
    BY <2>7
<1>6. h[n] \subseteq I(n)
  <2> DEFINE If == [k \in 0 .. n |-> I(k)]
             P == [k \in 1 .. n |-> [s \in I(k - 1) |-> Place(s, k)]]
  <2>0. n \in Nat /\ \A k \in 1 .. n : k \in 0 .. n /\ k - 1 \in 0 .. n /\ k # 0
    <3> HIDE DEF n
    <3> QED
      BY <1>3
  <2>1. /\ \A k \in 0 .. n : If[k] = I(k)
        /\ \A k \in 1 .. n : \A s \in I(k - 1) : P[k][s] = Place(s, k)
    <3> HIDE DEF Place, I, n
    <3> QED
      OBVIOUS
  <2>2. PICK f : IsReached(f, P, If, base, n)
    <3> HIDE DEF Place, I, n, If, P, base
    <3>1. base \in SUBSET If[0]
      BY <1>4, <2>0, <2>1
    <3>2. \A k \in 1 .. n : \A s \in If[k - 1] : P[k][s] \subseteq If[k]
      BY <1>5, <2>0, <2>1
    <3> QED
      BY <2>0, <3>1, <3>2, ReachedExists
  <2>3. f = Iter(f)
    <3>1. ASSUME NEW k \in 0 .. n
          PROVE  (IF k = 0 THEN base ELSE UNION {P[k][s] : s \in f[k - 1]})
                   = IF k = 0 THEN base ELSE UNION {Place(s, k) : s \in f[k - 1]}
      <4> HIDE DEF Place, I, n, If, P, base
      <4>1. CASE k # 0
        <5>1. k \in 1 .. n /\ k - 1 \in 0 .. n
          BY <2>0, <4>1
        <5>2. f[k - 1] \subseteq I(k - 1)
          BY <2>1, <2>2, <5>1 DEF IsReached
        <5>3. \A s \in f[k - 1] : P[k][s] = Place(s, k)
          BY <2>1, <5>1, <5>2
        <5>4. UNION {P[k][s] : s \in f[k - 1]} = UNION {Place(s, k) : s \in f[k - 1]}
          BY <5>3
        <5> QED
          BY <4>1, <5>4
      <4> QED
        BY <4>1
    <3> HIDE DEF Place, I, n, If, P, base
    <3> QED
      BY <2>2, <3>1 DEF IsReached
  <2>4. h = Iter(h)
    <3> HIDE DEF Iter
    <3> QED
      BY <2>3
  <2>5. h[0] = base /\ \A k \in 1 .. n : h[k] = UNION {Place(s, k) : s \in h[k - 1]}
    <3> HIDE DEF h, n, base, Place
    <3>1. ASSUME NEW k \in 0 .. n
          PROVE  h[k] = IF k = 0 THEN base ELSE UNION {Place(s, k) : s \in h[k - 1]}
      BY ONLY <2>4
    <3>2. h[0] = base
      <4>1. 0 \in 0 .. n
        BY <2>0
      <4> QED
        BY <3>1, <4>1
    <3>3. ASSUME NEW k \in 1 .. n
          PROVE  h[k] = UNION {Place(s, k) : s \in h[k - 1]}
      <4>1. k \in 0 .. n /\ k # 0
        BY <2>0
      <4> QED
        BY <3>1, <4>1, Zenon
    <3> QED
      BY <3>2, <3>3
  <2> DEFINE J == [k \in 0 .. n |-> SUBSET I(k)]
  <2>6. \A k \in 0 .. n : J[k] = SUBSET I(k)
    <3> HIDE DEF I, n
    <3> QED
      OBVIOUS
  <2> HIDE DEF h, n, base, J, I, Place
  <2>7. h[0] \in J[0]
    BY <1>4, <2>0, <2>5, <2>6
  <2>8. \A k \in 1 .. n : h[k - 1] \in J[k - 1] => h[k] \in J[k]
    <3>1. ASSUME NEW k \in 1 .. n, h[k - 1] \in J[k - 1]
          PROVE  h[k] \in J[k]
      <4>1. h[k - 1] \subseteq I(k - 1)
        BY <2>0, <2>6, <3>1
      <4>2. UNION {Place(s, k) : s \in h[k - 1]} \subseteq I(k)
        BY <1>5, <4>1
      <4> QED
        BY <2>0, <2>5, <2>6, <4>2
    <3> QED
      BY <3>1
  <2>9. h[n] \in J[n]
    BY <2>0, <2>7, <2>8, StepsKeep
  <2> QED
    BY <2>0, <2>6, <2>9
<1>7. last \in HoldStates(total) /\ RowBeside(last, gen, time, n)
  <2> HIDE DEF h, n
  <2> QED
    BY <1>1, <1>2, <1>6
<1>8. result = [pattern |-> last.pattern, next |-> last.next, hold |-> last.hold, row |-> {}]
  BY <1>2, <1>7 DEF HoldStates
<1>9. result \in HoldStates(total) /\ result.row = {} /\ result.pattern = last.pattern
      /\ result.hold = last.hold
  BY <1>7, <1>8 DEF HoldStates
<1>10. IsFiniteSet(last.row) /\ Cardinality(last.row) <= 2
  <2>1. IsFiniteSet(last.row) /\ Cardinality(last.row) <= n
    BY <1>7 DEF RowBeside
  <2>2. Cardinality(last.row) \in Nat /\ n \in 0 .. 2
    BY <2>1, FS_CardinalityType
  <2> QED
    BY <2>1, <2>2
<1> QED
  BY <1>1, <1>7, <1>9, <1>10 DEF RowIsHeld, RowBeside

\* The numbers of notes beside a hold note leave it its column.
LEMMA NoteCountsBesidesAre ==
    ASSUME NEW gen, IsSliderGen(gen), NEW n \in NoteCountsBesides(gen)
    PROVE  n \in 0 .. 2 /\ n <= gen.total - 1
<1>1. PICK total \in 1 .. 10 : total = gen.total
  BY DEF IsSliderGen, IsGen
<1>2. PICK m \in 0 .. 2 : n = MinOf(m, total - 1)
  <2>1. PICK p2, m : m \in RandomNoteCounts(p2, 0, 0, 0) \cup {0} /\ n = MinOf(m, total - 1)
    BY <1>1 DEF NoteCountsBesides
  <2>2. m \in 0 .. 2
    <3>1. CASE m \in RandomNoteCounts(p2, 0, 0, 0)
      BY <3>1, NoteCountsBelow
    <3> QED
      BY <2>1, <3>1
  <2> QED
    BY <2>1, <2>2
<1> QED
  BY <1>1, <1>2 DEF MinOf

\* What is known before a row
HoldBefore(s, gen, row) ==
    \E time \in Int : time < TimeOf(gen, row) /\ time <= gen.obj.duration /\ RowIsHeld(s, gen, time)

\* generate_hold_and_normal_notes
LEMMA HoldAndNormalNotesAre ==
    ASSUME NEW gen, IsSliderGen(gen), gen.total # 1, SegmentDuration(gen.obj) # 0,
           NEW p \in HoldAndNormalNotes(gen)
    PROVE  IsSlider(p, gen)
<1> DEFINE
    n == gen.obj.span_count + 1
    ignore_head == ~HasAny(gen.obj.first_sample, {"WHISTLE", "FINISH", "CLAP"})
    Row(s, row, note_count) ==
        IF ignore_head /\ TimeOf(gen, row) = 0 THEN {s}
        ELSE HoldRow(gen, s, TimeOf(gen, row), note_count)
    Begin(hold, next) ==
        [pattern |-> AddNote(EmptyPattern, hold, gen.total, 0, gen.obj.duration),
         next |-> next, hold |-> hold, row |-> {}]
    base == {Begin(hold, next) : hold \in FirstColumns(gen), next \in Usual(gen.total)}
    With(note_count) ==
        LET rows[k \in 0 .. gen.obj.span_count + 1] ==
                IF k = 0 THEN base
                ELSE UNION {Row(s, k - 1, note_count) : s \in rows[k - 1]}
        IN  rows[gen.obj.span_count + 1]
<1>1. PICK total \in 1 .. 10, end \in Nat :
        total = gen.total /\ total # 1 /\ end = gen.obj.duration
  BY DEF IsSliderGen, IsGen
<1>2. PICK spans \in Nat \ {0} : spans = gen.obj.span_count
  BY DEF IsSliderGen
<1>3. FirstColumns(gen) # {} /\ FirstColumns(gen) \subseteq Usual(total)
  BY <1>1, FirstColumnsAre DEF IsSliderGen
<1>4. PICK note_count \in NoteCountsBesides(gen) : p \in Patterns(With(note_count))
  <2>1. base # {}
    <3>1. PICK hold \in FirstColumns(gen), next \in Usual(gen.total) : TRUE
      BY <1>1, <1>3, StageColumns
    <3> HIDE DEF Begin
    <3>2. Begin(hold, next) \in base
      BY <3>1
    <3> HIDE DEF base
    <3> QED
      BY <3>2
  <2>2. HoldAndNormalNotes(gen)
          = IF base = {} THEN {FailedPattern}
            ELSE Patterns(UNION {With(note_count) : note_count \in NoteCountsBesides(gen)})
    BY ONLY TRUE DEF HoldAndNormalNotes
  <2> HIDE DEF With, base
  <2> QED
    BY <2>1, <2>2 DEF Patterns
<1> DEFINE
    Place(s, k) == Row(s, k - 1, note_count)
    Iter(h) == [k \in 0 .. n |-> IF k = 0 THEN base ELSE UNION {Place(s, k) : s \in h[k - 1]}]
    h == CHOOSE h : h = Iter(h)
    I(k) == {s \in HoldStates(gen.total) : HoldBefore(s, gen, k)}
<1>5. \E s \in h[n] : p = s.pattern
  <2>1. With(note_count) = h[n]
    OBVIOUS
  <2> HIDE DEF With, h, n
  <2> QED
    BY <1>4, <2>1 DEF Patterns
<1> HIDE DEF With
<1>6. n \in Nat
  BY <1>2
<1>7. base \in SUBSET I(0)
  <2>1. ASSUME NEW hold \in FirstColumns(gen), NEW next \in Usual(gen.total), NEW s,
               s = [pattern |-> AddNote(EmptyPattern, hold, gen.total, 0, gen.obj.duration),
                    next |-> next, hold |-> hold, row |-> {}]
        PROVE  s \in HoldStates(gen.total) /\ HoldBefore(s, gen, 0)
    <3>1. PICK empty : empty = EmptyPattern
      OBVIOUS
    <3>2. /\ IsNotes(empty, total, end) /\ empty.hit_objects = <<>>
          /\ DOMAIN empty.hit_objects = {} /\ Len(empty.hit_objects) = 0
      BY <3>1, EmptyIsNotes, EmptyIsPattern
    <3>3. hold \in Usual(total) /\ hold \in Columns(total)
      BY <1>1, <1>3, <2>1, StageColumns
    <3>4. PICK start \in Nat : start = 0
      OBVIOUS
    <3>5. PICK q : q = AddNote(empty, hold, total, start, end)
      OBVIOUS
    <3>6. Joins(empty, hold, total, start, end, end)
      BY <3>2, <3>3, <3>4 DEF Joins
    <3>7. Joined(q, empty, hold, total, start, end, end)
      BY <3>2, <3>3, <3>5, <3>6, NoteJoined
    <3>8. NewNote(q, empty, 1, hold, total, start, end) /\ IsNotes(q, total, end)
          /\ q \in PatternType
      BY <3>2, <3>7 DEF Joined
    <3>9. HeldNotes(q, total, end, hold, -1, {})
      BY <3>2, <3>3, <3>8 DEF HeldNotes, NewNote
    <3>10. s = [pattern |-> q, next |-> next, hold |-> hold, row |-> {}]
      BY <1>1, <2>1, <3>1, <3>4, <3>5
    <3>11. s \in HoldStates(total) /\ s.row = {} /\ s.pattern = q /\ s.hold = hold
      BY <1>1, <2>1, <3>3, <3>8, <3>10 DEF HoldStates
    <3>12. IsFiniteSet({}) /\ Cardinality({}) = 0
      BY FS_EmptySet
    <3>13. PICK early \in Int : early = -1 /\ early < 0 /\ early <= end
      OBVIOUS
    <3>14. RowIsHeld(s, gen, early)
      BY <1>1, <3>9, <3>11, <3>12, <3>13 DEF RowIsHeld
    <3>15. TimeOf(gen, 0) = 0
      BY <1>6, TimeOfIs
    <3> QED
      BY <1>1, <3>11, <3>13, <3>14, <3>15 DEF HoldBefore
  <2> QED
    BY <2>1
<1>8. ASSUME NEW k \in 1 .. n, NEW s \in I(k - 1)
      PROVE  Place(s, k) \subseteq I(k)
  <2>1. PICK row \in Nat : row = k - 1 /\ k = row + 1 /\ row <= spans
    BY <1>2
  <2>2. s \in HoldStates(gen.total) /\ HoldBefore(s, gen, row)
    BY <2>1
  <2>3. PICK time \in Nat, next \in Nat :
          time = TimeOf(gen, row) /\ time <= end /\ next = TimeOf(gen, k) /\ time < next
    <3>1. /\ SegmentDuration(gen.obj) \in Nat /\ TimeOf(gen, row) \in Nat
          /\ TimeOf(gen, row + 1) = TimeOf(gen, row) + SegmentDuration(gen.obj)
          /\ TimeOf(gen, row) <= end
      BY <1>1, <1>2, <2>1, TimeOfIs
    <3> QED
      BY <2>1, <3>1
  <2>4. Place(s, k) = IF ignore_head /\ time = 0 THEN {s} ELSE HoldRow(gen, s, time, note_count)
    <3>1. Place(s, k) = Row(s, row, note_count)
      BY <2>1
    <3> HIDE DEF Place, ignore_head
    <3> QED
      BY <2>3, <3>1
  <2>5. PICK before \in Int : before < time /\ before <= end /\ RowIsHeld(s, gen, before)
    BY <1>1, <2>2, <2>3 DEF HoldBefore
  <2> HIDE DEF h, n, I, Place
  <2>6. ASSUME NEW t \in Place(s, k)
        PROVE  t \in I(k)
    <3>1. CASE ignore_head /\ time = 0
      <4>1. t = s /\ before < next
        BY <2>3, <2>4, <2>5, <2>6, <3>1
      <4> QED
        BY <1>1, <2>2, <2>3, <2>5, <4>1 DEF HoldBefore, I
    <3>2. CASE ~(ignore_head /\ time = 0)
      <4>1. t \in HoldRow(gen, s, time, note_count)
        BY <2>4, <2>6, <3>2
      <4>2. note_count \in 0 .. 2 /\ note_count <= gen.total - 1
        BY <1>4, NoteCountsBesidesAre
      <4>3. HeldNotes(s.pattern, gen.total, gen.obj.duration, s.hold, time, {}) /\ s.row = {}
        BY <2>3, <2>5, HeldLater DEF RowIsHeld
      <4>4. RowIsHeld(t, gen, time)
        BY <1>1, <2>2, <2>3, <4>1, <4>2, <4>3, HoldRowIs
      <4>5. t \in HoldStates(gen.total)
        BY <4>4 DEF RowIsHeld
      <4> QED
        BY <1>1, <2>3, <4>4, <4>5 DEF HoldBefore, I
    <3> QED
      BY <3>1, <3>2
  <2> QED
    BY <2>6
<1>9. h[n] \subseteq I(n)
  <2> DEFINE If == [k \in 0 .. n |-> I(k)]
             P == [k \in 1 .. n |-> [s \in I(k - 1) |-> Place(s, k)]]
  <2>0. n \in Nat /\ \A k \in 1 .. n : k \in 0 .. n /\ k - 1 \in 0 .. n /\ k # 0
    <3> HIDE DEF n
    <3> QED
      BY <1>6
  <2>1. /\ \A k \in 0 .. n : If[k] = I(k)
        /\ \A k \in 1 .. n : \A s \in I(k - 1) : P[k][s] = Place(s, k)
    <3> HIDE DEF Place, I, n
    <3> QED
      OBVIOUS
  <2>2. PICK f : IsReached(f, P, If, base, n)
    <3> HIDE DEF Place, I, n, If, P, base
    <3>1. base \in SUBSET If[0]
      BY <1>7, <2>0, <2>1
    <3>2. \A k \in 1 .. n : \A s \in If[k - 1] : P[k][s] \subseteq If[k]
      BY <1>8, <2>0, <2>1
    <3> QED
      BY <2>0, <3>1, <3>2, ReachedExists
  <2>3. f = Iter(f)
    <3>1. ASSUME NEW k \in 0 .. n
          PROVE  (IF k = 0 THEN base ELSE UNION {P[k][s] : s \in f[k - 1]})
                   = IF k = 0 THEN base ELSE UNION {Place(s, k) : s \in f[k - 1]}
      <4> HIDE DEF Place, I, n, If, P, base
      <4>1. CASE k # 0
        <5>1. k \in 1 .. n /\ k - 1 \in 0 .. n
          BY <2>0, <4>1
        <5>2. f[k - 1] \subseteq I(k - 1)
          BY <2>1, <2>2, <5>1 DEF IsReached
        <5>3. \A s \in f[k - 1] : P[k][s] = Place(s, k)
          BY <2>1, <5>1, <5>2
        <5>4. UNION {P[k][s] : s \in f[k - 1]} = UNION {Place(s, k) : s \in f[k - 1]}
          BY <5>3
        <5> QED
          BY <4>1, <5>4
      <4> QED
        BY <4>1
    <3> HIDE DEF Place, I, n, If, P, base
    <3> QED
      BY <2>2, <3>1 DEF IsReached
  <2>4. h = Iter(h)
    <3> HIDE DEF Iter
    <3> QED
      BY <2>3
  <2>5. h[0] = base /\ \A k \in 1 .. n : h[k] = UNION {Place(s, k) : s \in h[k - 1]}
    <3> HIDE DEF h, n, base, Place
    <3>1. ASSUME NEW k \in 0 .. n
          PROVE  h[k] = IF k = 0 THEN base ELSE UNION {Place(s, k) : s \in h[k - 1]}
      BY ONLY <2>4
    <3>2. h[0] = base
      <4>1. 0 \in 0 .. n
        BY <2>0
      <4> QED
        BY <3>1, <4>1
    <3>3. ASSUME NEW k \in 1 .. n
          PROVE  h[k] = UNION {Place(s, k) : s \in h[k - 1]}
      <4>1. k \in 0 .. n /\ k # 0
        BY <2>0
      <4> QED
        BY <3>1, <4>1, Zenon
    <3> QED
      BY <3>2, <3>3
  <2> DEFINE J == [k \in 0 .. n |-> SUBSET I(k)]
  <2>6. \A k \in 0 .. n : J[k] = SUBSET I(k)
    <3> HIDE DEF I, n
    <3> QED
      OBVIOUS
  <2> HIDE DEF h, n, base, J, I, Place
  <2>7. h[0] \in J[0]
    BY <1>7, <2>0, <2>5, <2>6
  <2>8. \A k \in 1 .. n : h[k - 1] \in J[k - 1] => h[k] \in J[k]
    <3>1. ASSUME NEW k \in 1 .. n, h[k - 1] \in J[k - 1]
          PROVE  h[k] \in J[k]
      <4>1. h[k - 1] \subseteq I(k - 1)
        BY <2>0, <2>6, <3>1
      <4>2. UNION {Place(s, k) : s \in h[k - 1]} \subseteq I(k)
        BY <1>8, <4>1
      <4> QED
        BY <2>0, <2>5, <2>6, <4>2
    <3> QED
      BY <3>1
  <2>9. h[n] \in J[n]
    BY <2>0, <2>7, <2>8, StepsKeep
  <2> QED
    BY <2>0, <2>6, <2>9
<1>10. PICK s : HoldBefore(s, gen, n) /\ s.pattern = p
  <2> HIDE DEF h, n
  <2> QED
    BY <1>5, <1>9
<1>11. PICK time \in Int : time <= gen.obj.duration /\ RowIsHeld(s, gen, time)
  BY <1>10 DEF HoldBefore
<1> QED
  <2> HIDE DEF n
  <2> QED
    BY <1>10, <1>11, HeldIsSlider DEF RowIsHeld

\* A slider with one span
LEMMA SingleSpanIs ==
    ASSUME NEW gen, IsSliderGen(gen), gen.total # 1, NEW p \in SingleSpan(gen)
    PROVE  IsSlider(p, gen)
<1>1. PICK segment \in Nat : segment = SegmentDuration(gen.obj)
  <2>1. 0 \in Nat
    OBVIOUS
  <2> QED
    BY <2>1, TimeOfIs
<1>2. CASE segment <= 110
  <2>1. PICK g, n : /\ p \in RandomNotesOf(g, n) /\ n = IF segment >= 80 THEN 2 ELSE 1
                    /\ g = NotStacking(gen) \/ g = gen
    BY <1>1, <1>2 DEF SingleSpan
  <2>2. /\ IsSliderGen(g) /\ g.total = gen.total /\ g.obj = gen.obj
        /\ IsSlider(p, g) <=> IsSlider(p, gen)
    BY <2>1, NotStackingIsGen
  <2>3. n \in Nat \ {0} /\ n <= 2 /\ (n # 1 => segment # 0)
    BY <2>1
  <2>4. n <= g.obj.span_count + 1
    <3>1. g.obj.span_count \in Nat \ {0}
      BY <2>2 DEF IsSliderGen
    <3> QED
      BY <2>3, <3>1
  <2>5. IsSlider(p, g)
    BY <1>1, <2>1, <2>2, <2>3, <2>4, RandomNotesOfAre
  <2> QED
    BY <2>2, <2>5
<1>3. CASE ~(segment <= 110)
  <2>1. \E p2, p3, p4 : p \in NRandomNotes(gen, p2, p3, p4)
    BY <1>1, <1>3 DEF SingleSpan
  <2> QED
    BY <2>1, NRandomNotesAre
<1> QED
  BY <1>2, <1>3

\* A slider with several spans
LEMMA SeveralSpansAre ==
    ASSUME NEW gen, IsSliderGen(gen), gen.total # 1, NEW p \in SeveralSpans(gen)
    PROVE  IsSlider(p, gen)
<1>1. PICK segment \in Nat : segment = SegmentDuration(gen.obj)
  <2>1. 0 \in Nat
    OBVIOUS
  <2> QED
    BY <2>1, TimeOfIs
<1>2. PICK spans \in Nat \ {0} : spans = gen.obj.span_count
  BY DEF IsSliderGen
<1>3. PICK total \in 1 .. 10 : total = gen.total /\ total # 1
  BY DEF IsSliderGen, IsGen
<1>4. CASE segment <= 90
  <2>1. p \in RandomHoldNotes(gen, 1)
    BY <1>1, <1>4 DEF SeveralSpans
  <2>2. PICK one \in 1 .. 4 : one = 1 /\ one <= total - RandomStart(total)
    BY <1>3 DEF RandomStart
  <2> QED
    BY <1>3, <2>1, <2>2, RandomHoldNotesAre
<1>5. CASE segment > 90 /\ segment <= 120
  <2>1. PICK g, n : p \in RandomNotesOf(g, n) /\ n = spans + 1 /\ g = NotStacking(gen)
    BY <1>1, <1>2, <1>5 DEF SeveralSpans
  <2>2. /\ IsSliderGen(g) /\ g.total = gen.total /\ g.obj = gen.obj
        /\ IsSlider(p, g) <=> IsSlider(p, gen)
    BY <2>1, NotStackingIsGen
  <2>3. n \in Nat \ {0} /\ n <= g.obj.span_count + 1 /\ segment # 0
    BY <1>2, <1>5, <2>1, <2>2
  <2>4. IsSlider(p, g)
    BY <1>1, <2>1, <2>2, <2>3, RandomNotesOfAre
  <2> QED
    BY <2>2, <2>4
<1>6. CASE segment > 120
  <2>1. SegmentDuration(gen.obj) # 0
    BY <1>1, <1>6
  <2>2. \/ p \in Stair(gen)
        \/ p \in RandomMultipleNotes(gen)
        \/ p \in NRandomNotes(gen, 23, 0, 0)
        \/ p \in TiledHoldNotes(gen) /\ spans < gen.total - 1 - RandomStart(gen.total)
        \/ p \in HoldAndNormalNotes(gen)
    BY <1>1, <1>2, <1>6 DEF SeveralSpans
  <2> QED
    BY <1>2, <2>1, <2>2, StairIs, RandomMultipleNotesAre, NRandomNotesAre, TiledHoldNotesAre,
       HoldAndNormalNotesAre
<1> QED
  BY <1>4, <1>5, <1>6

\* generate, before the notes at the end are picked
LEMMA PathObjectPatternIsSlider ==
    ASSUME NEW gen, IsSliderGen(gen), NEW p \in PathObjectPatterns(gen)
    PROVE  IsSlider(p, gen)
<1>1. CASE gen.total = 1
  <2>1. PICK total \in 1 .. 10, end \in Nat :
          total = gen.total /\ total = 1 /\ end = gen.obj.duration
    BY <1>1 DEF IsSliderGen
  <2>2. PICK m \in Nat, c \in Usual(total) : m = 0 /\ c = 0 /\ c \in Columns(total)
    BY <2>1 DEF Usual, Columns, RandomStart
  <2>3. PICK empty : empty = EmptyPattern
    OBVIOUS
  <2>4. IsSized(empty, total, end, m) /\ c \notin empty.columns /\ empty.columns = {}
    BY <2>2, <2>3, EmptyIsSized, EmptyIsPattern
  <2>5. PICK start \in Int : start = 0 /\ start >= 0 /\ end <= end /\ end \in Int
    OBVIOUS
  <2>6. PICK k \in Nat : k = m + 1 /\ k # 0
    OBVIOUS
  <2>7. AddedAlone(p, empty, c, total, start, end, end, k)
    <3>1. p = AddNote(empty, c, total, start, end)
      BY <1>1, <2>1, <2>2, <2>3, <2>5 DEF PathObjectPatterns
    <3> QED
      BY ONLY total \in 1 .. 10, m \in Nat, <2>2, <2>4, <2>5, <2>6, <3>1, AddedToSized
  <2>8. IsSized(p, total, end, k) /\ p.columns \subseteq Usual(total)
    BY <2>2, <2>4, <2>7 DEF AddedAlone
  <2>9. IsSized(p, gen.total, gen.obj.duration, k) /\ p.columns \subseteq Usual(gen.total)
    BY <2>1, <2>8
  <2> QED
    BY <1>1, <2>6, <2>9, SizedIsSlider
<1>2. CASE gen.total # 1
  <2>1. p \in SeveralSpans(gen) \/ p \in SingleSpan(gen)
    BY <1>2 DEF PathObjectPatterns
  <2> QED
    BY <1>2, <2>1, SingleSpanIs, SeveralSpansAre
<1> QED
  BY <1>1, <1>2

\* A pattern knows the columns of its notes.
KnowsColumns(p, total) ==
    /\ p.hit_objects \in Seq(NoteType)
    /\ p.columns = {ColumnAt(p, total, i) : i \in DOMAIN p.hit_objects}

\* The next object may ask of any such pattern that leaves room.
LEMMA SummaryIs ==
    ASSUME NEW total \in 1 .. 10, NEW p, KnowsColumns(p, total), Roomy(p.columns, total)
    PROVE  IsSummary(Summary(p, total), total)
<1>1. PICK s \in Seq(NoteType), n \in Nat : s = p.hit_objects /\ n = Len(s) /\ DOMAIN s = 1 .. n
  <2>1. PICK t \in Seq(NoteType) : t = p.hit_objects
    BY DEF KnowsColumns
  <2>2. Len(t) \in Nat /\ DOMAIN t = 1 .. Len(t)
    OBVIOUS
  <2> QED
    BY <2>1, <2>2
<1>2. PICK summary : summary = Summary(p, total)
  OBVIOUS
<1>3. /\ summary.columns = p.columns
      /\ summary.objects = MinOf(n, 2)
      /\ summary.last_column = IF s = <<>> THEN 0 ELSE ColumnOf(Last(s).x, total)
  BY <1>1, <1>2 DEF Summary
<1>4. ASSUME NEW i \in 1 .. n
      PROVE  ColumnAt(p, total, i) \in Columns(total)
  <2>1. s[i] \in NoteType
    BY <1>1
  <2>2. s[i].x \in Int
    BY <2>1 DEF NoteType
  <2> QED
    BY <1>1, <2>2, ColumnOfIs DEF ColumnAt
<1>5. p.columns = {ColumnAt(p, total, i) : i \in 1 .. n}
  BY <1>1 DEF KnowsColumns
<1>6. CASE n = 0
  <2>1. p.columns = {} /\ MinOf(n, 2) = 0
    BY <1>5, <1>6 DEF MinOf
  <2> QED
    BY <1>2, <1>3, <2>1 DEF IsSummary
<1>7. CASE n # 0
  <2>1. s # <<>> /\ n \in 1 .. n
    BY <1>1, <1>7
  <2>2. Last(s) = s[n]
    BY <1>1 DEF Last
  <2>3. summary.last_column = ColumnAt(p, total, n)
    BY <1>1, <1>3, <2>1, <2>2 DEF ColumnAt
  <2>4. MinOf(n, 2) \in 1 .. 2 /\ (MinOf(n, 2) = 1 => n = 1)
    BY <1>7 DEF MinOf
  <2>5. summary.columns # {} /\ summary.last_column \in summary.columns
    BY <1>3, <1>5, <2>1, <2>3
  <2>6. n = 1 => summary.columns = {summary.last_column}
    BY <1>3, <1>5, <2>3
  <2>7. summary.columns \subseteq Columns(total)
    BY <1>3, <1>4, <1>5
  <2> QED
    BY <1>2, <1>3, <2>4, <2>5, <2>6, <2>7 DEF IsSummary
<1> QED
  BY <1>6, <1>7

\* generate: the notes at the end, and where they are
LEMMA NextPatternIs ==
    ASSUME NEW gen, IsSliderGen(gen), NEW p, IsSlider(p, gen), NEW next, next = NextPattern(gen, p)
    PROVE  /\ KnowsColumns(next, gen.total) /\ Roomy(next.columns, gen.total)
           /\ EndColumns(p, gen.total, gen.obj.duration) # {} =>
                  next.columns = EndColumns(p, gen.total, gen.obj.duration)
<1>1. PICK total \in 1 .. 10, end \in Nat : total = gen.total /\ end = gen.obj.duration
  BY DEF IsSliderGen, IsGen
<1> DEFINE notes == p.hit_objects
<1>2. notes \in Seq(NoteType)
  BY DEF IsSlider, IsNotes, IsPattern, PatternType
<1>3. p.columns = {ColumnAt(p, total, i) : i \in DOMAIN p.hit_objects}
  BY <1>1 DEF IsSlider, IsNotes, IsPattern
<1>4. CASE Len(notes) = 1
  <2>1. next = p
    BY <1>2, <1>4 DEF NextPattern
  <2>2. DOMAIN notes = {1}
    BY <1>4
  <2>3. EndColumns(p, total, end) # {} => EndColumns(p, total, end) = p.columns
    BY <1>2, <1>3, <2>2 DEF EndColumns
  <2>4. Roomy(p.columns, total)
    BY <1>1, <1>2, <1>4 DEF IsSlider
  <2> QED
    BY <1>1, <1>2, <1>3, <2>1, <2>3, <2>4 DEF KnowsColumns
<1>5. CASE Len(notes) # 1
  <2> DEFINE
      n == Len(notes)
      Step(q, k) == IF notes[k].end_time = gen.obj.duration THEN Append(q, notes[k]) ELSE q
      base == << >>
      Iter(h) == [k \in 0 .. n |-> IF k = 0 THEN base ELSE Step(h[k - 1], k)]
      h == CHOOSE h : h = Iter(h)
      I(k) == {e \in Seq(NoteType) :
                  \A c : (\E i \in DOMAIN e : ColumnOf(e[i].x, total) = c)
                         <=> \E j \in 1 .. k : notes[j].end_time = end
                                               /\ ColumnOf(notes[j].x, total) = c}
  <2>1. n \in Nat
    OBVIOUS
  <2>2. base \in I(0)
    OBVIOUS
  <2>3. ASSUME NEW k \in 1 .. n, NEW q \in I(k - 1)
        PROVE  Step(q, k) \in I(k)
    <3>1. notes[k] \in NoteType /\ k \in Nat /\ k - 1 \in Nat
      BY ONLY <1>2, k \in 1 .. n
    <3>2. \A j : j \in 1 .. k <=> j \in 1 .. k - 1 \/ j = k
      BY <3>1
    <3>3. CASE notes[k].end_time = end
      <4>1. PICK e : e = Append(q, notes[k])
        OBVIOUS
      <4>2. PICK m \in Nat : m = Len(q) /\ DOMAIN q = 1 .. m
        OBVIOUS
      <4>3. e \in Seq(NoteType) /\ DOMAIN e = 1 .. m + 1 /\ e[m + 1] = notes[k]
            /\ \A i \in 1 .. m : e[i] = q[i]
        BY <3>1, <4>1, <4>2
      <4>4. \A i : i \in 1 .. m + 1 <=> i \in 1 .. m \/ i = m + 1
        BY <4>2
      <4>5. ASSUME NEW c
            PROVE  (\E i \in DOMAIN e : ColumnOf(e[i].x, total) = c)
                   <=> \E j \in 1 .. k : notes[j].end_time = end /\ ColumnOf(notes[j].x, total) = c
        <5>1. (\E i \in DOMAIN e : ColumnOf(e[i].x, total) = c)
              <=> \/ \E i \in DOMAIN q : ColumnOf(q[i].x, total) = c
                  \/ ColumnOf(notes[k].x, total) = c
          BY ONLY <4>2, <4>3, <4>4
        <5>2. (\E i \in DOMAIN q : ColumnOf(q[i].x, total) = c)
              <=> \E j \in 1 .. k - 1 : notes[j].end_time = end /\ ColumnOf(notes[j].x, total) = c
          OBVIOUS
        <5> QED
          BY ONLY <3>2, <3>3, <5>1, <5>2
      <4>6. Step(q, k) = e
        BY <1>1, <3>3, <4>1
      <4> HIDE DEF Step, n, h
      <4> QED
        BY <4>3, <4>5, <4>6
    <3>4. CASE notes[k].end_time # end
      <4>1. Step(q, k) = q
        BY <1>1, <3>4
      <4>2. ASSUME NEW c
            PROVE  (\E i \in DOMAIN q : ColumnOf(q[i].x, total) = c)
                   <=> \E j \in 1 .. k : notes[j].end_time = end /\ ColumnOf(notes[j].x, total) = c
        <5>1. (\E i \in DOMAIN q : ColumnOf(q[i].x, total) = c)
              <=> \E j \in 1 .. k - 1 : notes[j].end_time = end /\ ColumnOf(notes[j].x, total) = c
          OBVIOUS
        <5> QED
          BY ONLY <3>2, <3>4, <5>1
      <4> HIDE DEF Step, n, h
      <4> QED
        BY <4>1, <4>2
    <3> QED
      BY <3>3, <3>4
  <2>4. h[n] \in I(n)
    <3> DEFINE J == [k \in 0 .. n |-> I(k)]
               Q == [k \in 1 .. n |-> [q \in I(k - 1) |-> Step(q, k)]]
    <3>0. n \in Nat /\ \A k \in 1 .. n : k \in 0 .. n /\ k - 1 \in 0 .. n /\ k # 0
      <4> HIDE DEF n
      <4> QED
        BY <2>1
    <3>1. /\ \A k \in 0 .. n : J[k] = I(k)
          /\ \A k \in 1 .. n : \A q \in I(k - 1) : Q[k][q] = Step(q, k)
      <4> HIDE DEF Step, I, n
      <4> QED
        OBVIOUS
    <3>2. PICK f : IsRun(f, Q, J, base, n)
      <4> HIDE DEF Step, I, n, J, Q, base
      <4>1. base \in J[0]
        BY <2>2, <3>0, <3>1
      <4>2. ASSUME NEW k \in 1 .. n, NEW q \in J[k - 1]
            PROVE  Q[k][q] \in J[k]
        <5>1. q \in I(k - 1)
          BY <3>0, <3>1
        <5>2. Step(q, k) \in I(k)
          BY <2>3, <5>1
        <5> QED
          BY <3>0, <3>1, <5>1, <5>2
      <4> QED
        BY <3>0, <4>1, <4>2, RunExists
    <3>3. f = Iter(f)
      <4>1. ASSUME NEW k \in 0 .. n
            PROVE  (IF k = 0 THEN base ELSE Q[k][f[k - 1]])
                     = IF k = 0 THEN base ELSE Step(f[k - 1], k)
        <5> HIDE DEF Step, I, n, J, Q, base
        <5>1. CASE k # 0
          <6>1. k \in 1 .. n /\ k - 1 \in 0 .. n
            BY <3>0, <5>1
          <6>2. f[k - 1] \in I(k - 1)
            BY <3>1, <3>2, <6>1 DEF IsRun
          <6> QED
            BY <3>1, <5>1, <6>1, <6>2
        <5> QED
          BY <5>1
      <4> HIDE DEF Step, I, n, J, Q, base
      <4> QED
        BY <3>2, <4>1 DEF IsRun
    <3>4. h = Iter(h)
      <4> HIDE DEF Iter
      <4> QED
        BY <3>3
    <3>5. h[0] = base /\ \A k \in 1 .. n : h[k] = Step(h[k - 1], k)
      <4> HIDE DEF h, n, base, Step
      <4>1. ASSUME NEW k \in 0 .. n
            PROVE  h[k] = IF k = 0 THEN base ELSE Step(h[k - 1], k)
        BY ONLY <3>4
      <4>2. h[0] = base
        <5>1. 0 \in 0 .. n
          BY <3>0
        <5> QED
          BY <4>1, <5>1
      <4>3. ASSUME NEW k \in 1 .. n
            PROVE  h[k] = Step(h[k - 1], k)
        <5>1. k \in 0 .. n /\ k # 0
          BY <3>0
        <5> QED
          BY <4>1, <5>1, Zenon
      <4> QED
        BY <4>2, <4>3
    <3> HIDE DEF h, n, base, J, I, Step
    <3>7. h[0] \in J[0]
      BY <2>2, <3>0, <3>1, <3>5
    <3>8. \A k \in 1 .. n : h[k - 1] \in J[k - 1] => h[k] \in J[k]
      BY <2>3, <3>0, <3>1, <3>5
    <3>9. n \in 0 .. n
      BY <3>0
    <3>10. h[n] \in J[n]
      BY <3>0, <3>7, <3>8, <3>9, StepsKeep
    <3> QED
      BY <3>1, <3>9, <3>10
  <2>5. PICK e : e = h[n]
    OBVIOUS
  <2>6. next = [p EXCEPT !.hit_objects = e,
                         !.columns = {ColumnOf(e[i].x, gen.total) : i \in DOMAIN e}]
    <3>1. NextPattern(gen, p)
            = IF n = 1 THEN p
              ELSE [p EXCEPT !.hit_objects = h[n],
                             !.columns = {ColumnOf(h[n][i].x, gen.total) : i \in DOMAIN h[n]}]
      BY DEF NextPattern
    <3>2. n # 1
      BY <1>5
    <3> HIDE DEF h, n
    <3> QED
      BY <2>5, <3>1, <3>2
  <2>7. p \in PatternType
    BY DEF IsSlider, IsNotes, IsPattern
  <2>8. next.hit_objects = e /\ next.columns = {ColumnOf(e[i].x, total) : i \in DOMAIN e}
    <3> HIDE DEF h, n
    <3> QED
      BY <1>1, <2>6, <2>7 DEF PatternType
  <2>9. e \in I(n)
    <3> HIDE DEF h, n, I
    <3> QED
      BY <2>4, <2>5
  <2>10. KnowsColumns(next, total)
    <3> HIDE DEF h, n
    <3> QED
      BY <2>8, <2>9 DEF KnowsColumns, ColumnAt
  <2>11. next.columns = EndColumns(p, total, end)
    <3>1. DOMAIN notes = 1 .. n
      OBVIOUS
    <3> HIDE DEF h, n
    <3>2. ASSUME NEW c
          PROVE  c \in next.columns <=> c \in EndColumns(p, total, end)
      <4>1. c \in next.columns <=> \E i \in DOMAIN e : ColumnOf(e[i].x, total) = c
        BY ONLY <2>8
      <4>2. c \in EndColumns(p, total, end)
            <=> \E j \in 1 .. n : notes[j].end_time = end /\ ColumnOf(notes[j].x, total) = c
        BY ONLY <1>2, <3>1 DEF EndColumns, ColumnAt
      <4> QED
        BY <2>9, <4>1, <4>2
    <3> QED
      BY <3>2
  <2>12. Roomy(EndColumns(p, total, end), total)
    BY <1>1 DEF IsSlider
  <2> QED
    BY <1>1, <2>10, <2>11, <2>12
<1> QED
  BY <1>4, <1>5

------------------------------------------------------------------------------
(* Spinners *)

\* What ConvertSpinner asks of a generator
IsSpinnerGen(gen) ==
    gen.total \in 1 .. 10 /\ gen.obj.duration \in Nat /\ IsSummary(gen.prev, gen.total)

\* There is a column that the last pattern left, unless it filled the stage.
LEMMA EndTimeColumnsAre ==
    ASSUME NEW gen, IsSpinnerGen(gen)
    PROVE  EndTimeColumns(gen) # {} /\ EndTimeColumns(gen) \subseteq Columns(gen.total)
<1>0. PICK total \in 1 .. 10 : total = gen.total
  BY DEF IsSpinnerGen
<1>1. PICK S :
        /\ total = gen.total /\ S = gen.prev.columns
        /\ S \subseteq Columns(total) /\ Roomy(S, total)
  BY <1>0 DEF IsSpinnerGen, IsSummary
<1>2. PICK taken : taken = IF Cardinality(S) = total THEN {} ELSE S
  OBVIOUS
<1>3. PICK valid : valid = Columns(total) \ taken
  OBVIOUS
<1>4. EndTimeColumns(gen) = UNION {FindAvailable(c, valid, RandomStart(total), total) :
                                       c \in Usual(total)}
  BY <1>1, <1>2, <1>3 DEF EndTimeColumns
<1>5. \E c \in Usual(total) : c \notin taken
  <2>1. CASE Cardinality(S) = total
    BY <1>2, <2>1, StageColumns
  <2>2. CASE Cardinality(S) # total /\ total = 8
    BY <1>1, <1>2, <2>2 DEF Roomy
  <2>3. CASE Cardinality(S) # total /\ total # 8
    <3>1. IsFiniteSet(Columns(total)) /\ Cardinality(Columns(total)) = total
          /\ Usual(total) = Columns(total)
      BY <2>3, StageColumns
    <3>2. IsFiniteSet(S) /\ Cardinality(S) \in Nat /\ Cardinality(S) <= total
      <4>1. IsFiniteSet(S) /\ Cardinality(S) <= Cardinality(Columns(total))
        BY <1>1, <3>1, FS_Subset
      <4> QED
        BY <3>1, <4>1, FS_CardinalityType
    <3>3. IsFiniteSet({}) /\ Cardinality({}) = 0
      BY FS_EmptySet
    <3>4. Cardinality(S) + Cardinality({}) < Cardinality(Columns(total))
      BY <2>3, <3>1, <3>2, <3>3
    <3>5. \E c \in Usual(total) : c \notin S
      BY <3>1, <3>2, <3>3, <3>4, FreeColumn
    <3> QED
      BY <1>2, <2>3, <3>5
  <2> QED
    BY <2>1, <2>2, <2>3
<1>6. valid \cap Usual(total) # {}
  BY <1>3, <1>5, StageColumns
<1>7. ASSUME NEW c \in Usual(total)
      PROVE  /\ FindAvailable(c, valid, RandomStart(total), total) # {}
             /\ FindAvailable(c, valid, RandomStart(total), total) \subseteq valid
  BY <1>6, FindAvailableIs
<1>8. PICK c : c \in Usual(total)
  BY <1>5
<1>9. EndTimeColumns(gen) # {}
  BY <1>4, <1>7, <1>8
<1>10. EndTimeColumns(gen) \subseteq valid
  BY <1>4, <1>7
<1> QED
  BY <1>1, <1>3, <1>9, <1>10

LEMMA EndTimePatternIs ==
    ASSUME NEW gen, IsSpinnerGen(gen), NEW p \in EndTimePatterns(gen)
    PROVE  IsNotes(p, gen.total, gen.obj.duration) /\ p.hit_objects # <<>>
<1>1. PICK total \in 1 .. 10, duration \in Nat : total = gen.total /\ duration = gen.obj.duration
  BY DEF IsSpinnerGen
<1>2. PICK c \in Columns(total) : p = EndTimeNote(gen, c)
  <2>1. total = 8 => 0 \in Columns(total)
    BY StageColumns
  <2> QED
    BY <1>1, <2>1, EndTimeColumnsAre DEF EndTimePatterns
<1>3. PICK start \in Nat, end \in Nat :
        start = 0 /\ end = (IF duration >= 100 THEN duration ELSE 0) /\ end <= duration
  OBVIOUS
<1>4. PICK empty : empty = EmptyPattern
  OBVIOUS
<1>5. IsNotes(empty, total, duration) /\ DOMAIN empty.hit_objects = {}
  BY <1>4, EmptyIsNotes, EmptyIsPattern
<1>6. p = AddNote(empty, c, total, start, end)
  BY <1>1, <1>2, <1>3, <1>4 DEF EndTimeNote
<1>7. Joins(empty, c, total, start, end, duration)
  BY <1>3, <1>5 DEF Joins
<1>8. Joined(p, empty, c, total, start, end, duration)
  BY <1>5, <1>6, <1>7, NoteJoined
<1>9. IsNotes(p, total, duration) /\ Len(p.hit_objects) # 0
  BY <1>8 DEF Joined
<1>10. p.hit_objects # <<>>
  BY <1>9
<1> QED
  BY <1>1, <1>9, <1>10

------------------------------------------------------------------------------
(* The conversion *)

\* What the generators read of an object
IsObject(o) ==
    /\ o.kind \in {"circle", "slider", "spinner"}
    /\ o.kind = "circle" => o.x \in Int /\ o.time_separation \in Int
    /\ o.kind = "slider" => o.x \in Int /\ o.span_count \in Nat \ {0} /\ o.duration \in Nat
    /\ o.kind = "spinner" => o.duration \in Nat

\* The inductive invariant: TypeOK and HasValidColumn, with room for the next
\* object in what it is told of the last pattern
IInv ==
    /\ total_columns \in 1 .. 10
    /\ stair \in {"STAIR", "REVERSE_STAIR"}
    /\ \A o \in hit_objects : o # None /\ IsObject(o)
    /\ obj # None => IsObject(obj)
    /\ IsSummary(last_pattern, total_columns)
    /\ ~panicked
    /\ NoOverlap

\* The stage has one to ten columns.
LEMMA TargetColumnsAre ==
    ASSUME NEW map \in Maps
    PROVE  TargetColumns(map) \in 1 .. 10
<1>1. PICK keys \in 0 .. 10, od \in Int : keys = map.keys /\ od = map.od
  BY MapsAssumption
<1>2. Within(od + 1, 4, 7) \in 4 .. 7
  BY DEF Within, MinOf, MaxOf
<1>3. \/ TargetColumns(map) = keys /\ keys # 0
      \/ TargetColumns(map) \in {4, 5, 6, 7}
      \/ TargetColumns(map) = Within(od + 1, 4, 7)
  BY <1>1 DEF TargetColumns
<1> QED
  BY <1>2, <1>3

LEMMA InitIInv == Init => IInv
<1> SUFFICES ASSUME Init PROVE IInv
  OBVIOUS
<1>1. PICK map \in Maps : hit_objects = map.hit_objects /\ total_columns = TargetColumns(map)
  BY DEF Init
<1>2. total_columns \in 1 .. 10
  BY <1>1, TargetColumnsAre
<1>3. \A o \in hit_objects : o # None /\ IsObject(o)
  BY <1>1, MapsAssumption DEF IsObject
<1>4. IsSummary(last_pattern, total_columns)
  <2>1. PICK summary : summary = Summary(EmptyPattern, 1)
    OBVIOUS
  <2>2. summary.columns = {} /\ summary.objects = 0
    BY <2>1, EmptyIsPattern DEF Summary, MinOf
  <2>3. IsFiniteSet({}) /\ Cardinality({}) = 0
    BY FS_EmptySet
  <2>4. Roomy({}, total_columns)
    BY <1>2, <2>3, FewAreRoomy
  <2>5. summary = last_pattern
    BY <2>1 DEF Init
  <2> QED
    BY <2>2, <2>4, <2>5 DEF IsSummary
<1>5. NoOverlap
  BY DEF Init, NoOverlap
<1> QED
  BY <1>2, <1>3, <1>4, <1>5 DEF Init, IInv

\* What a circle leaves
LEMMA CircleStep ==
    ASSUME IInv, Is("circle"), NEW p \in HitObjectPatterns(CircleGen)
    PROVE  /\ IsCircleGen(CircleGen)
           /\ IF total_columns = 1 THEN IsNotes(p, 1, 0) ELSE IsCircle(p, CircleGen)
           /\ IsNotes(p, total_columns, 0) /\ Roomy(p.columns, total_columns)
<1>1. PICK gen : gen = CircleGen
  OBVIOUS
<1>2. /\ gen.total = total_columns /\ gen.obj = obj /\ gen.prev = last_pattern
      /\ gen.type = ConvertType(obj, stair, total_columns)
  BY <1>1 DEF CircleGen
<1>3. IsObject(obj) /\ obj.x \in Int /\ obj.time_separation \in Int
  BY DEF IInv, Is, IsObject
<1>4. IsType(gen.type, obj.time_separation, total_columns)
  BY <1>2, <1>3, ConvertTypeIs DEF IInv
<1>5. IsCircleGen(gen)
  BY <1>2, <1>3, <1>4 DEF IsCircleGen, IsGen, IInv
<1>6. IF gen.total = 1 THEN IsNotes(p, 1, 0) ELSE IsCircle(p, gen)
  BY <1>1, <1>5, HitObjectPatternIsCircle
<1>7. IsNotes(p, total_columns, 0) /\ Roomy(p.columns, total_columns)
  BY <1>2, <1>6 DEF IsCircle, Roomy
<1> QED
  BY <1>1, <1>2, <1>5, <1>6, <1>7

\* What a slider leaves
LEMMA SliderStep ==
    ASSUME IInv, Is("slider"), NEW p \in PathObjectPatterns(SliderGen),
           NEW next, next = NextPattern(SliderGen, p)
    PROVE  /\ IsNotes(p, total_columns, obj.duration) /\ p.hit_objects # <<>>
           /\ KnowsColumns(next, total_columns) /\ Roomy(next.columns, total_columns)
           /\ EndColumns(p, total_columns, obj.duration) # {} =>
                  next.columns = EndColumns(p, total_columns, obj.duration)
<1>1. PICK gen : gen = SliderGen
  OBVIOUS
<1>2. /\ gen.total = total_columns /\ gen.obj = obj /\ gen.prev = last_pattern
      /\ gen = [obj |-> gen.obj, total |-> gen.total, prev |-> gen.prev, diff |-> gen.diff,
                type |-> gen.type]
  BY <1>1 DEF SliderGen
<1>3. obj.x \in Int /\ obj.span_count \in Nat \ {0} /\ obj.duration \in Nat
  BY DEF IInv, Is, IsObject
<1>4. IsSliderGen(gen)
  <2>1. IsGen(gen)
    BY <1>2, <1>3 DEF IsGen, IInv
  <2>2. gen.obj.span_count \in Nat \ {0} /\ gen.obj.duration \in Nat
    BY <1>2, <1>3
  <2> QED
    BY <1>2, <2>1, <2>2 DEF IsSliderGen
<1>5. IsSlider(p, gen)
  BY <1>1, <1>4, PathObjectPatternIsSlider
<1>6. /\ KnowsColumns(next, gen.total) /\ Roomy(next.columns, gen.total)
      /\ EndColumns(p, gen.total, gen.obj.duration) # {} =>
             next.columns = EndColumns(p, gen.total, gen.obj.duration)
  BY <1>1, <1>4, <1>5, NextPatternIs
<1> QED
  BY <1>2, <1>5, <1>6 DEF IsSlider

\* What a spinner leaves
LEMMA SpinnerStep ==
    ASSUME IInv, Is("spinner"),
           NEW p \in EndTimePatterns([obj |-> obj, total |-> total_columns,
                                      prev |-> last_pattern])
    PROVE  IsNotes(p, total_columns, obj.duration) /\ p.hit_objects # <<>>
<1>1. PICK gen : gen = [obj |-> obj, total |-> total_columns, prev |-> last_pattern]
  OBVIOUS
<1>2. gen.total = total_columns /\ gen.obj = obj /\ gen.prev = last_pattern
  BY <1>1
<1>3. IsSpinnerGen(gen)
  BY <1>2 DEF IsSpinnerGen, IInv, Is, IsObject
<1> QED
  BY <1>1, <1>2, <1>3, EndTimePatternIs

\* The notes of a pattern are taken over.
LEMMA MadeIs ==
    ASSUME IInv, NEW p, NEW end, IsNotes(p, total_columns, end), Made(p)
    PROVE  /\ total_columns' = total_columns /\ hit_objects' = hit_objects /\ obj' = None
           /\ new_hit_objects' = p.hit_objects /\ ~panicked' /\ NoOverlap'
           /\ \A i \in DOMAIN new_hit_objects' :
                  Column(new_hit_objects'[i]) = ColumnAt(p, total_columns, i)
<1>1. /\ total_columns' = total_columns /\ hit_objects' = hit_objects /\ obj' = None
      /\ new_hit_objects' = p.hit_objects /\ panicked' = ~p.ok
  BY DEF Made
<1>2. p.ok /\ Apart(p, total_columns)
  BY DEF IsNotes, IsPattern
<1>3. \A i \in DOMAIN p.hit_objects :
          ColumnOf(p.hit_objects[i].x, total_columns) = ColumnAt(p, total_columns, i)
  BY DEF ColumnAt
<1>4. NoOverlap'
  BY <1>1, <1>2, <1>3 DEF NoOverlap, Apart, Column
<1> QED
  BY <1>1, <1>2, <1>3, <1>4 DEF Column

LEMMA NextIInv == IInv /\ [Next]_vars => IInv'
<1> SUFFICES ASSUME IInv, [Next]_vars PROVE IInv'
  OBVIOUS
<1>1. CASE UNCHANGED vars
  BY <1>1 DEF vars, IInv, NoOverlap, Column
<1>2. CASE NextObject
  <2>1. /\ UNCHANGED <<hit_objects, total_columns, last_pattern, stair, panicked>>
        /\ obj' \in hit_objects /\ new_hit_objects' = <<>>
    BY <1>2 DEF NextObject
  <2>2. NoOverlap'
    BY <2>1 DEF NoOverlap
  <2> QED
    BY <2>1, <2>2 DEF IInv
<1>3. CASE ConvertCircle
  <2>1. PICK p \in HitObjectPatterns(CircleGen) :
          /\ Made(p)
          /\ last_pattern' = Summary(p, total_columns)
          /\ stair' = NextStair(CircleGen, p)
    BY <1>3 DEF ConvertCircle
  <2>2. IsNotes(p, total_columns, 0) /\ Roomy(p.columns, total_columns)
    BY <1>3, <2>1, CircleStep DEF ConvertCircle
  <2>3. IsSummary(last_pattern', total_columns)
    <3>1. KnowsColumns(p, total_columns)
      BY <2>2 DEF IsNotes, IsPattern, PatternType, KnowsColumns
    <3>2. total_columns \in 1 .. 10
      BY DEF IInv
    <3> QED
      BY <2>1, <2>2, <3>1, <3>2, SummaryIs
  <2>4. stair' \in {"STAIR", "REVERSE_STAIR"}
    <3>1. PICK gen : gen = CircleGen
      OBVIOUS
    <3>2. gen.stair \in {"STAIR", "REVERSE_STAIR"}
      BY <3>1 DEF CircleGen, IInv
    <3> QED
      BY <2>1, <3>1, <3>2, NextStairIs
  <2>5. /\ total_columns' = total_columns /\ hit_objects' = hit_objects /\ obj' = None
        /\ ~panicked' /\ NoOverlap'
    BY <2>1, <2>2, MadeIs
  <2> QED
    BY <2>3, <2>4, <2>5 DEF IInv
<1>4. CASE ConvertSlider
  <2>1. PICK p \in PathObjectPatterns(SliderGen) :
          /\ Made(p)
          /\ last_pattern' = Summary(NextPattern(SliderGen, p), total_columns)
    BY <1>4 DEF ConvertSlider
  <2>2. PICK next : next = NextPattern(SliderGen, p)
    OBVIOUS
  <2>3. /\ IsNotes(p, total_columns, obj.duration)
        /\ KnowsColumns(next, total_columns) /\ Roomy(next.columns, total_columns)
    BY <1>4, <2>1, <2>2, SliderStep DEF ConvertSlider
  <2>4. IsSummary(last_pattern', total_columns)
    BY <2>1, <2>2, <2>3, SummaryIs DEF IInv
  <2>5. /\ total_columns' = total_columns /\ hit_objects' = hit_objects /\ obj' = None
        /\ ~panicked' /\ NoOverlap'
    BY <2>1, <2>3, MadeIs
  <2>6. stair' = stair
    BY <1>4 DEF ConvertSlider
  <2> QED
    BY <2>4, <2>5, <2>6 DEF IInv
<1>5. CASE ConvertSpinner
  <2>1. PICK p \in EndTimePatterns([obj |-> obj, total |-> total_columns,
                                    prev |-> last_pattern]) : Made(p)
    BY <1>5 DEF ConvertSpinner
  <2>2. IsNotes(p, total_columns, obj.duration)
    BY <1>5, <2>1, SpinnerStep DEF ConvertSpinner
  <2>3. /\ total_columns' = total_columns /\ hit_objects' = hit_objects /\ obj' = None
        /\ ~panicked' /\ NoOverlap'
    BY <2>1, <2>2, MadeIs
  <2>4. stair' = stair /\ last_pattern' = last_pattern
    BY <1>5 DEF ConvertSpinner
  <2> QED
    BY <2>3, <2>4 DEF IInv
<1> QED
  BY <1>1, <1>2, <1>3, <1>4, <1>5 DEF Next

\* The invariant holds of every conversion: after each object, whatever it was and
\* whatever the random numbers were, the pattern it left suits any next object.
THEOREM IInvHolds == Spec => []IInv
BY InitIInv, NextIInv, PTL DEF Spec

\* For every map, the columns that the next object is told of are columns of the
\* stage and never the special column alone (Pattern, ContainedColumns).
THEOREM TypeCorrect == Spec => []TypeOK
<1>1. IInv => TypeOK
  BY StageColumns DEF IInv, TypeOK, IsSummary, Roomy
<1> QED
  BY <1>1, IInvHolds, PTL

\* For every map and all random numbers, no generator looks for a column in vain
\* (find_available_column).
THEOREM HasValidColumnHolds == Spec => []HasValidColumn
<1>1. IInv => HasValidColumn
  BY DEF IInv, HasValidColumn
<1> QED
  BY <1>1, IInvHolds, PTL

\* For every map, no two notes of an object are in one column at one time.
THEOREM NoOverlapHolds == Spec => []NoOverlap
<1>1. IInv => NoOverlap
  BY DEF IInv
<1> QED
  BY <1>1, IInvHolds, PTL

\* For every map, a circle that follows fast has no note in a column of the
\* pattern before it, and loses its notes only if that pattern left no column
\* (FORCE_NOT_STACK, generate_random_notes).
THEOREM NotStackedHolds == Spec => NotStacked
<1> DEFINE
    columns == {Column(new_hit_objects'[i]) : i \in DOMAIN new_hit_objects'}
    special == IF total_columns = 8 THEN {0} ELSE {}
    A == (Is("circle") /\ total_columns > 1 /\ obj.time_separation <= 125 /\ ~panicked') =>
             /\ columns \cap last_pattern.columns \subseteq special
             /\ columns = {} => Usual(total_columns) \subseteq last_pattern.columns
<1>1. ASSUME IInv, Next
      PROVE  A
  <2> SUFFICES ASSUME Is("circle"), total_columns > 1, obj.time_separation <= 125
               PROVE  /\ columns \cap last_pattern.columns \subseteq special
                      /\ columns = {} => Usual(total_columns) \subseteq last_pattern.columns
    OBVIOUS
  <2>1. ConvertCircle
    BY <1>1 DEF Next, NextObject, ConvertSlider, ConvertSpinner, Is
  <2>2. PICK p \in HitObjectPatterns(CircleGen) : Made(p)
    BY <2>1 DEF ConvertCircle
  <2>3. PICK gen : gen = CircleGen
    OBVIOUS
  <2>4. /\ gen.total = total_columns /\ gen.obj = obj /\ gen.prev = last_pattern
    BY <2>3 DEF CircleGen
  <2>5. /\ IsCircleGen(gen)
        /\ IF total_columns = 1 THEN IsNotes(p, 1, 0) ELSE IsCircle(p, gen)
        /\ IsNotes(p, total_columns, 0)
    BY <1>1, <2>2, <2>3, CircleStep
  <2>6. total_columns # 1
    BY DEF IInv
  <2>7. Beside(p.columns, gen)
    BY <2>4, <2>5, <2>6 DEF IsCircle, IsCircleGen, IsType, AllowStacking
  <2>8. columns = p.columns
    <3>1. /\ new_hit_objects' = p.hit_objects
          /\ \A i \in DOMAIN new_hit_objects' :
                 Column(new_hit_objects'[i]) = ColumnAt(p, total_columns, i)
      BY <1>1, <2>2, <2>5, MadeIs
    <3>2. columns = {ColumnAt(p, total_columns, i) : i \in DOMAIN p.hit_objects}
      BY <3>1
    <3> QED
      BY <2>5, <3>2 DEF IsNotes, IsPattern
  <2> HIDE DEF columns
  <2> QED
    BY <2>4, <2>7, <2>8 DEF Beside
<1>2. IInv /\ [Next]_vars => [A]_vars
  <2> HIDE DEF A
  <2> QED
    BY <1>1
<1>3. [][A]_vars <=> NotStacked
  BY DEF NotStacked
<1> HIDE DEF A
<1>4. Spec => [][A]_vars
  BY <1>2, IInvHolds, PTL DEF Spec
<1> QED
  BY <1>3, <1>4

\* For every map, the notes of an object lie between its begin and its end, the
\* first begins with it unless a circle lost its notes, and those that end with a
\* slider are what the next object sees (PathObjectPatternGenerator::generate).
THEOREM KeepsToObjectHolds == Spec => KeepsToObject
<1> DEFINE
    end == IF Is("circle") THEN 0 ELSE obj.duration
    at_end == {i \in DOMAIN new_hit_objects' : new_hit_objects'[i].end_time = end}
    A == (obj # None /\ ~panicked') =>
             /\ \A i \in DOMAIN new_hit_objects' :
                    new_hit_objects'[i].start_time >= 0 /\ new_hit_objects'[i].end_time <= end
             /\ ~Is("circle") => \E i \in DOMAIN new_hit_objects' :
                                          new_hit_objects'[i].start_time = 0
             /\ Is("slider") /\ at_end # {} =>
                    last_pattern'.columns = {Column(new_hit_objects'[i]) : i \in at_end}
<1>1. ASSUME NEW p, NEW last, IsNotes(p, total_columns, last), p.hit_objects # <<>>
      PROVE  \E i \in DOMAIN p.hit_objects : p.hit_objects[i].start_time = 0
  <2>1. PICK s \in Seq(NoteType) : s = p.hit_objects
    BY <1>1 DEF IsNotes, IsPattern, PatternType
  <2>2. 1 \in DOMAIN s
    BY <1>1, <2>1
  <2> QED
    BY <1>1, <2>1, <2>2 DEF IsNotes
<1>2. ASSUME IInv, ConvertCircle
      PROVE  A
  <2>1. Is("circle") /\ ~Is("slider")
    BY <1>2 DEF ConvertCircle, Is
  <2>2. PICK p \in HitObjectPatterns(CircleGen) : Made(p)
    BY <1>2 DEF ConvertCircle
  <2>3. IsNotes(p, total_columns, 0) /\ new_hit_objects' = p.hit_objects
    BY <1>2, <2>1, <2>2, CircleStep, MadeIs
  <2> QED
    BY <2>1, <2>3 DEF IsNotes
<1>3. ASSUME IInv, ConvertSlider
      PROVE  A
  <2>1. Is("slider") /\ ~Is("circle")
    BY <1>3 DEF ConvertSlider, Is
  <2>2. PICK p \in PathObjectPatterns(SliderGen) :
          Made(p) /\ last_pattern' = Summary(NextPattern(SliderGen, p), total_columns)
    BY <1>3 DEF ConvertSlider
  <2>3. PICK next : next = NextPattern(SliderGen, p)
    OBVIOUS
  <2>4. /\ IsNotes(p, total_columns, obj.duration) /\ p.hit_objects # <<>>
        /\ EndColumns(p, total_columns, obj.duration) # {} =>
               next.columns = EndColumns(p, total_columns, obj.duration)
    BY <1>3, <2>1, <2>2, <2>3, SliderStep
  <2>5. /\ new_hit_objects' = p.hit_objects
        /\ \A i \in DOMAIN new_hit_objects' :
               Column(new_hit_objects'[i]) = ColumnAt(p, total_columns, i)
    BY <1>3, <2>2, <2>4, MadeIs
  <2>6. end = obj.duration
    BY <2>1
  <2>7. {Column(new_hit_objects'[i]) : i \in at_end}
          = EndColumns(p, total_columns, obj.duration)
    BY <2>5, <2>6 DEF EndColumns
  <2>8. last_pattern'.columns = next.columns
    BY <2>2, <2>3 DEF Summary
  <2>9. at_end # {} => {Column(new_hit_objects'[i]) : i \in at_end} # {}
    OBVIOUS
  <2>10. \E i \in DOMAIN new_hit_objects' : new_hit_objects'[i].start_time = 0
    BY <1>1, <2>4, <2>5
  <2>11. \A i \in DOMAIN new_hit_objects' :
             new_hit_objects'[i].start_time >= 0 /\ new_hit_objects'[i].end_time <= end
    BY <2>4, <2>5, <2>6 DEF IsNotes
  <2> HIDE DEF at_end, end
  <2> QED
    BY <2>4, <2>7, <2>8, <2>9, <2>10, <2>11
<1>4. ASSUME IInv, ConvertSpinner
      PROVE  A
  <2>1. Is("spinner") /\ ~Is("circle") /\ ~Is("slider")
    BY <1>4 DEF ConvertSpinner, Is
  <2>2. PICK p \in EndTimePatterns([obj |-> obj, total |-> total_columns,
                                    prev |-> last_pattern]) : Made(p)
    BY <1>4 DEF ConvertSpinner
  <2>3. IsNotes(p, total_columns, obj.duration) /\ p.hit_objects # <<>>
    BY <1>4, <2>1, <2>2, SpinnerStep
  <2>4. new_hit_objects' = p.hit_objects
    BY <1>4, <2>2, <2>3, MadeIs
  <2>5. end = obj.duration
    BY <2>1
  <2>6. \E i \in DOMAIN new_hit_objects' : new_hit_objects'[i].start_time = 0
    BY <1>1, <2>3, <2>4
  <2> HIDE DEF at_end, end
  <2> QED
    BY <2>1, <2>3, <2>4, <2>5, <2>6 DEF IsNotes
<1>5. ASSUME NextObject
      PROVE  A
  BY <1>5 DEF NextObject
<1>6. IInv /\ [Next]_vars => [A]_vars
  <2> HIDE DEF A
  <2> QED
    BY <1>2, <1>3, <1>4, <1>5 DEF Next
<1>7. [][A]_vars <=> KeepsToObject
  BY DEF KeepsToObject
<1> HIDE DEF A
<1>8. Spec => [][A]_vars
  BY <1>6, IInvHolds, PTL DEF Spec
<1> QED
  BY <1>7, <1>8
=============================================================================
