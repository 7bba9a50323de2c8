------------------------------ MODULE NoteDensity ------------------------------
(***************************************************************************)
(* compute_density of the osu!mania conversion and LimitedQueue<T, N>, of  *)
(* which it is the only user: the density of the last N notes.             *)
(*                                                                         *)
(* A queue holds the last N elements that were pushed in a circular array. *)
(* It is a record of the struct's three fields; while it is empty, end     *)
(* stands at the last index, so that the first push wraps.                 *)
(*                                                                         *)
(* The time of a note may be lower than the one before it, because a       *)
(* slider or a spinner may end after the next object began.  The quotient  *)
(* (last - first) / len is kept as its three numbers.                      *)
(***************************************************************************)
EXTENDS Integers, Sequences

CONSTANTS
    N,          \* the capacity of the queue
    Elem,       \* the times of notes
    Default     \* T::default(), which fills the array at first

ASSUME CapacityAssumption == N \in Nat \ {0}
ASSUME DefaultAssumption == Default \in Elem

VARIABLES
    prev_note_times,    \* the queue
    density             \* <<>> before the first quotient, f64::from(i32::MAX)

vars == <<prev_note_times, density>>

------------------------------------------------------------------------------
(* LimitedQueue *)

Queue == [queue : [0 .. N - 1 -> Elem], end : 0 .. N - 1, len : 0 .. N]

New == [queue |-> [i \in 0 .. N - 1 |-> Default], end |-> N - 1, len |-> 0]

\* A push that forgets to wrap around.
Push_NoWrap(q, x) ==
    [queue |-> [q.queue EXCEPT ![q.end + 1] = x],
     end   |-> q.end + 1,
     len   |-> IF q.len < N THEN q.len + 1 ELSE q.len]

Push(q, x) ==
    LET end == (q.end + 1) % N
    IN  [queue |-> [q.queue EXCEPT ![end] = x],
         end   |-> end,
         len   |-> IF q.len < N THEN q.len + 1 ELSE q.len]

IsFull(q) == q.len = N

\* The slice queue[from .. to] of Rust, without its upper bound
Slice(q, from, to) == [i \in 1 .. to - from |-> q.queue[from + i - 1]]

\* The two slices in the order in which they lie in the array.
AsSlices_Swapped(q) ==
    IF IsFull(q) THEN <<Slice(q, 0, q.end + 1), Slice(q, q.end + 1, N)>>
                 ELSE << <<>>, Slice(q, 0, q.len)>>

\* as_slices: the older elements, then the newer ones
AsSlices(q) ==
    IF IsFull(q) THEN <<Slice(q, q.end + 1, N), Slice(q, 0, q.end + 1)>>
                 ELSE << <<>>, Slice(q, 0, q.len)>>

\* An index that starts at the newest element of a full queue.
At_FromEnd(q, idx) == q.queue[(idx + (IF IsFull(q) THEN q.end ELSE 0)) % N]

\* Index::index
At(q, idx) == q.queue[(idx + (IF IsFull(q) THEN q.end + 1 ELSE 0)) % N]

\* What a reader of both slices sees, from the oldest to the newest element.
Elements(q) == AsSlices(q)[1] \o AsSlices(q)[2]

------------------------------------------------------------------------------
(* compute_density *)

Init ==
    /\ prev_note_times = New
    /\ density = <<>>

\* A match that misses the elements that are all in the second slice.
DensityOf_TwoSlices(q, before) ==
    LET older == AsSlices(q)[1]
        newer == AsSlices(q)[2]
    IN  IF older # <<>> /\ newer # <<>>
        THEN <<older[1], newer[Len(newer)], q.len>>
        ELSE before

\* The patterns of the if let: both slices have an element, or one of them is
\* empty and the other has two.
DensityOf(q, before) ==
    LET older == AsSlices(q)[1]
        newer == AsSlices(q)[2]
    IN  CASE older # <<>> /\ newer # <<>> -> <<older[1], newer[Len(newer)], q.len>>
          [] older = <<>> /\ Len(newer) >= 2 -> <<newer[1], newer[Len(newer)], q.len>>
          [] newer = <<>> /\ Len(older) >= 2 -> <<older[1], older[Len(older)], q.len>>
          [] OTHER -> before

ComputeDensity(t) ==
    /\ prev_note_times' = Push(prev_note_times, t)
    /\ density' = DensityOf(prev_note_times', density)

Next == \E t \in Elem : ComputeDensity(t)

Spec == Init /\ [][Next]_vars

------------------------------------------------------------------------------
(* Properties *)

\* The fields have their types: end is always an index of the array, and the
\* density was taken from two times and the number of times held.
TypeOK ==
    /\ prev_note_times \in Queue
    /\ density = <<>> \/ density \in Elem \X Elem \X (2 .. N)

\* The index and the two slices, which find an element by different
\* arithmetic, agree on every position of the queue.
IndexAgrees ==
    /\ Len(Elements(prev_note_times)) = prev_note_times.len
    /\ \A i \in 0 .. prev_note_times.len - 1 :
            At(prev_note_times, i) = Elements(prev_note_times)[i + 1]

\* What the slices show is the last N times, and the density is taken over
\* exactly these, whether or not the array has wrapped around.
Promise == INSTANCE LastElements WITH
                items <- Elements(prev_note_times)

IsLastElements == Promise!Spec
=============================================================================
