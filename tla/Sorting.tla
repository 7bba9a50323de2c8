------------------------------- MODULE Sorting -------------------------------
(***************************************************************************)
(* The sorts of util/sort on sequences of records with a start_time.       *)
(* Indices begin with 0 in the code and with 1 here.                       *)
(***************************************************************************)
EXTENDS RustStd, FiniteSets, SequencesExt

CONSTANTS
    QuickSortDepth,     \* QUICK_SORT_DEPTH_THRESHOLD, 32 in the code
    IntroSortSize       \* INTRO_SORT_SIZE_THRESHOLD, 16 in the code

Less(a, b) == a.start_time < b.start_time

Swap(keys, i, j) == [keys EXCEPT ![i] = keys[j], ![j] = keys[i]]
SwapIfGreater(keys, a, b) == IF Less(keys[b], keys[a]) THEN Swap(keys, a, b) ELSE keys

------------------------------------------------------------------------------
(* heap_sort of keys[lo] .. keys[hi] *)

RECURSIVE DownHeap(_, _, _, _)
DownHeap(keys, i, n, lo) ==
    IF i > n \div 2 THEN keys
    ELSE LET At(k) == keys[lo + k - 1]
             child == IF 2 * i < n /\ Less(At(2 * i), At(2 * i + 1))
                      THEN 2 * i + 1 ELSE 2 * i
         IN  IF ~Less(At(i), At(child)) THEN keys
             ELSE DownHeap(Swap(keys, lo + i - 1, lo + child - 1), child, n, lo)

Countdown(from, to) == Reverse([k \in 1 .. from - to + 1 |-> to + k - 1])

HeapSort(keys, lo, hi) ==
    LET n    == hi - lo + 1
        heap == FoldLeft(LAMBDA ks, i : DownHeap(ks, i, n, lo), keys, Countdown(n \div 2, 1))
        Take(ks, i) == DownHeap(Swap(ks, lo, lo + i - 1), 1, i - 1, lo)
    IN  FoldLeft(Take, heap, Countdown(n, 2))

------------------------------------------------------------------------------
(* osu_legacy: a quicksort whose pivot is whatever is at mid at the moment *)

RECURSIVE Rightwards(_, _, _)
Rightwards(keys, i, mid) ==
    IF Less(keys[i], keys[mid]) THEN Rightwards(keys, i + 1, mid) ELSE i

RECURSIVE Leftwards(_, _, _)
Leftwards(keys, j, mid) ==
    IF Less(keys[mid], keys[j]) THEN Leftwards(keys, j - 1, mid) ELSE j

\* The inner loop: both ends move towards each other until they cross.
RECURSIVE Crossed(_, _, _, _)
Crossed(keys, i0, j0, mid) ==
    LET i  == Rightwards(keys, i0, mid)
        j  == Leftwards(keys, j0, mid)
        ks == IF i < j THEN Swap(keys, i, j) ELSE keys
    IN  IF i > j THEN [keys |-> keys, i |-> i, j |-> j]
        ELSE IF i + 1 > MaxOf(j - 1, 1)
        THEN [keys |-> ks, i |-> i + 1, j |-> MaxOf(j - 1, 1)]
        ELSE Crossed(ks, i + 1, MaxOf(j - 1, 1), mid)

\* Recursion into the smaller half; right - i wraps around where i passed right.
RECURSIVE QuickSort(_, _, _, _)
QuickSort(keys, left, right, depth) ==
    IF left >= right THEN keys
    ELSE IF depth = 0 THEN HeapSort(keys, left, right)
    ELSE LET mid == left + (right - left) \div 2
             ks  == SwapIfGreater(SwapIfGreater(SwapIfGreater(keys, left, mid), left, right),
                                  mid, right)
             c   == Crossed(ks, left, right, mid)
         IN  IF c.i > right \/ SatSub(c.j, left) <= right - c.i
             THEN QuickSort(QuickSort(c.keys, left, c.j, depth - 1), c.i, right, depth - 1)
             ELSE QuickSort(QuickSort(c.keys, c.i, right, depth - 1), left, c.j, depth - 1)

OsuLegacy(keys) == QuickSort(keys, 1, Len(keys), QuickSortDepth)

------------------------------------------------------------------------------
(* csharp: the introsort of List<T>.Sort *)

\* Each key is rotated to its place behind those that are not greater.
InsertionSort(keys, lo, hi) ==
    LET Insert(ks, i) ==
            LET t     == ks[i + 1]
                stays == {k \in lo .. i : ~Less(t, ks[k])}
                at    == IF stays = {} THEN lo ELSE 1 + (CHOOSE k \in stays : \A l \in stays : l <= k)
            IN  [k \in DOMAIN ks |->
                    IF k = at THEN t ELSE IF k \in at + 1 .. i + 1 THEN ks[k - 1] ELSE ks[k]]
    IN  FoldLeft(Insert, keys, [k \in 1 .. hi - lo |-> lo + k - 1])

\* The loop of pick_pivot_and_partition
RECURSIVE Partitioned(_, _, _, _)
Partitioned(keys, left, right, pivot) ==
    LET l == CHOOSE k \in left + 1 .. Len(keys) :
                ~Less(keys[k], keys[pivot]) /\ \A m \in left + 1 .. k - 1 : Less(keys[m], keys[pivot])
        r == CHOOSE k \in 1 .. right - 1 :
                ~Less(keys[pivot], keys[k]) /\ \A m \in k + 1 .. right - 1 : Less(keys[pivot], keys[m])
    IN  IF left >= right THEN [keys |-> keys, at |-> left]
        ELSE IF l >= r THEN [keys |-> keys, at |-> l]
        ELSE Partitioned(Swap(keys, l, r), l, r, pivot)

RECURSIVE IntroSort(_, _, _, _)
IntroSort(keys, lo, hi, depth) ==
    LET size == hi - lo + 1
    IN  IF size <= 1 THEN keys
        ELSE IF size <= IntroSortSize THEN
            CASE size = 2 -> SwapIfGreater(keys, lo, hi)
              [] size = 3 -> SwapIfGreater(SwapIfGreater(SwapIfGreater(keys, lo, hi - 1), lo, hi),
                                           hi - 1, hi)
              [] OTHER -> InsertionSort(keys, lo, hi)
        ELSE IF depth = 0 THEN HeapSort(keys, lo, hi)
        ELSE LET mid == lo + (hi - lo) \div 2
                 ks  == SwapIfGreater(SwapIfGreater(SwapIfGreater(keys, lo, mid), lo, hi), mid, hi)
                 p   == Partitioned(Swap(ks, mid, hi - 1), lo, hi - 1, hi - 1)
                 qs  == Swap(p.keys, p.at, hi - 1)
             IN  IntroSort(IntroSort(qs, p.at + 1, hi, depth - 1), lo, p.at - 1, depth - 1)

ILog2(n) == CHOOSE k \in 0 .. n : 2 ^ k <= n /\ n < 2 ^ (k + 1)
CSharp(keys) ==
    IF Len(keys) < 2 THEN keys ELSE IntroSort(keys, 1, Len(keys), 2 * ILog2(Len(keys)))

------------------------------------------------------------------------------
(* TandemSorter: the stable order of one list, applied to several *)

Marked == 1000      \* the first bit of an index
ToggleMark(idx) == IF idx >= Marked THEN idx - Marked ELSE idx + Marked

\* new_stable: where each place takes its element from
NewStable(keys) ==
    LET Place(i) == Cardinality({j \in DOMAIN keys :
                        Less(keys[j], keys[i]) \/ (j <= i /\ ~Less(keys[i], keys[j]))})
    IN  [indices |-> [k \in DOMAIN keys |-> CHOOSE i \in DOMAIN keys : Place(i) = k],
         should_reset |-> FALSE]

\* The loop along one cycle of the permutation, which marks what it passed
RECURSIVE Cycle(_, _, _, _)
Cycle(s, i, j, j_idx) ==
    LET marked == [s EXCEPT !.indices[j] = ToggleMark(j_idx)]
    IN  IF j_idx = i THEN marked
        ELSE Cycle([marked EXCEPT !.slice = Swap(@, j, j_idx)], i, j_idx, marked.indices[j_idx])

\* A sorter that still has the marks of the slice it sorted before
Indices_NoReset(sorter) == sorter.indices

\* toggle_marks, if a slice was sorted before
Indices(sorter) ==
    IF sorter.should_reset
    THEN [k \in DOMAIN sorter.indices |-> ToggleMark(sorter.indices[k])]
    ELSE sorter.indices

\* sort: the slice in order, and the sorter for the next one
TandemSort(sorter, slice) ==
    LET Place(s, i) == IF s.indices[i] >= Marked THEN s ELSE Cycle(s, i, i, s.indices[i])
        done == FoldLeft(Place, [indices |-> Indices(sorter), slice |-> slice],
                         [k \in DOMAIN slice |-> k])
    IN  [slice |-> done.slice, sorter |-> [indices |-> done.indices, should_reset |-> TRUE]]
=============================================================================
