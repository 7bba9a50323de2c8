----------------------------- MODULE ManiaPattern -----------------------------
(***************************************************************************)
(* What the three pattern generators of the osu!mania conversion share:    *)
(* patterns of notes, columns, and what the random numbers may give.       *)
(* Probabilities are numbers of percent.                                   *)
(***************************************************************************)
EXTENDS RustStd, FiniteSets, SequencesExt

CeilDiv(n, d) == (n + d - 1) \div d
Within(v, lo, hi) == MinOf(MaxOf(v, lo), hi)

\* column_to_pos, and ManiaObject::column which finds the column again
ColumnToPos(column, total) == CeilDiv(512 * column, total)
ColumnOf(x, total) == Within((x * total) \div 512, 0, total - 1)

\* With eight columns the first one is special.
RandomStart(total) == IF total = 8 THEN 1 ELSE 0
Columns(total) == 0 .. total - 1
Usual(total) == RandomStart(total) .. total - 1

\* get_column, with the special column
GetColumn(x, total) ==
    IF total = 8 THEN Within((x * 7) \div 512, 0, 6) + 1 ELSE ColumnOf(x, total)

\* Pattern; ok is FALSE where the assertion of find_available_column failed.
EmptyPattern == [hit_objects |-> <<>>, columns |-> {}, ok |-> TRUE]
FailedPattern == [EmptyPattern EXCEPT !.ok = FALSE]

\* add_note, add_slider_note: a note that ends where it begins is a circle.
AddNote(pattern, column, total, start_time, end_time) ==
    [pattern EXCEPT
        !.hit_objects = Append(@, [x |-> ColumnToPos(column, total),
                                   start_time |-> start_time, end_time |-> end_time]),
        !.columns = @ \cup {column}]

\* What the next object asks of a pattern
Summary(pattern, total) ==
    [columns |-> pattern.columns,
     objects |-> MinOf(Len(pattern.hit_objects), 2),
     last_column |-> IF pattern.hit_objects = <<>> THEN 0
                     ELSE ColumnOf(Last(pattern.hit_objects).x, total)]

\* find_available_column: the initial column if it is valid, or else any valid
\* one from lower up to below upper.  Without one the assertion fails.
FindAvailable(initial, valid, lower, upper) ==
    IF initial \in valid THEN {initial} ELSE valid \cap (lower .. upper - 1)

\* get_random_note_count: each probability counts from the upper end of the
\* random number, the greatest count is tried first.
RandomNoteCounts(p2, p3, p4, p5) ==
    LET p == <<100, p2, p3, p4, p5>>
    IN  {k \in 1 .. 5 : p[k] > 0 /\ \A j \in k + 1 .. 5 : p[j] < p[k]}

\* conversion_difficulty, in thousandths
ConversionDifficulty(map) ==
    LET drain_time == IF map.drain_time = 0 THEN 10000 ELSE map.drain_time
        base == ((map.hp + Within(map.ar, 4, 7)) * 2000) \div 3
        rate == (map.n_objects * 9000) \div drain_time
    IN  MinOf(((base + rate) * 500) \div 4370, 12000)

\* target_columns
TargetColumns(map) ==
    LET long == map.n_sliders + map.n_spinners
    IN  IF map.keys # 0 THEN map.keys
        ELSE IF map.n_objects > 0 /\ 5 * long < map.n_objects THEN 7
        ELSE IF map.n_objects > 0 /\ (10 * long < 3 * map.n_objects \/ map.cs >= 5)
        THEN (IF map.od > 5 THEN 7 ELSE 6)
        ELSE IF map.n_objects > 0 /\ 5 * long > 3 * map.n_objects
        THEN (IF map.od > 4 THEN 5 ELSE 4)
        ELSE Within(map.od + 1, 4, 7)

\* The bits of a HitSoundType
HasAny(sample, flags) == sample \cap flags # {}
=============================================================================
