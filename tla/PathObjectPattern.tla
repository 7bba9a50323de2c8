-------------------------- MODULE PathObjectPattern --------------------------
(***************************************************************************)
(* PathObjectPatternGenerator: the notes for a slider.  gen is a record    *)
(*   [obj, total, prev, diff, type]                                        *)
(* and times are relative to the begin of the slider.  An operator gives   *)
(* the set of the patterns that the random numbers allow.                  *)
(***************************************************************************)
EXTENDS ManiaPattern

\* A segment that is rounded up
SegmentDuration_Up(obj) == CeilDiv(obj.duration, obj.span_count)

\* new: the duration is rounded down to a multiple of the spans.
SegmentDuration(obj) == obj.duration \div obj.span_count

TimeOf(gen, row) == row * SegmentDuration(gen.obj)

\* Partial patterns with the column that was found last
Start(columns) == {[pattern |-> EmptyPattern, next |-> c] : c \in columns}
Patterns(ss) == {s.pattern : s \in ss}

\* find_available_column among the valid columns, and what is done with it
Placed(gen, s, valid, start_time, end_time) ==
    LET found == FindAvailable(s.next, valid, RandomStart(gen.total), gen.total)
    IN  IF ~s.pattern.ok THEN {s}
        ELSE IF found = {} THEN {[s EXCEPT !.pattern = FailedPattern]}
        ELSE {[pattern |-> AddNote(s.pattern, c, gen.total, start_time, end_time), next |-> c] :
                 c \in found}

\* The column of the slider, or another one beside those of the last pattern
\* where notes must not be stacked and there is a free one.
FirstColumns(gen) ==
    LET column == GetColumn(gen.obj.x, gen.total)
    IN  IF "FORCE_NOT_STACK" \in gen.type /\ Cardinality(gen.prev.columns) < gen.total
        THEN FindAvailable(column, Columns(gen.total) \ gen.prev.columns,
                           RandomStart(gen.total), gen.total)
        ELSE {column}

\* generate_random_hold_notes: beside the columns of the last pattern as long
\* as there are free ones, then beside each other only.
RandomHoldNotes(gen, note_count) ==
    LET usable == gen.total - RandomStart(gen.total) - Cardinality(gen.prev.columns)
        beside == MaxOf(MinOf(usable, note_count), 0)
        Place(s, k) ==
            LET taken == s.pattern.columns \cup (IF k <= beside THEN gen.prev.columns ELSE {})
            IN  Placed(gen, s, Columns(gen.total) \ taken, 0, gen.obj.duration)
        size == beside + SatSub(note_count, usable)
        placed[k \in 0 .. size] ==
            IF k = 0 THEN Start(Usual(gen.total)) ELSE UNION {Place(s, k) : s \in placed[k - 1]}
    IN  Patterns(placed[size])

\* generate_random_notes: note after note, never twice in one column.
RandomNotesOf(gen, note_count) ==
    LET Place(s, row) ==
            LET added == [s EXCEPT !.pattern =
                             AddNote(@, s.next, gen.total, TimeOf(gen, row), TimeOf(gen, row))]
                found == FindAvailable(s.next, Columns(gen.total) \ {s.next},
                                       RandomStart(gen.total), gen.total)
            IN  IF ~s.pattern.ok THEN {s}
                ELSE IF found = {} THEN {[s EXCEPT !.pattern = FailedPattern]}
                ELSE {[added EXCEPT !.next = c] : c \in found}
        placed[k \in 0 .. note_count] ==
            IF k = 0 THEN Start(FirstColumns(gen))
            ELSE UNION {Place(s, k - 1) : s \in placed[k - 1]}
    IN  IF FirstColumns(gen) = {} THEN {FailedPattern} ELSE Patterns(placed[note_count])

\* generate_stair: up and down between the borders
Stair(gen) ==
    LET lowest  == RandomStart(gen.total)
        highest == gen.total - 1
        Step(s, row) ==
            LET up == \/ s.increasing /\ s.next < highest
                      \/ ~s.increasing /\ s.next <= lowest
            IN  [pattern |-> AddNote(s.pattern, s.next, gen.total, TimeOf(gen, row),
                                     TimeOf(gen, row)),
                 next |-> IF up THEN s.next + 1 ELSE s.next - 1,
                 increasing |-> up]
        From(increasing) ==
            [pattern |-> EmptyPattern, next |-> GetColumn(gen.obj.x, gen.total),
             increasing |-> increasing]
        climbed[k \in 0 .. gen.obj.span_count + 1] ==
            IF k = 0 THEN [increasing \in BOOLEAN |-> From(increasing)]
            ELSE [increasing \in BOOLEAN |-> Step(climbed[k - 1][increasing], k - 1)]
    IN  {climbed[gen.obj.span_count + 1][increasing].pattern : increasing \in BOOLEAN}

\* The step between the two notes of a row: with four to eight columns as in
\* the old client.
LegacyColumns(total) == IF total \in 4 .. 8 THEN 1 ELSE 0

\* An interval of all columns but one, whatever their number
Intervals_Modern(total) == 1 .. MaxOf(total - 1, 1)

\* next_int_range(1, total_columns - legacy)
Intervals(total) == 1 .. MaxOf(total - LegacyColumns(total) - 1, 1)

SecondColumn(total, column, interval) ==
    LET next    == column + interval
        wrapped == IF next >= total - RandomStart(total)
                   THEN next - total - RandomStart(total) + LegacyColumns(total) ELSE next
    IN  wrapped + RandomStart(total)

\* generate_random_multiple_notes: two notes in a row, one with two columns
RandomMultipleNotes(gen) ==
    LET Row(s, row, interval) ==
            LET time  == TimeOf(gen, row)
                first == AddNote(s.pattern, s.next, gen.total, time, time)
                both  == IF gen.total > 2
                         THEN AddNote(first, SecondColumn(gen.total, s.next, interval), gen.total,
                                      time, time)
                         ELSE first
            IN  {[pattern |-> both, next |-> c] : c \in Usual(gen.total)}
        With(interval) ==
            LET rows[k \in 0 .. gen.obj.span_count + 1] ==
                    IF k = 0 THEN Start({GetColumn(gen.obj.x, gen.total)})
                    ELSE UNION {Row(s, k - 1, interval) : s \in rows[k - 1]}
            IN  rows[gen.obj.span_count + 1]
    IN  Patterns(UNION {With(interval) : interval \in Intervals(gen.total)})

\* generate_n_random_notes
NRandomNotes(gen, p2, p3, p4) ==
    LET total == gen.total
        q2 == CASE total = 2 -> 0 [] total = 3 -> MinOf(p2, 10) [] total = 4 -> MinOf(p2, 30)
                [] total = 5 -> MinOf(p2, 34) [] OTHER -> p2
        q3 == CASE total \in {2, 3} -> 0 [] total = 4 -> MinOf(p3, 4) [] total = 5 -> MinOf(p3, 10)
                [] OTHER -> p3
        q4 == CASE total \in 2 .. 4 -> 0 [] total = 5 -> MinOf(p4, 3) [] OTHER -> p4
        two == /\ "LOW_PROBABILITY" \notin gen.type
               /\ HasAny(gen.obj.sample \cup gen.obj.first_sample, {"CLAP", "FINISH"})
    IN  UNION {RandomHoldNotes(gen, n) :
                  n \in RandomNoteCounts(IF two THEN 100 ELSE q2, q3, q4, 0)}

\* generate_tiled_hold_notes: holds that begin one after the other
TiledHoldNotes(gen) ==
    LET repeat == MinOf(gen.obj.span_count, gen.total)
        end    == TimeOf(gen, gen.obj.span_count)
        Place(s, row) ==
            Placed(gen, s, Columns(gen.total) \ s.pattern.columns, TimeOf(gen, row), end)
        placed[k \in 0 .. repeat] ==
            IF k = 0 THEN Start(FirstColumns(gen))
            ELSE UNION {Place(s, k - 1) : s \in placed[k - 1]}
    IN  IF FirstColumns(gen) = {} THEN {FailedPattern} ELSE Patterns(placed[repeat])

\* The numbers of notes beside a hold note
NoteCountsBesides(gen) ==
    LET p2 == CASE gen.diff > 6500 -> 63
                [] gen.diff > 4000 /\ gen.diff <= 6500 -> IF gen.total < 6 THEN 12 ELSE 45
                [] OTHER -> IF gen.total < 6 THEN 0 ELSE 24
        counts == IF gen.diff > 2500 THEN RandomNoteCounts(p2, 0, 0, 0) ELSE {0}
    IN  {MinOf(n, gen.total - 1) : n \in counts}

\* One row of notes beside the hold note: row_pattern, in columns apart from the
\* hold note's and from each other, appended to the pattern and emptied
HoldRow(gen, s, time, note_count) ==
    LET Place(t) ==
            Placed(gen, t, Columns(gen.total) \ ({t.hold} \cup t.row), time, time)
        Besides(t) == {[pattern |-> u.pattern, next |-> u.next, hold |-> t.hold,
                        row |-> t.row \cup {u.next}] : u \in Place(t)}
        placed[k \in 0 .. note_count] ==
            IF k = 0 THEN {s} ELSE UNION {Besides(t) : t \in placed[k - 1]}
    IN  {[t EXCEPT !.row = {}] : t \in placed[note_count]}

\* generate_hold_and_normal_notes: a hold note, and rows of notes beside it
\* where the sounds ask for them
HoldAndNormalNotes(gen) ==
    LET ignore_head == ~HasAny(gen.obj.first_sample, {"WHISTLE", "FINISH", "CLAP"})
        Row(s, row, note_count) ==
            IF ignore_head /\ TimeOf(gen, row) = 0 THEN {s}
            ELSE HoldRow(gen, s, TimeOf(gen, row), note_count)
        Begin == {[pattern |-> AddNote(EmptyPattern, hold, gen.total, 0, gen.obj.duration),
                   next |-> next, hold |-> hold, row |-> {}] :
                      hold \in FirstColumns(gen), next \in Usual(gen.total)}
        With(note_count) ==
            LET rows[k \in 0 .. gen.obj.span_count + 1] ==
                    IF k = 0 THEN Begin
                    ELSE UNION {Row(s, k - 1, note_count) : s \in rows[k - 1]}
            IN  rows[gen.obj.span_count + 1]
    IN  IF Begin = {} THEN {FailedPattern}
        ELSE Patterns(UNION {With(note_count) : note_count \in NoteCountsBesides(gen)})

NotStacking(gen) == [gen EXCEPT !.type = @ \cup {"FORCE_NOT_STACK"}]

\* A slider with one span
SingleSpan(gen) ==
    LET segment == SegmentDuration(gen.obj)
        low     == "LOW_PROBABILITY" \in gen.type
    IN  CASE segment <= 110 ->
                RandomNotesOf(IF Cardinality(gen.prev.columns) < gen.total
                              THEN NotStacking(gen) ELSE gen,
                              IF segment >= 80 THEN 2 ELSE 1)
          [] segment > 110 /\ gen.diff > 6500 ->
                IF low THEN NRandomNotes(gen, 78, 30, 0) ELSE NRandomNotes(gen, 85, 36, 3)
          [] segment > 110 /\ gen.diff > 4000 /\ gen.diff <= 6500 ->
                IF low THEN NRandomNotes(gen, 43, 8, 0) ELSE NRandomNotes(gen, 56, 18, 0)
          [] segment > 110 /\ gen.diff > 2500 /\ gen.diff <= 4000 ->
                IF low THEN NRandomNotes(gen, 30, 0, 0) ELSE NRandomNotes(gen, 37, 8, 0)
          [] OTHER -> IF low THEN NRandomNotes(gen, 17, 0, 0) ELSE NRandomNotes(gen, 27, 0, 0)

\* A slider with several spans
SeveralSpans(gen) ==
    LET segment == SegmentDuration(gen.obj)
        spans   == gen.obj.span_count
    IN  IF segment <= 90 THEN RandomHoldNotes(gen, 1)
        ELSE IF segment <= 120 THEN RandomNotesOf(NotStacking(gen), spans + 1)
        ELSE IF segment <= 160 THEN Stair(gen)
        ELSE IF segment <= 200 /\ gen.diff > 3000 THEN RandomMultipleNotes(gen)
        ELSE IF gen.obj.duration >= 4000 THEN NRandomNotes(gen, 23, 0, 0)
        ELSE IF segment > 400 /\ spans < gen.total - 1 - RandomStart(gen.total)
        THEN TiledHoldNotes(gen)
        ELSE HoldAndNormalNotes(gen)

\* generate_
PathObjectPatterns(gen) ==
    IF gen.total = 1 THEN {AddNote(EmptyPattern, 0, 1, 0, gen.obj.duration)}
    ELSE IF gen.obj.span_count > 1 THEN SeveralSpans(gen) ELSE SingleSpan(gen)

\* generate: the notes that end with the slider are the pattern that the next
\* object sees.
NextPattern(gen, pattern) ==
    LET notes == pattern.hit_objects
        ends[k \in 0 .. Len(notes)] ==
            IF k = 0 THEN <<>>
            ELSE IF notes[k].end_time = gen.obj.duration THEN Append(ends[k - 1], notes[k])
            ELSE ends[k - 1]
        at_end == ends[Len(notes)]
    IN  IF Len(notes) = 1 THEN pattern
        ELSE [pattern EXCEPT !.hit_objects = at_end,
                             !.columns = {ColumnOf(at_end[i].x, gen.total) : i \in DOMAIN at_end}]
=============================================================================
