--------------------------- MODULE HitObjectPattern ---------------------------
(***************************************************************************)
(* HitObjectPatternGenerator: the notes for a circle.  gen is a record     *)
(*   [obj, total, prev, stair, diff, type]                                 *)
(* where prev is what is known of the previous pattern.  An operator gives *)
(* the set of the patterns that the random numbers allow.                  *)
(***************************************************************************)
EXTENDS ManiaPattern

\* new: the type of a pattern by the time and distance since the last object
TimingType(obj, stair) ==
    LET dt == obj.time_separation
    IN  CASE dt <= 80                            -> {"FORCE_NOT_STACK", "KEEP_SINGLE"}
          [] dt > 80 /\ dt <= 95                 -> {"FORCE_NOT_STACK", "KEEP_SINGLE", stair}
          [] dt > 95 /\ dt <= 105                -> {"FORCE_NOT_STACK", "LOW_PROBABILITY"}
          [] dt > 105 /\ dt <= 125               -> {"FORCE_NOT_STACK"}
          [] dt > 125 /\ dt <= 135 /\ obj.near   -> {"CYCLE", "KEEP_SINGLE"}
          [] dt > 135 /\ dt <= 150 /\ obj.near   -> {"FORCE_STACK", "LOW_PROBABILITY"}
          [] dt > 150 /\ obj.near /\ ~obj.dense  -> {"REVERSE", "LOW_PROBABILITY"}
          [] OTHER -> IF obj.dense \/ obj.kiai THEN {} ELSE {"LOW_PROBABILITY"}

ConvertType(obj, stair, total) ==
    LET type == TimingType(obj, stair)
    IN  IF "KEEP_SINGLE" \in type THEN type
        ELSE IF "FINISH" \in obj.sample /\ total # 8 THEN type \cup {"MIRROR"}
        ELSE IF "CLAP" \in obj.sample THEN type \cup {"GATHERED"} ELSE type

Note(gen, pattern, column) == AddNote(pattern, column, gen.total, 0, 0)
Single(gen, column) == {Note(gen, EmptyPattern, column)}

\* The columns of the previous pattern in their order, each mapped to another
MappedNotes(gen, column) ==
    LET mapped[k \in 0 .. gen.total] ==
            IF k = 0 THEN EmptyPattern
            ELSE IF k - 1 \in gen.prev.columns \cap Usual(gen.total)
            THEN Note(gen, mapped[k - 1], column[k - 1])
            ELSE mapped[k - 1]
    IN  {mapped[gen.total]}

Same(gen) == [i \in Columns(gen.total) |-> i]
Reversed(gen) == [i \in Columns(gen.total) |-> RandomStart(gen.total) + gen.total - i - 1]

\* With GATHERED the columns are tried one after the other.
Gathered(valid, last, total) ==
    LET Steps(c) == IF c > last THEN c - last ELSE c - last + total
    IN  {CHOOSE c \in valid : \A d \in valid : Steps(c) <= Steps(d)}

\* A test of the other flag
AllowStacking_OtherFlag(gen) == "FORCE_STACK" \notin gen.type

AllowStacking(gen) == "FORCE_NOT_STACK" \notin gen.type

\* As many notes as asked for, whether there is a column for each or not
Placeable_Unlimited(gen, note_count) == note_count

\* Not more notes than there are columns beside those of the previous pattern
Placeable(gen, note_count) ==
    IF AllowStacking(gen) THEN note_count
    ELSE MinOf(gen.total - RandomStart(gen.total) - Cardinality(gen.prev.columns), note_count)

\* generate_random_notes
RandomNotes(gen, note_count) ==
    LET taken == IF AllowStacking(gen) THEN {} ELSE gen.prev.columns
        Place(s) ==
            LET valid == Columns(gen.total) \ (s.pattern.columns \cup taken)
                found == IF s.next \in valid THEN {s.next}
                         ELSE IF "GATHERED" \in gen.type /\ valid \cap Usual(gen.total) # {}
                         THEN Gathered(valid \cap Usual(gen.total), s.next, gen.total)
                         ELSE FindAvailable(s.next, valid, RandomStart(gen.total), gen.total)
            IN  IF ~s.pattern.ok THEN {s}
                ELSE IF found = {} THEN {[s EXCEPT !.pattern = FailedPattern]}
                ELSE {[pattern |-> Note(gen, s.pattern, c), next |-> c] : c \in found}
        first == [pattern |-> EmptyPattern, next |-> GetColumn(gen.obj.x, gen.total)]
        size == MaxOf(Placeable(gen, note_count), 0)
        placed[k \in 0 .. size] ==
            IF k = 0 THEN {first} ELSE UNION {Place(s) : s \in placed[k - 1]}
    IN  {s.pattern : s \in placed[size]}

WithSpecial(gen, patterns) ==
    IF gen.total = 8 /\ {"CLAP", "FINISH"} \subseteq gen.obj.sample
    THEN {IF pattern.ok THEN Note(gen, pattern, 0) ELSE pattern : pattern \in patterns}
    ELSE patterns

\* get_random_note_count: few columns limit the probabilities.
NoteCounts(gen, p2, p3, p4, p5) ==
    LET total == gen.total
        q2 == CASE total = 2 -> 0 [] total = 3 -> MinOf(p2, 10) [] total = 4 -> MinOf(p2, 23)
                [] OTHER -> p2
        q3 == CASE total \in {2, 3} -> 0 [] total = 4 -> MinOf(p3, 4) [] total = 5 -> MinOf(p3, 15)
                [] OTHER -> p3
        q4 == CASE total \in 2 .. 4 -> 0 [] total = 5 -> MinOf(p4, 3) [] OTHER -> p4
        q5 == IF total \in 2 .. 5 THEN 0 ELSE p5
    IN  RandomNoteCounts(IF "CLAP" \in gen.obj.sample THEN 100 ELSE q2, q3, q4, q5)

\* generate_random_pattern
RandomPattern(gen, p2, p3, p4, p5) ==
    WithSpecial(gen, UNION {RandomNotes(gen, n) : n \in NoteCounts(gen, p2, p3, p4, p5)})

\* get_random_note_count_mirrored: counts, with or without a note in the centre
MirroredCounts(gen, centre, p2, p3) ==
    LET total == gen.total
        c  == CASE total \in {2, 4, 6} -> 0 [] total \in {3, 5} -> MinOf(centre, 3)
                [] OTHER -> centre
        q2 == CASE total \in {2, 3} -> 0
                [] total = 4 -> 100 - MaxOf((100 - p2) * 2, 80)
                [] total = 6 -> 100 - MaxOf((100 - p2) * 2, 5)
                [] OTHER -> p2
        q3 == CASE total \in 2 .. 5 -> 0
                [] total = 6 -> 100 - MaxOf((100 - p3) * 2, 85)
                [] OTHER -> p3
    IN  {nc \in RandomNoteCounts(Within(q2, 0, 100), Within(q3, 0, 100), 0, 0) \X BOOLEAN :
            nc[2] => total % 2 # 0 /\ nc[1] # 3 /\ c > 0}

\* generate_random_pattern_with_mirrored: notes in the left half and their
\* mirror images
MirroredPattern(gen, centre, p2, p3) ==
    LET limit == gen.total \div 2
        lower == RandomStart(gen.total)
        Place(s) ==
            LET found == FindAvailable(s.next, Columns(gen.total) \ s.pattern.columns, lower, limit)
            IN  IF ~s.pattern.ok THEN {s}
                ELSE IF found = {} THEN {[s EXCEPT !.pattern = FailedPattern]}
                ELSE {[pattern |-> Note(gen, Note(gen, s.pattern, c), lower + gen.total - c - 1),
                       next |-> c] : c \in found}
        First == {[pattern |-> EmptyPattern, next |-> c] : c \in lower .. MaxOf(limit - 1, lower)}
        Patterns(n) ==
            LET placed[k \in 0 .. n] ==
                    IF k = 0 THEN First ELSE UNION {Place(s) : s \in placed[k - 1]}
            IN  {s.pattern : s \in placed[n]}
        Centred(patterns) ==
            {IF pattern.ok THEN Note(gen, pattern, gen.total \div 2) ELSE pattern :
                pattern \in patterns}
    IN  IF ~AllowStacking(gen)
        THEN RandomPattern(gen, 50 + p2 \div 2, p2, (p2 + p3) \div 2, p3)
        ELSE WithSpecial(gen, UNION {IF nc[2] THEN Centred(Patterns(nc[1])) ELSE Patterns(nc[1]) :
                                        nc \in MirroredCounts(gen, centre, p2, p3)})

\* The probabilities by the difficulty of the map
ByDifficulty(gen) ==
    LET low == "LOW_PROBABILITY" \in gen.type
    IN  CASE "MIRROR" \in gen.type /\ gen.diff > 6500 -> MirroredPattern(gen, 12, 38, 12)
          [] "MIRROR" \in gen.type /\ gen.diff > 4000 /\ gen.diff <= 6500 ->
                MirroredPattern(gen, 12, 17, 0)
          [] "MIRROR" \in gen.type /\ gen.diff <= 4000 -> MirroredPattern(gen, 12, 0, 0)
          [] "MIRROR" \notin gen.type /\ gen.diff > 6500 ->
                IF low THEN RandomPattern(gen, 78, 42, 0, 0) ELSE RandomPattern(gen, 100, 62, 0, 0)
          [] "MIRROR" \notin gen.type /\ gen.diff > 4000 /\ gen.diff <= 6500 ->
                IF low THEN RandomPattern(gen, 35, 8, 0, 0) ELSE RandomPattern(gen, 52, 15, 0, 0)
          [] "MIRROR" \notin gen.type /\ gen.diff > 2000 /\ gen.diff <= 4000 ->
                IF low THEN RandomPattern(gen, 18, 0, 0, 0) ELSE RandomPattern(gen, 45, 0, 0, 0)
          [] OTHER -> RandomPattern(gen, 0, 0, 0, 0)

\* May the single note of the last pattern be mirrored?  Not from the special
\* column and not from the centre.
Cycles(gen) ==
    /\ "CYCLE" \in gen.type
    /\ gen.prev.objects = 1
    /\ gen.total # 8 \/ gen.prev.last_column # 0
    /\ gen.total % 2 = 0 \/ gen.prev.last_column # gen.total \div 2

StairColumn(gen) ==
    LET last == gen.prev.last_column
    IN  IF last + 1 = gen.total THEN RandomStart(gen.total) ELSE last + 1

\* A stair downwards that does not return to the upper end
ReverseStairColumn_NoWrap(gen) == gen.prev.last_column - 1

ReverseStairColumn(gen) ==
    LET last == gen.prev.last_column
    IN  IF last = RandomStart(gen.total) THEN gen.total - 1 ELSE last - 1

\* generate_core
HitObjectPatterns(gen) ==
    LET type == gen.type
        some == gen.prev.objects > 0
    IN  IF gen.total = 1 THEN Single(gen, 0)
        ELSE IF "REVERSE" \in type /\ some THEN MappedNotes(gen, Reversed(gen))
        ELSE IF Cycles(gen) THEN Single(gen, Reversed(gen)[gen.prev.last_column])
        ELSE IF "FORCE_STACK" \in type /\ some THEN MappedNotes(gen, Same(gen))
        ELSE IF gen.prev.objects = 1 /\ "STAIR" \in type THEN Single(gen, StairColumn(gen))
        ELSE IF gen.prev.objects = 1 /\ "REVERSE_STAIR" \in type
        THEN Single(gen, ReverseStairColumn(gen))
        ELSE IF "KEEP_SINGLE" \in type THEN RandomNotes(gen, 1)
        ELSE ByDifficulty(gen)

\* generate: a stair turns where it reached an end.
NextStair(gen, pattern) ==
    LET reached == {ColumnOf(pattern.hit_objects[i].x, gen.total) : i \in DOMAIN pattern.hit_objects}
    IN  IF "STAIR" \in gen.type /\ gen.total - 1 \in reached THEN "REVERSE_STAIR"
        ELSE IF "REVERSE_STAIR" \in gen.type /\ RandomStart(gen.total) \in reached THEN "STAIR"
        ELSE gen.stair
=============================================================================
