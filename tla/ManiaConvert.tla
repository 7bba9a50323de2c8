----------------------------- MODULE ManiaConvert -----------------------------
(***************************************************************************)
(* The conversion of an osu! map to osu!mania: object after object a       *)
(* pattern generator makes notes, which depend on the pattern before and   *)
(* on random numbers.  An object of the map is a record of what the        *)
(* generators tell apart:                                                  *)
(*   circle   x, sample, time_separation, near, dense, kiai                *)
(*   slider   x, sample, first_sample, span_count, duration, kiai          *)
(*   spinner  sample, duration (hold notes are treated alike)              *)
(* where near and dense say how pos_separation and density compare with    *)
(* 20 and with beat_len / 2.5.  The random numbers are free.               *)
(***************************************************************************)
EXTENDS HitObjectPattern, PathObjectPattern

CONSTANTS
    Maps,       \* [keys, cs, od, hp, ar, n_objects, n_sliders, n_spinners, drain_time,
                \*  hit_objects]
    None

\* There are one to ten keys if the mods say how many, a slider has a span, and
\* no object ends before it begins.
ASSUME MapsAssumption ==
    \A map \in Maps :
        /\ map.keys \in 0 .. 10 /\ map.od \in Int
        /\ \A o \in map.hit_objects :
               /\ o # None
               /\ o.kind \in {"circle", "slider", "spinner"}
               /\ o.kind = "circle" => o.x \in Int /\ o.time_separation \in Int
               /\ o.kind = "slider" =>
                      o.x \in Int /\ o.span_count \in Nat \ {0} /\ o.duration \in Nat
               /\ o.kind = "spinner" => o.duration \in Nat

VARIABLES
    hit_objects,        \* of the map, which has them in any order and number
    total_columns,
    conversion_difficulty,
    last_pattern,       \* what the next object asks of last_values.pattern
    stair,              \* last_values.stair
    obj,                \* the object that is to be converted
    new_hit_objects,    \* the notes of the object that was converted last
    panicked            \* an assertion failed

vars == <<hit_objects, total_columns, conversion_difficulty, last_pattern, stair, obj,
          new_hit_objects, panicked>>

------------------------------------------------------------------------------
(* EndTimeObjectPatternGenerator: the one note for a spinner or a hold     *)
(* note.  gen is a record [obj, total, prev].                              *)

\* A note of less than 100 ms is no hold note.
EndTimeNote(gen, column) ==
    AddNote(EmptyPattern, column, gen.total, 0,
            IF gen.obj.duration >= 100 THEN gen.obj.duration ELSE 0)

\* get_random_column: any column, or any beside those of the last pattern if
\* that did not fill all of them
EndTimeColumns(gen) ==
    LET taken == IF Cardinality(gen.prev.columns) = gen.total THEN {} ELSE gen.prev.columns
        lower == RandomStart(gen.total)
    IN  UNION {FindAvailable(c, Columns(gen.total) \ taken, lower, gen.total) :
                  c \in Usual(gen.total)}

\* generate: short finishes belong to the special column.
EndTimePatterns(gen) ==
    IF gen.total = 8 /\ "FINISH" \in gen.obj.sample /\ gen.obj.duration < 1000
    THEN {EndTimeNote(gen, 0)}
    ELSE IF EndTimeColumns(gen) = {} THEN {FailedPattern}
    ELSE {EndTimeNote(gen, c) : c \in EndTimeColumns(gen)}

------------------------------------------------------------------------------
(* The conversion *)

Init ==
    /\ \E map \in Maps :
           /\ hit_objects = map.hit_objects
           /\ total_columns = TargetColumns(map)
           /\ conversion_difficulty = ConversionDifficulty(map)
    /\ last_pattern = Summary(EmptyPattern, 1)
    /\ stair = "STAIR"
    /\ obj = None
    /\ new_hit_objects = <<>>
    /\ panicked = FALSE

\* The loop over the objects
NextObject ==
    /\ obj = None
    /\ ~panicked
    /\ obj' \in hit_objects
    /\ new_hit_objects' = <<>>
    /\ UNCHANGED <<hit_objects, total_columns, conversion_difficulty, last_pattern, stair, panicked>>

Is(kind) == obj # None /\ obj.kind = kind

\* The notes of a pattern are made, or its generator panicked.
Made(pattern) ==
    /\ obj' = None
    /\ new_hit_objects' = pattern.hit_objects
    /\ panicked' = ~pattern.ok
    /\ UNCHANGED <<hit_objects, total_columns, conversion_difficulty>>

CircleGen ==
    [obj |-> obj, total |-> total_columns, prev |-> last_pattern, stair |-> stair,
     diff |-> conversion_difficulty, type |-> ConvertType(obj, stair, total_columns)]

ConvertCircle ==
    /\ Is("circle")
    /\ \E pattern \in HitObjectPatterns(CircleGen) :
           /\ Made(pattern)
           /\ last_pattern' = Summary(pattern, total_columns)
           /\ stair' = NextStair(CircleGen, pattern)

SliderGen ==
    [obj |-> obj, total |-> total_columns, prev |-> last_pattern, diff |-> conversion_difficulty,
     type |-> IF obj.kiai THEN {} ELSE {"LOW_PROBABILITY"}]

ConvertSlider ==
    /\ Is("slider")
    /\ \E pattern \in PathObjectPatterns(SliderGen) :
           /\ Made(pattern)
           /\ last_pattern' = Summary(NextPattern(SliderGen, pattern), total_columns)
    /\ UNCHANGED stair

\* The pattern of a spinner is not kept.
ConvertSpinner ==
    /\ Is("spinner")
    /\ \E pattern \in EndTimePatterns([obj |-> obj, total |-> total_columns,
                                       prev |-> last_pattern]) : Made(pattern)
    /\ UNCHANGED <<last_pattern, stair>>

Next == NextObject \/ ConvertCircle \/ ConvertSlider \/ ConvertSpinner

Spec == Init /\ [][Next]_vars

------------------------------------------------------------------------------
(* Properties *)

Column(note) == ColumnOf(note.x, total_columns)

\* The columns of the last pattern are columns of the stage, its last column is
\* one of them, and with eight columns it is never the special column alone,
\* which the single steps of a stair or a cycle could not leave (Pattern,
\* ContainedColumns, generate_core).
TypeOK ==
    /\ total_columns \in 1 .. 10
    /\ stair \in {"STAIR", "REVERSE_STAIR"}
    /\ last_pattern.columns \subseteq Columns(total_columns)
    /\ last_pattern.objects = 0 <=> last_pattern.columns = {}
    /\ last_pattern.objects > 0 => last_pattern.last_column \in last_pattern.columns
    /\ total_columns = 8 => last_pattern.columns # {0}

\* Whenever a generator looks for a column there is one that is valid: none of
\* the assertions of has_valid_column fails (find_available_column).
HasValidColumn == ~panicked

\* No two of the notes of an object are in one column at one time
\* (generate_random_multiple_notes, generate_hold_and_normal_notes and the
\* other patterns).
NoOverlap ==
    \A i, j \in DOMAIN new_hit_objects :
        LET a == new_hit_objects[i]
            b == new_hit_objects[j]
        IN  i # j /\ Column(a) = Column(b) =>
                a.end_time < b.start_time \/ b.end_time < a.start_time

\* A circle that follows fast has no note in a column of the pattern before it,
\* other than the special column, and loses its notes only if that pattern left
\* no column (FORCE_NOT_STACK, generate_random_notes).
NotStacked ==
    [][(Is("circle") /\ total_columns > 1 /\ obj.time_separation <= 125 /\ ~panicked') =>
        LET columns == {Column(new_hit_objects'[i]) : i \in DOMAIN new_hit_objects'}
            special == IF total_columns = 8 THEN {0} ELSE {}
        IN  /\ columns \cap last_pattern.columns \subseteq special
            /\ columns = {} => Usual(total_columns) \subseteq last_pattern.columns]_vars

\* The notes of an object lie between its begin and its end, the first begins
\* with it unless a circle lost its notes, and those that end with a slider are
\* what the next object sees (PathObjectPatternGenerator::generate).
KeepsToObject ==
    [][(obj # None /\ ~panicked') =>
        LET end == IF Is("circle") THEN 0 ELSE obj.duration
            at_end == {i \in DOMAIN new_hit_objects' : new_hit_objects'[i].end_time = end}
        IN  /\ \A i \in DOMAIN new_hit_objects' :
                   new_hit_objects'[i].start_time >= 0 /\ new_hit_objects'[i].end_time <= end
            /\ ~Is("circle") => \E i \in DOMAIN new_hit_objects' :
                                         new_hit_objects'[i].start_time = 0
            /\ Is("slider") /\ at_end # {} =>
                   last_pattern'.columns = {Column(new_hit_objects'[i]) : i \in at_end}]_vars
=============================================================================
