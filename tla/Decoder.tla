------------------------------- MODULE Decoder -------------------------------
(***************************************************************************)
(* The decoder of .osu files: rosu_map hands over the lines of a file      *)
(* section by section, each parser changes the state or returns an error,  *)
(* which rosu_map drops, and at the end the state becomes a Beatmap.       *)
(*                                                                         *)
(* A line is a record of its fields.  Its field valid is FALSE where one   *)
(* of the numbers cannot be parsed or is out of bounds, or where a field   *)
(* is missing.                                                             *)
(***************************************************************************)
EXTENDS SliderPath, Sorting

CONSTANTS
    GeneralLines,       \* [valid, key, value]
    DifficultyLines,    \* [valid, key, value]
    EventLines,         \* [valid, start_time, end_time]
    TimingLines,        \* [valid, time, beat_len, timing_change, kiai]
    ObjectLines,        \* [valid, flags, pos, start_time, sound, filename, ...]
    MaxLines            \* the longest file

VARIABLES
    mode,               \* the settings of the state
    difficulty,
    has_approach_rate,
    breaks,
    points,             \* the three lists and what is pending
    hit_objects,
    hit_sounds,
    curve_points,       \* converted but not taken by a slider
    map,                \* the decoded Beatmap, or None
    lines               \* the lines so far, for the properties

vars == <<mode, difficulty, has_approach_rate, breaks, points, hit_objects, hit_sounds,
          curve_points, map, lines>>

NoPoints ==
    [timing |-> <<>>, difficulty |-> <<>>, effect |-> <<>>,
     pending_time |-> 0, pending |-> [timing |-> None, difficulty |-> None, effect |-> None]]

\* Difficulty::default
DefaultDifficulty == [hp |-> 5, cs |-> 5, od |-> 5, ar |-> 5]

\* BeatmapState::create
Init ==
    /\ mode = "osu"
    /\ difficulty = DefaultDifficulty
    /\ has_approach_rate = FALSE
    /\ breaks = <<>>
    /\ points = NoPoints
    /\ hit_objects = <<>>
    /\ hit_sounds = <<>>
    /\ curve_points = <<>>
    /\ map = None
    /\ lines = <<>>

\* A line of a section was parsed, or refused; the mode is the one it met.
Read(section, line, accepted) ==
    /\ map = None
    /\ Len(lines) < MaxLines
    /\ lines' = Append(lines, [section |-> section, line |-> line,
                               accepted |-> accepted, mode |-> mode])
    /\ UNCHANGED map

------------------------------------------------------------------------------
(* General, difficulty and events *)

ParseGeneral(line) ==
    /\ Read("general", line, line.valid)
    /\ mode' = IF line.valid /\ line.key = "Mode" THEN line.value ELSE mode
    /\ UNCHANGED <<difficulty, has_approach_rate, breaks, points, hit_objects, hit_sounds,
                   curve_points>>

\* The overall difficulty stands in for an approach rate that is not given.
WithDifficulty(key, value) ==
    IF key = "od" /\ ~has_approach_rate
    THEN [difficulty EXCEPT !.od = value, !.ar = value]
    ELSE [difficulty EXCEPT ![key] = value]

ParseDifficulty(line) ==
    /\ Read("difficulty", line, line.valid)
    /\ difficulty' = IF line.valid THEN WithDifficulty(line.key, line.value) ELSE difficulty
    /\ has_approach_rate' = (has_approach_rate \/ (line.valid /\ line.key = "ar"))
    /\ UNCHANGED <<mode, breaks, points, hit_objects, hit_sounds, curve_points>>

ParseEvents(line) ==
    /\ Read("events", line, line.valid)
    /\ breaks' = IF line.valid
                 THEN Append(breaks, [start_time |-> line.start_time,
                                      end_time |-> MaxOf(line.start_time, line.end_time)])
                 ELSE breaks
    /\ UNCHANGED <<mode, difficulty, has_approach_rate, points, hit_objects, hit_sounds,
                   curve_points>>

------------------------------------------------------------------------------
(* Timing points *)

\* A flush that loses the effect point.
Flushed_NoEffect(ps) ==
    LET Flush(list, point, Insert(_, _)) ==
            IF point = None THEN list ELSE Insert(list, point)
    IN  [ps EXCEPT
            !.timing     = Flush(ps.timing, ps.pending.timing, Added),
            !.difficulty = Flush(ps.difficulty, ps.pending.difficulty, AddedDifficulty),
            !.pending    = NoPoints.pending]

\* flush_pending_points: timing points are never redundant.
Flushed(ps) ==
    LET Flush(list, point, Insert(_, _)) ==
            IF point = None THEN list ELSE Insert(list, point)
    IN  [ps EXCEPT
            !.timing     = Flush(ps.timing, ps.pending.timing, Added),
            !.difficulty = Flush(ps.difficulty, ps.pending.difficulty, AddedDifficulty),
            !.effect     = Flush(ps.effect, ps.pending.effect, AddedEffect),
            !.pending    = NoPoints.pending]

\* Whatever comes last is pending.
Pushed_Back(pending, kind, point, timing_change) == [pending EXCEPT ![kind] = point]

\* push_front keeps what is pending, push_back replaces it.
Pushed(pending, kind, point, timing_change) ==
    IF timing_change /\ pending[kind] # None THEN pending
    ELSE [pending EXCEPT ![kind] = point]

\* add_pending_point
AddPendingPoint(ps, kind, point, timing_change) ==
    LET flushed == IF point.time # ps.pending_time THEN Flushed(ps) ELSE ps
    IN  [flushed EXCEPT !.pending = Pushed(@, kind, point, timing_change),
                        !.pending_time = point.time]

WithTimingLine(line) ==
    LET change == line.timing_change
        timed  == IF change
                  THEN AddPendingPoint(points, "timing",
                           NewTimingPoint(line.time, line.beat_len), change)
                  ELSE points
        sped   == AddPendingPoint(timed, "difficulty",
                      NewDifficultyPoint(line.time, line.beat_len), change)
    IN  AddPendingPoint(sped, "effect",
            NewEffectPoint(line.time, line.kiai, line.beat_len, mode \in {"taiko", "mania"}),
            change)

ParseTimingPoints(line) ==
    LET accepted == line.valid /\ ~(line.timing_change /\ line.beat_len = NotANumber)
    IN  /\ Read("timing", line, accepted)
        /\ points' = IF accepted THEN WithTimingLine(line) ELSE points
        /\ UNCHANGED <<mode, difficulty, has_approach_rate, breaks, hit_objects, hit_sounds,
                       curve_points>>

------------------------------------------------------------------------------
(* Hit objects *)

MaxRepeatCount == 9000

\* parse_custom_sound: an object that plays a file of its own has no normal sound.
Sound(line) == IF line.filename THEN line.sound \ {"NORMAL"} ELSE line.sound

\* The first flag in this order decides.
KindOf(line) ==
    CASE "CIRCLE" \in line.flags -> "circle"
      [] "CIRCLE" \notin line.flags /\ "SLIDER" \in line.flags -> "slider"
      [] line.flags \cap {"CIRCLE", "SLIDER"} = {} /\ "SPINNER" \in line.flags -> "spinner"
      [] line.flags \cap {"CIRCLE", "SLIDER", "SPINNER"} = {} /\ "HOLD" \in line.flags -> "hold"
      [] OTHER -> "unknown"

\* One sound for each node, those of the line first
NodeSounds(line, repeats) ==
    [i \in 1 .. repeats + 2 |->
        IF i <= Len(line.node_sounds) THEN line.node_sounds[i] ELSE Sound(line)]

NewSlider(line, control_points) ==
    LET repeats == SatSub(line.repeat_count, 1)
    IN  [expected_dist |-> IF line.len <= 0 THEN None ELSE line.len,
         repeats |-> repeats,
         control_points |-> control_points,
         node_sounds |-> NodeSounds(line, repeats)]

\* The path of a slider line is converted last, behind the points that an
\* earlier line may have left.
Converted(line) == ConvertPathStr(line.path, line.pos, curve_points)

ConvertsPath(line) ==
    line.valid /\ KindOf(line) = "slider" /\ line.repeat_count <= MaxRepeatCount

NewObject(line, sound, slider, duration) ==
    [object |-> [pos |-> line.pos, start_time |-> line.start_time, kind |-> KindOf(line),
                 duration |-> duration, slider |-> slider],
     sound |-> sound]

\* The object of a line with its sound, or None for an error.  The file name
\* of a hold note belongs to its end.
ParsedObject(line) ==
    LET kind == KindOf(line)
    IN  CASE line.valid /\ kind = "circle" -> NewObject(line, Sound(line), None, 0)
          [] ConvertsPath(line) /\ Converted(line).ok ->
                NewObject(line, Sound(line), NewSlider(line, Converted(line).points), 0)
          [] line.valid /\ kind = "spinner" /\ line.end_time # None ->
                NewObject(line, Sound(line), None, MaxOf(line.end_time - line.start_time, 0))
          [] line.valid /\ kind = "hold" /\ line.end_time # None ->
                NewObject(line, Sound(line), None,
                          MaxOf(line.end_time, line.start_time) - line.start_time)
          [] line.valid /\ kind = "hold" /\ line.end_time = None ->
                NewObject(line, line.sound, None, 0)
          [] OTHER -> None

ParseHitObjects(line) ==
    LET parsed == ParsedObject(line)
    IN  /\ Read("objects", line, parsed # None)
        /\ hit_objects' = IF parsed = None THEN hit_objects
                          ELSE Append(hit_objects, parsed.object)
        /\ hit_sounds' = IF parsed = None THEN hit_sounds ELSE Append(hit_sounds, parsed.sound)
        /\ curve_points' = IF ~ConvertsPath(line) THEN curve_points
                           ELSE IF parsed = None THEN Converted(line).points ELSE <<>>
        /\ UNCHANGED <<mode, difficulty, has_approach_rate, breaks, points>>

------------------------------------------------------------------------------
(* From<BeatmapState> for Beatmap *)

\* The objects and sounds in the order of the objects.  For osu!mania the
\* objects alone are sorted once more.
SortedObjects(objects, sounds) ==
    LET first  == TandemSort(NewStable(objects), objects)
        second == TandemSort(first.sorter, sounds)
    IN  [objects |-> IF mode = "mania" THEN OsuLegacy(first.slice) ELSE first.slice,
         sounds  |-> second.slice]

Finish ==
    /\ map = None
    /\ LET ps     == Flushed(points)
           sorted == SortedObjects(hit_objects, hit_sounds)
       IN  map' = [mode |-> mode, difficulty |-> difficulty, breaks |-> breaks,
                   timing_points |-> ps.timing, difficulty_points |-> ps.difficulty,
                   effect_points |-> ps.effect,
                   hit_objects |-> sorted.objects, hit_sounds |-> sorted.sounds]
    /\ UNCHANGED <<mode, difficulty, has_approach_rate, breaks, points, hit_objects,
                   hit_sounds, curve_points, lines>>

Next ==
    \/ \E line \in GeneralLines : ParseGeneral(line)
    \/ \E line \in DifficultyLines : ParseDifficulty(line)
    \/ \E line \in EventLines : ParseEvents(line)
    \/ \E line \in TimingLines : ParseTimingPoints(line)
    \/ \E line \in ObjectLines : ParseHitObjects(line)
    \/ Finish

Spec == Init /\ [][Next]_vars

------------------------------------------------------------------------------
(* Beatmap::bpm *)

\* HitObject::end_time, which for a slider is where it begins
EndTime(object) == object.start_time + object.duration

LastTime(objects, timing) ==
    IF objects # <<>> THEN EndTime(Last(objects))
    ELSE IF timing # <<>> THEN Last(timing).time ELSE 0

\* The first point lasts from its own time only.
From_OwnTime(timing, i) == timing[i].time

\* Each point lasts until the next one, the first from 0 and the last to last_time.
From(timing, i) == IF i = 1 THEN 0 ELSE timing[i].time
Lasting(timing, last_time, i) ==
    IF From(timing, i) > last_time THEN 0
    ELSE (IF i = Len(timing) THEN last_time ELSE timing[i + 1].time) - From(timing, i)

BeatLenDuration(timing, last_time, beat_len) ==
    MapThenSumSet(LAMBDA i : Lasting(timing, last_time, i),
                  {i \in DOMAIN timing : timing[i].beat_len = beat_len})

\* The beat lengths that bpm may pick: among those that last equally long the
\* order of a HashMap decides.
MostCommonBeatLens(objects, timing) ==
    LET last_time == LastTime(objects, timing)
        beat_lens == {timing[i].beat_len : i \in DOMAIN timing}
        Duration(b) == BeatLenDuration(timing, last_time, b)
    IN  {b \in beat_lens : \A c \in beat_lens : Duration(c) <= Duration(b)}

------------------------------------------------------------------------------
(* Properties *)

Increasing(list) == \A i, j \in DOMAIN list : i < j => list[i].time < list[j].time

\* What was pending when the map was made is in its lists, but for a point of
\* speed or effects that changes nothing where it stands.
NothingPendingLost ==
    /\ points.pending.timing # None =>
           points.pending.timing \in ToSet(map.timing_points)
    /\ points.pending.difficulty # None =>
           SameDifficulty(points.pending.difficulty,
               OrDefault(ActiveAt(map.difficulty_points, points.pending.difficulty.time),
                         DefaultDifficultyPoint))
    /\ points.pending.effect # None =>
           SameEffect(points.pending.effect,
               OrDefault(ActiveAt(map.effect_points, points.pending.effect.time),
                         DefaultEffectPoint))

\* Every object has its sound, the lists of control points are ordered by time
\* without two at one time, as their binary searches require, and nothing
\* pending is lost when the map is made (BeatmapState, Beatmap).
TypeOK ==
    /\ mode \in {"osu", "taiko", "catch", "mania"}
    /\ has_approach_rate \in BOOLEAN
    /\ \A i \in DOMAIN breaks : breaks[i].start_time <= breaks[i].end_time
    /\ Len(hit_objects) = Len(hit_sounds)
    /\ \A list \in {points.timing, points.difficulty, points.effect} : Increasing(list)
    /\ map # None =>
           /\ Len(map.hit_objects) = Len(map.hit_sounds)
           /\ \A list \in {map.timing_points, map.difficulty_points, map.effect_points} :
                  Increasing(list)
           /\ NothingPendingLost

AcceptedOf(section) ==
    SelectSeq(lines, LAMBDA entry : entry.section = section /\ entry.accepted)

InOrder(entries) ==
    \A i, j \in DOMAIN entries : i < j => entries[i].line.time <= entries[j].line.time

\* Of the lines at one time, the last that is no timing change counts for
\* speed and effects, or else the first; the first timing change counts for
\* the timing.
SpeedEntry(group) ==
    LET inherited == SelectSeq(group, LAMBDA entry : ~entry.line.timing_change)
    IN  IF inherited # <<>> THEN Last(inherited) ELSE Head(group)

SpeedIs(point, entry) ==
    LET line  == entry.line
        speed == SpeedMultiplier(line.beat_len)
    IN  /\ point.difficulty.slider_velocity = Clamped(speed, 10, 1000)
        /\ point.difficulty.generate_ticks = (line.beat_len # NotANumber)
        /\ point.effect.kiai = line.kiai
        /\ point.effect.scroll_speed =
               IF entry.mode \in {"taiko", "mania"} THEN Clamped(speed, 1, 1000) ELSE 100

UpTo(entries, time) == SelectSeq(entries, LAMBDA entry : entry.line.time <= time)
AtLastTime(entries) ==
    SelectSeq(entries, LAMBDA entry : entry.line.time = Last(entries).line.time)

\* In a file whose timing lines are in the order of their times, the point
\* found for any time is the one that the lines at the last time up to it say,
\* though points at one time are merged while they are pending and points that
\* change nothing are dropped (add_pending_point, check_already_existing,
\* timing_point_at, difficulty_point_at, effect_point_at).
ActiveControlPoints ==
    LET entries == AcceptedOf("timing")
        changes == SelectSeq(entries, LAMBDA entry : entry.line.timing_change)
        At(time) ==
            [difficulty |-> OrDefault(ActiveAt(map.difficulty_points, time),
                                      DefaultDifficultyPoint),
             effect |-> OrDefault(ActiveAt(map.effect_points, time), DefaultEffectPoint)]
        Times == {-1, 1000} \cup {entries[i].line.time : i \in DOMAIN entries}
    IN  map # None /\ InOrder(entries) =>
        \A time \in Times :
            /\ UpTo(entries, time) # <<>> =>
                   SpeedIs(At(time), SpeedEntry(AtLastTime(UpTo(entries, time))))
            /\ UpTo(entries, time) = <<>> =>
                   At(time) = [difficulty |-> DefaultDifficultyPoint,
                               effect |-> DefaultEffectPoint]
            /\ changes # <<>> =>
                   LET until == UpTo(changes, time)
                       head  == IF until = <<>> THEN Head(changes) ELSE Head(AtLastTime(until))
                   IN  TimingAt(map.timing_points, time) =
                           NewTimingPoint(head.line.time, head.line.beat_len)

\* The objects of a map are in the order of their times and are those of the
\* lines.  Outside of osu!mania each one still has the sound of its line, and
\* objects at one time stay in the order of their lines (TandemSorter,
\* osu_legacy).
SortedInTandem ==
    LET entries == AcceptedOf("objects")
        Parsed(i) == [object |-> hit_objects[i], sound |-> hit_sounds[i]]
        Behind(i, j) == entries[i].line.start_time < entries[j].line.start_time
        Place(i) == Cardinality({j \in DOMAIN entries : Behind(j, i) \/ (j <= i /\ ~Behind(i, j))})
        Count(list, object) == Cardinality({i \in DOMAIN list : list[i] = object})
    IN  map # None =>
        /\ \A i, j \in DOMAIN map.hit_objects :
               i < j => map.hit_objects[i].start_time <= map.hit_objects[j].start_time
        /\ \A i \in DOMAIN hit_objects :
               Count(map.hit_objects, hit_objects[i]) = Count(hit_objects, hit_objects[i])
        /\ mode # "mania" =>
               \A i \in DOMAIN hit_objects :
                   Parsed(i) = [object |-> map.hit_objects[Place(i)],
                                sound |-> map.hit_sounds[Place(i)]]

\* The places that a list passes, without standing still
Visited(ps) ==
    SelectSeq([i \in DOMAIN ps |-> [at |-> ps[i], stays |-> i > 1 /\ ps[i] = ps[MaxOf(i, 2) - 1]]],
              LAMBDA p : ~p.stays)

PositionsOf(line) ==
    LET tokens == SelectSeq(Tail(line.path), LAMBDA token : token.kind = "point")
    IN  <<<<0, 0>>>> \o [i \in DOMAIN tokens |-> Minus(tokens[i].pos, line.pos)]

\* The perfect curves of a list: from a point of that type up to the next one
\* that has a type.
PerfectCurves(control_points) ==
    {SubSeq(control_points, i, k) : <<i, k>> \in
        {<<i, k>> \in (DOMAIN control_points) \X (DOMAIN control_points) :
            /\ i < k
            /\ control_points[i].path_type = "PERFECT"
            /\ \A m \in i + 1 .. k - 1 : control_points[m].path_type = None
            /\ control_points[k].path_type # None \/ k = Len(control_points)}}

\* No slider line failed in its path since the last slider.
NothingLeft(i) ==
    \A k \in 1 .. i - 1 :
        (lines[k].section = "objects" /\ ConvertsPath(lines[k].line) /\ ~lines[k].accepted) =>
            \E l \in k + 1 .. i - 1 :
                lines[l].accepted /\ lines[l].section = "objects"
                    /\ KindOf(lines[l].line) = "slider"

\* A slider's control points pass all places of its line in their order,
\* whatever segments they are cut into, no place twice, and begin with a type; a
\* perfect curve has three points that are not on a line.  Points that were left by a line
\* that failed come before those of the slider's own line (convert_path_str,
\* convert_points).
SliderPaths ==
    LET Index(i) == Cardinality({k \in 1 .. i : lines[k].section = "objects" /\ lines[k].accepted})
    IN  \A i \in DOMAIN lines :
        (lines[i].section = "objects" /\ lines[i].accepted /\ KindOf(lines[i].line) = "slider") =>
            LET own  == Visited(PositionsOf(lines[i].line))
                list == hit_objects[Index(i)].slider.control_points
                all  == Visited([k \in DOMAIN list |-> list[k].pos])
            IN  /\ list[1].path_type # None
                /\ IsSuffix(own, all) \/ IsSuffix(Tail(own), all)
                /\ NothingLeft(i) =>
                       /\ all = own
                       /\ Len(list) <= Len(PositionsOf(lines[i].line))
                       /\ \A curve \in PerfectCurves(list) :
                              Len(curve) = 3 /\ ~Collinear(curve[1].pos, curve[2].pos, curve[3].pos)

\* Whichever beat length bpm picks, no other one is active for longer until the
\* last object, if the timing points begin between 0 and that object (bpm,
\* timing_point_at).
MostCommonBeatLen ==
    map # None /\ map.timing_points # <<>> =>
        LET timing    == map.timing_points
            last_time == LastTime(map.hit_objects, timing)
            Active(b) == Cardinality({t \in 0 .. last_time - 1 : TimingAt(timing, t).beat_len = b})
            picked    == MostCommonBeatLens(map.hit_objects, timing)
        IN  /\ picked # {}
            /\ (\A i \in DOMAIN timing : timing[i].time \in 0 .. last_time) =>
                   \A b \in picked, i \in DOMAIN timing : Active(timing[i].beat_len) <= Active(b)
=============================================================================
