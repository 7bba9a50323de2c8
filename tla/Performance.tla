----------------------------- MODULE Performance -----------------------------
(***************************************************************************)
(* The performance builders: Performance and the builder of each mode      *)
(* behind it.  A builder holds a map or attributes, the settings of a      *)
(* Difficulty and what the caller says about the play; calls are chained   *)
(* in any order.                                                           *)
(*                                                                         *)
(* Hit results have the names of ScoreState in every mode, which is how    *)
(* Performance calls them: a caller's n_katu are the tiny droplet misses   *)
(* of osu!catch and the 200s of osu!mania.                                 *)
(***************************************************************************)
EXTENDS HitResults

CONSTANTS
    Maps,       \* maps: [mode, is_convert, mods], mods those of a conversion
    Counts,     \* by mode, what a calculation counts in the first 0, 1, 2 ... objects
    FieldCalls,     \* calls of setters of one hit result: <<name, number>>
    StateCalls,     \* the ScoreStates given to state()
    AccCalls,       \* the accuracies given, in AccScale-ths of 100 %
    SettingCalls,   \* calls of setters of the Difficulty: <<name, value>>
    DiffCalls,      \* all settings at once, as an InspectDifficulty
    MaxSetters,     \* bound: setters called on one builder
    U32Max          \* usize::MAX as u32, the default of passed_objects

VARIABLES
    p,      \* the builder
    out,    \* what the last generate_state, calculate or try_mode returned
    setters \* the number of setters called

vars == <<p, out, setters>>

Osu   == INSTANCE OsuPerformance
Taiko == INSTANCE TaikoPerformance
Catch == INSTANCE CatchPerformance
Mania == INSTANCE ManiaPerformance

Modes == {"osu", "taiko", "catch", "mania"}

------------------------------------------------------------------------------
(* Hit results and settings *)

\* The hit results that the builder of a mode has
Fields(mode) ==
    CASE mode = "osu"   -> Osu!Fields
      [] mode = "taiko" -> Taiko!Fields
      [] mode = "catch" -> Catch!Fields
      [] mode = "mania" -> Mania!Fields

AllFields == UNION {Fields(m) : m \in Modes}

\* A mode's state becomes a ScoreState: what the mode does not have is 0.
ToScoreState(state) ==
    [f \in AllFields |-> IF f \in DOMAIN state THEN state[f] ELSE 0]

\* ScoreState::total_hits
TotalOfState(mode, s) ==
    s.n300 + s.n100 + s.misses
        + (IF mode # "taiko" THEN s.n50 ELSE 0)
        + (IF mode \in {"catch", "mania"} THEN s.n_katu ELSE 0)
        + (IF mode = "mania" THEN s.n_geki ELSE 0)

\* The settings that the builder of a mode has setters for
Accepts(mode) ==
    CASE mode = "osu"   -> Osu!Settings
      [] mode = "taiko" -> Taiko!Settings
      [] mode = "catch" -> Catch!Settings
      [] mode = "mania" -> Mania!Settings

\* Difficulty::new
NewDifficulty ==
    [mods |-> "nomod", passed_objects |-> None, clock_rate |-> None, ar |-> None,
     cs |-> None, hp |-> None, od |-> None, hardrock_offsets |-> None, lazer |-> None]

\* The setters of Difficulty: a clock rate, here in percent, and the four
\* attributes are clamped.
WithSetting(diff, name, value) ==
    LET Clamp(v, lo, hi) == MinOf(MaxOf(v, lo), hi)
        v == CASE name = "clock_rate" -> Clamp(value, 1, 10000)
               [] name \in {"ar", "cs", "hp", "od"} ->
                    [value EXCEPT !.value = Clamp(@, -20, 20)]
               [] OTHER -> value
    IN  [diff EXCEPT ![name] = v]

\* InspectDifficulty::into_difficulty: what is set goes through the setters.
IntoDifficulty(i) ==
    [s \in DOMAIN i |-> IF i[s] = None THEN None ELSE WithSetting(NewDifficulty, s, i[s])[s]]

PassedObjects(diff) == IF diff.passed_objects = None THEN U32Max ELSE diff.passed_objects
Lazer(diff) == IF diff.lazer = None THEN TRUE ELSE diff.lazer

------------------------------------------------------------------------------
(* Maps and attributes *)

\* Beatmap::convert_ref and convert_mut: the same mode is no conversion, and
\* only an osu! map that is not converted yet can be.
Converts(map, mode) == map.mode = mode \/ (map.mode = "osu" /\ ~map.is_convert)

Converted(map, mode, mods) ==
    IF map.mode = mode THEN map
    ELSE [mode |-> mode, is_convert |-> TRUE, mods |-> mods]

\* What calculate_for_mode returns: the counts of the objects passed, and as
\* auxiliary parts the settings and the mods of the conversion it was made with
Calculated(map, mode, diff) ==
    [counts |-> Counts[mode][MinOf(PassedObjects(diff) + 1, Len(Counts[mode]))],
     diff |-> diff,
     mods |-> Converted(map, mode, diff.mods).mods]

\* from_map_or_attrs.  One of map and attrs is None.
NewBuilder(mode, map, attrs) ==
    [mode |-> mode, map |-> map, attrs |-> attrs, diff |-> NewDifficulty,
     acc |-> None, best |-> TRUE, given |-> [f \in Fields(mode) |-> None]]

\* What generate_state reads
Inputs(b) ==
    [given |-> b.given, acc |-> b.acc, best |-> b.best, mods |-> b.diff.mods,
     passed |-> PassedObjects(b.diff), lazer |-> Lazer(b.diff)]

GeneratedFrom(b, counts) ==
    CASE b.mode = "osu"   -> Osu!Generate(Inputs(b), counts)
      [] b.mode = "taiko" -> Taiko!Generate(Inputs(b), counts)
      [] b.mode = "catch" -> Catch!Generate(Inputs(b), counts)
      [] b.mode = "mania" -> Mania!Generate(Inputs(b), counts)

\* The types of the structs and of the calls' arguments
Mods == {"nomod", "classic", "accurate"}

Difficulty ==
    LET Attribute == [value : Int, with_mods : BOOLEAN] \cup {None}
    IN  [mods : Mods, passed_objects : Nat \cup {None}, clock_rate : Int \cup {None},
         ar : Attribute, cs : Attribute, hp : Attribute, od : Attribute,
         hardrock_offsets : BOOLEAN \cup {None}, lazer : BOOLEAN \cup {None}]

Beatmap == [mode : Modes, is_convert : BOOLEAN, mods : Mods]

\* Each slider adds at least one to the combo.
CountsType(mode) ==
    CASE mode = "osu"   -> {c \in [n_objects : Nat, n_sliders : Nat, n_large_ticks : Nat,
                                   max_combo : Nat] : c.n_sliders <= c.max_combo}
      [] mode = "taiko" -> [max_combo : Nat]
      [] mode = "catch" -> [n_fruits : Nat, n_droplets : Nat, n_tiny_droplets : Nat]
      [] mode = "mania" -> [n_objects : Nat, n_hold_notes : Nat]

Attributes(mode) == [counts : CountsType(mode), diff : Difficulty, mods : Mods]

ASSUME NoneAssumption ==
    /\ None \notin Nat
    /\ None \notin Beatmap
    /\ \A mode \in Modes : None \notin Attributes(mode)

ASSUME MapsAssumption ==
    /\ Maps \subseteq Beatmap
    /\ \A mode \in Modes : Counts[mode] \in Seq(CountsType(mode)) /\ Counts[mode] # <<>>

ASSUME CallsAssumption ==
    /\ FieldCalls \subseteq AllFields \X Nat
    /\ StateCalls \subseteq [AllFields -> Nat]
    /\ AccCalls \subseteq Int
    /\ \A c \in SettingCalls :
            c[2] # None /\ [NewDifficulty EXCEPT ![c[1]] = c[2]] \in Difficulty
    /\ DiffCalls \subseteq Difficulty
    /\ MaxSetters \in Nat /\ U32Max \in Nat

\* MapOrAttrs: attributes are used as they are, a map is calculated
Fails(b) == b.attrs = None /\ ~Converts(b.map, b.mode)
AttrsOf(b) == IF b.attrs # None THEN b.attrs ELSE Calculated(b.map, b.mode, b.diff)
Generated(b) == GeneratedFrom(b, AttrsOf(b).counts)

\* A generate_state that does not store the misses it limited.
AfterGenerate_NoMisses(b) ==
    [b EXCEPT !.map = None, !.attrs = AttrsOf(b),
              !.given = [Generated(b) EXCEPT !.misses = None]]

\* generate_state keeps the attributes in place of the map and its result in
\* place of what was given.
AfterGenerate(b) ==
    [b EXCEPT !.map = None, !.attrs = AttrsOf(b), !.given = Generated(b)]

------------------------------------------------------------------------------
(* Calls *)

Nothing == [call |-> "none", of |-> None, state |-> None]

Init ==
    /\ \E mode \in Modes :
            \/ \E map \in Maps : p = NewBuilder(mode, map, None)
            \/ \E n \in DOMAIN Counts[mode] :
                    \* also what the gradual calculators do: the attributes of
                    \* the first objects, and passed_objects set to their number
                    LET attrs == [counts |-> Counts[mode][n], diff |-> NewDifficulty,
                                  mods |-> "nomod"]
                    IN  p = NewBuilder(mode, None, attrs)
    /\ out = Nothing
    /\ setters = 0

Setter(b) ==
    /\ setters < MaxSetters
    /\ p' = b
    /\ setters' = setters + 1
    /\ out' = Nothing

\* A setter of a hit result; a name the mode does not know changes nothing.
SetField(f, n) ==
    Setter(IF f \in Fields(p.mode) THEN [p EXCEPT !.given[f] = n] ELSE p)

\* state: the ScoreState is cut down to the fields of the mode.
SetState(s) == Setter([p EXCEPT !.given = [f \in Fields(p.mode) |-> s[f]]])

\* accuracy: clamped to 0 % .. 100 %
SetAccuracy(a) == Setter([p EXCEPT !.acc = MinOf(MaxOf(a, 0), AccScale)])

\* hitresult_priority, which osu!catch does not have
SetPriority(best) == Setter(IF p.mode = "catch" THEN p ELSE [p EXCEPT !.best = best])

\* A setter of the Difficulty
SetSetting(name, value) ==
    Setter(IF name \in Accepts(p.mode)
           THEN [p EXCEPT !.diff = WithSetting(@, name, value)] ELSE p)

\* difficulty: all settings at once
SetDifficulty(i) == Setter([p EXCEPT !.diff = IntoDifficulty(i)])

\* A conversion that drops what was said about the play.
ConvertedTo_Fresh(b, mode) ==
    [NewBuilder(mode, Converted(b.map, mode, b.diff.mods), None) EXCEPT !.diff = b.diff]

\* OsuPerformance::try_convert_map and the TryFrom of the other modes: on
\* success the builder of the new mode takes what it has a field for, on
\* failure the old one comes back.
ConvertedTo(b, mode) ==
    LET g == CASE mode = "taiko" -> Taiko!FromOsu(b.given)
               [] mode = "catch" -> Catch!FromOsu(b.given)
               [] mode = "mania" -> Mania!FromOsu(b.given)
    IN  [b EXCEPT !.mode = mode, !.given = g,
                  !.map = Converted(b.map, mode, b.diff.mods),
                  !.best = IF mode = "catch" THEN TRUE ELSE b.best]

MayConvert(b, mode) == b.mode = "osu" /\ b.map # None /\ Converts(b.map, mode)

\* try_mode; mode_or_ignore does the same and drops the error.
TryMode(mode) ==
    /\ p' = IF mode # p.mode /\ MayConvert(p, mode) THEN ConvertedTo(p, mode) ELSE p
    /\ out' = [call |-> IF mode = p.mode \/ MayConvert(p, mode) THEN "mode" ELSE "mode_err",
               of |-> p, state |-> None]
    /\ UNCHANGED setters

\* generate_state
GenerateState ==
    /\ p' = IF Fails(p) THEN p ELSE AfterGenerate(p)
    /\ out' = IF Fails(p) THEN [call |-> "convert_err", of |-> p, state |-> None]
              ELSE [call |-> "generate", of |-> p, state |-> ToScoreState(Generated(p))]
    /\ UNCHANGED setters

\* calculate on a clone of the builder: it generates the state first and then
\* finds the attributes in place.
Calculate ==
    /\ out' = IF Fails(p) THEN [call |-> "convert_err", of |-> p, state |-> None]
              ELSE [call |-> "calculate", of |-> p, state |-> ToScoreState(AfterGenerate(p).given)]
    /\ UNCHANGED <<p, setters>>

Next ==
    \/ \E c \in FieldCalls : SetField(c[1], c[2])
    \/ \E s \in StateCalls : SetState(s)
    \/ \E a \in AccCalls : SetAccuracy(a)
    \/ \E best \in BOOLEAN : SetPriority(best)
    \/ \E c \in SettingCalls : SetSetting(c[1], c[2])
    \/ \E i \in DiffCalls : SetDifficulty(i)
    \/ \E mode \in Modes : TryMode(mode)
    \/ GenerateState
    \/ Calculate

Spec == Init /\ [][Next]_vars

\* The builders a Performance can hold: Performance::new takes the mode of
\* the map, and OsuPerformance::try_mode(Osu) and mode_or_ignore hand over an
\* osu! builder whatever its map is.
AnyInit ==
    /\ \E map \in Maps, mode \in Modes :
            /\ mode \in {map.mode, "osu"}
            /\ p = NewBuilder(mode, map, None)
    /\ out = Nothing
    /\ setters = 0

AnySpec == AnyInit /\ [][Next]_vars

------------------------------------------------------------------------------
(* Properties *)

Made == out.call \in {"generate", "calculate"}

\* The hit results that share the objects of a mode, and those objects
NamesOf(mode) ==
    CASE mode = "osu" -> Osu!Names [] mode = "taiko" -> Taiko!Names
      [] mode = "catch" -> <<"n300", "n100">> [] mode = "mania" -> Mania!Names

ObjectsOf(b) ==
    LET counts == AttrsOf(b).counts
    IN  CASE b.mode = "osu"   -> Osu!NObjects(Inputs(b), counts)
          [] b.mode = "taiko" -> Taiko!NObjects(Inputs(b), counts)
          [] b.mode = "catch" -> Catch!NObjects(Inputs(b), counts)
          [] b.mode = "mania" -> Mania!NObjects(Inputs(b), counts)

\* The score of hit results and the most it could be, in each mode
AccuracyOf(b, s) ==
    LET counts == AttrsOf(b).counts
        max == Osu!MaxSliderHits(Lazer(b.diff),
                   Osu!NoSliderHeadAcc(b.diff.mods, Lazer(b.diff)), counts)
    IN  CASE b.mode = "osu"   -> Osu!Accuracy(<<s.n300, s.n100, s.n50>>, s.misses, s, max)
          [] b.mode = "taiko" -> Taiko!Accuracy(s, s.misses)
          [] b.mode = "catch" -> Catch!Accuracy(s, s.misses)
          [] b.mode = "mania" ->
                Mania!Accuracy(<<s.n_geki + s.n300, s.n_katu, s.n100, s.n50>>, s.misses)

\* All states with the misses, the combo and the slider parts of s that keep
\* the given hit results and account for every object
Alternatives(b, s) ==
    LET mode  == b.mode
        names == IF mode = "catch" THEN <<"n50", "n_katu">> ELSE NamesOf(mode)
        room  == IF mode = "catch" THEN AttrsOf(b).counts.n_tiny_droplets
                 ELSE ObjectsOf(b) - s.misses
        Allowed(f) == IF b.given[f] = None THEN 0 .. room ELSE {b.given[f]}
        Spreads == {h \in [ToSet(names) -> 0 .. room] :
                        /\ \A f \in ToSet(names) : h[f] \in Allowed(f)
                        /\ SumOver(h, names) = room}
    IN  {[f \in DOMAIN s |-> IF f \in ToSet(names) THEN h[f] ELSE s[f]] : h \in Spreads}

\* a is at most as far from the accuracy as b, both num / den
NoFarther(acc, a, b) ==
    LET Dist(x) == LET d == acc * x.den - AccScale * x.num IN IF d < 0 THEN -d ELSE d
    IN  Dist(a) * b.den <= Dist(b) * a.den

\* The settings are within their limits.
Within(v, lo, hi) == lo <= v /\ v <= hi
Clamped(diff) ==
    /\ diff.clock_rate # None => Within(diff.clock_rate, 1, 10000)
    /\ \A a \in {"ar", "cs", "hp", "od"} : diff[a] # None => Within(diff[a].value, -20, 20)

\* The type of the state.  That every count of a generated state is a natural
\* number says that no subtraction of u32 values underflows, whatever the
\* caller gave; the same is said of the subtractions calculate does with the
\* counts of an osu! state.  The settings are clamped whichever way they come.
TypeOK ==
    /\ p.mode \in Modes /\ (p.map = None) # (p.attrs = None)
    /\ DOMAIN p.given = Fields(p.mode)
    /\ setters \in 0 .. MaxSetters
    /\ Clamped(p.diff)
    /\ Made => \A f \in DOMAIN out.state : out.state[f] \in Nat
    /\ out.call = "calculate" /\ out.of.mode = "osu" =>
            LET counts == AttrsOf(out.of).counts
            IN  ~Osu!NoSliderHeadAcc(out.of.diff.mods, Lazer(out.of.diff)) =>
                    /\ Osu!SliderEndsDropped(counts, out.state) >= 0
                    /\ Osu!LargeTickMisses(counts, out.state) >= 0
                    /\ Osu!FullComboThreshold(counts, out.state) >= 0

\* Every object gets exactly one hit result, unless the caller gave more than
\* there are objects; and what the caller gave is kept where it fits and a
\* hit result is left open for the rest.
TotalHits ==
    Made =>
        LET b     == out.of
            names == NamesOf(b.mode)
            n     == ObjectsOf(b)
            total == TotalOfState(b.mode, out.state)
            told  == [f \in Fields(b.mode) |-> IF b.given[f] = None THEN 0 ELSE b.given[f]]
        IN  IF b.mode = "catch"
            THEN /\ out.state.n300 + out.state.n100 + out.state.misses = n
                 /\ told.n50 + told.n_katu <= AttrsOf(b).counts.n_tiny_droplets =>
                        total = n + AttrsOf(b).counts.n_tiny_droplets
            ELSE /\ total >= n
                 /\ SumOver(told, names) + told.misses <= n =>
                        /\ total = n
                        /\ \A i \in DOMAIN names :
                              Open(b.given, names) # {} /\ b.given[names[i]] # None =>
                                    out.state[names[i]] = told[names[i]]

\* With an accuracy the generated hit results are as close to it as any that
\* agree with what the caller gave: the searches look at a few candidates
\* around a bound only.
ClosestToAccuracy ==
    Made /\ out.of.acc # None =>
        \A s \in Alternatives(out.of, out.state) :
            NoFarther(out.of.acc, AccuracyOf(out.of, out.state), AccuracyOf(out.of, s))

\* generate_state replaces the map by attributes and the given counts by its
\* result, and calculate generates once more from there: the second result
\* has to be the first.
GenerateTwice ==
    Made =>
        LET again == GeneratedFrom(AfterGenerate(out.of), AttrsOf(out.of).counts)
        IN  ToScoreState(again) = out.state

\* A play that is reported completely is rated as it was reported, whatever
\* the accuracy and the priority: the gradual performance calculators hand over
\* a full state and the number of objects.
KeepsFullStates ==
    Made /\ (\A f \in Fields(out.of.mode) : out.of.given[f] # None) =>
        LET b == out.of
            given == b.given
            n == ObjectsOf(b)
            counts == AttrsOf(b).counts
            fits ==
                /\ SumOver(given, NamesOf(b.mode)) + given.misses = n
                /\ b.mode \in {"osu", "taiko"} => given.max_combo <= counts.max_combo - given.misses
                /\ b.mode = "mania" => given.misses <= MinOf(PassedObjects(b.diff), counts.n_objects)
                /\ b.mode = "catch" => /\ given.n300 <= counts.n_fruits
                                        /\ given.n100 <= counts.n_droplets
                                        /\ given.n50 + given.n_katu = counts.n_tiny_droplets
            kept == Fields(b.mode) \ Osu!SliderParts
        IN  fits => \A f \in kept : out.state[f] = given[f]

\* Once attributes are in place of the map, neither they nor the mode change;
\* a conversion happens to a map only, leaves what both modes know, and a
\* failed one leaves everything.
MapOrAttributes ==
    [][ /\ p.attrs # None => p'.attrs = p.attrs /\ p'.mode = p.mode
        /\ p'.mode # p.mode =>
                /\ p'.map.mode = p'.mode /\ p'.diff = p.diff
                /\ \A f \in Fields(p.mode) \cap Fields(p'.mode) : p'.given[f] = p.given[f]
        /\ out'.call \in {"mode_err", "convert_err"} => p' = p
        /\ p.map # None /\ p'.attrs # None => p'.attrs.diff = p.diff
      ]_vars

\* Performance::calculate expects that its builder needs no conversion that
\* could fail: it unwraps the result with "no conversion required".
NoConversionRequired == out.call # "convert_err"
=============================================================================
