# A verification project for mamestagram-pp-rs

mamestagram-pp-rs (crate `mames_pp`, a fork of rosu-pp) computes difficulty and
performance attributes ("stars" and "pp") of osu! maps for the four game modes
osu!, osu!taiko, osu!catch and osu!mania.  It is a sequential library: no
threads, no I/O besides reading a map, nothing persisted.  What is hard about it
is state that has to stay in step over long sequences of legal calls and loops:
gradual calculators that promise to yield object by object what the ordinary
calculation yields for a prefix, builders whose setters may come in any order, a
decoder that goes on behind lines it refuses, conversions that edit the lists
they walk over, and the hand-written containers and sorts under all of them.

Paths below are relative to `src/src/`.

## 1. Inventory

| Part | State | Operations | Correct when |
|---|---|---|---|
| Gradual difficulty (`*/difficulty/gradual.rs`) and performance calculators (`*/performance/gradual.rs`), one pair per mode, and the enums over them (`any/difficulty/gradual.rs`, `any/performance/gradual.rs`) | `idx`, the attributes counted so far, the skills, the difficulty objects; taiko: an iterator over them and `first_combos`; catch: one count delta per palpable object; mania: `NoteState` | `new`, `next`, `nth`, `last`, `len`, `size_hint` | every item equals the ordinary calculation with `passed_objects(idx)`; `nth(n)` skips exactly n; `len()` is exact; a loop ends |
| Ordinary calculation (`*/difficulty/mod.rs`) | locals | `Difficulty::calculate`, `strains` | counts and skills cover exactly the passed prefix |
| Performance builders (`*/performance/mod.rs`, `any/performance/mod.rs`, `util/map_or_attrs.rs`) with the settings of `any/difficulty` | map or attributes, difficulty settings, hit results given | setters, `try_mode`, `generate_state`, `calculate` | the generated hit results account for the objects passed, whatever the order of the setters, and generating twice changes nothing |
| pp formulas (`*/performance/calculator.rs`) | none | floating point formulas | out of scope |
| Skills of `define_skill!` (`util/macros.rs`, `any/difficulty/skills.rs`) | current strain, section end and peak, saved peaks | `process`, peaks, `difficulty_value` (also on a clone in mid-section) | the peaks are the maxima of consecutive sections |
| Hand-written skills (`osu/difficulty/skills/{aim,speed,reading,flashlight}.rs`) | aim keeps sections of variable length and a sorted list of peaks | `process`, peaks | the list stays sorted, the sections cover the map |
| `StrainsVec` (`util/strains_vec.rs`) | entries (value or run of zeros), `len`, debug flag | `push`, `retain_non_zero`, `sort_desc`, `retain_non_zero_and_sort`, `into_vec`, `transmute_into_vec` | looks like a plain list; no count is ever read as a value |
| Taiko preprocessors (`taiko/difficulty/{object,color,rhythm}`, `util/interval_grouping.rs`) | groups of objects that refer to one another | grouping at construction; queries of the skills | every object is in one group of each kind, in order; a repetition is seen as one |
| Conversion to osu!mania (`mania/convert/`) with `LimitedQueue` (`util/limited_queue.rs`) | last pattern, stair direction, times of the last notes | one pattern generator per kind of object | a free column is always found; notes never overlap |
| Conversion to osu!taiko (`taiko/convert.rs`) | index, last scroll speed, the map in place | a loop that splices lists | no object or sound is lost; notes scroll as the sliders would |
| osu! objects (`osu/convert.rs`, `osu/object.rs`) | stack heights | conversion, reflections, two stackings | circles at one place are told apart |
| Conversion to osu!catch (`catch/convert.rs`) | counts, offsets | object counts, juice streams, hyper dashes | counts are in step with the objects |
| Decoder and model (`model/beatmap`, `model/control_point`, `model/hit_object.rs`) | settings, pending and final control points, curve points, hit objects | one handler per section, the final conversion, `*_point_at`, `bpm` | lists sorted without redundant points; a refused line leaves nothing behind |
| Sorts (`util/sort`) | a permutation (`TandemSorter`) | three sorting algorithms | the order of the reference client; a list and its sounds stay paired |
| Legacy score (`osu/difficulty/legacy_score`) | combo and score of a simulated play | `simulate`, miss calculation | depends on the prefix only |

How they interact: a builder asks for an ordinary calculation, which converts
the map, creates difficulty objects and gives them to the skills, which push
peaks into a `StrainsVec` and rank them; from the attributes and what the caller
said about a play it generates hit results, which the formulas turn into pp.  A
gradual calculator does the conversion and the difficulty objects once, in its
constructor, and gives the skills one or more further objects with every call; it
then evaluates clones of the skills.  A gradual performance calculator makes a
builder of the attributes, sets `passed_objects` to its `idx` and hands over a
full state.

What is hard: every mode has its own `next`, `nth` and `len`, which repeat the
special treatment of the first object (in taiko of the first two) in several
places; `len()` feeds back into `nth`; containers encode their contents; skills
are evaluated in the middle of a section and go on; hit results given by a caller
may contradict each other and the map; handlers of the decoder change state before
they fail; conversions splice lists, avoid columns that may all be taken and
subtract from unsigned numbers.  The list with lines is in `PROJECT.json` under
`hazards`.

## 2. Modules

| Module | Models | Built from |
|---|---|---|
| `RustStd` | `min`, `max`, `saturating_sub`; totals over a set of indices | |
| `PrefixIterator` | the abstract promise of every gradual calculator | `RustStd` |
| `OsuGradual`, `TaikoGradual`, `CatchGradual`, `ManiaGradual` | the calculator of a mode and its ordinary calculation | `RustStd` |
| `AnyGradual` | the enums over the four modes, and the promises all share | the four, `PrefixIterator` |
| `HitResults` | what the `generate_state` functions share: limiting, filling up, searching for an accuracy | `RustStd` |
| `OsuPerformance`, `TaikoPerformance`, `CatchPerformance`, `ManiaPerformance` | fields, conversions and `generate_state` of the builder of a mode | `HitResults` |
| `Performance` | the builders with all their calls, the `Difficulty` in them, `MapOrAttrs` | the four |
| `NoteDensity` | the ring array (`LimitedQueue`) and `compute_density` on it | |
| `LastElements` | the abstract queue: the last N elements | |
| `StrainsVec` | the compact list of peaks | |
| `RawStrainsVec` | the plain list of the feature `raw_strains`, used as the abstract specification | |
| `StrainSkill` | `process`, sections and peaks of a macro skill | `StrainsVec` |
| `ControlPoints` | points, `is_redundant`, insertion, binary search | `RustStd` |
| `Sorting` | stable, legacy and `osu_legacy` sorts, `TandemSorter` | `RustStd` |
| `SliderPath` | `convert_path_str` and `convert_points` | `ControlPoints` |
| `Decoder` | the state of the decoder, its line handlers, the decoded map and `bpm` | `SliderPath`, `Sorting` |
| `ManiaPattern`, `HitObjectPattern`, `PathObjectPattern` | patterns and columns; the generators for circles and for sliders | `RustStd` |
| `ManiaConvert` | the generator for spinners, the choice of columns and the loop over the objects | the two generators |
| `MapObjects` | what conversions ask of a map | `ControlPoints`, `Sorting` |
| `OsuObjects` | `convert_objects`, nested objects and reflections; both stackings | `MapObjects` |
| `TaikoConvert` | the conversion to osu!taiko, step by step | `MapObjects` |
| `TaikoPreprocessing` | difficulty objects, color groups and rhythm groups | `MapObjects` |
| `Conversions` | what becomes of a map: osu! objects, an osu!taiko map, its groups | the three above |
| `Counting_proofs` | lemmas: totals, least elements, k-th elements of sets of numbers, multiples | `RustStd` |
| `OsuGradual_proofs`, `AnyGradual_proofs` | the invariants of the calculators and the theorems (section 4) | the calculators, `Counting_proofs` |
| `NoteDensity_proofs`, `Performance_proofs` | theorems about the ring and the builders | `NoteDensity`, `Performance` |
| `StrainsVec_proofs`, `StrainSkill_proofs` | theorems about the list of peaks and the sections | `StrainsVec`, `StrainSkill` |
| `ManiaConvert_proofs` | theorems about the pattern generators and the conversion to osu!mania | `ManiaConvert`, `Counting_proofs` |
| `MC*` | the instances that are model-checked | |

### The gradual calculators

`it` is the Rust struct: `idx`, the counted attributes, and per skill the
sequence of difficulty objects it was given.  A skill's strains are a function
of that sequence, so two evaluations are equal when the sequences are.  `ret` is
the `Option` the last call returned.  `objs` is the converted map: per object
what the counting can tell apart (osu!: kind, nested objects and large ticks;
taiko: hit or no hit; catch: the events recorded by the object count builder;
mania: circle or long note with its ticks).  `NextCall`, `NthCall(n)` and
`LastCall` are the whole calls; the loop inside `nth` is one step because nobody
can observe it.  `Skipped` (taiko: `NthFrom`) is the part of `nth` before it
calls `next`.  `Calculate(k)` is the ordinary calculation with
`passed_objects(k)`, written from `DifficultyValues::calculate` and not from the
iterator.

What the abstraction rests on: the attributes that do not change during the
iteration (AR, hit windows and so on) are left out, and the legacy score
attributes of osu! are the prefix and the count they are computed from.  In
osu! and taiko both calculations create the difficulty objects of the whole map,
so a skill that looks ahead sees the same in either.  In catch and mania the
ordinary calculation creates only those of the passed objects, but the skills of
these modes only look back.

`AnyGradual` chooses a mode in `Init`, as `new_with_mode` does, and forwards.
`Regular` names the one restriction of the common promises: a taiko map with more than two
objects that opens with two hits (see section 5 for the others).  `InStep`,
`Fused` and `ForLoopEnds` are checked on every taiko map.

### The performance builders

`p` is the Rust builder: its mode, the map or the attributes (one of them is
`None`), the settings, the accuracy, the priority and the hit results `given`.
`out` is what the last `generate_state`, `calculate` or `try_mode` returned and
the builder it was called on, `setters` counts the setters called.  Every setter
is an action; a setter that a mode does not have leaves the builder alone, as
`Performance` does.  `Init` makes a builder of a map or of attributes, among them
those of a prefix, which is what the gradual performance calculators hand over.
`Counts` stands for the calculation: per mode what is counted in the first 0, 1,
2 ... objects.  `GenerateState` replaces the map by attributes and stores the
result, and `Calculate` consumes the builder, so it leaves `p` as it was.

Hit results have the names of `ScoreState` in all modes, as in `Performance`.  An
accuracy is a number of `AccScale`-ths and the arithmetic is exact, where the code
uses `f64`: the searches of `HitResults` round down where the code casts to `u32`
and compare distances exactly.  `ClosestToAccuracy` is written from all
alternatives (every distribution that agrees with what was given), not from the
search.

### The containers and the skills

In `NoteDensity` the struct `LimitedQueue` is a record (`queue`, `end`, `len`) with
an operator for each of its functions, and the one action is the closure
`compute_density`: push, then one of three slice patterns.  Times come from a small set; `end` starts at
N - 1 and the array holds a default, as in the code.

`StrainsVec` keeps entries `[zero, n]`, a run of n zeros or the value n; the
union of a float and a count in the code is told apart by its sign bit.  It
implements `RawStrainsVec` under `inner <- IntoVec(vec)`.

`StrainSkill` models `process`: the loop over section ends is the closed form
`SectionsPassed`, and each round saves a peak with `Pushed` of `StrainsVec`.  Times
are whole numbers, the decay is a constant operator.  `PeaksOf` is the
independent definition: the maximum over each section of the map.

### The decoder

The variables are the fields of `BeatmapState`.  A line is a record of its fields;
`valid` is `FALSE` where a number cannot be parsed, is out of bounds or missing, and
the handler returns its error at that place: what it changed before stays.  An action
is one handler with one line (`ParseGeneral`, `ParseDifficulty`, `ParseEvents`,
`ParseTimingPoints`, `ParseHitObjects`), in any order, since sections may come
in any order and more than once; `Finish` is the conversion of the state to the
`Beatmap`.  `points` holds the three lists and the pending points of the last
time.  `curve_points` outlives a slider line that fails, as in the code.  `lines`
remembers what was read and whether it was accepted; only the properties use it.
`TypeOK` also asks (`NothingPendingLost`) that what was pending when the map was made
is in its lists; which point is pending is the matter of `ActiveControlPoints`.

Positions are pairs of small integers, and collinearity is the exact determinant.
`Sorting` has the thresholds of the two sorts as constants, so that small lists
reach the heap sort and the insertion sort.  A beat length may be `NotANumber`.

### The conversion to osu!mania

`ManiaConvert` takes one object after the other.  The generators are operators
that give the set of all patterns the random numbers allow: an operator follows
the code's order of choices, and the number is free in each.  An object is
reduced to what the generators compare: the time to the object before, whether it is
near and dense (the comparisons of `pos_separation` and `density`), samples,
durations.  Any object may follow any other.  `panicked` is an assertion of
`has_valid_column` that failed.  `last_pattern` keeps what the next object asks:
its columns, its last column, how many notes.  A loop of a generator is a recursive
function of the round, whose values are the sets of states after it.

### The conversions that edit a map, and the groups

`TaikoConvert` has one action per round of the loop (`KeepObject`,
`ConvertSlider`, `ConvertHold`) and `FinishTaiko`, the sort and the settings behind
it; `idx` and `last_scroll_speed` are the code's locals.  The number of hits of a
slider is the closed form of the loop over its ticks, with the tolerance of an
eighth.  `OsuObjectsOf` converts and stacks the objects of an osu! map in one
step: the stacking is a fold over the indices in the code's order, with the base
that moves and the early end as its state.  `Preprocess` creates the difficulty objects
of an osu!taiko map, native or converted, and groups them.  A group is an interval
of indices, where the code has lists of weak references; the queries of the
stamina skill (`AvailableFingers`, `PreviousOfFinger`) walk the same links.

Times are whole milliseconds at clock rate 1 and velocities whole percents; the
scroll speed factors of mods are left out.

## 3. Runs

| Run | Question | Bounds |
|---|---|---|
| `osu_gradual` | does every interleaving of `next`, `nth`, `last` yield the ordinary results, and is `len()` right? | all maps of up to 4 objects of 4 kinds; `nth` by 0..5 and `usize::MAX` |
| `any_gradual` | the same for all four modes behind the enum; do loops over `next` end? | osu! 3 objects; taiko all maps of up to 6; catch up to 3 hit objects of 4 shapes (12 palpable objects at most); mania up to 3 notes and every `passed_objects` from 0 to beyond the map; `nth` by 0..7 and `usize::MAX` |
| `any_gradual_len` | violation: is taiko's `len()` the number of items that `next` will still return? | one map that opens with a drumroll |
| `any_gradual_clock_rate` | violation: does mania's combo match at any clock rate? | one map with the long note of section 5 |
| `performance` | do the generated hit results account for every object, come closest to the accuracy, stay the same when generated again, and keep a full report? | up to 3 setters in any order, then any number of conversions and calculations; objects counted from none to 4; hit results that fit, that fit only alone and that do not fit; accuracies on both sides of what can be reached and above 100 % |
| `performance_any` | violation: does a builder that is handed over need no conversion? | any map behind an osu! builder, one setter |
| `note_density` | does the ring show the last 7 times at every fill, and are first and last taken right? | the capacity of the code, three times |
| `strains_vec` | does the compact list look like the plain one after any sequence of calls? | up to 6 pushes of three values |
| `strain_skill` | are the peaks the maxima of the sections, in mid-section too? | up to 4 objects: at the same time, on a border, in the next section and several sections later |
| `decoder` | does the map say what the accepted lines of the file say? | files of up to 4 lines of any sections in any order; timing lines at three times with and without change, speed, kiai and NaN; objects at equal and different times; slider paths of several segments, with repeated points, straight perfect curves and failures |
| `mania_convert` | is a column always found, and do notes neither overlap nor stack nor leave their object, for any random numbers? | stages of 1 to 8 columns; difficulties of 1.3, 2.9, 5.9 and 7.0, one on each side of the code's limits; circles at every limit of time, sliders for every pattern; any sequence of objects |
| `conversions` | does the osu!taiko conversion lose nothing and scroll right; are stacked circles told apart, whatever the reflection; are taiko notes grouped right? | 3 or 4 objects at four places at close and distant times, old and new versions; single sliders of up to nine nested objects; two sliders of three lengths with difficulty and effect points; 8 taiko notes of any types with at most one drum roll; 6 notes at any of five intervals |

The bounds are enough because the code distinguishes few cases.

* An iterator tells apart: before the first (two) objects, in the middle, at the
  last item, behind it; 4 objects give each of these before and after each other,
  and every call with an argument that stops short, at, or beyond the end.  Six
  taiko objects give the first two, a non-hit between hits, a trailing non-hit and
  room to skip.  `USizeMax` is 1000: larger than anything a map yields, which is
  all `last` needs; in taiko's `len()` it is where the unchecked subtraction wraps
  in a release build.
* The ring wraps at 7 and the run fills it more than once.  Two runs of zeros with
  a value between, removed or not, need 5 pushes.
* A `generate_state` looks at two hit results given, or one and an accuracy, before
  a last setting matters: 3 setters.  `AccScale` is the prime 47,
  so an accuracy of 29 or 44 lies between two that can be reached, and every
  search has to choose.  Four objects leave two open when two are told.
* Two timing lines make and close a group of equal time; a third has to be
  compared with both, and an object or a timing line of an earlier time comes on
  top of that: 4 lines.  `QuickSortDepth` = 1 (32 in the code) brings the three
  objects of an osu!mania file to the heap sort.
* `ManiaConvert` keeps between objects only `last_pattern` and the stair direction:
  the run reaches all of them, so any length of map is covered.  Long sliders are
  left out of stages of 6 and 7 columns, where they have tens of thousands of
  patterns; those of 5 and 8 columns take the same branches.  The theorems of section 4
  cover those too, and stages of nine and ten columns.
* Stacking relates an object, the base and one object between; the fourth object
  shows the base move twice.  In the taiko conversion an object that grows into
  hits is before and behind another one that does, or does not.  With
  `IntroSortSize` = 4 (16 in the code) the nested objects of a long slider, up to nine,
  are partitioned and then sorted by insertion.  A repeating
  pattern needs four patterns, one more to end it and one to come back to it: eight
  notes of two types.  `MaxRepetitionInterval` is 3 instead of 16 so that the bound
  is met.

Deadlock is checked in every run except `strain_skill`, `decoder` and
`conversions`, where the objects of a map or the lines of a file come to an end.
The iterators never stop: a call on an exhausted one returns `None` again.

Fairness: `ForLoop` adds `WF_vars(NextCall)`: the caller is a `for` loop,
`collect` or anything else that goes on calling `next`.  `ForLoopEnds` says that
it comes to its end.  No other fairness is assumed, and a caller may mix in
`nth` and `last` at will.

Each property has a mutant in `PROJECT.json`: a changed definition such as a
plausible bug would be, next to the original in its module (names with an
underscore, such as `Skipped_NoClamp`), under which the run fails.

## 4. Theorems

All proofs are for every value of the constants, under the assumptions named in
the modules.

* `MapsAssumption`, `ArgsAssumption` (`ModesAssumption`, `CallsAssumption` of
  `AnyGradual`): maps are sequences of objects, arguments are natural numbers and 0
  and `USizeMax` are among them.  Of osu!catch it is assumed that the last event
  recorded for a map is a fruit: a circle records one and nothing else, a juice
  stream ends with the fruit of its tail, and other objects record nothing
  (`catch/convert.rs`, `catch/object/juice_stream.rs`).  Without it tiny droplets
  behind the last palpable object would belong to no item.
* `LengthsAssumption`: a taiko map has at most `usize::MAX` objects, the length of
  a slice.  Without it `len()`, which computes modulo 2^w, could wrap to a smaller number.
* `CapacityAssumption`, `DefaultAssumption`: the ring has a positive capacity, and its
  default is an element.
* Of a strain skill (`StrainSkill`): sections have a positive length and difficulty
  objects are ordered by time, as the hit objects are that they are made of.  The
  theorems have one hypothesis more, `Decays`: what is left of a strain is no negative
  number.  It is not an `ASSUME` because TLC could not evaluate it; the halving
  decay of the run satisfies it.
* Of the builders (`Performance`): `NoneAssumption`, `None` is no number, no map and
  no attributes; `MapsAssumption`, a mode's attributes have the counts of that mode,
  and no more sliders than combo, because every slider adds at least one to it
  (`osu/convert.rs`); `CallsAssumption`, the arguments of the setters have the types of their
  parameters (hit results are unsigned, a setter is not given `None`).  How many maps,
  attributes and setters there are, and how large the numbers get, is open.
  `MapOrAttributesHolds` uses none of the three.
* Of the maps that become osu!mania maps (`MapsAssumption` of `ManiaConvert`): a mod
  asks for one to ten keys or none does (`mania_keys` in `model/mods.rs`; `TargetColumns`
  computes the number otherwise, out of any settings), a slider has at least one span
  and no object ends before it begins.  Positions, times between objects, difficulty,
  and how many objects there are, are open.

### The calculators of all modes (`AnyGradual_proofs`)

* `TypeCorrect`, `InStepHolds`: whatever is called in whatever order and on whatever
  map, what was counted and what the skills saw is what belongs to the position.
* `ExactSizeHolds`, `FusedHolds`: an item is returned exactly if `len()` is positive
  (`Regular` maps), and an exhausted taiko iterator stays so on every map.
* `LengthIsRemaining`: on `Regular` maps with an item `len()` is the number of items
  that `next` will still return.  That number, `ItemsToCome`, is not taken from
  `len()` or `idx`: it counts the positions at which `next` finds something, in
  osu!taiko the first two objects that are not passed and the hits ahead.  The
  theorem is the other half of the finding of `any_gradual_len`: the restriction that
  the finding shows to be necessary is also sufficient.
* `ItemsAreCountedHolds`: `ItemsToCome` is what its name says, on irregular taiko maps
  too.  While it is positive a call of `next` returns an item and lowers it by one;
  when it is 0, a call returns nothing and leaves it at 0.  So exactly that many calls
  return an item.  For osu!taiko the proof follows the hits from one position to the
  next (`TaikoNextAt`); in the other modes the number is `NItems - idx`
  (`ItemsAfterPosition`).
* `MatchesCalculateHolds`: what a call returned is what the ordinary calculation with
  `passed_objects(idx)` returns.
* `Refinement`: in every mode each call is a step of `PrefixIterator`.

The last two are stated under `ExactTicks`: if the mode is osu!mania, the three
expressions the code has for the ticks of a long note agree on every note of the
map.  They do at clock rate 1, and the finding of `any_gradual_clock_rate` is a
map on which they do not; the other modes have no such condition.

The inductive invariant `AnyInv` is one per mode.  Each says that `it` is a
function of the position and that a returned value is the evaluation of `it`.

| Mode | Invariant | What the step rests on |
|---|---|---|
| osu! (`OsuGradual_proofs`) | `it = StructAt(it.idx)`: the counts run one object ahead at the start only, each skill saw objects 1 .. idx - 1 | consuming objects a .. b behind StructAt(a) gives StructAt(b), because totals over disjoint sets add up |
| osu!mania (`ManiaInv`) | `it = ManiaAt(it.idx)`; the notes counted are a total of one of the three tick expressions | the same, and that capped sums of combos may be taken in parts; the first item counts its note without a strain |
| osu!catch (`CatchInv`) | `it = CatchAt(it.idx)`: fruits, droplets and tiny droplets of the first idx deltas, which were recorded per palpable object when the map was converted | the deltas up to a palpable object add up to the events up to it (`CatchGradualCounts`), the tiny droplets between two of them belong to the second |
| osu!taiko (`TaikoInv`) | `it = TaikoAt(it.idx, it.cursor)` with `TaikoReached`: idx is not a function of the cursor alone, because the first two objects count as items whatever they are | `nth` reads up to the (n+1)-th hit ahead of the cursor; `KthElement` names it, `TaikoReadMany` and `TaikoSkips` say that reading item by item and skipping stop at the same object |

`MatchesCalculate` is in no mode inductive by itself, because it is silent about
the skills while nothing was returned.  The lemma `AnyMoves` says for all modes
at once that a call of `nth(n)` does what `Goal(n)` says (`next` is `nth(0)`), and the
theorems follow from it.  osu! is not proved twice: its proofs are instantiated
(`OsuP`) with the maps of `AnyGradual`.

Where a definition ranges over data of any length (the k-th hit, the deltas of a
map), the argument is an induction, and it is made by a least counterexample:
`LeastNatural` (`Counting_proofs`) says that a non-empty set of natural numbers has a least
element, and the proof refutes the least one that fails.  The induction theorems
of the library, which take an operator as a parameter, cannot be applied here.

### The performance builders (`Performance_proofs`)

* `PerformanceInvHolds`: the inductive invariant.  A builder has the parts of its
  mode with clamped settings, it has either a map or attributes, and the state that
  was generated last is `Generated(out.of)` of the builder kept beside it.  The last part
  makes every statement about `out.state` one about an operator: what a
  `generate_state` returns for any builder whatsoever.
* `TypeCorrect`: no subtraction of `generate_state` underflows, nor those of
  `calculate` with slider parts.
* `TotalHitsHold`: every object gets exactly one hit result, unless more was told than
  fits; what was told is kept while another result is open.
* `GenerateTwiceHolds`: what `generate_state` leaves behind generates itself.
* `KeepsFullStatesHolds`: a complete report is rated as it was reported.
* `MapOrAttributesHolds`: attributes stay, with their mode; a conversion needs a map;
  a failed call changes nothing.  `FieldsInv` is all it needs of a builder.

The proof goes in three layers.

1. *The searches.*  They go through the numbers around a bound and keep the first of the
   closest.  Candidates are ordered by distance and then by the order of the loops, which
   is a total order (`BeforeIsTotal`, `BeforeIsTransitive`, `FractionsAreTransitive`), so a
   finite set of them has a least one (`HasLeast`), and a search returns one of the
   candidates it tried (`ClosestIsOne`); else the `CHOOSE` of the model would say nothing.
   `Rounded` and `AroundIsNear` bound the numbers that are tried by what is left.
2. *The modes.*  `TaikoResult`, `CatchResult`, `OsuResult` and `ManiaResult` say what a
   generated state is in terms of what was told: who takes the rest (the first
   open result of the priority, by `FillsOne`; the searched ones share it), what is
   capped by what, and that what was told stays where it fits.  `TaikoGenerates` to
   `ManiaGenerates` prove them, one step per branch on which results are told.  In
   osu!mania the two nested loops and the spreading for the worst priority move hits between
   judgements: `ManiaOuterLoop`, `ManiaInner` and `ManiaSpreads` say they keep the sum.
3. *The builders.*  One step per setter for the invariant (`SettersAreGood`), among them
   that every way to a setting clamps it (`SettingsAreClamped`), and `ConvertsBuilder`
   for the conversions, which drop the fields the new mode does not have.  Each property
   then follows from the result of the mode: `OsuAccounts` .. `ManiaAccounts` for the sum,
   `OsuAgain` .. `ManiaAgain` for a state given back as told, `OsuKept` .. and `OsuFullState` ..
   for complete reports.

`TotalHits` and `GenerateTwice` could be violated by any one branch of the case
distinction on which results are told; in osu! and osu!mania these are more than
the run's settings meet in one builder, which is why they are worth a proof.

### The conversion to osu!mania (`ManiaConvert_proofs`)

* `HasValidColumnHolds`: the code asserts, whenever it looks for a free column, that there
  is one.  The assertion never fails, for any map, stage, order of objects and
  random numbers.
* `NoOverlapHolds`: no two notes of an object are in one column at one time.
* `NotStackedHolds`: a fast circle keeps off the columns of the pattern before it, other
  than the special column, and is left without notes only if no column was left.
* `KeepsToObjectHolds`: notes lie within their object, one begins with it unless it is a
  circle, and the columns the next object sees are those where a slider ends.
* `TypeCorrect`; `IInvHolds`, the inductive invariant the others follow from.

That a column is found depends on how many columns the notes made so far have, and
on how many the pattern before left.  `IInv` says the second between two objects:
`IsSummary` bounds the columns of `last_pattern` by the stage, ties its last column
to them, and adds `Roomy`: with eight columns, where the first is special and never
drawn, the last pattern is not that column alone and leaves two others
free.  Without the first half a stair downwards could step below the first column and
a reversal of that pattern would have no notes.  Without the second half a fast circle
could be left without notes though a column is free, because the code subtracts all
columns of the last pattern, the special one too, from those that are drawn.  `TypeOK`
states the first half; the second is in no property and is the strengthening.

The first is said of a pattern in the making.  There is one predicate for each way of
making it: `IsNotes`, all notes in order with their columns known; `IsSized`, one note
in each of so many columns; `HeldNotes`, one long note and rows of short ones that
end before the next row.  `AddedToSized` and `NoteJoined` add one note; `FreeColumn`
and `MirrorsApart` find the column for it by counting.  A generator is proved by what holds
after each of its rounds, and ends in one lemma about every pattern it can give
(`RandomNotesOfAre`, `StairIs`, `RandomMultipleNotesAre`, `HoldAndNormalNotesAre`, ...).
`NextPatternIs` says which of them an object comes to, `SummaryIs` what the next
object is told.

The rounds are recursive functions.  A recursive function is a `CHOOSE`, of
which nothing is known until one with its equations is shown to exist.
`RunExists` and `ReachedExists` show it for functions on `0 .. n`, by a least
counterexample, if the values stay in given sets; so each loop is proved together with
what it preserves (`StepsKeep`).

### The other proofs

* `OsuGradual_proofs`: `TypeCorrect`, `InStepHolds`, `MatchesCalculateHolds`,
  `ExactSizeHolds`, `Refinement`: the same promises for the osu! calculator by itself.
* `NoteDensity_proofs`: `TypeCorrect`, `IndexAgreesHolds`, `Refinement`, for
  every capacity.  The invariant adds `Unwrapped`: while the array is not full,
  `end` is `len - 1` (N - 1 when empty), without which the first slice could not
  be told from the unused rest.  The main lemma is that a push appends to the
  elements shown and, at the capacity, drops the first.
* `StrainsVec_proofs`: `TypeCorrect`, `Refinement`, for every set of values and any
  number of pushes.  `TypeOK` of `StrainsVec` is inductive as it stands: a push that
  could lay two runs side by side joins them instead, and both ways of removing
  zeros clear the flag.  The refinement needs it, because a sort by bits sorts by
  value only where no run is left (`SortedFalls` over `OnlyValues`).  Three facts about
  lists carry it: what `FlattenSeq` does with one list more (`FlattenAppend`), what the
  insertion sort does with one entry more (`FallingAppend`), and that what holds of
  the empty list and survives one element more holds of every list (`ListInduction`).
  With them `into_vec` commutes with each operation: `PushedAppends`,
  `ValuesOfRetained`, `NumbersOfFalling`.

* `StrainSkill_proofs`: `SkillInvHolds`, `TypeCorrect`, `PeaksHold`, `RanksHold`.  The
  properties only speak of the peaks that are reported.  The invariant says where they
  come from: `IsInSection(skill, idx, SectionOf(idx))` fixes the section that is under way by
  the last object, its peak as the maximum of the strains in it so far, and the list as
  the peaks of the sections before.  A step goes through the same statement of
  the section of the next object (`PassesSections`): the loop makes as many rounds as
  sections end (`SectionsBetween`, from the inequalities of a quotient), and a section without
  an object has what is left at its begin (`NoObjectYet`).  `IsMaximum` rather than `Max`
  is carried along, so that no set needs to be shown finite.  `RanksHold` takes
  from `StrainsVec_proofs` what removing zeros and sorting do (`RankedFalls`): the
  insertion of an element keeps the list falling and counts it once
  (`PlaceInFalling`, `CountedInsertion`).

### Model-checked only

Liveness (`ForLoopEnds`).  `ClosestToAccuracy` of the builders: that the few numbers a
search tries are enough compares fractions over all alternatives, which is non-linear
arithmetic the provers do not find; that a result is one of those tried is proved.
The decoder, the conversion to osu!taiko, the osu! objects and the groups.

Liveness under fairness, ENABLED and anything with a RECURSIVE operator are out of this
prover's reach.  The last holds for the modules that reach `Sorting`, whose
partition loops are recursive: `Decoder`, `MapObjects`, `OsuObjects`,
`TaikoConvert`, `TaikoPreprocessing` and `Conversions`.

## 5. What was found

* `any_gradual_len`: taiko's `len()` subtracts `idx`, which counts the first two
  objects whether or not they are hits, from the number of hits.  On maps that
  open with a drumroll it is too low, from the start (a drumroll and three circles
  are four items, and `len()` is 3), and it underflows when `idx` passes the
  number of hits.  For the same reason item i is not `passed_objects(i)` there.
* `any_gradual_clock_rate`: mania recomputes a long note's ticks from times that
  were divided and multiplied by the clock rate; a note from 98 ms to 198 ms at
  rate 1.1 loses its tick.  `MatchesCalculate` is stated of any clock rate and is
  the property of this run; at rate 1 `IsPrefixIterator` covers it.
* `performance_any`: `OsuPerformance::try_mode(Osu)` hands over an osu! builder
  whatever mode its map has, and `mode_or_ignore` does so for every mode that
  fails.  `Performance::calculate` unwraps the conversion of such a builder, which
  fails for a map of another mode, with the message "no conversion required".

Smaller differences, excluded by name in the properties: `len()` is 1 for an
osu!, catch or mania map without objects (`NItems > 0`); on a taiko map of at
most two objects `next()` returns `None` while `len()` is the number of hits
(`Regular`); objects behind the last hit of a taiko map belong to no item, so
`last()` leaves them out; `StrainsVec::len()` is not lowered by
`retain_non_zero`.

Also met, and modelled as the code has it:

* A slider line that fails in the middle of its path leaves its first segments in
  `curve_points`, and the next slider begins with them (`NothingLeft` in
  `SliderPaths`).
* `DifficultyPoint::is_redundant` ignores `bpm_multiplier`, so a line that changes
  only that adds no point (`SpeedIs`).
* Where two beat lengths are active equally long, `bpm` takes the one its `HashMap`
  yields first (`MostCommonBeatLens` is a set).
* For osu!mania the objects are sorted once more by the legacy sort and the sounds
  are not, so sounds may belong to other objects (`SortedInTandem` excludes them).
* The legacy sort compares with whatever is at the pivot's index at the moment, and
  a swap may move the pivot away: it does not sort every list.  At times 0, 1, 1, 0,
  0, 1 it ends with 0, 0, 1, 0, 1, 1.  Both callers sort stably before, and then
  it only swaps objects at one time, which is what the decoder's run sees.
* With lazer scoring osu!mania adds all hold notes of the map to the objects,
  whatever `passed_objects` says; osu!catch ignores `passed_objects` in
  `generate_state` and does not limit the combo given.
* Stacking gives two circles at one place the same height if a slider that begins
  or ends there comes between them (`Touches` in `StackHeights`).
* `DifficultyObject`s of drum rolls have a `note_idx` of 0.  A note behind a drum roll can
  therefore join its streak, whose `previous_color_change` is then `None`, and
  `next_color_change` of a streak that ends with a drum roll is the second note
  of the map (`NotesOnly` in `ColorGroups`).

Noted, and intended: `nth` stops at the last item instead of running off the
end as `Iterator::nth` does, which is what makes `last` work; the osu!, taiko
and catch calculators ignore `passed_objects` while mania's obeys it
(`passed_objects(0)` still yields one item).

## 6. Not modelled

* Floating point: every formula from strain to stars to pp, map attributes with
  mods (`model/beatmap/attributes.rs`), the lazy end position and the pixel offsets
  of stacking.  Where a comparison of such numbers decides what happens, the model
  has the outcome as an input (`near`, `dense`) or computes exactly in integers.
  Rounding is therefore out of the models' sight, except where a run is about it
  (`any_gradual_clock_rate`).
* Splitting lines into fields and parsing numbers: a line is valid or not.
* The sequence of `util/random.rs`: its numbers are free, which covers every seed
  and hides what only one seed could show.
* The sections of aim and the other hand-written skills; of the macro's skills
  those with an initial strain of their own and the top-weighted counts.
* The offsets, hyper dashes and order of catch objects: counts are recorded in the
  order of conversion and palpable objects sorted by time afterwards, which can
  differ on maps with overlapping juice streams.
* The legacy score simulator and `legacy_total_score`.
* `util/sync.rs` (wrappers of `Rc` and `Arc`), and the lifetime extension in the
  taiko calculator: a model of values has no addresses.

## 7. Plan

Done: the gradual calculators and their promise, the containers, the sections of
strain skills, the performance builders, the decoder, the conversions to osu!taiko
and osu!mania, osu! objects with stacking, the taiko preprocessors; proofs for
the calculators of all modes, the ring, the strain list, the sections of skills,
the builders and the conversion to osu!mania.  Left, in this order:

1. Aim's variable-length sections and their sorted list of peaks.
2. The legacy score simulator, its combo and its score over the objects of a prefix.
3. The conversion to osu!catch: offsets and hyper dashes over sorted objects, with
   maps whose juice streams overlap.
