---------------------------- MODULE OsuPerformance ----------------------------
(***************************************************************************)
(* OsuPerformance: what its builder has, generate_state and the counts     *)
(* that calculate derives from its result.                                 *)
(***************************************************************************)
EXTENDS HitResults

SliderParts == {"slider_end_hits", "large_tick_hits", "small_tick_hits"}

\* The hit results and the settings the builder has setters for
Fields == SliderParts \cup {"max_combo", "n300", "n100", "n50", "misses"}
Settings == {"mods", "passed_objects", "clock_rate", "hp", "od", "ar", "cs", "lazer"}

Names == <<"n300", "n100", "n50">>

\* Whether slider heads do not count towards accuracy: with Classic unless
\* its setting says otherwise, and on stable
NoSliderHeadAcc(mods, lazer) ==
    CASE mods = "classic"  -> TRUE
      [] mods = "accurate" -> FALSE
      [] OTHER             -> ~lazer

\* The slider parts that count for the accuracy in each OsuScoreOrigin
MaxSliderHits(lazer, classic, attrs) ==
    CASE ~lazer ->
            [slider_end_hits |-> 0, large_tick_hits |-> 0, small_tick_hits |-> 0]
      [] lazer /\ ~classic ->
            [slider_end_hits |-> attrs.n_sliders,
             large_tick_hits |-> attrs.n_large_ticks, small_tick_hits |-> 0]
      [] lazer /\ classic ->
            [slider_end_hits |-> 0,
             large_tick_hits |-> attrs.n_sliders + attrs.n_large_ticks,
             small_tick_hits |-> attrs.n_sliders]

\* Given slider parts that are not limited.
SliderHits_Unlimited(given, max) ==
    [f \in DOMAIN max |-> IF given[f] = None THEN max[f] ELSE given[f]]

SliderHits(given, max) ==
    [f \in DOMAIN max |-> OrAll(given[f], max[f])]

\* slider_acc_value
SliderValue(s) ==
    150 * s.slider_end_hits + 30 * s.large_tick_hits + 10 * s.small_tick_hits

\* NoComboState::accuracy
Accuracy(h, misses, slider, max) ==
    [num |-> 300 * h[1] + 100 * h[2] + 50 * h[3] + SliderValue(slider),
     den |-> 300 * (h[1] + h[2] + h[3] + misses) + SliderValue(max)]

\* The distributions that are tried: one count is given and the other two are
\* searched, or none is
Tried(given, h, n, misses, acc, slider, max) ==
    LET target == acc * (300 * n + SliderValue(max))
        Raw(value) == target - AccScale * (value + SliderValue(slider))
        room == n - misses
    IN  CASE given.n300 # None ->
                LET r == room - h.n300
                IN  {<<h.n300, y, r - y>> :
                        y \in Around(Raw(50 * r + 300 * h.n300), 50 * AccScale, r)}
          [] given.n100 # None ->
                LET r == room - h.n100
                IN  {<<x, h.n100, r - x>> :
                        x \in Around(Raw(50 * r + 100 * h.n100), 250 * AccScale, r)}
          [] given.n50 # None ->
                LET r == room - h.n50
                IN  {<<x, r - x, h.n50>> :
                        x \in Around(Raw(100 * n - 100 * misses - 50 * h.n50),
                                     200 * AccScale, r)}
          [] OTHER ->
                UNION {{<<x, y, room - x - y>> :
                            y \in Around(Raw(50 * room + 250 * x), 50 * AccScale, room - x)} :
                        x \in Around(Raw(50 * room), 250 * AccScale, room)}

\* One 300 and four 50s are worth five 100s: what the priority makes of a
\* result that was searched without any count given
Shift(h, best) ==
    IF best
    THEN LET k == MinOf(h[1], h[3] \div 4)
         IN  <<h[1] - k, h[2] + 5 * k, h[3] - 4 * k>>
    ELSE LET k == h[2] \div 5
         IN  <<h[1] + k, h[2] - 5 * k, h[3] + 4 * k>>

Search(given, h, n, misses, acc, best, slider, max) ==
    LET Try(t) ==
            LET a == Accuracy(t, misses, slider, max)
            IN  Candidate(t, acc, a.num, a.den)
        t == Closest({Try(t) : t \in Tried(given, h, n, misses, acc, slider, max)}).hits
        s == IF Cardinality(Open(given, Names)) = 3 THEN Shift(t, best) ELSE t
    IN  [n300 |-> s[1], n100 |-> s[2], n50 |-> s[3]]

NObjects(b, attrs) == MinOf(b.passed, attrs.n_objects)

Generate(b, attrs) ==
    LET n      == NObjects(b, attrs)
        misses == UpTo(b.given.misses, n)
        room   == n - misses
        given  == [n300 |-> UpTo(b.given.n300, room),
                   n100 |-> UpTo(b.given.n100, room),
                   n50  |-> UpTo(b.given.n50, room)]
        max    == MaxSliderHits(b.lazer, NoSliderHeadAcc(b.mods, b.lazer), attrs)
        slider == SliderHits(b.given, max)
        hits   == IF b.acc # None /\ Cardinality(Open(b.given, Names)) > 1
                  THEN Search(b.given, given, n, misses, b.acc, b.best, slider, max)
                  ELSE Fill(Names, b.given, given, room, b.best)
    IN  [max_combo |-> OrAll(b.given.max_combo, SatSub(attrs.max_combo, misses)),
         slider_end_hits |-> slider.slider_end_hits,
         large_tick_hits |-> slider.large_tick_hits,
         small_tick_hits |-> slider.small_tick_hits,
         n300 |-> hits.n300, n100 |-> hits.n100, n50 |-> hits.n50,
         misses |-> misses]

\* The unsigned subtractions that calculate does where slider heads count
SliderEndsDropped(attrs, state) == attrs.n_sliders - state.slider_end_hits
LargeTickMisses(attrs, state) == attrs.n_large_ticks - state.large_tick_hits
FullComboThreshold(attrs, state) == attrs.max_combo - SliderEndsDropped(attrs, state)
=============================================================================
