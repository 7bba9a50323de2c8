--------------------------- MODULE ManiaPerformance ---------------------------
(***************************************************************************)
(* ManiaPerformance: what its builder has and generate_state.  320s and    *)
(* 200s have the names of ScoreState, n_geki and n_katu.                   *)
(***************************************************************************)
EXTENDS HitResults

\* The hit results and the settings the builder has setters for
Fields == {"n_geki", "n300", "n_katu", "n100", "n50", "misses"}
Settings == {"mods", "passed_objects", "clock_rate", "hp", "od", "lazer"}

\* TryFrom<OsuPerformance>: 300s may be meant, 320s and 200s are not known.
FromOsu(given) ==
    [f \in Fields |-> IF f \in {"n_geki", "n_katu"} THEN None ELSE given[f]]

Names == <<"n_geki", "n300", "n_katu", "n100", "n50">>
Lower == <<"n_katu", "n100", "n50">>

\* Searches run over tuples of 320s and 300s together, 200s, 100s and 50s.
Accuracy(t, misses) ==
    [num |-> 6 * t[1] + 4 * t[2] + 2 * t[3] + t[4],
     den |-> 6 * (t[1] + t[2] + t[3] + t[4] + misses)]

\* Bounds of the outer loop over 320s and 300s, from what the accuracy asks of
\* them when the open lower hit results are all good or all bad
Outer(given, h, n, room, acc) ==
    LET A == AccScale
        Raw(value) == acc * 6 * n - A * value
        Has(f) == given[f] # None
        Between(lo, hi, cap) == <<MinOf(lo, cap), MinOf(hi, cap)>>
        Near(value, per, cap) ==
            Between(FloorU32(Raw(value), per * A), CeilU32(Raw(value), per * A), cap)
    IN  CASE Has("n100") /\ Has("n50") ->
                Near(4 * room - 2 * h.n100 - 3 * h.n50, 2, SatSub(room, h.n100 + h.n50))
          [] Has("n_katu") /\ Has("n50") ->
                Near(2 * (room + h.n_katu) - h.n50, 4, SatSub(room, h.n_katu + h.n50))
          [] Has("n_katu") /\ Has("n100") ->
                Near(room + 3 * h.n_katu + h.n100, 5, SatSub(room, h.n_katu + h.n100))
          [] Has("n_katu") /\ ~Has("n100") /\ ~Has("n50") ->
                Between(FloorU32(Raw(2 * (room + h.n_katu)), 4 * A),
                        CeilU32(Raw(room + 3 * h.n_katu), 5 * A), room - h.n_katu)
          [] Has("n100") /\ ~Has("n_katu") /\ ~Has("n50") ->
                Between(FloorU32(acc * 3 * room - A * (2 * room - h.n100), A),
                        CeilU32(Raw(room + h.n100), 5 * A), room - h.n100)
          [] Has("n50") /\ ~Has("n_katu") /\ ~Has("n100") ->
                Between(FloorU32(Raw(4 * room - 3 * h.n50), 2 * A),
                        CeilU32(Raw(2 * room - h.n50), 4 * A), room - h.n50)
          [] OTHER ->
                Between(FloorU32(Raw(4 * room), 5 * A),
                        MinOf(CeilU32(Raw(room), 5 * A),
                              CeilU32(acc * 3 * n - A * room, A)), room)

\* The outer loop respects given 320s and 300s.  Where two of the lower hit
\* results are given as well, their sum is not limited.
OuterLoop(given, h, n, room, acc) ==
    LET o    == Outer(given, h, n, room, acc)
        both == IF Cardinality(Open(given, Lower)) = 1
                THEN h.n_geki + h.n300 ELSE MinOf(room, h.n_geki + h.n300)
    IN  CASE given.n_geki # None /\ given.n300 # None -> both .. both
          [] given.n_geki # None /\ given.n300 = None ->
                MaxOf(o[1], h.n_geki) .. MaxOf(o[2], h.n_geki)
          [] given.n_geki = None /\ given.n300 # None ->
                MaxOf(o[1], h.n300) .. MaxOf(o[2], h.n300)
          [] OTHER -> o[1] .. o[2]

\* The rounds of the inner loops for x 320s and 300s
Inner(given, h, n, room, acc, x) ==
    LET A == AccScale
        Raw(value) == acc * 6 * n - A * value
        Has(f) == given[f] # None
        Rest(sum) == SatSub(room, sum)
    IN  CASE Has("n100") /\ Has("n50") ->
                {<<x, Rest(x + h.n100 + h.n50), h.n100, h.n50>>}
          [] Has("n_katu") /\ Has("n50") ->
                {<<x, h.n_katu, Rest(x + h.n_katu + h.n50), h.n50>>}
          [] Has("n_katu") /\ Has("n100") ->
                {<<x, h.n_katu, h.n100, Rest(x + h.n_katu + h.n100)>>}
          [] Has("n_katu") /\ ~Has("n100") /\ ~Has("n50") ->
                {<<x, h.n_katu, z, Rest(x + h.n_katu + z)>> :
                    z \in Around(Raw(room + 5 * x + 3 * h.n_katu), A, Rest(x + h.n_katu))}
          [] Has("n100") /\ ~Has("n_katu") /\ ~Has("n50") ->
                {<<x, y, h.n100, Rest(x + y + h.n100)>> :
                    y \in Around(Raw(room + 5 * x + h.n100), 3 * A, Rest(x + h.n100))}
          [] Has("n50") /\ ~Has("n_katu") /\ ~Has("n100") ->
                {<<x, y, Rest(x + y + h.n50), h.n50>> :
                    y \in Around(Raw(2 * room + 4 * x - h.n50), 2 * A, Rest(x + h.n50))}
          [] OTHER ->
                UNION {{<<x, y, z, room - x - y - z>> :
                            z \in Around(Raw(room + 5 * x + 3 * y), A, room - (x + y))} :
                        y \in MinOf(FloorU32(acc * 3 * n - A * (room + 2 * x), A), room - x)
                           .. MinOf(CeilU32(Raw(room + 5 * x), 3 * A), room - x)}

\* The search starts from what is left over and keeps it when it finds nothing
\* (an accuracy of 0 / 0 is not close to anything).
Found(given, h, n, misses, acc) ==
    LET room == n - misses
        Try(t) ==
            LET a == Accuracy(t, misses) IN Candidate(t, acc, a.num, a.den)
        tried == UNION {Inner(given, h, n, room, acc, x) :
                            x \in OuterLoop(given, h, n, room, acc)}
        cands == {c \in {Try(t) : t \in tried} : c.over > 0}
    IN  IF cands = {}
        THEN <<SatSub(n, SumOver(h, Names) + misses), h.n_katu, h.n100, h.n50>>
        ELSE Closest(cands).hits

\* The 320s and 300s that were searched together are told apart.
Split(given, h, t, best) ==
    LET upper ==
            CASE given.n_geki = None /\ given.n300 = None ->
                    IF best THEN <<t[1], 0>> ELSE <<0, t[1]>>
              [] given.n_geki # None /\ given.n300 = None -> <<h.n_geki, t[1] - h.n_geki>>
              [] given.n_geki = None /\ given.n300 # None -> <<t[1] - h.n300, h.n300>>
              [] OTHER -> <<h.n_geki, h.n300>>
    IN  [n_geki |-> upper[1], n300 |-> upper[2],
         n_katu |-> t[2], n100 |-> t[3], n50 |-> t[4]]

\* Two 200s are worth a 320 and a 100.
Spread(given, h, best) ==
    IF best /\ given.n_geki = None /\ given.n_katu = None /\ given.n100 = None
    THEN LET k == h.n_katu \div 2
         IN  [h EXCEPT !.n_geki = @ + k, !.n_katu = @ - 2 * k, !.n100 = @ + k]
    ELSE h

\* No choice is left to the accuracy where at most one hit result is open, or
\* only the 320s and 300s, which are worth the same.
Searches(given) ==
    /\ Cardinality(Open(given, Names)) > 1
    /\ Open(given, Lower) # {}

\* The objects passed, and with them the ends of all hold notes in lazer, whose
\* number is not limited by passed_objects
NObjects(b, attrs) ==
    MinOf(b.passed, attrs.n_objects) + (IF b.lazer THEN attrs.n_hold_notes ELSE 0)

Generate(b, attrs) ==
    LET n      == NObjects(b, attrs)
        misses == UpTo(b.given.misses, MinOf(b.passed, attrs.n_objects))
        room   == n - misses
        given  == [f \in ToSet(Names) |-> UpTo(b.given[f], room)]
        hits   == IF b.acc # None /\ Searches(b.given)
                  THEN Spread(b.given,
                              Split(b.given, given, Found(b.given, given, n, misses, b.acc), b.best),
                              b.best)
                  ELSE Fill(Names, b.given, given, room, b.best)
    IN  [n_geki |-> hits.n_geki, n300 |-> hits.n300, n_katu |-> hits.n_katu,
         n100 |-> hits.n100, n50 |-> hits.n50, misses |-> misses]
=============================================================================
