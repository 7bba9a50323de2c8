--------------------------- MODULE TaikoPerformance ---------------------------
(***************************************************************************)
(* TaikoPerformance: what its builder has and generate_state.              *)
(***************************************************************************)
EXTENDS HitResults

\* The hit results and the settings the builder has setters for
Fields == {"max_combo", "n300", "n100", "misses"}
Settings == {"mods", "passed_objects", "clock_rate", "hp", "od"}

\* TryFrom<OsuPerformance>
FromOsu(given) == [f \in Fields |-> given[f]]

Names == <<"n300", "n100">>

Accuracy(h, misses) ==
    [num |-> 2 * h.n300 + h.n100, den |-> 2 * (h.n300 + h.n100 + misses)]

\* Neither count is given: the two numbers of 300s around the exact one
Search(n, misses, acc) ==
    LET room == n - misses
        Try(x) ==
            LET a == Accuracy([n300 |-> x, n100 |-> room - x], misses)
            IN  Candidate(<<x, room - x>>, acc, a.num, a.den)
        best == Closest({Try(x) :
                    x \in Around(acc * 2 * n - AccScale * room, AccScale, room)}).hits
    IN  [n300 |-> best[1], n100 |-> best[2]]

NObjects(b, attrs) == MinOf(b.passed, attrs.max_combo)

\* Each count is limited to what the misses leave; together they may exceed it.
Generate(b, attrs) ==
    LET n      == NObjects(b, attrs)
        misses == UpTo(b.given.misses, n)
        given  == [n300 |-> UpTo(b.given.n300, n - misses),
                   n100 |-> UpTo(b.given.n100, n - misses)]
        hits   == IF b.acc # None /\ Cardinality(Open(b.given, Names)) = 2
                  THEN Search(n, misses, b.acc)
                  ELSE Fill(Names, b.given, given, n - misses, b.best)
    IN  [max_combo |-> OrAll(b.given.max_combo, SatSub(attrs.max_combo, misses)),
         n300 |-> hits.n300, n100 |-> hits.n100, misses |-> misses]
=============================================================================
