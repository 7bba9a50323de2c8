--------------------------- MODULE CatchPerformance ---------------------------
(***************************************************************************)
(* CatchPerformance: what its builder has and generate_state.  The fruits, *)
(* droplets, tiny droplets and missed tiny droplets have the names of      *)
(* ScoreState: n300, n100, n50 and n_katu.                                 *)
(***************************************************************************)
EXTENDS HitResults

\* The hit results and the settings the builder has setters for
Fields == {"max_combo", "n300", "n100", "n50", "n_katu", "misses"}
Settings == {"mods", "passed_objects", "clock_rate", "hp", "od",
             "ar", "cs", "hardrock_offsets"}

\* TryFrom<OsuPerformance>: nothing is known of the missed tiny droplets.
FromOsu(given) == [f \in Fields |-> IF f = "n_katu" THEN None ELSE given[f]]

\* The objects that count for the combo
NObjects(b, attrs) == attrs.n_fruits + attrs.n_droplets

\* Fruits and droplets: what is not given or given beyond the map is taken
\* from the other
Palpable(given, misses, attrs) ==
    LET all == attrs.n_fruits + attrs.n_droplets
        f   == given.n300
        d   == given.n100
    IN  CASE f # None /\ d # None ->
                LET left     == SatSub(all, f + d + misses)
                    droplets == MinOf(left, SatSub(attrs.n_droplets, d))
                    d1 == d + droplets
                    f1 == MinOf(f + left - droplets, SatSub(all, d1 + misses))
                IN  [n300 |-> f1, n100 |-> MinOf(d1, all - f1 - misses)]
          [] f # None /\ d = None ->
                LET d1 == SatSub(attrs.n_droplets,
                                 SatSub(misses, SatSub(attrs.n_fruits, f)))
                IN  [n300 |-> all - misses - d1, n100 |-> d1]
          [] f = None /\ d # None ->
                LET f1 == SatSub(attrs.n_fruits,
                                 SatSub(misses, SatSub(attrs.n_droplets, d)))
                IN  [n300 |-> f1, n100 |-> all - misses - f1]
          [] OTHER ->
                LET d1 == SatSub(attrs.n_droplets, misses)
                IN  [n300 |-> attrs.n_fruits - (misses - SatSub(attrs.n_droplets, d1)),
                     n100 |-> d1]

Accuracy(h, misses) ==
    [num |-> h.n300 + h.n100 + h.n50,
     den |-> h.n300 + h.n100 + h.n50 + h.n_katu + misses]

\* find_best_tiny_droplets; nothing is found where the accuracy is 0 / 0
Search(p, misses, attrs, acc) ==
    LET tiny == attrs.n_tiny_droplets
        Raw  == acc * (attrs.n_fruits + attrs.n_droplets + tiny)
                    - AccScale * (p.n300 + p.n100)
        Try(t) ==
            LET a == Accuracy([n300 |-> p.n300, n100 |-> p.n100,
                               n50 |-> t, n_katu |-> tiny - t], misses)
            IN  Candidate(<<t>>, acc, a.num, a.den)
        found == {c \in {Try(t) : t \in Around(Raw, AccScale, tiny)} : c.over > 0}
    IN  IF found = {} THEN [n50 |-> 0, n_katu |-> 0]
        ELSE LET t == Closest(found).hits[1] IN [n50 |-> t, n_katu |-> tiny - t]

\* A search that overrides complete tiny droplets.
Tiny_AlwaysSearch(given, p, misses, attrs, acc) ==
    IF acc # None THEN Search(p, misses, attrs, acc)
    ELSE [n50 |-> OrAll(given.n50, attrs.n_tiny_droplets), n_katu |-> UpTo(given.n_katu, 0)]

Tiny(given, p, misses, attrs, acc) ==
    LET tiny == attrs.n_tiny_droplets
        t == given.n50
        k == given.n_katu
    IN  CASE t # None /\ k # None /\ acc # None ->
                IF t + k = tiny THEN [n50 |-> t, n_katu |-> k]
                                ELSE Search(p, misses, attrs, acc)
          [] t # None /\ k # None /\ acc = None ->
                [n50 |-> t + SatSub(tiny, t + k), n_katu |-> k]
          [] t # None /\ k = None ->
                [n50 |-> MinOf(tiny, t), n_katu |-> SatSub(tiny, t)]
          [] t = None /\ k # None ->
                [n50 |-> SatSub(tiny, k), n_katu |-> MinOf(tiny, k)]
          [] t = None /\ k = None /\ acc # None -> Search(p, misses, attrs, acc)
          [] OTHER -> [n50 |-> tiny, n_katu |-> 0]

\* passed_objects is not looked at: it is in the attributes already
Generate(b, attrs) ==
    LET misses == UpTo(b.given.misses, NObjects(b, attrs))
        p      == Palpable(b.given, misses, attrs)
        t      == Tiny(b.given, p, misses, attrs, b.acc)
    IN  [max_combo |-> IF b.given.max_combo = None
                       THEN NObjects(b, attrs) - misses
                       ELSE b.given.max_combo,
         n300 |-> p.n300, n100 |-> p.n100, n50 |-> t.n50, n_katu |-> t.n_katu,
         misses |-> misses]
=============================================================================
