------------------------------ MODULE SliderPath ------------------------------
(***************************************************************************)
(* The curve of a slider line, given as tokens between bars: letters that  *)
(* begin a segment and name its type, and points.  A token is a record     *)
(*   [kind |-> "letter", "point", "bad" or "empty", type, pos]             *)
(* where "bad" begins with no letter and is no point, and type is what     *)
(* PathType::new_from_str reads from it.                                   *)
(***************************************************************************)
EXTENDS ControlPoints

Letter(type) == [kind |-> "letter", type |-> type, pos |-> None]
PointToken(x, y) == [kind |-> "point", type |-> "CATMULL", pos |-> <<x, y>>]
BadToken == [kind |-> "bad", type |-> "CATMULL", pos |-> None]
EmptyToken == [kind |-> "empty", type |-> "CATMULL", pos |-> None]

Minus(p, q) == <<p[1] - q[1], p[2] - q[2]>>

\* is_linear
Collinear(a, b, c) ==
    (b[2] - a[2]) * (c[1] - a[1]) = (b[1] - a[1]) * (c[2] - a[2])

\* A perfect curve needs three points that are not on a line.
TypeOfVertices(type, ps) ==
    IF type # "PERFECT" THEN type
    ELSE IF Len(ps) # 3 THEN "BEZIER"
    ELSE IF Collinear(ps[1], ps[2], ps[3]) THEN "LINEAR" ELSE type

\* The end point as part of both segments
OwnVertices_KeepEnd(vertices, ends) == vertices

\* The vertices without the end point
OwnVertices(vertices, ends) == vertices - ends

Failed == [ok |-> FALSE, points |-> <<>>]

\* convert_points: the control points of one segment.  A vertex at the place of
\* the one before it splits the segment and is left out; the end point belongs
\* to the next segment.
ConvertPoints(points, end_point, first, offset) ==
    LET ends  == IF end_point = None THEN <<>> ELSE <<end_point>>
        read  == Tail(points) \o ends
        ps    == (IF first THEN <<<<0, 0>>>> ELSE <<>>)
                     \o [i \in DOMAIN read |-> Minus(read[i].pos, offset)]
        type  == TypeOfVertices(points[1].type, ps)
        n     == OwnVertices(Len(ps), Len(ends))
        Splits(i) == /\ i \in 2 .. n - 1
                     /\ ps[i] = ps[i - 1]
                     /\ type = "CATMULL" => i = 2
        Vertex(i) == [pos |-> ps[i],
                      path_type |-> IF i = 1 \/ Splits(i + 1) THEN type ELSE None]
        kept  == SelectSeq([i \in 1 .. MaxOf(n, 1) |-> i], LAMBDA i : ~Splits(i))
    IN  IF (\E i \in DOMAIN read : read[i].kind # "point") \/ ps = <<>> THEN Failed
        ELSE [ok |-> TRUE, points |-> [k \in DOMAIN kept |-> Vertex(kept[k])]]

\* convert_path_str: segment by segment until one fails or an empty token is
\* met.  What was converted before a failure stays in the list.
ConvertPathStr(tokens, offset, curve_points) ==
    LET n      == Len(tokens)
        empty  == {i \in 2 .. n : tokens[i].kind = "empty"}
        stop   == IF empty = {} THEN n + 1 ELSE CHOOSE i \in empty : \A j \in empty : i <= j
        starts == <<1>> \o SetToSortSeq({i \in 2 .. stop - 1 : tokens[i].kind = "letter"}, <)
        last   == Len(starts)
        Segment(k) ==
            IF k = last THEN ConvertPoints(SubSeq(tokens, starts[k], n), None, k = 1, offset)
            ELSE ConvertPoints(SubSeq(tokens, starts[k], starts[k + 1] - 1),
                     IF starts[k + 1] < n THEN tokens[starts[k + 1] + 1] ELSE None,
                     k = 1, offset)
        Convert(acc, k) ==
            IF ~acc.ok \/ (k = last /\ empty # {}) THEN [acc EXCEPT !.ok = FALSE]
            ELSE LET segment == Segment(k)
                 IN  [ok |-> segment.ok, points |-> acc.points \o segment.points]
    IN  FoldLeft(Convert, [ok |-> TRUE, points |-> curve_points], [k \in 1 .. last |-> k])
=============================================================================
