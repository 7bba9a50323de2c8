------------------------------- MODULE RustStd -------------------------------
(***************************************************************************)
(* Functions of the Rust standard library that the calculators use, and    *)
(* sums over sets of indices.  The iterators add up counts object by       *)
(* object; a sum over the set of the objects they added does not depend on *)
(* the order and says at once which objects were counted.                  *)
(***************************************************************************)
EXTENDS Integers, Sequences, FiniteSets

\* cmp::min and cmp::max
MinOf(a, b) == IF a <= b THEN a ELSE b
MaxOf(a, b) == IF a >= b THEN a ELSE b

\* usize::saturating_sub
SatSub(a, b) == IF a >= b THEN a - b ELSE 0

\* The sum of w[j] over j \in J, as the size of the set that holds w[j]
\* elements for each j.
TotalOf(w, J) == Cardinality(UNION {{j} \X (1 .. w[j]) : j \in J})
=============================================================================
