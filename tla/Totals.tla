------------------------------- MODULE Totals -------------------------------
(***************************************************************************)
(* SUM over rows, written as the number of units it counts: no recursion,  *)
(* so that it can be proved about as well as evaluated.                    *)
(***************************************************************************)
EXTENDS Integers, FiniteSets

Units(n, S) == UNION {{x} \X (1 .. n[x]) : x \in S}
Total(n, S) == Cardinality(Units(n, S))
=============================================================================
