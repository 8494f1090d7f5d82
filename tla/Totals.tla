------------------------------- MODULE Totals -------------------------------
(***************************************************************************)
(* The total of a function over a set, as the number of its units: no      *)
(* recursion, so that TLAPS can reason about it as well as TLC.            *)
(***************************************************************************)
EXTENDS Naturals, FiniteSets

\* f[x] units for each x of S.
Units(f, S) == UNION {{x} \X (1..f[x]) : x \in S}

Total(f, S) == Cardinality(Units(f, S))
=============================================================================
