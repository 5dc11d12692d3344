--------------------------------- MODULE Sums ---------------------------------
(***************************************************************************)
(* Sums of natural numbers over a finite set, without recursion: a sum is  *)
(* the number of pairs of a member and one of its units.                   *)
(***************************************************************************)
EXTENDS Naturals, FiniteSets

\* The units that a function f counts for the members of S.
UnitsOf(S, f) == UNION {{i} \X (1..f[i]) : i \in S}

\* The sum of f[i] over S.
SumOver(S, f) == Cardinality(UnitsOf(S, f))
=============================================================================
