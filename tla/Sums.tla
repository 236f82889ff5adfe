-------------------------------- MODULE Sums --------------------------------
(***************************************************************************)
(* Sums of functions from a finite set to the naturals, counted unit by    *)
(* unit: f[a] contributes the pairs <<a, 0>> ... <<a, f[a] - 1>>, and the  *)
(* sum is how many pairs there are.  Written so, facts about sums are      *)
(* facts about finite sets, which the prover knows; it has no induction to *)
(* offer for a fold.                                                       *)
(***************************************************************************)
EXTENDS Integers, FiniteSets

Units(f) == UNION {{a} \X (0 .. f[a] - 1) : a \in DOMAIN f}
Total(f) == Cardinality(Units(f))

\* f with s more for every member of T.
Raise(f, T, s) == [a \in DOMAIN f |-> IF a \in T THEN f[a] + s ELSE f[a]]
=============================================================================
