------------------------- MODULE MCRegressionCheck --------------------------
(* Small instances of RegressionCheck for TLC. *)
EXTENDS RegressionCheck, TLC

CONSTANTS p1, p2, c1, c2, c3, i1

OneId == {i1}
TwoProcs == {p1, p2}
Perms == Permutations(TwoProcs)

\* The benchmark runs at c1, is not there at c2, and fails at c3.
ThreeCommits == {c1, c2, c3}
ThreeBenches == (c1 :> "runs") @@ (c2 :> "absent") @@ (c3 :> "fails")
=============================================================================
