--------------------------- MODULE MCVerdictRule ----------------------------
(* Small instances of VerdictRule for TLC: 3% floor, 2% tolerance. *)
EXTENDS VerdictRule

P(base, new, signif) == [base |-> base, new |-> new, signif |-> signif]

\* A win at the floor, one below it, no change, a loss within the tolerance, one
\* beyond it, and one from zero.
Outcomes == {P(100, 97, TRUE), P(100, 98, TRUE), P(100, 100, FALSE),
             P(100, 102, TRUE), P(100, 103, TRUE), P(0, 5, TRUE)}
=============================================================================
