------------------------- MODULE MCTokenAccounting -------------------------
(* An instance of TokenAccounting for TLC. *)
EXTENDS TokenAccounting, TLC

CONSTANTS i1, i2, t1, t2, t3

MCIssue == {i1, i2}
MCThread == {t1, t2, t3}
Symmetry == Permutations(MCIssue) \cup Permutations(MCThread)
=============================================================================
