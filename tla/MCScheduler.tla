---------------------------- MODULE MCScheduler ----------------------------
(* Small instances of Scheduler for TLC. *)
EXTENDS Scheduler, TLC

CONSTANTS i1, i2, s1, s2, s3

MCTwoIssues == {i1, i2}
MCRankTwo == [i \in MCTwoIssues |-> IF i = i1 THEN 1 ELSE 2]
MCState == {"todo", "doing", "review", "done"}
MCStateCap == [s \in {"doing"} |-> 1]
MCNoStateCap == [s \in {} |-> 0]
MCSessions == {s1, s2, s3}
MCTwoSessions == {s1, s2}
Symmetry == Permutations(MCSessions)
=============================================================================
