--------------------------- MODULE MCPreparation ---------------------------
(* Instances of Preparation for TLC. *)
EXTENDS Preparation, TLC

CONSTANTS p1, p2, repo

MCTwoPreps == {p1, p2}
MCRepo == {repo}
MCRepoOf == p1 :> repo @@ p2 :> repo

\* A client drives p1; p2 competes for the capacity
MCCommands == p1 :> AllCommands @@ p2 :> {}
=============================================================================
