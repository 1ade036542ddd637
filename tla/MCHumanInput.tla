---------------------------- MODULE MCHumanInput ----------------------------
(* Instances of HumanInput for TLC. *)
EXTENDS HumanInput, TLC

CONSTANTS root, child, r1, r2, r3, a1, q1

MCFrame == {root, child}
MCRequest == {r1, r2, r3}
MCThreadOf == r1 :> child @@ r2 :> child @@ r3 :> child

\* An approval of the child frame, asked for twice with one item id, and a question
MCItem == {a1, q1}
MCItemOf == r1 :> a1 @@ r2 :> a1 @@ r3 :> q1
MCQuestion == {q1}
=============================================================================
