-------------------------- MODULE MCTerminalRelay --------------------------
(* Small instances of TerminalRelay for TLC. *)
EXTENDS TerminalRelay, TLC

Symmetry == Permutations(Frames)
=============================================================================
