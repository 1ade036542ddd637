---------------------- MODULE MCTerminalLifecycle ----------------------
(* Small instances of TerminalLifecycle for TLC. *)
EXTENDS TerminalLifecycle, TLC

CONSTANTS c1, c2, conn

MCClients == {c1, c2}
MCConnOf == [c \in MCClients |-> conn]
========================================================================
