---------------------------- MODULE SessionLedger ---------------------------
(* What the daemon promises of its sessions, without frames, goroutines or  *)
(* files: a session is opened once, is kept across restarts once it is      *)
(* written, and only a stop asked for by the user takes it off the record.  *)
(* A stop may fail to do so; then the session is open again after a restart.*)
CONSTANT Session

VARIABLES
    up,        \* the daemon runs
    live,      \* sessions that are open
    durable,   \* sessions on record
    gone,      \* sessions the user stopped while they were open
    undeleted  \* those of them that were left on record

vars == <<up, live, durable, gone, undeleted>>

\* The ledger's sets are sets of sessions.
TypeOK ==
    /\ up \in BOOLEAN
    /\ live \subseteq Session /\ durable \subseteq Session
    /\ gone \subseteq Session /\ undeleted \subseteq gone

Init == up = TRUE /\ live = {} /\ durable = {} /\ gone = {} /\ undeleted = {}

\* Open sessions, and no others, may be written at any time.
Written(kept, open) == kept \subseteq durable' /\ durable' \subseteq kept \cup open

Open(s) ==
    /\ up /\ s \notin live \cup durable \cup gone
    /\ live' = live \cup {s}
    /\ Written(durable, live')
    /\ UNCHANGED <<up, gone, undeleted>>

Close(s) ==
    /\ up /\ s \in live
    /\ live' = live \ {s}
    /\ Written(durable, live')
    /\ UNCHANGED <<up, gone, undeleted>>

Stop(s) ==
    /\ up /\ s \in live
    /\ live' = live \ {s}
    /\ gone' = gone \cup {s}
    /\ undeleted' = undeleted \ {s}
    /\ Written(durable \ {s}, live')
    /\ UNCHANGED up

\* The session is closed and stays on record.
StopUndeleted(s) ==
    /\ up /\ s \in live \cap durable
    /\ live' = live \ {s}
    /\ gone' = gone \cup {s}
    /\ undeleted' = undeleted \cup {s}
    /\ Written(durable, live')
    /\ UNCHANGED up

Write ==
    /\ up
    /\ Written(durable, live)
    /\ UNCHANGED <<up, live, gone, undeleted>>

GoDown ==
    /\ up /\ up' = FALSE
    /\ live' = {}
    /\ Written(durable, live)
    /\ UNCHANGED <<gone, undeleted>>

\* The user was told of the stop and the record was not touched any more.
GoDownInStop(s) ==
    /\ up /\ up' = FALSE
    /\ s \in live /\ live' = {}
    /\ gone' = gone \cup {s}
    /\ undeleted' = undeleted \cup ({s} \cap durable)
    /\ UNCHANGED durable

Boot ==
    /\ ~up /\ up' = TRUE
    /\ live' \subseteq durable
    /\ UNCHANGED <<durable, gone, undeleted>>

Next ==
    \/ \E s \in Session :
         Open(s) \/ Close(s) \/ Stop(s) \/ StopUndeleted(s) \/ GoDownInStop(s)
    \/ Write \/ GoDown \/ Boot

Spec == Init /\ [][Next]_vars

\* A session the user stopped is never open or on record again, unless the
\* stop left it on record.
StoppedNeverReturns == gone \cap (live \cup durable) \subseteq undeleted
=============================================================================
