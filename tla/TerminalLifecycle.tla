------------------------ MODULE TerminalLifecycle ------------------------
(* What a client is told of the terminal it asks for (host/runtime,         *)
(* terminal_lifecycle_actor.go and terminal_lifecycle_runtime.go). A client *)
(* sends revisions of what it desires: a session's terminal, or its end. The *)
(* event loop admits a revision, leases the terminal to the client, and     *)
(* starts a goroutine that attaches the client; the attachment's result, a  *)
(* deadline and the end of the lease come back to the loop in any order.    *)
(* A client is a ClientInstanceID with a ConnectionGeneration, on one       *)
(* connection and with one subscriber id. Results, deadlines and expiries   *)
(* wait for room in the loop's lane: from the start of their goroutine to   *)
(* their handling they are one set. A command is handled when it is         *)
(* received, or after its connection was closed if it was in the lane then; *)
(* one that finds the lane full is refused and changes nothing.             *)
EXTENDS Naturals, Sequences, FiniteSets

CONSTANTS
    Clients, Sessions, Conns,
    ConnOf,             \* the connection of each client
    None,               \* no session
    RecordLimit,        \* lifecycleRecordLimit
    OwnerCap,           \* the cap on lifecycle owners
    MaxRevisions        \* bound on the revisions of all clients together

ASSUME BoundsAssumption ==
    /\ {RecordLimit, OwnerCap, MaxRevisions} \subseteq Nat \ {0}
    /\ ConnOf \in [Clients -> Conns] /\ None \notin Sessions

VARIABLES
    conns,      \* Runtime.conns
    latest,     \* TerminalLifecycleActor.latest, 0 when absent
    current,    \* TerminalLifecycleActor.current
    order,      \* TerminalLifecycleActor.order
    bindings,   \* Runtime.lifecycleBindings
    effects,    \* goroutines of runLifecycleEffect that wait for lifecycleEffectMu
    attaching,  \* the command of the one that holds it, or None
    results,    \* goroutines that send internalLifecycleEffectResult
    deadlines,  \* goroutines of enqueueLifecycleDeadline
    expiries,   \* goroutines of enqueueLifecycleExpiry
    subs,       \* TerminalRelay.subs: who is attached to which session
    given       \* history: the terminal outcomes broadcast of each revision

actor == <<latest, current, order, given>>
timers == <<deadlines, expiries>>
lifecycleVars == <<conns, actor, bindings, effects, attaching, results, timers, subs>>

Revision == 1..MaxRevisions
Command == [client : Clients, rev : Revision, session : Sessions, desired : BOOLEAN]
Free == [rev |-> 0, session |-> None]

\* The outcomes of isTerminalOutcome that the daemon uses.
TerminalOutcome == {"applied", "released", "degraded", "rejected"}

----------------------------------------------------------------------------
(* The actor *)

\* Mutant: the latest revision is admitted again when its record is gone.
NewerOrForgotten(c, r) ==
    r > latest[c] \/ (r = latest[c] /\ <<c, r>> \notin DOMAIN current)

\* Admit takes a revision that is newer than the latest one.
Newer(c, r) == r > latest[c]

\* Admit of another revision: the latest one is told what its record says, and
\* an older one, or one whose record is forgotten, that it is rejected.
Repeat(c, r) ==
    IF r = latest[c] /\ <<c, r>> \in DOMAIN current THEN current[<<c, r>>] ELSE "rejected"

\* Admit and MarkWaiting for a newer revision: beyond the limit the oldest record
\* is forgotten.
Admit(c, r) ==
    LET all == Append(order, <<c, r>>)
        kept == IF Len(all) > RecordLimit THEN Tail(all) ELSE all
    IN  /\ latest' = [latest EXCEPT ![c] = r]
        /\ order' = kept
        /\ current' = [k \in {kept[i] : i \in DOMAIN kept} |->
                          IF k = <<c, r>> THEN "waiting" ELSE current[k]]
        /\ UNCHANGED given

\* Complete: the latest revision, while it has a record, gets its outcome once.
Complete(c, r, status) ==
    IF latest[c] = r /\ <<c, r>> \in DOMAIN current /\ current[<<c, r>>] \notin TerminalOutcome
    THEN /\ current' = [current EXCEPT ![<<c, r>>] = status]
         /\ given' = given \cup {<<c, r, status>>}
         /\ UNCHANGED <<latest, order>>
    ELSE UNCHANGED actor

----------------------------------------------------------------------------
(* The event loop *)

Bound(c) == bindings[c] # Free

OthersRevisions(c) ==
    Cardinality({x \in (Clients \ {c}) \X Revision : x[2] <= latest[x[1]]})

OverCap(m) ==
    m.desired /\ ~Bound(m.client) /\ Cardinality({c \in Clients : Bound(c)}) >= OwnerCap

\* handleLifecycleDesired of a revision that is not newer: what Admit says of it
\* is broadcast, and nothing is started.
RepeatDesired(m) ==
    /\ ~OverCap(m) /\ ~Newer(m.client, m.rev)
    /\ LET told == Repeat(m.client, m.rev)
       IN  given' = IF told \in TerminalOutcome THEN given \cup {<<m.client, m.rev, told>>}
                                                ELSE given
    /\ UNCHANGED <<conns, latest, current, order, bindings, effects, attaching, results,
                   timers, subs>>

\* handleLifecycleDesired: a newer revision takes the client's binding over, or
\* ends it, and starts its goroutines. The early returns change nothing: for a
\* session, head frame or geometry that is not fit, and for too many owners.
handleLifecycleDesired(m) ==
    LET c == m.client
        old == bindings[c]
    IN  /\ ~OverCap(m) /\ Newer(c, m.rev)
        /\ m.rev + OthersRevisions(c) <= MaxRevisions
        /\ Admit(c, m.rev)
        /\ subs' = IF old.session # m.session THEN subs \ {<<c, old.session>>} ELSE subs
        /\ bindings' = [bindings EXCEPT ![c] =
               IF m.desired THEN [rev |-> m.rev, session |-> m.session] ELSE Free]
        /\ effects' = effects \cup {m}
        /\ deadlines' = deadlines \cup {<<c, m.rev>>}
        /\ expiries' = IF m.desired THEN expiries \cup {<<c, m.rev>>} ELSE expiries
        /\ UNCHANGED <<conns, attaching, results>>

handleLifecycleEffectResult(e) ==
    LET status == IF e.failed THEN "degraded" ELSE IF e.cmd.desired THEN "applied" ELSE "released"
    IN  /\ results' = results \ {e}
        /\ Complete(e.cmd.client, e.cmd.rev, status)
        /\ UNCHANGED <<conns, bindings, effects, attaching, timers, subs>>

handleLifecycleDeadline(c, r) ==
    /\ deadlines' = deadlines \ {<<c, r>>}
    /\ Complete(c, r, "degraded")
    /\ UNCHANGED <<conns, bindings, effects, attaching, results, expiries, subs>>

\* Mutant: a revision that already has its outcome keeps its lease.
handleLifecycleExpiryOpen(c, r) ==
    /\ expiries' = expiries \ {<<c, r>>}
    /\ IF bindings[c].rev = r /\ <<c, r>> \in DOMAIN current /\ current[<<c, r>>] = "waiting"
       THEN /\ bindings' = [bindings EXCEPT ![c] = Free]
            /\ subs' = subs \ {<<c, bindings[c].session>>}
            /\ Complete(c, r, "released")
       ELSE UNCHANGED <<bindings, subs, actor>>
    /\ UNCHANGED <<conns, effects, attaching, results, deadlines>>

handleLifecycleExpiry(c, r) ==
    /\ expiries' = expiries \ {<<c, r>>}
    /\ IF bindings[c].rev = r
       THEN /\ bindings' = [bindings EXCEPT ![c] = Free]
            /\ subs' = subs \ {<<c, bindings[c].session>>}
            /\ Complete(c, r, "released")
       ELSE UNCHANGED <<bindings, subs, actor>>
    /\ UNCHANGED <<conns, effects, attaching, results, deadlines>>

\* handleConnClose: releaseLifecycleBindings ends the leases of the connection.
handleConnClose(n) ==
    /\ conns' = conns \ {n}
    /\ bindings' = [c \in Clients |-> IF ConnOf[c] = n THEN Free ELSE bindings[c]]
    /\ subs' = {x \in subs : ConnOf[x[1]] # n \/ x[2] # bindings[x[1]].session}
    /\ UNCHANGED <<actor, effects, attaching, results, timers>>

----------------------------------------------------------------------------
(* The goroutine that attaches a client *)

\* runLifecycleEffect gets the lock.
runLifecycleEffect(m) ==
    /\ attaching = None
    /\ effects' = effects \ {m}
    /\ attaching' = m
    /\ UNCHANGED <<conns, actor, bindings, results, timers, subs>>

\* rebindLifecycleWithRetry: RebindOwned may let an attachment with another
\* geometry go before it fails. It is tried again, or the error is the result.
rebindFails ==
    LET m == attaching IN
    /\ m # None /\ m.desired
    /\ subs' \in {subs, subs \ {<<m.client, m.session>>}}
    /\ \/ UNCHANGED <<attaching, results>>
       \/ /\ attaching' = None
          /\ results' = results \cup {[cmd |-> m, failed |-> TRUE]}
    /\ UNCHANGED <<conns, actor, bindings, effects, timers>>

\* RebindOwned attaches the client, or UnsubscribeOwned detaches it. The result
\* is an error also when the context has ended meanwhile.
effectDone ==
    LET m == attaching IN
    /\ m # None
    /\ subs' = IF m.desired THEN subs \cup {<<m.client, m.session>>}
                            ELSE subs \ {<<m.client, m.session>>}
    /\ attaching' = None
    /\ \E failed \in BOOLEAN : results' = results \cup {[cmd |-> m, failed |-> failed]}
    /\ UNCHANGED <<conns, actor, bindings, effects, timers>>

----------------------------------------------------------------------------

LifecycleInit ==
    /\ conns = Conns
    /\ latest = [c \in Clients |-> 0]
    /\ current = <<>>
    /\ order = <<>>
    /\ bindings = [c \in Clients |-> Free]
    /\ effects = {} /\ attaching = None /\ results = {}
    /\ deadlines = {} /\ expiries = {}
    /\ subs = {}
    /\ given = {}

LoopStep ==
    \/ \E m \in Command : handleLifecycleDesired(m) \/ RepeatDesired(m)
    \/ \E e \in results : handleLifecycleEffectResult(e)
    \/ \E t \in deadlines : handleLifecycleDeadline(t[1], t[2])
    \/ \E t \in expiries : handleLifecycleExpiry(t[1], t[2])
    \/ \E n \in conns : handleConnClose(n)

LifecycleNext ==
    \/ LoopStep
    \/ \E m \in effects : runLifecycleEffect(m)
    \/ rebindFails \/ effectDone

\* Timers fire and the loop takes what their goroutines send. Nothing is asked of
\* the attaching goroutine, whose terminal may never answer.
Fairness ==
    \A c \in Clients, r \in Revision :
        /\ WF_lifecycleVars(<<c, r>> \in deadlines /\ handleLifecycleDeadline(c, r))
        /\ WF_lifecycleVars(<<c, r>> \in expiries /\ handleLifecycleExpiry(c, r))

LifecycleSpec == LifecycleInit /\ [][LifecycleNext]_lifecycleVars
LifecycleFairSpec == LifecycleSpec /\ Fairness

----------------------------------------------------------------------------

\* A revision is given one terminal outcome, however its attachment's result, its
\* deadline, the end of its lease, newer revisions, repeated commands and the
\* forgetting of its record are ordered (Complete). The exception is `rejected`, which
\* is broadcast beside that outcome when the command is repeated after a newer one or
\* after its record was forgotten (Admit: stale_revision, record_evicted). It is the
\* last word: a revision that was rejected can get no other outcome any more.
OneOutcome ==
    /\ \A x, y \in given :
         x[1] = y[1] /\ x[2] = y[2] /\ "rejected" \notin {x[3], y[3]} => x = y
    /\ \A x \in given :
         x[3] = "rejected" => x[2] < latest[x[1]] \/ <<x[1], x[2]>> \notin DOMAIN current

\* A client is attached to one session at a time. The goroutines of two revisions
\* take the lock in any order, so that this does not hold: see the README.
AttachedOnce ==
    \A x, y \in subs : x[1] = y[1] => x = y

\* An admitted revision settles, also when its terminal never answers and when its
\* connection was closed before it was handled: a newer one replaces it, or it has
\* been given its terminal outcome (unless its record is forgotten) and its lease is
\* over (the deadline and the expiry that handleLifecycleDesired starts).
RevisionSettles ==
    \A c \in Clients, r \in Revision :
        latest[c] = r ~> \/ latest[c] # r
                         \/ /\ bindings[c].rev # r
                            /\ <<c, r>> \notin DOMAIN current
                                   \/ current[<<c, r>>] \in TerminalOutcome
==========================================================================
