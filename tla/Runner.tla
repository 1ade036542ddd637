------------------------------- MODULE Runner -------------------------------
(***************************************************************************)
(* One worker of the orchestrator: agent/runner.go, worker.go, the turn    *)
(* handler of handler.go and the workspace hooks of workspace/.            *)
(*                                                                         *)
(* spawnWith prepares the workspace, launches the codex process and opens  *)
(* a session; runLoop then awaits turn after turn.  Concurrently the read  *)
(* loop of the connection hands the notifications of the process to        *)
(* turnHandler, which passes them on through two channels of capacity one; *)
(* the scheduler may kill the worker at any time (Worker.Kill) and, for an *)
(* issue in a terminal state, removes the workspace as well.               *)
(*                                                                         *)
(* pc is the position of the attempt.  A notification is received when the *)
(* read loop handles it, so the pipe of the process is not modelled.  The  *)
(* channel values name the turn of the process they come from; the code    *)
(* does not look at it.  Attempts of the issue follow one another.         *)
(***************************************************************************)
EXTENDS Naturals

CONSTANTS
    MaxTurns,       \* cfg.Agent.MaxTurns
    TurnTimeouts    \* the values of cfg.Codex.TurnTimeoutMS > 0 an attempt may see

ASSUME ConstantsAssumption == MaxTurns \in Nat /\ TurnTimeouts \subseteq BOOLEAN

VARIABLES
    pc,             \* position of the attempt
    turnTimeout,    \* cfg.Codex.TurnTimeoutMS > 0 for this attempt
    turn,           \* the turn runLoop is in
    live,           \* the worker context is not cancelled
    proc,           \* "none", "up", or "gone" when doneCh is closed
    asked,          \* turns requested with turn/start
    started,        \* turns the process has announced with turn/started
    ended,          \* turns the process has ended with turn/completed
    sessionReady,   \* channel of capacity one: {} or {turn}
    turnDone,       \* channel of capacity one: {} or {[turn, failed]}
    graceful,       \* Worker.graceful
    kill,           \* Worker.Kill: how far its goroutine is, and the reason
    removing,       \* execRemoveWorkspace is still to come
    failed,         \* loopErr # nil, or the error of spawnWith
    dir,            \* the workspace: "absent", "created", "prepared" or "torn"
    hooks,          \* calls of BeforeRun and AfterRun, and after_run scripts run
    exits           \* worker exits reported to the scheduler

vars == <<pc, turnTimeout, turn, live, proc, asked, started, ended, sessionReady, turnDone,
          graceful, kill, removing, failed, dir, hooks, exits>>
session == <<turnTimeout, turn, asked, started, ended, sessionReady, turnDone>>

Spawn == {"ensure", "create", "verify", "before", "render", "launch", "init",
          "ready", "initReap", "abandon"}
Loop == {"await", "timeout", "decide", "next", "starting", "reap", "report"}

NoHooks == [before |-> 0, after |-> 0, ran |-> 0]
Reasons == {"terminal", "non-active", "stall"}
NoKill == [at |-> "no", reason |-> "none"]

Init ==
    /\ pc = "ensure" /\ dir = "absent"
    /\ turnTimeout \in TurnTimeouts
    /\ turn = 0 /\ asked = 0 /\ started = 0 /\ ended = 0
    /\ sessionReady = {} /\ turnDone = {}
    /\ live = TRUE /\ proc = "none" /\ graceful = FALSE
    /\ kill = NoKill /\ removing = FALSE
    /\ failed = FALSE /\ exits = 0 /\ hooks = NoHooks

\* spawnWith is called for another attempt, or the orchestrator has to be started first
freshAttempt(start) ==
    /\ pc' = start
    /\ turnTimeout' \in TurnTimeouts
    /\ turn' = 0 /\ asked' = 0 /\ started' = 0 /\ ended' = 0
    /\ sessionReady' = {} /\ turnDone' = {}
    /\ live' = TRUE /\ proc' = "none" /\ graceful' = FALSE
    /\ kill' = NoKill /\ removing' = FALSE
    /\ failed' = FALSE /\ exits' = 0 /\ hooks' = NoHooks

-----------------------------------------------------------------------------
(* spawnWith.                                                              *)

go(from, to) == pc = from /\ pc' = to

\* The attempt is failed for a reason of its own
fail == failed' = TRUE

\* Ensure: an existing directory is taken as it is, a new one gets after_create
Ensure ==
    /\ \/ dir # "absent" /\ go("ensure", "verify") /\ UNCHANGED dir
       \/ dir = "absent" /\ go("ensure", "create") /\ dir' = "created"
    /\ UNCHANGED <<session, live, proc, graceful, kill, removing, failed, hooks, exits>>

AfterCreateFailed ==
    go("create", "done") /\ dir' = "absent" /\ fail

AfterCreate ==
    /\ \/ go("create", "verify") /\ dir' = "prepared" /\ UNCHANGED failed
       \/ AfterCreateFailed
    /\ UNCHANGED <<session, live, proc, graceful, kill, removing, hooks, exits>>

\* VerifyCWD, or the error of Ensure itself
VerifyCWD ==
    /\ \/ go("verify", "before") /\ UNCHANGED failed
       \/ go("verify", "done") /\ fail
    /\ UNCHANGED <<session, live, proc, graceful, kill, removing, dir, hooks, exits>>

\* BeforeRun, then renderPrompt, then launchConn: each may fail, and the
\* deferred function runs AfterRun.
BeforeRun ==
    /\ hooks' = [hooks EXCEPT !.before = @ + 1]
    /\ \/ go("before", "render") /\ UNCHANGED failed
       \/ go("before", "abandon") /\ fail
    /\ UNCHANGED <<session, live, proc, graceful, kill, removing, dir, exits>>

RenderPrompt ==
    /\ \/ go("render", "launch") /\ UNCHANGED failed
       \/ go("render", "abandon") /\ fail
    /\ UNCHANGED <<session, live, proc, graceful, kill, removing, dir, hooks, exits>>

LaunchConn ==
    /\ \/ go("launch", "init") /\ proc' = "up" /\ UNCHANGED <<live, failed>>
       \/ go("launch", "abandon") /\ live' = FALSE /\ fail /\ UNCHANGED proc
    /\ UNCHANGED <<session, graceful, kill, removing, dir, hooks, exits>>

\* initSession: initialize, thread/start and turn/start, each of which may fail ...
InitSession ==
    /\ \/ go("init", "ready") /\ asked' = 1 /\ UNCHANGED <<live, failed>>
       \/ go("init", "initReap") /\ live' = FALSE /\ fail /\ UNCHANGED asked
    /\ UNCHANGED <<turnTimeout, turn, started, ended, sessionReady, turnDone, proc, graceful,
                   kill, removing, dir, hooks, exits>>

\* ... then the wait for turn/started, for the process or for spawnTimeout
SessionStarts ==
    /\ \/ /\ go("ready", "await")
          /\ sessionReady # {} /\ sessionReady' = {}
          /\ turn' = 1
          /\ UNCHANGED <<live, failed>>
       \/ /\ go("ready", "initReap")
          /\ live' = FALSE /\ fail
          /\ UNCHANGED <<turn, sessionReady>>
    /\ UNCHANGED <<turnTimeout, asked, started, ended, turnDone, proc, graceful, kill, removing, dir,
                   hooks, exits>>

InitReaped ==
    /\ go("initReap", "abandon") /\ proc = "gone"
    /\ UNCHANGED <<session, live, proc, graceful, kill, removing, failed, dir, hooks, exits>>

\* runHook: without its working directory the script does not run
afterRun ==
    hooks' = [hooks EXCEPT !.after = @ + 1, !.ran = IF dir = "absent" THEN @ ELSE @ + 1]

\* Mutant: a spawn that failed after BeforeRun returns without AfterRun
AbandonSilently ==
    /\ go("abandon", "done")
    /\ UNCHANGED <<session, live, proc, graceful, kill, removing, failed, dir, hooks, exits>>

\* The deferred AfterRun of an attempt that was not committed
Abandon ==
    /\ go("abandon", "done") /\ afterRun
    /\ UNCHANGED <<session, live, proc, graceful, kill, removing, failed, dir, exits>>

-----------------------------------------------------------------------------
(* runLoop.                                                                *)

\* awaitTurn and the reaction of runLoop to its result
Settle(ok, failure) ==
    /\ pc' = IF ok THEN "decide" ELSE "reap"
    /\ live' = (live /\ ok)
    /\ failed' = failure

\* Mutant: the result is looked at and left in the channel
TurnResultPeek ==
    /\ pc = "await"
    /\ \E r \in turnDone : Settle(~r.failed, r.failed)
    /\ UNCHANGED <<session, proc, graceful, kill, removing, dir, hooks, exits>>

\* case result := <-turnDone (also when the process has already gone)
TurnResult ==
    /\ pc = "await"
    /\ \E r \in turnDone : Settle(~r.failed, r.failed)
    /\ turnDone' = {}
    /\ UNCHANGED <<turnTimeout, turn, asked, started, ended, sessionReady, proc, graceful, kill, removing,
                   dir, hooks, exits>>

\* case <-timeoutCh: cancel, then wait for the process
TurnTimesOut ==
    /\ turnTimeout
    /\ go("await", "timeout")
    /\ live' = FALSE
    /\ UNCHANGED <<session, proc, graceful, kill, removing, failed, dir, hooks, exits>>

TimeoutReaped ==
    /\ pc = "timeout" /\ proc = "gone"
    /\ Settle(FALSE, TRUE)
    /\ UNCHANGED <<session, proc, graceful, kill, removing, dir, hooks, exits>>

\* case <-doneCh: cancelled after a graceful kill, otherwise a buffered result
\* first and a failure without one
ProcessGone ==
    /\ pc = "await" /\ proc = "gone"
    /\ \/ graceful /\ Settle(FALSE, FALSE)
       \/ ~graceful /\ turnDone = {} /\ Settle(FALSE, TRUE)
    /\ UNCHANGED <<session, proc, graceful, kill, removing, dir, hooks, exits>>

\* shouldContinue asks the tracker only below max_turns
mayContinue == turn < MaxTurns

Decide ==
    /\ \/ mayContinue /\ go("decide", "next") /\ UNCHANGED live
       \/ go("decide", "reap") /\ live' = FALSE
    /\ UNCHANGED <<session, proc, graceful, kill, removing, failed, dir, hooks, exits>>

\* nextTurn: turn/start ...
NextTurn ==
    /\ \/ /\ go("next", "starting") /\ proc = "up"
          /\ asked' = asked + 1
          /\ UNCHANGED <<live, failed>>
       \/ /\ go("next", "reap")
          /\ asked' \in {asked, asked + 1}
          /\ live' = FALSE /\ failed' = TRUE
    /\ UNCHANGED <<turnTimeout, turn, started, ended, sessionReady, turnDone, proc, graceful,
                   kill, removing, dir, hooks, exits>>

\* Mutant: the wait for turn/started has no timeout
NextTurnStartsNoTimeout ==
    /\ \/ /\ go("starting", "await")
          /\ sessionReady # {} /\ sessionReady' = {}
          /\ turn' = turn + 1
          /\ UNCHANGED <<live, failed>>
       \/ /\ go("starting", "reap") /\ (proc = "gone" \/ ~live)
          /\ live' = FALSE /\ failed' = TRUE
          /\ UNCHANGED <<turn, sessionReady>>
    /\ UNCHANGED <<turnTimeout, asked, started, ended, turnDone, proc, graceful, kill, removing,
                   dir, hooks, exits>>

\* ... then turn/started, or spawnTimeout, the process or the context gone
NextTurnStarts ==
    /\ \/ /\ go("starting", "await")
          /\ sessionReady # {} /\ sessionReady' = {}
          /\ turn' = turn + 1
          /\ UNCHANGED <<live, failed>>
       \/ /\ go("starting", "reap")
          /\ live' = FALSE /\ failed' = TRUE
          /\ UNCHANGED <<turn, sessionReady>>
    /\ UNCHANGED <<turnTimeout, asked, started, ended, turnDone, proc, graceful, kill, removing, dir,
                   hooks, exits>>

\* Mutant: AfterRun before the process has gone
teardownEarly == pc = "reap"

\* teardown waits for the process before it runs AfterRun
teardown == pc = "reap" /\ proc = "gone"

Teardown ==
    /\ teardown /\ pc' = "report"
    /\ afterRun
    /\ UNCHANGED <<session, live, proc, graceful, kill, removing, failed, dir, exits>>

SendWorkerExit ==
    /\ go("report", "done")
    /\ exits' = exits + 1
    /\ UNCHANGED <<session, live, proc, graceful, kill, removing, failed, dir, hooks>>

-----------------------------------------------------------------------------
(* The process and the turn handler.                                       *)

\* A send that is dropped when the channel is full
offer(chan, v) == chan' = IF chan = {} THEN {v} ELSE chan

TurnStarted ==
    /\ proc = "up" /\ started < asked /\ started = ended
    /\ started' = started + 1
    /\ offer(sessionReady, started + 1)
    /\ UNCHANGED <<pc, turnTimeout, turn, live, proc, asked, ended, turnDone, graceful, kill, removing,
                   failed, dir, hooks, exits>>

TurnCompleted ==
    /\ proc = "up" /\ ended < started
    /\ ended' = ended + 1
    /\ offer(turnDone, [turn |-> started, failed |-> FALSE])
    /\ UNCHANGED <<pc, turnTimeout, turn, live, proc, asked, started, sessionReady, graceful,
                   kill, removing, failed, dir, hooks, exits>>

\* The error notification, or handleUserInputRequired, at any time of the process
TurnError ==
    /\ proc = "up"
    /\ offer(turnDone, [turn |-> started, failed |-> TRUE])
    /\ UNCHANGED <<pc, turnTimeout, turn, live, proc, asked, started, ended, sessionReady,
                   graceful, kill, removing, failed, dir, hooks, exits>>

\* The process ends: because its context is cancelled, or by itself
ProcExits ==
    /\ proc = "up" /\ proc' = "gone"
    /\ UNCHANGED <<pc, session, live, graceful, kill, removing, failed, dir, hooks, exits>>

-----------------------------------------------------------------------------
(* The scheduler.                                                          *)

\* execKillWorker starts a goroutine for Worker.Kill; for "terminal" the loop goes on at
\* once to remove the workspace
execKillWorker(reason) ==
    /\ pc \in Loop /\ kill = NoKill
    /\ kill' = [at |-> "asked", reason |-> reason]
    /\ removing' = (reason = "terminal")
    /\ UNCHANGED <<pc, session, live, proc, graceful, failed, dir, hooks, exits>>

\* Worker.Kill, first half: "terminal" and "non-active" are graceful, "stall" is not
Kill ==
    /\ kill.at = "asked" /\ kill' = [kill EXCEPT !.at = "called"]
    /\ graceful' = (kill.reason \in {"terminal", "non-active"})
    /\ UNCHANGED <<pc, session, live, proc, removing, failed, dir, hooks, exits>>

\* Mutant: Kill waits for the process without cancelling its context
KillCancelsNothing ==
    /\ kill.at = "called" /\ kill' = [kill EXCEPT !.at = "cancelled"]
    /\ UNCHANGED <<pc, session, live, proc, graceful, removing, failed, dir, hooks, exits>>

\* Worker.Kill, second half: cancel.  (It then waits for doneCh.)
KillCancels ==
    /\ kill.at = "called" /\ kill' = [kill EXCEPT !.at = "cancelled"]
    /\ live' = FALSE
    /\ UNCHANGED <<pc, session, proc, graceful, removing, failed, dir, hooks, exits>>

\* execRemoveWorkspace, whatever the worker and the goroutine that kills it have reached
RemoveWorkspace ==
    /\ removing /\ removing' = FALSE
    /\ dir' = "absent"
    /\ UNCHANGED <<pc, session, live, proc, graceful, kill, failed, hooks, exits>>

\* The next attempt of the issue
NextAttempt ==
    /\ pc = "done" /\ ~removing
    /\ freshAttempt("ensure") /\ UNCHANGED dir

\* The orchestrator dies, and its processes with it ...
Crash ==
    /\ pc # "down"
    /\ freshAttempt("down")
    /\ dir' = IF dir = "created" THEN "torn" ELSE dir

\* ... and is started again
Restart == pc = "down" /\ freshAttempt("ensure") /\ UNCHANGED dir

\* The steps of the goroutine that runs the attempt
Worker ==
    \/ Ensure \/ AfterCreate \/ VerifyCWD \/ BeforeRun \/ RenderPrompt \/ LaunchConn
    \/ InitSession \/ SessionStarts \/ InitReaped \/ Abandon
    \/ TurnResult \/ TurnTimesOut \/ TimeoutReaped \/ ProcessGone
    \/ Decide \/ NextTurn \/ NextTurnStarts \/ Teardown \/ SendWorkerExit

Next ==
    \/ Worker
    \/ TurnStarted \/ TurnCompleted \/ TurnError \/ ProcExits
    \/ \E reason \in Reasons : execKillWorker(reason)
    \/ Kill \/ KillCancels \/ RemoveWorkspace
    \/ NextAttempt \/ Crash \/ Restart

Spec == Init /\ [][Next]_vars

\* The worker's goroutine and a kill once called go on (its hooks and requests
\* have timeouts); the process is reaped after its context is cancelled.
FairSpec ==
    /\ Spec
    /\ WF_vars(Worker) /\ WF_vars(Kill) /\ WF_vars(KillCancels) /\ WF_vars(RemoveWorkspace)
    /\ WF_vars(~live /\ ProcExits)

-----------------------------------------------------------------------------
(* Properties.                                                             *)

\* The variables of the attempt hold values of their types.
TypeOK ==
    /\ pc \in Spawn \cup Loop \cup {"done", "down"}
    /\ turnTimeout \in BOOLEAN
    /\ turn \in Nat /\ asked \in Nat /\ started \in Nat /\ ended \in Nat
    /\ live \in BOOLEAN /\ proc \in {"none", "up", "gone"}
    /\ sessionReady \subseteq Nat /\ \A a, b \in sessionReady : a = b
    /\ turnDone \subseteq [turn : Nat, failed : BOOLEAN] /\ \A a, b \in turnDone : a = b
    /\ graceful \in BOOLEAN
    /\ kill \in [at : {"no", "asked", "called", "cancelled"}, reason : Reasons \cup {"none"}]
    /\ removing \in BOOLEAN /\ failed \in BOOLEAN
    /\ dir \in {"absent", "created", "prepared", "torn"}
    /\ hooks \in [before : Nat, after : Nat, ran : Nat]
    /\ exits \in Nat

\* runner.go:55: on every path out of spawnWith and runLoop that called
\* BeforeRun, AfterRun is called exactly once, by exactly one of the two; the script
\* runs unless the kill of a terminal issue removed the workspace first.
AfterRunOnce ==
    /\ exits = 1 => hooks.ran = 1 \/ kill.reason = "terminal"
    /\ hooks.after <= hooks.before /\ hooks.before <= 1
    /\ pc = "done" => hooks.after = hooks.before

\* teardown and spawnWith: AfterRun and the exit report come after the process
\* is gone, so that the next attempt never shares the workspace with it.
ProcessGoneFirst ==
    /\ hooks.after > 0 \/ pc = "done" => proc # "up"
    /\ exits <= 1 /\ (exits = 1 => hooks.after = 1)

\* runLoop: the turn it takes for completed is one the process has completed,
\* though results and session starts pass through lossy channels that do not
\* name the turn.
TurnsAreReal ==
    /\ pc = "decide" => turn <= ended
    /\ pc = "await" => turn <= started

\* worker.go Kill: a worker that is killed ends, in whatever turn, wait or
\* tracker call the kill reaches it, even with a process that never answers.
KilledWorkerExits == (kill.at = "asked") ~> (pc \in {"done", "down"})

\* awaitTurn, nextTurn: with a turn timeout every attempt ends by itself.
AttemptEnds == (pc = "ensure" /\ turnTimeout) ~> (pc \in {"done", "down"})
=============================================================================
