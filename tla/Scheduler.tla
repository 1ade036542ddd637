----------------------------- MODULE Scheduler -----------------------------
(***************************************************************************)
(* The orchestrator's scheduler: services/orchestrator/scheduler.          *)
(*                                                                         *)
(* One loop (Scheduler.Run) owns the state (running, claimed, retry) and   *)
(* folds events into it with the pure function Reduce.  The effects Reduce *)
(* returns are executed at once and feed their results back as further     *)
(* events, so a tick, a retry or a worker exit runs to completion before   *)
(* the loop selects the next one.  pc names the effect the loop is about   *)
(* to execute; pc = "select" is the select statement of Run.               *)
(*                                                                         *)
(* Around the loop run the agent workers (procs), which are killed         *)
(* asynchronously and report their end on the channel workerDone, and the  *)
(* retry timers, which report on retryFire.                                *)
(*                                                                         *)
(* Abstractions.  The tracker is external and may change between any two   *)
(* calls: every answer of it is chosen nondeterministically.  Time is      *)
(* abstract: an armed timer may fire at any moment, and the last activity  *)
(* of an attempt may become older than the stall threshold at any moment.  *)
(* A report of activity is taken when it is sent: one that waits in the    *)
(* channel carries the time it was sent at, so that it makes an attempt no *)
(* younger.  Attempts from MaxAttempt on are one class.  A session id that *)
(* nothing refers to any more may be given out again.                      *)
(***************************************************************************)
EXTENDS Naturals, FiniteSets, Sequences

CONSTANTS
    Issue,          \* issue ids
    Rank,           \* the order of sortCandidates: priority, created_at, identifier
    Session,        \* session ids, one for every worker process
    State,          \* tracker states (lower case)
    Active,         \* cfg.Tracker.ActiveStates
    Terminal,       \* cfg.Tracker.TerminalStates
    Todo,           \* the state that a blocker keeps from being dispatched
    StateCap,       \* cfg.Agent.MaxConcurrentAgentsByState, a partial map
    Limits,         \* the values of max_concurrent_agents a reload may bring
    Validity,       \* the outcomes of a reload: a subset of BOOLEAN
    StallDetection, \* codex.stall_timeout_ms > 0
    DoneCap,        \* capacity of the channel workerDone
    MaxAttempt      \* bound: attempts from here on are one class

ASSUME ConstantsAssumption ==
    /\ IsFiniteSet(Issue) /\ Issue # {}
    /\ Rank \in [Issue -> Nat]
    /\ \A i, j \in Issue : Rank[i] = Rank[j] => i = j
    /\ Active \subseteq State /\ Terminal \subseteq State /\ Todo \in State
    /\ DOMAIN StateCap \subseteq State
    /\ \A s \in DOMAIN StateCap : StateCap[s] \in Nat
    /\ StateCap = [s \in DOMAIN StateCap |-> StateCap[s]]
    /\ Limits \subseteq Nat /\ Limits # {}
    /\ Validity \subseteq BOOLEAN
    /\ StallDetection \in BOOLEAN
    /\ DoneCap \in Nat \ {0}
    /\ MaxAttempt \in Nat

VARIABLES
    running,        \* State.Running: issue -> attempt in progress; quiet: its last
                    \* activity is older than stall_timeout_ms
    claimed,        \* State.Claimed
    retry,          \* State.RetryAttempts: issue -> entry
    workers,        \* Scheduler.workers: issue -> handle of a worker process
    timers,         \* Scheduler.timers: issue -> retry timer
    retryFire,      \* channel of fired retry timers
    workerDone,     \* channel of worker exits
    procs,          \* the worker processes that have not finished their teardown
    limit,          \* cfg.Agent.MaxConcurrentAgents of the configuration in force
    pc,             \* the effect the loop executes next
    fetchNext,      \* whether the tick ends with a candidate fetch
    pending,        \* claimed issues still to revalidate: issue -> fetched state
    cur             \* the issue, state and attempt of the effect at pc

sched == <<running, claimed, retry>>
loop == <<limit, pc, fetchNext, pending, cur>>
vars == <<running, claimed, retry, workers, timers, retryFire, workerDone,
          procs, limit, pc, fetchNext, pending, cur>>

Attempt == 0 .. MaxAttempt
Kind == {"continuation", "backoff"}
Run == [state : State, attempt : Attempt, session : Session, quiet : BOOLEAN]
Entry == [attempt : Attempt, kind : Kind]
Timer == [attempt : Attempt, armed : BOOLEAN]
Proc == [issue : Issue, session : Session, attempt : Attempt, killed : BOOLEAN]
Fire == [issue : Issue, attempt : Attempt]
Exit == [issue : Issue, session : Session, attempt : Attempt, failed : BOOLEAN]
Job == [issue : Issue, state : State, attempt : Attempt]

\* A Go map from keys in K to values in V
Map(K, V) == UNION {[D -> V] : D \in SUBSET K}

-----------------------------------------------------------------------------
(* Copy-on-write map helpers and the pure transitions (transitions.go).    *)

withKey(m, k, v) == [x \in DOMAIN m \cup {k} |-> IF x = k THEN v ELSE m[x]]

withoutKeys(m, K) == [x \in DOMAIN m \ K |-> m[x]]

Succ(a) == IF a < MaxAttempt THEN a + 1 ELSE MaxAttempt

\* retryQueuedCount
RetryQueued == DOMAIN retry \ DOMAIN running

\* Mutant: the issues waiting for a retry do not count
availableGlobalSlotsRunningOnly ==
    IF limit > Cardinality(DOMAIN running) THEN limit - Cardinality(DOMAIN running) ELSE 0

availableGlobalSlots ==
    LET used == Cardinality(DOMAIN running) + Cardinality(RetryQueued)
    IN  IF limit > used THEN limit - used ELSE 0

CapOf(s) == IF s \in DOMAIN StateCap THEN StateCap[s] ELSE limit

runningInState(s) == {i \in DOMAIN running : running[i].state = s}

retryReclaimHasSlot(i, s) ==
    /\ Cardinality(DOMAIN running) + Cardinality(RetryQueued \ {i}) < limit
    /\ Cardinality(runningInState(s)) < CapOf(s)

\* releaseClaim for every issue of S
releaseClaim(S) ==
    /\ running' = withoutKeys(running, S)
    /\ claimed' = claimed \ S
    /\ retry' = withoutKeys(retry, S)

\* reloadConfig: an invalid workflow keeps the last known good configuration
reloadConfig(valid) ==
    /\ valid \in Validity
    /\ limit' \in IF valid THEN Limits ELSE {limit}

\* Mutant: an issue that has a timer is not given a new one
armTimerOnce(i, a) ==
    timers' = IF i \in DOMAIN timers THEN timers
              ELSE withKey(timers, i, [attempt |-> a, armed |-> TRUE])

\* armTimer: a running timer is stopped, a request it already sent stays queued
armTimer(i, a) == timers' = withKey(timers, i, [attempt |-> a, armed |-> TRUE])

\* execKillWorker for every issue of S: the handle goes, the kill is asynchronous
execKillWorkers(S) ==
    /\ workers' = withoutKeys(workers, S)
    /\ procs' = {IF /\ p.issue \in S \cap DOMAIN workers
                    /\ workers[p.issue] = p.session
                 THEN [p EXCEPT !.killed = TRUE] ELSE p : p \in procs}

\* workerExitAbnormal and armRetry for every running issue of S, while the
\* issues of R are released
backoffAll(S, R) ==
    LET next(i) == Succ(running[i].attempt)
    IN  /\ retry' = [i \in (DOMAIN retry \ R) \cup S |->
                       IF i \in S THEN [attempt |-> next(i), kind |-> "backoff"]
                       ELSE retry[i]]
        /\ timers' = [i \in DOMAIN timers \cup S |->
                        IF i \in S THEN [attempt |-> next(i), armed |-> TRUE]
                        ELSE timers[i]]

\* The effect that follows when those of one dispatched issue are done
resume == IF DOMAIN pending = {} THEN "select" ELSE "revalidate"

NoJob == [issue |-> CHOOSE i \in Issue : TRUE, state |-> Todo, attempt |-> 0]

Init ==
    /\ running = [i \in {} |-> 0]
    /\ claimed = {}
    /\ retry = [i \in {} |-> 0]
    /\ workers = [i \in {} |-> 0]
    /\ timers = [i \in {} |-> 0]
    /\ retryFire = <<>>
    /\ workerDone = <<>>
    /\ procs = {}
    /\ limit \in Limits
    /\ pc = "select"
    /\ fetchNext = FALSE
    /\ pending = [i \in {} |-> Todo]
    /\ cur = NoJob

-----------------------------------------------------------------------------
(* The loop: one action per case of the select in Run and per effect that  *)
(* feeds an event back.                                                    *)

\* Mutant: stall detection looks at attempts with a live process only
StalledAlive ==
    {i \in DOMAIN running : running[i].quiet /\ \E p \in procs : p.session = running[i].session}

\* reduceStall: the attempts whose last activity is older than the threshold
Stalled == IF StallDetection THEN {i \in DOMAIN running : running[i].quiet} ELSE {}

\* tick: reload, then reduceTick (stall detection first)
Tick ==
    /\ pc = "select"
    /\ running' = withoutKeys(running, Stalled)
    /\ backoffAll(Stalled, {})
    /\ execKillWorkers(Stalled)
    /\ \E valid \in Validity :
          /\ reloadConfig(valid)
          /\ fetchNext' = valid
          /\ pc' = IF DOMAIN running \ Stalled # {} THEN "refresh"
                   ELSE IF valid THEN "fetch" ELSE "select"
    /\ UNCHANGED <<claimed, retryFire, workerDone, pending, cur>>

\* execRefreshTracker and reduceTrackerRefreshed
ExecRefreshTracker ==
    /\ pc = "refresh"
    /\ pc' = IF fetchNext THEN "fetch" ELSE "select"
    /\ \/ UNCHANGED <<running, claimed, retry, timers, workers, procs>>
       \/ \E answer \in Map(DOMAIN running, State) :
          LET ended == {i \in DOMAIN answer : answer[i] \in Terminal}
              kept == {i \in DOMAIN answer : answer[i] \in Active \ Terminal}
          IN  /\ running' = [i \in kept |-> [running[i] EXCEPT !.state = answer[i]]]
              /\ claimed' = claimed \ ended
              /\ backoffAll(DOMAIN running \ (ended \cup kept), ended)
              /\ execKillWorkers(DOMAIN running \ kept)
    /\ UNCHANGED <<retryFire, workerDone, limit, fetchNext, pending, cur>>

Candidate == {c \in [state : State, blocked : BOOLEAN] :
                 c.blocked => c.state = Todo}

\* Mutant: only running issues are excluded
eligibleNotRunning(i, c) ==
    /\ c.state \in Active \ Terminal
    /\ i \notin DOMAIN running
    /\ ~(c.state = Todo /\ c.blocked)

eligible(i, c) ==
    /\ c.state \in Active \ Terminal
    /\ i \notin DOMAIN running \cup claimed \cup DOMAIN retry
    /\ ~(c.state = Todo /\ c.blocked)

\* W is what the allocation loop of reduceCandidates claims among the
\* eligible issues E of cands, in the order of sortCandidates.
Winners(cands, E, W) ==
    LET earlier(i) == {j \in W : Rank[j] < Rank[i]}
        full(i) ==
            Cardinality({j \in earlier(i) : cands[j].state = cands[i].state})
              + Cardinality(runningInState(cands[i].state))
            >= CapOf(cands[i].state)
    IN  /\ Cardinality(W) <= availableGlobalSlots
        /\ \A i \in W : ~full(i)
        /\ \A i \in E \ W :
              Cardinality(earlier(i)) >= availableGlobalSlots \/ full(i)

\* execFetchCandidates and reduceCandidates
ExecFetchCandidates ==
    /\ pc = "fetch"
    /\ fetchNext' = FALSE
    /\ \/ /\ pc' = "select"
          /\ UNCHANGED <<claimed, pending>>
       \/ \E cands \in Map(Issue, Candidate) :
          LET E == {i \in DOMAIN cands : eligible(i, cands[i])}
          IN  \E W \in SUBSET E :
                /\ Winners(cands, E, W)
                /\ claimed' = claimed \cup W
                /\ pending' = [i \in W |-> cands[i].state]
                /\ pc' = IF W = {} THEN "select" ELSE "revalidate"
    /\ UNCHANGED <<running, retry, workers, timers, retryFire, workerDone,
                   procs, limit, cur>>

\* execRevalidate and reduceRevalidated, for the next claimed issue
ExecRevalidate ==
    /\ pc = "revalidate"
    /\ \E i \in DOMAIN pending, found \in BOOLEAN, fresh \in State :
          /\ \A j \in DOMAIN pending : Rank[i] <= Rank[j]
          /\ pending' = withoutKeys(pending, {i})
          /\ \/ /\ found /\ fresh \in Active \ Terminal
                /\ pc' = "spawn"
                /\ cur' = [issue |-> i, state |-> pending[i], attempt |-> 0]
                /\ UNCHANGED sched
             \/ /\ ~found \/ fresh \notin Active \ Terminal
                /\ releaseClaim({i})
                /\ pc' = IF DOMAIN pending = {i} THEN "select" ELSE "revalidate"
                /\ UNCHANGED cur
    /\ UNCHANGED <<workers, timers, retryFire, workerDone, procs, limit, fetchNext>>

\* Mutant: only backoff entries get a timer
armRetryBackoffOnly(i, a, k) ==
    /\ retry' = withKey(retry, i, [attempt |-> a, kind |-> k])
    /\ IF k = "backoff" THEN armTimer(i, a) ELSE UNCHANGED timers

\* armRetry: record the entry and arm its timer
armRetry(i, a, k) ==
    /\ retry' = withKey(retry, i, [attempt |-> a, kind |-> k])
    /\ armTimer(i, a)

\* A session id nothing refers to
FreshSession ==
    Session \ ({p.session : p \in procs}
                 \cup {workerDone[k].session : k \in DOMAIN workerDone}
                 \cup {running[i].session : i \in DOMAIN running}
                 \cup {workers[i] : i \in DOMAIN workers})

\* execSpawn with EvSpawned (markRunning) ...
ExecSpawn ==
    /\ pc = "spawn"
    /\ \E ses \in FreshSession :
          /\ procs' = procs \cup {[issue |-> cur.issue, session |-> ses,
                                   attempt |-> cur.attempt, killed |-> FALSE]}
          /\ workers' = withKey(workers, cur.issue, ses)
          /\ running' = withKey(running, cur.issue,
                                [state |-> cur.state, attempt |-> cur.attempt,
                                 session |-> ses, quiet |-> FALSE])
    /\ pc' = resume
    /\ cur' = NoJob
    /\ UNCHANGED <<claimed, retry, timers, retryFire, workerDone, limit,
                   fetchNext, pending>>

\* ... or with EvSpawnFailed (reduceSpawnFailed): release, then a retry entry
ExecSpawnFailed ==
    /\ pc = "spawn"
    /\ running' = withoutKeys(running, {cur.issue})
    /\ claimed' = claimed \ {cur.issue}
    /\ armRetry(cur.issue, Succ(cur.attempt), "backoff")
    /\ pc' = resume
    /\ cur' = NoJob
    /\ UNCHANGED <<workers, retryFire, workerDone, procs, limit, fetchNext, pending>>

\* handleRetryFire; an invalid workflow re-arms with the same attempt
RetryFire ==
    /\ pc = "select" /\ retryFire # <<>>
    /\ retryFire' = Tail(retryFire)
    /\ LET req == Head(retryFire)
       IN  \E valid \in Validity :
             /\ reloadConfig(valid)
             /\ \/ /\ valid
                   /\ timers' = withoutKeys(timers, {req.issue})
                   /\ pc' = "retryFetch"
                   /\ cur' = [issue |-> req.issue, state |-> Todo,
                              attempt |-> req.attempt]
                \/ /\ ~valid
                   /\ armTimer(req.issue, req.attempt)
                   /\ UNCHANGED <<pc, cur>>
    /\ UNCHANGED <<running, claimed, retry, workers, workerDone, procs,
                   fetchNext, pending>>

\* claimFromRetry succeeds
Reclaimable(i) == i \in (DOMAIN retry \cap claimed) \ DOMAIN running

\* execRetryFetch and reduceRetryResolved
ExecRetryFetch ==
    /\ pc = "retryFetch"
    /\ LET i == cur.issue
       IN  \/ \* fetch error
              /\ armRetry(i, Succ(cur.attempt), "backoff")
              /\ pc' = "select" /\ cur' = NoJob
              /\ UNCHANGED <<running, claimed>>
           \/ \* missing, or no longer active
              /\ releaseClaim({i})
              /\ pc' = "select" /\ cur' = NoJob
              /\ UNCHANGED timers
           \/ \E s \in Active \ Terminal :
              \/ /\ ~retryReclaimHasSlot(i, s)
                 /\ armRetry(i, Succ(cur.attempt), "backoff")
                 /\ pc' = "select" /\ cur' = NoJob
                 /\ UNCHANGED <<running, claimed>>
              \/ /\ retryReclaimHasSlot(i, s) /\ Reclaimable(i)
                 /\ retry' = withoutKeys(retry, {i})
                 /\ pc' = "spawn"
                 /\ cur' = [cur EXCEPT !.state = s]
                 /\ UNCHANGED <<running, claimed, timers>>
              \/ \* the claim is rejected: the entry is left as it is
                 /\ retryReclaimHasSlot(i, s) /\ ~Reclaimable(i)
                 /\ pc' = "select" /\ cur' = NoJob
                 /\ UNCHANGED <<running, claimed, retry, timers>>
    /\ UNCHANGED <<workers, retryFire, workerDone, procs, limit, fetchNext, pending>>

\* Mutant: a failed exit is taken for an issue that is no longer running
ExitAppliesFailed(e) == e.issue \in DOMAIN running \/ e.failed

\* Mutant: the reducer ignores the exit of an earlier worker, the shell does not
ExitAppliesSession(e) ==
    e.issue \in DOMAIN running /\ e.session = running[e.issue].session

\* reduceWorkerExit acts on an exit for a running issue only
ExitApplies(e) == e.issue \in DOMAIN running

\* The workerDone case of Run with reduceWorkerExit.  The exit names the
\* issue and the attempt; session only records whose exit it is.
WorkerExit ==
    /\ pc = "select" /\ workerDone # <<>>
    /\ workerDone' = Tail(workerDone)
    /\ \E valid \in Validity : reloadConfig(valid)
    /\ LET e == Head(workerDone)
       IN  /\ workers' = withoutKeys(workers, {e.issue})
           /\ \/ /\ ~ExitApplies(e)
                 /\ UNCHANGED <<running, retry, timers>>
              \/ /\ ExitApplies(e)
                 /\ running' = withoutKeys(running, {e.issue})
                 /\ \/ e.failed /\ armRetry(e.issue, Succ(e.attempt), "backoff")
                    \/ /\ ~e.failed
                       /\ armRetry(e.issue, Succ(running[e.issue].attempt), "continuation")
    /\ UNCHANGED <<claimed, retryFire, procs, pc, fetchNext, pending, cur>>

\* The codexActivity case of Run with updateCodexActivity.  A report names the
\* issue, not the attempt: any worker of the issue that is left keeps the
\* attempt in progress from looking stalled, a killed or replaced one included.
CodexActivity(i) ==
    /\ pc = "select"
    /\ i \in DOMAIN running /\ \E p \in procs : p.issue = i
    /\ running' = [running EXCEPT ![i].quiet = FALSE]
    /\ UNCHANGED <<claimed, retry, workers, timers, retryFire, workerDone, procs>>
    /\ UNCHANGED loop

-----------------------------------------------------------------------------
(* Time, timers and workers.                                               *)

\* The last activity of an attempt, or its start, passes the stall threshold
StallTimeout(i) ==
    /\ i \in DOMAIN running
    /\ running' = [running EXCEPT ![i].quiet = TRUE]
    /\ UNCHANGED <<claimed, retry, workers, timers, retryFire, workerDone, procs>>
    /\ UNCHANGED loop

\* A retry timer expires and queues its request
TimerFires(i) ==
    /\ i \in DOMAIN timers /\ timers[i].armed
    /\ timers' = [timers EXCEPT ![i].armed = FALSE]
    /\ retryFire' = Append(retryFire, [issue |-> i, attempt |-> timers[i].attempt])
    /\ UNCHANGED <<running, claimed, retry, workers, workerDone, procs>>
    /\ UNCHANGED loop

\* Mutant: the capacity check is off by one
sendWorkerExitOffByOne(e) ==
    workerDone' = IF Len(workerDone) + 1 < DoneCap THEN Append(workerDone, e) ELSE workerDone

\* sendWorkerExit: a non-blocking send, dropped when the channel is full
sendWorkerExit(e) ==
    workerDone' = IF Len(workerDone) < DoneCap THEN Append(workerDone, e) ELSE workerDone

\* The end of runLoop, after the teardown.  Killed or not, the turn loop may
\* end with or without an error.
ProcExit(p, failed) ==
    /\ procs' = procs \ {p}
    /\ sendWorkerExit([issue |-> p.issue, session |-> p.session,
                       attempt |-> p.attempt, failed |-> failed])
    /\ UNCHANGED <<running, claimed, retry, workers, timers, retryFire>>
    /\ UNCHANGED loop

Exec == ExecRefreshTracker \/ ExecFetchCandidates \/ ExecRevalidate
          \/ ExecSpawn \/ ExecSpawnFailed \/ ExecRetryFetch

Next ==
    \/ Tick
    \/ RetryFire
    \/ WorkerExit
    \/ Exec
    \/ \E i \in Issue : CodexActivity(i) \/ StallTimeout(i) \/ TimerFires(i)
    \/ \E p \in procs, failed \in BOOLEAN : ProcExit(p, failed)

Spec == Init /\ [][Next]_vars

-----------------------------------------------------------------------------
(* Properties.                                                             *)

\* The maps of State and of the shell, the channels and the loop's position
\* hold values of their types.
TypeOK ==
    /\ running \in Map(Issue, Run)
    /\ claimed \subseteq Issue
    /\ retry \in Map(Issue, Entry)
    /\ workers \in Map(Issue, Session)
    /\ timers \in Map(Issue, Timer)
    /\ retryFire \in Seq(Fire)
    /\ workerDone \in Seq(Exit) /\ Len(workerDone) <= DoneCap
    /\ procs \subseteq Proc
    /\ limit \in Limits
    /\ pc \in {"select", "refresh", "fetch", "revalidate", "spawn", "retryFetch"}
    /\ fetchNext \in BOOLEAN
    /\ pending \in Map(Issue, State)
    /\ cur \in Job

\* The issue between its claim and its spawn
Spawning == IF pc = "spawn" THEN {cur.issue} ELSE {}

\* The retry request whose candidate fetch is in progress
Fetching == IF pc = "retryFetch" THEN {cur.issue} ELSE {}

\* Single authority (SPEC 7.4, transitions.go:12-14): at every published state
\* an issue is in at most one of Running, the retry queue, the dispatch batch
\* and the spawn in progress, and a claim is held for one of these reasons
\* only.  Reached only by several events: claim, spawn, exit, retry, release.
SingleAuthority ==
    /\ DOMAIN running \cap DOMAIN retry = {}
    /\ (DOMAIN running \cup DOMAIN retry) \cap (DOMAIN pending \cup Spawning) = {}
    /\ DOMAIN pending \cap Spawning = {}
    /\ DOMAIN running \cup DOMAIN pending \cup Spawning \subseteq claimed
    /\ claimed \subseteq DOMAIN running \cup DOMAIN pending \cup Spawning \cup DOMAIN retry

Queued(i) == {k \in DOMAIN retryFire : retryFire[k].issue = i}
Armed == {i \in DOMAIN timers : timers[i].armed}

\* armRetry / handleRetryFire: there is at most one live retry request for an
\* issue (an armed timer, a queued fire or the fetch in progress), and an issue
\* that is not in the retry queue has none: no late fire can touch an attempt
\* that is already running again.
OneRetryRequest ==
    \A i \in Issue :
        /\ \A k, l \in Queued(i) : k = l
        /\ ~(i \in Armed /\ Queued(i) # {})
        /\ i \in Armed \cup Fetching => i \in DOMAIN retry
        /\ Queued(i) # {} => i \in DOMAIN retry
        /\ i \in Fetching => i \notin Armed /\ Queued(i) = {}

\* A retry entry whose claim was retained (workerExitNormal, workerExitAbnormal)
\* still has its request: the issue cannot be forgotten with its slot occupied.
ClaimedRetryIsDue ==
    \A i \in DOMAIN retry \cap claimed :
        i \in Armed \cup Fetching \/ Queued(i) # {}

\* execSpawn / execKillWorker: the handle the shell holds for a running issue is
\* the handle of that very attempt, so that a stall or reconcile kill stops the
\* attempt it was decided for.
HandleOfAttempt ==
    \A i \in DOMAIN running :
        i \in DOMAIN workers /\ workers[i] = running[i].session

\* The worker of the attempt of i is alive and not being killed, or its exit is
\* waiting in workerDone.
Attended(i) ==
    \/ \E p \in procs : p.issue = i /\ p.session = running[i].session /\ ~p.killed
    \/ \E k \in DOMAIN workerDone :
          workerDone[k].issue = i /\ workerDone[k].session = running[i].session

\* An attempt in progress that nobody works on and nobody will report the end of
LostExit(i) == i \in DOMAIN running /\ ~Attended(i)

\* sendWorkerExit finds workerDone full at the end of the worker of i
DropsExit(i) ==
    /\ Len(workerDone) = DoneCap
    /\ \E p \in procs \ procs' : p.issue = i /\ p.session = running[i].session

\* A running attempt loses its worker without a pending exit in one way only: the
\* worker's own exit is dropped by sendWorkerExit because workerDone is full.  No
\* kill for a stalled or a reconciled attempt, no late exit of an earlier worker
\* and no respawn takes the worker of an attempt that stays in Running.
RunningHasWorker ==
    [][\A i \in Issue : LostExit(i)' => LostExit(i) \/ DropsExit(i)]_vars

\* Issues that occupy or have reserved a slot
Occupied == DOMAIN running \cup DOMAIN retry \cup DOMAIN pending \cup Spawning

\* Slots (slots.go, SPEC 8.3): a step that lets a further issue in does so within
\* the limit then in force; a reload that lowers the limit evicts nobody.
AdmissionWithinLimit ==
    [][Occupied' \subseteq Occupied \/ Cardinality(Occupied') <= limit']_vars

-----------------------------------------------------------------------------
(* Liveness.                                                               *)

\* An attempt in progress whose issue has no worker left, and no exit of one queued
Abandoned(i) ==
    /\ i \in DOMAIN running
    /\ \A p \in procs : p.issue # i
    /\ \A k \in DOMAIN workerDone : workerDone[k].issue # i

\* The loop executes the effects it has to execute; Go's select picks at random
\* among the ready cases, so a case that is ready again and again is taken; an
\* armed timer fires; a worker that was killed finishes its teardown; time passes,
\* and nobody reports activity for an issue that has no worker left.
Fairness ==
    /\ WF_vars(Exec)
    /\ SF_vars(RetryFire)
    /\ SF_vars(WorkerExit)
    /\ SF_vars(Tick)
    /\ \A i \in Issue : WF_vars(TimerFires(i))
    /\ \A i \in Issue : WF_vars(Abandoned(i) /\ StallTimeout(i))
    /\ WF_vars(\E p \in procs, failed \in BOOLEAN : p.killed /\ ProcExit(p, failed))

FairSpec == Spec /\ Fairness

\* A retry whose claim was retained is tried again: its request reaches
\* execRetryFetch however the other issues, exits and ticks interleave.
ClaimedRetryIsTried ==
    \A i \in Issue : (i \in DOMAIN retry \cap claimed) ~> (i \in Fetching)

\* A dropped exit (sendWorkerExit on a full channel) does not keep its slot for
\* ever while stall detection is on: an attempt whose issue has no worker left is
\* given up by a later tick, or before it by a reconciliation.  An attempt whose
\* issue still has a worker, that of an earlier attempt, is kept as long as that
\* worker reports activity.
LostExitIsRecovered ==
    \A i \in Issue : Abandoned(i) ~> i \notin DOMAIN running

-----------------------------------------------------------------------------
(* A statement of a comment that the code does not meet.                   *)

\* runner.go:270-271 "teardown must complete before the scheduler can re-dispatch
\* to the same workspace": an issue never has two workers that nobody has asked to
\* stop (a killed worker may overlap with the next attempt).
OneWorkerPerIssue ==
    \A p, q \in procs : p.issue = q.issue /\ ~p.killed /\ ~q.killed => p = q
=============================================================================
