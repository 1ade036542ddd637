-------------------------- MODULE SchedulerProofs --------------------------
(* Proofs about Scheduler, for every set of issues, sessions and states and *)
(* every value of the bounds.                                               *)
EXTENDS Scheduler, FiniteSetTheorems, TLAPS

\* A leaf is tried with Zenon, then with SMT, then with SMT again and more time.
USE ZenonT(5), SMT, SMTT(60)

-----------------------------------------------------------------------------
(* The map helpers of transitions.go.                                       *)

\* A map from K to V is a function whose domain is a subset of K.
LEMMA MapIsFunction ==
    ASSUME NEW K, NEW V, NEW m
    PROVE  m \in Map(K, V) <=> DOMAIN m \subseteq K /\ m \in [DOMAIN m -> V]
BY DEF Map

\* withKey adds one key.
LEMMA WithKeyMap ==
    ASSUME NEW K, NEW V, NEW m \in Map(K, V), NEW k \in K, NEW v \in V
    PROVE  withKey(m, k, v) \in Map(K, V)
BY MapIsFunction, SMTT(30) DEF withKey

\* withoutKey removes keys.
LEMMA WithoutKeysMap ==
    ASSUME NEW K, NEW V, NEW m \in Map(K, V), NEW S
    PROVE  withoutKeys(m, S) \in Map(K, V)
BY MapIsFunction, SMTT(30) DEF withoutKeys

\* Attempt numbers stay in their class.
LEMMA SuccType == \A a \in Attempt : Succ(a) \in Attempt
BY ConstantsAssumption, SMTT(30) DEF Succ, Attempt

-----------------------------------------------------------------------------
(* Type correctness.                                                        *)

\* The idle effect slot is well typed.
LEMMA NoJobType == NoJob \in Job
<1>1. (CHOOSE i \in Issue : TRUE) \in Issue
  BY ConstantsAssumption
<1> QED  BY <1>1, ConstantsAssumption, SMTT(30) DEF NoJob, Job, Attempt

\* The bulk operators of the tick keep the types of the maps they change.
LEMMA BulkTypes ==
    ASSUME TypeOK, NEW S \in SUBSET DOMAIN running, NEW R,
           backoffAll(S, R)
    PROVE  retry' \in Map(Issue, Entry) /\ timers' \in Map(Issue, Timer)
<1>1. DOMAIN running \subseteq Issue /\ running \in [DOMAIN running -> Run]
  BY MapIsFunction DEF TypeOK
<1>2. \A i \in S : Succ(running[i].attempt) \in Attempt
  BY <1>1, SuccType DEF Run
<1>3. /\ DOMAIN retry \subseteq Issue /\ retry \in [DOMAIN retry -> Entry]
      /\ DOMAIN timers \subseteq Issue /\ timers \in [DOMAIN timers -> Timer]
  BY MapIsFunction DEF TypeOK
<1>4. /\ DOMAIN retry' \subseteq Issue /\ retry' \in [DOMAIN retry' -> Entry]
  BY <1>1, <1>2, <1>3 DEF backoffAll, Entry, Kind
<1>5. /\ DOMAIN timers' \subseteq Issue /\ timers' \in [DOMAIN timers' -> Timer]
  BY <1>1, <1>2, <1>3 DEF backoffAll, Timer
<1> QED  BY <1>4, <1>5, MapIsFunction

\* execKillWorker keeps the types of the handles and of the processes.
LEMMA KillTypes ==
    ASSUME TypeOK, NEW S, execKillWorkers(S)
    PROVE  workers' \in Map(Issue, Session) /\ procs' \subseteq Proc
<1>1. workers' \in Map(Issue, Session)
  BY WithoutKeysMap DEF TypeOK, execKillWorkers
<1>2. \A p \in procs : p \in Proc /\ [p EXCEPT !.killed = TRUE] \in Proc
  BY ZenonT(60) DEF TypeOK, Proc
<1> QED  BY ZenonT(60), <1>1, <1>2 DEF execKillWorkers

\* armRetry keeps the types of the retry queue and of the timers.
LEMMA ArmTypes ==
    ASSUME TypeOK, NEW i \in Issue, NEW a \in Attempt
    PROVE  /\ armTimer(i, a) => timers' \in Map(Issue, Timer)
           /\ \A k \in Kind : armRetry(i, a, k) =>
                 timers' \in Map(Issue, Timer) /\ retry' \in Map(Issue, Entry)
<1>1. ASSUME armTimer(i, a) PROVE timers' \in Map(Issue, Timer)
  <2>1. [attempt |-> a, armed |-> TRUE] \in Timer
    BY DEF Timer
  <2> QED  BY <2>1, <1>1, WithKeyMap DEF armTimer, TypeOK
<1>2. ASSUME NEW k \in Kind, armRetry(i, a, k)
      PROVE  timers' \in Map(Issue, Timer) /\ retry' \in Map(Issue, Entry)
  <2>1. [attempt |-> a, kind |-> k] \in Entry
    BY DEF Entry
  <2> QED  BY <2>1, <1>1, <1>2, WithKeyMap DEF armRetry, TypeOK
<1> QED  BY <1>1, <1>2

\* Activity and its absence change nothing but the age of an attempt in progress.
LEMMA QuietChange ==
    ASSUME TypeOK, NEW i \in Issue, CodexActivity(i) \/ StallTimeout(i)
    PROVE  /\ running' \in Map(Issue, Run) /\ DOMAIN running' = DOMAIN running
           /\ \A j \in DOMAIN running : running'[j].session = running[j].session
           /\ UNCHANGED <<claimed, retry, workers, timers, retryFire, workerDone, procs>>
           /\ UNCHANGED loop
<1>1. PICK q \in BOOLEAN : i \in DOMAIN running /\ running' = [running EXCEPT ![i].quiet = q]
  BY DEF CodexActivity, StallTimeout
<1>2. DOMAIN running \subseteq Issue /\ running \in [DOMAIN running -> Run]
  BY MapIsFunction DEF TypeOK
<1>3. [running[i] EXCEPT !.quiet = q] \in Run /\ [running[i] EXCEPT !.quiet = q].session = running[i].session
  BY <1>1, <1>2 DEF Run
<1>4. DOMAIN running' = DOMAIN running /\ running' \in [DOMAIN running -> Run]
  BY <1>1, <1>2, <1>3
<1>5. running' \in Map(Issue, Run)
  BY <1>2, <1>4, MapIsFunction
<1>6. \A j \in DOMAIN running : running'[j].session = running[j].session
  BY <1>1, <1>2, <1>3
<1>7. UNCHANGED <<claimed, retry, workers, timers, retryFire, workerDone, procs>> /\ UNCHANGED loop
  BY DEF CodexActivity, StallTimeout
<1> QED  BY <1>4, <1>5, <1>6, <1>7

\* Every reachable state is well typed.
THEOREM TypeCorrect == Spec => []TypeOK
<1>1. Init => TypeOK
  <2> SUFFICES ASSUME Init PROVE TypeOK
    OBVIOUS
  <2>1. \A V : [i \in {} |-> 0] \in Map(Issue, V) /\ [i \in {} |-> Todo] \in Map(Issue, V)
    BY ZenonT(60) DEF Map
  <2>2. /\ running \in Map(Issue, Run) /\ retry \in Map(Issue, Entry)
        /\ workers \in Map(Issue, Session) /\ timers \in Map(Issue, Timer)
        /\ pending \in Map(Issue, State)
    BY <2>1 DEF Init
  <2>3. retryFire \in Seq(Fire) /\ workerDone \in Seq(Exit) /\ Len(workerDone) <= DoneCap
    BY ConstantsAssumption, SMTT(30) DEF Init
  <2> QED  BY ZenonT(60), <2>2, <2>3, NoJobType DEF Init, TypeOK
<1>2. TypeOK /\ [Next]_vars => TypeOK'
  <2> SUFFICES ASSUME TypeOK, [Next]_vars PROVE TypeOK'
    OBVIOUS
  <2>a. limit \in Limits /\ \A v \in BOOLEAN : reloadConfig(v) => limit' \in Limits
    BY DEF TypeOK, reloadConfig
  <2>b. /\ DOMAIN running \subseteq Issue /\ running \in [DOMAIN running -> Run]
        /\ DOMAIN pending \subseteq Issue /\ pending \in [DOMAIN pending -> State]
        /\ DOMAIN timers \subseteq Issue /\ timers \in [DOMAIN timers -> Timer]
    BY MapIsFunction DEF TypeOK
  <2>1. CASE Tick
    <3> DEFINE S == Stalled
    <3> PICK valid \in Validity :
             /\ reloadConfig(valid)
             /\ running' = withoutKeys(running, S)
             /\ backoffAll(S, {})
             /\ execKillWorkers(S)
             /\ fetchNext' = valid
             /\ pc' = IF DOMAIN running \ S # {} THEN "refresh"
                      ELSE IF valid THEN "fetch" ELSE "select"
      BY <2>1, Zenon DEF Tick
    <3>1. S \subseteq DOMAIN running
      BY DEF Stalled
    <3>2. running' \in Map(Issue, Run)
      BY WithoutKeysMap DEF TypeOK
    <3> QED  BY <2>1, <2>a, <3>1, <3>2, BulkTypes, KillTypes,
                ConstantsAssumption DEF Tick, TypeOK
  <2>2. CASE ExecRefreshTracker
    <3>1. CASE UNCHANGED <<running, claimed, retry, timers, workers, procs>>
      BY <2>2, <3>1 DEF ExecRefreshTracker, TypeOK
    <3>2. CASE ~ UNCHANGED <<running, claimed, retry, timers, workers, procs>>
      <4> DEFINE ended(f) == {i \in DOMAIN f : f[i] \in Terminal}
                 kept(f) == {i \in DOMAIN f : f[i] \in Active \ Terminal}
      <4> PICK answer \in Map(DOMAIN running, State) :
             /\ running' = [i \in kept(answer) |-> [running[i] EXCEPT !.state = answer[i]]]
             /\ claimed' = claimed \ ended(answer)
             /\ backoffAll(DOMAIN running \ (ended(answer) \cup kept(answer)), ended(answer))
             /\ execKillWorkers(DOMAIN running \ kept(answer))
        BY ZenonT(60), <2>2, <3>2 DEF ExecRefreshTracker
      <4>1. DOMAIN answer \subseteq DOMAIN running /\ answer \in [DOMAIN answer -> State]
        BY MapIsFunction
      <4>2. running' \in Map(Issue, Run)
        <5>1. \A i \in kept(answer) : [running[i] EXCEPT !.state = answer[i]] \in Run
          BY <4>1, <2>b DEF Run
        <5> QED  BY <5>1, <4>1, <2>b, MapIsFunction
      <4> HIDE DEF ended, kept
      <4> QED  BY <2>2, <4>2, BulkTypes, KillTypes DEF ExecRefreshTracker, TypeOK
    <3> QED  BY <3>1, <3>2
  <2>3. CASE ExecFetchCandidates
    <3>1. CASE UNCHANGED <<claimed, pending>> /\ pc' = "select"
      BY ZenonT(60), <2>3, <3>1 DEF ExecFetchCandidates, TypeOK
    <3>2. CASE ~ (UNCHANGED <<claimed, pending>> /\ pc' = "select")
      <4> PICK cands \in Map(Issue, Candidate) :
             \E W \in SUBSET {i \in DOMAIN cands : eligible(i, cands[i])} :
                /\ claimed' = claimed \cup W
                /\ pending' = [i \in W |-> cands[i].state]
                /\ pc' = IF W = {} THEN "select" ELSE "revalidate"
        BY ZenonT(60), <2>3, <3>2 DEF ExecFetchCandidates
      <4> PICK W \in SUBSET {i \in DOMAIN cands : eligible(i, cands[i])} :
             /\ claimed' = claimed \cup W
             /\ pending' = [i \in W |-> cands[i].state]
             /\ pc' = IF W = {} THEN "select" ELSE "revalidate"
        OBVIOUS
      <4>1. DOMAIN cands \subseteq Issue /\ cands \in [DOMAIN cands -> Candidate]
        BY MapIsFunction
      <4>2. pending' \in Map(Issue, State)
        BY <4>1, MapIsFunction DEF Candidate
      <4> QED  BY ZenonT(60), <2>3, <4>1, <4>2 DEF ExecFetchCandidates, TypeOK
    <3> QED  BY <3>1, <3>2
  <2>4. CASE ExecRevalidate
    <3> PICK i \in DOMAIN pending, found \in BOOLEAN, fresh \in State :
          /\ pending' = withoutKeys(pending, {i})
          /\ \/ /\ pc' = "spawn"
                /\ cur' = [issue |-> i, state |-> pending[i], attempt |-> 0]
                /\ UNCHANGED sched
             \/ /\ releaseClaim({i})
                /\ pc' = IF DOMAIN pending = {i} THEN "select" ELSE "revalidate"
                /\ UNCHANGED cur
      BY <2>4 DEF ExecRevalidate
    <3>1. pending' \in Map(Issue, State)
      BY WithoutKeysMap DEF TypeOK
    <3>2. running' \in Map(Issue, Run) /\ retry' \in Map(Issue, Entry) /\ claimed' \subseteq Issue
      BY WithoutKeysMap, SMTT(30) DEF TypeOK, releaseClaim, sched
    <3>3. cur' \in Job
      BY <2>b, ConstantsAssumption, SMTT(30) DEF TypeOK, Job, Attempt
    <3> QED  BY <2>4, <3>1, <3>2, <3>3 DEF ExecRevalidate, TypeOK
  <2>5. CASE ExecSpawn
    <3> PICK ses \in FreshSession :
          /\ procs' = procs \cup {[issue |-> cur.issue, session |-> ses,
                                   attempt |-> cur.attempt, killed |-> FALSE]}
          /\ workers' = withKey(workers, cur.issue, ses)
          /\ running' = withKey(running, cur.issue,
                                [state |-> cur.state, attempt |-> cur.attempt,
                                 session |-> ses, quiet |-> FALSE])
      BY <2>5 DEF ExecSpawn
    <3>1. ses \in Session
      BY DEF FreshSession
    <3>2. cur.issue \in Issue /\ cur.state \in State /\ cur.attempt \in Attempt
      BY DEF TypeOK, Job
    <3>3. [state |-> cur.state, attempt |-> cur.attempt, session |-> ses, quiet |-> FALSE] \in Run
      BY <3>1, <3>2 DEF Run
    <3> DEFINE new == [issue |-> cur.issue, session |-> ses,
                       attempt |-> cur.attempt, killed |-> FALSE]
    <3>n. new \in Proc
      BY <3>1, <3>2 DEF Proc
    <3>4. procs' \subseteq Proc
      <4> HIDE DEF new
      <4>1. procs \subseteq Proc
        BY DEF TypeOK
      <4>2. procs' = procs \cup {new}
        BY DEF new
      <4> QED  BY <3>n, <4>1, <4>2
    <3>5. running' \in Map(Issue, Run) /\ workers' \in Map(Issue, Session)
      BY <3>1, <3>2, <3>3, WithKeyMap DEF TypeOK
    <3> QED  BY <2>5, <3>4, <3>5, NoJobType DEF ExecSpawn, TypeOK, resume
  <2>6. CASE ExecSpawnFailed
    <3>1. cur.issue \in Issue /\ Succ(cur.attempt) \in Attempt
      BY SuccType DEF TypeOK, Job
    <3>2. timers' \in Map(Issue, Timer) /\ retry' \in Map(Issue, Entry)
      BY <2>6, <3>1, ArmTypes DEF ExecSpawnFailed, Kind
    <3>3. running' \in Map(Issue, Run)
      BY <2>6, WithoutKeysMap DEF ExecSpawnFailed, TypeOK
    <3> QED  BY <2>6, <3>2, <3>3, NoJobType DEF ExecSpawnFailed, TypeOK, resume
  <2>7. CASE RetryFire
    <3> DEFINE req == Head(retryFire)
    <3>1. req \in Fire /\ retryFire' \in Seq(Fire)
      BY <2>7 DEF RetryFire, TypeOK
    <3> PICK valid \in Validity :
             /\ reloadConfig(valid)
             /\ \/ /\ timers' = withoutKeys(timers, {req.issue})
                   /\ pc' = "retryFetch"
                   /\ cur' = [issue |-> req.issue, state |-> Todo,
                              attempt |-> req.attempt]
                \/ /\ armTimer(req.issue, req.attempt)
                   /\ UNCHANGED <<pc, cur>>
      BY <2>7 DEF RetryFire
    <3>2. req.issue \in Issue /\ req.attempt \in Attempt
      BY <3>1 DEF Fire
    <3>3. timers' \in Map(Issue, Timer)
      BY <3>2, ArmTypes, WithoutKeysMap DEF TypeOK
    <3>4. cur' \in Job
      BY <3>2, ConstantsAssumption, SMTT(30) DEF TypeOK, Job
    <3>5. limit' \in Limits
      BY <2>a, ConstantsAssumption
    <3> QED  BY <2>7, <3>1, <3>3, <3>4, <3>5 DEF RetryFire, TypeOK
  <2>8. CASE ExecRetryFetch
    <3>1. cur.issue \in Issue /\ Succ(cur.attempt) \in Attempt
      BY SuccType DEF TypeOK, Job
    <3>2. timers' \in Map(Issue, Timer) /\ retry' \in Map(Issue, Entry)
      BY <2>8, <3>1, ArmTypes, WithoutKeysMap, SMTT(30)
         DEF ExecRetryFetch, Kind, releaseClaim, TypeOK
    <3>3. running' \in Map(Issue, Run) /\ claimed' \subseteq Issue
      BY <2>8, WithoutKeysMap, SMTT(30) DEF ExecRetryFetch, releaseClaim, TypeOK
    <3>4. cur' \in Job
      <4>1. cur' = NoJob \/ \E s \in State : cur' = [cur EXCEPT !.state = s]
        BY <2>8, ConstantsAssumption DEF ExecRetryFetch
      <4>2. \A s \in State : [cur EXCEPT !.state = s] \in Job
        BY DEF TypeOK, Job
      <4> QED  BY <4>1, <4>2, NoJobType
    <3>5. pc' \in {"select", "spawn"}
      BY <2>8 DEF ExecRetryFetch
    <3> QED  BY <2>8, <3>2, <3>3, <3>4, <3>5 DEF ExecRetryFetch, TypeOK
  <2>9. CASE WorkerExit
    <3> DEFINE e == Head(workerDone)
    <3>1. e \in Exit /\ workerDone' \in Seq(Exit) /\ Len(workerDone') <= DoneCap
      BY <2>9, ConstantsAssumption, SMTT(30) DEF WorkerExit, TypeOK
    <3>2. e.issue \in Issue /\ Succ(e.attempt) \in Attempt
      BY <3>1, SuccType DEF Exit
    <3>3. e.issue \in DOMAIN running => Succ(running[e.issue].attempt) \in Attempt
      BY <2>b, SuccType DEF Run
    <3>4. timers' \in Map(Issue, Timer) /\ retry' \in Map(Issue, Entry)
      BY <2>9, <3>2, <3>3, ArmTypes DEF WorkerExit, Kind, TypeOK, ExitApplies
    <3>5. running' \in Map(Issue, Run) /\ workers' \in Map(Issue, Session)
      BY <2>9, WithoutKeysMap DEF WorkerExit, TypeOK
    <3>6. limit' \in Limits
      BY <2>9, <2>a, ConstantsAssumption DEF WorkerExit
    <3> QED  BY <2>9, <3>1, <3>4, <3>5, <3>6 DEF WorkerExit, TypeOK
  <2>10. ASSUME NEW i \in Issue, TimerFires(i) PROVE TypeOK'
    <3>1. timers' \in Map(Issue, Timer)
      <4>1. [timers[i] EXCEPT !.armed = FALSE] \in Timer
        BY ZenonT(60), <2>10, <2>b DEF TimerFires, Timer
      <4>2. DOMAIN timers' = DOMAIN timers /\ timers' \in [DOMAIN timers -> Timer]
        BY <2>10, <2>b, <4>1 DEF TimerFires
      <4> QED  BY <2>b, <4>2, MapIsFunction
    <3>2. [issue |-> i, attempt |-> timers[i].attempt] \in Fire
      BY <2>10, <2>b DEF TimerFires, Timer, Fire
    <3> QED  BY <2>10, <3>1, <3>2 DEF TimerFires, TypeOK, loop
  <2>11. ASSUME NEW p \in procs, NEW failed \in BOOLEAN, ProcExit(p, failed) PROVE TypeOK'
    <3>1. [issue |-> p.issue, session |-> p.session, attempt |-> p.attempt,
           failed |-> failed] \in Exit
      BY DEF TypeOK, Proc, Exit
    <3>2. workerDone' \in Seq(Exit) /\ Len(workerDone') <= DoneCap
      BY <2>11, <3>1, ConstantsAssumption, SMTT(30) DEF ProcExit, sendWorkerExit, TypeOK
    <3> QED  BY <2>11, <3>2 DEF ProcExit, TypeOK, loop
  <2>12. CASE UNCHANGED vars
    BY <2>12 DEF vars, TypeOK
  <2>13. ASSUME NEW i \in Issue, CodexActivity(i) \/ StallTimeout(i) PROVE TypeOK'
    <3>1. /\ running' \in Map(Issue, Run) /\ UNCHANGED loop
          /\ UNCHANGED <<claimed, retry, workers, timers, retryFire, workerDone, procs>>
      BY <2>13, QuietChange
    <3> QED  BY <3>1 DEF TypeOK, loop
  <2> QED
    BY <2>1, <2>2, <2>3, <2>4, <2>5, <2>6, <2>7, <2>8, <2>9, <2>10, <2>11, <2>12, <2>13
    DEF Next, Exec
<1> QED  BY <1>1, <1>2, PTL DEF Spec

-----------------------------------------------------------------------------
(* The queue of fired requests.                                             *)

\* Receiving a request removes its issue from the queue and nothing else, when
\* no issue is queued twice.
LEMMA QueueTail ==
    ASSUME TypeOK, OneRetryRequest, retryFire # <<>>,
           retryFire' = Tail(retryFire)
    PROVE  /\ Head(retryFire).issue \in Issue
           /\ Queued(Head(retryFire).issue) # {}
           /\ \A i \in Issue :
                 /\ \A k, l \in Queued(i)' : k = l
                 /\ Queued(i)' # {} <=> (Queued(i) # {} /\ i # Head(retryFire).issue)
<1>1. retryFire \in Seq(Fire) /\ Len(retryFire) \in Nat \ {0}
  BY DEF TypeOK
<1>2. Head(retryFire) = retryFire[1] /\ 1 \in DOMAIN retryFire
  BY <1>1
<1>3. retryFire[1].issue \in Issue
  <2>1. retryFire[1] \in Fire
    BY <1>1, <1>2
  <2> QED  BY <2>1 DEF Fire
<1>4. /\ DOMAIN retryFire' = 1 .. (Len(retryFire) - 1)
      /\ \A k \in 1 .. (Len(retryFire) - 1) : retryFire'[k] = retryFire[k + 1]
  BY <1>1
<1>5. DOMAIN retryFire = 1 .. Len(retryFire)
  BY <1>1
<1>6. \A i \in Issue : \A k : k \in Queued(i)' <=>
           k \in 1 .. (Len(retryFire) - 1) /\ retryFire[k + 1].issue = i
  BY <1>4 DEF Queued
<1>7. \A i \in Issue : \A k : k \in Queued(i) <=>
           k \in 1 .. Len(retryFire) /\ retryFire[k].issue = i
  BY <1>5 DEF Queued
<1>8. ASSUME NEW i \in Issue
      PROVE  /\ \A k, l \in Queued(i)' : k = l
             /\ Queued(i)' # {} <=> (Queued(i) # {} /\ i # Head(retryFire).issue)
  <2>1. \A k, l \in Queued(i) : k = l
    BY <1>8 DEF OneRetryRequest
  <2>2. \A k \in Queued(i)' : k \in Nat /\ k + 1 \in Queued(i)
    BY <1>1, <1>6, <1>7, SMTT(30)
  <2>3. \A k, l \in Queued(i)' : k = l
    BY <2>1, <2>2
  <2>4. ASSUME NEW k \in Queued(i)' PROVE i # Head(retryFire).issue
    <3>1. i = Head(retryFire).issue => 1 \in Queued(i)
      BY <1>1, <1>2, <1>7, SMTT(30)
    <3> QED  BY <2>1, <2>2, <3>1, <1>1, <1>6, SMTT(30)
  <2>5. ASSUME NEW k \in Queued(i), i # Head(retryFire).issue PROVE Queued(i)' # {}
    <3>1. k \in 2 .. Len(retryFire)
      BY <2>5, <1>1, <1>2, <1>7, SMTT(30)
    <3>2. k - 1 \in 1 .. (Len(retryFire) - 1) /\ (k - 1) + 1 = k
      BY <3>1, <1>1
    <3> QED  BY <3>2, <2>5, <1>6, <1>7
  <2> QED  BY <2>2, <2>3, <2>4, <2>5
<1>9. 1 \in Queued(Head(retryFire).issue)
  BY <1>1, <1>2, <1>3, <1>7, SMTT(30)
<1> QED  BY <1>2, <1>3, <1>8, <1>9

\* A timer that fires queues its issue and no other.
LEMMA QueueAppend ==
    ASSUME TypeOK, NEW j \in Issue, NEW a \in Attempt, Queued(j) = {},
           \A i \in Issue : \A k, l \in Queued(i) : k = l,
           retryFire' = Append(retryFire, [issue |-> j, attempt |-> a])
    PROVE  \A i \in Issue :
              /\ \A k, l \in Queued(i)' : k = l
              /\ Queued(i)' # {} <=> (Queued(i) # {} \/ i = j)
<1>1. retryFire \in Seq(Fire) /\ Len(retryFire) \in Nat
  BY SMTT(30) DEF TypeOK
<1>2. /\ DOMAIN retryFire' = 1 .. (Len(retryFire) + 1)
      /\ \A k \in 1 .. Len(retryFire) : retryFire'[k] = retryFire[k]
      /\ retryFire'[Len(retryFire) + 1].issue = j
  BY <1>1
<1>3. DOMAIN retryFire = 1 .. Len(retryFire)
  BY <1>1
<1>4. \A i \in Issue : \A k : k \in Queued(i)' <=>
           \/ k \in Queued(i)
           \/ k = Len(retryFire) + 1 /\ i = j
  BY <1>1, <1>2, <1>3, SMTT(30) DEF Queued
<1> QED  BY <1>4, SMTT(30)

-----------------------------------------------------------------------------
(* Single authority, and the life of a retry request.                       *)

\* Claims wait for revalidation only while the loop works through a batch.
Phase == DOMAIN pending # {} => pc \in {"revalidate", "spawn"}

\* The inductive invariant.  SingleAuthority alone is not inductive: a retry
\* request for a running issue would put it back into the retry queue
\* (reduceRetryResolved), and OneRetryRequest excludes such a request.
Authority == SingleAuthority /\ OneRetryRequest /\ ClaimedRetryIsDue /\ Phase

\* The effects of stall detection and reconciliation: the issues of S leave
\* Running for the retry queue, those of R are released.
LEMMA BackoffAuthority ==
    ASSUME TypeOK, Authority,
           pc \notin {"spawn", "retryFetch"}, pc' \notin {"spawn", "retryFetch"},
           NEW S, NEW R, S \cup R \subseteq DOMAIN running, S \cap R = {},
           DOMAIN running' = DOMAIN running \ (S \cup R),
           claimed' = claimed \ R,
           backoffAll(S, R),
           UNCHANGED <<retryFire, pending>>, Phase'
    PROVE  Authority'
<1>1. DOMAIN retry' = (DOMAIN retry \ R) \cup S /\ DOMAIN timers' = DOMAIN timers \cup S
  BY DEF backoffAll
<1>2. R \cap DOMAIN retry = {} /\ S \cap DOMAIN retry = {}
  BY DEF Authority, SingleAuthority
<1>3. Armed' = Armed \cup S
  BY <1>1 DEF Armed, backoffAll
<1>4. SingleAuthority'
  BY <1>1, <1>2 DEF Authority, SingleAuthority, Spawning
<1>5. \A i \in Issue : Queued(i)' = Queued(i)
  BY DEF Queued
<1>6. Fetching = {} /\ Fetching' = {}
  BY DEF Fetching
<1>7. OneRetryRequest'
  BY <1>1, <1>2, <1>3, <1>5, <1>6, SMTT(30) DEF Authority, OneRetryRequest
<1>8. ClaimedRetryIsDue'
  <2>1. DOMAIN retry \subseteq Issue /\ DOMAIN running \subseteq Issue
    BY MapIsFunction DEF TypeOK
  <2> QED  BY <1>1, <1>3, <1>5, <1>6, <2>1 DEF Authority, ClaimedRetryIsDue
<1> QED  BY <1>4, <1>7, <1>8 DEF Authority

\* Every action preserves the invariant.
LEMMA AuthorityStep == TypeOK /\ Authority /\ [Next]_vars => Authority'
<1> SUFFICES ASSUME TypeOK, Authority, [Next]_vars PROVE Authority'
  OBVIOUS
<1>a. /\ DOMAIN running \subseteq Issue /\ DOMAIN retry \subseteq Issue
      /\ DOMAIN pending \subseteq Issue /\ DOMAIN timers \subseteq Issue
  BY MapIsFunction DEF TypeOK
<1>b. retryFire' = retryFire => \A i \in Issue : Queued(i)' = Queued(i)
  BY DEF Queued
<1>c. cur.issue \in Issue
  BY DEF TypeOK, Job
<1>1. CASE Tick
  <2> DEFINE S == Stalled
  <2> PICK valid \in Validity :
           /\ running' = withoutKeys(running, S)
           /\ backoffAll(S, {})
           /\ pc' = IF DOMAIN running \ S # {} THEN "refresh"
                    ELSE IF valid THEN "fetch" ELSE "select"
    BY <1>1, Zenon DEF Tick
  <2>1. S \subseteq DOMAIN running
    BY DEF Stalled
  <2> HIDE DEF S
  <2>2. DOMAIN running' = DOMAIN running \ S
    BY DEF withoutKeys
  <2>3. DOMAIN pending = {} /\ pc = "select" /\ UNCHANGED <<claimed, retryFire, pending>>
    BY <1>1 DEF Tick, Authority, Phase
  <2>4. Phase'
    BY <2>3 DEF Phase
  <2>5. pc' \notin {"spawn", "retryFetch"} /\ pc \notin {"spawn", "retryFetch"}
    BY <2>3
  <2> QED  BY <2>1, <2>2, <2>3, <2>4, <2>5, BackoffAuthority
<1>2. CASE ExecRefreshTracker
  <2>0. /\ pc = "refresh" /\ pc' \in {"fetch", "select"}
        /\ UNCHANGED <<retryFire, pending>> /\ DOMAIN pending = {}
    BY <1>2 DEF ExecRefreshTracker, Authority, Phase
  <2>1. Phase'
    BY <2>0 DEF Phase
  <2>2. CASE UNCHANGED <<running, claimed, retry, timers, workers, procs>>
    <3>1. Armed' = Armed /\ Fetching' = {} /\ Spawning' = {} /\ Fetching = {} /\ Spawning = {}
      BY <2>0, <2>2 DEF Armed, Fetching, Spawning
    <3> QED  BY <1>a, <1>b, <2>0, <2>1, <2>2, <3>1, SMTT(30)
             DEF Authority, SingleAuthority, OneRetryRequest, ClaimedRetryIsDue
  <2>3. CASE ~ UNCHANGED <<running, claimed, retry, timers, workers, procs>>
    <3> DEFINE ended(f) == {i \in DOMAIN f : f[i] \in Terminal}
               kept(f) == {i \in DOMAIN f : f[i] \in Active \ Terminal}
    <3> PICK answer \in Map(DOMAIN running, State) :
           /\ running' = [i \in kept(answer) |-> [running[i] EXCEPT !.state = answer[i]]]
           /\ claimed' = claimed \ ended(answer)
           /\ backoffAll(DOMAIN running \ (ended(answer) \cup kept(answer)), ended(answer))
      BY ZenonT(60), <1>2, <2>3 DEF ExecRefreshTracker
    <3>1. DOMAIN answer \subseteq DOMAIN running
      BY MapIsFunction
    <3> DEFINE R == ended(answer)
               S == DOMAIN running \ (ended(answer) \cup kept(answer))
    <3>2. /\ S \cup R \subseteq DOMAIN running /\ S \cap R = {}
          /\ DOMAIN running' = DOMAIN running \ (S \cup R)
      BY <3>1
    <3>3. claimed' = claimed \ R /\ backoffAll(S, R)
      OBVIOUS
    <3> HIDE DEF R, S
    <3>4. pc' \notin {"spawn", "retryFetch"} /\ pc \notin {"spawn", "retryFetch"}
      BY <2>0
    <3> QED  BY <2>0, <2>1, <3>2, <3>3, <3>4, BackoffAuthority
  <2> QED  BY <2>2, <2>3
<1>3. CASE ExecFetchCandidates
  <2>0. /\ pc = "fetch" /\ pc' \in {"select", "revalidate"} /\ DOMAIN pending = {}
        /\ UNCHANGED <<running, retry, timers, retryFire>>
    BY ZenonT(60), <1>3 DEF ExecFetchCandidates, Authority, Phase
  <2>1. \E W \in SUBSET (Issue \ (DOMAIN running \cup claimed \cup DOMAIN retry)) :
           /\ claimed' = claimed \cup W /\ DOMAIN pending' = W
           /\ W # {} => pc' = "revalidate"
    <3>1. CASE UNCHANGED <<claimed, pending>>
      BY <2>0, <3>1
    <3>2. CASE ~ UNCHANGED <<claimed, pending>>
      BY ZenonT(60), <1>3, <3>2, MapIsFunction DEF ExecFetchCandidates, eligible
    <3> QED  BY <3>1, <3>2
  <2>2. Armed' = Armed /\ Fetching' = {} /\ Spawning' = {} /\ Fetching = {} /\ Spawning = {}
    BY <2>0 DEF Armed, Fetching, Spawning
  <2>3. SingleAuthority'
    BY <2>0, <2>1, <2>2 DEF Authority, SingleAuthority
  <2>4. OneRetryRequest'
    BY <1>b, <2>0, <2>2, SMTT(30) DEF Authority, OneRetryRequest
  <2>5. ClaimedRetryIsDue'
    BY <1>a, <1>b, <2>0, <2>1, <2>2 DEF Authority, ClaimedRetryIsDue
  <2>6. Phase'
    BY <2>1 DEF Phase
  <2> QED  BY <2>3, <2>4, <2>5, <2>6 DEF Authority
<1>4. CASE ExecRevalidate
  <2> PICK i \in DOMAIN pending :
        /\ DOMAIN pending' = DOMAIN pending \ {i}
        /\ \/ /\ pc' = "spawn" /\ cur'.issue = i
              /\ UNCHANGED sched
           \/ /\ releaseClaim({i})
              /\ pc' = IF DOMAIN pending = {i} THEN "select" ELSE "revalidate"
    BY <1>4, SMTT(30) DEF ExecRevalidate, withoutKeys
  <2>0. pc = "revalidate" /\ UNCHANGED <<timers, retryFire>>
    BY <1>4 DEF ExecRevalidate
  <2>1. i \notin DOMAIN running \cup DOMAIN retry
    BY DEF Authority, SingleAuthority
  <2>2. /\ DOMAIN running' = DOMAIN running /\ DOMAIN retry' = DOMAIN retry
        /\ \/ pc' = "spawn" /\ cur'.issue = i /\ claimed' = claimed
           \/ pc' \in {"select", "revalidate"} /\ claimed' = claimed \ {i}
    BY <2>1 DEF releaseClaim, withoutKeys, sched
  <2>3. Armed' = Armed /\ Fetching' = {} /\ Fetching = {} /\ Spawning = {}
    BY <2>0, <2>2 DEF Armed, Fetching, Spawning
  <2>4. SingleAuthority'
    BY <2>2, <2>3 DEF Authority, SingleAuthority, Spawning
  <2>5. OneRetryRequest'
    BY <1>b, <2>0, <2>2, <2>3, SMTT(30) DEF Authority, OneRetryRequest
  <2>6. ClaimedRetryIsDue'
    BY <1>a, <1>b, <2>0, <2>1, <2>2, <2>3 DEF Authority, ClaimedRetryIsDue
  <2>7. Phase'
    BY DEF Phase
  <2> QED  BY <2>4, <2>5, <2>6, <2>7 DEF Authority
<1>5. CASE ExecSpawn
  <2>1. /\ pc = "spawn" /\ pc' = resume
        /\ DOMAIN running' = DOMAIN running \cup {cur.issue}
        /\ UNCHANGED <<claimed, retry, timers, retryFire, pending>>
    BY <1>5 DEF ExecSpawn, withKey
  <2>2. Armed' = Armed /\ Fetching' = {} /\ Fetching = {} /\ Spawning = {cur.issue} /\ Spawning' = {}
    BY <2>1 DEF Armed, Fetching, Spawning, resume
  <2>3. SingleAuthority'
    BY <2>1, <2>2 DEF Authority, SingleAuthority
  <2>4. OneRetryRequest'
    BY <1>b, <2>1, <2>2 DEF Authority, OneRetryRequest
  <2>5. ClaimedRetryIsDue'
    BY <1>a, <1>b, <2>1, <2>2 DEF Authority, ClaimedRetryIsDue
  <2>6. Phase'
    BY <2>1 DEF Phase, resume
  <2> QED  BY <2>3, <2>4, <2>5, <2>6 DEF Authority
<1>6. CASE ExecSpawnFailed
  <2>1. /\ pc = "spawn" /\ pc' = resume
        /\ DOMAIN running' = DOMAIN running \ {cur.issue}
        /\ DOMAIN retry' = DOMAIN retry \cup {cur.issue}
        /\ claimed' = claimed \ {cur.issue}
        /\ UNCHANGED <<retryFire, pending>>
    BY <1>6 DEF ExecSpawnFailed, armRetry, withKey, withoutKeys
  <2>2. Armed' = Armed \cup {cur.issue}
    BY <1>6 DEF ExecSpawnFailed, armRetry, armTimer, withKey, Armed
  <2>3. Fetching' = {} /\ Fetching = {} /\ Spawning = {cur.issue} /\ Spawning' = {}
    BY <2>1 DEF Fetching, Spawning, resume
  <2>4. cur.issue \notin DOMAIN running \cup DOMAIN retry
    BY <2>3 DEF Authority, SingleAuthority
  <2>5. SingleAuthority'
    BY <2>1, <2>3, <2>4 DEF Authority, SingleAuthority
  <2>6. OneRetryRequest'
    BY <1>b, <2>1, <2>2, <2>3, <2>4, SMTT(30) DEF Authority, OneRetryRequest
  <2>7. ClaimedRetryIsDue'
    BY <1>a, <1>b, <1>c, <2>1, <2>2, <2>3 DEF Authority, ClaimedRetryIsDue
  <2>8. Phase'
    BY <2>1 DEF Phase, resume
  <2> QED  BY <2>5, <2>6, <2>7, <2>8 DEF Authority
<1>7. CASE RetryFire
  <2> DEFINE j == Head(retryFire).issue
  <2>1. /\ pc = "select" /\ DOMAIN pending = {} /\ UNCHANGED <<running, claimed, retry, pending>>
        /\ retryFire # <<>> /\ retryFire' = Tail(retryFire)
    BY ZenonT(60), <1>7 DEF RetryFire, Authority, Phase
  <2>2. /\ j \in Issue /\ Queued(j) # {}
        /\ \A i \in Issue :
              /\ \A k, l \in Queued(i)' : k = l
              /\ Queued(i)' # {} <=> (Queued(i) # {} /\ i # j)
    BY <2>1, QueueTail DEF Authority
  <2>3. \/ pc' = "retryFetch" /\ cur'.issue = j /\ Armed' = Armed \ {j}
        \/ pc' = "select" /\ Armed' = Armed \cup {j}
    BY <1>7, <2>1, SMTT(30) DEF RetryFire, armTimer, withKey, withoutKeys, Armed
  <2>4. Fetching = {} /\ Spawning = {} /\ Spawning' = {}
    BY <2>1, <2>3 DEF Fetching, Spawning
  <2>5. \/ Fetching' = {j} /\ Armed' = Armed \ {j}
        \/ Fetching' = {} /\ Armed' = Armed \cup {j}
    BY <2>3 DEF Fetching
  <2>6. SingleAuthority'
    BY <2>1, <2>4 DEF Authority, SingleAuthority
  <2> HIDE DEF j
  <2>7. OneRetryRequest'
    BY <2>1, <2>2, <2>4, <2>5 DEF Authority, OneRetryRequest
  <2>8. ClaimedRetryIsDue'
    BY <1>a, <2>1, <2>2, <2>4, <2>5 DEF Authority, ClaimedRetryIsDue
  <2>9. Phase'
    BY <2>1 DEF Phase
  <2> QED  BY <2>6, <2>7, <2>8, <2>9 DEF Authority
<1>8. CASE ExecRetryFetch
  <2> DEFINE i == cur.issue
  <2>1. /\ pc = "retryFetch" /\ DOMAIN pending = {} /\ UNCHANGED <<pending, retryFire>>
    BY ZenonT(60), <1>8 DEF ExecRetryFetch, Authority, Phase
  <2>2. Fetching = {i} /\ Spawning = {} /\ i \in DOMAIN retry /\ i \notin DOMAIN running
        /\ i \notin Armed /\ Queued(i) = {}
    BY <1>c, <2>1 DEF Fetching, Spawning, Authority, OneRetryRequest, SingleAuthority
  <2>3. \/ /\ pc' = "select" /\ DOMAIN retry' = DOMAIN retry /\ Armed' = Armed \cup {i}
           /\ DOMAIN running' = DOMAIN running /\ claimed' = claimed
        \/ /\ pc' = "select" /\ DOMAIN retry' = DOMAIN retry \ {i} /\ Armed' = Armed
           /\ DOMAIN running' = DOMAIN running /\ claimed' = claimed \ {i}
        \/ /\ pc' = "spawn" /\ cur'.issue = i /\ i \in claimed
           /\ DOMAIN retry' = DOMAIN retry \ {i} /\ Armed' = Armed
           /\ DOMAIN running' = DOMAIN running /\ claimed' = claimed
        \/ /\ pc' = "select" /\ i \notin claimed /\ Armed' = Armed
           /\ UNCHANGED <<running, claimed, retry>>
    <3> HIDE DEF i
    <3>1. \A a : \A k : armRetry(i, a, k) =>
             DOMAIN retry' = DOMAIN retry /\ Armed' = Armed \cup {i}
      BY <2>2, SMTT(30) DEF armRetry, armTimer, withKey, Armed
    <3>2. releaseClaim({i}) =>
             /\ DOMAIN retry' = DOMAIN retry \ {i} /\ DOMAIN running' = DOMAIN running
             /\ claimed' = claimed \ {i}
      BY <2>2 DEF releaseClaim, withoutKeys
    <3>3. UNCHANGED timers => Armed' = Armed
      BY DEF Armed
    <3>4. DOMAIN withoutKeys(retry, {i}) = DOMAIN retry \ {i}
      BY DEF withoutKeys
    <3>5. \A s : [cur EXCEPT !.state = s].issue = i
      BY DEF i, TypeOK, Job
    <3>6. Reclaimable(i) <=> i \in claimed
      BY <2>2 DEF Reclaimable
    <3>7. \/ /\ armRetry(i, Succ(cur.attempt), "backoff") /\ pc' = "select"
             /\ running' = running /\ claimed' = claimed
          \/ releaseClaim({i}) /\ pc' = "select" /\ timers' = timers
          \/ /\ Reclaimable(i) /\ retry' = withoutKeys(retry, {i}) /\ pc' = "spawn"
             /\ \E s : cur' = [cur EXCEPT !.state = s]
             /\ running' = running /\ claimed' = claimed /\ timers' = timers
          \/ /\ ~Reclaimable(i) /\ pc' = "select"
             /\ running' = running /\ claimed' = claimed /\ retry' = retry
             /\ timers' = timers
      BY <1>8 DEF ExecRetryFetch, i
    <3>8. CASE armRetry(i, Succ(cur.attempt), "backoff") /\ pc' = "select"
               /\ running' = running /\ claimed' = claimed
      BY <3>1, <3>8
    <3>9. CASE releaseClaim({i}) /\ pc' = "select" /\ timers' = timers
      BY <3>2, <3>3, <3>9
    <3> QED  BY ZenonT(60), <3>3, <3>4, <3>5, <3>6, <3>7, <3>8, <3>9
  <2>4. /\ Fetching' = {}
        /\ pc' = "select" => Spawning' = {}
        /\ pc' = "spawn" => Spawning' = {cur'.issue}
    BY <2>3 DEF Fetching, Spawning
  <2>5. SingleAuthority'
    BY <2>1, <2>2, <2>3, <2>4 DEF Authority, SingleAuthority
  <2> HIDE DEF i
  <2>6. OneRetryRequest'
    BY <1>b, <2>1, <2>2, <2>3, <2>4, SMTT(30) DEF Authority, OneRetryRequest
  <2>7. ClaimedRetryIsDue'
    BY <1>a, <1>b, <2>1, <2>2, <2>3, <2>4 DEF Authority, ClaimedRetryIsDue
  <2>8. Phase'
    BY <2>1 DEF Phase
  <2> QED  BY <2>5, <2>6, <2>7, <2>8 DEF Authority
<1>9. CASE WorkerExit
  <2> DEFINE j == Head(workerDone).issue
  <2>1. /\ pc = "select" /\ pc' = pc /\ DOMAIN pending = {}
        /\ UNCHANGED <<pending, claimed, retryFire>>
    BY ZenonT(60), <1>9 DEF WorkerExit, Authority, Phase
  <2>2. \/ UNCHANGED <<running, retry>> /\ Armed' = Armed
        \/ /\ j \in DOMAIN running /\ DOMAIN running' = DOMAIN running \ {j}
           /\ DOMAIN retry' = DOMAIN retry \cup {j} /\ Armed' = Armed \cup {j}
    BY <1>9, SMTT(30)
       DEF WorkerExit, ExitApplies, armRetry, armTimer, withKey, withoutKeys, Armed
  <2>3. Fetching = {} /\ Spawning = {} /\ Fetching' = {} /\ Spawning' = {}
    BY <2>1 DEF Fetching, Spawning
  <2> HIDE DEF j
  <2>4. SingleAuthority'
    BY <2>1, <2>2, <2>3 DEF Authority, SingleAuthority
  <2>5. OneRetryRequest'
    BY <1>b, <2>1, <2>2, <2>3, SMTT(30) DEF Authority, OneRetryRequest, SingleAuthority
  <2>6. ClaimedRetryIsDue'
    BY <1>a, <1>b, <2>1, <2>2, <2>3 DEF Authority, ClaimedRetryIsDue
  <2>7. Phase'
    BY <2>1 DEF Phase
  <2> QED  BY <2>4, <2>5, <2>6, <2>7 DEF Authority
<1>10. ASSUME NEW j \in Issue, TimerFires(j) PROVE Authority'
  <2>1. /\ UNCHANGED <<running, claimed, retry, pc, pending, cur>>
        /\ j \in Armed /\ Armed' = Armed \ {j}
    BY <1>10 DEF TimerFires, loop, Armed
  <2>2. Queued(j) = {}
    BY <2>1 DEF Authority, OneRetryRequest
  <2>3. timers[j].attempt \in Attempt
    <3>1. timers \in [DOMAIN timers -> Timer] /\ j \in DOMAIN timers
      BY <1>10, MapIsFunction DEF TimerFires, TypeOK
    <3> QED  BY <3>1 DEF Timer
  <2>4. \A i \in Issue :
              /\ \A k, l \in Queued(i)' : k = l
              /\ Queued(i)' # {} <=> (Queued(i) # {} \/ i = j)
    BY <1>10, <2>2, <2>3, QueueAppend DEF TimerFires, Authority, OneRetryRequest
  <2>5. Fetching' = Fetching /\ Spawning' = Spawning
    BY <2>1 DEF Fetching, Spawning
  <2>6. SingleAuthority' /\ Phase'
    BY <2>1, <2>5 DEF Authority, SingleAuthority, Phase
  <2>7. OneRetryRequest'
    BY <2>1, <2>4, <2>5, SMTT(30) DEF Authority, OneRetryRequest
  <2>8. ClaimedRetryIsDue'
    BY <1>a, <2>1, <2>4, <2>5 DEF Authority, ClaimedRetryIsDue
  <2> QED  BY <2>6, <2>7, <2>8 DEF Authority
<1>11. ASSUME \/ \E p \in procs, failed \in BOOLEAN : ProcExit(p, failed)
              \/ UNCHANGED vars
       PROVE  Authority'
  <2>1. UNCHANGED <<running, claimed, retry, timers, retryFire, pc, pending, cur>>
    BY ZenonT(60), <1>11 DEF ProcExit, loop, vars
  <2> QED  BY <2>1, SMTT(30)
              DEF Authority, SingleAuthority, OneRetryRequest, ClaimedRetryIsDue,
                       Phase, Fetching, Spawning, Armed, Queued
<1>12. ASSUME NEW j \in Issue, CodexActivity(j) \/ StallTimeout(j) PROVE Authority'
  <2>1. /\ UNCHANGED <<claimed, retry, timers, retryFire, pc, pending, cur>>
        /\ DOMAIN running' = DOMAIN running
    BY <1>12, QuietChange DEF loop
  <2>2. Armed' = Armed /\ Fetching' = Fetching /\ Spawning' = Spawning
    BY <2>1 DEF Armed, Fetching, Spawning
  <2> QED  BY <1>a, <1>b, <2>1, <2>2, SMTT(30)
              DEF Authority, SingleAuthority, OneRetryRequest, ClaimedRetryIsDue, Phase
<1> QED
  BY <1>1, <1>2, <1>3, <1>4, <1>5, <1>6, <1>7, <1>8, <1>9, <1>10, <1>11, <1>12
  DEF Next, Exec

\* The inductive invariant holds in every reachable state.
LEMMA AuthorityInvariant == Spec => []Authority
<1>1. ASSUME Init PROVE Authority
  <2>1. /\ DOMAIN running = {} /\ DOMAIN retry = {} /\ DOMAIN timers = {}
        /\ DOMAIN pending = {} /\ claimed = {} /\ retryFire = <<>> /\ pc = "select"
    BY <1>1 DEF Init
  <2>2. Spawning = {} /\ Fetching = {}
    BY <2>1 DEF Spawning, Fetching
  <2>3. Armed = {}
    BY <2>1 DEF Armed
  <2>4. DOMAIN retryFire = {}
    BY <2>1
  <2>5. \A i \in Issue : Queued(i) = {}
    BY <2>4 DEF Queued
  <2>6. SingleAuthority
    BY <2>1, <2>2 DEF SingleAuthority
  <2>7. OneRetryRequest
    BY <2>2, <2>3, <2>5, Zenon DEF OneRetryRequest
  <2>8. ClaimedRetryIsDue
    BY <2>1, Zenon DEF ClaimedRetryIsDue
  <2> QED  BY <2>1, <2>6, <2>7, <2>8 DEF Authority, Phase
<1> QED  BY <1>1, AuthorityStep, TypeCorrect, PTL DEF Spec

\* An issue is claimed for one reason at a time, whatever the interleaving of
\* ticks, retries, exits and spawns.
THEOREM SingleAuthorityHolds == Spec => []SingleAuthority
<1>1. Authority => SingleAuthority
  BY DEF Authority
<1> QED  BY <1>1, AuthorityInvariant, PTL

\* An issue has at most one live retry request, and only while it waits for one.
THEOREM OneRetryRequestHolds == Spec => []OneRetryRequest
<1>1. Authority => OneRetryRequest
  BY DEF Authority
<1> QED  BY <1>1, AuthorityInvariant, PTL

\* A retry whose claim was retained never loses its request.
THEOREM ClaimedRetryIsDueHolds == Spec => []ClaimedRetryIsDue
<1>1. Authority => ClaimedRetryIsDue
  BY DEF Authority
<1> QED  BY <1>1, AuthorityInvariant, PTL

-----------------------------------------------------------------------------
(* Slots.                                                                   *)

\* What the global limit leaves after the allocation loop of reduceCandidates.
LEMMA AllocationFits ==
    ASSUME TypeOK, NEW W \in SUBSET Issue, W # {},
           Cardinality(W) <= availableGlobalSlots
    PROVE  Cardinality((DOMAIN running \cup DOMAIN retry) \cup W) <= limit
<1> DEFINE A == DOMAIN running
           B == RetryQueued
<1>1. A \subseteq Issue /\ B \subseteq Issue /\ A \cup B = DOMAIN running \cup DOMAIN retry
  BY MapIsFunction DEF TypeOK, RetryQueued
<1>2. IsFiniteSet(A) /\ IsFiniteSet(B) /\ IsFiniteSet(W) /\ IsFiniteSet(A \cup B)
  BY <1>1, ConstantsAssumption, FS_Subset
<1>3. limit \in Nat
  BY ConstantsAssumption DEF TypeOK
<1> HIDE DEF A, B
<1>4. /\ Cardinality(A) \in Nat /\ Cardinality(B) \in Nat /\ Cardinality(W) \in Nat
      /\ Cardinality(A \cup B) \in Nat /\ Cardinality((A \cup B) \cup W) \in Nat
      /\ Cardinality(A \cap B) \in Nat /\ Cardinality((A \cup B) \cap W) \in Nat
  BY ZenonT(60), <1>2, FS_CardinalityType, FS_Union, FS_Intersection
<1>5. Cardinality(A \cup B) <= Cardinality(A) + Cardinality(B)
  <2>1. Cardinality(A \cup B) = Cardinality(A) + Cardinality(B) - Cardinality(A \cap B)
    BY <1>2, FS_Union, Zenon
  <2> QED  BY <1>4, <2>1
<1>6. Cardinality((A \cup B) \cup W) <= Cardinality(A \cup B) + Cardinality(W)
  <2>1. Cardinality((A \cup B) \cup W) = Cardinality(A \cup B) + Cardinality(W)
                                           - Cardinality((A \cup B) \cap W)
    BY <1>2, FS_Union, Zenon
  <2> QED  BY <1>4, <2>1
<1>7. Cardinality(W) # 0
  BY <1>2, FS_EmptySet
<1>8. Cardinality(W) <= IF limit > Cardinality(A) + Cardinality(B)
                        THEN limit - (Cardinality(A) + Cardinality(B)) ELSE 0
  BY DEF availableGlobalSlots, A, B
<1>9. Cardinality((A \cup B) \cup W) <= limit
  BY <1>3, <1>4, <1>5, <1>6, <1>7, <1>8
<1> QED  BY <1>1, <1>9

\* No step lets an issue in beyond the concurrency limit in force.
THEOREM AdmissionHolds == Spec => AdmissionWithinLimit
<1> DEFINE A == Occupied' \subseteq Occupied \/ Cardinality(Occupied') <= limit'
<1>1. ASSUME TypeOK, Authority, [Next]_vars PROVE A
  <2>1. CASE Tick
    BY <2>1 DEF Tick, Occupied, Stalled, backoffAll, withoutKeys, Spawning
  <2>2. CASE ExecRefreshTracker
    <3>0. pc' \in {"fetch", "select"} /\ pending' = pending
      BY <2>2 DEF ExecRefreshTracker
    <3>1. DOMAIN running' \cup DOMAIN retry' \subseteq DOMAIN running \cup DOMAIN retry
      <4>1. CASE UNCHANGED <<running, claimed, retry, timers, workers, procs>>
        BY <4>1
      <4>2. CASE ~ UNCHANGED <<running, claimed, retry, timers, workers, procs>>
        BY ZenonT(60), <2>2, <4>2, MapIsFunction DEF ExecRefreshTracker, backoffAll
      <4> QED  BY <4>1, <4>2
    <3> QED  BY <3>0, <3>1 DEF Occupied, Spawning
  <2>3. CASE ExecFetchCandidates
    <3>0. pc = "fetch" /\ pc' \in {"select", "revalidate"} /\ DOMAIN pending = {}
          /\ UNCHANGED <<running, retry, limit>>
      BY ZenonT(60), <1>1, <2>3 DEF ExecFetchCandidates, Authority, Phase
    <3>1. \/ DOMAIN pending' = {}
          \/ \E W \in SUBSET Issue :
                DOMAIN pending' = W /\ W # {} /\ Cardinality(W) <= availableGlobalSlots
      <4>1. CASE UNCHANGED pending
        BY <3>0, <4>1
      <4>2. CASE ~ UNCHANGED pending
        BY ZenonT(60), <2>3, <4>2, MapIsFunction DEF ExecFetchCandidates, Winners
      <4> QED  BY <4>1, <4>2
    <3>2. Occupied' = (DOMAIN running \cup DOMAIN retry) \cup DOMAIN pending'
      BY <3>0 DEF Occupied, Spawning
    <3>3. CASE DOMAIN pending' = {}
      BY <3>2, <3>3 DEF Occupied
    <3>4. CASE \E W \in SUBSET Issue :
                DOMAIN pending' = W /\ W # {} /\ Cardinality(W) <= availableGlobalSlots
      <4>1. Cardinality((DOMAIN running \cup DOMAIN retry) \cup DOMAIN pending') <= limit
        BY <1>1, <3>4, AllocationFits
      <4> QED  BY <3>0, <3>2, <4>1
    <3> QED  BY <3>1, <3>3, <3>4
  <2>4. CASE ExecRevalidate
    BY <2>4, SMTT(30) DEF ExecRevalidate, Occupied, Spawning, releaseClaim, withoutKeys, sched
  <2>5. CASE ExecSpawn
    BY <2>5 DEF ExecSpawn, Occupied, Spawning, withKey, resume
  <2>6. CASE ExecSpawnFailed
    BY <2>6 DEF ExecSpawnFailed, Occupied, Spawning, armRetry, withKey, withoutKeys, resume
  <2>7. CASE RetryFire
    BY <2>7 DEF RetryFire, Occupied, Spawning
  <2>8. CASE ExecRetryFetch
    <3>1. cur.issue \in DOMAIN retry /\ pending' = pending
      BY <1>1, <2>8 DEF ExecRetryFetch, Authority, OneRetryRequest, Fetching, TypeOK, Job
    <3>2. \A s : [cur EXCEPT !.state = s].issue = cur.issue
      BY <1>1 DEF TypeOK, Job
    <3>3. /\ DOMAIN running' \subseteq DOMAIN running /\ DOMAIN retry' \subseteq DOMAIN retry
          /\ pc' = "spawn" => cur'.issue = cur.issue
      BY ZenonT(60), <2>8, <3>1, <3>2 DEF ExecRetryFetch, armRetry, releaseClaim, withKey, withoutKeys
    <3> QED  BY <3>1, <3>3 DEF Occupied, Spawning
  <2>9. CASE WorkerExit
    BY <2>9 DEF WorkerExit, ExitApplies, Occupied, Spawning, armRetry, withKey, withoutKeys
  <2>10. ASSUME NEW i \in Issue, TimerFires(i) PROVE A
    BY <2>10 DEF TimerFires, loop, Occupied, Spawning
  <2>11. ASSUME NEW p \in procs, NEW failed \in BOOLEAN, ProcExit(p, failed) PROVE A
    BY <2>11 DEF ProcExit, loop, Occupied, Spawning
  <2>12. CASE UNCHANGED vars
    BY <2>12 DEF vars, Occupied, Spawning
  <2>13. ASSUME NEW i \in Issue, CodexActivity(i) \/ StallTimeout(i) PROVE A
    BY <1>1, <2>13, QuietChange DEF loop, Occupied, Spawning
  <2> QED
    BY <1>1, <2>1, <2>2, <2>3, <2>4, <2>5, <2>6, <2>7, <2>8, <2>9, <2>10, <2>11, <2>12, <2>13
    DEF Next, Exec
<1>2. TypeOK /\ Authority /\ [Next]_vars => [A]_vars
  BY <1>1
<1> QED  BY <1>2, TypeCorrect, AuthorityInvariant, PTL DEF Spec, AdmissionWithinLimit

-----------------------------------------------------------------------------
(* Handles.                                                                 *)

\* The handle held for a running issue is that of the running attempt.
THEOREM HandleHolds == Spec => []HandleOfAttempt
<1>1. Init => HandleOfAttempt
  BY DEF Init, HandleOfAttempt
<1>2. TypeOK /\ HandleOfAttempt /\ [Next]_vars => HandleOfAttempt'
  <2> SUFFICES ASSUME TypeOK, HandleOfAttempt, [Next]_vars PROVE HandleOfAttempt'
    OBVIOUS
  <2>1. CASE Tick
    BY <2>1 DEF Tick, HandleOfAttempt, execKillWorkers, withoutKeys
  <2>2. CASE ExecRefreshTracker
    <3>1. CASE UNCHANGED <<running, claimed, retry, timers, workers, procs>>
      BY <3>1 DEF HandleOfAttempt
    <3>2. CASE ~ UNCHANGED <<running, claimed, retry, timers, workers, procs>>
      <4> DEFINE kept(f) == {i \in DOMAIN f : f[i] \in Active \ Terminal}
      <4> PICK answer \in Map(DOMAIN running, State) :
             /\ running' = [i \in kept(answer) |-> [running[i] EXCEPT !.state = answer[i]]]
             /\ execKillWorkers(DOMAIN running \ kept(answer))
        BY ZenonT(60), <2>2, <3>2 DEF ExecRefreshTracker
      <4>1. kept(answer) \subseteq DOMAIN running
        BY MapIsFunction
      <4> HIDE DEF kept
      <4>2. \A i \in kept(answer) : running'[i].session = running[i].session
        <5>1. running \in [DOMAIN running -> Run]
          BY MapIsFunction DEF TypeOK
        <5> QED  BY <4>1, <5>1 DEF Run
      <4>3. workers' = [i \in DOMAIN workers \ (DOMAIN running \ kept(answer)) |-> workers[i]]
        BY DEF execKillWorkers, withoutKeys
      <4> QED  BY <4>1, <4>2, <4>3 DEF HandleOfAttempt
    <3> QED  BY <3>1, <3>2
  <2>3. CASE ExecRevalidate \/ ExecRetryFetch \/ ExecSpawnFailed
    <3>1. workers' = workers /\ DOMAIN running' \subseteq DOMAIN running
          /\ \A i \in DOMAIN running' : running'[i] = running[i]
      BY ZenonT(60), <2>3 DEF ExecRevalidate, ExecRetryFetch, ExecSpawnFailed, releaseClaim,
                  withoutKeys, sched
    <3> QED  BY <3>1 DEF HandleOfAttempt
  <2>4. CASE ExecSpawn
    BY <2>4, SMTT(30) DEF ExecSpawn, HandleOfAttempt, withKey
  <2>5. CASE WorkerExit
    BY <2>5 DEF WorkerExit, ExitApplies, HandleOfAttempt, withoutKeys
  <2>6. ASSUME UNCHANGED <<running, workers>> PROVE HandleOfAttempt'
    BY <2>6 DEF HandleOfAttempt
  <2>7. ASSUME NEW i \in Issue, CodexActivity(i) \/ StallTimeout(i) PROVE HandleOfAttempt'
    BY <2>7, QuietChange DEF HandleOfAttempt
  <2> QED
    BY ZenonT(60), <2>1, <2>2, <2>3, <2>4, <2>5, <2>6, <2>7
    DEF Next, Exec, ExecFetchCandidates, RetryFire, TimerFires, ProcExit, vars
<1> QED  BY <1>1, <1>2, TypeCorrect, PTL DEF Spec

-----------------------------------------------------------------------------
(* The worker of a running attempt.                                         *)

\* A process or a queued exit has the session of the attempt of i
Present(i) ==
    \/ \E p \in procs : p.session = running[i].session
    \/ \E k \in DOMAIN workerDone : workerDone[k].session = running[i].session

\* The processes and the queued exits with the session of the attempt of i are of i, and
\* the processes are not being killed.
OwnedAt(i) ==
    /\ \A p \in procs : p.session = running[i].session => p.issue = i /\ ~p.killed
    /\ \A k \in DOMAIN workerDone : workerDone[k].session = running[i].session => workerDone[k].issue = i

\* The inductive invariant: a session is that of one attempt, and only what belongs to
\* the attempt carries it.
Owned == \A i \in DOMAIN running : OwnedAt(i)

\* An attempt in progress after the step keeps what it had, or is a new one.
Keeps ==
    /\ Owned'
    /\ \A i \in DOMAIN running' : Present(i)' \/ (i \in DOMAIN running /\ ~Present(i))

\* Attempts that stay keep their process, unless it is that of another attempt.
LEMMA WorkerKept ==
    ASSUME Owned, DOMAIN running' \subseteq DOMAIN running, workerDone' = workerDone,
           \A i \in DOMAIN running' : running'[i].session = running[i].session,
           \A p \in procs : \E q \in procs' : q.session = p.session,
           \A q \in procs' : \E p \in procs : /\ q.session = p.session /\ q.issue = p.issue
                                              /\ q.killed = p.killed \/ p.issue \notin DOMAIN running'
    PROVE  Keeps
<1> SUFFICES ASSUME NEW i \in DOMAIN running'
             PROVE  /\ \/ i \in DOMAIN running /\ ~Present(i)
                       \/ \E q \in procs' : q.session = running'[i].session
                       \/ \E k \in DOMAIN workerDone' : workerDone'[k].session = running'[i].session
                    /\ \A q \in procs' : q.session = running'[i].session => q.issue = i /\ ~q.killed
                    /\ \A k \in DOMAIN workerDone' : workerDone'[k].session = running'[i].session => workerDone'[k].issue = i
  BY Zenon DEF Keeps, Owned, OwnedAt, Present
<1>1. i \in DOMAIN running /\ running'[i].session = running[i].session
  OBVIOUS
<1>2. /\ \/ ~Present(i)
         \/ \E p \in procs : p.session = running[i].session
         \/ \E k \in DOMAIN workerDone : workerDone[k].session = running[i].session
      /\ \A p \in procs : p.session = running[i].session => p.issue = i /\ ~p.killed
      /\ \A k \in DOMAIN workerDone : workerDone[k].session = running[i].session => workerDone[k].issue = i
  BY <1>1, Zenon DEF Owned, OwnedAt, Present
<1>3. \/ ~Present(i)
      \/ \E q \in procs' : q.session = running'[i].session
      \/ \E k \in DOMAIN workerDone' : workerDone'[k].session = running'[i].session
  <2>1. ASSUME NEW p \in procs, p.session = running[i].session
        PROVE  \E q \in procs' : q.session = running'[i].session
    <3>1. PICK q \in procs' : q.session = p.session
      OBVIOUS
    <3> QED  BY <1>1, <2>1, <3>1
  <2>2. ASSUME NEW k \in DOMAIN workerDone, workerDone[k].session = running[i].session
        PROVE  k \in DOMAIN workerDone' /\ workerDone'[k].session = running'[i].session
    BY <1>1, <2>2
  <2> QED  BY <1>2, <2>1, <2>2
<1>4. ASSUME NEW q \in procs', q.session = running'[i].session PROVE q.issue = i /\ ~q.killed
  <2>1. PICK p \in procs : /\ q.session = p.session /\ q.issue = p.issue
                           /\ q.killed = p.killed \/ p.issue \notin DOMAIN running'
    OBVIOUS
  <2>2. p.issue = i /\ ~p.killed
    BY <1>1, <1>2, <1>4, <2>1, Zenon
  <2> QED  BY <2>1, <2>2, Zenon
<1> QED  BY <1>1, <1>2, <1>3, <1>4, Zenon

\* A kill leaves the processes of the issues it is not for alone.
LEMMA KillKeeps ==
    ASSUME TypeOK, NEW S, execKillWorkers(S)
    PROVE  /\ \A p \in procs : \E q \in procs' : q.session = p.session
           /\ \A q \in procs' : \E p \in procs : /\ q.session = p.session /\ q.issue = p.issue
                                                 /\ q.killed = p.killed \/ p.issue \in S
<1>1. \A p \in procs : LET x == [p EXCEPT !.killed = TRUE]
                       IN  x.session = p.session /\ x.issue = p.issue
  BY DEF TypeOK, Proc
<1> DEFINE K(p) == p.issue \in S \cap DOMAIN workers /\ workers[p.issue] = p.session
           G(p) == IF K(p) THEN [p EXCEPT !.killed = TRUE] ELSE p
<1>2. procs' = {G(p) : p \in procs}
  BY Zenon DEF execKillWorkers
<1>3. \A p \in procs : /\ G(p).session = p.session /\ G(p).issue = p.issue
                       /\ G(p).killed = p.killed \/ p.issue \in S
  <2> SUFFICES ASSUME NEW p \in procs
               PROVE  /\ G(p).session = p.session /\ G(p).issue = p.issue
                      /\ G(p).killed = p.killed \/ p.issue \in S
    BY Zenon
  <2>1. CASE K(p)
    <3>1. G(p) = [p EXCEPT !.killed = TRUE] /\ p.issue \in S
      BY <2>1, Zenon
    <3> HIDE DEF G
    <3> QED  BY <1>1, <3>1, Zenon
  <2>2. CASE ~K(p)
    BY <2>2, Zenon
  <2> QED  BY Zenon, <2>1, <2>2
<1> HIDE DEF G, K
<1> QED  BY <1>2, <1>3, Zenon

\* A step that kills the workers of S keeps no attempt of S.
LEMMA KillKept ==
    ASSUME TypeOK, Owned, NEW S, execKillWorkers(S), workerDone' = workerDone,
           DOMAIN running' \subseteq DOMAIN running \ S,
           \A i \in DOMAIN running' : running'[i].session = running[i].session
    PROVE  Keeps
<1>1. \A p \in procs : \E q \in procs' : q.session = p.session
  BY KillKeeps, Zenon
<1>2. \A q \in procs' : \E p \in procs : /\ q.session = p.session /\ q.issue = p.issue
                                         /\ q.killed = p.killed \/ p.issue \notin DOMAIN running'
  BY KillKeeps, ZenonT(30)
<1> QED  BY <1>1, <1>2, WorkerKept, Zenon

\* A step that only gives up attempts.
LEMMA SameProcs ==
    ASSUME Owned, UNCHANGED <<procs, workerDone>>, DOMAIN running' \subseteq DOMAIN running,
           \A i \in DOMAIN running' : running'[i] = running[i]
    PROVE  Keeps
<1>1. \A i \in DOMAIN running' : running'[i].session = running[i].session
  BY Zenon
<1>2. \A p \in procs : p \in procs'
  BY Zenon
<1> QED  BY <1>1, <1>2, WorkerKept, Zenon

\* A spawned worker has a session of its own.
LEMMA SpawnKept ==
    ASSUME TypeOK, Owned, ExecSpawn
    PROVE  Keeps
<1>1. PICK ses \in FreshSession :
         /\ procs' = procs \cup {[issue |-> cur.issue, session |-> ses,
                                  attempt |-> cur.attempt, killed |-> FALSE]}
         /\ running' = withKey(running, cur.issue,
                               [state |-> cur.state, attempt |-> cur.attempt, session |-> ses, quiet |-> FALSE])
         /\ workerDone' = workerDone
  BY Zenon DEF ExecSpawn
<1> DEFINE n == [issue |-> cur.issue, session |-> ses, attempt |-> cur.attempt, killed |-> FALSE]
           x == [state |-> cur.state, attempt |-> cur.attempt, session |-> ses, quiet |-> FALSE]
<1>2. n.issue = cur.issue /\ n.session = ses /\ ~n.killed /\ x.session = ses
  OBVIOUS
<1>3. /\ DOMAIN running' = DOMAIN running \cup {cur.issue} /\ running'[cur.issue] = x
      /\ \A i \in DOMAIN running : i # cur.issue => running'[i] = running[i]
      /\ procs' = procs \cup {n}
  BY <1>1 DEF withKey
<1>4. /\ \A p \in procs : p.session # ses
      /\ \A k \in DOMAIN workerDone : workerDone[k].session # ses
      /\ \A i \in DOMAIN running : running[i].session # ses
  BY DEF FreshSession
<1> HIDE DEF n, x
<1> SUFFICES ASSUME NEW i \in DOMAIN running'
             PROVE  /\ \/ i \in DOMAIN running /\ ~Present(i)
                       \/ \E q \in procs' : q.session = running'[i].session
                       \/ \E k \in DOMAIN workerDone' : workerDone'[k].session = running'[i].session
                    /\ \A q \in procs' : q.session = running'[i].session => q.issue = i /\ ~q.killed
                    /\ \A k \in DOMAIN workerDone' : workerDone'[k].session = running'[i].session => workerDone'[k].issue = i
  BY Zenon DEF Keeps, Owned, OwnedAt, Present
<1>5. CASE i = cur.issue
  BY <1>1, <1>2, <1>3, <1>4, <1>5, Zenon
<1>6. CASE i # cur.issue
  <2>1. i \in DOMAIN running /\ running'[i] = running[i]
    BY <1>3, <1>6
  <2>2. /\ \/ ~Present(i)
           \/ \E p \in procs : p.session = running[i].session
           \/ \E k \in DOMAIN workerDone : workerDone[k].session = running[i].session
        /\ \A p \in procs : p.session = running[i].session => p.issue = i /\ ~p.killed
        /\ \A k \in DOMAIN workerDone : workerDone[k].session = running[i].session => workerDone[k].issue = i
    BY <2>1, Zenon DEF Owned, OwnedAt, Present
  <2>3. n.session # running[i].session
    BY <1>2, <1>4, <2>1
  <2> QED  BY <1>1, <1>3, <2>1, <2>2, <2>3, Zenon
<1> QED  BY <1>5, <1>6

\* A queued exit is taken with the attempt it ends.
LEMMA ExitKept ==
    ASSUME TypeOK, Owned, WorkerExit
    PROVE  Keeps
<1> DEFINE e == Head(workerDone)
<1>1. workerDone \in Seq(Exit) /\ workerDone # <<>> /\ workerDone' = Tail(workerDone) /\ procs' = procs
  BY DEF WorkerExit, TypeOK
<1>2. /\ DOMAIN running' \subseteq DOMAIN running \ {e.issue}
      /\ \A i \in DOMAIN running' : running'[i] = running[i]
  <2>1. CASE ~ExitApplies(e) /\ running' = running
    BY <2>1 DEF ExitApplies
  <2>2. CASE running' = withoutKeys(running, {e.issue})
    BY <2>2 DEF withoutKeys
  <2> QED  BY <2>1, <2>2 DEF WorkerExit
<1>3. e = workerDone[1]
  BY <1>1
<1>4. \A k \in DOMAIN workerDone' : k + 1 \in DOMAIN workerDone /\ workerDone'[k] = workerDone[k + 1]
  BY <1>1
<1>5. \A k \in DOMAIN workerDone : k # 1 => k - 1 \in DOMAIN workerDone' /\ workerDone'[k - 1] = workerDone[k]
  BY <1>1
<1> HIDE DEF e
<1> SUFFICES ASSUME NEW i \in DOMAIN running'
             PROVE  /\ \/ i \in DOMAIN running /\ ~Present(i)
                       \/ \E q \in procs' : q.session = running'[i].session
                       \/ \E k \in DOMAIN workerDone' : workerDone'[k].session = running'[i].session
                    /\ \A q \in procs' : q.session = running'[i].session => q.issue = i /\ ~q.killed
                    /\ \A k \in DOMAIN workerDone' : workerDone'[k].session = running'[i].session => workerDone'[k].issue = i
  BY Zenon DEF Keeps, Owned, OwnedAt, Present
<1>6. i \in DOMAIN running /\ running'[i] = running[i] /\ i # e.issue
  BY <1>2
<1>7. /\ \/ ~Present(i)
         \/ \E p \in procs : p.session = running[i].session
         \/ \E k \in DOMAIN workerDone : workerDone[k].session = running[i].session
      /\ \A p \in procs : p.session = running[i].session => p.issue = i /\ ~p.killed
      /\ \A k \in DOMAIN workerDone : workerDone[k].session = running[i].session => workerDone[k].issue = i
  BY <1>6, Zenon DEF Owned, OwnedAt, Present
<1>8. ASSUME NEW k \in DOMAIN workerDone, workerDone[k].session = running[i].session
      PROVE  \E l \in DOMAIN workerDone' : workerDone'[l].session = running'[i].session
  <2>1. k # 1
    BY <1>3, <1>6, <1>7, <1>8
  <2> QED  BY <1>5, <1>6, <1>8, <2>1
<1>9. \A k \in DOMAIN workerDone' : workerDone'[k].session = running'[i].session => workerDone'[k].issue = i
  BY <1>4, <1>6, <1>7
<1> QED  BY <1>1, <1>6, <1>7, <1>8, <1>9, Zenon

\* The exit of a process is queued when there is room.
LEMMA ProcExitQueued ==
    ASSUME TypeOK, Owned, Len(workerDone) < DoneCap, NEW p \in procs, NEW failed \in BOOLEAN, ProcExit(p, failed)
    PROVE  Keeps
<1> DEFINE e == [issue |-> p.issue, session |-> p.session, attempt |-> p.attempt, failed |-> failed]
<1>1. workerDone \in Seq(Exit) /\ workerDone' = Append(workerDone, e) /\ procs' = procs \ {p} /\ running' = running
  BY DEF ProcExit, sendWorkerExit, TypeOK
<1>2. e.issue = p.issue /\ e.session = p.session
  OBVIOUS
<1> HIDE DEF e
<1>3. /\ Len(workerDone) + 1 \in DOMAIN workerDone' /\ workerDone'[Len(workerDone) + 1] = e
      /\ \A k \in DOMAIN workerDone : k \in DOMAIN workerDone' /\ workerDone'[k] = workerDone[k]
      /\ \A k \in DOMAIN workerDone' : workerDone'[k] = e \/ (k \in DOMAIN workerDone /\ workerDone'[k] = workerDone[k])
  BY <1>1
<1> SUFFICES ASSUME NEW i \in DOMAIN running'
             PROVE  /\ \/ i \in DOMAIN running /\ ~Present(i)
                       \/ \E q \in procs' : q.session = running'[i].session
                       \/ \E k \in DOMAIN workerDone' : workerDone'[k].session = running'[i].session
                    /\ \A q \in procs' : q.session = running'[i].session => q.issue = i /\ ~q.killed
                    /\ \A k \in DOMAIN workerDone' : workerDone'[k].session = running'[i].session => workerDone'[k].issue = i
  BY Zenon DEF Keeps, Owned, OwnedAt, Present
<1>4. /\ \/ ~Present(i)
         \/ \E q \in procs : q.session = running[i].session
         \/ \E k \in DOMAIN workerDone : workerDone[k].session = running[i].session
      /\ \A q \in procs : q.session = running[i].session => q.issue = i /\ ~q.killed
      /\ \A k \in DOMAIN workerDone : workerDone[k].session = running[i].session => workerDone[k].issue = i
  BY <1>1, Zenon DEF Owned, OwnedAt, Present
<1>5. \/ ~Present(i)
      \/ \E q \in procs' : q.session = running'[i].session
      \/ \E k \in DOMAIN workerDone' : workerDone'[k].session = running'[i].session
  <2>1. CASE p.session = running[i].session
    BY <1>1, <1>2, <1>3, <2>1, Zenon
  <2>2. CASE p.session # running[i].session
    <3>1. \A q \in procs : q.session = running[i].session => q \in procs'
      BY <1>1, <2>2
    <3> QED  BY <1>1, <1>3, <1>4, <3>1, Zenon
  <2> QED  BY <2>1, <2>2
<1>6. \A k \in DOMAIN workerDone' : workerDone'[k].session = running'[i].session => workerDone'[k].issue = i
  <2> SUFFICES ASSUME NEW k \in DOMAIN workerDone', workerDone'[k].session = running'[i].session
               PROVE  workerDone'[k].issue = i
    BY Zenon
  <2>1. CASE workerDone'[k] = e
    BY <1>1, <1>2, <1>4, <2>1
  <2>2. CASE k \in DOMAIN workerDone /\ workerDone'[k] = workerDone[k]
    BY <1>1, <1>4, <2>2
  <2> QED  BY <1>3, <2>1, <2>2
<1>7. \A q \in procs' : q \in procs
  BY <1>1
<1> QED  BY <1>1, <1>4, <1>5, <1>6, <1>7, Zenon

\* An exit that finds the channel full is dropped, and only its own attempt loses by it.
LEMMA ProcExitDropped ==
    ASSUME TypeOK, Owned, ~(Len(workerDone) < DoneCap),
           NEW p \in procs, NEW failed \in BOOLEAN, ProcExit(p, failed)
    PROVE  /\ Owned'
           /\ \A i \in DOMAIN running' : \/ Present(i)' \/ (i \in DOMAIN running /\ ~Present(i))
                                          \/ DropsExit(i)
<1>1. procs' = procs \ {p} /\ UNCHANGED <<running, workerDone>>
  BY DEF ProcExit, sendWorkerExit
<1>2. Owned'
  BY <1>1, Zenon DEF Owned, OwnedAt
<1>3. Len(workerDone) = DoneCap
  BY ConstantsAssumption, SMTT(30) DEF TypeOK
<1> SUFFICES ASSUME NEW i \in DOMAIN running, Present(i), ~Present(i)' PROVE DropsExit(i)
  BY <1>1, <1>2
<1>4. PICK q \in procs : q.session = running[i].session
  BY <1>1, Zenon DEF Present
<1>5. q \notin procs'
  BY <1>1, <1>4, Zenon DEF Present
<1>6. q.issue = i
  BY <1>4, Zenon DEF Owned, OwnedAt
<1> QED  BY <1>3, <1>4, <1>5, <1>6 DEF DropsExit

\* A step that keeps every attempt's worker meets the property.
LEMMA KeepsHasWorker ==
    ASSUME Owned', \A i \in DOMAIN running' :
               Present(i)' \/ (i \in DOMAIN running /\ ~Present(i)) \/ DropsExit(i)
    PROVE  \A i \in Issue : LostExit(i)' => LostExit(i) \/ DropsExit(i)
<1>1. \A i \in DOMAIN running' : Present(i)' => Attended(i)'
  BY Zenon DEF Owned, OwnedAt, Present, Attended
<1>2. \A i : Attended(i) => Present(i)
  BY Zenon DEF Present, Attended
<1> QED  BY <1>1, <1>2, Zenon DEF LostExit

\* Every step keeps the invariant of the workers and their processes, and leaves every
\* attempt that stays its worker or the exit of its worker, unless it drops the exit.
LEMMA OwnedStep ==
    ASSUME TypeOK, Owned, [Next]_vars
    PROVE  /\ Owned'
           /\ \A i \in DOMAIN running' : \/ Present(i)' \/ (i \in DOMAIN running /\ ~Present(i))
                                          \/ DropsExit(i)
<1>1. ASSUME Tick PROVE Keeps
  <2> DEFINE S == Stalled
  <2>1. running' = withoutKeys(running, S) /\ execKillWorkers(S)
    BY <1>1, Zenon DEF Tick
  <2> HIDE DEF S
  <2>2. workerDone' = workerDone
    BY <1>1 DEF Tick
  <2>3. /\ DOMAIN running' \subseteq DOMAIN running \ S
        /\ \A i \in DOMAIN running' : running'[i].session = running[i].session
    BY <2>1 DEF withoutKeys
  <2> QED  BY <2>1, <2>2, <2>3, KillKept, Zenon
<1>2. ASSUME ExecRefreshTracker PROVE Keeps
  <2>0. workerDone' = workerDone
    BY <1>2 DEF ExecRefreshTracker
  <2>1. CASE UNCHANGED <<running, claimed, retry, timers, workers, procs>>
    BY <2>0, <2>1, SameProcs
  <2>2. CASE ~ UNCHANGED <<running, claimed, retry, timers, workers, procs>>
    <3> DEFINE kept(f) == {i \in DOMAIN f : f[i] \in Active \ Terminal}
    <3> PICK answer \in Map(DOMAIN running, State) :
           /\ running' = [i \in kept(answer) |-> [running[i] EXCEPT !.state = answer[i]]]
           /\ execKillWorkers(DOMAIN running \ kept(answer))
      BY ZenonT(60), <1>2, <2>2 DEF ExecRefreshTracker
    <3>1. kept(answer) \subseteq DOMAIN running
      BY MapIsFunction
    <3> HIDE DEF kept
    <3>2. \A i \in kept(answer) : running'[i].session = running[i].session
      <4>1. running \in [DOMAIN running -> Run]
        BY MapIsFunction DEF TypeOK
      <4> QED  BY <3>1, <4>1 DEF Run
    <3>3. DOMAIN running' = kept(answer)
      OBVIOUS
    <3>4. DOMAIN running' \subseteq DOMAIN running \ (DOMAIN running \ kept(answer))
      BY <3>1, <3>3
    <3> QED  BY <2>0, <3>2, <3>3, <3>4, KillKept, Zenon
  <2> QED  BY <2>1, <2>2
<1>3. ASSUME ExecRevalidate \/ ExecRetryFetch \/ ExecSpawnFailed PROVE Keeps
  <2>1. UNCHANGED <<procs, workerDone>> /\ DOMAIN running' \subseteq DOMAIN running
        /\ \A i \in DOMAIN running' : running'[i] = running[i]
    BY ZenonT(60), <1>3 DEF ExecRevalidate, ExecRetryFetch, ExecSpawnFailed, releaseClaim,
                withoutKeys, sched
  <2> QED  BY <2>1, SameProcs
<1>4. ASSUME ExecSpawn PROVE Keeps
  BY <1>4, SpawnKept
<1>5. ASSUME WorkerExit PROVE Keeps
  BY <1>5, ExitKept
<1>6. ASSUME UNCHANGED <<running, procs, workerDone>> PROVE Keeps
  BY <1>6, SameProcs
<1>7. ASSUME NEW i \in Issue, CodexActivity(i) \/ StallTimeout(i) PROVE Keeps
  <2>1. /\ UNCHANGED <<procs, workerDone>> /\ DOMAIN running' = DOMAIN running
        /\ \A j \in DOMAIN running' : running'[j].session = running[j].session
    BY <1>7, QuietChange
  <2> QED  BY <2>1, WorkerKept, Zenon
<1>8. CASE \E p \in procs, failed \in BOOLEAN : ProcExit(p, failed)
  <2>1. CASE Len(workerDone) < DoneCap
    BY <1>8, <2>1, ProcExitQueued, Zenon DEF Keeps
  <2>2. CASE ~(Len(workerDone) < DoneCap)
    BY <1>8, <2>2, ProcExitDropped, Zenon
  <2> QED  BY <2>1, <2>2
<1>9. CASE ~ \E p \in procs, failed \in BOOLEAN : ProcExit(p, failed)
  <2>1. Keeps
    BY ZenonT(60), <1>1, <1>2, <1>3, <1>4, <1>5, <1>6, <1>7, <1>9
    DEF Next, Exec, ExecFetchCandidates, RetryFire, TimerFires, vars
  <2> QED  BY <2>1, Zenon DEF Keeps
<1> QED  BY <1>8, <1>9

\* A running attempt loses its worker without a pending exit only when the worker's exit
\* finds workerDone full (runner.go:274-285): stall detection, reconciliation, late exits
\* and respawns never leave it without one.
THEOREM RunningHasWorkerHolds == Spec => RunningHasWorker
<1> DEFINE A == \A i \in Issue : LostExit(i)' => LostExit(i) \/ DropsExit(i)
<1>1. Init => Owned
  BY DEF Init, Owned
<1>2. TypeOK /\ Owned /\ [Next]_vars => Owned'
  BY OwnedStep
<1>3. TypeOK /\ Owned /\ [Next]_vars => [A]_vars
  BY OwnedStep, KeepsHasWorker, Zenon
<1> QED  BY <1>1, <1>2, <1>3, TypeCorrect, PTL DEF Spec, RunningHasWorker
=============================================================================
