-------------------------- MODULE TokenAccounting --------------------------
(***************************************************************************)
(* Token accounting of the orchestrator (SPEC 13.5): the agent handler     *)
(* reports the absolute usage of its thread on the channel codexActivity,  *)
(* the scheduler folds the reports into one Accumulator per issue          *)
(* (platform/metrics, recordUsage) and rolls it up into the lifetime       *)
(* totals when it releases the claim (releaseClaim).                       *)
(*                                                                         *)
(* Input, Output and Total are treated alike by the code: one count stands *)
(* for the three.  The transitions of the scheduler are reduced to what    *)
(* they do to Running and to the accumulators.                             *)
(***************************************************************************)
EXTENDS Naturals, Sequences, FiniteSetsExt

CONSTANTS
    Issue,
    Thread,         \* codex thread ids: a new one for every spawn
    MaxTokens,      \* bound: tokens a thread may use
    ActivityCap     \* capacity of the channel codexActivity

ASSUME TokenAssumption ==
    /\ IsFiniteSet(Issue) /\ IsFiniteSet(Thread)
    /\ MaxTokens \in Nat /\ ActivityCap \in Nat \ {0}

VARIABLES
    running,        \* State.Running: issue -> {} or {thread}
    worker,         \* thread -> {} or {issue}, while its process is there
    owner,          \* thread -> {} or {issue} it was started for
    used,           \* thread -> tokens really used
    activity,       \* the channel codexActivity
    lastSeen,       \* Usage[issue].lastSeen: issue -> thread -> tokens
    totals,         \* Usage[issue].totals: issue -> tokens
    codexTotals,    \* State.CodexTotals
    rolledUp,       \* history: threads whose issue was released after they started
    irregular       \* history: a report of such a thread, or a decreasing one, was applied

tokenVars == <<running, worker, owner, used, activity, lastSeen, totals, codexTotals,
          rolledUp, irregular>>

TokenInit ==
    /\ running = [i \in Issue |-> {}]
    /\ worker = [t \in Thread |-> {}]
    /\ owner = [t \in Thread |-> {}]
    /\ used = [t \in Thread |-> 0]
    /\ activity = <<>>
    /\ lastSeen = [i \in Issue |-> [t \in Thread |-> 0]]
    /\ totals = [i \in Issue |-> 0]
    /\ codexTotals = 0
    /\ rolledUp = {} /\ irregular = FALSE

\* markRunning with the thread of the new session
Dispatch(i) ==
    /\ running[i] = {}
    /\ \E t \in Thread :
          /\ owner[t] = {} /\ owner' = [owner EXCEPT ![t] = {i}]
          /\ running' = [running EXCEPT ![i] = {t}]
          /\ worker' = [worker EXCEPT ![t] = {i}]
    /\ UNCHANGED <<used, activity, lastSeen, totals, codexTotals, rolledUp, irregular>>

\* report: a send that is dropped when the channel is full
report(i, t, n) ==
    activity' = IF Len(activity) < ActivityCap
                THEN Append(activity, [issue |-> i, thread |-> t, total |-> n])
                ELSE activity

\* thread/tokenUsage/updated after another token; the agent may report any number
Use(t) ==
    \E i \in worker[t] :
        /\ used[t] < MaxTokens
        /\ used' = [used EXCEPT ![t] = @ + 1]
        /\ \E n \in 0 .. used[t] + 1 : report(i, t, n)
        /\ UNCHANGED <<running, worker, owner, lastSeen, totals, codexTotals, rolledUp, irregular>>

clampPos(a, b) == IF a > b THEN a - b ELSE 0

\* Mutant: the report is added as it is
ObserveAbsolute(i, t, n) ==
    /\ totals' = [totals EXCEPT ![i] = @ + n]
    /\ lastSeen' = [lastSeen EXCEPT ![i][t] = n]

\* Accumulator.Observe
Observe(i, t, n) ==
    /\ totals' = [totals EXCEPT ![i] = @ + clampPos(n, lastSeen[i][t])]
    /\ lastSeen' = [lastSeen EXCEPT ![i][t] = n]

\* reduceCodexActivity with recordUsage: reports for issues not running are dropped
CodexActivity ==
    /\ activity # <<>>
    /\ activity' = Tail(activity)
    /\ LET a == Head(activity)
       IN  \/ /\ running[a.issue] # {}
              /\ Observe(a.issue, a.thread, a.total)
              /\ irregular' = \/ irregular \/ a.thread \in rolledUp
                              \/ a.total < lastSeen[a.issue][a.thread]
           \/ running[a.issue] = {} /\ UNCHANGED <<lastSeen, totals, irregular>>
    /\ UNCHANGED <<running, worker, owner, used, codexTotals, rolledUp>>

\* The processes of the threads T are gone
gone(T) == worker' = [t \in Thread |-> IF t \in T THEN {} ELSE worker[t]]

\* workerExitNormal, workerExitAbnormal: the accumulators are kept; a killed worker
\* may go on reporting until its process is gone
Exit(i) ==
    /\ running[i] # {}
    /\ running' = [running EXCEPT ![i] = {}]
    /\ gone(running[i]) \/ UNCHANGED worker
    /\ UNCHANGED <<owner, used, activity, lastSeen, totals, codexTotals, rolledUp, irregular>>

\* Mutant: the accumulator is dropped without a roll-up
rollUpNothing(i) == UNCHANGED codexTotals

\* The roll-up of releaseClaim
rollUp(i) == codexTotals' = codexTotals + totals[i]

\* releaseClaim: from Running or from the retry queue
Release(i) ==
    /\ rollUp(i)
    /\ totals' = [totals EXCEPT ![i] = 0]
    /\ lastSeen' = [lastSeen EXCEPT ![i] = [t \in Thread |-> 0]]
    /\ running' = [running EXCEPT ![i] = {}]
    /\ gone(running[i]) \/ UNCHANGED worker
    /\ rolledUp' = rolledUp \cup {t \in Thread : i \in owner[t]}
    /\ UNCHANGED <<owner, used, activity, irregular>>

\* A killed worker is gone
ProcEnds(t) ==
    /\ \E i \in worker[t] : t \notin running[i]
    /\ gone({t})
    /\ UNCHANGED <<running, owner, used, activity, lastSeen, totals, codexTotals, rolledUp, irregular>>

TokenNext ==
    \/ \E i \in Issue : Dispatch(i) \/ Exit(i) \/ Release(i)
    \/ \E t \in Thread : Use(t) \/ ProcEnds(t)
    \/ CodexActivity

TokenSpec == TokenInit /\ [][TokenNext]_tokenVars

-----------------------------------------------------------------------------

\* Snapshot: the lifetime total is the rolled-up one and all live accumulators
CodexTotals == MapThenSumSet(LAMBDA i : totals[i], Issue) + codexTotals

\* state.go:131-132 "lifetime cumulative values": the published total never goes
\* back, whatever is released, retried, dropped or reported late.
TotalsNeverDecrease == [][CodexTotals' >= CodexTotals]_tokenVars

\* metrics.go:4-6 "Accumulator prevents double-counting": through retries, dropped and
\* queued reports the published total is never more than the tokens the threads have
\* used.  Two kinds of report are outside: one of a thread whose accumulator was
\* rolled up (Observe counts it from zero) and a decreasing one (Observe keeps it as
\* lastSeen and counts the difference again).
NoDoubleCount ==
    ~irregular => CodexTotals <= MapThenSumSet(LAMBDA t : used[t], Thread)
=============================================================================
