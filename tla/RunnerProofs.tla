---------------------------- MODULE RunnerProofs ----------------------------
(* What every attempt of Runner keeps, whatever max_turns is: the hooks are *)
(* paired, the process is gone before AfterRun and before the exit is       *)
(* reported, and the turns runLoop counts are turns the process has had.    *)
(* And what the totals of TokenAccounting keep of the tokens the attempts   *)
(* use, for any issues and threads: they count none twice and never shrink. *)
EXTENDS Runner, TokenAccounting, FiniteSetTheorems, TLAPS

\* A leaf is tried with Zenon, then with SMT, then with SMT again and more time.
USE ZenonT(5), SMT, SMTT(30)

\* Positions before BeforeRun was called, before AfterRun was called, and with a
\* process that was launched and not yet seen to go.
Unhooked == {"ensure", "create", "verify", "before", "down"}
Launched == {"init", "ready", "initReap", "await", "timeout", "decide", "next",
             "starting", "reap"}
Hooked == Launched \cup {"render", "launch", "abandon"}

\* The hooks and the exit report follow the position of the attempt.
HooksInv ==
    /\ pc \in Unhooked => hooks = NoHooks /\ exits = 0
    /\ pc \in Hooked => hooks = [before |-> 1, after |-> 0, ran |-> 0] /\ exits = 0
    /\ pc = "report" => hooks.before = 1 /\ hooks.after = 1 /\ exits = 0
    /\ pc = "done" => hooks.before = hooks.after /\ hooks.before <= 1 /\ exits <= hooks.before

\* The process is there only while the position says so.
ProcInv ==
    /\ pc \in Launched => proc # "none"
    /\ pc \notin Launched => proc # "up"

\* Only the kill for a terminal issue removes the workspace of an attempt that has left
\* Ensure, and it is the one kill of the attempt, so that the script is missed by no other.
KillInv ==
    /\ kill.at = "no" => ~graceful /\ ~removing /\ kill = NoKill
    /\ kill.at # "no" => pc \in Loop \cup {"done"}
    /\ removing => kill.reason = "terminal"
    /\ pc \in (Spawn \ {"ensure"}) \cup Loop => dir # "absent" \/ kill.reason = "terminal"
    /\ pc = "report" \/ exits = 1 => hooks.ran = 1 \/ kill.reason = "terminal"

\* The tokens in the two channels are of turns not yet counted: runLoop has taken a
\* start for every turn and a result for every turn but the one it awaits.
Results == \E r \in turnDone : ~r.failed

TurnInv ==
    /\ ended <= started
    /\ turn <= started
    /\ sessionReady # {} => turn + 1 <= started
    /\ pc \in Spawn => turn = 0
    /\ pc \in {"await", "timeout"} => turn <= ended + 1
    /\ pc \in {"await", "timeout"} /\ Results => turn <= ended
    /\ pc \in {"decide", "next", "starting"} => turn <= ended
    /\ pc \in Spawn \cup {"decide", "next", "starting"} /\ Results => turn + 1 <= ended

AttemptInv == TypeOK /\ HooksInv /\ ProcInv /\ KillInv /\ TurnInv


\* The conjuncts of TypeOK about Boolean variables, and the others.
FlagsOK == {turnTimeout, live, graceful, removing, failed} \subseteq BOOLEAN

ValuesOK ==
    /\ pc \in Spawn \cup Loop \cup {"done", "down"}
    /\ turn \in Nat /\ asked \in Nat /\ started \in Nat /\ ended \in Nat
    /\ proc \in {"none", "up", "gone"}
    /\ sessionReady \subseteq Nat /\ \A a, b \in sessionReady : a = b
    /\ turnDone \subseteq [turn : Nat, failed : BOOLEAN] /\ \A a, b \in turnDone : a = b
    /\ kill \in [at : {"no", "asked", "called", "cancelled"}, reason : Reasons \cup {"none"}]
    /\ dir \in {"absent", "created", "prepared", "torn"}
    /\ hooks \in [before : Nat, after : Nat, ran : Nat]
    /\ exits \in Nat

\* AfterRun is counted, and its script when the workspace is there (runHook).
LEMMA AfterRunHooks ==
    ASSUME hooks \in [before : Nat, after : Nat, ran : Nat], afterRun
    PROVE  /\ hooks' \in [before : Nat, after : Nat, ran : Nat]
           /\ hooks'.before = hooks.before /\ hooks'.after = hooks.after + 1
           /\ dir # "absent" => hooks'.ran = hooks.ran + 1
<1>1. PICK n \in {hooks.ran, hooks.ran + 1} :
         /\ hooks' = [hooks EXCEPT !.after = hooks.after + 1, !.ran = n]
         /\ dir # "absent" => n = hooks.ran + 1
  BY Zenon DEF afterRun
<1>2. n \in Nat /\ hooks.after + 1 \in Nat
  BY <1>1, SMTT(30)
<1> QED
  BY Zenon, <1>1, <1>2

\* The channel turnDone holds at most one result (offer).
LEMMA OfferResult ==
    ASSUME ValuesOK, NEW b \in BOOLEAN,
           offer(turnDone, [turn |-> started, failed |-> b])
    PROVE  /\ turnDone' \subseteq [turn : Nat, failed : BOOLEAN]
           /\ \A x, y \in turnDone' : x = y
<1>1. [turn |-> started, failed |-> b] \in [turn : Nat, failed : BOOLEAN]
  BY DEF ValuesOK
<1> QED
  BY <1>1, Zenon DEF offer, ValuesOK

\* The two parts make up TypeOK.
LEMMA FlagsAndValues == TypeOK <=> FlagsOK /\ ValuesOK
  BY Zenon DEF TypeOK, FlagsOK, ValuesOK

\* Every step keeps the types of the Boolean variables ...
LEMMA FlagsStep ==
    ASSUME ConstantsAssumption, FlagsOK, ValuesOK, [Next]_vars
    PROVE  FlagsOK'
<1> USE DEF FlagsOK, session
<1>1. CASE Ensure
  BY <1>1, Zenon DEF Ensure, go
<1>2. CASE AfterCreate
  BY <1>2, Zenon DEF AfterCreate, AfterCreateFailed, go, fail
<1>3. CASE VerifyCWD
  BY <1>3, Zenon DEF VerifyCWD, go, fail
<1>4. CASE BeforeRun
  BY <1>4, Zenon DEF BeforeRun, go, fail
<1>5. CASE RenderPrompt
  BY <1>5, Zenon DEF RenderPrompt, go, fail
<1>6. CASE LaunchConn
  BY <1>6, Zenon DEF LaunchConn, go, fail
<1>7. CASE InitSession
  BY <1>7, Zenon DEF InitSession, go, fail
<1>8. CASE SessionStarts
  BY <1>8, Zenon DEF SessionStarts, go, fail
<1>9. CASE InitReaped
  BY <1>9, Zenon DEF InitReaped, go
<1>10. CASE Abandon
  BY <1>10, Zenon DEF Abandon, go, afterRun
<1>11. CASE TurnResult
  BY <1>11, Zenon DEF ValuesOK, TurnResult, Settle
<1>12. CASE TurnTimesOut
  BY <1>12, Zenon DEF TurnTimesOut, go
<1>13. CASE TimeoutReaped
  BY <1>13, Zenon DEF TimeoutReaped, Settle
<1>14. CASE ProcessGone
  BY <1>14, Zenon DEF ProcessGone, Settle
<1>15. CASE Decide
  BY <1>15, Zenon DEF Decide, go, mayContinue
<1>16. CASE NextTurn
  BY <1>16, Zenon DEF NextTurn, go
<1>17. CASE NextTurnStarts
  BY <1>17, Zenon DEF NextTurnStarts, go
<1>18. CASE Teardown
  BY <1>18, Zenon DEF Teardown, teardown, afterRun
<1>19. CASE SendWorkerExit
  BY <1>19, Zenon DEF SendWorkerExit, go
<1>20. CASE TurnStarted
  BY <1>20, Zenon DEF TurnStarted, offer
<1>21. CASE TurnCompleted
  BY <1>21, Zenon DEF TurnCompleted, offer
<1>22. CASE TurnError
  BY <1>22, Zenon DEF TurnError, offer
<1>23. CASE ProcExits
  BY <1>23, Zenon DEF ProcExits
<1>24. ASSUME NEW reason \in Reasons, execKillWorker(reason)
      PROVE  FlagsOK'
  <2>1. graceful' \in BOOLEAN /\ removing' \in BOOLEAN
    BY <1>24 DEF execKillWorker, Reasons, NoKill
  <2> QED
    BY <1>24, <2>1, Zenon DEF execKillWorker, Reasons, NoKill
<1>25. CASE KillCancels \/ Kill
  <2>1. CASE KillCancels
    BY <2>1, Zenon DEF KillCancels
  <2>2. CASE Kill
    <3>1. graceful' \in BOOLEAN
      BY <2>2 DEF Kill
    <3> QED  BY <2>2, <3>1, Zenon DEF Kill
  <2> QED  BY <1>25, <2>1, <2>2
<1>26. CASE RemoveWorkspace
  BY <1>26, Zenon DEF RemoveWorkspace
<1>27. CASE NextAttempt
  BY <1>27, Zenon DEF NextAttempt, freshAttempt
<1>28. CASE Crash
  BY <1>28, Zenon DEF Crash, freshAttempt
<1>29. CASE Restart
  BY <1>29, Zenon DEF Restart, freshAttempt
<1>30. CASE UNCHANGED vars
  BY <1>30, ZenonT(30) DEF vars
<1> QED
  BY <1>1, <1>2, <1>3, <1>4, <1>5, <1>6, <1>7, <1>8, <1>9, <1>10, <1>11, <1>12,
     <1>13, <1>14, <1>15, <1>16, <1>17, <1>18, <1>19, <1>20, <1>21, <1>22, <1>23,
     <1>24, <1>25, <1>26, <1>27, <1>28, <1>29, <1>30 DEF Next, Worker

\* ... and of the others.
LEMMA ValuesStep ==
    ASSUME ValuesOK, [Next]_vars
    PROVE  ValuesOK'
<1> USE DEF ValuesOK, Spawn, Loop, session, NoHooks, NoKill, Reasons
<1>1. CASE Ensure
  BY <1>1 DEF Ensure, go
<1>2. CASE AfterCreate
  BY <1>2 DEF AfterCreate, AfterCreateFailed, go, fail
<1>3. CASE VerifyCWD
  BY <1>3 DEF VerifyCWD, go, fail
<1>4. CASE BeforeRun
  BY <1>4, SMTT(30) DEF BeforeRun, go, fail
<1>5. CASE RenderPrompt
  BY <1>5 DEF RenderPrompt, go, fail
<1>6. CASE LaunchConn
  BY <1>6 DEF LaunchConn, go, fail
<1>7. CASE InitSession
  BY <1>7, SMTT(30) DEF InitSession, go, fail
<1>8. CASE SessionStarts
  <2>1. turn' \in Nat /\ sessionReady' \subseteq sessionReady
    BY <1>8, SMTT(30) DEF SessionStarts
  <2>2. sessionReady' \subseteq Nat /\ \A a, b \in sessionReady' : a = b
    BY <2>1
  <2> QED
    BY <1>8, <2>1, <2>2 DEF SessionStarts, go
<1>9. CASE InitReaped
  BY <1>9 DEF InitReaped, go
<1>10. CASE Abandon
  <2>1. hooks' \in [before : Nat, after : Nat, ran : Nat]
    BY <1>10, AfterRunHooks DEF Abandon
  <2> QED
    BY <1>10, <2>1 DEF Abandon, go
<1>11. CASE TurnResult
  BY <1>11 DEF TurnResult, Settle
<1>12. CASE TurnTimesOut
  BY <1>12 DEF TurnTimesOut, go
<1>13. CASE TimeoutReaped
  BY <1>13 DEF TimeoutReaped, Settle
<1>14. CASE ProcessGone
  BY <1>14 DEF ProcessGone, Settle
<1>15. CASE Decide
  BY <1>15 DEF Decide, go, mayContinue
<1>16. CASE NextTurn
  BY <1>16, SMTT(30) DEF NextTurn, go
<1>17. CASE NextTurnStarts
  <2>1. turn' \in Nat /\ sessionReady' \subseteq sessionReady
    BY <1>17, SMTT(30) DEF NextTurnStarts
  <2>2. sessionReady' \subseteq Nat /\ \A a, b \in sessionReady' : a = b
    BY <2>1
  <2> QED
    BY <1>17, <2>1, <2>2 DEF NextTurnStarts, go
<1>18. CASE Teardown
  <2>1. hooks' \in [before : Nat, after : Nat, ran : Nat]
    BY <1>18, AfterRunHooks DEF Teardown
  <2> QED
    BY <1>18, <2>1 DEF Teardown, teardown
<1>19. CASE SendWorkerExit
  BY <1>19, SMTT(30) DEF SendWorkerExit, go
<1>20. CASE TurnStarted
  BY <1>20, SMTT(30) DEF TurnStarted, offer
<1>21. CASE TurnCompleted
  <2>2. /\ turnDone' \subseteq [turn : Nat, failed : BOOLEAN]
        /\ \A x, y \in turnDone' : x = y
    BY <1>21, OfferResult, Zenon DEF TurnCompleted
  <2> QED
    BY <1>21, <2>2, SMTT(30) DEF TurnCompleted
<1>22. CASE TurnError
  <2>2. /\ turnDone' \subseteq [turn : Nat, failed : BOOLEAN]
        /\ \A x, y \in turnDone' : x = y
    BY <1>22, OfferResult, Zenon DEF TurnError
  <2> QED
    BY <1>22, <2>2 DEF TurnError
<1>23. CASE ProcExits
  BY <1>23 DEF ProcExits
<1>24. ASSUME NEW reason \in Reasons, execKillWorker(reason)
      PROVE  ValuesOK'
  BY <1>24 DEF execKillWorker, Reasons, NoKill
<1>25. CASE KillCancels \/ Kill
  BY <1>25 DEF KillCancels, Kill
<1>26. CASE RemoveWorkspace
  BY <1>26 DEF RemoveWorkspace
<1>27. CASE NextAttempt
  BY <1>27 DEF NextAttempt, freshAttempt
<1>28. CASE Crash
  BY <1>28 DEF Crash, freshAttempt
<1>29. CASE Restart
  BY <1>29 DEF Restart, freshAttempt
<1>30. CASE UNCHANGED vars
  BY <1>30 DEF vars
<1> QED
  BY <1>1, <1>2, <1>3, <1>4, <1>5, <1>6, <1>7, <1>8, <1>9, <1>10, <1>11, <1>12,
     <1>13, <1>14, <1>15, <1>16, <1>17, <1>18, <1>19, <1>20, <1>21, <1>22, <1>23,
     <1>24, <1>25, <1>26, <1>27, <1>28, <1>29, <1>30 DEF Next, Worker
\* BeforeRun, AfterRun and the exit report are passed in this order, each at most once
\* (spawnWith, its deferred function, teardown, sendWorkerExit).
LEMMA HooksStep ==
    ASSUME ConstantsAssumption, TypeOK, HooksInv, [Next]_vars
    PROVE  HooksInv'
<1> USE DEF TypeOK, Spawn, Loop, session, NoHooks, HooksInv, Unhooked, Hooked, Launched
<1>1. CASE Ensure
  BY <1>1 DEF Ensure, go
<1>2. CASE AfterCreate
  BY <1>2, SMTT(30) DEF AfterCreate, AfterCreateFailed, go, fail
<1>3. CASE VerifyCWD
  BY <1>3, SMTT(30) DEF VerifyCWD, go, fail
<1>4. CASE BeforeRun
  BY <1>4, SMTT(30) DEF BeforeRun, go, fail
<1>5. CASE RenderPrompt
  BY <1>5 DEF RenderPrompt, go, fail
<1>6. CASE LaunchConn
  BY <1>6 DEF LaunchConn, go, fail
<1>7. CASE InitSession
  BY <1>7 DEF InitSession, go, fail
<1>8. CASE SessionStarts
  BY <1>8 DEF SessionStarts, go, fail
<1>9. CASE InitReaped
  BY <1>9 DEF InitReaped, go
<1>10. CASE Abandon
  BY <1>10, SMTT(30) DEF Abandon, go, afterRun
<1>11. CASE TurnResult
  BY <1>11 DEF TurnResult, Settle
<1>12. CASE TurnTimesOut
  BY <1>12 DEF TurnTimesOut, go
<1>13. CASE TimeoutReaped
  BY <1>13 DEF TimeoutReaped, Settle
<1>14. CASE ProcessGone
  BY <1>14 DEF ProcessGone, Settle
<1>15. CASE Decide
  BY <1>15 DEF Decide, go, mayContinue
<1>16. CASE NextTurn
  BY <1>16 DEF NextTurn, go
<1>17. CASE NextTurnStarts
  BY <1>17 DEF NextTurnStarts, go
<1>18. CASE Teardown
  BY <1>18, SMTT(30) DEF Teardown, teardown, afterRun
<1>19. CASE SendWorkerExit
  BY <1>19, SMTT(30) DEF SendWorkerExit, go
<1>20. CASE TurnStarted
  BY <1>20 DEF TurnStarted, offer
<1>21. CASE TurnCompleted
  BY <1>21 DEF TurnCompleted, offer
<1>22. CASE TurnError
  BY <1>22 DEF TurnError, offer
<1>23. CASE ProcExits
  BY <1>23 DEF ProcExits
<1>24. ASSUME NEW reason \in Reasons, execKillWorker(reason)
      PROVE  HooksInv'
  BY <1>24 DEF execKillWorker, Reasons, NoKill
<1>25. CASE KillCancels \/ Kill
  BY <1>25 DEF KillCancels, Kill
<1>26. CASE RemoveWorkspace
  BY <1>26 DEF RemoveWorkspace
<1>27. CASE NextAttempt
  BY <1>27 DEF NextAttempt, freshAttempt
<1>28. CASE Crash
  BY <1>28 DEF Crash, freshAttempt
<1>29. CASE Restart
  BY <1>29 DEF Restart, freshAttempt
<1>30. CASE UNCHANGED vars
  BY <1>30 DEF vars
<1> QED
  BY Zenon, <1>1, <1>2, <1>3, <1>4, <1>5, <1>6, <1>7, <1>8, <1>9, <1>10, <1>11, <1>12,
     <1>13, <1>14, <1>15, <1>16, <1>17, <1>18, <1>19, <1>20, <1>21, <1>22, <1>23,
     <1>24, <1>25, <1>26, <1>27, <1>28, <1>29, <1>30 DEF Next, Worker

\* A process is left behind only by the waits for it (initReap, timeout, teardown).
LEMMA ProcStep ==
    ASSUME TypeOK, ProcInv, [Next]_vars
    PROVE  ProcInv'
<1> USE DEF TypeOK, Spawn, Loop, session, ProcInv, Launched
<1>1. CASE Ensure
  BY <1>1 DEF Ensure, go
<1>2. CASE AfterCreate
  BY <1>2 DEF AfterCreate, AfterCreateFailed, go, fail
<1>3. CASE VerifyCWD
  BY <1>3 DEF VerifyCWD, go, fail
<1>4. CASE BeforeRun
  BY <1>4 DEF BeforeRun, go, fail
<1>5. CASE RenderPrompt
  BY <1>5 DEF RenderPrompt, go, fail
<1>6. CASE LaunchConn
  BY <1>6 DEF LaunchConn, go, fail
<1>7. CASE InitSession
  BY <1>7 DEF InitSession, go, fail
<1>8. CASE SessionStarts
  BY <1>8 DEF SessionStarts, go, fail
<1>9. CASE InitReaped
  BY <1>9 DEF InitReaped, go
<1>10. CASE Abandon
  BY <1>10 DEF Abandon, go, afterRun
<1>11. CASE TurnResult
  BY <1>11 DEF TurnResult, Settle
<1>12. CASE TurnTimesOut
  BY <1>12 DEF TurnTimesOut, go
<1>13. CASE TimeoutReaped
  BY <1>13 DEF TimeoutReaped, Settle
<1>14. CASE ProcessGone
  BY <1>14 DEF ProcessGone, Settle
<1>15. CASE Decide
  BY <1>15 DEF Decide, go, mayContinue
<1>16. CASE NextTurn
  BY <1>16 DEF NextTurn, go
<1>17. CASE NextTurnStarts
  BY <1>17 DEF NextTurnStarts, go
<1>18. CASE Teardown
  BY <1>18 DEF Teardown, teardown, afterRun
<1>19. CASE SendWorkerExit
  BY <1>19 DEF SendWorkerExit, go
<1>20. CASE TurnStarted
  BY <1>20 DEF TurnStarted, offer
<1>21. CASE TurnCompleted
  BY <1>21 DEF TurnCompleted, offer
<1>22. CASE TurnError
  BY <1>22 DEF TurnError, offer
<1>23. CASE ProcExits
  BY <1>23 DEF ProcExits
<1>24. ASSUME NEW reason \in Reasons, execKillWorker(reason)
      PROVE  ProcInv'
  BY <1>24 DEF execKillWorker, Reasons, NoKill
<1>25. CASE KillCancels \/ Kill
  BY <1>25 DEF KillCancels, Kill
<1>26. CASE RemoveWorkspace
  BY <1>26 DEF RemoveWorkspace
<1>27. CASE NextAttempt
  BY <1>27 DEF NextAttempt, freshAttempt
<1>28. CASE Crash
  BY <1>28 DEF Crash, freshAttempt
<1>29. CASE Restart
  BY <1>29 DEF Restart, freshAttempt
<1>30. CASE UNCHANGED vars
  BY <1>30 DEF vars
<1> QED
  BY <1>1, <1>2, <1>3, <1>4, <1>5, <1>6, <1>7, <1>8, <1>9, <1>10, <1>11, <1>12,
     <1>13, <1>14, <1>15, <1>16, <1>17, <1>18, <1>19, <1>20, <1>21, <1>22, <1>23,
     <1>24, <1>25, <1>26, <1>27, <1>28, <1>29, <1>30 DEF Next, Worker

\* A kill comes once, and only a graceful one removes the workspace (Worker.Kill,
\* execRemoveWorkspace).
LEMMA KillStep ==
    ASSUME TypeOK, HooksInv, KillInv, [Next]_vars
    PROVE  KillInv'
<1> USE DEF TypeOK, Spawn, Loop, session, NoHooks, HooksInv, Unhooked, Hooked, Launched, KillInv,
           NoKill, Reasons
<1>1. CASE Ensure
  BY <1>1 DEF Ensure, go
<1>2. CASE AfterCreate
  BY <1>2 DEF AfterCreate, AfterCreateFailed, go, fail
<1>3. CASE VerifyCWD
  BY <1>3 DEF VerifyCWD, go, fail
<1>4. CASE BeforeRun
  BY <1>4 DEF BeforeRun, go, fail
<1>5. CASE RenderPrompt
  BY <1>5 DEF RenderPrompt, go, fail
<1>6. CASE LaunchConn
  BY <1>6 DEF LaunchConn, go, fail
<1>7. CASE InitSession
  BY <1>7 DEF InitSession, go, fail
<1>8. CASE SessionStarts
  BY <1>8 DEF SessionStarts, go, fail
<1>9. CASE InitReaped
  BY <1>9 DEF InitReaped, go
<1>10. CASE Abandon
  BY <1>10, SMTT(30) DEF Abandon, go, afterRun
<1>11. CASE TurnResult
  BY <1>11 DEF TurnResult, Settle
<1>12. CASE TurnTimesOut
  BY <1>12 DEF TurnTimesOut, go
<1>13. CASE TimeoutReaped
  BY <1>13 DEF TimeoutReaped, Settle
<1>14. CASE ProcessGone
  BY <1>14 DEF ProcessGone, Settle
<1>15. CASE Decide
  BY <1>15 DEF Decide, go, mayContinue
<1>16. CASE NextTurn
  BY <1>16 DEF NextTurn, go
<1>17. CASE NextTurnStarts
  BY <1>17 DEF NextTurnStarts, go
<1>18. CASE Teardown
  BY <1>18, SMTT(30) DEF Teardown, teardown, afterRun
<1>19. CASE SendWorkerExit
  BY <1>19 DEF SendWorkerExit, go
<1>20. CASE TurnStarted
  BY <1>20 DEF TurnStarted, offer
<1>21. CASE TurnCompleted
  BY <1>21 DEF TurnCompleted, offer
<1>22. CASE TurnError
  BY <1>22 DEF TurnError, offer
<1>23. CASE ProcExits
  BY <1>23 DEF ProcExits
<1>24. ASSUME NEW reason \in Reasons, execKillWorker(reason)
      PROVE  KillInv'
  BY <1>24 DEF execKillWorker, Reasons, NoKill
<1>25. CASE KillCancels \/ Kill
  BY <1>25 DEF KillCancels, Kill
<1>26. CASE RemoveWorkspace
  BY <1>26 DEF RemoveWorkspace
<1>27. CASE NextAttempt
  BY <1>27 DEF NextAttempt, freshAttempt
<1>28. CASE Crash
  BY <1>28 DEF Crash, freshAttempt
<1>29. CASE Restart
  BY <1>29 DEF Restart, freshAttempt
<1>30. CASE UNCHANGED vars
  BY <1>30 DEF vars
<1> QED
  BY Zenon, <1>1, <1>2, <1>3, <1>4, <1>5, <1>6, <1>7, <1>8, <1>9, <1>10, <1>11, <1>12,
     <1>13, <1>14, <1>15, <1>16, <1>17, <1>18, <1>19, <1>20, <1>21, <1>22, <1>23,
     <1>24, <1>25, <1>26, <1>27, <1>28, <1>29, <1>30 DEF Next, Worker

\* No start and no result is counted twice, although the channels lose some of them
\* (turnHandler, awaitTurn, nextTurn).
LEMMA TurnStep ==
    ASSUME TypeOK, TurnInv, [Next]_vars
    PROVE  TurnInv'
<1> USE DEF TypeOK, Spawn, Loop, session, TurnInv, Results
<1>1. CASE Ensure
  BY <1>1 DEF Ensure, go
<1>2. CASE AfterCreate
  BY <1>2 DEF AfterCreate, AfterCreateFailed, go, fail
<1>3. CASE VerifyCWD
  BY <1>3 DEF VerifyCWD, go, fail
<1>4. CASE BeforeRun
  BY <1>4 DEF BeforeRun, go, fail
<1>5. CASE RenderPrompt
  BY <1>5 DEF RenderPrompt, go, fail
<1>6. CASE LaunchConn
  BY <1>6 DEF LaunchConn, go, fail
<1>7. CASE InitSession
  BY <1>7 DEF InitSession, go, fail
<1>8. CASE SessionStarts
  BY <1>8, SMTT(30) DEF SessionStarts, go, fail
<1>9. CASE InitReaped
  BY <1>9 DEF InitReaped, go
<1>10. CASE Abandon
  BY <1>10 DEF Abandon, go, afterRun
<1>11. CASE TurnResult
  BY <1>11 DEF TurnResult, Settle
<1>12. CASE TurnTimesOut
  BY <1>12 DEF TurnTimesOut, go
<1>13. CASE TimeoutReaped
  BY <1>13 DEF TimeoutReaped, Settle
<1>14. CASE ProcessGone
  BY <1>14 DEF ProcessGone, Settle
<1>15. CASE Decide
  BY <1>15 DEF Decide, go, mayContinue
<1>16. CASE NextTurn
  BY <1>16 DEF NextTurn, go
<1>17. CASE NextTurnStarts
  BY <1>17, SMTT(30) DEF NextTurnStarts, go
<1>18. CASE Teardown
  BY <1>18 DEF Teardown, teardown, afterRun
<1>19. CASE SendWorkerExit
  BY <1>19 DEF SendWorkerExit, go
<1>20. CASE TurnStarted
  BY <1>20, SMTT(30) DEF TurnStarted, offer
<1>21. CASE TurnCompleted
  BY <1>21, SMTT(30) DEF TurnCompleted, offer
<1>22. CASE TurnError
  BY <1>22, SMTT(30) DEF TurnError, offer
<1>23. CASE ProcExits
  BY <1>23 DEF ProcExits
<1>24. ASSUME NEW reason \in Reasons, execKillWorker(reason)
      PROVE  TurnInv'
  BY <1>24 DEF execKillWorker, Reasons, NoKill
<1>25. CASE KillCancels \/ Kill
  BY <1>25 DEF KillCancels, Kill
<1>26. CASE RemoveWorkspace
  BY <1>26 DEF RemoveWorkspace
<1>27. CASE NextAttempt
  BY <1>27, SMTT(30) DEF NextAttempt, freshAttempt
<1>28. CASE Crash
  BY <1>28, SMTT(30) DEF Crash, freshAttempt
<1>29. CASE Restart
  BY <1>29, SMTT(30) DEF Restart, freshAttempt
<1>30. CASE UNCHANGED vars
  BY <1>30 DEF vars
<1> QED
  BY Zenon, <1>1, <1>2, <1>3, <1>4, <1>5, <1>6, <1>7, <1>8, <1>9, <1>10, <1>11, <1>12,
     <1>13, <1>14, <1>15, <1>16, <1>17, <1>18, <1>19, <1>20, <1>21, <1>22, <1>23,
     <1>24, <1>25, <1>26, <1>27, <1>28, <1>29, <1>30 DEF Next, Worker

-----------------------------------------------------------------------------

\* Every state of the worker is one of AttemptInv: runner.go and worker.go.
LEMMA AttemptInvariant == Spec => []AttemptInv
<1>1. Init => AttemptInv
  <2>1. Init => FlagsOK
    BY ConstantsAssumption, Zenon DEF Init, FlagsOK
  <2>2. Init => ValuesOK
    BY DEF Init, ValuesOK, NoHooks, NoKill, Reasons, Spawn
  <2>3. Init => HooksInv /\ ProcInv /\ KillInv /\ TurnInv
    BY DEF Init, HooksInv, ProcInv, KillInv, TurnInv, Results, NoHooks, NoKill, Unhooked, Hooked,
           Launched, Spawn, Loop
  <2> QED
    BY <2>1, <2>2, <2>3, FlagsAndValues DEF AttemptInv
<1>2. AttemptInv /\ [Next]_vars => AttemptInv'
  <2> SUFFICES ASSUME AttemptInv, [Next]_vars PROVE AttemptInv'
    OBVIOUS
  <2>1. FlagsOK /\ ValuesOK
    BY FlagsAndValues DEF AttemptInv
  <2>2. FlagsOK' /\ ValuesOK'
    BY <2>1, FlagsStep, ValuesStep, ConstantsAssumption
  <2>3. TypeOK'
    BY <2>2, Zenon DEF TypeOK, FlagsOK, ValuesOK
  <2> QED
    BY <2>3, ConstantsAssumption, HooksStep, ProcStep, KillStep, TurnStep DEF AttemptInv
<1> QED
  BY <1>1, <1>2, PTL DEF Spec

\* The variables of an attempt keep their types for every max_turns.
THEOREM RunnerTypes == Spec => []TypeOK
<1>1. AttemptInv => TypeOK
  BY DEF AttemptInv
<1> QED
  BY <1>1, AttemptInvariant, PTL

\* runner.go:55: every path that called BeforeRun calls AfterRun exactly once, for every
\* number of turns and any interleaving with kills, removals and the process.
THEOREM AfterRunIsCalledOnce == Spec => []AfterRunOnce
<1>1. AttemptInv => AfterRunOnce
  BY SMTT(30) DEF AttemptInv, TypeOK, HooksInv, KillInv, AfterRunOnce, Spawn, Loop, NoHooks,
         Unhooked, Hooked, Launched
<1> QED
  BY <1>1, AttemptInvariant, PTL

\* teardown and spawnWith: the process is gone before AfterRun and before the exit is
\* reported, for every number of turns.
THEOREM ProcessIsGoneFirst == Spec => []ProcessGoneFirst
<1>1. AttemptInv => ProcessGoneFirst
  BY SMTT(30)
     DEF AttemptInv, TypeOK, HooksInv, ProcInv, ProcessGoneFirst, Spawn, Loop, NoHooks,
         Unhooked, Hooked, Launched
<1> QED
  BY <1>1, AttemptInvariant, PTL

\* runLoop: a turn is taken for started or completed only when the process has had it,
\* for every number of turns and whatever the lossy channels drop.
THEOREM TurnsAreCounted == Spec => []TurnsAreReal
<1>1. AttemptInv => TurnsAreReal
  BY DEF AttemptInv, TurnInv, TurnsAreReal
<1> QED
  BY <1>1, AttemptInvariant, PTL

-----------------------------------------------------------------------------
(* The tokens of the attempts: sums over finite sets, for TokenAccounting *)

\* A nonempty set of numbers has a least element.
LEMMA Least ==
    ASSUME NEW T, T \subseteq Nat, T # {}
    PROVE  \E m \in T : \A k \in T : m <= k
<1> DEFINE R == OpToRel(<, Nat)
<1>1. IsWellFoundedOn(R, Nat)
  BY NatLessThanWellFounded
<1>2. \A a, b \in Nat : a < b => <<a, b>> \in R
  BY DEF OpToRel
<1> HIDE DEF R
<1>3. PICK m \in T : \A k \in T : ~ (<<k, m>> \in R)
  BY <1>1, WFMin, Zenon
<1>4. \A k \in T : ~(k < m)
  BY <1>2, <1>3, Zenon
<1> QED  BY <1>4, SMTT(30)

\* Induction, for the set of the numbers a fact holds of.
LEMMA SetInduction ==
    ASSUME NEW G, 0 \in G, \A n \in Nat : n \in G => n + 1 \in G
    PROVE  \A n \in Nat : n \in G
<1> DEFINE T == {n \in Nat : n \notin G}
<1>1. SUFFICES ASSUME T # {} PROVE FALSE
  BY Zenon
<1>2. PICK m \in T : \A k \in T : m <= k
  BY <1>1, Least
<1>3. m # 0 /\ m \in Nat
  BY <1>2
<1>4. m - 1 \in Nat /\ ~(m <= m - 1) /\ m = (m - 1) + 1
  BY <1>3
<1>5. m - 1 \in G
  BY <1>2, <1>4
<1> QED  BY <1>2, <1>4, <1>5

pick(s) == CHOOSE x \in s : TRUE

\* g gives the sum of f over each of the sets in D.
SumsOver(g, f, D) ==
    g = [s \in D |-> IF s = {} THEN 0 ELSE f[pick(s)] + g[s \ {pick(s)}]]

\* The sums over the subsets of S, as the fold of MapThenSumSet computes them.
Sums(f, S) == CHOOSE g : SumsOver(g, f, SUBSET S)

\* The subsets of S of at most n elements.
UpTo(n, S) == {s \in SUBSET S : Cardinality(s) <= n}

\* A step of the fold takes one element out of a finite set.
LEMMA PickFacts ==
    ASSUME NEW S, IsFiniteSet(S), NEW s \in SUBSET S, s # {}
    PROVE  /\ pick(s) \in s /\ s \ {pick(s)} \in SUBSET S
           /\ Cardinality(s) \in Nat /\ Cardinality(s \ {pick(s)}) = Cardinality(s) - 1
<1>1. pick(s) \in s
  BY Zenon DEF pick
<1>2. IsFiniteSet(s)
  BY FS_Subset
<1> QED  BY <1>1, <1>2, FS_RemoveElement, FS_CardinalityType

\* Only the empty set has no elements.
LEMMA EmptyCardinality ==
    ASSUME NEW S, IsFiniteSet(S), NEW s \in SUBSET S
    PROVE  Cardinality(s) \in Nat /\ (Cardinality(s) = 0 <=> s = {})
<1>1. IsFiniteSet(s)
  BY FS_Subset
<1> QED  BY <1>1, FS_EmptySet, FS_CardinalityType

\* The recursive function of the fold exists, by induction on the size of the sets.
LEMMA SumsExist ==
    ASSUME NEW S, IsFiniteSet(S), NEW f
    PROVE  \A n \in Nat : \E g : SumsOver(g, f, UpTo(n, S))
<1> DEFINE G == {n \in Nat : \E g : SumsOver(g, f, UpTo(n, S))}
<1>1. 0 \in G
  <2> DEFINE g == [s \in UpTo(0, S) |-> 0]
  <2>1. \A s \in UpTo(0, S) : s = {}
    BY EmptyCardinality, SMTT(30) DEF UpTo
  <2>2. SumsOver(g, f, UpTo(0, S))
    BY <2>1 DEF SumsOver
  <2> QED  BY <2>2
<1>2. ASSUME NEW n \in Nat, n \in G PROVE n + 1 \in G
  <2>1. PICK h : SumsOver(h, f, UpTo(n, S))
    BY <1>2
  <2> DEFINE g == [s \in UpTo(n + 1, S) |-> IF s = {} THEN 0 ELSE f[pick(s)] + h[s \ {pick(s)}]]
  <2>2. ASSUME NEW s \in UpTo(n + 1, S), s # {} PROVE s \ {pick(s)} \in UpTo(n, S)
    BY <2>2, PickFacts, SMTT(30) DEF UpTo
  <2>3. ASSUME NEW s \in UpTo(n, S) PROVE s \in UpTo(n + 1, S)
    BY EmptyCardinality, SMTT(30) DEF UpTo
  <2>4. ASSUME NEW s \in UpTo(n, S) PROVE g[s] = h[s]
    BY <2>1, <2>3 DEF SumsOver
  <2>5. ASSUME NEW s \in UpTo(n + 1, S)
        PROVE  g[s] = IF s = {} THEN 0 ELSE f[pick(s)] + g[s \ {pick(s)}]
    BY <2>2, <2>4
  <2>6. SumsOver(g, f, UpTo(n + 1, S))
    BY <2>5 DEF SumsOver
  <2> QED  BY <2>6
<1> HIDE DEF G
<1>3. \A n \in Nat : n \in G
  BY <1>1, <1>2, SetInduction
<1> QED  BY <1>3 DEF G

\* The sums over all subsets, as the recursion describes them.
LEMMA SumsAre ==
    ASSUME NEW S, IsFiniteSet(S), NEW f
    PROVE  \A s \in SUBSET S :
               Sums(f, S)[s] = IF s = {} THEN 0 ELSE f[pick(s)] + Sums(f, S)[s \ {pick(s)}]
<1>1. Cardinality(S) \in Nat
  BY FS_CardinalityType
<1>2. UpTo(Cardinality(S), S) = SUBSET S
  <2>1. ASSUME NEW s \in SUBSET S PROVE Cardinality(s) <= Cardinality(S)
    BY FS_Subset
  <2> QED  BY <2>1 DEF UpTo
<1>3. \E g : SumsOver(g, f, UpTo(Cardinality(S), S))
  BY <1>1, SumsExist, Zenon
<1>4. SumsOver(Sums(f, S), f, SUBSET S)
  BY <1>2, <1>3, Zenon DEF Sums
<1> DEFINE g == Sums(f, S)
<1> HIDE DEF g
<1>5. SumsOver(g, f, SUBSET S)
  BY <1>4 DEF g
<1>6. \A s \in SUBSET S : g[s] = IF s = {} THEN 0 ELSE f[pick(s)] + g[s \ {pick(s)}]
  BY <1>5, Zenon DEF SumsOver
<1> QED  BY <1>6 DEF g

\* What holds of the empty set, and of a set if it does of the set without the
\* element the sum picks, holds of all subsets of a finite set.
LEMMA SubsetInduction ==
    ASSUME NEW S, IsFiniteSet(S), NEW H, {} \in H,
           \A s \in SUBSET S : s # {} /\ (\A t \in SUBSET S : Cardinality(t) < Cardinality(s) => t \in H) => s \in H
    PROVE  SUBSET S \subseteq H
<1> DEFINE G == {n \in Nat : \A s \in SUBSET S : Cardinality(s) <= n => s \in H}
<1>1. 0 \in G
  <2>1. ASSUME NEW s \in SUBSET S, Cardinality(s) <= 0 PROVE s \in H
    <3>1. s = {}
      BY <2>1, EmptyCardinality, SMTT(30)
    <3> QED  BY <3>1
  <2> QED  BY <2>1
<1>2. ASSUME NEW n \in Nat, n \in G PROVE n + 1 \in G
  <2>1. SUFFICES ASSUME NEW s \in SUBSET S, Cardinality(s) <= n + 1 PROVE s \in H
    BY SMTT(30)
  <2>2. ASSUME NEW t \in SUBSET S, Cardinality(t) < Cardinality(s) PROVE t \in H
    <3>1. Cardinality(t) \in Nat /\ Cardinality(s) \in Nat
      BY EmptyCardinality
    <3>2. Cardinality(t) <= n
      BY <2>1, <2>2, <3>1
    <3> QED  BY <1>2, <3>2
  <2>3. CASE s = {}
    BY <2>3
  <2>4. CASE s # {}
    BY <2>2, <2>4
  <2> QED  BY <2>3, <2>4
<1> HIDE DEF G
<1>3. \A n \in Nat : n \in G
  BY <1>1, <1>2, SetInduction
<1>4. ASSUME NEW s \in SUBSET S PROVE s \in H
  <2>1. Cardinality(s) \in Nat
    BY EmptyCardinality
  <2> QED  BY <1>3, <2>1, SMTT(30) DEF G
<1> QED  BY <1>4

\* A sum of natural numbers is one.
LEMMA SumsNat ==
    ASSUME NEW S, IsFiniteSet(S), NEW f \in [S -> Nat]
    PROVE  \A s \in SUBSET S : Sums(f, S)[s] \in Nat
<1> DEFINE g == Sums(f, S)
           H == {s \in SUBSET S : g[s] \in Nat}
<1>1. \A s \in SUBSET S : g[s] = IF s = {} THEN 0 ELSE f[pick(s)] + g[s \ {pick(s)}]
  BY SumsAre
<1> HIDE DEF g
<1>2. {} \in H
  <2>1. {} \in SUBSET S
    OBVIOUS
  <2>2. g[{}] = 0
    BY <1>1, <2>1
  <2> QED  BY <2>1, <2>2
<1>3. ASSUME NEW s \in SUBSET S, s # {}, \A t \in SUBSET S : Cardinality(t) < Cardinality(s) => t \in H
      PROVE  s \in H
  <2> DEFINE p == pick(s)
             t == s \ {p}
  <2>1. p \in S /\ t \in SUBSET S /\ Cardinality(t) < Cardinality(s)
    <3>1. /\ p \in s /\ t \in SUBSET S
          /\ Cardinality(s) \in Nat /\ Cardinality(t) = Cardinality(s) - 1
      BY <1>3, PickFacts
    <3> QED  BY <3>1
  <2>2. g[t] \in Nat
    BY <1>3, <2>1
  <2>3. g[s] = f[p] + g[t]
    BY <1>1, <1>3
  <2> QED  BY <2>1, <2>2, <2>3, SMTT(30)
<1> HIDE DEF H
<1>4. SUBSET S \subseteq H
  BY <1>2, <1>3, SubsetInduction
<1> QED  BY <1>4 DEF H, g

\* Any element may be taken out first.
LEMMA SumsRemove ==
    ASSUME NEW S, IsFiniteSet(S), NEW f \in [S -> Nat]
    PROVE  \A s \in SUBSET S : \A x \in s : Sums(f, S)[s] = f[x] + Sums(f, S)[s \ {x}]
<1> DEFINE g == Sums(f, S)
           H == {s \in SUBSET S : \A x \in s : g[s] = f[x] + g[s \ {x}]}
<1>1. \A s \in SUBSET S : g[s] = IF s = {} THEN 0 ELSE f[pick(s)] + g[s \ {pick(s)}]
  BY SumsAre
<1>0. \A s \in SUBSET S : g[s] \in Nat
  BY SumsNat
<1> HIDE DEF g
<1>2. {} \in H
  OBVIOUS
<1>3. ASSUME NEW s \in SUBSET S, s # {}, \A t \in SUBSET S : Cardinality(t) < Cardinality(s) => t \in H
      PROVE  s \in H
  <2> DEFINE p == pick(s)
  <2>1. /\ p \in s /\ p \in S /\ s \ {p} \in SUBSET S /\ Cardinality(s \ {p}) < Cardinality(s)
        /\ g[s] = f[p] + g[s \ {p}]
    <3>1. /\ p \in s /\ s \ {p} \in SUBSET S
          /\ Cardinality(s) \in Nat /\ Cardinality(s \ {p}) = Cardinality(s) - 1
      BY <1>3, PickFacts
    <3>2. g[s] = f[p] + g[s \ {p}]
      BY <1>1, <1>3
    <3> HIDE DEF p
    <3> QED  BY <3>1, <3>2
  <2>2. SUFFICES ASSUME NEW x \in s PROVE g[s] = f[x] + g[s \ {x}]
    OBVIOUS
  <2>3. CASE x = p
    BY <2>1, <2>3
  <2>4. CASE x # p
    <3> HIDE DEF p
    <3>1. s \ {x} \in SUBSET S /\ Cardinality(s \ {x}) < Cardinality(s)
      <4>1. IsFiniteSet(s)
        BY FS_Subset
      <4>2. Cardinality(s) \in Nat
        BY <4>1, FS_CardinalityType
      <4>3. Cardinality(s \ {x}) = Cardinality(s) - 1
        BY <4>1, FS_RemoveElement
      <4> QED  BY <4>2, <4>3
    <3> DEFINE u == (s \ {p}) \ {x}
    <3>2. u = (s \ {x}) \ {p} /\ u \in SUBSET S /\ x \in s \ {p} /\ p \in s \ {x}
      BY <2>1, <2>4
    <3>3. g[s \ {p}] = f[x] + g[u]
      BY <1>3, <2>1, <3>2
    <3>4. g[s \ {x}] = f[p] + g[u]
      BY <1>3, <3>1, <3>2, SMTT(30)
    <3>5. f[p] \in Nat /\ f[x] \in Nat /\ g[u] \in Nat
      BY <1>0, <2>1, <3>2
    <3> HIDE DEF u
    <3> QED  BY <2>1, <3>3, <3>4, <3>5, SMTT(30)
  <2> QED  BY <2>3, <2>4
<1> HIDE DEF H
<1>4. SUBSET S \subseteq H
  BY <1>2, <1>3, SubsetInduction
<1> QED  BY <1>4 DEF H, g

\* A sum grows with its terms.
LEMMA SumsMonotone ==
    ASSUME NEW S, IsFiniteSet(S), NEW f \in [S -> Nat], NEW h \in [S -> Nat]
    PROVE  \A s \in SUBSET S : (\A x \in s : f[x] <= h[x]) => Sums(f, S)[s] <= Sums(h, S)[s]
<1> DEFINE g == Sums(f, S)
           k == Sums(h, S)
           H == {s \in SUBSET S : (\A x \in s : f[x] <= h[x]) => g[s] <= k[s]}
<1>1. \A s \in SUBSET S : g[s] = IF s = {} THEN 0 ELSE f[pick(s)] + g[s \ {pick(s)}]
  BY SumsAre
<1>2. \A s \in SUBSET S : k[s] = IF s = {} THEN 0 ELSE h[pick(s)] + k[s \ {pick(s)}]
  BY SumsAre
<1>3. \A s \in SUBSET S : g[s] \in Nat /\ k[s] \in Nat
  BY SumsNat
<1> HIDE DEF g, k
<1>4. {} \in H
  <2>1. {} \in SUBSET S
    OBVIOUS
  <2>2. g[{}] = 0 /\ k[{}] = 0
    BY <1>1, <1>2, <2>1
  <2> QED  BY <2>1, <2>2
<1>5. ASSUME NEW s \in SUBSET S, s # {}, \A t \in SUBSET S : Cardinality(t) < Cardinality(s) => t \in H
      PROVE  s \in H
  <2> DEFINE p == pick(s)
             t == s \ {p}
  <2>1. p \in s /\ p \in S /\ t \in SUBSET S /\ Cardinality(t) < Cardinality(s)
    <3>1. /\ p \in s /\ t \in SUBSET S
          /\ Cardinality(s) \in Nat /\ Cardinality(t) = Cardinality(s) - 1
      BY <1>5, PickFacts
    <3> QED  BY <3>1
  <2>2. SUFFICES ASSUME \A x \in s : f[x] <= h[x] PROVE g[s] <= k[s]
    OBVIOUS
  <2>3. g[s] = f[p] + g[t] /\ k[s] = h[p] + k[t]
    BY <1>1, <1>2, <1>5
  <2>4. t \in H
    BY <1>5, <2>1
  <2>5. f[p] <= h[p] /\ \A x \in t : f[x] <= h[x]
    BY <2>1, <2>2
  <2>6. g[t] <= k[t]
    BY <2>4, <2>5
  <2>7. f[p] \in Nat /\ h[p] \in Nat /\ g[t] \in Nat /\ k[t] \in Nat
    BY <1>3, <2>1
  <2> HIDE DEF p, t
  <2> QED  BY <2>3, <2>5, <2>6, <2>7
<1> HIDE DEF H
<1>6. SUBSET S \subseteq H
  BY <1>4, <1>5, SubsetInduction
<1> QED  BY <1>6 DEF H, g, k

\* A sum changes by what one of its terms does.
LEMMA SumsUpdate ==
    ASSUME NEW S, IsFiniteSet(S), NEW f \in [S -> Nat], NEW h \in [S -> Nat], NEW x \in S,
           \A y \in S \ {x} : h[y] = f[y]
    PROVE  Sums(h, S)[S] + f[x] = Sums(f, S)[S] + h[x]
<1> DEFINE g == Sums(f, S)
           k == Sums(h, S)
           r == S \ {x}
<1>1. S \in SUBSET S /\ r \in SUBSET S
  OBVIOUS
<1>2. g[S] = f[x] + g[r] /\ k[S] = h[x] + k[r]
  BY <1>1, SumsRemove, SMTT(30)
<1>3. g[r] \in Nat /\ k[r] \in Nat
  BY <1>1, SumsNat
<1>4. \A y \in r : f[y] <= h[y] /\ h[y] <= f[y]
  OBVIOUS
<1>5. g[r] <= k[r] /\ k[r] <= g[r]
  BY <1>1, <1>4, SumsMonotone
<1>6. f[x] \in Nat /\ h[x] \in Nat
  OBVIOUS
<1> HIDE DEF g, k, r
<1>7. k[S] + f[x] = g[S] + h[x]
  BY <1>2, <1>3, <1>5, <1>6, SMTT(30)
<1> QED  BY <1>7 DEF g, k

\* The sum over the whole set is a natural number.
LEMMA SumType ==
    ASSUME NEW S, IsFiniteSet(S), NEW f \in [S -> Nat]
    PROVE  Sums(f, S)[S] \in Nat
<1>1. S \in SUBSET S
  OBVIOUS
<1> QED  BY <1>1, SumsNat

\* Larger summands have a larger sum.
LEMMA SumsGrow ==
    ASSUME NEW S, IsFiniteSet(S), NEW f \in [S -> Nat], NEW h \in [S -> Nat], \A x \in S : f[x] <= h[x]
    PROVE  Sums(f, S)[S] <= Sums(h, S)[S] /\ Sums(f, S)[S] \in Nat /\ Sums(h, S)[S] \in Nat
<1>1. S \in SUBSET S
  OBVIOUS
<1> QED  BY <1>1, SumsMonotone, SumsNat

\* The sum the snapshot publishes.
LEMMA PublishedSum ==
    ASSUME NEW f, NEW S
    PROVE  MapThenSumSet(LAMBDA x : f[x], S) = Sums(f, S)[S]
  BY Zenon DEF Sums, SumsOver, pick, MapThenSumSet, MapThenFoldSet

-----------------------------------------------------------------------------
(* The inductive invariant. *)

\* A report on its way to the scheduler.
Report == [issue : Issue, thread : Thread, total : Nat]

\* A thread works for one issue, and nothing is reported or remembered beyond
\* what it has used.
Reports ==
    /\ running \in [Issue -> SUBSET Thread]
    /\ worker \in [Thread -> SUBSET Issue] /\ owner \in [Thread -> SUBSET Issue]
    /\ used \in [Thread -> Nat]
    /\ activity \in Seq(Report)
    /\ lastSeen \in [Issue -> [Thread -> Nat]]
    /\ totals \in [Issue -> Nat] /\ codexTotals \in Nat
    /\ rolledUp \subseteq Thread /\ irregular \in BOOLEAN
    /\ \A t \in Thread : worker[t] \subseteq owner[t]
    /\ \A t \in Thread : \A i, j \in owner[t] : i = j
    /\ \A k \in 1 .. Len(activity) :
           /\ activity[k].issue \in owner[activity[k].thread]
           /\ activity[k].total <= used[activity[k].thread]
    /\ \A i \in Issue, t \in Thread : lastSeen[i][t] <= used[t]

\* What the totals may hold of a thread: what its issue has seen of it, and once
\* that is rolled up all it has used.
Counted ==
    [t \in Thread |-> IF t \in rolledUp THEN used[t]
                      ELSE IF owner[t] = {} THEN 0
                      ELSE lastSeen[pick(owner[t])][t]]

\* The totals hold no more than what may be counted of each thread.
TotalsCounted == Sums(totals, Issue)[Issue] + codexTotals <= Sums(Counted, Thread)[Thread]

\* The inductive invariant.
TokenInv == Reports /\ (~irregular => TotalsCounted)

\* The issue of a thread is the only one there is.
LEMMA PickOwner ==
    ASSUME Reports, NEW t \in Thread, NEW i \in owner[t]
    PROVE  pick(owner[t]) = i /\ i \in Issue
<1>1. pick(owner[t]) \in owner[t]
  BY Zenon DEF pick
<1> QED  BY <1>1 DEF Reports

\* What may be counted of a thread is no more than what it has used.
LEMMA CountedType == Reports => Counted \in [Thread -> Nat] /\ \A t \in Thread : Counted[t] <= used[t]
<1> SUFFICES ASSUME Reports PROVE Counted \in [Thread -> Nat] /\ \A t \in Thread : Counted[t] <= used[t]
  OBVIOUS
<1>1. ASSUME NEW t \in Thread
      PROVE  Counted[t] \in Nat /\ Counted[t] <= used[t]
  <2>1. used[t] \in Nat
    BY DEF Reports
  <2>2. CASE t \in rolledUp \/ owner[t] = {}
    BY <2>1, <2>2 DEF Counted
  <2>3. CASE ~(t \in rolledUp \/ owner[t] = {})
    <3>1. PICK i \in owner[t] : TRUE
      BY <2>3
    <3>2. Counted[t] = lastSeen[i][t] /\ i \in Issue
      BY <2>3, <3>1, PickOwner DEF Counted
    <3> QED  BY <3>2, SMTT(30) DEF Reports
  <2> QED  BY <2>2, <2>3
<1>2. Counted = [t \in Thread |-> Counted[t]]
  BY DEF Counted
<1> QED  BY <1>1, <1>2

\* The same after a step.
LEMMA CountedTypeNext == (Reports => Counted \in [Thread -> Nat])'
<1>1. Reports => Counted \in [Thread -> Nat]
  BY CountedType
<1> QED  BY <1>1, PTL

\* Steps that leave the totals alone.
LEMMA TotalsKept ==
    ASSUME TokenInv, Reports', UNCHANGED <<totals, codexTotals, irregular>>,
           \A t \in Thread : Counted[t] <= Counted'[t]
    PROVE  TokenInv'
<1>1. Counted \in [Thread -> Nat] /\ Counted' \in [Thread -> Nat]
  BY CountedType, CountedTypeNext DEF TokenInv
<1>2. /\ Sums(Counted, Thread)[Thread] <= Sums(Counted', Thread)[Thread]
      /\ Sums(Counted, Thread)[Thread] \in Nat /\ Sums(Counted', Thread)[Thread] \in Nat
  BY <1>1, SumsGrow, TokenAssumption
<1>3. Sums(totals, Issue)[Issue] \in Nat /\ codexTotals \in Nat
  BY SumType, TokenAssumption DEF TokenInv, Reports
<1>4. TotalsCounted => TotalsCounted'
  BY <1>2, <1>3 DEF TotalsCounted
<1> QED  BY <1>4 DEF TokenInv

-----------------------------------------------------------------------------
(* Steps *)

\* Nothing is used, reported or counted at first.
LEMMA InitToken == TokenInit => TokenInv
<1> SUFFICES ASSUME TokenInit PROVE TokenInv
  OBVIOUS
<1>1. Reports
  <2>1. activity = <<>> /\ activity \in Seq(Report) /\ Len(activity) = 0
    BY DEF TokenInit
  <2>2. /\ running \in [Issue -> SUBSET Thread]
        /\ worker \in [Thread -> SUBSET Issue] /\ owner \in [Thread -> SUBSET Issue]
        /\ used \in [Thread -> Nat] /\ totals \in [Issue -> Nat] /\ codexTotals \in Nat
        /\ rolledUp \subseteq Thread /\ irregular \in BOOLEAN
        /\ \A t \in Thread : worker[t] = {} /\ owner[t] = {} /\ used[t] = 0
    BY DEF TokenInit
  <2>3. lastSeen \in [Issue -> [Thread -> Nat]] /\ \A i \in Issue, t \in Thread : lastSeen[i][t] = 0
    BY DEF TokenInit
  <2> QED  BY <2>1, <2>2, <2>3, SMTT(30) DEF Reports
<1>2. Sums(totals, Issue)[Issue] = 0
  <2>1. \A s \in SUBSET Issue : Sums(totals, Issue)[s] =
            IF s = {} THEN 0 ELSE totals[pick(s)] + Sums(totals, Issue)[s \ {pick(s)}]
    BY SumsAre, TokenAssumption
  <2> DEFINE g == Sums(totals, Issue)
             H == {s \in SUBSET Issue : g[s] = 0}
  <2>2. \A s \in SUBSET Issue : g[s] = IF s = {} THEN 0 ELSE totals[pick(s)] + g[s \ {pick(s)}]
    BY <2>1
  <2> HIDE DEF g
  <2>3. {} \in H
    <3>1. {} \in SUBSET Issue
      OBVIOUS
    <3> QED  BY <2>2, <3>1
  <2>4. ASSUME NEW s \in SUBSET Issue, s # {},
               \A t \in SUBSET Issue : Cardinality(t) < Cardinality(s) => t \in H
        PROVE  s \in H
    <3> DEFINE q == pick(s)
               t == s \ {q}
    <3>1. /\ q \in s /\ t \in SUBSET Issue
          /\ Cardinality(s) \in Nat /\ Cardinality(t) = Cardinality(s) - 1
      BY <2>4, PickFacts, TokenAssumption
    <3>2. g[s] = totals[q] + g[t]
      BY <2>2, <2>4
    <3> HIDE DEF q
    <3>3. g[t] = 0
      BY <2>4, <3>1, SMTT(30)
    <3>4. totals[q] = 0
      BY <3>1 DEF TokenInit
    <3> HIDE DEF t
    <3> QED  BY <3>2, <3>3, <3>4
  <2> HIDE DEF H
  <2>5. SUBSET Issue \subseteq H
    BY <2>3, <2>4, SubsetInduction, TokenAssumption
  <2>6. Issue \in H
    BY <2>5
  <2> QED  BY <2>6 DEF H, g
<1>3. Sums(Counted, Thread)[Thread] \in Nat
  BY <1>1, CountedType, SumType, TokenAssumption
<1>4. codexTotals = 0
  BY DEF TokenInit
<1> QED  BY <1>1, <1>2, <1>3, <1>4 DEF TokenInv, TotalsCounted

\* A dispatch starts a thread that worked for nobody before (Dispatch).
LEMMA DispatchToken ==
    ASSUME TokenInv, NEW i \in Issue, Dispatch(i)
    PROVE  TokenInv'
<1>1. PICK t \in Thread :
          /\ owner[t] = {} /\ owner' = [owner EXCEPT ![t] = {i}]
          /\ running' = [running EXCEPT ![i] = {t}]
          /\ worker' = [worker EXCEPT ![t] = {i}]
  BY DEF Dispatch
<1>2. UNCHANGED <<used, activity, lastSeen, totals, codexTotals, rolledUp, irregular>>
  BY DEF Dispatch
<1>3. Reports'
  <2>1. /\ running' \in [Issue -> SUBSET Thread] /\ worker' \in [Thread -> SUBSET Issue]
        /\ owner' \in [Thread -> SUBSET Issue]
    BY <1>1, SMTT(30) DEF TokenInv, Reports
  <2>2. ASSUME NEW u \in Thread
        PROVE  /\ worker'[u] \subseteq owner'[u] /\ owner[u] \subseteq owner'[u]
               /\ \A j, k \in owner'[u] : j = k
    BY <1>1, SMTT(30) DEF TokenInv, Reports
  <2>3. ASSUME NEW k \in 1 .. Len(activity)
        PROVE  activity[k].issue \in owner'[activity[k].thread]
    <3>1. activity[k] \in Report
      BY SMTT(30) DEF TokenInv, Reports
    <3>2. activity[k].thread \in Thread
      BY <3>1 DEF Report
    <3> QED  BY <2>2, <3>2 DEF TokenInv, Reports
  <2> QED  BY <1>2, <2>1, <2>2, <2>3 DEF TokenInv, Reports
<1>4. ASSUME NEW u \in Thread PROVE Counted[u] <= Counted'[u]
  <2>1. Counted[u] \in Nat
    BY CountedType DEF TokenInv
  <2>2. CASE u = t
    <3>1. Counted[u] = IF u \in rolledUp THEN used[u] ELSE 0
      BY <1>1, <2>2 DEF Counted
    <3>2. pick({i}) = i
      BY Zenon DEF pick
    <3>3. Counted'[u] = IF u \in rolledUp THEN used[u] ELSE lastSeen[i][u]
      BY <1>1, <1>2, <2>2, <3>2, SMTT(30) DEF Counted, TokenInv, Reports
    <3> QED  BY <3>1, <3>3, SMTT(30) DEF TokenInv, Reports
  <2>3. CASE u # t
    <3>1. owner'[u] = owner[u]
      BY <1>1, <2>3 DEF TokenInv, Reports
    <3>2. Counted'[u] = Counted[u]
      BY <1>2, <3>1 DEF Counted
    <3> QED  BY <2>1, <3>2
  <2> QED  BY <2>2, <2>3
<1> QED  BY <1>2, <1>3, <1>4, TotalsKept

\* A thread that uses tokens reports no more than it has used, if there is room (Use).
LEMMA UseToken ==
    ASSUME TokenInv, NEW t \in Thread, Use(t)
    PROVE  TokenInv'
<1>1. PICK i \in worker[t] : \E n \in 0 .. used[t] + 1 : report(i, t, n)
  BY DEF Use
<1>2. PICK n \in 0 .. used[t] + 1 : report(i, t, n)
  BY <1>1
<1>3. /\ used' = [used EXCEPT ![t] = used[t] + 1]
      /\ UNCHANGED <<running, worker, owner, lastSeen, totals, codexTotals, rolledUp, irregular>>
  BY DEF Use
<1>4. i \in owner[t] /\ i \in Issue /\ used[t] \in Nat /\ n \in Nat
  BY <1>1, SMTT(30) DEF TokenInv, Reports
<1>5. used' \in [Thread -> Nat] /\ used'[t] = used[t] + 1 /\ \A u \in Thread : used[u] <= used'[u]
  BY <1>3, <1>4, SMTT(30) DEF TokenInv, Reports
<1>6. activity' \in Seq(Report)
  <2>1. [issue |-> i, thread |-> t, total |-> n] \in Report
    BY <1>4 DEF Report
  <2>2. activity \in Seq(Report)
    BY DEF TokenInv, Reports
  <2> QED  BY <1>2, <2>1, <2>2 DEF report
<1>7. \A k \in 1 .. Len(activity') : 
          \/ k \in 1 .. Len(activity) /\ activity'[k] = activity[k]
          \/ activity'[k] = [issue |-> i, thread |-> t, total |-> n]
  BY <1>2, <1>4, SMTT(30) DEF report, TokenInv, Reports
<1>8. ASSUME NEW k \in 1 .. Len(activity')
      PROVE  /\ activity'[k].issue \in owner'[activity'[k].thread]
             /\ activity'[k].total <= used'[activity'[k].thread]
  <2>1. CASE k \in 1 .. Len(activity) /\ activity'[k] = activity[k]
    <3>1. activity[k] \in Report
      BY <2>1, SMTT(30) DEF TokenInv, Reports
    <3>2. activity[k].thread \in Thread /\ activity[k].total \in Nat
      BY <3>1 DEF Report
    <3>3. activity[k].issue \in owner[activity[k].thread] /\ activity[k].total <= used[activity[k].thread]
      BY <2>1 DEF TokenInv, Reports
    <3>4. used[activity[k].thread] <= used'[activity[k].thread] /\ used[activity[k].thread] \in Nat
          /\ used'[activity[k].thread] \in Nat
      BY <1>5, <3>2 DEF TokenInv, Reports
    <3> QED  BY <1>3, <2>1, <3>2, <3>3, <3>4
  <2>2. CASE activity'[k] = [issue |-> i, thread |-> t, total |-> n]
    BY <1>3, <1>4, <1>5, <2>2, SMTT(30)
  <2> QED  BY <1>7, <2>1, <2>2
<1>9. ASSUME NEW j \in Issue, NEW u \in Thread PROVE lastSeen'[j][u] <= used'[u]
  BY <1>3, <1>5, SMTT(30) DEF TokenInv, Reports
<1>10. Reports'
  BY <1>3, <1>5, <1>6, <1>8, <1>9 DEF TokenInv, Reports
<1>11. ASSUME NEW u \in Thread PROVE Counted[u] <= Counted'[u]
  <2>1. Counted[u] \in Nat
    BY CountedType DEF TokenInv
  <2>2. CASE u \in rolledUp
    BY <1>3, <1>5, <2>2 DEF Counted
  <2>3. CASE u \notin rolledUp
    <3>1. Counted'[u] = Counted[u]
      BY <1>3, <2>3 DEF Counted
    <3> QED  BY <2>1, <3>1
  <2> QED  BY <2>2, <2>3
<1> QED  BY <1>3, <1>10, <1>11, TotalsKept

\* Steps that only take workers away.
LEMMA WorkersLeave ==
    ASSUME TokenInv, running' \in [Issue -> SUBSET Thread],
           worker' \in [Thread -> SUBSET Issue], \A t \in Thread : worker'[t] \subseteq worker[t],
           UNCHANGED <<owner, used, activity, lastSeen, totals, codexTotals, rolledUp, irregular>>
    PROVE  TokenInv'
<1>1. Reports'
  BY DEF TokenInv, Reports
<1>2. Counted' = Counted
  BY DEF Counted
<1>3. \A t \in Thread : Counted[t] \in Nat
  BY CountedType DEF TokenInv
<1> QED  BY <1>1, <1>2, <1>3, TotalsKept

\* Workers that end leave what was counted alone.
LEMMA GoneWorkers ==
    ASSUME TokenInv, NEW T, gone(T) \/ UNCHANGED worker
    PROVE  worker' \in [Thread -> SUBSET Issue] /\ \A t \in Thread : worker'[t] \subseteq worker[t]
  BY DEF gone, TokenInv, Reports

\* What is released moves from the issue's total to the rolled-up one.
LEMMA ReleaseSum ==
    ASSUME TokenInv, NEW i \in Issue, Release(i)
    PROVE  /\ totals' \in [Issue -> Nat] /\ codexTotals' \in Nat
           /\ Sums(totals', Issue)[Issue] + codexTotals' = Sums(totals, Issue)[Issue] + codexTotals
<1>1. totals \in [Issue -> Nat] /\ codexTotals \in Nat
  BY DEF TokenInv, Reports
<1>2. totals' = [totals EXCEPT ![i] = 0] /\ codexTotals' = codexTotals + totals[i]
  BY DEF Release, rollUp
<1>3. totals' \in [Issue -> Nat] /\ totals'[i] = 0 /\ \A j \in Issue \ {i} : totals'[j] = totals[j]
  BY <1>1, <1>2
<1>4. Sums(totals', Issue)[Issue] + totals[i] = Sums(totals, Issue)[Issue] + totals'[i]
  BY <1>1, <1>3, SumsUpdate, TokenAssumption, SMTT(30)
<1>5. Sums(totals', Issue)[Issue] \in Nat /\ Sums(totals, Issue)[Issue] \in Nat /\ totals[i] \in Nat
  BY <1>1, <1>3, SumType, TokenAssumption
<1> QED  BY <1>1, <1>2, <1>3, <1>4, <1>5, SMTT(30)

\* A release moves the issue's total to the total of the released ones (Release and rollUp).
LEMMA ReleaseToken ==
    ASSUME TokenInv, NEW i \in Issue, Release(i)
    PROVE  TokenInv'
<1>1. /\ lastSeen' = [lastSeen EXCEPT ![i] = [t \in Thread |-> 0]]
      /\ running' = [running EXCEPT ![i] = {}]
      /\ rolledUp' = rolledUp \cup {t \in Thread : i \in owner[t]}
      /\ UNCHANGED <<owner, used, activity, irregular>>
  BY DEF Release
<1>2. worker' \in [Thread -> SUBSET Issue] /\ \A t \in Thread : worker'[t] \subseteq worker[t]
  BY GoneWorkers DEF Release
<1>3. totals' \in [Issue -> Nat] /\ codexTotals' \in Nat
  BY ReleaseSum
<1>4. /\ lastSeen' \in [Issue -> [Thread -> Nat]]
      /\ \A j \in Issue, t \in Thread : lastSeen'[j][t] = IF j = i THEN 0 ELSE lastSeen[j][t]
  BY <1>1, SMTT(30) DEF TokenInv, Reports
<1>5. running' \in [Issue -> SUBSET Thread] /\ rolledUp' \subseteq Thread
  BY <1>1 DEF TokenInv, Reports
<1>6. Reports'
  BY <1>1, <1>2, <1>3, <1>4, <1>5, SMTT(30) DEF TokenInv, Reports
<1>7. ASSUME NEW t \in Thread PROVE Counted[t] <= Counted'[t]
  <2>1. Counted[t] \in Nat /\ Counted[t] <= used[t] /\ used[t] \in Nat
    BY CountedType DEF TokenInv, Reports
  <2>2. CASE t \in rolledUp'
    <3>1. Counted'[t] = used[t]
      BY <1>1, <2>2 DEF Counted
    <3> QED  BY <2>1, <3>1
  <2>3. CASE t \notin rolledUp' /\ owner[t] = {}
    <3>1. Counted'[t] = 0 /\ Counted[t] = 0
      BY <1>1, <2>3 DEF Counted
    <3> QED  BY <3>1
  <2>4. CASE t \notin rolledUp' /\ owner[t] # {}
    <3>1. PICK j \in owner[t] : TRUE
      BY <2>4
    <3>2. pick(owner[t]) = j /\ j \in Issue /\ j # i /\ t \notin rolledUp
      BY <1>1, <2>4, <3>1, PickOwner DEF TokenInv
    <3>3. Counted'[t] = lastSeen'[j][t] /\ Counted[t] = lastSeen[j][t]
      BY <1>1, <2>4, <3>2 DEF Counted
    <3> QED  BY <1>4, <2>1, <3>2, <3>3, SMTT(30)
  <2> QED  BY <2>2, <2>3, <2>4
<1>8. Counted \in [Thread -> Nat] /\ Counted' \in [Thread -> Nat]
  BY <1>6, CountedType, CountedTypeNext DEF TokenInv
<1>9. /\ Sums(Counted, Thread)[Thread] <= Sums(Counted', Thread)[Thread]
      /\ Sums(Counted, Thread)[Thread] \in Nat /\ Sums(Counted', Thread)[Thread] \in Nat
  BY <1>7, <1>8, SumsGrow, TokenAssumption
<1>10. /\ Sums(totals', Issue)[Issue] + codexTotals' = Sums(totals, Issue)[Issue] + codexTotals
       /\ Sums(totals, Issue)[Issue] \in Nat /\ codexTotals \in Nat
  BY ReleaseSum, SumType, TokenAssumption DEF TokenInv, Reports
<1>11. TotalsCounted => TotalsCounted'
  BY <1>9, <1>10 DEF TotalsCounted
<1> QED  BY <1>1, <1>6, <1>11 DEF TokenInv

\* A report taken from the channel.
LEMMA HeadReport ==
    ASSUME TokenInv, activity # <<>>
    PROVE  /\ Head(activity) \in Report
           /\ Head(activity).issue \in Issue /\ Head(activity).thread \in Thread
           /\ Head(activity).total \in Nat
           /\ Head(activity).issue \in owner[Head(activity).thread]
           /\ Head(activity).total <= used[Head(activity).thread]
           /\ Tail(activity) \in Seq(Report)
           /\ \A k \in 1 .. Len(Tail(activity)) :
                  k + 1 \in 1 .. Len(activity) /\ Tail(activity)[k] = activity[k + 1]
<1>1. activity \in Seq(Report) /\ 1 \in 1 .. Len(activity) /\ Head(activity) = activity[1]
  BY SMTT(30) DEF TokenInv, Reports
<1>2. Head(activity) \in Report
  BY <1>1
<1>3. /\ Head(activity).issue \in Issue /\ Head(activity).thread \in Thread
      /\ Head(activity).total \in Nat
  BY <1>2 DEF Report
<1>4. /\ Head(activity).issue \in owner[Head(activity).thread]
      /\ Head(activity).total <= used[Head(activity).thread]
  BY <1>1 DEF TokenInv, Reports
<1>5. /\ Tail(activity) \in Seq(Report)
      /\ \A k \in 1 .. Len(Tail(activity)) :
             k + 1 \in 1 .. Len(activity) /\ Tail(activity)[k] = activity[k + 1]
  BY <1>1
<1> QED  BY <1>2, <1>3, <1>4, <1>5

\* A report that is applied is no more than what its thread has used (CodexActivity).
LEMMA CodexActivityReports ==
    ASSUME TokenInv, CodexActivity
    PROVE  Reports'
<1> DEFINE a == Head(activity)
<1>1. /\ activity # <<>> /\ activity' = Tail(activity)
      /\ UNCHANGED <<running, worker, owner, used, codexTotals, rolledUp>>
  BY DEF CodexActivity
<1>2. \/ Observe(a.issue, a.thread, a.total) /\ irregular' \in BOOLEAN
      \/ UNCHANGED <<lastSeen, totals, irregular>>
  BY DEF CodexActivity
<1>3. a.issue \in Issue /\ a.thread \in Thread /\ a.total \in Nat /\ a.total <= used[a.thread]
  BY <1>1, HeadReport
<1>4. /\ lastSeen' \in [Issue -> [Thread -> Nat]]
      /\ \A i \in Issue, t \in Thread : lastSeen'[i][t] <= used[t]
      /\ totals' \in [Issue -> Nat] /\ irregular' \in BOOLEAN
  <2> HIDE DEF a
  <2>1. CASE UNCHANGED <<lastSeen, totals, irregular>>
    BY <2>1 DEF TokenInv, Reports
  <2>2. CASE Observe(a.issue, a.thread, a.total) /\ irregular' \in BOOLEAN
    <3>1. lastSeen[a.issue][a.thread] \in Nat
      BY <1>3, SMTT(30) DEF TokenInv, Reports
    <3>2. clampPos(a.total, lastSeen[a.issue][a.thread]) \in Nat
      BY <1>3, <3>1 DEF clampPos
    <3>3. totals' \in [Issue -> Nat]
      BY <1>3, <2>2, <3>2, SMTT(30) DEF Observe, TokenInv, Reports
    <3>4. lastSeen' = [lastSeen EXCEPT ![a.issue] = [lastSeen[a.issue] EXCEPT ![a.thread] = a.total]]
      BY <1>3, <2>2 DEF Observe, TokenInv, Reports
    <3>5. lastSeen' \in [Issue -> [Thread -> Nat]]
      BY <1>3, <3>4 DEF TokenInv, Reports
    <3>6. \A i \in Issue, t \in Thread : lastSeen'[i][t] \in {lastSeen[i][t], a.total}
               /\ (t # a.thread => lastSeen'[i][t] = lastSeen[i][t])
      BY <1>3, <3>4, SMTT(30) DEF TokenInv, Reports
    <3>7. ASSUME NEW i \in Issue, NEW t \in Thread PROVE lastSeen'[i][t] <= used[t]
      <4>1. lastSeen[i][t] <= used[t]
        BY DEF TokenInv, Reports
      <4>2. CASE t = a.thread
        BY <1>3, <3>6, <4>1, <4>2
      <4>3. CASE t # a.thread
        BY <3>6, <4>1, <4>3
      <4> QED  BY <4>2, <4>3
    <3> QED  BY <2>2, <3>3, <3>5, <3>7
  <2> QED  BY <1>2, <2>1, <2>2
<1>5. activity' \in Seq(Report)
  BY <1>1, HeadReport
<1>6. ASSUME NEW k \in 1 .. Len(activity')
      PROVE  /\ activity'[k].issue \in owner[activity'[k].thread]
             /\ activity'[k].total <= used[activity'[k].thread]
  <2>1. k + 1 \in 1 .. Len(activity) /\ activity'[k] = activity[k + 1]
    BY <1>1, HeadReport
  <2> QED  BY <2>1 DEF TokenInv, Reports
<1> QED  BY <1>1, <1>4, <1>5, <1>6 DEF TokenInv, Reports

\* Observe adds to the totals what it adds to the report remembered of the
\* thread, if that does not decrease.
LEMMA ObserveSum ==
    ASSUME TokenInv, Reports', NEW i \in Issue, NEW t \in Thread, NEW n \in Nat, Observe(i, t, n)
    PROVE  /\ clampPos(n, lastSeen[i][t]) \in Nat
           /\ Sums(totals', Issue)[Issue] = Sums(totals, Issue)[Issue] + clampPos(n, lastSeen[i][t])
<1> DEFINE d == clampPos(n, lastSeen[i][t])
<1>1. totals \in [Issue -> Nat] /\ totals' \in [Issue -> Nat] /\ lastSeen[i][t] \in Nat
  BY SMTT(30) DEF TokenInv, Reports
<1>2. d \in Nat
  BY <1>1 DEF clampPos
<1> HIDE DEF d
<1>3. totals' = [totals EXCEPT ![i] = totals[i] + d]
  BY DEF Observe, d
<1>4. totals'[i] = totals[i] + d /\ \A j \in Issue \ {i} : totals'[j] = totals[j]
  BY <1>1, <1>3
<1>5. Sums(totals', Issue)[Issue] + totals[i] = Sums(totals, Issue)[Issue] + totals'[i]
  BY <1>1, <1>4, SumsUpdate, TokenAssumption, SMTT(30)
<1>6. Sums(totals', Issue)[Issue] \in Nat /\ Sums(totals, Issue)[Issue] \in Nat /\ totals[i] \in Nat
  BY <1>1, SumType, TokenAssumption
<1>7. Sums(totals', Issue)[Issue] = Sums(totals, Issue)[Issue] + d
  BY <1>2, <1>4, <1>5, <1>6
<1> QED  BY <1>2, <1>7 DEF d

\* A regular report is counted by what it adds to the last one (CodexActivity, Observe).
LEMMA CodexActivityToken ==
    ASSUME TokenInv, CodexActivity
    PROVE  TokenInv'
<1> DEFINE a == Head(activity)
           i == a.issue
           t == a.thread
           n == a.total
<1>1. Reports'
  BY CodexActivityReports
<1>2. activity # <<>> /\ UNCHANGED <<running, worker, owner, used, codexTotals, rolledUp>>
  BY DEF CodexActivity
<1>3. i \in Issue /\ t \in Thread /\ n \in Nat /\ i \in owner[t]
  BY <1>2, HeadReport
<1>4. Counted \in [Thread -> Nat] /\ Counted' \in [Thread -> Nat]
  BY <1>1, CountedType, CountedTypeNext DEF TokenInv
<1>5. CASE UNCHANGED <<lastSeen, totals, irregular>>
  <2>1. Counted' = Counted
    BY <1>2, <1>5 DEF Counted
  <2>2. \A u \in Thread : Counted[u] <= Counted'[u]
    BY <1>4, <2>1
  <2> QED  BY <1>1, <1>2, <1>5, <2>2, TotalsKept
<1>6. CASE /\ Observe(i, t, n)
           /\ irregular' = (irregular \/ t \in rolledUp \/ n < lastSeen[i][t])
  <2> HIDE DEF i, t, n, a
  <2>1. SUFFICES ASSUME ~irregular' PROVE TotalsCounted'
    BY <1>1 DEF TokenInv
  <2>2. ~irregular /\ t \notin rolledUp /\ ~(n < lastSeen[i][t])
    BY <1>6, <2>1
  <2>3. lastSeen[i][t] \in Nat /\ owner[t] # {} /\ pick(owner[t]) = i
    BY <1>3, PickOwner, SMTT(30) DEF TokenInv, Reports
  <2>4. lastSeen' = [lastSeen EXCEPT ![i] = [lastSeen[i] EXCEPT ![t] = n]]
    BY <1>3, <1>6 DEF Observe, TokenInv, Reports
  <2>5. /\ lastSeen'[i][t] = n
        /\ \A j \in Issue, u \in Thread : u # t => lastSeen'[j][u] = lastSeen[j][u]
    BY <1>3, <2>4, SMTT(30) DEF TokenInv, Reports
  <2>6. Counted[t] = lastSeen[i][t] /\ Counted'[t] = n
    BY <1>2, <1>3, <2>2, <2>3, <2>5 DEF Counted
  <2>7. ASSUME NEW u \in Thread \ {t} PROVE Counted'[u] = Counted[u]
    <3>1. CASE u \in rolledUp \/ owner[u] = {}
      BY <1>2, <3>1 DEF Counted
    <3>2. CASE ~(u \in rolledUp \/ owner[u] = {})
      <4>1. PICK j \in owner[u] : TRUE
        BY <3>2
      <4>2. pick(owner[u]) = j /\ j \in Issue
        BY <4>1, PickOwner DEF TokenInv
      <4>3. Counted[u] = lastSeen[j][u] /\ Counted'[u] = lastSeen'[j][u]
        BY <1>2, <3>2, <4>2 DEF Counted
      <4> QED  BY <2>5, <4>2, <4>3
    <3> QED  BY <3>1, <3>2
  <2>8. Sums(Counted', Thread)[Thread] + Counted[t] = Sums(Counted, Thread)[Thread] + Counted'[t]
    BY <1>3, <1>4, <2>7, SumsUpdate, TokenAssumption, SMTT(30)
  <2>9. Sums(Counted', Thread)[Thread] \in Nat /\ Sums(Counted, Thread)[Thread] \in Nat
    BY <1>4, SumType, TokenAssumption
  <2>10. /\ clampPos(n, lastSeen[i][t]) \in Nat
         /\ Sums(totals', Issue)[Issue] = Sums(totals, Issue)[Issue] + clampPos(n, lastSeen[i][t])
    BY <1>1, <1>3, <1>6, ObserveSum
  <2>11. clampPos(n, lastSeen[i][t]) = n - lastSeen[i][t]
    BY <1>3, <2>2, <2>3 DEF clampPos
  <2>12. Sums(totals, Issue)[Issue] \in Nat /\ codexTotals \in Nat /\ codexTotals' = codexTotals
    BY <1>2, SumType, TokenAssumption DEF TokenInv, Reports
  <2>13. Sums(totals, Issue)[Issue] + codexTotals <= Sums(Counted, Thread)[Thread]
    BY <2>2 DEF TokenInv, TotalsCounted
  <2>14. Sums(totals', Issue)[Issue] + codexTotals' <= Sums(Counted', Thread)[Thread]
    BY <1>3, <2>3, <2>6, <2>8, <2>9, <2>10, <2>11, <2>12, <2>13
  <2> QED  BY <2>14 DEF TotalsCounted
<1> QED  BY <1>5, <1>6 DEF CodexActivity

\* No step breaks the invariant.
LEMMA NextToken == TokenInv /\ [TokenNext]_tokenVars => TokenInv'
<1> SUFFICES ASSUME TokenInv, [TokenNext]_tokenVars PROVE TokenInv'
  OBVIOUS
<1>1. ASSUME NEW i \in Issue, Exit(i) PROVE TokenInv'
  <2>1. running' \in [Issue -> SUBSET Thread]
    BY <1>1 DEF Exit, TokenInv, Reports
  <2>2. worker' \in [Thread -> SUBSET Issue] /\ \A t \in Thread : worker'[t] \subseteq worker[t]
    BY <1>1, GoneWorkers DEF Exit
  <2> QED  BY <1>1, <2>1, <2>2, WorkersLeave DEF Exit
<1>2. ASSUME NEW t \in Thread, ProcEnds(t) PROVE TokenInv'
  <2>1. running' \in [Issue -> SUBSET Thread]
    BY <1>2 DEF ProcEnds, TokenInv, Reports
  <2>2. worker' \in [Thread -> SUBSET Issue] /\ \A u \in Thread : worker'[u] \subseteq worker[u]
    BY <1>2, GoneWorkers DEF ProcEnds
  <2> QED  BY <1>2, <2>1, <2>2, WorkersLeave DEF ProcEnds
<1>3. CASE UNCHANGED tokenVars
  <2>1. running' \in [Issue -> SUBSET Thread]
    BY <1>3 DEF tokenVars, TokenInv, Reports
  <2>2. worker' \in [Thread -> SUBSET Issue] /\ \A u \in Thread : worker'[u] \subseteq worker[u]
    BY <1>3 DEF tokenVars, TokenInv, Reports
  <2> QED  BY <1>3, <2>1, <2>2, WorkersLeave DEF tokenVars
<1> QED  BY <1>1, <1>2, <1>3, DispatchToken, UseToken, ReleaseToken, CodexActivityToken DEF TokenNext

\* The totals are covered by what each thread has reported, along every behaviour of the
\* accounting: a report counts for its difference to the last one seen (Observe), and a
\* release moves a total and forgets what was seen (rollUp).
THEOREM TokenInvariant == TokenSpec => []TokenInv
  BY InitToken, NextToken, PTL DEF TokenSpec

\* While reports are regular, the published totals never exceed what the threads have
\* used, for any issues, threads and counts and whatever is released and dispatched again
\* in between (Observe, rollUp and the sum of CodexTotals).
THEOREM NoDoubleCountHolds == TokenSpec => []NoDoubleCount
<1>1. TokenInv => NoDoubleCount
  <2> SUFFICES ASSUME TokenInv, ~irregular
               PROVE  CodexTotals <= MapThenSumSet(LAMBDA t : used[t], Thread)
    BY DEF NoDoubleCount
  <2>1. CodexTotals = Sums(totals, Issue)[Issue] + codexTotals
    BY PublishedSum DEF CodexTotals
  <2>2. MapThenSumSet(LAMBDA t : used[t], Thread) = Sums(used, Thread)[Thread]
    BY PublishedSum
  <2>3. used \in [Thread -> Nat] /\ Counted \in [Thread -> Nat] /\ \A t \in Thread : Counted[t] <= used[t]
    BY CountedType DEF TokenInv, Reports
  <2>4. /\ Sums(Counted, Thread)[Thread] <= Sums(used, Thread)[Thread]
        /\ Sums(Counted, Thread)[Thread] \in Nat /\ Sums(used, Thread)[Thread] \in Nat
    BY <2>3, SumsGrow, TokenAssumption
  <2>5. Sums(totals, Issue)[Issue] \in Nat /\ codexTotals \in Nat
    BY SumType, TokenAssumption DEF TokenInv, Reports
  <2>6. Sums(totals, Issue)[Issue] + codexTotals <= Sums(Counted, Thread)[Thread]
    BY DEF TokenInv, TotalsCounted
  <2>7. Sums(totals, Issue)[Issue] + codexTotals <= Sums(used, Thread)[Thread]
    BY <2>4, <2>5, <2>6
  <2> QED  BY <2>1, <2>2, <2>7, Zenon
<1> QED  BY <1>1, TokenInvariant, PTL

\* The published total.
LEMMA PublishedNext == CodexTotals' = Sums(totals', Issue)[Issue] + codexTotals'
  BY Zenon DEF CodexTotals, Sums, SumsOver, pick, MapThenSumSet, MapThenFoldSet

\* A step adds to the published total, or moves a part of it (Release).
LEMMA NeverDecreases ==
    ASSUME TokenInv, [TokenNext]_tokenVars
    PROVE  CodexTotals' >= CodexTotals
<1> DEFINE S == Sums(totals, Issue)[Issue]
           T == Sums(totals', Issue)[Issue]
<1>1. CodexTotals = S + codexTotals /\ CodexTotals' = T + codexTotals'
  BY PublishedSum, PublishedNext DEF CodexTotals
<1>2. S \in Nat /\ codexTotals \in Nat
  BY SumType, TokenAssumption DEF TokenInv, Reports
<1>3. CASE UNCHANGED <<totals, codexTotals>>
  <2>1. T = S
    BY <1>3
  <2> HIDE DEF S, T
  <2> QED  BY <1>1, <1>2, <1>3, <2>1
<1>4. ASSUME NEW i \in Issue, Release(i) PROVE CodexTotals' >= CodexTotals
  <2>1. T + codexTotals' = S + codexTotals
    BY <1>4, ReleaseSum
  <2> HIDE DEF S, T
  <2> QED  BY <1>1, <1>2, <2>1
<1>5. CASE CodexActivity
  <2> DEFINE a == Head(activity)
  <2>1. CASE Observe(a.issue, a.thread, a.total)
    <3>1. Reports' /\ a.issue \in Issue /\ a.thread \in Thread /\ a.total \in Nat
      BY <1>5, CodexActivityReports, HeadReport DEF CodexActivity
    <3> HIDE DEF a
    <3>2. /\ clampPos(a.total, lastSeen[a.issue][a.thread]) \in Nat
          /\ T = S + clampPos(a.total, lastSeen[a.issue][a.thread])
      BY <2>1, <3>1, ObserveSum
    <3>3. codexTotals' = codexTotals
      BY <1>5 DEF CodexActivity
    <3> HIDE DEF S, T
    <3> QED  BY <1>1, <1>2, <3>2, <3>3
  <2>2. CASE UNCHANGED totals
    BY <1>3, <1>5, <2>2 DEF CodexActivity
  <2> QED  BY <1>5, <2>1, <2>2 DEF CodexActivity
<1> QED
  BY <1>3, <1>4, <1>5 DEF TokenNext, tokenVars, Dispatch, Exit, Use, ProcEnds

\* No step lowers the published totals: not a release, which moves the total of an issue
\* to the total of the released ones, and not a report that is lower than the last one,
\* of which clampPos counts nothing.
THEOREM TotalsNeverDecreaseHolds == TokenSpec => TotalsNeverDecrease
  BY TokenInvariant, NeverDecreases, PTL DEF TokenSpec, TotalsNeverDecrease
=============================================================================
