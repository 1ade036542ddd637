--------------------------- MODULE SessionsProofs ---------------------------
(* Proofs about Sessions, for every number of sessions and frames and every *)
(* value of the bounds: where the frames are, that live sessions are on     *)
(* disk, that Sessions implements SessionLedger, that a stopped session     *)
(* never returns, that frames that left their session hold nothing, and     *)
(* that requests that are not answered are tracked.                         *)
EXTENDS Sessions, FiniteSetTheorems, TLAPS

\* A leaf is tried with Zenon, then with SMT, then with SMT again and more time.
USE ZenonT(5), SMT, SMTT(30) DEF stopVars

(* Every frame in a session or in its file belongs to that session.         *)
FrameInv ==
    /\ frames \in [Session -> SUBSET Frame]
    /\ owner \in [Frame -> Session \cup {0}]
    /\ lastFrame \in Nat
    /\ \A s \in Session : disk[s].frames \subseteq Frame
    /\ \A s \in Session : \A f \in frames[s] \cup disk[s].frames : owner[f] = s
    /\ \A f \in Frame : f > lastFrame => owner[f] = 0

\* Save writes snapshots over what was there.
LEMMA SaveFrames ==
    ASSUME NEW base, NEW snaps, Save(base, snaps), NEW s \in Session
    PROVE  disk'[s] = base[s] \/ (s \in DOMAIN snaps /\ disk'[s] = snaps[s])
<1>1. CASE disk' = [t \in Session |-> IF t \in DOMAIN snaps THEN snaps[t] ELSE base[t]]
  BY <1>1
<1>2. ASSUME NEW W \in SUBSET DOMAIN snaps,
             disk' = [t \in Session |-> IF t \in W THEN snaps[t] ELSE base[t]]
      PROVE  disk'[s] = base[s] \/ (s \in DOMAIN snaps /\ disk'[s] = snaps[s])
  BY <1>2
<1> QED
  BY <1>1, <1>2 DEF Save

\* A file holds the frames it held, those of its session, or none.
LEMMA PersistFrames ==
    ASSUME NEW D, Persist(D), NEW s \in Session
    PROVE  disk'[s].frames \subseteq disk[s].frames \cup frames'[s]
<1> DEFINE base == [t \in Session |-> IF t \in D THEN NoRecord ELSE disk[t]]
           snaps == snapshotSessions'
<1>1. Save(base, snaps)
  BY DEF Persist
<1>2. base[s].frames \subseteq disk[s].frames
  BY DEF NoRecord
<1>3. s \in DOMAIN snaps => snaps[s].frames = frames'[s]
  BY DEF snapshotSessions
<1> HIDE DEF base, snaps
<1>4. disk'[s] = base[s] \/ (s \in DOMAIN snaps /\ disk'[s] = snaps[s])
  BY <1>1, SaveFrames
<1> QED
  BY <1>2, <1>3, <1>4

\* The final flush writes into a file only frames of the file or of the session.
LEMMA FlushFrames ==
    ASSUME Save(disk, snapshotSessions), NEW s \in Session
    PROVE  disk'[s].frames \subseteq disk[s].frames \cup frames[s]
<1>1. s \in DOMAIN snapshotSessions => snapshotSessions[s].frames = frames[s]
  BY DEF snapshotSessions
<1>2. \/ disk'[s] = disk[s]
      \/ s \in DOMAIN snapshotSessions /\ disk'[s] = snapshotSessions[s]
  BY SaveFrames
<1> QED
  BY <1>1, <1>2

\* The save at a cold start writes into a file only frames of the file or of the restored session.
LEMMA BootFrames ==
    ASSUME Save(disk, snapshotSessions'), NEW s \in Session
    PROVE  disk'[s].frames \subseteq disk[s].frames \cup frames'[s]
<1> DEFINE snaps == snapshotSessions'
<1>1. s \in DOMAIN snaps => snaps[s].frames = frames'[s]
  BY DEF snapshotSessions
<1>2. Save(disk, snaps)
  OBVIOUS
<1> HIDE DEF snaps
<1>3. disk'[s] = disk[s] \/ (s \in DOMAIN snaps /\ disk'[s] = snaps[s])
  BY <1>2, SaveFrames
<1> QED
  BY <1>1, <1>3

-----------------------------------------------------------------------------
\* A step that allocates no frame moves frames between a session and its file.
LEMMA MovesFrames ==
    ASSUME FrameInv, UNCHANGED <<owner, lastFrame>>,
           frames' \in [Session -> SUBSET Frame],
           \A s \in Session : frames'[s] \subseteq frames[s] \cup disk[s].frames,
           \A s \in Session :
             disk'[s].frames \subseteq disk[s].frames \cup frames[s] \cup frames'[s]
    PROVE  FrameInv'
<1>1. \A s \in Session : frames'[s] \cup disk'[s].frames \subseteq frames[s] \cup disk[s].frames
  OBVIOUS
<1>2. \A s \in Session : disk'[s].frames \subseteq Frame
  BY <1>1 DEF FrameInv
<1> QED
  BY <1>1, <1>2 DEF FrameInv

\* A new frame belongs to the session it was made for.
LEMMA AddsFrame ==
    ASSUME FrameInv, NEW s \in Session, NEW f \in Frame, f = lastFrame + 1,
           SpawnEffect(s, f), frames' \in [Session -> SUBSET Frame],
           \A t \in Session : frames'[t] \subseteq frames[t] \cup (IF t = s THEN {f} ELSE {}),
           Persist({})
    PROVE  FrameInv'
<1>1. lastFrame' = f /\ owner' = [owner EXCEPT ![f] = s]
  BY DEF SpawnEffect
<1>2. \A t \in Session : disk'[t].frames \subseteq disk[t].frames \cup frames'[t]
  BY PersistFrames
<1>3. owner[f] = 0 /\ 0 \notin Session
  BY SMTT(30) DEF FrameInv, Session, Frame
<1>4. \A t \in Session : f \notin frames[t] \cup disk[t].frames
  BY <1>3 DEF FrameInv
<1>5. owner' \in [Frame -> Session \cup {0}] /\ lastFrame' \in Nat
  BY <1>1, SMTT(30) DEF FrameInv
<1>6. \A t \in Session : disk'[t].frames \subseteq Frame
  BY <1>2 DEF FrameInv
<1>7. \A t \in Session : \A g \in frames'[t] \cup disk'[t].frames : owner'[g] = t
  <2> SUFFICES ASSUME NEW t \in Session, NEW g \in frames'[t] \cup disk'[t].frames
               PROVE  owner'[g] = t
    OBVIOUS
  <2>1. g \in Frame
    BY <1>6
  <2>2. CASE g = f
    <3>1. t = s
      BY <1>2, <1>4, <2>2
    <3> QED
      BY <1>1, <2>2, <3>1 DEF FrameInv
  <2>3. CASE g # f
    <3>1. g \in frames[t] \cup disk[t].frames
      BY <1>2, <2>3
    <3>2. owner[g] = t
      BY <3>1, Zenon DEF FrameInv
    <3> QED
      BY <1>1, <2>1, <2>3, <3>2, SMTT(30) DEF FrameInv
  <2> QED
    BY <2>2, <2>3
<1>8. \A g \in Frame : g > lastFrame' => owner'[g] = 0
  BY <1>1, SMTT(30) DEF FrameInv, Frame
<1> QED
  BY <1>5, <1>6, <1>7, <1>8 DEF FrameInv

\* Every way to evict a frame only takes frames away.
LEMMA EvictTakes ==
    ASSUME FrameInv, NEW f, NEW kill, NEW row, Placed(f), evictFrame(f, kill, row)
    PROVE  /\ frames' \in [Session -> SUBSET Frame]
           /\ \A s \in Session : frames'[s] \subseteq frames[s]
<1>1. owner[f] \in Session
  BY DEF Placed
<1>2. \/ frames' = [frames EXCEPT ![owner[f]] = {}]
      \/ frames' = [frames EXCEPT ![owner[f]] = frames[owner[f]] \ {f}]
  BY DEF evictFrame, evictRootFrame, evictChildFrame, endSession
<1> QED
  BY <1>1, <1>2, SMTT(30) DEF FrameInv

\* What HandleEvent may do to the sessions: nothing, a save or an eviction.
LEMMA EventEffect ==
    ASSUME HandleEvent
    PROVE  \/ UNCHANGED <<status, frames, disk, saveFailures>>
           \/ UNCHANGED <<status, frames>> /\ Persist({})
           \/ \E f : \E kill \in BOOLEAN : \E row \in {"absent", "ended"} :
                 Placed(f) /\ evictFrame(f, kill, row) /\ Persist({})
<1> DEFINE e == Head(events)
<1>1. \/ phase # "running" /\ UNCHANGED <<status, frames, disk, saveFailures>>
      \/ reduceSpawnFailed(e.frame)
      \/ reduceFrameVanished(e.frame)
      \/ reduceFrameCommandExited(e.frame, e.type)
  BY DEF HandleEvent, sessionVars
<1>2. CASE reduceSpawnFailed(e.frame)
  BY <1>2, Zenon DEF reduceSpawnFailed, sessionVars
<1>3. CASE reduceFrameVanished(e.frame)
  BY <1>3, Zenon DEF reduceFrameVanished, sessionVars
<1>4. CASE reduceFrameCommandExited(e.frame, e.type)
  BY <1>4, Zenon DEF reduceFrameCommandExited, sessionVars
<1> QED
  BY <1>1, <1>2, <1>3, <1>4, Zenon

\* Handling a queued event keeps every frame with its session.
LEMMA EventFrames ==
    ASSUME FrameInv, HandleEvent
    PROVE  FrameInv'
<1>1. UNCHANGED <<owner, lastFrame>>
  BY DEF HandleEvent
<1>2. CASE UNCHANGED <<status, frames, disk, saveFailures>>
  BY <1>1, <1>2 DEF FrameInv
<1>3. CASE UNCHANGED <<status, frames>> /\ Persist({})
  <2>1. \A s \in Session : disk'[s].frames \subseteq disk[s].frames \cup frames'[s]
    BY <1>3, PersistFrames
  <2>2. frames' \in [Session -> SUBSET Frame]
    BY <1>3 DEF FrameInv
  <2> QED
    BY <1>1, <1>3, <2>1, <2>2, MovesFrames
<1>4. ASSUME NEW f, NEW kill \in BOOLEAN, NEW row \in {"absent", "ended"},
             Placed(f), evictFrame(f, kill, row), Persist({})
      PROVE  FrameInv'
  <2>1. \A s \in Session : disk'[s].frames \subseteq disk[s].frames \cup frames'[s]
    BY <1>4, PersistFrames
  <2>2. /\ frames' \in [Session -> SUBSET Frame]
        /\ \A s \in Session : frames'[s] \subseteq frames[s]
    BY <1>4, EvictTakes
  <2>3. \A s \in Session : frames'[s] \subseteq frames[s] \cup disk[s].frames
    BY <2>2
  <2>4. \A s \in Session :
          disk'[s].frames \subseteq disk[s].frames \cup frames[s] \cup frames'[s]
    BY <2>1
  <2> QED
    BY <1>1, <2>2, <2>3, <2>4, MovesFrames
<1> QED
  BY <1>2, <1>3, <1>4, EventEffect

\* Creating, pushing and stopping keep every frame with its session.
LEMMA CommandFrames ==
    ASSUME FrameInv, NewSession \/ \E s \in Session : PushDriver(s) \/ StopSession(s)
    PROVE  FrameInv'
<1>1. CASE NewSession
  <2>1. PICK s \in Session, f \in Frame :
          /\ f = lastFrame + 1
          /\ frames' = [frames EXCEPT ![s] = {f}]
          /\ SpawnEffect(s, f)
          /\ Persist({})
    BY <1>1, Zenon DEF NewSession
  <2>2. frames' \in [Session -> SUBSET Frame]
    BY <2>1 DEF FrameInv
  <2>3. \A t \in Session : frames'[t] \subseteq frames[t] \cup (IF t = s THEN {f} ELSE {})
    BY <2>1 DEF FrameInv
  <2> QED
    BY <2>1, <2>2, <2>3, AddsFrame, Zenon
<1>2. ASSUME NEW s \in Session, PushDriver(s)
      PROVE  FrameInv'
  <2>1. PICK f \in Frame :
          /\ f = lastFrame + 1
          /\ frames' = [frames EXCEPT ![s] = @ \cup {f}]
          /\ SpawnEffect(s, f)
          /\ Persist({})
    BY <1>2, Zenon DEF PushDriver
  <2>2. frames' \in [Session -> SUBSET Frame]
    BY <2>1 DEF FrameInv
  <2>3. \A t \in Session : frames'[t] \subseteq frames[t] \cup (IF t = s THEN {f} ELSE {})
    BY <2>1 DEF FrameInv
  <2> QED
    BY <2>1, <2>2, <2>3, AddsFrame
<1>3. ASSUME NEW s \in Session, StopSession(s)
      PROVE  FrameInv'
  <2>1. /\ frames' = [frames EXCEPT ![s] = {}]
        /\ UNCHANGED <<owner, lastFrame>>
        /\ \E kept : Persist(({s} \cap Live) \ kept)
    BY <1>3 DEF StopSession, endSession
  <2>2. \A t \in Session : disk'[t].frames \subseteq disk[t].frames \cup frames'[t]
    BY <2>1, PersistFrames
  <2>3. /\ frames' \in [Session -> SUBSET Frame]
        /\ \A t \in Session : frames'[t] \subseteq frames[t] \cup disk[t].frames
    BY <2>1 DEF FrameInv
  <2>4. \A t \in Session :
          disk'[t].frames \subseteq disk[t].frames \cup frames[t] \cup frames'[t]
    BY <2>2
  <2> QED
    BY <2>1, <2>3, <2>4, MovesFrames
<1> QED
  BY <1>1, <1>2, <1>3

\* The steps that keep the frames of every session, saved or not.
LEMMA KeepsFrames ==
    ASSUME FrameInv, UNCHANGED <<frames, owner, lastFrame>>,
           disk' = disk \/ Persist({}) \/ Save(disk, snapshotSessions)
    PROVE  FrameInv'
<1>1. \A s \in Session :
        disk'[s].frames \subseteq disk[s].frames \cup frames[s] \cup frames'[s]
  BY PersistFrames, FlushFrames
<1>2. /\ frames' \in [Session -> SUBSET Frame]
      /\ \A s \in Session : frames'[s] \subseteq frames[s] \cup disk[s].frames
  BY DEF FrameInv
<1> QED
  BY <1>1, <1>2, MovesFrames, Zenon

\* Going down keeps every frame with its session.
LEMMA DownFrames ==
    ASSUME FrameInv, finalPersistFlush \/ Crash \/ \E s \in Session : CrashInStop(s)
    PROVE  FrameInv'
<1>1. /\ frames' = [s \in Session |-> {}]
      /\ UNCHANGED <<owner, lastFrame>>
      /\ disk' = disk \/ Save(disk, snapshotSessions)
  BY DEF finalPersistFlush, Crash, CrashInStop, GoDown
<1>2. \A s \in Session :
        disk'[s].frames \subseteq disk[s].frames \cup frames[s] \cup frames'[s]
  BY <1>1, FlushFrames
<1>3. /\ frames' \in [Session -> SUBSET Frame]
      /\ \A s \in Session : frames'[s] \subseteq frames[s] \cup disk[s].frames
  BY <1>1
<1> QED
  BY <1>1, <1>2, <1>3, MovesFrames

\* A cold start restores frames to the session whose file lists them.
LEMMA BootSessionFrames ==
    ASSUME FrameInv, bootSession
    PROVE  FrameInv'
<1>1. frames' = [s \in Session |-> restorable(s)]
  <2>1. LoadSnapshot
    BY DEF bootSession
  <2> QED
    BY <2>1 DEF LoadSnapshot
<1>2. /\ UNCHANGED <<owner, lastFrame>>
      /\ disk' = disk \/ Save(disk, snapshotSessions')
  BY DEF bootSession
<1>3. \A s \in Session : restorable(s) \subseteq disk[s].frames /\ disk[s].frames \subseteq Frame
  BY DEF restorable, FrameInv
<1>4. \A s \in Session :
        disk'[s].frames \subseteq disk[s].frames \cup frames[s] \cup frames'[s]
  BY <1>2, BootFrames
<1>5. /\ frames' \in [Session -> SUBSET Frame]
      /\ \A s \in Session : frames'[s] \subseteq frames[s] \cup disk[s].frames
  BY <1>1, <1>3, Zenon
<1> QED
  BY <1>2, <1>4, <1>5, MovesFrames

\* The other actions: no frame is added to a session or taken from it.
LEMMA OtherActions ==
    ASSUME Next \/ UNCHANGED vars
    PROVE  \/ NewSession
           \/ \E s \in Session : PushDriver(s) \/ StopSession(s)
           \/ \E f \in Frame : handleSpawnComplete(f)
           \/ HandleEvent \/ reduceShutdown
           \/ finalPersistFlush \/ Crash \/ \E s \in Session : CrashInStop(s)
           \/ bootSession
           \/ /\ UNCHANGED <<status, frames, owner, gone, undeleted, phase, lastSession, lastFrame>>
              /\ phase = "running" /\ Persist({})
           \/ /\ UNCHANGED <<status, frames, owner, gone, undeleted, lastSession, lastFrame, disk, saveFailures>>
              /\ phase # "down" <=> phase' # "down"
<1> DEFINE Q == \/ /\ UNCHANGED <<status, frames, owner, gone, undeleted, phase, lastSession, lastFrame>>
                   /\ phase = "running" /\ Persist({})
                \/ /\ UNCHANGED <<status, frames, owner, gone, undeleted, lastSession, lastFrame, disk, saveFailures>>
                   /\ phase # "down" <=> phase' # "down"
<1>1. ASSUME NEW s \in Session, NEW f \in Frame, SetHeadFrame(s, f) PROVE Q
  BY <1>1 DEF SetHeadFrame
<1>2. ASSUME NEW f \in Frame, DriverHook(f) PROVE Q
  BY <1>2, Zenon DEF DriverHook
<1>3. ASSUME NEW s \in Session, RemoveBackend(s) PROVE Q
  BY <1>3, Zenon DEF RemoveBackend, sessionVars, countVars
<1>4. ASSUME NEW f \in Frame,
             \/ Ensure(f) \/ BindFrame(f) \/ SpawnFrame(f) \/ FailSpawn(f)
             \/ recoverSpawnPanic(f) \/ ReleaseDiscarded(f)
      PROVE  Q
  BY <1>4, Zenon DEF Ensure, BindFrame, SpawnFrame, FailSpawn, recoverSpawnPanic, ReleaseDiscarded,
              sessionVars, countVars
<1>5. ASSUME NEW f \in Frame, NEW how, ExitProcess(f, how) PROVE Q
  BY <1>5 DEF ExitProcess, sessionVars, countVars
<1>6. CASE reconcileWindows
  BY <1>6 DEF reconcileWindows, sessionVars, countVars
<1>7. CASE reduceShutdownSaveFailed
  BY <1>7 DEF reduceShutdownSaveFailed, sessionVars, countVars
<1>8. CASE UNCHANGED vars
  BY <1>8, Zenon DEF vars, sessionVars, countVars
<1> HIDE DEF Q
<1>9. CASE Next
  <2>1. CASE CreateSession \/ ForkSession
    BY <2>1 DEF CreateSession, ForkSession
  <2> QED
    BY <1>1, <1>2, <1>3, <1>4, <1>5, <1>6, <1>7, <1>9, <2>1, Zenon DEF Next, Q
<1> QED
  BY <1>8, <1>9, Zenon DEF Q

\* Every step keeps every frame with its session.
LEMMA FrameInvStep ==
    ASSUME FrameInv, Next \/ UNCHANGED vars
    PROVE  FrameInv'
<1>1. ASSUME NEW f \in Frame, handleSpawnComplete(f)
      PROVE  FrameInv'
  <2>1. UNCHANGED <<frames, owner, lastFrame>> /\ (disk' = disk \/ Persist({}))
    BY <1>1 DEF handleSpawnComplete, RegisterSpawn, DiscardSpawn, sessionVars
  <2> QED
    BY <2>1, KeepsFrames
<1>2. CASE reduceShutdown
  BY <1>2, KeepsFrames, Zenon DEF reduceShutdown, sessionVars
<1> QED
  BY <1>1, <1>2, OtherActions, CommandFrames, EventFrames, DownFrames, BootSessionFrames,
     KeepsFrames

\* At first no session and no file has a frame.
LEMMA FrameInvInit == Init => FrameInv
BY ConstantsAssumption, SMTT(30) DEF Init, FrameInv, NoRecord, Session, Frame

\* A frame in a session or in a session's file belongs to that session, across
\* evictions, saves and cold starts (restoreSession, spawnEffect).
THEOREM FramesBelongHolds == Spec => []FrameInv
<1>1. Init => FrameInv
  BY FrameInvInit
<1>2. FrameInv /\ [Next]_vars => FrameInv'
  BY FrameInvStep
<1> QED
  BY <1>1, <1>2, PTL DEF Spec

-----------------------------------------------------------------------------
(* What is live is on disk until a write fails                              *)

DurableInv == saveFailures \in Nat /\ LiveIsDurable

\* A save without a failure leaves each session's file equal to its snapshot.
LEMMA SaveDurable ==
    ASSUME saveFailures \in Nat, NEW base, NEW snaps, Save(base, snaps)
    PROVE  /\ saveFailures' \in Nat
           /\ saveFailures' = 0 => \A s \in Session : s \in DOMAIN snaps => disk'[s] = snaps[s]
<1>1. CASE /\ disk' = [s \in Session |-> IF s \in DOMAIN snaps THEN snaps[s] ELSE base[s]]
           /\ saveFailures' = saveFailures
  BY <1>1
<1>2. CASE saveFailures' = saveFailures + 1
  BY <1>2
<1> QED
  BY <1>1, <1>2, Zenon DEF Save

\* A reducer's save makes every live session durable.
LEMMA PersistDurable ==
    ASSUME saveFailures \in Nat, NEW D, Persist(D)
    PROVE  DurableInv'
<1> DEFINE base == [t \in Session |-> IF t \in D THEN NoRecord ELSE disk[t]]
           snaps == snapshotSessions'
<1>1. Save(base, snaps)
  BY DEF Persist
<1>2. \A s \in Live' : s \in Session /\ s \in DOMAIN snaps /\ snaps[s].frames = frames'[s]
  BY DEF snapshotSessions, Live
<1> HIDE DEF base, snaps
<1>3. /\ saveFailures' \in Nat
      /\ saveFailures' = 0 => \A s \in Session : s \in DOMAIN snaps => disk'[s] = snaps[s]
  BY <1>1, SaveDurable
<1>4. saveFailures' = 0 => \A s \in Live' : frames'[s] \subseteq disk'[s].frames
  BY <1>2, <1>3
<1> QED
  BY <1>3, <1>4 DEF DurableInv, LiveIsDurable

\* A step that touches neither sessions nor files keeps live sessions durable.
LEMMA QuietDurable ==
    ASSUME DurableInv, UNCHANGED <<status, frames, disk, saveFailures>>
    PROVE  DurableInv'
BY DEF DurableInv, LiveIsDurable, Live

\* The shutdown command keeps live sessions durable.
LEMMA ShutdownDurable ==
    ASSUME DurableInv, reduceShutdown
    PROVE  DurableInv'
<1>1. UNCHANGED <<status, frames>> /\ Save(disk, snapshotSessions)
  BY Zenon DEF reduceShutdown, sessionVars
<1>2. \A s \in Live : /\ s \in Session /\ s \in DOMAIN snapshotSessions
                      /\ snapshotSessions[s].frames = frames[s]
  BY DEF snapshotSessions, Live
<1>3. Live' = Live
  BY <1>1 DEF Live
<1>4. /\ saveFailures' \in Nat
      /\ saveFailures' = 0 => \A s \in Session :
           s \in DOMAIN snapshotSessions => disk'[s] = snapshotSessions[s]
  BY <1>1, SaveDurable DEF DurableInv
<1>5. saveFailures' = 0 => \A s \in Live' : frames'[s] \subseteq disk'[s].frames
  BY <1>1, <1>2, <1>3, <1>4
<1> QED
  BY <1>4, <1>5 DEF DurableInv, LiveIsDurable

\* Going down keeps live sessions durable.
LEMMA DownDurable ==
    ASSUME DurableInv, finalPersistFlush \/ Crash \/ \E s \in Session : CrashInStop(s)
    PROVE  DurableInv'
<1>1. status' = [s \in Session |-> "absent"]
  BY DEF finalPersistFlush, Crash, CrashInStop, GoDown
<1>2. Live' = {}
  BY <1>1 DEF Live
<1>3. saveFailures' \in Nat
  BY SaveDurable DEF finalPersistFlush, Crash, CrashInStop, DurableInv
<1> QED
  BY <1>2, <1>3 DEF DurableInv, LiveIsDurable

\* A cold start leaves what it restored durable.
LEMMA BootDurable ==
    ASSUME DurableInv, bootSession
    PROVE  DurableInv'
<1> DEFINE snaps == snapshotSessions'
<1>1. frames' = [s \in Session |-> restorable(s)]
  <2>1. LoadSnapshot
    BY DEF bootSession
  <2> QED
    BY <2>1 DEF LoadSnapshot
<1>2. CASE UNCHANGED <<disk, saveFailures>>
  <2>1. \A s \in Live' : frames'[s] \subseteq disk[s].frames
    BY <1>1 DEF Live, restorable
  <2> QED
    BY <1>2, <2>1 DEF DurableInv, LiveIsDurable
<1>3. CASE Save(disk, snaps)
  <2>1. \A s \in Live' : s \in Session /\ s \in DOMAIN snaps /\ snaps[s].frames = frames'[s]
    BY DEF snapshotSessions, Live
  <2> HIDE DEF snaps
  <2>2. /\ saveFailures' \in Nat
        /\ saveFailures' = 0 => \A s \in Session : s \in DOMAIN snaps => disk'[s] = snaps[s]
    BY <1>3, SaveDurable DEF DurableInv
  <2>3. saveFailures' = 0 => \A s \in Live' : frames'[s] \subseteq disk'[s].frames
    BY <2>1, <2>2
  <2> QED
    BY <2>2, <2>3 DEF DurableInv, LiveIsDurable
<1> QED
  BY <1>2, <1>3 DEF bootSession

\* Every step keeps live sessions durable.
LEMMA DurableInvStep ==
    ASSUME DurableInv, Next \/ UNCHANGED vars
    PROVE  DurableInv'
<1>1. saveFailures \in Nat
  BY DEF DurableInv
<1>2. ASSUME NEW D, Persist(D) PROVE DurableInv'
  BY <1>1, <1>2, PersistDurable
<1>3. CASE NewSession
  BY <1>2, <1>3, Zenon DEF NewSession
<1>4. ASSUME NEW s \in Session, PushDriver(s) \/ StopSession(s) PROVE DurableInv'
  BY <1>2, <1>4, Zenon DEF PushDriver, StopSession
<1>5. ASSUME NEW f \in Frame, handleSpawnComplete(f) PROVE DurableInv'
  <2>1. \/ \E D : Persist(D)
        \/ UNCHANGED <<status, frames, disk, saveFailures>>
    BY <1>5, Zenon DEF handleSpawnComplete, RegisterSpawn, DiscardSpawn, sessionVars
  <2> QED
    BY <1>2, <2>1, QuietDurable
<1>6. CASE HandleEvent
  BY <1>2, <1>6, EventEffect, QuietDurable
<1> QED
  BY <1>2, <1>3, <1>4, <1>5, <1>6, OtherActions, ShutdownDurable, DownDurable, BootDurable,
     QuietDurable

\* Until a write fails, every frame of a live session is in the session's file
\* after every step, whatever the step was (reconcilePersist).
THEOREM LiveIsDurableHolds == Spec => []LiveIsDurable
<1>1. Init => DurableInv
  BY SMTT(30) DEF Init, DurableInv, LiveIsDurable, Live
<1>2. DurableInv /\ [Next]_vars => DurableInv'
  BY DurableInvStep
<1>3. DurableInv => LiveIsDurable
  BY DEF DurableInv
<1> QED
  BY <1>1, <1>2, <1>3, PTL DEF Spec

-----------------------------------------------------------------------------
(* The refinement of SessionLedger.                                         *)

(* What the refinement rests on: a live session has a frame, so its file is *)
(* never mistaken for a missing one, and ids that were not allocated yet    *)
(* are unused everywhere.                                                   *)
LedgerInv ==
    /\ status \in [Session -> {"absent", "live", "ended"}]
    /\ frames \in [Session -> SUBSET Frame]
    /\ lastSession \in Nat
    /\ \A s \in Live : frames[s] # {}
    /\ \A s \in Session : s > lastSession =>
         /\ status[s] = "absent" /\ frames[s] = {}
         /\ disk[s] = NoRecord /\ s \notin gone

-----------------------------------------------------------------------------
\* Min of a single frame is that frame: evictChildFrame never empties a session.
LEMMA MinSingle ==
    ASSUME NEW f \in Nat
    PROVE  Min({f}) = f
<1>1. f <= f
  OBVIOUS
<1>2. \E x \in {f} : \A y \in {f} : x <= y
  BY <1>1
<1>3. PICK x \in {f} : x = Min({f})
  BY <1>2, Zenon DEF Min
<1> QED
  BY <1>3

\* Save writes nothing but the snapshots and takes nothing off the disk.
LEMMA SaveWrites ==
    ASSUME NEW base, NEW snaps, NEW L \in SUBSET Session,
           DOMAIN snaps = L, \A s \in L : snaps[s] # NoRecord, Save(base, snaps)
    PROVE  \A s \in Session :
             /\ s \notin L => disk'[s] = base[s]
             /\ s \in L /\ base[s] # NoRecord => disk'[s] # NoRecord
<1>1. CASE disk' = [s \in Session |-> IF s \in L THEN snaps[s] ELSE base[s]]
  BY <1>1
<1>2. ASSUME NEW W \in SUBSET L,
             disk' = [s \in Session |-> IF s \in W THEN snaps[s] ELSE base[s]]
      PROVE  \A s \in Session :
               /\ s \notin L => disk'[s] = base[s]
               /\ s \in L /\ base[s] # NoRecord => disk'[s] # NoRecord
  BY <1>2
<1> QED
  BY <1>1, <1>2 DEF Save

\* The file of a session with a frame is not the empty record.
LEMMA SnapshotIsRecord ==
    ASSUME NEW s \in Live, frames[s] # {}
    PROVE  snapshotSessions[s] # NoRecord
<1>1. snapshotSessions[s].frames = frames[s]
  BY DEF snapshotSessions
<1> QED
  BY <1>1 DEF NoRecord

\* The same after a step.
LEMMA SnapshotIsRecordPrimed ==
    ASSUME NEW s \in Live', frames'[s] # {}
    PROVE  snapshotSessions'[s] # NoRecord
<1>1. snapshotSessions'[s].frames = frames'[s]
  BY DEF snapshotSessions
<1> QED
  BY <1>1 DEF NoRecord

\* reconcilePersist deletes what it is told to and keeps every other file.
LEMMA PersistWrites ==
    ASSUME NEW D \in SUBSET Session, \A s \in Live' : frames'[s] # {}, Persist(D)
    PROVE  \A s \in Session :
             /\ s \notin Live' => disk'[s] = IF s \in D THEN NoRecord ELSE disk[s]
             /\ s \in Live' /\ s \notin D /\ disk[s] # NoRecord => disk'[s] # NoRecord
<1> DEFINE base == [s \in Session |-> IF s \in D THEN NoRecord ELSE disk[s]]
           snaps == snapshotSessions'
           L == Live'
<1>1. L \in SUBSET Session
  BY DEF Live
<1>2. DOMAIN snaps = L
  BY DEF snapshotSessions
<1>3. \A s \in L : snaps[s] # NoRecord
  BY SnapshotIsRecordPrimed
<1>4. Save(base, snaps)
  BY DEF Persist
<1>5. \A s \in Session : base[s] = IF s \in D THEN NoRecord ELSE disk[s]
  OBVIOUS
<1> HIDE DEF base, snaps, L
<1>6. \A s \in Session :
        /\ s \notin L => disk'[s] = base[s]
        /\ s \in L /\ base[s] # NoRecord => disk'[s] # NoRecord
  BY <1>1, <1>2, <1>3, <1>4, SaveWrites
<1> QED
  BY <1>5, <1>6 DEF L

\* The save of a shutdown, of sessions that do not change.
LEMMA FlushWrites ==
    ASSUME \A s \in Live : frames[s] # {}, Save(disk, snapshotSessions)
    PROVE  \A s \in Session :
             /\ s \notin Live => disk'[s] = disk[s]
             /\ s \in Live /\ disk[s] # NoRecord => disk'[s] # NoRecord
<1>1. Live \in SUBSET Session
  BY DEF Live
<1>2. DOMAIN snapshotSessions = Live
  BY DEF snapshotSessions
<1>3. \A s \in Live : snapshotSessions[s] # NoRecord
  BY SnapshotIsRecord
<1> QED
  BY <1>1, <1>2, <1>3, SaveWrites, Zenon

-----------------------------------------------------------------------------
(* What the ledger sees of a step                                           *)

LedgerStep == [Ledger!Next]_(Ledger!vars)

\* A step that leaves the rows, the files and the daemon's life alone.
LEMMA QuietStep ==
    ASSUME LedgerInv, UNCHANGED <<status, frames, disk, gone, undeleted, lastSession>>,
           phase # "down" <=> phase' # "down"
    PROVE  LedgerInv' /\ LedgerStep
<1>1. LedgerInv'
  BY DEF LedgerInv, Live
<1>2. UNCHANGED <<phase # "down", Live, Durable, gone, undeleted>>
  BY DEF Live, Durable
<1> QED
  BY <1>1, <1>2 DEF LedgerStep, Ledger!vars

\* A save of the sessions that are live before and after the step.
LEMMA WriteStep ==
    ASSUME phase # "down", phase' # "down", Live' = Live, gone' = gone, undeleted' = undeleted,
           \A s \in Session :
             /\ s \notin Live => disk'[s] = disk[s]
             /\ s \in Live /\ disk[s] # NoRecord => disk'[s] # NoRecord
    PROVE  LedgerStep
<1>1. Durable \subseteq Durable' /\ Durable' \subseteq Durable \cup Live
  BY DEF Durable
<1>2. Ledger!Write
  BY <1>1 DEF Ledger!Write, Ledger!Written
<1> QED
  BY <1>2 DEF LedgerStep, Ledger!Next

\* The same with the file of every session that is not live left alone.
LEMMA FreshKept ==
    ASSUME LedgerInv, status' = status, gone' = gone, undeleted' = undeleted, lastSession' = lastSession,
           \A s \in Session : s \notin Live => disk'[s] = disk[s]
    PROVE  \A s \in Session : s > lastSession' =>
             status'[s] = "absent" /\ disk'[s] = NoRecord /\ s \notin gone'
BY DEF LedgerInv, Live

\* Steps that change neither the status of a session nor what is gone and end
\* in a save.
LEMMA SavedStep ==
    ASSUME LedgerInv, phase # "down", phase' # "down",
           UNCHANGED <<status, gone, undeleted, lastSession>>,
           frames' \in [Session -> SUBSET Frame], \A s \in Live : frames'[s] # {},
           \A s \in Session : s > lastSession => frames'[s] = {},
           Persist({})
    PROVE  LedgerInv' /\ LedgerStep
<1>1. Live' = Live
  BY DEF Live
<1>2. \A s \in Live' : frames'[s] # {}
  BY <1>1
<1>3. \A s \in Session :
        /\ s \notin Live' => disk'[s] = IF s \in {} THEN NoRecord ELSE disk[s]
        /\ s \in Live' /\ s \notin {} /\ disk[s] # NoRecord => disk'[s] # NoRecord
  <2>1. {} \in SUBSET Session
    OBVIOUS
  <2> QED
    BY <1>2, <2>1, PersistWrites
<1>4. \A s \in Session :
        /\ s \notin Live => disk'[s] = disk[s]
        /\ s \in Live /\ disk[s] # NoRecord => disk'[s] # NoRecord
  BY <1>1, <1>3
<1>5. LedgerStep
  BY <1>1, <1>4, WriteStep
<1>6. \A s \in Session : s > lastSession' =>
        status'[s] = "absent" /\ disk'[s] = NoRecord /\ s \notin gone'
  BY <1>4, FreshKept
<1>7. LedgerInv'
  BY <1>2, <1>6 DEF LedgerInv
<1> QED
  BY <1>5, <1>7

\* The end of session s, live or not, by anything but the user's stop.
LEMMA EndStep ==
    ASSUME LedgerInv, NEW s \in Session, NEW row \in {"absent", "ended"},
           phase # "down", phase' # "down", UNCHANGED <<gone, undeleted, lastSession>>,
           status' = [status EXCEPT ![s] = row],
           frames' = [frames EXCEPT ![s] = {}],
           s <= lastSession,
           Persist({})
    PROVE  LedgerInv' /\ LedgerStep
<1>1. Live' = Live \ {s}
  BY DEF Live, LedgerInv
<1>2. \A t \in Live' : frames'[t] # {}
  BY <1>1 DEF LedgerInv, Live
<1>3. \A t \in Session :
        /\ t \notin Live' => disk'[t] = IF t \in {} THEN NoRecord ELSE disk[t]
        /\ t \in Live' /\ t \notin {} /\ disk[t] # NoRecord => disk'[t] # NoRecord
  <2>1. {} \in SUBSET Session
    OBVIOUS
  <2> QED
    BY <1>2, <2>1, PersistWrites
<1>4. Durable \subseteq Durable' /\ Durable' \subseteq Durable \cup Live'
  BY <1>3 DEF Durable
<1>5. LedgerStep
  <2>1. CASE s \in Live
    <3>1. Ledger!Close(s)
      BY <1>1, <1>4, <2>1 DEF Ledger!Close, Ledger!Written
    <3> QED
      BY <3>1 DEF LedgerStep, Ledger!Next
  <2>2. CASE s \notin Live
    <3>1. Ledger!Write
      BY <1>1, <1>4, <2>2 DEF Ledger!Write, Ledger!Written
    <3> QED
      BY <3>1 DEF LedgerStep, Ledger!Next
  <2> QED
    BY <2>1, <2>2
<1>6. \A t \in Session : t > lastSession' =>
        status'[t] = "absent" /\ disk'[t] = NoRecord /\ t \notin gone'
  <2> SUFFICES ASSUME NEW t \in Session, t > lastSession
               PROVE  status'[t] = "absent" /\ disk'[t] = NoRecord /\ t \notin gone'
    OBVIOUS
  <2>1. status[t] = "absent" /\ disk[t] = NoRecord /\ t \notin gone
    BY DEF LedgerInv
  <2>2. t # s
    BY SMTT(30) DEF LedgerInv, Session
  <2>3. status'[t] = "absent"
    BY <2>1, <2>2 DEF LedgerInv
  <2>4. t \notin Live'
    BY <2>3 DEF Live
  <2> QED
    BY <1>3, <2>1, <2>3, <2>4
<1>7. /\ status' \in [Session -> {"absent", "live", "ended"}]
      /\ frames' \in [Session -> SUBSET Frame]
      /\ \A t \in Session : t > lastSession' => frames'[t] = {}
  BY DEF LedgerInv
<1>8. LedgerInv'
  BY <1>2, <1>6, <1>7 DEF LedgerInv
<1> QED
  BY <1>5, <1>8

-----------------------------------------------------------------------------
(* The actions                                                              *)

\* Evicting a frame is a step of the ledger or none.
LEMMA EvictStep ==
    ASSUME LedgerInv, NEW f, NEW kill, NEW row \in {"absent", "ended"}, Placed(f),
           phase # "down", phase' # "down", UNCHANGED <<gone, undeleted, lastSession>>,
           evictFrame(f, kill, row), Persist({})
    PROVE  LedgerInv' /\ LedgerStep
<1> DEFINE s == owner[f]
<1>1. s \in Session /\ f \in frames[s] /\ f \in Frame
  BY DEF Placed, LedgerInv
<1>2. s <= lastSession
  BY <1>1, SMTT(30) DEF LedgerInv, Session
<1>3. CASE f = Root(s)
  <2>1. /\ status' = [status EXCEPT ![s] = row]
        /\ frames' = [frames EXCEPT ![s] = {}]
    BY <1>3 DEF evictFrame, evictRootFrame, endSession
  <2> QED
    BY <1>1, <1>2, <2>1, EndStep, Zenon
<1>4. CASE f # Root(s)
  <2>1. status' = status /\ frames' = [frames EXCEPT ![s] = frames[s] \ {f}]
    BY <1>4 DEF evictFrame, evictChildFrame
  <2>2. frames[s] # {f}
    <3>1. f \in Nat
      BY <1>1 DEF Frame
    <3>2. Min({f}) = f
      BY <3>1, MinSingle
    <3> QED
      BY <1>4, <3>2 DEF Root
  <2>3. frames' \in [Session -> SUBSET Frame]
    BY <2>1, <1>1 DEF LedgerInv
  <2>4. \A t \in Live : frames'[t] # {}
    BY <2>1, <2>2, <1>1, Zenon DEF LedgerInv, Live
  <2>5. \A t \in Session : t > lastSession => frames'[t] = {}
    BY <2>1, <1>1 DEF LedgerInv
  <2> QED
    BY <2>1, <2>3, <2>4, <2>5, SavedStep
<1> QED
  BY <1>3, <1>4

\* Creating a session is a step of the ledger.
LEMMA NewSessionStep ==
    ASSUME LedgerInv, NewSession
    PROVE  LedgerInv' /\ LedgerStep
<1>1. PICK s \in Session, f \in Frame :
        /\ phase = "running" /\ phase' = phase
        /\ s = lastSession + 1 /\ lastSession' = s
        /\ status' = [status EXCEPT ![s] = "live"]
        /\ frames' = [frames EXCEPT ![s] = {f}]
        /\ gone' = gone /\ undeleted' = undeleted
        /\ Persist({})
  BY Zenon DEF NewSession
<1>2. status[s] = "absent" /\ disk[s] = NoRecord /\ s \notin gone
  BY <1>1, SMTT(30) DEF LedgerInv, Session
<1>3. Live' = Live \cup {s} /\ s \notin Live
  BY <1>1, <1>2 DEF Live, LedgerInv
<1>4. \A t \in Live' : frames'[t] # {}
  BY <1>1, <1>3, Zenon DEF LedgerInv, Live
<1>5. \A t \in Session :
        /\ t \notin Live' => disk'[t] = IF t \in {} THEN NoRecord ELSE disk[t]
        /\ t \in Live' /\ t \notin {} /\ disk[t] # NoRecord => disk'[t] # NoRecord
  <2>1. {} \in SUBSET Session
    OBVIOUS
  <2> QED
    BY <1>1, <1>4, <2>1, PersistWrites
<1>6. Durable \subseteq Durable' /\ Durable' \subseteq Durable \cup Live'
  BY <1>5 DEF Durable
<1>7. s \notin Live \cup Durable \cup gone
  BY <1>2, <1>3 DEF Durable
<1>8. Ledger!Open(s)
  BY <1>1, <1>3, <1>6, <1>7, Zenon DEF Ledger!Open, Ledger!Written
<1>9. LedgerStep
  BY <1>8 DEF LedgerStep, Ledger!Next
<1>10. \A t \in Session : t > lastSession' =>
         /\ status'[t] = "absent" /\ frames'[t] = {}
         /\ disk'[t] = NoRecord /\ t \notin gone'
  <2> SUFFICES ASSUME NEW t \in Session, t > lastSession'
               PROVE  /\ status'[t] = "absent" /\ frames'[t] = {}
                      /\ disk'[t] = NoRecord /\ t \notin gone'
    OBVIOUS
  <2>1. t > lastSession /\ t # s
    BY <1>1, SMTT(30) DEF Session, LedgerInv
  <2>2. status[t] = "absent" /\ frames[t] = {} /\ disk[t] = NoRecord /\ t \notin gone
    BY <2>1 DEF LedgerInv
  <2>3. status'[t] = "absent" /\ frames'[t] = {}
    BY <1>1, <2>1, <2>2 DEF LedgerInv
  <2>4. t \notin Live'
    BY <2>3 DEF Live
  <2> QED
    BY <1>1, <1>5, <2>2, <2>3, <2>4
<1>11. /\ status' \in [Session -> {"absent", "live", "ended"}]
       /\ frames' \in [Session -> SUBSET Frame]
       /\ lastSession' \in Nat
  BY <1>1, SMTT(30) DEF LedgerInv
<1> QED
  BY <1>4, <1>9, <1>10, <1>11 DEF LedgerInv

\* Stopping a session is a step of the ledger.
LEMMA StopStep ==
    ASSUME LedgerInv, NEW s \in Session, StopSession(s)
    PROVE  LedgerInv' /\ LedgerStep
<1>1. /\ phase = "running" /\ phase' = phase /\ status[s] # "absent"
      /\ status' = [status EXCEPT ![s] = "ended"]
      /\ frames' = [frames EXCEPT ![s] = {}]
      /\ lastSession' = lastSession
  BY DEF StopSession, endSession
<1>2. s <= lastSession
  BY <1>1, SMTT(30) DEF LedgerInv, Session
<1>3. PICK kept \in SUBSET ({s} \cap Live \cap Durable) :
        /\ gone' = gone \cup ({s} \cap Live)
        /\ undeleted' = (undeleted \ ({s} \cap Live)) \cup kept
        /\ Persist(({s} \cap Live) \ kept)
  BY DEF StopSession
<1>4. CASE s \notin Live
  <2>1. {s} \cap Live = {} /\ kept = {}
    BY <1>3, <1>4
  <2>2. gone' = gone /\ undeleted' = undeleted /\ Persist({})
    <3>1. ({s} \cap Live) \ kept = {}
      BY <2>1
    <3> QED
      BY <1>3, <2>1, <3>1
  <2> QED
    BY <1>1, <1>2, <2>2, EndStep, Zenon
<1>5. CASE s \in Live
  <2> DEFINE D == {s} \ kept
  <2>1. \/ D = {s} /\ kept = {}
        \/ D = {} /\ kept = {s} /\ s \in Durable
    <3>1. CASE s \in kept
      <4>1. s \in Durable /\ kept = {s}
        BY <1>3, <3>1
      <4> QED
        BY <4>1
    <3>2. CASE s \notin kept
      <4>1. kept = {}
        BY <1>3, <3>2
      <4> QED
        BY <4>1
    <3> QED
      BY <3>1, <3>2
  <2>2. /\ gone' = gone \cup {s} /\ Persist(D)
        /\ undeleted' = (undeleted \ {s}) \cup kept
    <3>1. {s} \cap Live = {s}
      BY <1>5
    <3> QED
      BY <1>3, <3>1
  <2>3. Live' = Live \ {s}
    BY <1>1 DEF Live, LedgerInv
  <2>4. \A t \in Live' : frames'[t] # {}
    BY <1>1, <2>3 DEF LedgerInv, Live
  <2>5. \A t \in Session :
          /\ t \notin Live' => disk'[t] = IF t \in D THEN NoRecord ELSE disk[t]
          /\ t \in Live' /\ t \notin D /\ disk[t] # NoRecord => disk'[t] # NoRecord
    <3>1. D \in SUBSET Session
      OBVIOUS
    <3> HIDE DEF D
    <3> QED
      BY <2>2, <2>4, <3>1, PersistWrites
  <2>6. ASSUME D = {s} /\ kept = {} PROVE LedgerStep
    <3>1. Durable \ {s} \subseteq Durable' /\ Durable' \subseteq (Durable \ {s}) \cup Live'
      BY <2>3, <2>5, <2>6 DEF Durable
    <3>2. undeleted' = undeleted \ {s}
      BY <2>2, <2>6
    <3>3. Ledger!Stop(s)
      BY <1>1, <1>5, <2>2, <2>3, <3>1, <3>2 DEF Ledger!Stop, Ledger!Written
    <3> QED
      BY <3>3 DEF LedgerStep, Ledger!Next
  <2>7. ASSUME D = {} /\ kept = {s} /\ s \in Durable PROVE LedgerStep
    <3>1. Durable \subseteq Durable' /\ Durable' \subseteq Durable \cup Live'
      BY <2>3, <2>5, <2>7 DEF Durable
    <3>2. undeleted' = undeleted \cup {s}
      BY <2>2, <2>7
    <3>3. Ledger!StopUndeleted(s)
      BY <1>1, <1>5, <2>2, <2>3, <2>7, <3>1, <3>2, Zenon DEF Ledger!StopUndeleted, Ledger!Written
    <3> QED
      BY <3>3 DEF LedgerStep, Ledger!Next
  <2>8. LedgerStep
    BY <2>1, <2>6, <2>7
  <2>9. \A t \in Session : t > lastSession' =>
          /\ status'[t] = "absent" /\ frames'[t] = {}
          /\ disk'[t] = NoRecord /\ t \notin gone'
    <3> SUFFICES ASSUME NEW t \in Session, t > lastSession'
                 PROVE  /\ status'[t] = "absent" /\ frames'[t] = {}
                        /\ disk'[t] = NoRecord /\ t \notin gone'
      OBVIOUS
    <3>1. t > lastSession /\ t # s
      BY <1>1, <1>2 DEF Session, LedgerInv
    <3>2. status[t] = "absent" /\ frames[t] = {} /\ disk[t] = NoRecord /\ t \notin gone
      BY <3>1 DEF LedgerInv
    <3>3. status'[t] = "absent" /\ frames'[t] = {}
      BY <1>1, <3>1, <3>2 DEF LedgerInv
    <3>4. t \notin Live'
      BY <3>3 DEF Live
    <3> QED
      BY <2>2, <2>5, <3>1, <3>2, <3>3, <3>4
  <2>10. /\ status' \in [Session -> {"absent", "live", "ended"}]
         /\ frames' \in [Session -> SUBSET Frame]
         /\ lastSession' \in Nat
    BY <1>1 DEF LedgerInv
  <2> QED
    BY <2>4, <2>8, <2>9, <2>10 DEF LedgerInv
<1> QED
  BY <1>4, <1>5

\* Steps that keep the rows and end in a save.
LEMMA ResavedStep ==
    ASSUME LedgerInv, phase = "running", phase' = "running",
           UNCHANGED <<status, frames, gone, undeleted, lastSession>>, Persist({})
    PROVE  LedgerInv' /\ LedgerStep
<1>1. /\ phase # "down" /\ phase' # "down"
      /\ frames' \in [Session -> SUBSET Frame]
      /\ \A s \in Live : frames'[s] # {}
      /\ \A s \in Session : s > lastSession => frames'[s] = {}
  BY DEF LedgerInv
<1> QED
  BY <1>1, SavedStep

\* Pushing a frame is a step of the ledger or none.
LEMMA PushStep ==
    ASSUME LedgerInv, NEW s \in Session, PushDriver(s)
    PROVE  LedgerInv' /\ LedgerStep
<1>1. PICK f \in Frame :
        /\ phase = "running" /\ phase' = phase /\ status[s] # "absent"
        /\ frames' = [frames EXCEPT ![s] = @ \cup {f}]
        /\ UNCHANGED <<status, gone, undeleted, lastSession>>
        /\ Persist({})
  BY Zenon DEF PushDriver
<1>2. frames' \in [Session -> SUBSET Frame]
  BY <1>1 DEF LedgerInv
<1>3. \A t \in Live : frames'[t] # {}
  BY <1>1 DEF LedgerInv, Live
<1>4. \A t \in Session : t > lastSession => frames'[t] = {}
  BY <1>1 DEF LedgerInv
<1>5. phase # "down" /\ phase' # "down"
  BY <1>1
<1> QED
  BY <1>1, <1>2, <1>3, <1>4, <1>5, SavedStep

\* Handling a queued event is a step of the ledger or none.
LEMMA EventStep ==
    ASSUME LedgerInv, HandleEvent
    PROVE  LedgerInv' /\ LedgerStep
<1>1. /\ phase # "down" /\ phase' # "down"
      /\ UNCHANGED <<gone, undeleted, lastSession>>
  BY DEF HandleEvent
<1>2. CASE UNCHANGED <<status, frames, disk, saveFailures>>
  BY <1>1, <1>2, QuietStep
<1>3. CASE UNCHANGED <<status, frames>> /\ Persist({})
  <2>1. /\ frames' \in [Session -> SUBSET Frame]
        /\ \A s \in Live : frames'[s] # {}
        /\ \A s \in Session : s > lastSession => frames'[s] = {}
    BY <1>3 DEF LedgerInv
  <2> QED
    BY <1>1, <1>3, <2>1, SavedStep
<1>4. ASSUME NEW f, NEW kill \in BOOLEAN, NEW row \in {"absent", "ended"},
             Placed(f), evictFrame(f, kill, row), Persist({})
      PROVE  LedgerInv' /\ LedgerStep
  BY <1>1, <1>4, EvictStep
<1> QED
  BY <1>2, <1>3, <1>4, EventEffect

\* Handling the end of a spawn is a step of the ledger or none.
LEMMA SpawnCompleteStep ==
    ASSUME LedgerInv, NEW f \in Frame, handleSpawnComplete(f)
    PROVE  LedgerInv' /\ LedgerStep
<1>1. /\ phase # "down" /\ phase' = phase
      /\ UNCHANGED <<status, frames, gone, undeleted, lastSession>>
  BY DEF handleSpawnComplete, sessionVars
<1>2. \/ disk' = disk
      \/ phase = "running" /\ Persist({})
  BY DEF handleSpawnComplete, RegisterSpawn, DiscardSpawn
<1>3. CASE disk' = disk
  BY <1>1, <1>3, QuietStep
<1>4. CASE phase = "running" /\ Persist({})
  BY <1>1, <1>4, ResavedStep, Zenon
<1> QED
  BY <1>2, <1>3, <1>4

\* The shutdown command is a step of the ledger or none.
LEMMA ShutdownStep ==
    ASSUME LedgerInv, reduceShutdown
    PROVE  LedgerInv' /\ LedgerStep
<1>1. /\ phase # "down" /\ phase' # "down"
      /\ UNCHANGED <<status, frames, gone, undeleted, lastSession>>
      /\ Save(disk, snapshotSessions)
  BY DEF reduceShutdown, sessionVars
<1>2. \A s \in Live : frames[s] # {}
  BY DEF LedgerInv
<1>3. \A s \in Session :
        /\ s \notin Live => disk'[s] = disk[s]
        /\ s \in Live /\ disk[s] # NoRecord => disk'[s] # NoRecord
  BY <1>1, <1>2, FlushWrites
<1>4. Live' = Live
  BY <1>1 DEF Live
<1>5. LedgerStep
  BY <1>1, <1>3, <1>4, WriteStep
<1>6. \A s \in Session : s > lastSession' =>
        status'[s] = "absent" /\ disk'[s] = NoRecord /\ s \notin gone'
  BY <1>1, <1>3, FreshKept, Zenon
<1> QED
  BY <1>1, <1>4, <1>5, <1>6 DEF LedgerInv

\* Going down is a step of the ledger or none.
LEMMA DownStep ==
    ASSUME LedgerInv, finalPersistFlush \/ Crash
    PROVE  LedgerInv' /\ LedgerStep
<1>1. /\ phase # "down" /\ phase' = "down"
      /\ status' = [s \in Session |-> "absent"]
      /\ frames' = [s \in Session |-> {}]
      /\ UNCHANGED <<gone, undeleted, lastSession>>
  BY DEF finalPersistFlush, Crash, GoDown
<1>2. \A s \in Session :
        /\ s \notin Live => disk'[s] = disk[s]
        /\ s \in Live /\ disk[s] # NoRecord => disk'[s] # NoRecord
  <2>1. CASE Crash
    BY <2>1 DEF Crash
  <2>2. CASE finalPersistFlush
    <3>1. Save(disk, snapshotSessions)
      BY <2>2 DEF finalPersistFlush
    <3>2. \A s \in Live : frames[s] # {}
      BY DEF LedgerInv
    <3> QED
      BY <3>1, <3>2, FlushWrites, Zenon
  <2> QED
    BY <2>1, <2>2
<1>3. Live' = {}
  BY <1>1 DEF Live
<1>4. Durable \subseteq Durable' /\ Durable' \subseteq Durable \cup Live
  BY <1>2 DEF Durable
<1>5. Ledger!GoDown
  BY <1>1, <1>3, <1>4, Zenon DEF Ledger!GoDown, Ledger!Written
<1>6. LedgerStep
  BY <1>5 DEF LedgerStep, Ledger!Next
<1>7. \A s \in Session : s > lastSession => disk'[s] = NoRecord /\ s \notin gone
  BY <1>2 DEF LedgerInv, Live
<1>8. LedgerInv'
  BY <1>1, <1>3, <1>7 DEF LedgerInv
<1> QED
  BY <1>6, <1>8, Zenon

\* Going down in the middle of a stop is a step of the ledger.
LEMMA CrashInStopStep ==
    ASSUME LedgerInv, NEW s \in Session, CrashInStop(s)
    PROVE  LedgerInv' /\ LedgerStep
<1>1. /\ phase # "down" /\ phase' = "down" /\ s \in Live
      /\ status' = [t \in Session |-> "absent"]
      /\ frames' = [t \in Session |-> {}]
      /\ gone' = gone \cup {s} /\ undeleted' = undeleted \cup ({s} \cap Durable)
      /\ UNCHANGED <<disk, lastSession>>
  BY DEF CrashInStop, GoDown
<1>2. Live' = {} /\ Durable' = Durable
  BY <1>1 DEF Live, Durable
<1>3. Ledger!GoDownInStop(s)
  BY <1>1, <1>2, Zenon DEF Ledger!GoDownInStop
<1>4. LedgerStep
  BY <1>3 DEF LedgerStep, Ledger!Next
<1>5. ~(s > lastSession)
  BY <1>1 DEF LedgerInv, Live
<1>6. LedgerInv'
  BY <1>1, <1>2, <1>5 DEF LedgerInv
<1> QED
  BY <1>4, <1>6, Zenon

\* A cold start is a step of the ledger.
LEMMA BootStep ==
    ASSUME LedgerInv, FrameInv, bootSession
    PROVE  LedgerInv' /\ LedgerStep
<1>1. /\ phase = "down" /\ phase' = "running"
      /\ status' = [s \in Session |-> IF restorable(s) # {} THEN "live" ELSE "absent"]
      /\ frames' = [s \in Session |-> restorable(s)]
      /\ UNCHANGED <<gone, undeleted, lastSession>>
  <2>1. LoadSnapshot
    BY DEF bootSession
  <2>2. status' = [s \in Session |-> IF restorable(s) # {} THEN "live" ELSE "absent"]
    BY <2>1 DEF LoadSnapshot
  <2>3. frames' = [s \in Session |-> restorable(s)]
    BY <2>1 DEF LoadSnapshot
  <2> QED
    BY <2>2, <2>3 DEF bootSession
<1>2. \A s \in Live' : frames'[s] # {} /\ disk[s] # NoRecord
  BY <1>1, SMTT(30) DEF Live, restorable, NoRecord
<1>3. \A s \in Session :
        /\ s \notin Live' => disk'[s] = disk[s]
        /\ s \in Live' /\ disk[s] # NoRecord => disk'[s] # NoRecord
  <2>1. CASE Save(disk, snapshotSessions')
    <3> DEFINE L == Live'
               snaps == snapshotSessions'
    <3>1. L \in SUBSET Session
      BY DEF Live
    <3>2. DOMAIN snaps = L
      BY DEF snapshotSessions
    <3>3. \A s \in L : snaps[s] # NoRecord
      BY <1>2, SnapshotIsRecordPrimed, Zenon
    <3>4. Save(disk, snaps)
      BY <2>1
    <3> HIDE DEF L, snaps
    <3>5. \A s \in Session :
            /\ s \notin L => disk'[s] = disk[s]
            /\ s \in L /\ disk[s] # NoRecord => disk'[s] # NoRecord
      BY <3>1, <3>2, <3>3, <3>4, SaveWrites, Zenon
    <3> QED
      BY <3>5 DEF L
  <2>2. CASE disk' = disk
    BY <2>2
  <2> QED
    BY <2>1, <2>2 DEF bootSession
<1>4. Live' \subseteq Durable /\ Durable' = Durable
  BY <1>2, <1>3 DEF Durable, Live
<1>5. Ledger!Boot
  BY <1>1, <1>4 DEF Ledger!Boot
<1>6. LedgerStep
  BY <1>5 DEF LedgerStep, Ledger!Next
<1>7. \A s \in Session : s > lastSession' =>
        /\ status'[s] = "absent" /\ frames'[s] = {}
        /\ disk'[s] = NoRecord /\ s \notin gone'
  <2> SUFFICES ASSUME NEW s \in Session, s > lastSession
               PROVE  /\ status'[s] = "absent" /\ frames'[s] = {}
                      /\ disk'[s] = NoRecord /\ s \notin gone
    BY <1>1
  <2>1. disk[s] = NoRecord /\ s \notin gone
    BY DEF LedgerInv
  <2>2. restorable(s) = {}
    BY <2>1 DEF restorable, NoRecord
  <2>3. status'[s] = "absent" /\ frames'[s] = {}
    BY <1>1, <2>2, Zenon
  <2>4. s \notin Live'
    BY <2>3 DEF Live
  <2> QED
    BY <1>3, <2>1, <2>3, <2>4
<1>8. \A s \in Session : restorable(s) \subseteq Frame
  BY DEF restorable, FrameInv
<1>9. /\ status' \in [Session -> {"absent", "live", "ended"}]
      /\ frames' \in [Session -> SUBSET Frame]
      /\ lastSession' \in Nat
  BY <1>1, <1>8, Zenon DEF LedgerInv
<1> QED
  BY <1>2, <1>6, <1>7, <1>9 DEF LedgerInv

\* Every step keeps the ledger's invariant and is a step of the ledger or none.
LEMMA LedgerInvStep ==
    ASSUME LedgerInv, FrameInv, Next \/ UNCHANGED vars
    PROVE  LedgerInv' /\ LedgerStep
<1>1. CASE NewSession
  BY <1>1, NewSessionStep
<1>2. ASSUME NEW s \in Session, PushDriver(s) \/ StopSession(s)
      PROVE  LedgerInv' /\ LedgerStep
  BY <1>2, PushStep, StopStep
<1>3. ASSUME NEW f \in Frame, handleSpawnComplete(f)
      PROVE  LedgerInv' /\ LedgerStep
  BY <1>3, SpawnCompleteStep
<1>4. CASE HandleEvent \/ reduceShutdown
  BY <1>4, EventStep, ShutdownStep
<1>5. CASE \/ finalPersistFlush \/ Crash \/ bootSession
           \/ \E s \in Session : CrashInStop(s)
  BY <1>5, DownStep, CrashInStopStep, BootStep
<1>6. CASE /\ UNCHANGED <<status, frames, owner, gone, undeleted, phase, lastSession, lastFrame>>
           /\ phase = "running" /\ Persist({})
  BY <1>6, ResavedStep
<1>7. CASE /\ UNCHANGED <<status, frames, owner, gone, undeleted, lastSession, lastFrame, disk, saveFailures>>
           /\ phase # "down" <=> phase' # "down"
  BY <1>7, QuietStep
<1> QED
  BY <1>1, <1>2, <1>3, <1>4, <1>5, <1>6, <1>7, OtherActions, Zenon

\* The first state is a first state of the ledger.
LEMMA LedgerInvInit == Init => LedgerInv /\ Ledger!Init
BY ConstantsAssumption, SMTT(30)
   DEF Init, LedgerInv, Live, Durable, Session, Frame, Ledger!Init

\* The ledger's invariant holds in every reachable state.
LEMMA LedgerInvHolds == Spec => []LedgerInv
<1>1. Init => LedgerInv
  BY LedgerInvInit
<1>2. LedgerInv /\ FrameInv /\ [Next]_vars => LedgerInv'
  BY LedgerInvStep
<1>3. Spec => []FrameInv
  BY FramesBelongHolds
<1> QED
  BY <1>1, <1>2, <1>3, PTL DEF Spec

\* Sessions implements SessionLedger: whatever ends a session or the daemon,
\* only reduceStopSession takes a session off the record, only restoreSession
\* brings one back, and ids are used once.
THEOREM KeepsLedgerHolds == Spec => KeepsLedger
<1>1. Init => Ledger!Init
  BY LedgerInvInit
<1>2. LedgerInv /\ FrameInv /\ [Next]_vars => [Ledger!Next]_(Ledger!vars)
  BY LedgerInvStep DEF LedgerStep
<1>3. Spec => []FrameInv /\ []LedgerInv
  BY FramesBelongHolds, LedgerInvHolds
<1> QED
  BY <1>1, <1>2, <1>3, PTL DEF Spec, KeepsLedger, Ledger!Spec

\* No step of the ledger brings a stopped session back.
LEMMA LedgerKeepsStopped ==
    ASSUME StoppedNeverReturns, LedgerStep
    PROVE  StoppedNeverReturns'
<1>1. CASE UNCHANGED Ledger!vars
  BY <1>1 DEF Ledger!vars, StoppedNeverReturns
<1>2. ASSUME NEW s \in Session, Ledger!Open(s)
      PROVE  StoppedNeverReturns'
  BY <1>2 DEF Ledger!Open, Ledger!Written, StoppedNeverReturns
<1>3. ASSUME NEW s \in Session, Ledger!Close(s)
      PROVE  StoppedNeverReturns'
  BY <1>3 DEF Ledger!Close, Ledger!Written, StoppedNeverReturns
<1>4. ASSUME NEW s \in Session, Ledger!Stop(s)
      PROVE  StoppedNeverReturns'
  BY <1>4 DEF Ledger!Stop, Ledger!Written, StoppedNeverReturns
<1>8. ASSUME NEW s \in Session, Ledger!StopUndeleted(s)
      PROVE  StoppedNeverReturns'
  BY <1>8 DEF Ledger!StopUndeleted, Ledger!Written, StoppedNeverReturns
<1>9. ASSUME NEW s \in Session, Ledger!GoDownInStop(s)
      PROVE  StoppedNeverReturns'
  BY <1>9 DEF Ledger!GoDownInStop, StoppedNeverReturns
<1>5. CASE Ledger!Write
  BY <1>5 DEF Ledger!Write, Ledger!Written, StoppedNeverReturns
<1>6. CASE Ledger!GoDown
  BY <1>6 DEF Ledger!GoDown, Ledger!Written, StoppedNeverReturns
<1>7. CASE Ledger!Boot
  BY <1>7 DEF Ledger!Boot, StoppedNeverReturns
<1> QED
  BY <1>1, <1>2, <1>3, <1>4, <1>5, <1>6, <1>7, <1>8, <1>9 DEF LedgerStep, Ledger!Next

\* A session the user stopped while it was live is never live or on disk
\* again, unless that stop left its file (a failed Delete, a crash before it):
\* the ledger promises it, and Sessions keeps the ledger.
THEOREM StoppedNeverReturnsHolds == Spec => []StoppedNeverReturns
<1>1. Init => StoppedNeverReturns
  BY DEF Init, StoppedNeverReturns
<1>2. StoppedNeverReturns /\ [Ledger!Next]_(Ledger!vars) => StoppedNeverReturns'
  BY LedgerKeepsStopped DEF LedgerStep
<1>3. Spec => KeepsLedger
  BY KeepsLedgerHolds
<1> QED
  BY <1>1, <1>2, <1>3, PTL DEF Spec, KeepsLedger, Ledger!Spec

-----------------------------------------------------------------------------
(* Frames that left their session, and requests *)

(* What is registered is placed, and what is bound is registered unless the *)
(* goroutine that bound it has yet to hand it over.                         *)
ReleaseInv ==
    /\ spawn \in [Frame -> {"none", "ensure", "ensured", "bound", "done", "discard", "panicked"}]
    /\ bind \in [Frame -> {"none", "held"}]
    /\ owned \subseteq Frame /\ taps \subseteq Frame /\ ids \subseteq owned
    /\ \A f \in owned \cup taps : Placed(f)
    /\ \A f \in Frame : bind[f] # "none" /\ spawn[f] \in {"none", "ensure", "ensured"} => f \in owned
    /\ \A f \in Frame : f > lastFrame => spawn[f] = "none"
    /\ phase = "down" => ids = {}

\* The invariant is stronger than the property.
LEMMA ReleaseInvImplies == ReleaseInv => ReleasedFramesHoldNothing
<1> SUFFICES ASSUME ReleaseInv, NEW f \in Frame, ~Placed(f),
                    spawn[f] \notin {"bound", "done", "discard", "panicked"}
             PROVE  bind[f] = "none" /\ f \notin owned \cup ids \cup taps
  BY DEF ReleasedFramesHoldNothing
<1>1. f \notin owned \cup ids \cup taps
  BY DEF ReleaseInv
<1>2. spawn[f] \in {"none", "ensure", "ensured"}
  BY DEF ReleaseInv
<1> QED
  BY <1>1, <1>2 DEF ReleaseInv

-----------------------------------------------------------------------------
\* Releasing a set of frames, whatever happens to the sessions, is safe when
\* the frames that stay registered stay in their sessions.
LEMMA ReleaseStep ==
    ASSUME ReleaseInv, NEW F, ReleaseFrames(F), taps' \subseteq taps,
           UNCHANGED <<spawn, lastFrame, phase>>,
           \A g \in owned' \cup taps' : Placed(g)'
    PROVE  ReleaseInv'
<1>1. /\ owned' = owned \ F
      /\ ids' = ids \ (F \cap owned)
      /\ bind' = [f \in Frame |-> IF f \in F \cap owned THEN "none" ELSE bind[f]]
  BY DEF ReleaseFrames
<1>2. bind' \in [Frame -> {"none", "held"}]
  BY <1>1 DEF ReleaseInv
<1>3. owned' \subseteq Frame /\ taps' \subseteq Frame /\ ids' \subseteq owned'
  BY <1>1 DEF ReleaseInv
<1>4. \A f \in Frame : bind'[f] # "none" /\ spawn'[f] \in {"none", "ensure", "ensured"} => f \in owned'
  BY <1>1 DEF ReleaseInv
<1>5. phase' = "down" => ids' = {}
  BY <1>1 DEF ReleaseInv
<1> QED
  BY <1>2, <1>3, <1>4, <1>5 DEF ReleaseInv

\* The frames F of a session are taken out of it and torn down.
LEMMA TeardownStep ==
    ASSUME ReleaseInv, FrameInv, NEW s \in Session, NEW F \in SUBSET frames[s],
           frames' = [frames EXCEPT ![s] = frames[s] \ F],
           NEW kill, frameTeardownEffects(F, kill),
           UNCHANGED <<owner, spawn, lastFrame, phase>>
    PROVE  ReleaseInv'
<1>1. ReleaseFrames(F) /\ taps' = taps \ F
  BY DEF frameTeardownEffects
<1>2. owned' = owned \ F
  BY <1>1 DEF ReleaseFrames
<1>3. \A g \in owned' \cup taps' : Placed(g)'
  <2> SUFFICES ASSUME NEW g \in owned' \cup taps'
               PROVE  Placed(g)'
    OBVIOUS
  <2>1. Placed(g) /\ g \notin F
    BY <1>1, <1>2 DEF ReleaseInv
  <2>2. owner'[g] \in Session /\ g \in frames'[owner'[g]]
    BY <2>1 DEF Placed, FrameInv
  <2> QED
    BY <2>2 DEF Placed
<1>4. taps' \subseteq taps
  BY <1>1
<1> QED
  BY <1>1, <1>3, <1>4, ReleaseStep

\* Evicting a frame releases what it held.
LEMMA EvictReleases ==
    ASSUME ReleaseInv, FrameInv, NEW f, NEW kill, NEW row, Placed(f),
           evictFrame(f, kill, row), UNCHANGED <<owner, spawn, lastFrame, phase>>
    PROVE  ReleaseInv'
<1> DEFINE s == owner[f]
<1>1. s \in Session /\ f \in frames[s]
  BY DEF Placed
<1>2. CASE f = Root(s)
  <2>1. frames' = [frames EXCEPT ![s] = {}] /\ frameTeardownEffects(frames[s], kill)
    BY <1>2, Zenon DEF evictFrame, evictRootFrame, endSession
  <2>2. frames' = [frames EXCEPT ![s] = frames[s] \ frames[s]]
    BY Zenon, <2>1
  <2>3. frames[s] \in SUBSET frames[s]
    OBVIOUS
  <2> QED
    BY Zenon, <1>1, <2>1, <2>2, <2>3, TeardownStep
<1>3. CASE f # Root(s)
  <2>1. frames' = [frames EXCEPT ![s] = frames[s] \ {f}] /\ frameTeardownEffects({f}, kill)
    BY <1>3, Zenon DEF evictFrame, evictChildFrame
  <2>2. {f} \in SUBSET frames[s]
    BY <1>1
  <2> QED
    BY Zenon, <1>1, <2>1, <2>2, TeardownStep
<1> QED
  BY <1>2, <1>3

\* A crash releases the frame and keeps it in its session.
LEMMA CrashReleases ==
    ASSUME ReleaseInv, NEW f, ReleaseFrames({f}),
           UNCHANGED <<owner, frames, taps, spawn, lastFrame, phase>>
    PROVE  ReleaseInv'
<1>1. owned' = owned \ {f}
  BY DEF ReleaseFrames
<1>2. \A g \in owned' \cup taps' : Placed(g)'
  BY <1>1 DEF ReleaseInv, Placed
<1>3. taps' \subseteq taps
  OBVIOUS
<1> QED
  BY <1>2, <1>3, ReleaseStep

\* Steps that touch none of it.
LEMMA IdleReleases ==
    ASSUME ReleaseInv, UNCHANGED <<owner, frames, owned, ids, taps, spawn, bind, lastFrame>>,
           phase' = "down" => phase = "down"
    PROVE  ReleaseInv'
BY DEF ReleaseInv, Placed

\* Handling a queued event releases what an evicted frame held.
LEMMA EventReleases ==
    ASSUME ReleaseInv, FrameInv, HandleEvent
    PROVE  ReleaseInv'
<1> DEFINE f == Head(events).frame
           how == Head(events).type
<1>1. UNCHANGED <<owner, spawn, lastFrame, phase>>
  BY Zenon DEF HandleEvent
<1>2. \/ UNCHANGED <<sessionVars, owned, ids, taps, bind>>
      \/ reduceSpawnFailed(f)
      \/ reduceFrameVanished(f)
      \/ reduceFrameCommandExited(f, how)
  BY Zenon DEF HandleEvent
<1>3. CASE UNCHANGED <<sessionVars, owned, ids, taps, bind>>
  <2>1. UNCHANGED <<frames, owned, ids, taps, bind>>
    BY <1>3, Zenon DEF sessionVars
  <2> QED
    BY <1>1, <2>1, IdleReleases
<1>4. \/ UNCHANGED <<sessionVars, owned, ids, taps, bind>>
      \/ Placed(f) /\ \E kill \in BOOLEAN : \E row \in {"absent", "ended"} : evictFrame(f, kill, row)
      \/ ReleaseFrames({f}) /\ UNCHANGED <<frames, taps>>
  <2>1. CASE reduceSpawnFailed(f)
    BY <2>1, Zenon DEF reduceSpawnFailed
  <2>2. CASE reduceFrameVanished(f)
    BY <2>2, Zenon DEF reduceFrameVanished
  <2>3. CASE reduceFrameCommandExited(f, how)
    BY <2>3, Zenon DEF reduceFrameCommandExited
  <2> QED
    BY <1>2, <2>1, <2>2, <2>3
<1>5. ASSUME NEW kill \in BOOLEAN, NEW row \in {"absent", "ended"}, Placed(f),
             evictFrame(f, kill, row)
      PROVE  ReleaseInv'
  BY <1>1, <1>5, EvictReleases
<1>6. CASE ReleaseFrames({f}) /\ UNCHANGED <<frames, taps>>
  BY Zenon, <1>1, <1>6, CrashReleases
<1> QED
  BY <1>3, <1>4, <1>5, <1>6

\* Stopping a session releases what its frames held.
LEMMA StopReleases ==
    ASSUME ReleaseInv, FrameInv, NEW s \in Session, StopSession(s)
    PROVE  ReleaseInv'
<1>1. /\ frames' = [frames EXCEPT ![s] = {}]
      /\ frameTeardownEffects(frames[s], TRUE)
      /\ UNCHANGED <<owner, spawn, lastFrame, phase>>
  BY Zenon DEF StopSession, endSession
<1>2. frames' = [frames EXCEPT ![s] = frames[s] \ frames[s]]
  BY Zenon, <1>1
<1>3. frames[s] \in SUBSET frames[s]
  OBVIOUS
<1> QED
  BY Zenon, <1>1, <1>2, <1>3, TeardownStep

\* A new frame is not bound, and the other frames stay where they are.
LEMMA SpawnReleases ==
    ASSUME ReleaseInv, FrameInv, NEW s \in Session, NEW f \in Frame, f = lastFrame + 1,
           SpawnEffect(s, f), UNCHANGED <<owned, ids, taps, bind, phase>>,
           frames' \in [Session -> SUBSET Frame],
           \A t \in Session : frames[t] \subseteq frames'[t]
    PROVE  ReleaseInv'
<1>1. /\ lastFrame' = f /\ owner' = [owner EXCEPT ![f] = s]
      /\ spawn' = [spawn EXCEPT ![f] = "ensure"]
  BY DEF SpawnEffect
<1>2. owner[f] = 0 /\ 0 \notin Session
  BY SMTT(30) DEF FrameInv, Session, Frame
<1>3. \A g \in owned \cup taps : Placed(g) /\ g # f /\ g \in Frame
  BY <1>2 DEF ReleaseInv, Placed
<1>4. \A g \in owned' \cup taps' : Placed(g)'
  <2> SUFFICES ASSUME NEW g \in owned \cup taps
               PROVE  owner'[g] \in Session /\ g \in frames'[owner'[g]]
    BY DEF Placed
  <2>1. owner'[g] = owner[g]
    BY <1>1, <1>3 DEF FrameInv
  <2> QED
    BY <1>3, <2>1 DEF Placed
<1>5. spawn[f] = "none"
  BY SMTT(30) DEF ReleaseInv, FrameInv, Frame
<1>6. bind[f] = "none"
  BY <1>3, <1>5 DEF ReleaseInv
<1>7. \A g \in Frame : bind'[g] # "none" /\ spawn'[g] \in {"none", "ensure", "ensured"} => g \in owned'
  BY <1>1, <1>6 DEF ReleaseInv
<1>8. \A g \in Frame : g > lastFrame' => spawn'[g] = "none"
  BY <1>1, SMTT(30) DEF ReleaseInv, FrameInv, Frame
<1>9. spawn' \in [Frame -> {"none", "ensure", "ensured", "bound", "done", "discard", "panicked"}]
  BY <1>1 DEF ReleaseInv
<1> QED
  BY <1>4, <1>7, <1>8, <1>9 DEF ReleaseInv

\* A new session or a pushed frame starts with nothing held.
LEMMA CreateReleases ==
    ASSUME ReleaseInv, FrameInv, LedgerInv,
           NewSession \/ \E s \in Session : PushDriver(s)
    PROVE  ReleaseInv'
<1>1. CASE NewSession
  <2>1. PICK s \in Session, f \in Frame :
          /\ s = lastSession + 1 /\ f = lastFrame + 1
          /\ frames' = [frames EXCEPT ![s] = {f}]
          /\ SpawnEffect(s, f)
          /\ UNCHANGED <<owned, ids, taps, bind, phase>>
    BY <1>1, Zenon DEF NewSession
  <2>2. frames[s] = {}
    BY <2>1, SMTT(30) DEF LedgerInv, Session
  <2>3. /\ frames' \in [Session -> SUBSET Frame]
        /\ \A t \in Session : frames[t] \subseteq frames'[t]
    BY <2>1, <2>2 DEF FrameInv
  <2> QED
    BY <2>1, <2>3, SpawnReleases
<1>2. ASSUME NEW s \in Session, PushDriver(s)
      PROVE  ReleaseInv'
  <2>1. PICK f \in Frame :
          /\ f = lastFrame + 1
          /\ frames' = [frames EXCEPT ![s] = @ \cup {f}]
          /\ SpawnEffect(s, f)
          /\ UNCHANGED <<owned, ids, taps, bind, phase>>
    BY <1>2, Zenon DEF PushDriver
  <2>2. /\ frames' \in [Session -> SUBSET Frame]
        /\ \A t \in Session : frames[t] \subseteq frames'[t]
    BY <2>1 DEF FrameInv
  <2> QED
    BY <2>1, <2>2, SpawnReleases
<1> QED
  BY <1>1, <1>2

\* The end of a spawn registers a placed frame and discards another.
LEMMA CompleteReleases ==
    ASSUME ReleaseInv, NEW f \in Frame, handleSpawnComplete(f)
    PROVE  ReleaseInv'
<1>1. /\ phase # "down" /\ spawn[f] = "done"
      /\ UNCHANGED <<phase, bind, owner, lastFrame>>
      /\ frames' = frames
  BY Zenon DEF handleSpawnComplete, sessionVars
<1>3. CASE Placed(f)
  <2>1. /\ owned' = owned \cup {f} /\ ids' = ids \cup {f}
        /\ spawn' = [spawn EXCEPT ![f] = "none"]
        /\ taps' \subseteq taps \cup {f}
    BY <1>3 DEF handleSpawnComplete, RegisterSpawn
  <2>2. \A g \in owned' \cup taps' : Placed(g)'
    BY <1>1, <1>3, <2>1 DEF ReleaseInv, Placed
  <2>3. spawn' \in [Frame -> {"none", "ensure", "ensured", "bound", "done", "discard", "panicked"}]
    BY <2>1 DEF ReleaseInv
  <2>4. \A g \in Frame : bind'[g] # "none" /\ spawn'[g] \in {"none", "ensure", "ensured"} => g \in owned'
    BY <1>1, <2>1 DEF ReleaseInv
  <2>5. \A g \in Frame : g > lastFrame' => spawn'[g] = "none"
    BY <1>1, <2>1 DEF ReleaseInv
  <2> QED
    BY <1>1, <2>1, <2>2, <2>3, <2>4, <2>5 DEF ReleaseInv
<1>4. CASE ~Placed(f)
  <2>1. UNCHANGED <<owned, ids, taps>> /\ spawn' = [spawn EXCEPT ![f] = "discard"]
    BY <1>4 DEF handleSpawnComplete, DiscardSpawn
  <2>2. \A g \in owned' \cup taps' : Placed(g)'
    BY <1>1, <2>1 DEF ReleaseInv, Placed
  <2>3. spawn' \in [Frame -> {"none", "ensure", "ensured", "bound", "done", "discard", "panicked"}]
    BY <2>1 DEF ReleaseInv
  <2>4. \A g \in Frame : bind'[g] # "none" /\ spawn'[g] \in {"none", "ensure", "ensured"} => g \in owned'
    BY <1>1, <2>1 DEF ReleaseInv
  <2>5. \A g \in Frame : g > lastFrame' => spawn'[g] = "none"
    BY <1>1, <2>1 DEF ReleaseInv
  <2> QED
    BY <1>1, <2>1, <2>2, <2>3, <2>4, <2>5 DEF ReleaseInv
<1> QED
  BY <1>3, <1>4

\* The spawning goroutine moves on with frame f, to state w, and keeps what it
\* bound only while w says so.
LEMMA GoroutineReleases ==
    ASSUME ReleaseInv, NEW f \in Frame, spawn[f] # "none",
           NEW w \in {"none", "ensured", "bound", "done", "panicked"},
           NEW b \in {"none", "held"}, w = "none" => b = "none",
           w = "ensured" => spawn[f] = "ensure" /\ b = bind[f],
           spawn' = [spawn EXCEPT ![f] = w], bind' = [bind EXCEPT ![f] = b],
           UNCHANGED <<owner, frames, owned, ids, taps, lastFrame, phase>>
    PROVE  ReleaseInv'
<1>1. spawn' \in [Frame -> {"none", "ensure", "ensured", "bound", "done", "discard", "panicked"}]
  BY DEF ReleaseInv
<1>2. bind' \in [Frame -> {"none", "held"}]
  BY DEF ReleaseInv
<1>3. \A g \in Frame : bind'[g] # "none" /\ spawn'[g] \in {"none", "ensure", "ensured"} => g \in owned'
  BY DEF ReleaseInv
<1>4. \A g \in Frame : g > lastFrame' => spawn'[g] = "none"
  BY DEF ReleaseInv
<1>5. \A g \in owned' \cup taps' : Placed(g)'
  BY DEF ReleaseInv, Placed
<1> QED
  BY <1>1, <1>2, <1>3, <1>4, <1>5 DEF ReleaseInv

\* The steps of a spawn under way bind only its own frame.
LEMMA SpawnStepReleases ==
    ASSUME ReleaseInv, NEW f \in Frame,
           \/ Ensure(f) \/ BindFrame(f) \/ SpawnFrame(f) \/ FailSpawn(f)
           \/ recoverSpawnPanic(f) \/ ReleaseDiscarded(f)
    PROVE  ReleaseInv'
<1>1. bind \in [Frame -> {"none", "held"}]
  BY DEF ReleaseInv
<1>2. UNCHANGED <<owner, frames, owned, ids, taps, lastFrame, phase>>
  BY Zenon DEF Ensure, BindFrame, SpawnFrame, FailSpawn, recoverSpawnPanic,
               ReleaseDiscarded, sessionVars, loopVars, countVars
<1>8. CASE Ensure(f)
  <2>1. spawn[f] = "ensure" /\ spawn' = [spawn EXCEPT ![f] = "ensured"] /\ bind' = bind
    BY <1>8, Zenon DEF Ensure
  <2>2. bind' = [bind EXCEPT ![f] = bind[f]] /\ bind[f] \in {"none", "held"}
    BY <1>1, <2>1
  <2>3. spawn[f] # "none"
    BY <2>1
  <2> QED
    BY Zenon, <1>2, <2>1, <2>2, <2>3, GoroutineReleases
<1>3. CASE BindFrame(f)
  <2>1. /\ spawn[f] # "none" /\ spawn' = [spawn EXCEPT ![f] = "bound"]
        /\ bind' = [bind EXCEPT ![f] = "held"]
    BY <1>3 DEF BindFrame
  <2> QED
    BY Zenon, <1>2, <2>1, GoroutineReleases
<1>4. CASE SpawnFrame(f)
  <2>1. spawn[f] # "none" /\ spawn' = [spawn EXCEPT ![f] = "done"] /\ bind' = bind
    BY <1>4, Zenon DEF SpawnFrame
  <2>2. bind' = [bind EXCEPT ![f] = bind[f]] /\ bind[f] \in {"none", "held"}
    BY <1>1, <2>1
  <2> QED
    BY Zenon, <1>2, <2>1, <2>2, GoroutineReleases
<1>5. CASE FailSpawn(f)
  <2>1. /\ spawn[f] # "none" /\ spawn' = [spawn EXCEPT ![f] = "none"]
        /\ bind' = [bind EXCEPT ![f] = "none"]
    BY <1>5 DEF FailSpawn
  <2> QED
    BY Zenon, <1>2, <2>1, GoroutineReleases
<1>6. CASE recoverSpawnPanic(f)
  <2>1. spawn[f] # "none" /\ spawn' = [spawn EXCEPT ![f] = "panicked"] /\ bind' = bind
    BY <1>6, Zenon DEF recoverSpawnPanic
  <2>2. bind' = [bind EXCEPT ![f] = bind[f]] /\ bind[f] \in {"none", "held"}
    BY <1>1, <2>1
  <2> QED
    BY Zenon, <1>2, <2>1, <2>2, GoroutineReleases
<1>7. CASE ReleaseDiscarded(f)
  <2>1. /\ spawn[f] # "none" /\ spawn' = [spawn EXCEPT ![f] = "none"]
        /\ bind' = [bind EXCEPT ![f] = "none"]
    BY <1>7 DEF ReleaseDiscarded
  <2> QED
    BY <1>2, <2>1, GoroutineReleases
<1> QED
  BY <1>3, <1>4, <1>5, <1>6, <1>7, <1>8

\* Removing a backend leaves the bindings.
LEMMA RemoveReleases ==
    ASSUME ReleaseInv, NEW s \in Session, RemoveBackend(s)
    PROVE  ReleaseInv'
<1>1. /\ UNCHANGED <<owner, frames, owned, ids, taps, spawn, bind, lastFrame>>
      /\ phase' = "down" => phase = "down"
  BY Zenon DEF RemoveBackend, sessionVars, loopVars, countVars
<1> QED
  BY <1>1, IdleReleases

\* After going down nothing is held.
LEMMA DownReleases ==
    ASSUME finalPersistFlush \/ Crash \/ \E s \in Session : CrashInStop(s)
    PROVE  ReleaseInv'
<1>1. /\ spawn' = [f \in Frame |-> "none"] /\ bind' = [f \in Frame |-> "none"]
      /\ owned' = {} /\ ids' = {} /\ taps' = {}
  BY Zenon DEF finalPersistFlush, Crash, CrashInStop, GoDown
<1> QED
  BY <1>1 DEF ReleaseInv

\* A cold start holds nothing but for the frames it placed.
LEMMA BootReleases ==
    ASSUME ReleaseInv, FrameInv, bootSession
    PROVE  ReleaseInv'
<1> DEFINE all == UNION {restorable(s) : s \in Session}
<1>1. frames' = [s \in Session |-> restorable(s)]
  <2>1. LoadSnapshot
    BY DEF bootSession
  <2> QED
    BY <2>1 DEF LoadSnapshot
<1>2. phase = "down" /\ phase' = "running" /\ UNCHANGED <<ids, spawn, owner, lastFrame>>
  BY Zenon DEF bootSession
<1>3. PICK up \in SUBSET all :
        /\ bind' = [f \in Frame |-> IF f \in up THEN "held" ELSE "none"]
        /\ owned' = up
        /\ taps' = {f \in up : f = Min(restorable(owner[f]))}
  <2>1. RecreateAll
    BY DEF bootSession
  <2> QED
    BY <2>1, Zenon DEF RecreateAll
<1>4. \A f \in all : f \in Frame /\ owner[f] \in Session /\ f \in restorable(owner[f])
  <2> SUFFICES ASSUME NEW s \in Session, NEW f \in restorable(s)
               PROVE  f \in Frame /\ owner[f] = s
    OBVIOUS
  <2>1. f \in disk[s].frames
    BY DEF restorable
  <2> QED
    BY <2>1 DEF FrameInv
<1> HIDE DEF all
<1>5. \A f \in owned' \cup taps' : Placed(f)'
  BY <1>1, <1>2, <1>3, <1>4 DEF Placed
<1>6. owned' \subseteq Frame /\ taps' \subseteq Frame /\ ids' = {}
  BY <1>2, <1>3, <1>4 DEF ReleaseInv
<1>7. bind' \in [Frame -> {"none", "held"}]
  BY <1>3
<1>8. \A f \in Frame : bind'[f] # "none" => f \in owned'
  BY <1>3
<1> QED
  BY <1>2, <1>5, <1>6, <1>7, <1>8 DEF ReleaseInv

-----------------------------------------------------------------------------
\* The other actions neither bind nor place a frame.
LEMMA IdleActions ==
    ASSUME ReleaseInv,
           \/ \E s \in Session, f \in Frame : SetHeadFrame(s, f)
           \/ \E f \in Frame : DriverHook(f) \/ \E how \in {"clean", "crash"} : ExitProcess(f, how)
           \/ reconcileWindows \/ reduceShutdown \/ reduceShutdownSaveFailed
           \/ UNCHANGED vars
    PROVE  ReleaseInv'
<1> DEFINE Q == /\ UNCHANGED <<owner, frames, owned, ids, taps, spawn, bind, lastFrame>>
                /\ phase' = "down" => phase = "down"
<1>1. ASSUME NEW s \in Session, NEW f \in Frame, SetHeadFrame(s, f) PROVE Q
  BY <1>1, Zenon DEF SetHeadFrame, loopVars, worldVars
<1>2. ASSUME NEW f \in Frame, DriverHook(f) PROVE Q
  BY <1>2, Zenon DEF DriverHook, loopVars, worldVars
<1>3. ASSUME NEW f \in Frame, NEW how, ExitProcess(f, how) PROVE Q
  BY <1>3, Zenon DEF ExitProcess, sessionVars, loopVars, countVars
<1>4. ASSUME reconcileWindows PROVE Q
  BY <1>4, Zenon DEF reconcileWindows, sessionVars, loopVars, worldVars, countVars
<1>5. ASSUME reduceShutdown PROVE Q
  <2>1. UNCHANGED <<owner, frames, owned, ids, taps, spawn, bind, lastFrame>>
    BY <1>5, Zenon DEF reduceShutdown, sessionVars, loopVars, worldVars
  <2>2. phase' # "down"
    BY <1>5 DEF reduceShutdown
  <2> QED
    BY <2>1, <2>2
<1>6. ASSUME reduceShutdownSaveFailed PROVE Q
  <2>1. UNCHANGED <<owner, frames, owned, ids, taps, spawn, bind, lastFrame>>
    BY <1>6, Zenon DEF reduceShutdownSaveFailed, sessionVars, loopVars, worldVars, countVars
  <2>2. phase' # "down"
    BY <1>6 DEF reduceShutdownSaveFailed
  <2> QED
    BY <2>1, <2>2
<1>7. ASSUME UNCHANGED vars PROVE Q
  BY <1>7, Zenon DEF vars, sessionVars, loopVars, worldVars, countVars
<1>8. Q
  BY <1>1, <1>2, <1>3, <1>4, <1>5, <1>6, <1>7, Zenon
<1> QED
  BY <1>8, IdleReleases

\* Every step keeps the invariant.
LEMMA ReleaseInvStep ==
    ASSUME ReleaseInv, FrameInv, LedgerInv, Next \/ UNCHANGED vars
    PROVE  ReleaseInv'
<1>1. CASE CreateSession \/ ForkSession \/ \E s \in Session : PushDriver(s)
  BY <1>1, CreateReleases DEF CreateSession, ForkSession
<1>2. ASSUME NEW s \in Session, StopSession(s) \/ RemoveBackend(s)
      PROVE  ReleaseInv'
  BY <1>2, StopReleases, RemoveReleases
<1>3. ASSUME NEW f \in Frame,
             \/ handleSpawnComplete(f)
             \/ Ensure(f) \/ BindFrame(f) \/ SpawnFrame(f) \/ FailSpawn(f)
             \/ recoverSpawnPanic(f) \/ ReleaseDiscarded(f)
      PROVE  ReleaseInv'
  BY <1>3, CompleteReleases, SpawnStepReleases
<1>4. CASE HandleEvent
  BY <1>4, EventReleases
<1>5. CASE \/ finalPersistFlush \/ Crash \/ bootSession
           \/ \E s \in Session : CrashInStop(s)
  BY <1>5, DownReleases, BootReleases
<1> QED
  BY <1>1, <1>2, <1>3, <1>4, <1>5, IdleActions, Zenon DEF Next

\* At first nothing is held.
LEMMA ReleaseInvInit == Init => ReleaseInv
BY DEF Init, ReleaseInv

\* A frame that has left its session holds nothing once its goroutine is done,
\* wherever the spawn was when the frame was evicted (handleSpawnComplete,
\* discardSpawnResult, frameTeardownEffects).
THEOREM ReleasedFramesHoldNothingHolds == Spec => []ReleasedFramesHoldNothing
<1>1. Init => ReleaseInv
  BY ReleaseInvInit
<1>2. ReleaseInv /\ FrameInv /\ LedgerInv /\ [Next]_vars => ReleaseInv'
  BY ReleaseInvStep
<1>3. ReleaseInv => ReleasedFramesHoldNothing
  BY ReleaseInvImplies
<1>4. Spec => []FrameInv /\ []LedgerInv
  BY FramesBelongHolds, LedgerInvHolds
<1> QED
  BY <1>1, <1>2, <1>3, <1>4, PTL DEF Spec

-----------------------------------------------------------------------------
(* Requests that are not answered.                                          *)

\* The failure of frame f is on its way to the loop.
Failing(f) == \E i \in DOMAIN events : events[i] = [type |-> "spawnFailed", frame |-> f]

TrackInv ==
    /\ spawn \in [Frame -> {"none", "ensure", "ensured", "bound", "done", "discard", "panicked"}]
    /\ reply \in [Frame -> {"none", "owed", "answered", "lost"}]
    /\ events \in Seq(Event) /\ Len(events) <= EventCap
    /\ RequestIsTracked

ProcInv == proc \in [Frame -> {"none", "alive", "clean", "crash"}]

\* Min of two capacities.
LEMMA MinOfTwo ==
    ASSUME NEW a \in Nat, NEW b \in Nat
    PROVE  Min({a, b}) = IF a <= b THEN a ELSE b
<1>1. \E x \in {a, b} : \A y \in {a, b} : x <= y
  BY SMTT(30)
<1>2. Min({a, b}) \in {a, b} /\ \A y \in {a, b} : Min({a, b}) <= y
  BY <1>1, Zenon DEF Min
<1> QED  BY <1>2

\* Enqueue keeps what is queued, and takes what fits.
LEMMA EnqueueKeeps ==
    ASSUME events \in Seq(Event), Len(events) <= EventCap, NEW evs \in Seq(Event), Enqueue(evs)
    PROVE  /\ events' \in Seq(Event) /\ Len(events') <= EventCap
           /\ DOMAIN events \subseteq DOMAIN events' /\ \A i \in DOMAIN events : events'[i] = events[i]
           /\ Len(events) < EventCap /\ Len(evs) = 1 =>
                Len(events) + 1 \in DOMAIN events' /\ events'[Len(events) + 1] = evs[1]
<1> DEFINE m == Min({EventCap, Len(events) + Len(evs)})
           c == events \o evs
<1>1. EventCap \in Nat /\ Len(events) \in Nat /\ Len(evs) \in Nat
  BY ConstantsAssumption
<1>2. m = IF EventCap <= Len(events) + Len(evs) THEN EventCap ELSE Len(events) + Len(evs)
  <2>1. Len(events) + Len(evs) \in Nat
    BY <1>1
  <2> QED  BY <1>1, <2>1, MinOfTwo, Zenon
<1>3. c \in Seq(Event) /\ Len(c) = Len(events) + Len(evs) /\ \A i \in DOMAIN events : c[i] = events[i]
  OBVIOUS
<1>4. Len(evs) = 1 => c[Len(events) + 1] = evs[1]
  <2>1. \A i \in 1 .. Len(evs) : c[Len(events) + i] = evs[i]
    OBVIOUS
  <2> HIDE DEF c
  <2> QED  BY <1>1, <2>1, SMTT(30)
<1>5. events' = SubSeq(c, 1, m)
  BY DEF Enqueue
<1> HIDE DEF m, c
<1>6. m \in Nat /\ m <= EventCap /\ Len(events) <= m /\ m <= Len(c)
  BY <1>1, <1>2, <1>3
<1>7. events' \in Seq(Event) /\ Len(events') = m /\ \A i \in 1 .. m : events'[i] = c[i]
  BY <1>3, <1>5, <1>6
<1>8. DOMAIN events = 1 .. Len(events) /\ DOMAIN events' = 1 .. m
  BY <1>7
<1>9. Len(events) < EventCap /\ Len(evs) = 1 => Len(events) + 1 \in 1 .. m
  BY <1>1, <1>2
<1> QED  BY <1>1, <1>3, <1>4, <1>6, <1>7, <1>8, <1>9, SMTT(30)

\* Queued events stay queued.
LEMMA FailingKept ==
    ASSUME DOMAIN events \subseteq DOMAIN events', \A i \in DOMAIN events : events'[i] = events[i],
           NEW f, Failing(f)
    PROVE  Failing(f)'
BY DEF Failing

\* The request of frame f was and stays tracked.
LEMMA TrackedStays ==
    ASSUME TrackInv, NEW f \in Frame, reply'[f] = reply[f],
           spawn'[f] = spawn[f] \/ spawn'[f] \in {"ensure", "ensured", "bound", "done"}
              \/ spawn[f] \notin {"ensure", "ensured", "bound", "done"},
           Failing(f) => Failing(f)', reply'[f] = "owed"
    PROVE  spawn'[f] \in {"ensure", "ensured", "bound", "done"} \/ Failing(f)'
BY Zenon DEF TrackInv, RequestIsTracked, Failing

\* A step that answers or keeps the request of every frame keeps the invariant.
LEMMA TrackedAll ==
    ASSUME TrackInv,
           spawn' \in [Frame -> {"none", "ensure", "ensured", "bound", "done", "discard", "panicked"}],
           reply' \in [Frame -> {"none", "owed", "answered", "lost"}],
           events' \in Seq(Event), Len(events') <= EventCap,
           \A f \in Frame : reply'[f] = "owed" => spawn'[f] \in {"ensure", "ensured", "bound", "done"} \/ Failing(f)'
    PROVE  TrackInv'
BY Zenon DEF TrackInv, RequestIsTracked, Failing

\* A step that touches none of the three.
LEMMA TrackedQuiet ==
    ASSUME TrackInv, UNCHANGED <<spawn, reply, events>>
    PROVE  TrackInv'
BY DEF TrackInv, RequestIsTracked

\* A request whose spawn starts is tracked by that spawn.
LEMMA TrackedSpawn ==
    ASSUME TrackInv, NEW s, NEW f \in Frame, SpawnEffect(s, f), events' = events
    PROVE  TrackInv'
<1>1. spawn' = [spawn EXCEPT ![f] = "ensure"] /\ reply' = [reply EXCEPT ![f] = "owed"]
  BY DEF SpawnEffect
<1>2. /\ spawn' \in [Frame -> {"none", "ensure", "ensured", "bound", "done", "discard", "panicked"}]
      /\ reply' \in [Frame -> {"none", "owed", "answered", "lost"}]
      /\ spawn'[f] = "ensure" /\ \A g \in Frame \ {f} : spawn'[g] = spawn[g] /\ reply'[g] = reply[g]
  BY <1>1 DEF TrackInv
<1>3. \A g : Failing(g)' <=> Failing(g)
  BY DEF Failing
<1>4. \A g \in Frame : reply'[g] = "owed" => spawn'[g] \in {"ensure", "ensured", "bound", "done"} \/ Failing(g)'
  BY <1>2, <1>3, TrackedStays
<1>5. events' \in Seq(Event) /\ Len(events') <= EventCap
  BY DEF TrackInv
<1> QED  BY <1>2, <1>4, <1>5, TrackedAll

\* The goroutine goes on.
LEMMA TrackedGoes ==
    ASSUME TrackInv, NEW f \in Frame, NEW x \in {"none", "ensured", "bound", "done"},
           x = "none" => spawn[f] = "discard",
           spawn' = [spawn EXCEPT ![f] = x], UNCHANGED <<reply, events>>
    PROVE  TrackInv'
<1>1. /\ spawn' \in [Frame -> {"none", "ensure", "ensured", "bound", "done", "discard", "panicked"}]
      /\ spawn'[f] = x /\ \A g \in Frame \ {f} : spawn'[g] = spawn[g]
  BY DEF TrackInv
<1>2. \A g : Failing(g)' <=> Failing(g)
  BY DEF Failing
<1>3. \A g \in Frame : reply'[g] = "owed" => spawn'[g] \in {"ensure", "ensured", "bound", "done"} \/ Failing(g)'
  BY <1>1, <1>2, TrackedStays
<1>4. reply' \in [Frame -> {"none", "owed", "answered", "lost"}] /\ events' \in Seq(Event) /\ Len(events') <= EventCap
  BY DEF TrackInv
<1> QED  BY <1>1, <1>3, <1>4, TrackedAll

\* An answer.
LEMMA Answered ==
    ASSUME TrackInv, NEW f \in Frame, NEW r \in {"answered", "lost"}
    PROVE  /\ Answer(f, r) \in [Frame -> {"none", "owed", "answered", "lost"}]
           /\ Answer(f, r)[f] # "owed"
           /\ \A g \in Frame \ {f} : Answer(f, r)[g] = reply[g]
BY DEF TrackInv, Answer

\* The goroutine fails: the failure is queued, or dropped and the request lost.
LEMMA TrackedFails ==
    ASSUME TrackInv, NEW f \in Frame, NEW x \in {"none", "panicked"},
           spawn' = [spawn EXCEPT ![f] = x], sendFailed(f)
    PROVE  TrackInv'
<1> DEFINE e == [type |-> "spawnFailed", frame |-> f]
<1>1. e \in Event
  BY DEF Event
<1>2. Enqueue(<<e>>) /\ <<e>> \in Seq(Event) /\ Len(<<e>>) = 1 /\ <<e>>[1] = e
  BY <1>1 DEF sendFailed
<1>3. reply' = IF Len(events) < EventCap THEN reply ELSE Answer(f, "lost")
  BY DEF sendFailed
<1>4. events \in Seq(Event) /\ Len(events) <= EventCap
  BY DEF TrackInv
<1>5. /\ events' \in Seq(Event) /\ Len(events') <= EventCap
      /\ DOMAIN events \subseteq DOMAIN events' /\ \A i \in DOMAIN events : events'[i] = events[i]
      /\ Len(events) < EventCap => Len(events) + 1 \in DOMAIN events' /\ events'[Len(events) + 1] = e
  <2> HIDE DEF e
  <2> QED  BY Zenon, <1>2, <1>4, EnqueueKeeps
<1>6. Len(events) < EventCap => Failing(f)'
  BY <1>5 DEF Failing
<1>7. \A g : Failing(g) => Failing(g)'
  BY <1>5, FailingKept
<1>8. /\ spawn' \in [Frame -> {"none", "ensure", "ensured", "bound", "done", "discard", "panicked"}]
      /\ \A g \in Frame \ {f} : spawn'[g] = spawn[g]
  BY DEF TrackInv
<1>9. /\ reply' \in [Frame -> {"none", "owed", "answered", "lost"}]
      /\ ~(Len(events) < EventCap) => reply'[f] # "owed"
      /\ \A g \in Frame \ {f} : reply'[g] = reply[g]
  <2>1. CASE Len(events) < EventCap
    BY <1>3, <2>1 DEF TrackInv
  <2>2. CASE ~(Len(events) < EventCap)
    BY <1>3, <2>2, Answered
  <2> QED  BY <2>1, <2>2
<1>10. ASSUME NEW g \in Frame, reply'[g] = "owed"
       PROVE  spawn'[g] \in {"ensure", "ensured", "bound", "done"} \/ Failing(g)'
  <2>1. CASE g = f
    BY <1>6, <1>9, <1>10, <2>1
  <2>2. CASE g # f
    BY <1>7, <1>8, <1>9, <1>10, <2>2, TrackedStays
  <2> QED  BY <2>1, <2>2
<1> QED  BY <1>5, <1>8, <1>9, <1>10, TrackedAll

\* The loop takes an event; the one that answers a request answers it as it goes.
LEMMA TrackedEvent ==
    ASSUME TrackInv, HandleEvent
    PROVE  TrackInv'
<1> DEFINE e == Head(events)
<1>1. events \in Seq(Event) /\ Len(events) <= EventCap /\ events # <<>> /\ events' = Tail(events) /\ spawn' = spawn
  BY DEF HandleEvent, TrackInv
<1>2. e \in Event /\ e.frame \in Frame /\ e = events[1]
  <2>1. e \in Event /\ e = events[1]
    BY <1>1
  <2> HIDE DEF e
  <2>2. e.frame \in Frame
    BY <2>1 DEF Event
  <2> QED  BY <2>1, <2>2
<1>3. \/ reply' = reply /\ e.type # "spawnFailed"
      \/ \E r \in {"answered", "lost"} : reply' = Answer(e.frame, r)
  BY Zenon DEF HandleEvent, reduceSpawnFailed, reduceFrameVanished, reduceFrameCommandExited
<1>4. /\ events' \in Seq(Event) /\ Len(events') <= EventCap
      /\ \A i \in DOMAIN events : i # 1 => i - 1 \in DOMAIN events' /\ events'[i - 1] = events[i]
  BY <1>1, ConstantsAssumption
<1> HIDE DEF e
<1>5. reply' \in [Frame -> {"none", "owed", "answered", "lost"}]
  BY <1>2, <1>3, Answered, SMTT(30) DEF TrackInv
<1>6. ASSUME NEW f \in Frame, reply'[f] = "owed"
      PROVE  reply'[f] = reply[f] /\ e # [type |-> "spawnFailed", frame |-> f]
  <2>1. CASE reply' = reply /\ e.type # "spawnFailed"
    BY <2>1
  <2>2. ASSUME NEW r \in {"answered", "lost"}, reply' = Answer(e.frame, r)
        PROVE  f # e.frame /\ reply'[f] = reply[f]
    BY <1>2, <1>6, <2>2, Answered, SMTT(30)
  <2>3. e = [type |-> "spawnFailed", frame |-> f] => e.frame = f
    OBVIOUS
  <2> QED  BY <1>3, <2>1, <2>2, <2>3
<1>7. ASSUME NEW f \in Frame, reply'[f] = "owed", Failing(f) PROVE Failing(f)'
  <2>1. PICK i \in DOMAIN events : events[i] = [type |-> "spawnFailed", frame |-> f]
    BY <1>7 DEF Failing
  <2>2. i # 1
    BY <1>2, <1>6, <1>7, <2>1
  <2> QED  BY <1>4, <2>1, <2>2 DEF Failing
<1>8. \A f \in Frame : reply'[f] = "owed" => spawn'[f] \in {"ensure", "ensured", "bound", "done"} \/ Failing(f)'
  BY <1>1, <1>6, <1>7, TrackedStays
<1>9. spawn' \in [Frame -> {"none", "ensure", "ensured", "bound", "done", "discard", "panicked"}]
  BY <1>1 DEF TrackInv
<1> QED  BY <1>4, <1>5, <1>8, <1>9, TrackedAll

\* The result of a spawn answers its request, whether it is registered or discarded.
LEMMA TrackedComplete ==
    ASSUME TrackInv, NEW f \in Frame, handleSpawnComplete(f)
    PROVE  TrackInv'
<1>1. /\ events' = events
      /\ \E x \in {"none", "discard"} : spawn' = [spawn EXCEPT ![f] = x]
      /\ \E r \in {"answered", "lost"} : reply' = Answer(f, r)
  BY DEF handleSpawnComplete, RegisterSpawn, DiscardSpawn
<1>2. /\ spawn' \in [Frame -> {"none", "ensure", "ensured", "bound", "done", "discard", "panicked"}]
      /\ \A g \in Frame \ {f} : spawn'[g] = spawn[g]
  BY <1>1 DEF TrackInv
<1>3. /\ reply' \in [Frame -> {"none", "owed", "answered", "lost"}] /\ reply'[f] # "owed"
      /\ \A g \in Frame \ {f} : reply'[g] = reply[g]
  BY <1>1, Answered, SMTT(30)
<1>4. \A g : Failing(g)' <=> Failing(g)
  BY <1>1 DEF Failing
<1>5. \A g \in Frame : reply'[g] = "owed" => spawn'[g] \in {"ensure", "ensured", "bound", "done"} \/ Failing(g)'
  BY <1>2, <1>3, <1>4, TrackedStays
<1>6. events' \in Seq(Event) /\ Len(events') <= EventCap
  BY <1>1 DEF TrackInv
<1> QED  BY <1>2, <1>3, <1>5, <1>6, TrackedAll

\* What reconcileWindows finds fits in a sequence: there are finitely many frames.
LEMMA FoundEvents ==
    ASSUME NEW X \in SUBSET Frame, ProcInv,
           \A f \in X : proc[f] # "alive", NEW evs \in Orders({Probe(f) : f \in X})
    PROVE  evs \in Seq(Event)
<1> DEFINE T == {Probe(f) : f \in X}
           F == [f \in X |-> Probe(f)]
<1>1. IsFiniteSet(X)
  <2>1. MaxFrames \in Int /\ 1 \in Int
    BY ConstantsAssumption
  <2>2. IsFiniteSet(Frame)
    BY <2>1, FS_Interval, Zenon DEF Frame
  <2> QED  BY <2>2, FS_Subset
<1>2. F \in Surjection(X, T)
  BY DEF Surjection
<1>3. \A f \in X : Probe(f) \in Event
  BY DEF Probe, Event, ProcInv
<1>4. T \subseteq Event
  BY <1>3
<1>5. evs \in [1 .. Cardinality(T) -> T]
  BY DEF Orders
<1> HIDE DEF T, F
<1>6. IsFiniteSet(T)
  BY <1>1, <1>2, FS_Surjection
<1>7. Cardinality(T) \in Nat
  BY <1>6, FS_CardinalityType
<1>8. evs \in [1 .. Cardinality(T) -> Event]
  BY <1>4, <1>5
<1> QED  BY <1>7, <1>8

\* The reports of a reconciliation leave every request tracked.
LEMMA TrackedReconcile ==
    ASSUME TrackInv, ProcInv, reconcileWindows
    PROVE  TrackInv'
<1> DEFINE X == {g \in Frame : Placed(g) /\ g \notin pending /\ proc[g] # "alive"}
<1>1. PICK evs \in Orders({Probe(f) : f \in X}) : Enqueue(evs)
  BY DEF reconcileWindows
<1>2. UNCHANGED <<spawn, reply>>
  BY DEF reconcileWindows, worldVars
<1>3. X \in SUBSET Frame /\ \A f \in X : proc[f] # "alive"
  OBVIOUS
<1> HIDE DEF X
<1>4. evs \in Seq(Event)
  BY <1>1, <1>3, FoundEvents
<1>5. events \in Seq(Event) /\ Len(events) <= EventCap
  BY DEF TrackInv
<1>6. /\ events' \in Seq(Event) /\ Len(events') <= EventCap
      /\ DOMAIN events \subseteq DOMAIN events' /\ \A i \in DOMAIN events : events'[i] = events[i]
  BY <1>1, <1>4, <1>5, EnqueueKeeps
<1>7. \A g : Failing(g) => Failing(g)'
  BY <1>6, FailingKept
<1>8. \A g \in Frame : reply'[g] = "owed" => spawn'[g] \in {"ensure", "ensured", "bound", "done"} \/ Failing(g)'
  BY <1>2, <1>7, TrackedStays
<1>9. /\ spawn' \in [Frame -> {"none", "ensure", "ensured", "bound", "done", "discard", "panicked"}]
      /\ reply' \in [Frame -> {"none", "owed", "answered", "lost"}]
  BY <1>2 DEF TrackInv
<1> QED  BY <1>6, <1>8, <1>9, TrackedAll

\* A daemon that goes down leaves no request owed.
LEMMA TrackedDown ==
    ASSUME TrackInv, GoDown
    PROVE  TrackInv'
<1>1. /\ events' = <<>> /\ spawn' = [f \in Frame |-> "none"]
      /\ reply' = [f \in Frame |-> IF reply[f] = "owed" THEN "lost" ELSE reply[f]]
  BY DEF GoDown
<1>2. /\ reply' \in [Frame -> {"none", "owed", "answered", "lost"}]
      /\ \A f \in Frame : reply'[f] # "owed"
  BY <1>1 DEF TrackInv
<1>3. events' \in Seq(Event) /\ Len(events') <= EventCap
  BY <1>1, ConstantsAssumption
<1>4. spawn' \in [Frame -> {"none", "ensure", "ensured", "bound", "done", "discard", "panicked"}]
  BY <1>1
<1> QED  BY <1>2, <1>3, <1>4, TrackedAll

\* Every step keeps the requests tracked.
LEMMA TrackedStep ==
    ASSUME TrackInv, ProcInv, Next \/ UNCHANGED vars
    PROVE  TrackInv'
<1>1. ASSUME \E s \in Session, f \in Frame : SpawnEffect(s, f) /\ events' = events PROVE TrackInv'
  BY <1>1, TrackedSpawn
<1>2. CASE CreateSession \/ ForkSession
  BY <1>1, <1>2, Zenon DEF CreateSession, ForkSession, NewSession
<1>3. ASSUME NEW s \in Session, PushDriver(s) PROVE TrackInv'
  BY <1>1, <1>3, Zenon DEF PushDriver
<1>4. ASSUME NEW s \in Session, StopSession(s) \/ RemoveBackend(s) PROVE TrackInv'
  BY <1>4, TrackedQuiet, Zenon DEF StopSession, RemoveBackend
<1>5. ASSUME NEW s \in Session, NEW f \in Frame, SetHeadFrame(s, f) PROVE TrackInv'
  BY <1>5, TrackedQuiet DEF SetHeadFrame, worldVars
<1>6. ASSUME NEW f \in Frame, DriverHook(f) \/ \E how \in {"clean", "crash"} : ExitProcess(f, how)
      PROVE  TrackInv'
  <2>1. UNCHANGED <<spawn, reply, events>>
    BY <1>6, Zenon DEF DriverHook, ExitProcess, worldVars
  <2> QED  BY <2>1, TrackedQuiet
<1>7. ASSUME NEW f \in Frame, Ensure(f) \/ BindFrame(f) \/ SpawnFrame(f) \/ ReleaseDiscarded(f)
      PROVE  TrackInv'
  <2>1. \E x \in {"none", "ensured", "bound", "done"} :
          /\ x = "none" => spawn[f] = "discard"
          /\ spawn' = [spawn EXCEPT ![f] = x]
          /\ UNCHANGED <<reply, events>>
    BY <1>7 DEF Ensure, BindFrame, SpawnFrame, ReleaseDiscarded
  <2> QED  BY Zenon, <2>1, TrackedGoes
<1>8. ASSUME NEW f \in Frame, FailSpawn(f) \/ recoverSpawnPanic(f) PROVE TrackInv'
  <2>1. (\E x \in {"none", "panicked"} : spawn' = [spawn EXCEPT ![f] = x]) /\ sendFailed(f)
    BY <1>8 DEF FailSpawn, recoverSpawnPanic
  <2> QED  BY Zenon, <2>1, TrackedFails
<1>9. CASE reduceShutdown \/ reduceShutdownSaveFailed \/ bootSession \/ UNCHANGED vars
  <2>1. UNCHANGED <<spawn, reply, events>>
    BY <1>9, Zenon DEF reduceShutdown, reduceShutdownSaveFailed, bootSession, vars, worldVars
  <2> QED  BY <2>1, TrackedQuiet
<1>10. CASE finalPersistFlush \/ Crash \/ \E s \in Session : CrashInStop(s)
  BY <1>10, TrackedDown DEF finalPersistFlush, Crash, CrashInStop
<1> QED
  BY <1>2, <1>3, <1>4, <1>5, <1>6, <1>7, <1>8, <1>9, <1>10, TrackedEvent, TrackedComplete,
     TrackedReconcile, Zenon DEF Next

\* The values of proc.
LEMMA ProcStep ==
    ASSUME ProcInv, Next \/ UNCHANGED vars
    PROVE  ProcInv'
<1>1. CASE UNCHANGED proc
  BY <1>1 DEF ProcInv
<1>2. ASSUME NEW F, NEW kill \in BOOLEAN, frameTeardownEffects(F, kill) PROVE ProcInv'
  BY <1>2 DEF frameTeardownEffects, ProcInv
<1>3. ASSUME NEW f, NEW kill \in BOOLEAN, NEW row, evictFrame(f, kill, row) PROVE ProcInv'
  BY <1>2, <1>3, Zenon DEF evictFrame, evictRootFrame, evictChildFrame
<1>4. CASE HandleEvent
  BY <1>1, <1>3, <1>4, Zenon DEF HandleEvent, reduceSpawnFailed, reduceFrameVanished, reduceFrameCommandExited
<1>5. ASSUME NEW f \in Frame, NEW x \in {"none", "alive", "clean", "crash"}, proc' = [proc EXCEPT ![f] = x]
      PROVE  ProcInv'
  BY <1>5 DEF ProcInv
<1>6. ASSUME NEW f \in Frame, \/ handleSpawnComplete(f) \/ SpawnFrame(f)
                              \/ \E how \in {"clean", "crash"} : ExitProcess(f, how)
      PROVE  ProcInv'
  <2>1. UNCHANGED proc \/ \E x \in {"none", "alive", "clean", "crash"} : proc' = [proc EXCEPT ![f] = x]
    BY <1>6 DEF handleSpawnComplete, RegisterSpawn, DiscardSpawn, SpawnFrame, ExitProcess
  <2> QED  BY <1>1, <1>5, <2>1
<1>7. CASE (\E s \in Session : StopSession(s))
  BY <1>2, <1>7, Zenon DEF StopSession
<1>8. CASE \/ finalPersistFlush \/ Crash \/ bootSession
           \/ \E s \in Session : CrashInStop(s)
  <2>1. CASE bootSession
    <3>1. \E U : proc' = [f \in Frame |-> IF f \in U THEN "alive" ELSE "none"]
      BY <2>1, Zenon DEF bootSession, RecreateAll
    <3> QED  BY <3>1 DEF ProcInv
  <2>2. CASE GoDown
    BY <2>2 DEF GoDown, ProcInv
  <2> QED  BY <1>8, <2>1, <2>2 DEF finalPersistFlush, Crash, CrashInStop
<1>9. CASE \/ CreateSession \/ ForkSession \/ \E s \in Session : PushDriver(s) \/ RemoveBackend(s)
           \/ \E s \in Session, f \in Frame : SetHeadFrame(s, f)
  BY <1>1, <1>9, Zenon DEF CreateSession, ForkSession, NewSession, PushDriver,
     RemoveBackend, SetHeadFrame, worldVars
<1>10. ASSUME NEW f \in Frame, \/ DriverHook(f) \/ Ensure(f) \/ BindFrame(f)
                               \/ FailSpawn(f) \/ recoverSpawnPanic(f) \/ ReleaseDiscarded(f)
       PROVE  ProcInv'
  BY <1>1, <1>10, Zenon DEF DriverHook, Ensure, BindFrame, FailSpawn, recoverSpawnPanic,
     ReleaseDiscarded, worldVars
<1>11. CASE reconcileWindows \/ reduceShutdown \/ reduceShutdownSaveFailed \/ UNCHANGED vars
  BY <1>1, <1>11, Zenon DEF reconcileWindows, reduceShutdown, reduceShutdownSaveFailed, vars, worldVars
<1> QED  BY <1>4, <1>6, <1>7, <1>8, <1>9, <1>10, <1>11, Zenon DEF Next

\* A create or push request that is not answered yet is tracked: its frame is being
\* spawned or its failure is queued, whatever stops, exits or goes down meanwhile.
THEOREM RequestsAreTracked == Spec => []RequestIsTracked
<1>1. Init => TrackInv /\ ProcInv
  BY ConstantsAssumption, SMTT(30) DEF Init, TrackInv, ProcInv, RequestIsTracked
<1>2. TrackInv /\ ProcInv /\ [Next]_vars => TrackInv' /\ ProcInv'
  BY TrackedStep, ProcStep
<1>3. TrackInv => RequestIsTracked
  BY DEF TrackInv
<1> QED  BY <1>1, <1>2, <1>3, PTL DEF Spec
=============================================================================
