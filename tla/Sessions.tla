------------------------------ MODULE Sessions ------------------------------
(* Sessions and their frames in the host daemon: the reducers that create,  *)
(* stop and evict them, the goroutines that spawn a frame, the backend that *)
(* the frames of a session share, the files the sessions are kept in, and   *)
(* the cold start that reads them back.                                     *)
EXTENDS Naturals, FiniteSets, Sequences, FiniteSetsExt

CONSTANTS
    MaxSessions,      \* bound on the session ids allocated
    MaxFrames,        \* bound on the frame ids allocated
    Recoverable,      \* frames whose driver restores a stopped frame
    EventCap,         \* capacity of Runtime.eventCh
    MruCap,           \* longest MRU list kept
    MaxSaveFailures,  \* bound on the writes and deletions of files that fail
    MaxStops          \* bound on the times the daemon goes down

Session == 1..MaxSessions
Frame == 1..MaxFrames
NoFrame == 0
NoRecord == [frames |-> {}, stopped |-> {}, head |-> NoFrame, mru |-> <<>>]

ASSUME ConstantsAssumption ==
    /\ MaxSessions \in Nat /\ MaxFrames \in Nat /\ EventCap \in Nat
    /\ MruCap \in Nat /\ MaxSaveFailures \in Nat /\ MaxStops \in Nat
    /\ Recoverable \subseteq Frame

VARIABLES
    \* State.Sessions. Frames are appended in the order of their ids, so a set
    \* of ids is the list and the least id its root.
    status,   \* "absent", "live" or "ended" (EndedAt set)
    frames, stopped, head, mru,
    \* Runtime, owned by the event loop
    phase,    \* "running", "quiescing", "unsaved" (save barrier failed), "down"
    events,   \* eventCh
    pending,  \* pendingSpawns
    owned,    \* frameSubsystems and the frame registry
    ids,      \* frameSubsystemIDs
    taps,     \* frames with a tap
    \* goroutines, processes and the shared backends
    spawn,    \* "none", "ensure", "ensured", "bound", "done", "discard", "panicked"
    bind,     \* the frame in the backend it was given: "none", "held"
    proc,     \* its pty session: "none", "alive", "clean", "crash"
    backend,  \* sessions whose backend is in the factory and runs
    removing, \* sessions with a Reaper.Remove under way
    \* the files, the requests and what was allocated
    disk, reply, owner,
    gone,      \* sessions the user stopped while they were live
    undeleted, \* those of them whose file was not deleted
    lastSession, lastFrame, saveFailures, stops

sessionVars == <<status, frames, stopped, head, mru>>
loopVars == <<pending, owned, ids, taps>>
worldVars == <<spawn, bind, proc, backend, removing>>
stopVars == <<gone, undeleted>>
countVars == <<lastSession, lastFrame, saveFailures, stops>>
vars == <<sessionVars, phase, events, loopVars, worldVars,
          disk, reply, owner, stopVars, countVars>>

-----------------------------------------------------------------------------
Event == [type: {"spawnFailed", "vanished", "clean", "crash"}, frame: Frame]

Record == [frames: SUBSET Frame, stopped: SUBSET Frame,
           head: Frame \cup {NoFrame}, mru: Seq(Frame)]

Live == {s \in Session : status[s] = "live"}
Durable == {s \in Session : disk[s] # NoRecord}
Placed(f) == owner[f] \in Session /\ f \in frames[owner[f]]
Root(s) == Min(frames[s])

Init ==
    /\ status = [s \in Session |-> "absent"]
    /\ frames = [s \in Session |-> {}]
    /\ stopped = {}
    /\ head = [s \in Session |-> NoFrame]
    /\ mru = [s \in Session |-> <<>>]
    /\ phase = "running"
    /\ events = <<>>
    /\ pending = {} /\ owned = {} /\ ids = {} /\ taps = {}
    /\ spawn = [f \in Frame |-> "none"]
    /\ bind = [f \in Frame |-> "none"]
    /\ proc = [f \in Frame |-> "none"]
    /\ backend = {} /\ removing = {}
    /\ disk = [s \in Session |-> NoRecord]
    /\ reply = [f \in Frame |-> "none"]
    /\ owner = [f \in Frame |-> 0]
    /\ gone = {} /\ undeleted = {}
    /\ lastSession = 0 /\ lastFrame = 0 /\ saveFailures = 0 /\ stops = 0

-----------------------------------------------------------------------------
(* Session files. A save upserts the live sessions and stops at the first   *)
(* file that cannot be written; the order is that of a Go map.              *)

snapshotSessions ==
    [s \in Live |-> [frames |-> frames[s], stopped |-> stopped \cap frames[s],
                     head |-> head[s], mru |-> mru[s]]]

\* Another write or deletion may fail.
FileMayFail == saveFailures + Cardinality(undeleted) < MaxSaveFailures

Save(base, snaps) ==
    \/ /\ disk' = [s \in Session |-> IF s \in DOMAIN snaps THEN snaps[s] ELSE base[s]]
       /\ UNCHANGED saveFailures
    \/ /\ FileMayFail
       /\ \E W \in SUBSET DOMAIN snaps :
            /\ W # DOMAIN snaps
            /\ disk' = [s \in Session |-> IF s \in W THEN snaps[s] ELSE base[s]]
       /\ saveFailures' = saveFailures + 1

\* Mutant: a session that is no longer live is deleted, whatever ended it
PersistLiveOnly(deleted) == Save([s \in Session |-> NoRecord], snapshotSessions')

\* Mutant: the file of a stopped session is left
PersistKeepsStopped(deleted) == Save(disk, snapshotSessions')

\* reconcilePersist: only the stop of a live session deletes its file.
Persist(deleted) ==
    Save([s \in Session |-> IF s \in deleted THEN NoRecord ELSE disk[s]],
         snapshotSessions')

-----------------------------------------------------------------------------
(* Helpers of the reducers                                                  *)

pushMRU(s) ==
    IF head[s] = NoFrame THEN mru[s]
    ELSE LET m == <<head[s]>> \o SelectSeq(mru[s], LAMBDA g : g # head[s])
         IN  SubSeq(m, 1, Min({MruCap, Len(m)}))

pruneMRU(s, F) == SelectSeq(mru[s], LAMBDA g : g \in F)

\* Runtime.Enqueue drops what does not fit.
Enqueue(evs) ==
    events' = SubSeq(events \o evs, 1, Min({EventCap, Len(events) + Len(evs)}))

\* EffReleaseFrame for each frame of F: the binding, the registration and,
\* when no other frame is recorded for the session's backend, the backend.
ReleaseFrames(F) ==
    LET R == F \cap owned
    IN  /\ owned' = owned \ F
        /\ ids' = ids \ R
        /\ bind' = [f \in Frame |-> IF f \in R THEN "none" ELSE bind[f]]
        /\ removing' = removing \cup
             {s \in Session : /\ \E f \in R \cap ids : owner[f] = s
                              /\ \A g \in ids \ R : owner[g] # s}

frameTeardownEffects(F, kill) ==
    /\ ReleaseFrames(F)
    /\ proc' = [f \in Frame |-> IF kill /\ f \in F THEN "none" ELSE proc[f]]
    /\ taps' = taps \ F
    /\ stopped' = stopped \ F

\* The session row after its frames are gone: "ended" or "absent".
endSession(s, row) ==
    /\ status' = [status EXCEPT ![s] = row]
    /\ frames' = [frames EXCEPT ![s] = {}]
    /\ head' = [head EXCEPT ![s] = NoFrame]
    /\ mru' = [mru EXCEPT ![s] = <<>>]

evictRootFrame(s, kill, row) ==
    /\ endSession(s, row)
    /\ frameTeardownEffects(frames[s], kill)

evictChildFrame(s, f, kill) ==
    LET rest == frames[s] \ {f}
        m    == pruneMRU(s, rest)
        back == head[s] = f
    IN  /\ frames' = [frames EXCEPT ![s] = rest]
        /\ mru' = [mru EXCEPT ![s] = IF back /\ m # <<>> THEN Tail(m) ELSE m]
        /\ head' = [head EXCEPT ![s] = IF ~back THEN @
                                       ELSE IF m # <<>> THEN Head(m) ELSE Min(rest)]
        /\ UNCHANGED status
        /\ frameTeardownEffects({f}, kill)

evictFrame(f, kill, row) ==
    IF f = Root(owner[f]) THEN evictRootFrame(owner[f], kill, row)
                          ELSE evictChildFrame(owner[f], f, kill)

-----------------------------------------------------------------------------
(* Client commands. A quiescing daemon refuses them.                        *)

\* EffSpawnFrame for a new frame f of session s.
SpawnEffect(s, f) ==
    /\ lastFrame' = f
    /\ owner' = [owner EXCEPT ![f] = s]
    /\ pending' = pending \cup {f}
    /\ spawn' = [spawn EXCEPT ![f] = "ensure"]
    /\ reply' = [reply EXCEPT ![f] = "owed"]

NewSession ==
    \E s \in Session, f \in Frame :
        /\ phase = "running"
        /\ s = lastSession + 1 /\ f = lastFrame + 1
        /\ lastSession' = s
        /\ status' = [status EXCEPT ![s] = "live"]
        /\ frames' = [frames EXCEPT ![s] = {f}]
        /\ head' = [head EXCEPT ![s] = f]
        /\ mru' = [mru EXCEPT ![s] = <<>>]
        /\ SpawnEffect(s, f)
        /\ UNCHANGED <<stopped, phase, events, owned, ids, taps, bind, proc,
                       backend, removing, stopVars, stops>>
        /\ Persist({})

CreateSession == NewSession

ForkSession == (\E s \in Session : status[s] # "absent") /\ NewSession

\* Mutant: nothing is saved before the frame has been spawned
PushDriverUnsaved(s) ==
    \E f \in Frame :
        /\ phase = "running" /\ status[s] # "absent"
        /\ f = lastFrame + 1
        /\ mru' = [mru EXCEPT ![s] = pushMRU(s)]
        /\ head' = [head EXCEPT ![s] = f]
        /\ frames' = [frames EXCEPT ![s] = @ \cup {f}]
        /\ SpawnEffect(s, f)
        /\ UNCHANGED <<status, stopped, phase, events, owned, ids, taps, bind, disk,
                       proc, backend, removing, stopVars, lastSession, saveFailures, stops>>

\* An ended session is not refused.
PushDriver(s) ==
    \E f \in Frame :
        /\ phase = "running" /\ status[s] # "absent"
        /\ f = lastFrame + 1
        /\ mru' = [mru EXCEPT ![s] = pushMRU(s)]
        /\ head' = [head EXCEPT ![s] = f]
        /\ frames' = [frames EXCEPT ![s] = @ \cup {f}]
        /\ SpawnEffect(s, f)
        /\ UNCHANGED <<status, stopped, phase, events, owned, ids, taps, bind,
                       proc, backend, removing, stopVars, lastSession, stops>>
        /\ Persist({})

SetHeadFrame(s, f) ==
    /\ phase = "running" /\ f \in frames[s] /\ head[s] # f
    /\ mru' = [mru EXCEPT ![s] = pushMRU(s)]
    /\ head' = [head EXCEPT ![s] = f]
    /\ UNCHANGED <<status, frames, stopped, phase, events, loopVars, worldVars,
                   reply, owner, stopVars, lastSession, lastFrame, stops>>
    /\ Persist({})

\* Only a session that was live is deleted from disk; that its file cannot be
\* deleted is only warned of.
StopSession(s) ==
    /\ phase = "running" /\ status[s] # "absent"
    /\ endSession(s, "ended")
    /\ frameTeardownEffects(frames[s], TRUE)
    /\ LET dead == {s} \cap Live
       IN  \E kept \in SUBSET (dead \cap Durable) :
              /\ kept # {} => FileMayFail
              /\ gone' = gone \cup dead
              /\ undeleted' = (undeleted \ dead) \cup kept
              /\ Persist(dead \ kept)
    /\ UNCHANGED <<phase, events, pending, spawn, backend, reply, owner,
                   lastSession, lastFrame, stops>>

\* A hook of the agent moves its driver into or out of the stopped status.
DriverHook(f) ==
    /\ phase = "running" /\ Placed(f) /\ proc[f] = "alive"
    /\ stopped' = IF f \in stopped THEN stopped \ {f} ELSE stopped \cup {f}
    /\ UNCHANGED <<status, frames, head, mru, phase, events, loopVars, worldVars,
                   reply, owner, stopVars, lastSession, lastFrame, stops>>
    /\ Persist({})

-----------------------------------------------------------------------------
(* The event loop                                                           *)

Answer(f, r) == [reply EXCEPT ![f] = IF @ = "owed" THEN r ELSE @]

reduceSpawnFailed(f) ==
    /\ reply' = Answer(f, "answered")
    /\ IF Placed(f)
       THEN evictFrame(f, FALSE, "absent") /\ Persist({})
       ELSE UNCHANGED <<sessionVars, owned, ids, taps, bind, proc, removing,
                        disk, saveFailures>>

reduceFrameVanished(f) ==
    /\ UNCHANGED reply
    /\ IF Placed(f)
       THEN evictFrame(f, FALSE, "ended") /\ Persist({})
       ELSE UNCHANGED <<sessionVars, owned, ids, taps, bind, proc, removing,
                        disk, saveFailures>>

\* Mutant: a frame that is stopped already is left as it is
CommandExitedStoppedFirst(f, how) ==
    /\ UNCHANGED reply
    /\ \/ /\ ~Placed(f) \/ f \in stopped
          /\ UNCHANGED <<sessionVars, owned, ids, taps, bind, proc, removing,
                         disk, saveFailures>>
       \/ /\ Placed(f) /\ f \notin stopped /\ how = "clean"
          /\ evictFrame(f, TRUE, "ended")
          /\ Persist({})
       \/ /\ Placed(f) /\ f \notin stopped /\ how = "crash"
          /\ ReleaseFrames({f})
          /\ stopped' = stopped \cup {f}
          /\ UNCHANGED <<status, frames, head, mru, proc, taps>>
          /\ Persist({})

\* An intentional exit evicts the frame; a crash keeps it, stopped.
reduceFrameCommandExited(f, how) ==
    /\ UNCHANGED reply
    /\ \/ /\ ~Placed(f)
          /\ UNCHANGED <<sessionVars, owned, ids, taps, bind, proc, removing,
                         disk, saveFailures>>
       \/ /\ Placed(f) /\ how = "clean"
          /\ evictFrame(f, TRUE, "ended")
          /\ Persist({})
       \/ /\ Placed(f) /\ how = "crash"
          /\ ReleaseFrames({f})
          /\ stopped' = stopped \cup {f}
          /\ UNCHANGED <<status, frames, head, mru, proc, taps>>
          /\ IF f \in stopped THEN UNCHANGED <<disk, saveFailures>> ELSE Persist({})

\* A quiescing reducer drops these events; dispatch still forgets the spawn.
HandleEvent ==
    /\ phase \in {"running", "quiescing", "unsaved"} /\ events # <<>>
    /\ events' = Tail(events)
    /\ UNCHANGED <<phase, spawn, backend, owner, stopVars, lastSession, lastFrame, stops>>
    /\ LET e == Head(events)
       IN  /\ pending' = IF e.type = "spawnFailed" THEN pending \ {e.frame} ELSE pending
           /\ IF phase # "running"
              THEN /\ reply' = IF e.type = "spawnFailed" THEN Answer(e.frame, "lost") ELSE reply
                   /\ UNCHANGED <<sessionVars, owned, ids, taps, bind, proc, removing,
                                  disk, saveFailures>>
              ELSE \/ e.type = "spawnFailed" /\ reduceSpawnFailed(e.frame)
                   \/ e.type = "vanished" /\ reduceFrameVanished(e.frame)
                   \/ e.type \in {"clean", "crash"}
                      /\ reduceFrameCommandExited(e.frame, e.type)

\* Mutant: the request of a discarded spawn is not answered
DiscardSpawnSilently(f) ==
    /\ proc' = [proc EXCEPT ![f] = "none"]
    /\ spawn' = [spawn EXCEPT ![f] = "discard"]
    /\ UNCHANGED <<reply, owned, ids, taps, disk, saveFailures>>

\* discardSpawnResult: the frame went while it was spawned.
DiscardSpawn(f) ==
    /\ proc' = [proc EXCEPT ![f] = "none"]
    /\ spawn' = [spawn EXCEPT ![f] = "discard"]
    /\ reply' = Answer(f, IF phase = "running" THEN "answered" ELSE "lost")
    /\ UNCHANGED <<owned, ids, taps, disk, saveFailures>>

\* EvFrameSpawned registers the frame; a quiescing reducer drops it.
RegisterSpawn(f) ==
    /\ owned' = owned \cup {f}
    /\ ids' = ids \cup {f}
    /\ spawn' = [spawn EXCEPT ![f] = "none"]
    /\ UNCHANGED proc
    /\ IF phase = "running"
       THEN taps' = taps \cup {f} /\ reply' = Answer(f, "answered") /\ Persist({})
       ELSE reply' = Answer(f, "lost") /\ UNCHANGED <<taps, disk, saveFailures>>

\* Mutant: the result is registered whether or not the frame is still there
CompleteUnchecked(f) ==
    /\ phase # "down" /\ spawn[f] = "done"
    /\ pending' = pending \ {f}
    /\ UNCHANGED <<sessionVars, phase, events, bind, backend, removing, owner, stopVars,
                   lastSession, lastFrame, stops>>
    /\ RegisterSpawn(f)

handleSpawnComplete(f) ==
    /\ phase # "down" /\ spawn[f] = "done"
    /\ pending' = pending \ {f}
    /\ UNCHANGED <<sessionVars, phase, events, bind, backend, removing, owner, stopVars,
                   lastSession, lastFrame, stops>>
    /\ IF Placed(f) THEN RegisterSpawn(f) ELSE DiscardSpawn(f)

\* reconcileWindows looks at every frame that no spawn is pending for.
Probe(f) ==
    [type |-> IF proc[f] = "none" THEN "vanished" ELSE proc[f], frame |-> f]

\* The elements of a set in any order, as a walk over a Go map meets them.
Orders(S) == {list \in [1..Cardinality(S) -> S] : IsInjective(list)}

reconcileWindows ==
    LET found == {Probe(f) : f \in {g \in Frame : /\ Placed(g) /\ g \notin pending
                                                  /\ proc[g] # "alive"}}
    IN  /\ phase = "running" /\ found # {}
        /\ \E evs \in Orders(found) : Enqueue(evs)
        /\ UNCHANGED <<sessionVars, phase, loopVars, worldVars, disk, reply, owner,
                       stopVars, countVars>>

-----------------------------------------------------------------------------
(* The goroutine that spawns a frame, and the other goroutines              *)

\* Ensure starts the session's backend unless it runs.
Ensure(f) ==
    /\ spawn[f] = "ensure"
    /\ spawn' = [spawn EXCEPT ![f] = "ensured"]
    /\ backend' = backend \cup {owner[f]}
    /\ UNCHANGED <<sessionVars, phase, events, loopVars, bind, proc, removing, disk,
                   reply, owner, stopVars, countVars>>

\* In the backend that Ensure gave, which may have been removed since.
BindFrame(f) ==
    /\ spawn[f] = "ensured"
    /\ spawn' = [spawn EXCEPT ![f] = "bound"]
    /\ bind' = [bind EXCEPT ![f] = "held"]
    /\ UNCHANGED <<sessionVars, phase, events, loopVars, proc, backend, removing, disk,
                   reply, owner, stopVars, countVars>>

SpawnFrame(f) ==
    /\ spawn[f] = "bound"
    /\ spawn' = [spawn EXCEPT ![f] = "done"]
    /\ proc' = [proc EXCEPT ![f] = "alive"]
    /\ UNCHANGED <<sessionVars, phase, events, loopVars, bind, backend, removing, disk,
                   reply, owner, stopVars, countVars>>

\* sendFailed uses Enqueue: a full channel drops the failure.
sendFailed(f) ==
    /\ Enqueue(<<[type |-> "spawnFailed", frame |-> f]>>)
    /\ reply' = IF Len(events) < EventCap THEN reply ELSE Answer(f, "lost")

FailSpawn(f) ==
    /\ spawn[f] \in {"ensure", "ensured", "bound"}
    /\ spawn' = [spawn EXCEPT ![f] = "none"]
    /\ bind' = [bind EXCEPT ![f] = "none"]
    /\ sendFailed(f)
    /\ UNCHANGED <<sessionVars, phase, loopVars, proc, backend, removing, disk, owner,
                   stopVars, countVars>>

\* A panic keeps what was bound.
recoverSpawnPanic(f) ==
    /\ spawn[f] \in {"ensure", "ensured", "bound"}
    /\ spawn' = [spawn EXCEPT ![f] = "panicked"]
    /\ sendFailed(f)
    /\ UNCHANGED <<sessionVars, phase, loopVars, bind, proc, backend, removing, disk,
                   owner, stopVars, countVars>>

ReleaseDiscarded(f) ==
    /\ spawn[f] = "discard"
    /\ spawn' = [spawn EXCEPT ![f] = "none"]
    /\ bind' = [bind EXCEPT ![f] = "none"]
    /\ UNCHANGED <<sessionVars, phase, events, loopVars, proc, backend, removing, disk,
                   reply, owner, stopVars, countVars>>

RemoveBackend(s) ==
    /\ s \in removing
    /\ removing' = removing \ {s}
    /\ backend' = backend \ {s}
    /\ UNCHANGED <<sessionVars, phase, events, loopVars, spawn, bind, proc, disk, reply,
                   owner, stopVars, countVars>>

ExitProcess(f, how) ==
    /\ proc[f] = "alive"
    /\ proc' = [proc EXCEPT ![f] = how]
    /\ UNCHANGED <<sessionVars, phase, events, loopVars, spawn, bind, backend, removing,
                   disk, reply, owner, stopVars, countVars>>

-----------------------------------------------------------------------------
(* Shutdown, crash and cold start. The processes and the backends do not    *)
(* outlive the daemon.                                                      *)

\* EffCommitShutdownSessions: the save barrier, whose result is an event.
reduceShutdown ==
    /\ phase = "running" /\ stops < MaxStops
    /\ Save(disk, snapshotSessions)
    /\ phase' = IF saveFailures' = saveFailures THEN "quiescing" ELSE "unsaved"
    /\ UNCHANGED <<sessionVars, events, loopVars, worldVars, reply, owner, stopVars,
                   lastSession, lastFrame, stops>>

reduceShutdownSaveFailed ==
    /\ phase = "unsaved"
    /\ phase' = "running"
    /\ UNCHANGED <<sessionVars, events, loopVars, worldVars, disk, reply, owner, stopVars,
                   countVars>>

GoDown ==
    /\ phase # "down" /\ phase' = "down"
    /\ stops < MaxStops /\ stops' = stops + 1
    /\ status' = [s \in Session |-> "absent"]
    /\ frames' = [s \in Session |-> {}]
    /\ stopped' = {}
    /\ head' = [s \in Session |-> NoFrame]
    /\ mru' = [s \in Session |-> <<>>]
    /\ events' = <<>>
    /\ pending' = {} /\ owned' = {} /\ ids' = {} /\ taps' = {}
    /\ spawn' = [f \in Frame |-> "none"]
    /\ bind' = [f \in Frame |-> "none"]
    /\ proc' = [f \in Frame |-> "none"]
    /\ backend' = {} /\ removing' = {}
    /\ reply' = [f \in Frame |-> IF reply[f] = "owed" THEN "lost" ELSE reply[f]]
    /\ UNCHANGED <<owner, lastSession, lastFrame>>

\* Run returns, after the shutdown committed or the context was cancelled.
finalPersistFlush ==
    /\ GoDown
    /\ Save(disk, snapshotSessions)
    /\ UNCHANGED stopVars

Crash ==
    /\ GoDown
    /\ UNCHANGED <<disk, saveFailures, stopVars>>

\* The effects of a stop, its answer among them, come before reconcilePersist.
CrashInStop(s) ==
    /\ phase = "running" /\ s \in Live
    /\ gone' = gone \cup {s}
    /\ undeleted' = undeleted \cup ({s} \cap Durable)
    /\ GoDown
    /\ UNCHANGED <<disk, saveFailures>>

\* A stopped frame is restored only if its driver can recover it. Every command
\* has a driver: GetDriver falls back on a default one.
restorable(s) == disk[s].frames \ (disk[s].stopped \ Recoverable)

LoadSnapshot ==
    LET back == {s \in Session : restorable(s) # {}}
    IN  /\ status' = [s \in Session |-> IF s \in back THEN "live" ELSE "absent"]
        /\ frames' = [s \in Session |-> restorable(s)]
        /\ stopped' = UNION {disk[s].stopped \cap Recoverable : s \in Session}
        /\ head' = [s \in Session |-> IF s \in back THEN disk[s].head ELSE NoFrame]
        /\ mru' = [s \in Session |-> IF s \in back THEN disk[s].mru ELSE <<>>]

\* Frames that cannot be spawned stay in their session.
RecreateAll ==
    LET all == UNION {restorable(s) : s \in Session}
    IN  \E up \in SUBSET all :
            /\ proc' = [f \in Frame |-> IF f \in up THEN "alive" ELSE "none"]
            /\ bind' = [f \in Frame |-> IF f \in up THEN "held" ELSE "none"]
            /\ owned' = up
            /\ \E extra \in SUBSET {owner[f] : f \in all} :
                 backend' = {owner[f] : f \in up} \cup extra
            /\ taps' = {f \in up : f = Min(restorable(owner[f]))}

bootSession ==
    /\ phase = "down"
    /\ phase' = "running"
    /\ LoadSnapshot
    /\ RecreateAll
    /\ \/ Save(disk, snapshotSessions')
       \/ UNCHANGED <<disk, saveFailures>>
    /\ UNCHANGED <<events, pending, ids, spawn, removing, reply, owner, stopVars,
                   lastSession, lastFrame, stops>>

-----------------------------------------------------------------------------
Next ==
    \/ CreateSession
    \/ ForkSession
    \/ \E s \in Session : PushDriver(s) \/ StopSession(s) \/ RemoveBackend(s)
                      \/ CrashInStop(s)
    \/ \E s \in Session, f \in Frame : SetHeadFrame(s, f)
    \/ \E f \in Frame :
         \/ DriverHook(f)
         \/ handleSpawnComplete(f)
         \/ Ensure(f) \/ BindFrame(f) \/ SpawnFrame(f)
         \/ FailSpawn(f) \/ recoverSpawnPanic(f)
         \/ ReleaseDiscarded(f)
         \/ \E how \in {"clean", "crash"} : ExitProcess(f, how)
    \/ HandleEvent
    \/ reconcileWindows
    \/ reduceShutdown
    \/ reduceShutdownSaveFailed
    \/ finalPersistFlush
    \/ Crash
    \/ bootSession

Spec == Init /\ [][Next]_vars

\* A reconciliation that finds room for what it has to say of f.
Reported(f) ==
    /\ Len(events) < EventCap /\ Placed(f) /\ f \notin pending /\ proc[f] # "alive"
    /\ reconcileWindows /\ \E i \in DOMAIN events' : events'[i] = Probe(f)

FairSpec ==
    /\ Spec
    /\ WF_vars(HandleEvent)
    /\ WF_vars(reduceShutdownSaveFailed)
    /\ WF_vars(phase = "quiescing" /\ finalPersistFlush)
    /\ \A f \in Frame : WF_vars(handleSpawnComplete(f)) /\ SF_vars(Reported(f))

-----------------------------------------------------------------------------
\* The state has its types, and Enqueue keeps the event channel within its
\* capacity (state.go, runtime.go).
TypeOK ==
    /\ status \in [Session -> {"absent", "live", "ended"}]
    /\ frames \in [Session -> SUBSET Frame]
    /\ stopped \subseteq Frame
    /\ head \in [Session -> Frame \cup {NoFrame}]
    /\ mru \in [Session -> Seq(Frame)]
    /\ phase \in {"running", "quiescing", "unsaved", "down"}
    /\ events \in Seq(Event) /\ Len(events) <= EventCap
    /\ pending \subseteq Frame /\ owned \subseteq Frame
    /\ ids \subseteq Frame /\ taps \subseteq Frame
    /\ spawn \in [Frame -> {"none", "ensure", "ensured", "bound", "done", "discard",
                         "panicked"}]
    /\ bind \in [Frame -> {"none", "held"}]
    /\ proc \in [Frame -> {"none", "alive", "clean", "crash"}]
    /\ backend \subseteq Session /\ removing \subseteq Session
    /\ disk \in [Session -> Record]
    /\ reply \in [Frame -> {"none", "owed", "answered", "lost"}]
    /\ owner \in [Frame -> Session \cup {0}]
    /\ gone \subseteq Session /\ undeleted \subseteq gone

\* A frame that has left its session, by a stop, an exit or a failed root,
\* holds nothing once the goroutine that spawned it is done: no binding in the
\* shared backend, no registration, no tap. The spawn may have been anywhere
\* when the frame was evicted (handleSpawnComplete, discardSpawnResult). After
\* a panic of the goroutine its binding does stay.
ReleasedFramesHoldNothing ==
    \A f \in Frame :
        ~Placed(f) /\ spawn[f] \notin {"bound", "done", "discard", "panicked"} =>
            bind[f] = "none" /\ f \notin owned \cup ids \cup taps

\* A create or push request that is not answered yet will be: its frame is
\* being spawned or the failure is queued. Stopping the session meanwhile does
\* not leave the caller waiting (discardSpawnResult). The exceptions are marked
\* "lost": a failure that Enqueue dropped, and results met while quiescing.
RequestIsTracked ==
    \A f \in Frame : reply[f] = "owed" =>
        \/ spawn[f] \in {"ensure", "ensured", "bound", "done"}
        \/ \E i \in DOMAIN events : events[i] = [type |-> "spawnFailed", frame |-> f]

\* Unless a write failed, every frame of a live session is in its file after
\* every step of the loop, whatever the step was: a crash loses no session and
\* no frame (reconcilePersist).
LiveIsDurable ==
    saveFailures = 0 => \A s \in Live : frames[s] \subseteq disk[s].frames

\* A session the user stopped while it was live is not saved, restored or
\* listed as live ever again, across crashes, cold starts and failing saves
\* (reconcilePersist deletes the file, snapshotSessions skips the row). The
\* exceptions are the stops whose file is still there: Delete failed, which is
\* only warned of, or the daemon went down between the answer and the deletion.
\* Such a session is live again after the next start.
StoppedNeverReturns == gone \cap (Live \cup Durable) \subseteq undeleted

\* No process runs for a frame that no session has: eviction kills what is
\* still alive (frameTeardownEffects). This does not hold: the siblings of a root that
\* vanished or failed to spawn are torn down without a kill (reduce_frame_evict.go:85).
NoOrphanProcess ==
    \A f \in Frame : proc[f] = "alive" => Placed(f) \/ spawn[f] # "none"

\* A frame whose command ended cleanly leaves its session, even if a hook had
\* marked its driver stopped before, if a shutdown failed in between or if
\* reports of the exit were dropped (reduceFrameCommandExited).
ExitedFrameIsEvicted ==
    \A f \in Frame : proc[f] = "clean" /\ Placed(f) ~> ~Placed(f)

\* The daemon keeps the promises of SessionLedger: of the many ways to end a
\* session only the user's stop takes it off the record.
Ledger == INSTANCE SessionLedger
          WITH up <- phase # "down", live <- Live, durable <- Durable

KeepsLedger == Ledger!Spec
=============================================================================
