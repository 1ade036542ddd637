---------------------------- MODULE Preparation ----------------------------
(***************************************************************************)
(* Preparation of a repository session by the host daemon: the reducer of  *)
(* host/state/repository_reduce.go, the effects of                         *)
(* host/runtime/repository_effects.go, the clone workers and the capacity  *)
(* of the PreparationController, and the publication and reconciliation of *)
(* clone directories in platform/lib/gitclone.                             *)
(*                                                                         *)
(* The event loop reduces one event and executes its effects in order; the *)
(* nested dispatch of clone_started is part of that step.  The workers are *)
(* goroutines: they work on the disk, stamp an event with the published    *)
(* revision, send it on the bounded channel eventCh (which drops it when   *)
(* full) and release their capacity.  The process may crash or be shut     *)
(* down and started again; the records and the directories survive.        *)
(*                                                                         *)
(* Abstractions.  A preparation stands for its creation intent as well.    *)
(* A record is old enough to be swept once nothing of its preparation is   *)
(* in progress.  A clone has size one.  Failure codes are left out, and so *)
(* is pendingLaunch, which lives within one step.                          *)
(***************************************************************************)
EXTENDS Naturals, FiniteSets, Sequences

CONSTANTS
    Prep,           \* preparation ids
    Repo, RepoOf,   \* repositories, preparation -> repository
    ActiveCap,      \* PrepCapActivePerServer
    QueuedCap,      \* PrepCapQueuedPerServer
    RepoCap,        \* PrepCapActivePerRepository
    DiskCap,        \* PrepCapNeverAvailableBytes
    EventCap,       \* capacity of eventCh
    Commands,       \* preparation -> the commands clients send, a subset of AllCommands
    SaveFails,      \* the preparations whose records may fail to be saved
    MaxRevision     \* bound: no command from this revision on

AllCommands == {"cancelled", "retry", "abandon"}

ASSUME ConstantsAssumption ==
    /\ IsFiniteSet(Prep)
    /\ RepoOf \in [Prep -> Repo]
    /\ ActiveCap \in Nat /\ QueuedCap \in Nat /\ RepoCap \in Nat /\ DiskCap \in Nat
    /\ EventCap \in Nat /\ MaxRevision \in Nat
    /\ Commands \in [Prep -> SUBSET AllCommands]
    /\ SaveFails \subseteq Prep

VARIABLES
    phase,      \* State.Lifecycle, or how the process ended
    prep,       \* State.RepositoryPreparations
    sessions,   \* the preparations whose session is in State.Sessions
    events,     \* eventCh, the EvRepository events
    store,      \* PreparationStore: preparation -> {} or {record}
    workers,    \* the runClone goroutines
    owner,      \* PreparationController.workers: preparation -> generation or 0
    cap,        \* PreparationCapacity
    charged,    \* neverAvailSize
    staging,    \* staging directories on disk
    final,      \* clone directories on disk: preparation -> {} or {marker}
    terminals,  \* the terminals SpawnFrame has started
    unsaved,    \* history: preparations of which a Persist has failed
    dropped     \* history: preparations of which this process has dropped an event

memory == <<prep, sessions>>
queue == <<events, dropped>>
disk == <<staging, final>>
control == <<workers, owner, cap>>
vars == <<phase, prep, sessions, events, store, workers, owner, cap, charged,
          staging, final, terminals, unsaved, dropped>>

Stage == {"none", "confirmed", "clone-in-progress", "clone-ready", "available",
          "failed", "cancelled", "interrupted", "abandoned", "internal_corruption"}
Record == [stage : Stage, rev : Nat, gen : Nat, origin : {"none", "clone", "launch"}]
Marker == [gen : Nat, rev : Nat]
Event == [kind : {"clone_ready", "failed", "quarantined", "commit_available"},
          prep : Prep, rev : Nat,
          gen : Nat]        \* history: the generation the event is about
Worker == [prep : Prep, rec : Record, pos : {"clone", "publish", "save", "send", "finish"},
           live : BOOLEAN,          \* its context is not cancelled
           out : SUBSET Event]      \* the event it is about to send

Absent == [stage |-> "none", rev |-> 0, gen |-> 0, origin |-> "none"]
IsTerminal(s) == s \in {"available", "abandoned", "internal_corruption"}
up == phase \in {"running", "quiescing"}

NoCap == [active |-> 0, queued |-> 0, repo |-> [r \in Repo |-> 0], busy |-> {}]

Init ==
    /\ phase = "running"
    /\ prep = [p \in Prep |-> Absent] /\ sessions = {} /\ events = <<>>
    /\ store = [p \in Prep |-> {}] /\ unsaved = {}
    /\ workers = {} /\ owner = [p \in Prep |-> 0] /\ cap = NoCap /\ charged = {}
    /\ staging = {} /\ final = [p \in Prep |-> {}] /\ terminals = {}
    /\ dropped = {}

-----------------------------------------------------------------------------
(* Effects and helpers of the controller *)

event(kind, p, r) == [kind |-> kind, prep |-> p, rev |-> r.rev, gen |-> r.gen]

\* Enqueue of e on the queue q: dropped when the channel is full
Enqueue(q, e) ==
    /\ events' = IF Len(q) < EventCap THEN Append(q, e) ELSE q
    /\ dropped' = IF Len(q) < EventCap THEN dropped ELSE dropped \cup {e.prep}

\* persistPreparation, once for each record of rs: a Save may fail
persist(p, rs) ==
    LET last == {rs[Len(rs)]}
        kept == IF p \in SaveFails THEN {store[p]} \cup {{rs[k]} : k \in DOMAIN rs} ELSE {last}
    IN  /\ store' \in {[store EXCEPT ![p] = k] : k \in kept}
        /\ unsaved' = IF store'[p] = last THEN unsaved ELSE unsaved \cup {p}

\* AdmitClone: "" admits, "queue" is capacity_active_full
AdmitClone(p) ==
    CASE p \in cap.busy -> "refuse"
      [] p \notin cap.busy /\ cap.active >= ActiveCap ->
            IF cap.queued >= QueuedCap THEN "refuse" ELSE "queue"
      [] OTHER -> IF cap.repo[RepoOf[p]] >= RepoCap \/ Cardinality(charged) > DiskCap
                  THEN "refuse" ELSE ""

BeginActive(p) ==
    [active |-> cap.active + 1, queued |-> cap.queued,
     repo |-> [cap.repo EXCEPT ![RepoOf[p]] = @ + 1], busy |-> cap.busy \cup {p}]

minus1(n) == IF n > 0 THEN n - 1 ELSE 0

\* Mutant: the count of the repository is not taken back
EndActiveKeepsRepo(p) == [cap EXCEPT !.active = minus1(@), !.busy = @ \ {p}]

EndActive(p) ==
    [active |-> minus1(cap.active), queued |-> cap.queued,
     repo |-> [cap.repo EXCEPT ![RepoOf[p]] = minus1(@)], busy |-> cap.busy \ {p}]

\* reduceRepositoryCloneStarted
cloneStarted(r) ==
    [stage |-> "clone-in-progress", rev |-> r.rev + 1, gen |-> r.gen, origin |-> "none"]

\* TryAdmit with StartCloneAdmitted: r is the confirmed record of p.  An admitted
\* clone goes on to clone_started at once; a queued one stays confirmed.
startPreparationClone(p, r) ==
    \/ /\ AdmitClone(p) = ""
       /\ prep' = [prep EXCEPT ![p] = cloneStarted(r)]
       /\ persist(p, <<r, cloneStarted(r)>>)
       /\ cap' = BeginActive(p)
       /\ owner' = [owner EXCEPT ![p] = r.gen]
       /\ workers' = workers \cup {[prep |-> p, rec |-> cloneStarted(r), pos |-> "clone",
                                    live |-> TRUE, out |-> {}]}
       /\ UNCHANGED queue
    \/ /\ AdmitClone(p) = "queue"
       /\ prep' = [prep EXCEPT ![p] = r]
       /\ persist(p, <<r>>)
       /\ cap' = [cap EXCEPT !.queued = @ + 1]
       /\ UNCHANGED <<queue, owner, workers>>
    \/ /\ AdmitClone(p) = "refuse"
       /\ prep' = [prep EXCEPT ![p] = r]
       /\ persist(p, <<r>>)
       /\ Enqueue(events, event("failed", p, r))
       /\ UNCHANGED control

\* StopOwnedWork cancels the context of the registered worker of that generation
stopped(p, gen) ==
    {IF w.prep = p /\ w.rec.gen = gen /\ owner[p] = gen THEN [w EXCEPT !.live = FALSE] ELSE w
       : w \in workers}

\* CleanupNeverAvailable
CleanupNeverAvailable(p) ==
    /\ staging' = staging \ {p}
    /\ final' = [final EXCEPT ![p] = {}]
    /\ charged' = charged \ {p}

\* Mutant: the failure is not reported
failPendingLaunchSilently(p, r, q) ==
    /\ events' = q
    /\ workers' = stopped(p, owner[p])
    /\ staging' = IF owner[p] # 0 THEN staging \ {p} ELSE staging
    /\ UNCHANGED <<terminals, dropped>>

\* failPendingLaunch with AbandonPendingLaunch, which also stops a worker that has not
\* finished
failPendingLaunch(p, r, q) ==
    /\ Enqueue(q, event("failed", p, r))
    /\ workers' = stopped(p, owner[p])
    /\ staging' = IF owner[p] # 0 THEN staging \ {p} ELSE staging
    /\ UNCHANGED terminals

\* launchPreparationSession for the clone-ready record r, with the queue q: the
\* terminal starts in an existing directory unless one of that name exists.
launchPreparationSession(p, r, q) ==
    /\ charged' = charged \ {p}
    /\ \/ /\ final[p] # {} /\ p \notin terminals
          /\ terminals' = terminals \cup {p}
          /\ Enqueue(q, event("commit_available", p, r))
          /\ UNCHANGED <<workers, staging>>
       \/ failPendingLaunch(p, r, q)
    /\ UNCHANGED <<owner, cap, final>>

-----------------------------------------------------------------------------
(* Commands of clients, with the revision they have observed *)

\* reduceRepositoryCreate; a repeated request finds the preparation and changes nothing
reduceRepositoryCreate(p) ==
    /\ phase = "running" /\ prep[p] = Absent
    /\ startPreparationClone(p, [stage |-> "confirmed", rev |-> 1, gen |-> 1, origin |-> "none"])
    /\ UNCHANGED <<phase, sessions, charged, disk, terminals>>

command(c, p) == phase = "running" /\ c \in Commands[p] /\ prep[p] # Absent /\ prep[p].rev < MaxRevision

\* The origin of a retry: what was reached is not done again
originOf(s) == IF s = "clone-ready" THEN "launch" ELSE "clone"

advance(p, stage, origin) ==
    [stage |-> stage, rev |-> prep[p].rev + 1, gen |-> prep[p].gen, origin |-> origin]

reduceRepositoryCancelled(p) ==
    LET r == advance(p, "cancelled", originOf(prep[p].stage))
    IN  /\ command("cancelled", p) /\ ~IsTerminal(prep[p].stage)
        /\ prep' = [prep EXCEPT ![p] = r]
        /\ persist(p, <<r>>)
        /\ workers' = stopped(p, r.gen)
        /\ UNCHANGED <<phase, sessions, queue, owner, cap, charged, disk, terminals>>

reduceRepositoryAbandon(p) ==
    LET r == advance(p, "abandoned", prep[p].origin)
    IN  /\ command("abandon", p) /\ prep[p].stage # "available"
        /\ prep' = [prep EXCEPT ![p] = r]
        /\ persist(p, <<r>>)
        /\ workers' = stopped(p, r.gen)
        /\ CleanupNeverAvailable(p)
        /\ UNCHANGED <<phase, sessions, queue, owner, cap, terminals>>

reduceRepositoryRetry(p) ==
    LET r == [stage |-> IF prep[p].origin = "launch" THEN "clone-ready" ELSE "confirmed",
              rev |-> prep[p].rev + 1, gen |-> prep[p].gen + 1, origin |-> "none"]
    IN  /\ command("retry", p) /\ prep[p].stage \in {"failed", "cancelled", "interrupted"}
        /\ \/ /\ prep[p].origin = "launch"
              /\ prep' = [prep EXCEPT ![p] = r]
              /\ persist(p, <<r>>)
              /\ launchPreparationSession(p, r, events)
           \/ /\ prep[p].origin # "launch"
              /\ startPreparationClone(p, r)
              /\ UNCHANGED <<charged, disk, terminals>>
        /\ UNCHANGED <<phase, sessions>>

-----------------------------------------------------------------------------
(* Events of workers and launches *)

\* Mutant: the observed revision is not compared
loadPrepUnfenced(e) == prep[e.prep] # Absent

loadPrepFenced(e) == prep[e.prep] # Absent /\ prep[e.prep].rev = e.rev

reduceRepositoryCloneReady(e) ==
    LET p == e.prep
        r == advance(p, "clone-ready", "none")
    IN  /\ e.kind = "clone_ready" /\ prep[p].stage = "clone-in-progress"
        /\ prep' = [prep EXCEPT ![p] = r]
        /\ persist(p, <<r>>)
        /\ launchPreparationSession(p, r, Tail(events))
        /\ UNCHANGED sessions

reduceRepositoryFailed(e) ==
    LET r == advance(e.prep, "failed", originOf(prep[e.prep].stage))
    IN  /\ e.kind = "failed" /\ ~IsTerminal(prep[e.prep].stage)
        /\ prep' = [prep EXCEPT ![e.prep] = r]
        /\ persist(e.prep, <<r>>)
        /\ events' = Tail(events)
        /\ UNCHANGED <<sessions, dropped, control, charged, disk, terminals>>

reduceRepositoryQuarantined(e) ==
    LET r == advance(e.prep, "internal_corruption", "none")
    IN  /\ e.kind = "quarantined" /\ prep[e.prep].stage # "available"
        /\ prep' = [prep EXCEPT ![e.prep] = r]
        /\ persist(e.prep, <<r>>)
        /\ events' = Tail(events)
        /\ UNCHANGED <<sessions, dropped, control, charged, disk, terminals>>

reduceRepositoryCommitAvailable(e) ==
    LET r == advance(e.prep, "available", "none")
    IN  /\ e.kind = "commit_available" /\ prep[e.prep].stage = "clone-ready"
        /\ e.prep \notin sessions
        /\ prep' = [prep EXCEPT ![e.prep] = r]
        /\ persist(e.prep, <<r>>)
        /\ sessions' = sessions \cup {e.prep}
        /\ events' = Tail(events)
        /\ UNCHANGED <<dropped, control, charged, disk, terminals>>

\* The event is accepted by one of the reducers above
legal(e) ==
    LET s == prep[e.prep].stage
    IN  CASE e.kind = "clone_ready" -> s = "clone-in-progress"
          [] e.kind = "failed" -> ~IsTerminal(s)
          [] e.kind = "quarantined" -> s # "available"
          [] e.kind = "commit_available" -> s = "clone-ready" /\ e.prep \notin sessions

\* reduceRepository for an event from the channel: stale and illegal ones are dropped
reduceRepository ==
    /\ phase = "running" /\ events # <<>>
    /\ LET e == Head(events)
       IN  \/ /\ loadPrepFenced(e)
              /\ \/ reduceRepositoryCloneReady(e) \/ reduceRepositoryFailed(e)
                 \/ reduceRepositoryQuarantined(e) \/ reduceRepositoryCommitAvailable(e)
           \/ /\ ~loadPrepFenced(e) \/ ~legal(e)
              /\ events' = Tail(events)
              /\ UNCHANGED <<memory, dropped, store, unsaved, control, charged, disk, terminals>>
    /\ UNCHANGED phase

-----------------------------------------------------------------------------
(* The workers: runClone *)

\* The worker goes on at pos, with out to send
becomes(w, pos, out) ==
    workers' = (workers \ {w}) \cup {[prep |-> w.prep, rec |-> w.rec, live |-> w.live,
                                      pos |-> pos, out |-> out]}

\* The worker stamps its event with the revision published now
report(w, kind) ==
    becomes(w, "send", {[kind |-> kind, prep |-> w.prep, rev |-> prep[w.prep].rev, gen |-> w.rec.gen]})

\* Up to the end of Cloner.Clone: staging is emptied first; a failed clone removes
\* it again, a cancelled one may leave it behind
runCloneClones(w) ==
    /\ w.pos = "clone"
    /\ \/ /\ w.live
          /\ staging' = staging \cup {w.prep}
          /\ becomes(w, "publish", {})
       \/ /\ w.live
          /\ staging' = staging \ {w.prep}
          /\ report(w, "failed")
       \/ /\ ~w.live
          /\ staging' \in {staging \ {w.prep}, staging \cup {w.prep}}
          /\ report(w, "failed")
    /\ UNCHANGED <<phase, memory, queue, store, unsaved, owner, cap, charged, final, terminals>>

\* Mutant: a directory that exists is taken for the clone
finalTaken(w) == becomes(w, "save", {}) /\ UNCHANGED charged

\* CodeCloneIdentityConflict: the directory exists and is left alone
finalConflict(w) == report(w, "quarantined") /\ charged' = charged \ {w.prep}

\* PublishClone: the rename may fail, or succeed with a failing sync of the parent.  The
\* Stat and the rename are one step: only the worker of p makes its directory, so what is
\* not there at the Stat is not there at the rename.
runClonePublishes(w) ==
    LET p == w.prep
        marker == [gen |-> w.rec.gen, rev |-> w.rec.rev]
    IN  /\ w.pos = "publish"
        /\ staging' = staging \ {p}
        /\ \/ /\ final[p] # {}
              /\ finalConflict(w)
              /\ UNCHANGED final
           \/ /\ final[p] = {}
              /\ final' \in {final} \cup {[final EXCEPT ![p] = {marker}] : q \in staging \cap {p}}
              /\ report(w, "failed")
              /\ charged' = charged \ {p}
           \/ /\ final[p] = {} /\ p \in staging
              /\ final' = [final EXCEPT ![p] = {marker}]
              /\ becomes(w, "save", {})
              /\ UNCHANGED charged
        /\ UNCHANGED <<phase, memory, queue, store, unsaved, owner, cap, terminals>>

\* AccountClonePath and Save with the record the worker was started with
runCloneSaves(w) ==
    /\ w.pos = "save"
    /\ charged' = charged \cup {w.prep}
    /\ store' \in {[store EXCEPT ![w.prep] = {w.rec}]} \cup (IF w.prep \in SaveFails THEN {store} ELSE {})
    /\ report(w, "clone_ready")
    /\ UNCHANGED <<phase, memory, queue, unsaved, owner, cap, disk, terminals>>

runCloneSends(w) ==
    /\ w.pos = "send"
    /\ \E e \in w.out : Enqueue(events, e)
    /\ becomes(w, "finish", {})
    /\ UNCHANGED <<phase, memory, store, unsaved, owner, cap, charged, disk, terminals>>

finishWorker(w) ==
    /\ w.pos = "finish"
    /\ workers' = workers \ {w}
    /\ owner' = IF owner[w.prep] = w.rec.gen THEN [owner EXCEPT ![w.prep] = 0] ELSE owner
    /\ cap' = EndActive(w.prep)
    /\ UNCHANGED <<phase, memory, queue, store, unsaved, charged, disk, terminals>>

runClone(w) ==
    up /\ (\/ runCloneClones(w) \/ runClonePublishes(w) \/ runCloneSaves(w)
           \/ runCloneSends(w) \/ finishWorker(w))

-----------------------------------------------------------------------------
(* Sweep, shutdown, crash and restart *)

Idle(p) == (\A w \in workers : w.prep # p) /\ (\A k \in DOMAIN events : events[k].prep # p)

\* Mutant: the stage of the record is not looked at
SweepAllRecords(p) ==
    /\ up /\ Idle(p) /\ store[p] # {}
    /\ CleanupNeverAvailable(p)
    /\ store' = [store EXCEPT ![p] = {}]
    /\ UNCHANGED <<phase, memory, queue, control, terminals, unsaved>>

\* SweepNeverAvailableOrphans goes by the durable record, on a tick or at start-up
SweepNeverAvailableOrphans(p) ==
    /\ up /\ Idle(p)
    /\ \E r \in store[p] :
          r.stage \in {"failed", "cancelled", "abandoned", "internal_corruption", "interrupted"}
    /\ CleanupNeverAvailable(p)
    /\ store' = [store EXCEPT ![p] = {}]
    /\ UNCHANGED <<phase, memory, queue, control, terminals, unsaved>>

\* reduceShutdown begins; the save barrier fails, or the cleanup finishes
reduceShutdown ==
    /\ phase = "running" /\ phase' = "quiescing"
    /\ UNCHANGED <<memory, queue, store, unsaved, control, charged, disk, terminals>>

reduceShutdownSaveFailed ==
    /\ phase = "quiescing" /\ phase' = "running"
    /\ UNCHANGED <<memory, queue, store, unsaved, control, charged, disk, terminals>>

\* What a process leaves behind
processEnds(how) ==
    /\ phase' = how
    /\ prep' = [p \in Prep |-> Absent] /\ sessions' = {} /\ events' = <<>> /\ dropped' = {}
    /\ workers' = {} /\ owner' = [p \in Prep |-> 0] /\ cap' = NoCap /\ charged' = {}
    /\ terminals' = {}
    /\ UNCHANGED <<store, unsaved, disk>>

Crash == up /\ processEnds("down")

\* reduceQuiescing has no case for EvRepository: its default panics
reduceQuiescing ==
    /\ phase = "quiescing" /\ events # <<>>
    /\ processEnds("panicked")

\* ReconcileCloneEvidence for a clone-ready record: no directory, another marker, its own
evidence(p, r) ==
    CASE final[p] = {} -> "interrupted"
      [] final[p] # {} /\ final[p] # {[gen |-> r.gen, rev |-> r.rev]} -> "quarantined"
      [] OTHER -> "clone_ready"

\* ReconcileStartup with the reducers of its events
reconciled(p, r) ==
    LET to(stage, origin) == [stage |-> stage, rev |-> r.rev + 1, gen |-> r.gen, origin |-> origin]
    IN  CASE r.stage \in {"confirmed", "clone-in-progress"} -> to("interrupted", "clone")
          [] r.stage = "clone-ready" /\ evidence(p, r) = "interrupted" -> to("interrupted", "launch")
          [] r.stage = "clone-ready" /\ evidence(p, r) = "quarantined" -> to("internal_corruption", "none")
          [] OTHER -> r

\* bootSession: the session of a preparation has no frame and is not restored; the
\* records are loaded, reconciled and persisted again when they changed
ReconcileRepositoryPreparations ==
    LET recs(p) == {reconciled(p, r) : r \in store[p]}
    IN  /\ phase \in {"down", "panicked"} /\ phase' = "running"
        /\ prep' = [p \in Prep |-> IF store[p] = {} THEN Absent ELSE CHOOSE r \in recs(p) : TRUE]
        /\ \E lost \in SUBSET {p \in SaveFails : recs(p) # store[p]} :
              /\ store' = [p \in Prep |-> IF p \in lost THEN store[p] ELSE recs(p)]
              /\ unsaved' = unsaved \cup lost
        /\ staging' = staging \ {p \in Prep : \E r \in store[p] :
                                     r.stage = "clone-ready" /\ evidence(p, r) = "interrupted"}
        /\ UNCHANGED <<sessions, queue, control, charged, final, terminals>>

Next ==
    \/ \E p \in Prep : \/ reduceRepositoryCreate(p) \/ reduceRepositoryCancelled(p)
                       \/ reduceRepositoryAbandon(p) \/ reduceRepositoryRetry(p)
                       \/ SweepNeverAvailableOrphans(p)
    \/ reduceRepository
    \/ \E w \in workers : runClone(w)
    \/ reduceShutdown \/ reduceShutdownSaveFailed \/ reduceQuiescing
    \/ Crash \/ ReconcileRepositoryPreparations

Spec == Init /\ [][Next]_vars

\* The event loop keeps reducing and a worker goes on: git ends, by itself or when its
\* context is cancelled
FairSpec ==
    /\ Spec
    /\ WF_vars(reduceRepository)
    /\ \A p \in Prep : WF_vars(\E w \in workers : w.prep = p /\ runClone(w))

-----------------------------------------------------------------------------

\* Values of the controller, the reducer, the disk and the channel; at most one record
\* and one clone directory per preparation, and the channel within its capacity.
TypeOK ==
    /\ phase \in {"running", "quiescing", "down", "panicked"}
    /\ prep \in [Prep -> Record] /\ sessions \subseteq Prep
    /\ events \in Seq(Event) /\ Len(events) <= EventCap
    /\ store \in [Prep -> SUBSET Record] /\ \A p \in Prep : \A r, s \in store[p] : r = s
    /\ workers \subseteq Worker
    /\ owner \in [Prep -> Nat]
    /\ cap \in [active : Nat, queued : 0 .. QueuedCap, repo : [Repo -> Nat], busy : SUBSET Prep]
    /\ charged \subseteq Prep /\ staging \subseteq Prep
    /\ final \in [Prep -> SUBSET Marker] /\ \A p \in Prep : \A m, n \in final[p] : m = n
    /\ terminals \subseteq Prep /\ unsaved \subseteq Prep /\ dropped \subseteq Prep

\* NFR-GH-003, AdmitClone / EndActive: one clone worker per intent, whatever a cancel and
\* a retry overtake; the capacity counts exactly the workers there are, within the caps.
WorkersAreCounted ==
    /\ cap.busy = {w.prep : w \in workers}
    /\ \A v, w \in workers : v.prep = w.prep => v = w
    /\ \A p \in Prep : owner[p] = 0 <=> p \notin cap.busy
    /\ cap.active = Cardinality(cap.busy) /\ cap.active <= ActiveCap
    /\ \A r \in Repo : /\ cap.repo[r] = Cardinality({p \in cap.busy : RepoOf[p] = r})
                       /\ cap.repo[r] <= RepoCap

\* loadPrepFenced: a clone or a launch counts for the generation that produced it, never
\* for a retry that came in between.
EvidenceIsCurrent ==
    [][\A p \in Prep :
          \/ prep[p].stage = "clone-in-progress" /\ prep'[p].stage = "clone-ready"
          \/ prep[p].stage = "clone-ready" /\ prep'[p].stage = "available"
          => Head(events).gen = prep[p].gen]_vars

\* PublishClone and reduceRepositoryCloneReady: the clone that is accepted and launched is
\* on disk and is the one this attempt has published, never a directory that a crash, a
\* failed sync or a cancelled attempt has left behind.
AcceptedCloneIsOwn ==
    [][\A p \in Prep : prep[p].stage = "clone-in-progress" /\ prep'[p].stage = "clone-ready"
          => final[p] = {[gen |-> prep[p].gen, rev |-> prep[p].rev]}]_vars

\* FR-GH-INV-001 and CleanupNeverAvailable ("Never deletes ... session-available clones"):
\* a session in the list belongs to an available preparation, and its clone is there,
\* as long as the durable records were written.
SessionHasClone ==
    \A p \in sessions : prep[p].stage = "available" /\ (p \in unsaved \/ final[p] # {})

inFlight(p) == prep[p].stage \in {"clone-in-progress", "clone-ready"}

\* A clone that was started comes to an end in the reducer: ready and launched, failed
\* or settled otherwise (runClone, launchPreparationSession, lifecycle of the process).
\* An event that Enqueue drops leaves the preparation in flight until the next start.
InFlightSettles ==
    \A p \in Prep : inFlight(p) ~> (~inFlight(p) \/ phase # "running" \/ p \in dropped)

\* reduce.go:11 "Reduce never panics in production: every Event variant must have a case".
\* This does not hold: a clone worker that ends while the daemon quiesces sends an event
\* that reduceQuiescing has no case for (reduce.go:168).
ReduceNeverPanics == phase # "panicked"

\* design-plan.json:4672 "matching durable final evidence advances/reconstructs
\* clone-ready": a restart does not condemn a clone that its own generation published.
\* This does not hold: the marker has the revision of clone-in-progress and is compared
\* with that of clone-ready (repository_preparation_worker.go:237).
ReadyCloneSurvivesRestart ==
    [][\A p \in Prep : \A r \in store[p] :
          /\ phase # "running" /\ phase' = "running"
          /\ r.stage = "clone-ready" /\ \E m \in final[p] : m.gen = r.gen
          => prep'[p].stage # "internal_corruption"]_vars
=============================================================================
