------------------------- MODULE PreparationProofs --------------------------
(* Proofs about Preparation, for every set of preparations and repositories *)
(* and every value of the caps and bounds.                                  *)
EXTENDS Preparation, FiniteSetTheorems, TLAPS

\* A leaf is tried with Zenon, then with SMT, then with SMT again and more time.
USE ZenonT(5), SMT, SMTT(30)

Kinds == {"clone_ready", "failed", "quarantined", "commit_available"}
Origins == {"none", "clone", "launch"}
CapType == [active : Nat, queued : 0 .. QueuedCap, repo : [Repo -> Nat], busy : SUBSET Prep]

-----------------------------------------------------------------------------
(* Type correctness.                                                        *)

\* No preparation is a record too.
LEMMA AbsentType == Absent \in Record
BY DEF Absent, Record, Stage

\* The free capacity is well typed.
LEMMA NoCapType == NoCap \in CapType
BY ConstantsAssumption, SMTT(30) DEF NoCap, CapType

\* The event about a record.
LEMMA EventType ==
    ASSUME NEW p \in Prep, NEW r \in Record, NEW k \in Kinds
    PROVE  event(k, p, r) \in Event
BY DEF event, Event, Record, Kinds

\* advancePrep keeps a record a record.
LEMMA AdvanceType ==
    ASSUME TypeOK, NEW p \in Prep, NEW s \in Stage, NEW o \in Origins
    PROVE  advance(p, s, o) \in Record
<1>1. prep[p] \in Record
  BY DEF TypeOK
<1>2. prep[p].rev + 1 \in Nat /\ prep[p].gen \in Nat
  BY <1>1, SMTT(30) DEF Record
<1> QED  BY <1>2 DEF advance, Record, Origins

\* The origin of a retry is an origin.
LEMMA OriginType == \A s : originOf(s) \in Origins
BY DEF originOf, Origins

\* Enqueue keeps the channel within its capacity.
LEMMA EnqueueTypes ==
    ASSUME NEW q \in Seq(Event), Len(q) <= EventCap, NEW e \in Event,
           dropped \subseteq Prep, Enqueue(q, e)
    PROVE  events' \in Seq(Event) /\ Len(events') <= EventCap /\ dropped' \subseteq Prep
<1>1. e.prep \in Prep
  BY DEF Event
<1>2. Append(q, e) \in Seq(Event) /\ Len(Append(q, e)) = Len(q) + 1 /\ Len(q) \in Nat
  OBVIOUS
<1>3. CASE Len(q) < EventCap
  BY <1>2, <1>3, ConstantsAssumption DEF Enqueue
<1>4. CASE ~(Len(q) < EventCap)
  BY <1>1, <1>4 DEF Enqueue
<1> QED  BY <1>3, <1>4

\* The rest of the channel, once its head is taken.
LEMMA TailTypes ==
    ASSUME TypeOK, events # <<>>
    PROVE  /\ Tail(events) \in Seq(Event) /\ Len(Tail(events)) <= EventCap
           /\ Head(events) \in Event
<1>1. events \in Seq(Event) /\ Len(events) <= EventCap /\ Len(events) \in Nat
  BY SMTT(30) DEF TypeOK
<1>2. Tail(events) \in Seq(Event) /\ Len(Tail(events)) = Len(events) - 1 /\ Head(events) \in Event
  BY <1>1
<1> QED  BY <1>1, <1>2, ConstantsAssumption

\* What the store holds after a change of one record.
StoreType == /\ store \in [Prep -> SUBSET Record]
             /\ \A p \in Prep : \A r, s \in store[p] : r = s

\* A map to sets of at most one element, changed at one key.
LEMMA SingleUpdate ==
    ASSUME NEW D, NEW S, NEW f \in [D -> SUBSET S], \A p \in D : \A r, s \in f[p] : r = s,
           NEW k \in D, NEW x \in SUBSET S, \A r, s \in x : r = s
    PROVE  /\ [f EXCEPT ![k] = x] \in [D -> SUBSET S]
           /\ \A p \in D : \A r, s \in [f EXCEPT ![k] = x][p] : r = s
<1> DEFINE g == [f EXCEPT ![k] = x]
<1>1. g \in [D -> SUBSET S] /\ g[k] = x /\ \A p \in D \ {k} : g[p] = f[p]
  OBVIOUS
<1> HIDE DEF g
<1>2. \A p \in D : \A r, s \in g[p] : r = s
  BY <1>1, Zenon
<1> QED  BY <1>1, <1>2 DEF g

\* A Save, successful or not, leaves at most one record.
LEMMA PersistTypes ==
    ASSUME TypeOK, NEW p \in Prep, NEW rs \in Seq(Record), Len(rs) > 0, persist(p, rs)
    PROVE  StoreType' /\ unsaved' \subseteq Prep
<1> DEFINE last == {rs[Len(rs)]}
           kept == IF p \in SaveFails THEN {store[p]} \cup {{rs[k]} : k \in DOMAIN rs} ELSE {last}
<1>1. \A k \in DOMAIN rs : rs[k] \in Record
  OBVIOUS
<1>2. Len(rs) \in DOMAIN rs
  OBVIOUS
<1>3. PICK k \in kept : store' = [store EXCEPT ![p] = k]
  BY Zenon DEF persist
<1>4. k \in SUBSET Record /\ \A r, s \in k : r = s
  <2>1. CASE k = store[p]
    BY <2>1 DEF TypeOK
  <2>2. CASE k # store[p]
    <3>1. \E i \in DOMAIN rs : k = {rs[i]}
      BY <1>2, <2>2, Zenon
    <3> QED  BY <1>1, <3>1, Zenon
  <2> QED  BY <2>1, <2>2
<1> HIDE DEF kept, last
<1>5. store \in [Prep -> SUBSET Record] /\ \A q \in Prep : \A r, s \in store[q] : r = s
  BY DEF TypeOK
<1>6. StoreType'
  BY <1>3, <1>4, <1>5, SingleUpdate DEF StoreType
<1>7. unsaved' \subseteq Prep
  BY DEF persist, TypeOK
<1> QED  BY <1>6, <1>7

\* One record is a sequence of records, and so are two.
LEMMA OneRecord ==
    ASSUME NEW r \in Record, NEW s \in Record
    PROVE  /\ <<r>> \in Seq(Record) /\ Len(<<r>>) > 0
           /\ <<r, s>> \in Seq(Record) /\ Len(<<r, s>>) > 0
OBVIOUS

\* StopOwnedWork changes the context only.
LEMMA StoppedTypes ==
    ASSUME TypeOK, NEW p, NEW gen
    PROVE  stopped(p, gen) \subseteq Worker
<1>1. \A w \in workers : w \in Worker
  BY DEF TypeOK
<1>2. \A w \in Worker : [w EXCEPT !.live = FALSE] \in Worker
  BY Zenon DEF Worker
<1> QED  BY <1>1, <1>2, Zenon DEF stopped

\* The directories after a change of one of them.
FinalType == /\ final \in [Prep -> SUBSET Marker]
             /\ \A p \in Prep : \A m, n \in final[p] : m = n

\* CleanupNeverAvailable removes directories.
LEMMA CleanupTypes ==
    ASSUME TypeOK, NEW p \in Prep, CleanupNeverAvailable(p)
    PROVE  FinalType' /\ staging' \subseteq Prep /\ charged' \subseteq Prep
BY SMTT(30) DEF CleanupNeverAvailable, TypeOK, FinalType

\* The record of a started clone.
LEMMA StartedType ==
    ASSUME NEW r \in Record
    PROVE  cloneStarted(r) \in Record
<1>1. r.rev + 1 \in Nat /\ r.gen \in Nat
  BY SMTT(30) DEF Record
<1> QED  BY <1>1 DEF cloneStarted, Record, Stage

\* BeginActive and EndActive keep the capacity well typed.
LEMMA CapTypes ==
    ASSUME cap \in CapType, NEW p \in Prep
    PROVE  BeginActive(p) \in CapType /\ EndActive(p) \in CapType
<1>1. RepoOf[p] \in Repo
  BY ConstantsAssumption
<1>2. \A n \in Nat : minus1(n) \in Nat
  BY DEF minus1
<1>3. /\ cap.active + 1 \in Nat /\ cap.queued \in 0 .. QueuedCap
      /\ [cap.repo EXCEPT ![RepoOf[p]] = @ + 1] \in [Repo -> Nat]
      /\ cap.busy \cup {p} \in SUBSET Prep
  BY <1>1 DEF CapType
<1>4. /\ minus1(cap.active) \in Nat
      /\ [cap.repo EXCEPT ![RepoOf[p]] = minus1(@)] \in [Repo -> Nat]
      /\ cap.busy \ {p} \in SUBSET Prep
  BY <1>1, <1>2 DEF CapType
<1> QED  BY <1>3, <1>4 DEF CapType, BeginActive, EndActive

\* A clone that is admitted, queued or refused leaves everything well typed.
LEMMA StartTypes ==
    ASSUME TypeOK, NEW p \in Prep, NEW r \in Record, startPreparationClone(p, r)
    PROVE  /\ prep' \in [Prep -> Record] /\ StoreType' /\ unsaved' \subseteq Prep
           /\ cap' \in CapType /\ owner' \in [Prep -> Nat] /\ workers' \subseteq Worker
           /\ events' \in Seq(Event) /\ Len(events') <= EventCap /\ dropped' \subseteq Prep
<1> DEFINE started == cloneStarted(r)
           w == [prep |-> p, rec |-> started, pos |-> "clone", live |-> TRUE, out |-> {}]
<1>1. started \in Record
  BY StartedType
<1>2. /\ prep \in [Prep -> Record] /\ cap \in CapType /\ owner \in [Prep -> Nat]
      /\ workers \subseteq Worker /\ events \in Seq(Event) /\ Len(events) <= EventCap
      /\ dropped \subseteq Prep
  BY DEF TypeOK, CapType
<1>3. CASE AdmitClone(p) = ""
  <2>1. /\ prep' = [prep EXCEPT ![p] = started] /\ persist(p, <<r, started>>)
        /\ cap' = BeginActive(p) /\ owner' = [owner EXCEPT ![p] = r.gen]
        /\ workers' = workers \cup {w} /\ UNCHANGED queue
    BY <1>3, Zenon DEF startPreparationClone
  <2>2. w \in Worker
    BY <1>1 DEF Worker
  <2> HIDE DEF w, started
  <2>3. StoreType' /\ unsaved' \subseteq Prep
    BY <1>1, <2>1, OneRecord, PersistTypes, Zenon
  <2>4. r.gen \in Nat
    BY DEF Record
  <2>5. cap' \in CapType
    BY <1>2, <2>1, CapTypes
  <2> QED  BY <1>1, <1>2, <2>1, <2>2, <2>3, <2>4, <2>5 DEF queue
<1>4. CASE AdmitClone(p) = "queue"
  <2>1. /\ prep' = [prep EXCEPT ![p] = r] /\ persist(p, <<r>>)
        /\ cap' = [cap EXCEPT !.queued = @ + 1] /\ UNCHANGED <<queue, owner, workers>>
    BY <1>4 DEF startPreparationClone
  <2>2. cap.queued < QueuedCap
    BY <1>2, <1>4, ConstantsAssumption, SMTT(30) DEF AdmitClone, CapType
  <2>3. cap' \in CapType
    <3>1. cap.queued + 1 \in 0 .. QueuedCap
      BY <1>2, <2>2, ConstantsAssumption, SMTT(30) DEF CapType
    <3> QED  BY <1>2, <2>1, <3>1, Zenon DEF CapType
  <2>4. StoreType' /\ unsaved' \subseteq Prep
    BY <2>1, OneRecord, PersistTypes, Zenon
  <2> QED  BY <1>2, <2>1, <2>3, <2>4 DEF queue
<1>5. CASE AdmitClone(p) = "refuse"
  <2>1. /\ prep' = [prep EXCEPT ![p] = r] /\ persist(p, <<r>>)
        /\ Enqueue(events, event("failed", p, r)) /\ UNCHANGED control
    BY <1>5 DEF startPreparationClone
  <2>2. StoreType' /\ unsaved' \subseteq Prep
    BY <2>1, OneRecord, PersistTypes, Zenon
  <2>3. events' \in Seq(Event) /\ Len(events') <= EventCap /\ dropped' \subseteq Prep
    BY <1>2, <2>1, EventType, EnqueueTypes DEF Kinds
  <2> QED  BY <1>2, <2>1, <2>2, <2>3 DEF control
<1> QED  BY <1>3, <1>4, <1>5, Zenon DEF startPreparationClone

\* A launch leaves everything well typed.
LEMMA LaunchTypes ==
    ASSUME TypeOK, NEW p \in Prep, NEW r \in Record, NEW q \in Seq(Event), Len(q) <= EventCap,
           launchPreparationSession(p, r, q)
    PROVE  /\ events' \in Seq(Event) /\ Len(events') <= EventCap /\ dropped' \subseteq Prep
           /\ workers' \subseteq Worker /\ staging' \subseteq Prep /\ charged' \subseteq Prep
           /\ terminals' \subseteq Prep
<1>1. /\ dropped \subseteq Prep /\ workers \subseteq Worker /\ staging \subseteq Prep
      /\ charged \subseteq Prep /\ terminals \subseteq Prep
  BY DEF TypeOK
<1>2. charged' \subseteq Prep
  BY <1>1 DEF launchPreparationSession
<1>3. CASE failPendingLaunch(p, r, q)
  <2>1. events' \in Seq(Event) /\ Len(events') <= EventCap /\ dropped' \subseteq Prep
    BY <1>1, <1>3, EventType, EnqueueTypes DEF failPendingLaunch, Kinds
  <2>2. workers' \subseteq Worker
    BY <1>3, StoppedTypes DEF failPendingLaunch
  <2> QED  BY <1>1, <1>2, <1>3, <2>1, <2>2 DEF failPendingLaunch
<1>4. CASE /\ terminals' = terminals \cup {p}
           /\ Enqueue(q, event("commit_available", p, r))
           /\ UNCHANGED <<workers, staging>>
  <2>1. events' \in Seq(Event) /\ Len(events') <= EventCap /\ dropped' \subseteq Prep
    BY <1>1, <1>4, EventType, EnqueueTypes DEF Kinds
  <2> QED  BY <1>1, <1>2, <1>4, <2>1
<1> QED  BY <1>3, <1>4 DEF launchPreparationSession

\* The worker goes on at another position.
LEMMA BecomesTypes ==
    ASSUME TypeOK, NEW w \in workers, NEW out \in SUBSET Event,
           NEW pos \in {"clone", "publish", "save", "send", "finish"}, becomes(w, pos, out)
    PROVE  workers' \subseteq Worker
<1>1. w \in Worker /\ workers \subseteq Worker
  BY DEF TypeOK
<1>2. [prep |-> w.prep, rec |-> w.rec, live |-> w.live, pos |-> pos, out |-> out] \in Worker
  BY <1>1 DEF Worker
<1> QED  BY <1>1, <1>2 DEF becomes

\* A worker's report is an event.
LEMMA ReportTypes ==
    ASSUME TypeOK, NEW w \in workers, NEW k \in Kinds, report(w, k)
    PROVE  workers' \subseteq Worker
<1> DEFINE e == [kind |-> k, prep |-> w.prep, rev |-> prep[w.prep].rev, gen |-> w.rec.gen]
<1>1. w \in Worker
  BY DEF TypeOK
<1>2. w.prep \in Prep /\ w.rec \in Record
  BY <1>1 DEF Worker
<1>3. prep[w.prep] \in Record
  BY <1>2 DEF TypeOK
<1>4. e \in Event
  BY <1>2, <1>3 DEF Event, Record, Kinds
<1>5. becomes(w, "send", {e})
  BY DEF report
<1> HIDE DEF e
<1> QED  BY <1>4, <1>5, BecomesTypes

\* The initial state is well typed.
LEMMA TypeInit == Init => TypeOK
<1> SUFFICES ASSUME Init PROVE TypeOK
  OBVIOUS
<1>1. prep \in [Prep -> Record] /\ store \in [Prep -> SUBSET Record] /\ final \in [Prep -> SUBSET Marker]
  BY AbsentType DEF Init
<1>2. cap \in CapType
  BY NoCapType DEF Init
<1>3. events \in Seq(Event) /\ Len(events) <= EventCap
  BY ConstantsAssumption DEF Init
<1>4. owner \in [Prep -> Nat]
  BY DEF Init
<1> QED  BY <1>1, <1>2, <1>3, <1>4 DEF Init, TypeOK, CapType

\* The steps of a worker keep the types.
LEMMA RunCloneTypes ==
    ASSUME TypeOK, NEW w \in workers, runClone(w)
    PROVE  TypeOK'
<1>1. w \in Worker /\ w.prep \in Prep /\ w.rec \in Record /\ w.out \subseteq Event
  BY DEF TypeOK, Worker
<1>2. CASE runCloneClones(w)
  <2>1. workers' \subseteq Worker
    BY <1>2, BecomesTypes, ReportTypes DEF runCloneClones, Kinds
  <2>2. staging' \subseteq Prep
    BY <1>1, <1>2 DEF runCloneClones, TypeOK
  <2> QED  BY <1>2, <2>1, <2>2 DEF runCloneClones, TypeOK, memory, queue
<1>3. CASE runClonePublishes(w)
  <2> DEFINE m == [gen |-> w.rec.gen, rev |-> w.rec.rev]
  <2>1. m \in Marker
    BY <1>1 DEF Marker, Record
  <2>2. workers' \subseteq Worker
    BY <1>3, BecomesTypes, ReportTypes DEF runClonePublishes, finalConflict, Kinds
  <2>3. staging' \subseteq Prep /\ charged' \subseteq Prep
    BY <1>3 DEF runClonePublishes, finalConflict, TypeOK
  <2>4. final' = final \/ final' = [final EXCEPT ![w.prep] = {m}]
    BY <1>3 DEF runClonePublishes
  <2> HIDE DEF m
  <2>5. FinalType'
    <3>1. {m} \in SUBSET Marker /\ \A a, b \in {m} : a = b
      BY <2>1
    <3>2. final \in [Prep -> SUBSET Marker] /\ \A p \in Prep : \A a, b \in final[p] : a = b
      BY DEF TypeOK
    <3> QED  BY <1>1, <2>4, <3>1, <3>2, SingleUpdate, SMTT(30) DEF FinalType
  <2> QED  BY <1>3, <2>2, <2>3, <2>5 DEF runClonePublishes, TypeOK, FinalType, memory, queue
<1>4. CASE runCloneSaves(w)
  <2>1. workers' \subseteq Worker
    BY <1>4, ReportTypes DEF runCloneSaves, Kinds
  <2>2. store' = store \/ store' = [store EXCEPT ![w.prep] = {w.rec}]
    BY <1>4 DEF runCloneSaves
  <2>3. StoreType'
    <3>1. {w.rec} \in SUBSET Record /\ \A a, b \in {w.rec} : a = b
      BY <1>1
    <3>2. store \in [Prep -> SUBSET Record] /\ \A p \in Prep : \A a, b \in store[p] : a = b
      BY DEF TypeOK
    <3> QED  BY <1>1, <2>2, <3>1, <3>2, SingleUpdate, SMTT(30) DEF StoreType
  <2>4. charged' \subseteq Prep
    BY <1>1, <1>4 DEF runCloneSaves, TypeOK
  <2> QED  BY <1>4, <2>1, <2>3, <2>4 DEF runCloneSaves, TypeOK, StoreType, memory, queue, disk
<1>5. CASE runCloneSends(w)
  <2>1. workers' \subseteq Worker
    BY <1>5, BecomesTypes DEF runCloneSends
  <2>2. PICK e \in w.out : Enqueue(events, e)
    BY <1>5 DEF runCloneSends
  <2>3. events' \in Seq(Event) /\ Len(events') <= EventCap /\ dropped' \subseteq Prep
    BY <1>1, <2>2, EnqueueTypes DEF TypeOK
  <2> QED  BY <1>5, <2>1, <2>3 DEF runCloneSends, TypeOK, memory, disk
<1>6. CASE finishWorker(w)
  <2>1. cap' \in CapType
    BY <1>1, <1>6, CapTypes DEF finishWorker, TypeOK, CapType
  <2>2. owner' \in [Prep -> Nat] /\ workers' \subseteq Worker
    BY <1>1, <1>6 DEF finishWorker, TypeOK
  <2> QED  BY <1>6, <2>1, <2>2 DEF finishWorker, TypeOK, CapType, memory, queue, disk
<1> QED  BY <1>2, <1>3, <1>4, <1>5, <1>6 DEF runClone

\* The end of a process keeps the types.
LEMMA EndsTypes ==
    ASSUME TypeOK, NEW how \in {"down", "panicked"}, processEnds(how)
    PROVE  TypeOK'
<1>1. prep' \in [Prep -> Record] /\ owner' \in [Prep -> Nat]
  BY AbsentType DEF processEnds
<1>2. cap' \in CapType
  BY NoCapType DEF processEnds
<1>3. events' \in Seq(Event) /\ Len(events') <= EventCap
  BY ConstantsAssumption DEF processEnds
<1> QED  BY <1>1, <1>2, <1>3 DEF processEnds, TypeOK, CapType, disk

\* Reconciliation keeps a record a record.
LEMMA ReconciledType ==
    ASSUME NEW p \in Prep, NEW r \in Record
    PROVE  reconciled(p, r) \in Record
<1>1. r.rev + 1 \in Nat /\ r.gen \in Nat
  BY SMTT(30) DEF Record
<1>2. \A s \in Stage, o \in Origins :
         [stage |-> s, rev |-> r.rev + 1, gen |-> r.gen, origin |-> o] \in Record
  BY <1>1 DEF Record, Origins
<1> QED  BY <1>2 DEF reconciled, Stage, Origins

\* A restart loads and reconciles well-typed records.
LEMMA RestartTypes ==
    ASSUME TypeOK, ReconcileRepositoryPreparations
    PROVE  TypeOK'
<1> DEFINE recs(p) == {reconciled(p, r) : r \in store[p]}
<1>1. \A p \in Prep : recs(p) \in SUBSET Record /\ \A r, s \in recs(p) : r = s
  <2> SUFFICES ASSUME NEW p \in Prep PROVE recs(p) \in SUBSET Record /\ \A r, s \in recs(p) : r = s
    OBVIOUS
  <2>1. store[p] \in SUBSET Record /\ \A r, s \in store[p] : r = s
    BY DEF TypeOK
  <2>2. \A r \in store[p] : reconciled(p, r) \in Record
    BY <2>1, ReconciledType
  <2> QED  BY <2>1, <2>2, Zenon
<1>2. \A p \in Prep : store[p] # {} => (CHOOSE r \in recs(p) : TRUE) \in Record
  <2> SUFFICES ASSUME NEW p \in Prep, store[p] # {} PROVE (CHOOSE r \in recs(p) : TRUE) \in Record
    OBVIOUS
  <2>1. \E r \in recs(p) : TRUE
    OBVIOUS
  <2>2. (CHOOSE r \in recs(p) : TRUE) \in recs(p)
    BY <2>1, Zenon
  <2> QED  BY <1>1, <2>2
<1>3. /\ phase' = "running"
      /\ prep' = [p \in Prep |-> IF store[p] = {} THEN Absent ELSE CHOOSE r \in recs(p) : TRUE]
      /\ UNCHANGED <<sessions, queue, control, charged, final, terminals>>
      /\ staging' \subseteq staging
  BY DEF ReconcileRepositoryPreparations
<1>4. PICK lost \in SUBSET {p \in SaveFails : recs(p) # store[p]} :
         /\ store' = [p \in Prep |-> IF p \in lost THEN store[p] ELSE recs(p)]
         /\ unsaved' = unsaved \cup lost
  BY Zenon DEF ReconcileRepositoryPreparations
<1> HIDE DEF recs
<1>5. prep' \in [Prep -> Record]
  BY <1>2, <1>3, AbsentType
<1>6. StoreType'
  <2>1. \A p \in Prep : store[p] \in SUBSET Record /\ \A r, s \in store[p] : r = s
    BY DEF TypeOK
  <2>2. \A p \in Prep : store'[p] = store[p] \/ store'[p] = recs(p)
    BY <1>4
  <2>3. store' \in [Prep -> SUBSET Record]
    BY <1>1, <1>4, <2>1
  <2>4. ASSUME NEW p \in Prep, NEW r \in store'[p], NEW s \in store'[p] PROVE r = s
    <3>1. CASE store'[p] = store[p]
      BY <2>1, <3>1, Zenon
    <3>2. CASE store'[p] = recs(p)
      BY <1>1, <3>2, Zenon
    <3> QED  BY <2>2, <3>1, <3>2
  <2> QED  BY <2>3, <2>4 DEF StoreType
<1>7. unsaved' \subseteq Prep
  BY <1>4, ConstantsAssumption DEF TypeOK
<1> QED  BY <1>3, <1>5, <1>6, <1>7, Zenon DEF TypeOK, StoreType, queue, control

\* Every action keeps the types.
LEMMA TypeStep == TypeOK /\ [Next]_vars => TypeOK'
<1> SUFFICES ASSUME TypeOK, [Next]_vars PROVE TypeOK'
  OBVIOUS
<1>1. ASSUME NEW p \in Prep, reduceRepositoryCreate(p) PROVE TypeOK'
  <2> DEFINE r == [stage |-> "confirmed", rev |-> 1, gen |-> 1, origin |-> "none"]
  <2>1. r \in Record
    BY DEF Record, Stage
  <2>2. startPreparationClone(p, r)
    BY <1>1 DEF reduceRepositoryCreate
  <2> HIDE DEF r
  <2> QED  BY <1>1, <2>1, <2>2, StartTypes DEF reduceRepositoryCreate, TypeOK, StoreType, CapType, disk
<1>2. ASSUME NEW p \in Prep, reduceRepositoryCancelled(p) PROVE TypeOK'
  <2> DEFINE r == advance(p, "cancelled", originOf(prep[p].stage))
  <2>1. r \in Record
    BY AdvanceType, OriginType DEF Stage
  <2>2. prep' = [prep EXCEPT ![p] = r] /\ persist(p, <<r>>) /\ workers' = stopped(p, r.gen)
    BY <1>2 DEF reduceRepositoryCancelled
  <2> HIDE DEF r
  <2>3. StoreType' /\ unsaved' \subseteq Prep /\ workers' \subseteq Worker
    BY <2>1, <2>2, OneRecord, PersistTypes, StoppedTypes, Zenon
  <2>4. UNCHANGED <<phase, sessions, queue, owner, cap, charged, disk, terminals>>
    BY <1>2 DEF reduceRepositoryCancelled
  <2>5. prep' \in [Prep -> Record]
    BY <2>1, <2>2 DEF TypeOK
  <2> QED  BY <2>3, <2>4, <2>5 DEF TypeOK, StoreType, queue, disk
<1>3. ASSUME NEW p \in Prep, reduceRepositoryAbandon(p) PROVE TypeOK'
  <2> DEFINE r == advance(p, "abandoned", prep[p].origin)
  <2>1. prep[p].origin \in Origins
    BY DEF TypeOK, Record, Origins
  <2>2. r \in Record
    BY <2>1, AdvanceType DEF Stage
  <2>3. /\ prep' = [prep EXCEPT ![p] = r] /\ persist(p, <<r>>) /\ workers' = stopped(p, r.gen)
        /\ CleanupNeverAvailable(p)
    BY <1>3 DEF reduceRepositoryAbandon
  <2> HIDE DEF r
  <2>4. StoreType' /\ unsaved' \subseteq Prep /\ workers' \subseteq Worker
    BY <2>2, <2>3, OneRecord, PersistTypes, StoppedTypes, Zenon
  <2>5. FinalType' /\ staging' \subseteq Prep /\ charged' \subseteq Prep
    BY <2>3, CleanupTypes
  <2>6. UNCHANGED <<phase, sessions, queue, owner, cap, terminals>>
    BY <1>3 DEF reduceRepositoryAbandon
  <2>7. prep' \in [Prep -> Record]
    BY <2>2, <2>3 DEF TypeOK
  <2> QED  BY <2>4, <2>5, <2>6, <2>7 DEF TypeOK, StoreType, FinalType, queue
<1>4. ASSUME NEW p \in Prep, reduceRepositoryRetry(p) PROVE TypeOK'
  <2> DEFINE r == [stage |-> IF prep[p].origin = "launch" THEN "clone-ready" ELSE "confirmed",
                   rev |-> prep[p].rev + 1, gen |-> prep[p].gen + 1, origin |-> "none"]
  <2>1. r \in Record
    <3>1. prep[p].rev + 1 \in Nat /\ prep[p].gen + 1 \in Nat
      BY SMTT(30) DEF TypeOK, Record
    <3> QED  BY <3>1 DEF Record, Stage
  <2>2. UNCHANGED <<phase, sessions>>
    BY <1>4 DEF reduceRepositoryRetry
  <2>3. CASE prep[p].origin = "launch"
    <3>1. prep' = [prep EXCEPT ![p] = r] /\ persist(p, <<r>>) /\ launchPreparationSession(p, r, events)
      BY <1>4, <2>3 DEF reduceRepositoryRetry
    <3> HIDE DEF r
    <3>2. StoreType' /\ unsaved' \subseteq Prep
      BY <2>1, <3>1, OneRecord, PersistTypes, Zenon
    <3>3. events \in Seq(Event) /\ Len(events) <= EventCap
      BY DEF TypeOK
    <3>4. UNCHANGED <<owner, cap, final>>
      BY <3>1 DEF launchPreparationSession
    <3> QED  BY <2>1, <2>2, <3>1, <3>2, <3>3, <3>4, LaunchTypes, Zenon DEF TypeOK, StoreType
  <2>4. CASE prep[p].origin # "launch"
    <3>1. startPreparationClone(p, r) /\ UNCHANGED <<charged, disk, terminals>>
      BY <1>4, <2>4 DEF reduceRepositoryRetry
    <3> HIDE DEF r
    <3> QED  BY <2>1, <2>2, <3>1, StartTypes DEF TypeOK, StoreType, CapType, disk
  <2> QED  BY <2>3, <2>4
<1>5. ASSUME NEW p \in Prep, SweepNeverAvailableOrphans(p) PROVE TypeOK'
  <2>1. FinalType' /\ staging' \subseteq Prep /\ charged' \subseteq Prep
    BY <1>5, CleanupTypes DEF SweepNeverAvailableOrphans
  <2>2. StoreType'
    <3>1. {} \in SUBSET Record /\ \A a, b \in {} : a = b
      OBVIOUS
    <3>2. store \in [Prep -> SUBSET Record] /\ \A k \in Prep : \A a, b \in store[k] : a = b
      BY DEF TypeOK
    <3>3. store' = [store EXCEPT ![p] = {}]
      BY <1>5 DEF SweepNeverAvailableOrphans
    <3> QED  BY <3>1, <3>2, <3>3, SingleUpdate DEF StoreType
  <2> QED  BY <1>5, <2>1, <2>2 DEF SweepNeverAvailableOrphans, TypeOK, StoreType, FinalType,
                                   memory, queue, control
<1>6. CASE reduceRepository
  <2> DEFINE e == Head(events)
  <2>1. /\ Tail(events) \in Seq(Event) /\ Len(Tail(events)) <= EventCap
        /\ e \in Event /\ e.prep \in Prep /\ phase' = phase
    BY <1>6, TailTypes DEF reduceRepository, Event
  <2>2. CASE reduceRepositoryCloneReady(e)
    <3> DEFINE r == advance(e.prep, "clone-ready", "none")
    <3>1. r \in Record
      BY <2>1, AdvanceType DEF Stage, Origins
    <3>2. /\ prep' = [prep EXCEPT ![e.prep] = r] /\ persist(e.prep, <<r>>)
          /\ launchPreparationSession(e.prep, r, Tail(events)) /\ UNCHANGED sessions
      BY <2>2, Zenon DEF reduceRepositoryCloneReady
    <3> HIDE DEF r, e
    <3>3. StoreType' /\ unsaved' \subseteq Prep
      BY <2>1, <3>1, <3>2, OneRecord, PersistTypes, Zenon
    <3>4. UNCHANGED <<owner, cap, final>>
      BY <3>2 DEF launchPreparationSession
    <3> QED  BY <2>1, <3>1, <3>2, <3>3, <3>4, LaunchTypes, Zenon DEF TypeOK, StoreType
  <2>3. CASE reduceRepositoryFailed(e)
    <3> DEFINE r == advance(e.prep, "failed", originOf(prep[e.prep].stage))
    <3>1. r \in Record
      BY <2>1, AdvanceType, OriginType DEF Stage
    <3>2. prep' = [prep EXCEPT ![e.prep] = r] /\ persist(e.prep, <<r>>)
      BY <2>3 DEF reduceRepositoryFailed
    <3> HIDE DEF r
    <3>3. StoreType' /\ unsaved' \subseteq Prep
      BY <2>1, <3>1, <3>2, OneRecord, PersistTypes, Zenon
    <3>4. events' = Tail(events) /\ UNCHANGED <<dropped, control, charged, disk, terminals>>
      BY <2>3 DEF reduceRepositoryFailed
    <3>5. sessions' \subseteq Prep
      BY <2>1, <2>3 DEF reduceRepositoryFailed, TypeOK
    <3>6. prep' \in [Prep -> Record]
      BY <2>1, <3>1, <3>2 DEF TypeOK
    <3> HIDE DEF e
    <3> QED  BY <2>1, <3>3, <3>4, <3>5, <3>6 DEF TypeOK, StoreType, control, disk
  <2>4. CASE reduceRepositoryQuarantined(e)
    <3> DEFINE r == advance(e.prep, "internal_corruption", "none")
    <3>1. r \in Record
      BY <2>1, AdvanceType DEF Stage, Origins
    <3>2. prep' = [prep EXCEPT ![e.prep] = r] /\ persist(e.prep, <<r>>)
      BY <2>4 DEF reduceRepositoryQuarantined
    <3> HIDE DEF r
    <3>3. StoreType' /\ unsaved' \subseteq Prep
      BY <2>1, <3>1, <3>2, OneRecord, PersistTypes, Zenon
    <3>4. events' = Tail(events) /\ UNCHANGED <<dropped, control, charged, disk, terminals>>
      BY <2>4 DEF reduceRepositoryQuarantined
    <3>5. sessions' \subseteq Prep
      BY <2>1, <2>4 DEF reduceRepositoryQuarantined, TypeOK
    <3>6. prep' \in [Prep -> Record]
      BY <2>1, <3>1, <3>2 DEF TypeOK
    <3> HIDE DEF e
    <3> QED  BY <2>1, <3>3, <3>4, <3>5, <3>6 DEF TypeOK, StoreType, control, disk
  <2>5. CASE reduceRepositoryCommitAvailable(e)
    <3> DEFINE r == advance(e.prep, "available", "none")
    <3>1. r \in Record
      BY <2>1, AdvanceType DEF Stage, Origins
    <3>2. prep' = [prep EXCEPT ![e.prep] = r] /\ persist(e.prep, <<r>>)
      BY <2>5 DEF reduceRepositoryCommitAvailable
    <3> HIDE DEF r
    <3>3. StoreType' /\ unsaved' \subseteq Prep
      BY <2>1, <3>1, <3>2, OneRecord, PersistTypes, Zenon
    <3>4. events' = Tail(events) /\ UNCHANGED <<dropped, control, charged, disk, terminals>>
      BY <2>5 DEF reduceRepositoryCommitAvailable
    <3>5. sessions' \subseteq Prep
      BY <2>1, <2>5 DEF reduceRepositoryCommitAvailable, TypeOK
    <3>6. prep' \in [Prep -> Record]
      BY <2>1, <3>1, <3>2 DEF TypeOK
    <3> HIDE DEF e
    <3> QED  BY <2>1, <3>3, <3>4, <3>5, <3>6 DEF TypeOK, StoreType, control, disk
  <2>6. CASE /\ events' = Tail(events)
             /\ UNCHANGED <<memory, dropped, store, unsaved, control, charged, disk, terminals>>
    BY <2>1, <2>6 DEF TypeOK, memory, control, disk
  <2> QED  BY <1>6, <2>2, <2>3, <2>4, <2>5, <2>6 DEF reduceRepository
<1>7. ASSUME NEW w \in workers, runClone(w) PROVE TypeOK'
  BY <1>7, RunCloneTypes
<1>8. CASE reduceShutdown \/ reduceShutdownSaveFailed
  BY <1>8 DEF reduceShutdown, reduceShutdownSaveFailed, TypeOK, memory, queue, control, disk
<1>9. CASE reduceQuiescing \/ Crash
  BY <1>9, EndsTypes DEF reduceQuiescing, Crash
<1>10. CASE ReconcileRepositoryPreparations
  BY <1>10, RestartTypes
<1>11. CASE UNCHANGED vars
  BY <1>11 DEF vars, TypeOK
<1> QED  BY <1>1, <1>2, <1>3, <1>4, <1>5, <1>6, <1>7, <1>8, <1>9, <1>10, <1>11 DEF Next

\* Every reachable state is well typed, for any preparations, repositories, caps and
\* bounds: in particular a preparation has at most one record and one directory, and
\* the event channel is never over its capacity.
THEOREM TypeCorrect == Spec => []TypeOK
<1> QED  BY TypeInit, TypeStep, PTL DEF Spec

-----------------------------------------------------------------------------
(* The capacity counts the workers.                                         *)

\* The inductive invariant: the controller knows the generation of every worker, which
\* is never the zero that stands for no worker.
Counted ==
    /\ WorkersAreCounted
    /\ \A w \in workers : owner[w.prep] = w.rec.gen /\ w.rec.gen > 0

\* The parts of the invariant a step of a worker's own leaves alone: the preparation and
\* the record of every worker.
LEMMA SameWorkers ==
    ASSUME TypeOK, Counted, UNCHANGED <<owner, cap>>,
           \A w \in workers' : \E v \in workers : v.prep = w.prep /\ v.rec = w.rec,
           \A v \in workers : \E w \in workers' : v.prep = w.prep /\ v.rec = w.rec,
           \A v, w \in workers' : v.prep = w.prep => v = w
    PROVE  Counted'
<1>1. {w.prep : w \in workers'} = {w.prep : w \in workers}
  BY SMTT(30)
<1>2. cap' = cap /\ owner' = owner
  OBVIOUS
<1>3. cap'.busy = {w.prep : w \in workers'}
  BY <1>1, <1>2, Zenon DEF Counted, WorkersAreCounted
<1>4. \A w \in workers' : owner'[w.prep] = w.rec.gen /\ w.rec.gen > 0
  BY <1>2, SMTT(30) DEF Counted
<1> QED  BY <1>2, <1>3, <1>4, Zenon DEF Counted, WorkersAreCounted

\* StopOwnedWork stops a worker without forgetting it.
LEMMA StoppedCounted ==
    ASSUME TypeOK, Counted, NEW p, NEW gen, workers' = stopped(p, gen), UNCHANGED <<owner, cap>>
    PROVE  Counted'
<1> DEFINE stop(w) == IF w.prep = p /\ w.rec.gen = gen /\ owner[p] = gen
                      THEN [w EXCEPT !.live = FALSE] ELSE w
<1>1. \A w \in workers : stop(w).prep = w.prep /\ stop(w).rec = w.rec
  BY DEF TypeOK, Worker
<1>2. workers' = {stop(w) : w \in workers}
  BY DEF stopped
<1> HIDE DEF stop
<1>3. \A v, w \in workers : v.prep = w.prep => v = w
  BY DEF Counted, WorkersAreCounted
<1>4. ASSUME NEW v \in workers', NEW w \in workers', v.prep = w.prep PROVE v = w
  <2>1. PICK v0 \in workers : v = stop(v0)
    BY <1>2
  <2>2. PICK w0 \in workers : w = stop(w0)
    BY <1>2
  <2>3. v0 = w0
    BY <1>1, <1>3, <1>4, <2>1, <2>2
  <2> QED  BY <2>1, <2>2, <2>3
<1>5. /\ \A w \in workers' : \E v \in workers : v.prep = w.prep /\ v.rec = w.rec
      /\ \A v \in workers : \E w \in workers' : v.prep = w.prep /\ v.rec = w.rec
  BY <1>1, <1>2, Zenon
<1> QED  BY <1>4, <1>5, SameWorkers

\* A worker that goes on is the same worker.
LEMMA BecomesCounted ==
    ASSUME TypeOK, Counted, NEW w \in workers, NEW pos, NEW out, becomes(w, pos, out),
           UNCHANGED <<owner, cap>>
    PROVE  Counted'
<1> DEFINE v == [prep |-> w.prep, rec |-> w.rec, live |-> w.live, pos |-> pos, out |-> out]
<1>1. v.prep = w.prep /\ v.rec = w.rec
  OBVIOUS
<1>2. workers' = (workers \ {w}) \cup {v}
  BY DEF becomes
<1> HIDE DEF v
<1>3. \A x, y \in workers : x.prep = y.prep => x = y
  BY DEF Counted, WorkersAreCounted
<1>4. ASSUME NEW x \in workers', NEW y \in workers', x.prep = y.prep PROVE x = y
  <2>1. x = v \/ (x \in workers /\ x # w)
    BY <1>2
  <2>2. y = v \/ (y \in workers /\ y # w)
    BY <1>2
  <2> QED  BY <1>1, <1>3, <1>4, <2>1, <2>2
<1>5. /\ \A x \in workers' : \E y \in workers : y.prep = x.prep /\ y.rec = x.rec
      /\ \A y \in workers : \E x \in workers' : y.prep = x.prep /\ y.rec = x.rec
  BY <1>1, <1>2
<1> QED  BY <1>4, <1>5, SameWorkers

\* A counter that has not reached its cap is below it.
LEMMA NotFull == \A m, n \in Nat : ~(m >= n) => m < n
OBVIOUS

\* Admission means a free slot of the server and of the repository, and no other worker
\* for the intent.
LEMMA Admitted ==
    ASSUME TypeOK, NEW p \in Prep, AdmitClone(p) = ""
    PROVE  p \notin cap.busy /\ cap.active < ActiveCap /\ cap.repo[RepoOf[p]] < RepoCap
<1>1. cap.active \in Nat /\ cap.repo[RepoOf[p]] \in Nat
  BY ConstantsAssumption, Zenon DEF TypeOK
<1>2. p \notin cap.busy
  BY DEF AdmitClone
<1>3. ~(cap.active >= ActiveCap)
  BY <1>2 DEF AdmitClone
<1>4. ~(cap.repo[RepoOf[p]] >= RepoCap)
  BY <1>2, <1>3 DEF AdmitClone
<1>5. ActiveCap \in Nat /\ RepoCap \in Nat
  BY ConstantsAssumption, Zenon
<1>6. cap.active < ActiveCap
  BY <1>1, <1>3, <1>5, NotFull, Zenon
<1>7. cap.repo[RepoOf[p]] < RepoCap
  BY <1>1, <1>4, <1>5, NotFull, Zenon
<1> QED  BY <1>2, <1>6, <1>7, Zenon

\* The busy preparations of one repository.
busyOf(b, r) == {q \in b : RepoOf[q] = r}

\* One more busy preparation counts once, for the server and for its repository.
LEMMA CountAdd ==
    ASSUME NEW b \in SUBSET Prep, NEW p \in Prep \ b
    PROVE  /\ Cardinality(b \cup {p}) = Cardinality(b) + 1
           /\ \A r \in Repo : Cardinality(busyOf(b \cup {p}, r)) =
                 IF RepoOf[p] = r THEN Cardinality(busyOf(b, r)) + 1 ELSE Cardinality(busyOf(b, r))
           /\ Cardinality(b) \in Nat /\ \A r \in Repo : Cardinality(busyOf(b, r)) \in Nat
<1>1. IsFiniteSet(b) /\ \A r \in Repo : IsFiniteSet(busyOf(b, r))
  BY FS_Subset, ConstantsAssumption DEF busyOf
<1>2. Cardinality(b \cup {p}) = Cardinality(b) + 1
  BY <1>1, FS_AddElement
<1>3. ASSUME NEW r \in Repo, RepoOf[p] = r
      PROVE  Cardinality(busyOf(b \cup {p}, r)) = Cardinality(busyOf(b, r)) + 1
  <2>1. busyOf(b \cup {p}, r) = busyOf(b, r) \cup {p} /\ p \notin busyOf(b, r)
    BY <1>3 DEF busyOf
  <2> QED  BY <1>1, <2>1, FS_AddElement, Zenon
<1>4. ASSUME NEW r \in Repo, RepoOf[p] # r PROVE busyOf(b \cup {p}, r) = busyOf(b, r)
  BY <1>4 DEF busyOf
<1>5. Cardinality(b) \in Nat /\ \A r \in Repo : Cardinality(busyOf(b, r)) \in Nat
  BY <1>1, FS_CardinalityType
<1> QED  BY <1>2, <1>3, <1>4, <1>5, Zenon

\* What WorkersAreCounted says of the counters.
LEMMA CountersIs ==
    WorkersAreCounted <=>
        /\ cap.busy = {w.prep : w \in workers}
        /\ \A v, w \in workers : v.prep = w.prep => v = w
        /\ \A p \in Prep : owner[p] = 0 <=> p \notin cap.busy
        /\ cap.active = Cardinality(cap.busy) /\ cap.active <= ActiveCap
        /\ \A r \in Repo : cap.repo[r] = Cardinality(busyOf(cap.busy, r)) /\ cap.repo[r] <= RepoCap
BY DEF WorkersAreCounted, busyOf

\* A started clone is counted.
LEMMA StartCounted ==
    ASSUME TypeOK, Counted, NEW p \in Prep, NEW r \in Record, r.gen > 0,
           startPreparationClone(p, r)
    PROVE  Counted'
<1>1. CASE AdmitClone(p) = ""
  <2> DEFINE w == [prep |-> p, rec |-> cloneStarted(r), pos |-> "clone", live |-> TRUE, out |-> {}]
             b == cap.busy
  <2>1. /\ cap' = BeginActive(p) /\ owner' = [owner EXCEPT ![p] = r.gen]
        /\ workers' = workers \cup {w}
    BY <1>1, Zenon DEF startPreparationClone
  <2>2. w.prep = p /\ w.rec.gen = r.gen
    BY DEF cloneStarted
  <2> HIDE DEF w
  <2>3. b \in SUBSET Prep /\ p \notin b /\ cap.active < ActiveCap /\ cap.repo[RepoOf[p]] < RepoCap
        /\ RepoOf[p] \in Repo /\ cap.repo \in [Repo -> Nat] /\ owner \in [Prep -> Nat]
    BY <1>1, Admitted, ConstantsAssumption, Zenon DEF TypeOK
  <2>4. /\ cap'.busy = b \cup {p} /\ cap'.active = cap.active + 1
        /\ cap'.repo = [cap.repo EXCEPT ![RepoOf[p]] = @ + 1]
    BY <2>1 DEF BeginActive
  <2>5. /\ b = {v.prep : v \in workers}
        /\ \A v, x \in workers : v.prep = x.prep => v = x
        /\ \A q \in Prep : owner[q] = 0 <=> q \notin b
        /\ cap.active = Cardinality(b)
        /\ \A k \in Repo : cap.repo[k] = Cardinality(busyOf(b, k)) /\ cap.repo[k] <= RepoCap
        /\ \A v \in workers : owner[v.prep] = v.rec.gen /\ v.rec.gen > 0
    BY CountersIs DEF Counted
  <2>6. \A v \in workers : v.prep # p /\ v.prep \in Prep
    BY <2>3, <2>5
  <2> HIDE DEF b
  <2>7. cap'.busy = {v.prep : v \in workers'}
    BY <2>1, <2>2, <2>4, <2>5, SMTT(30)
  <2>8. \A v, x \in workers' : v.prep = x.prep => v = x
    BY <2>1, <2>2, <2>5, <2>6
  <2>9. /\ \A q \in Prep : owner'[q] = 0 <=> q \notin cap'.busy
        /\ \A v \in workers' : owner'[v.prep] = v.rec.gen /\ v.rec.gen > 0
    <3>1. owner'[p] = r.gen /\ \A q \in Prep \ {p} : owner'[q] = owner[q]
      BY <2>1, <2>3
    <3>2. r.gen # 0
      BY SMTT(30) DEF Record
    <3> QED  BY <2>1, <2>2, <2>4, <2>5, <2>6, <3>1, <3>2, SMTT(30)
  <2>10. cap'.active = Cardinality(cap'.busy) /\ cap'.active <= ActiveCap
    <3>1. Cardinality(b \cup {p}) = Cardinality(b) + 1 /\ Cardinality(b) \in Nat
      BY <2>3, CountAdd, Zenon
    <3>2. cap.active = Cardinality(b) /\ cap'.active = cap.active + 1 /\ cap'.busy = b \cup {p}
      BY <2>4, <2>5, Zenon
    <3>3. ActiveCap \in Nat /\ cap.active < ActiveCap
      BY <2>3, ConstantsAssumption
    <3> QED  BY <3>1, <3>2, <3>3
  <2>11. ASSUME NEW k \in Repo
         PROVE  cap'.repo[k] = Cardinality(busyOf(cap'.busy, k)) /\ cap'.repo[k] <= RepoCap
    <3>1. /\ Cardinality(busyOf(b \cup {p}, k)) =
               IF RepoOf[p] = k THEN Cardinality(busyOf(b, k)) + 1 ELSE Cardinality(busyOf(b, k))
          /\ Cardinality(busyOf(b, k)) \in Nat
      BY <2>3, CountAdd
    <3>2. cap'.repo[k] = IF RepoOf[p] = k THEN cap.repo[k] + 1 ELSE cap.repo[k]
      BY <2>3, <2>4
    <3>3. cap.repo[k] = Cardinality(busyOf(b, k)) /\ cap.repo[k] <= RepoCap /\ cap'.busy = b \cup {p}
      BY <2>4, <2>5, Zenon
    <3>4. RepoCap \in Nat /\ (RepoOf[p] = k => cap.repo[k] < RepoCap)
      BY <2>3, ConstantsAssumption
    <3> QED  BY <3>1, <3>2, <3>3, <3>4, SMTT(30)
  <2>12. WorkersAreCounted'
    BY <2>7, <2>8, <2>9, <2>10, <2>11 DEF WorkersAreCounted, busyOf
  <2> QED  BY <2>9, <2>12 DEF Counted
<1>2. CASE AdmitClone(p) = "queue"
  <2>1. cap' = [cap EXCEPT !.queued = @ + 1] /\ UNCHANGED <<owner, workers>>
    BY <1>2 DEF startPreparationClone
  <2>2. cap'.busy = cap.busy /\ cap'.active = cap.active /\ cap'.repo = cap.repo
    BY <2>1 DEF TypeOK
  <2> QED  BY <2>1, <2>2, Zenon DEF Counted, WorkersAreCounted
<1>3. CASE AdmitClone(p) = "refuse"
  BY <1>3, Zenon DEF startPreparationClone, control, Counted, WorkersAreCounted
<1> QED  BY <1>1, <1>2, <1>3, Zenon DEF startPreparationClone

\* A worker that ends is taken off every count.
LEMMA FinishCounted ==
    ASSUME TypeOK, Counted, NEW w \in workers, finishWorker(w)
    PROVE  Counted'
<1> DEFINE p == w.prep
           b == cap.busy \ {w.prep}
<1>1. /\ cap' = EndActive(p) /\ workers' = workers \ {w}
      /\ owner' = IF owner[p] = w.rec.gen THEN [owner EXCEPT ![p] = 0] ELSE owner
  BY DEF finishWorker
<1>2. /\ cap'.busy = b /\ cap'.active = minus1(cap.active)
      /\ cap'.repo = [cap.repo EXCEPT ![RepoOf[p]] = minus1(@)]
  BY <1>1 DEF EndActive
<1>3. /\ cap.busy = {v.prep : v \in workers}
      /\ \A v, x \in workers : v.prep = x.prep => v = x
      /\ \A q \in Prep : owner[q] = 0 <=> q \notin cap.busy
      /\ cap.active = Cardinality(cap.busy) /\ cap.active <= ActiveCap
      /\ \A k \in Repo : cap.repo[k] = Cardinality(busyOf(cap.busy, k)) /\ cap.repo[k] <= RepoCap
      /\ \A v \in workers : owner[v.prep] = v.rec.gen /\ v.rec.gen > 0
  BY CountersIs DEF Counted
<1>4. /\ p \in cap.busy /\ p \in Prep /\ cap.busy = b \cup {p} /\ b \in SUBSET Prep /\ p \notin b
      /\ RepoOf[p] \in Repo /\ cap.repo \in [Repo -> Nat] /\ owner \in [Prep -> Nat]
  BY <1>3, ConstantsAssumption, SMTT(30) DEF TypeOK
<1>4a. b \in SUBSET Prep /\ p \in Prep \ b
  BY <1>4
<1>5. \A v \in workers' : v \in workers /\ v.prep # p
  BY <1>1, <1>3
<1> HIDE DEF p, b
<1>6. cap'.busy = {v.prep : v \in workers'}
  BY <1>1, <1>2, <1>3, <1>4, <1>5, SMTT(30) DEF p
<1>7. \A v, x \in workers' : v.prep = x.prep => v = x
  BY <1>3, <1>5
<1>8. owner'[p] = 0 /\ \A q \in Prep \ {p} : owner'[q] = owner[q]
  BY <1>1, <1>3, <1>4 DEF p
<1>9. /\ \A q \in Prep : owner'[q] = 0 <=> q \notin cap'.busy
      /\ \A v \in workers' : owner'[v.prep] = v.rec.gen /\ v.rec.gen > 0
  <2>1. \A v \in workers' : v.prep \in Prep \ {p}
    BY <1>3, <1>4, <1>5, SMTT(30)
  <2> QED  BY <1>2, <1>3, <1>4, <1>5, <1>8, <2>1
<1>10. cap'.active = Cardinality(cap'.busy) /\ cap'.active <= ActiveCap
  <2>1. Cardinality(b \cup {p}) = Cardinality(b) + 1 /\ Cardinality(b) \in Nat
    BY <1>4a, CountAdd, Zenon
  <2>2. cap.active = Cardinality(b) + 1
    BY <1>3, <1>4, <2>1, Zenon
  <2>3. minus1(cap.active) = Cardinality(b)
    BY <2>1, <2>2 DEF minus1
  <2>4. ActiveCap \in Nat /\ cap.active <= ActiveCap
    BY <1>3, ConstantsAssumption
  <2> QED  BY <1>2, <2>1, <2>2, <2>3, <2>4, SMTT(30)
<1>11. ASSUME NEW k \in Repo
       PROVE  cap'.repo[k] = Cardinality(busyOf(cap'.busy, k)) /\ cap'.repo[k] <= RepoCap
  <2>1. /\ Cardinality(busyOf(b \cup {p}, k)) =
             IF RepoOf[p] = k THEN Cardinality(busyOf(b, k)) + 1 ELSE Cardinality(busyOf(b, k))
        /\ Cardinality(busyOf(b, k)) \in Nat
    BY <1>4a, CountAdd, Zenon
  <2>2. cap'.repo[k] = IF RepoOf[p] = k THEN minus1(cap.repo[k]) ELSE cap.repo[k]
    BY <1>2, <1>4
  <2>3. cap.repo[k] = Cardinality(busyOf(b \cup {p}, k)) /\ cap.repo[k] <= RepoCap
    BY <1>3, <1>4
  <2>4. cap'.repo[k] = Cardinality(busyOf(b, k)) /\ cap'.repo[k] <= cap.repo[k]
    BY <2>1, <2>2, <2>3 DEF minus1
  <2>5. RepoCap \in Nat
    BY ConstantsAssumption
  <2> QED  BY <1>2, <2>1, <2>3, <2>4, <2>5, SMTT(30)
<1>12. WorkersAreCounted'
  BY <1>6, <1>7, <1>9, <1>10, <1>11 DEF WorkersAreCounted, busyOf
<1> QED  BY <1>9, <1>12 DEF Counted

\* The invariant holds at the start of a process.
LEMMA EmptyCounted ==
    ASSUME workers = {}, owner = [p \in Prep |-> 0], cap = NoCap
    PROVE  Counted
<1>1. cap.busy = {} /\ cap.active = 0 /\ cap.repo = [r \in Repo |-> 0]
  BY DEF NoCap
<1>2. Cardinality({}) = 0
  BY FS_EmptySet
<1>3. \A r \in Repo : {p \in {} : RepoOf[p] = r} = {}
  OBVIOUS
<1>4. ActiveCap \in Nat /\ RepoCap \in Nat
  BY ConstantsAssumption
<1>5. cap.active = Cardinality(cap.busy) /\ cap.active <= ActiveCap
  BY <1>1, <1>2, <1>4, SMTT(30)
<1>6. ASSUME NEW r \in Repo
      PROVE  cap.repo[r] = Cardinality({p \in cap.busy : RepoOf[p] = r}) /\ cap.repo[r] <= RepoCap
  BY <1>1, <1>2, <1>3, <1>4, SMTT(30)
<1> QED  BY <1>1, <1>5, <1>6 DEF Counted, WorkersAreCounted

\* Every action keeps the counts.
LEMMA CountedStep == TypeOK /\ Counted /\ [Next]_vars => Counted'
<1> SUFFICES ASSUME TypeOK, Counted, [Next]_vars PROVE Counted'
  OBVIOUS
<1>0. ASSUME UNCHANGED control PROVE Counted'
  BY <1>0, Zenon DEF control, Counted, WorkersAreCounted
<1>a. ASSUME NEW p, NEW r, NEW q, launchPreparationSession(p, r, q) PROVE Counted'
  <2>1. UNCHANGED <<owner, cap>> /\ (workers' = workers \/ workers' = stopped(p, owner[p]))
    BY <1>a DEF launchPreparationSession, failPendingLaunch
  <2> QED  BY <1>0, <2>1, StoppedCounted DEF control
<1>1. ASSUME NEW p \in Prep, reduceRepositoryCreate(p) PROVE Counted'
  <2> DEFINE r == [stage |-> "confirmed", rev |-> 1, gen |-> 1, origin |-> "none"]
  <2>1. r \in Record /\ r.gen > 0
    BY DEF Record, Stage
  <2>2. startPreparationClone(p, r)
    BY <1>1 DEF reduceRepositoryCreate
  <2> HIDE DEF r
  <2> QED  BY <2>1, <2>2, StartCounted
<1>2. ASSUME NEW p \in Prep, reduceRepositoryCancelled(p) \/ reduceRepositoryAbandon(p)
      PROVE  Counted'
  <2>1. UNCHANGED <<owner, cap>> /\ \E g : workers' = stopped(p, g)
    BY <1>2 DEF reduceRepositoryCancelled, reduceRepositoryAbandon
  <2> QED  BY <2>1, StoppedCounted
<1>3. ASSUME NEW p \in Prep, reduceRepositoryRetry(p) PROVE Counted'
  <2> DEFINE r == [stage |-> IF prep[p].origin = "launch" THEN "clone-ready" ELSE "confirmed",
                   rev |-> prep[p].rev + 1, gen |-> prep[p].gen + 1, origin |-> "none"]
  <2>1. r \in Record /\ r.gen > 0
    <3>1. prep[p].rev + 1 \in Nat /\ prep[p].gen + 1 \in Nat /\ prep[p].gen + 1 > 0
      BY SMTT(30) DEF TypeOK, Record
    <3> QED  BY <3>1 DEF Record, Stage
  <2>2. launchPreparationSession(p, r, events) \/ startPreparationClone(p, r)
    BY <1>3 DEF reduceRepositoryRetry
  <2> HIDE DEF r
  <2> QED  BY <1>a, <2>1, <2>2, StartCounted
<1>4. CASE reduceRepository
  <2>1. \/ UNCHANGED control
        \/ \E p, r, q : launchPreparationSession(p, r, q)
    BY <1>4, Zenon DEF reduceRepository, reduceRepositoryCloneReady, reduceRepositoryFailed,
                reduceRepositoryQuarantined, reduceRepositoryCommitAvailable
  <2> QED  BY <1>0, <1>a, <2>1
<1>5. ASSUME NEW w \in workers, runClone(w) PROVE Counted'
  <2>1. CASE finishWorker(w)
    BY <2>1, FinishCounted
  <2>2. CASE ~finishWorker(w)
    <3>1. UNCHANGED <<owner, cap>> /\ \E pos, out : becomes(w, pos, out)
      BY <1>5, <2>2 DEF runClone, runCloneClones, runClonePublishes, finalConflict, runCloneSaves,
                        runCloneSends, report
    <3> QED  BY <3>1, BecomesCounted
  <2> QED  BY <2>1, <2>2
<1>6. CASE reduceQuiescing \/ Crash
  <2>1. workers' = {} /\ owner' = [p \in Prep |-> 0] /\ cap' = NoCap
    BY <1>6 DEF reduceQuiescing, Crash, processEnds
  <2>2. (workers = {} /\ owner = [p \in Prep |-> 0] /\ cap = NoCap => Counted)'
    BY EmptyCounted, PTL
  <2> QED  BY <2>1, <2>2 DEF NoCap
<1>7. ASSUME NEW p \in Prep, SweepNeverAvailableOrphans(p) PROVE Counted'
  BY <1>0, <1>7 DEF SweepNeverAvailableOrphans
<1>8. CASE reduceShutdown \/ reduceShutdownSaveFailed \/ ReconcileRepositoryPreparations
  BY <1>0, <1>8 DEF reduceShutdown, reduceShutdownSaveFailed, ReconcileRepositoryPreparations
<1>9. CASE UNCHANGED vars
  BY <1>0, <1>9 DEF vars, control
<1> QED  BY <1>1, <1>2, <1>3, <1>4, <1>5, <1>6, <1>7, <1>8, <1>9 DEF Next

\* The inductive invariant holds always.
LEMMA CountedHolds == Spec => []Counted
<1>1. Init => Counted
  BY EmptyCounted DEF Init
<1> QED  BY <1>1, TypeCorrect, CountedStep, PTL DEF Spec

\* At every moment there is at most one clone worker per preparation, the capacity of the
\* server and of every repository counts exactly the workers, and the caps are kept,
\* however cancels, retries, sweeps and restarts interleave with the workers.
THEOREM WorkersAreCountedHolds == Spec => []WorkersAreCounted
<1>1. Counted => WorkersAreCounted
  BY DEF Counted
<1> QED  BY <1>1, CountedHolds, PTL

-----------------------------------------------------------------------------
(* Evidence is of the current generation.                                   *)

\* The events that are queued or about to be sent.
Sent(q) == {q[k] : k \in DOMAIN q}
Evidence == Sent(events) \cup UNION {w.out : w \in workers}

\* The event would advance the preparation.
Advances(e) ==
    \/ e.kind = "clone_ready" /\ prep[e.prep].stage = "clone-in-progress"
    \/ e.kind = "commit_available" /\ prep[e.prep].stage = "clone-ready"

\* The inductive invariant: no event is ahead of its preparation, one with the current
\* revision that would advance it is of its generation, and so is the worker of a clone
\* in progress; a process that has ended left nothing behind.
Current ==
    /\ \A e \in Evidence : /\ e.rev <= prep[e.prep].rev
                           /\ e.rev = prep[e.prep].rev /\ Advances(e) => e.gen = prep[e.prep].gen
    /\ \A w \in workers : prep[w.prep].stage = "clone-in-progress" => w.rec.gen = prep[w.prep].gen
    /\ ~up => prep = [p \in Prep |-> Absent] /\ events = <<>> /\ workers = {}

\* Everything queued or about to be sent is an event.
LEMMA EvidenceType ==
    ASSUME TypeOK
    PROVE  /\ \A e \in Evidence : e \in Event /\ e.prep \in Prep /\ e.rev \in Nat
           /\ \A w \in workers : w.prep \in Prep /\ w.rec \in Record
           /\ \A p \in Prep : prep[p] \in Record /\ prep[p].rev \in Nat
<1>1. \A k \in DOMAIN events : events[k] \in Event
  BY SMTT(30) DEF TypeOK
<1>2. \A w \in workers : w.out \subseteq Event /\ w.prep \in Prep /\ w.rec \in Record
  BY DEF TypeOK, Worker
<1>3. \A e \in Evidence : e \in Event
  BY <1>1, <1>2 DEF Evidence, Sent
<1>4. \A p \in Prep : prep[p] \in Record /\ prep[p].rev \in Nat
  BY DEF TypeOK, Record
<1> QED  BY <1>2, <1>3, <1>4 DEF Event

\* A step that raises the revision of one preparation outdates the events it had.
LEMMA Raise ==
    ASSUME TypeOK, TypeOK', Current, up', NEW p \in Prep, NEW r \in Record,
           prep' = [prep EXCEPT ![p] = r], r.rev > prep[p].rev,
           \A e \in Evidence' : e \in Evidence \/ (e.prep = p /\ e.rev <= r.rev /\ e.gen = r.gen),
           \A w \in workers' : \/ w.prep = p /\ w.rec.gen = r.gen
                               \/ \E v \in workers : v.prep = w.prep /\ v.rec = w.rec,
           r.stage = "clone-in-progress" => \A w \in workers' : w.prep = p => w.rec.gen = r.gen
    PROVE  Current'
<1>0. prep \in [Prep -> Record]
  BY Zenon DEF TypeOK
<1>1. prep'[p] = r /\ \A q \in Prep \ {p} : prep'[q] = prep[q]
  BY <1>0
<1>2. r.rev \in Nat /\ prep[p].rev \in Nat
  BY EvidenceType DEF Record
<1>3. ASSUME NEW e \in Evidence'
      PROVE  /\ e.rev <= prep'[e.prep].rev
             /\ e.rev = prep'[e.prep].rev /\ Advances(e)' => e.gen = prep'[e.prep].gen
  <2>1. CASE e.prep = p /\ e.rev <= r.rev /\ e.gen = r.gen
    BY <1>1, <2>1
  <2>2. CASE e \in Evidence
    <3>1. e.prep \in Prep /\ e.rev \in Nat
      BY <2>2, EvidenceType
    <3>2. e.rev <= prep[e.prep].rev
      BY <2>2 DEF Current
    <3>3. CASE e.prep = p
      <4>1. e.rev < r.rev
        BY <1>2, <3>1, <3>2, <3>3, SMTT(30)
      <4> QED  BY <1>1, <1>2, <3>1, <3>3, <4>1, SMTT(30)
    <3>4. CASE e.prep # p
      <4>1. prep'[e.prep] = prep[e.prep]
        BY <1>1, <3>1, <3>4
      <4>2. Advances(e)' <=> Advances(e)
        BY <4>1 DEF Advances
      <4> QED  BY <2>2, <3>2, <4>1, <4>2, Zenon DEF Current
    <3> QED  BY <3>3, <3>4
  <2> QED  BY <1>3, <2>1, <2>2
<1>4. ASSUME NEW w \in workers', prep'[w.prep].stage = "clone-in-progress"
      PROVE  w.rec.gen = prep'[w.prep].gen
  <2>1. CASE w.prep = p
    BY <1>1, <1>4, <2>1
  <2>2. CASE w.prep # p
    <3>1. PICK v \in workers : v.prep = w.prep /\ v.rec = w.rec
      BY <2>2
    <3>2. prep'[w.prep] = prep[v.prep]
      BY <1>1, <2>2, <3>1, EvidenceType
    <3> QED  BY <1>4, <3>1, <3>2 DEF Current
  <2> QED  BY <2>1, <2>2
<1> QED  BY <1>3, <1>4 DEF Current

\* A step that leaves the preparations alone may add evidence of the current generation.
LEMMA Keep ==
    ASSUME Current, up', UNCHANGED prep,
           \A e \in Evidence' : \/ e \in Evidence
                                \/ /\ e.rev <= prep[e.prep].rev
                                   /\ Advances(e) => e.gen = prep[e.prep].gen,
           \A w \in workers' : \E v \in workers : v.prep = w.prep /\ v.rec = w.rec
    PROVE  Current'
<1>1. ASSUME NEW e \in Evidence'
      PROVE  /\ e.rev <= prep'[e.prep].rev
             /\ e.rev = prep'[e.prep].rev /\ Advances(e)' => e.gen = prep'[e.prep].gen
  <2>1. Advances(e)' <=> Advances(e)
    BY DEF Advances
  <2>2. CASE e \in Evidence
    BY <2>1, <2>2 DEF Current
  <2>3. CASE e.rev <= prep[e.prep].rev /\ (Advances(e) => e.gen = prep[e.prep].gen)
    BY <2>1, <2>3
  <2> QED  BY <1>1, <2>2, <2>3
<1>2. ASSUME NEW w \in workers', prep'[w.prep].stage = "clone-in-progress"
      PROVE  w.rec.gen = prep'[w.prep].gen
  <2>1. PICK v \in workers : v.prep = w.prep /\ v.rec = w.rec
    OBVIOUS
  <2> QED  BY <1>2, <2>1 DEF Current
<1> QED  BY <1>1, <1>2 DEF Current

\* What the channel holds after a send and after a receive.
LEMMA SentFacts ==
    ASSUME TypeOK
    PROVE  /\ \A q \in Seq(Event), e \in Event : Enqueue(q, e) => Sent(events') \subseteq Sent(q) \cup {e}
           /\ events # <<>> => Sent(Tail(events)) \subseteq Sent(events) /\ Head(events) \in Sent(events)
<1>1. ASSUME NEW q \in Seq(Event), NEW e \in Event, Enqueue(q, e)
      PROVE  Sent(events') \subseteq Sent(q) \cup {e}
  <2>1. \A k \in DOMAIN Append(q, e) : Append(q, e)[k] = e \/ (k \in DOMAIN q /\ Append(q, e)[k] = q[k])
    OBVIOUS
  <2> QED  BY <1>1, <2>1 DEF Enqueue, Sent
<1>2. ASSUME events # <<>>
      PROVE  Sent(Tail(events)) \subseteq Sent(events) /\ Head(events) \in Sent(events)
  <2>1. events \in Seq(Event)
    BY DEF TypeOK
  <2>2. \A k \in DOMAIN Tail(events) : k + 1 \in DOMAIN events /\ Tail(events)[k] = events[k + 1]
    BY <1>2, <2>1
  <2>3. 1 \in DOMAIN events /\ Head(events) = events[1]
    BY <1>2, <2>1
  <2> QED  BY <2>2, <2>3, SMTT(30) DEF Sent
<1> QED  BY <1>1, <1>2

\* A stopped worker has the record and the event it had.
LEMMA StoppedSame ==
    ASSUME TypeOK, NEW p, NEW gen, workers' = stopped(p, gen)
    PROVE  \A w \in workers' : \E v \in workers : v.prep = w.prep /\ v.rec = w.rec /\ v.out = w.out
<1>1. \A v \in workers : LET x == [v EXCEPT !.live = FALSE]
                         IN  x.prep = v.prep /\ x.rec = v.rec /\ x.out = v.out
  BY DEF TypeOK, Worker
<1> QED  BY <1>1, Zenon DEF stopped

\* Evidence comes from the channel and from the workers.
LEMMA EvidenceFrom ==
    ASSUME NEW X, Sent(events') \subseteq Sent(events) \cup X,
           \A w \in workers' : w.out \subseteq X \/ \E v \in workers : w.out \subseteq v.out \cup X
    PROVE  Evidence' \subseteq Evidence \cup X
<1> SUFFICES ASSUME NEW e \in Evidence' PROVE e \in Evidence \cup X
  OBVIOUS
<1>1. CASE e \in Sent(events')
  BY <1>1 DEF Evidence
<1>2. CASE \E w \in workers' : e \in w.out
  BY <1>2, SMTT(30) DEF Evidence
<1> QED  BY <1>1, <1>2 DEF Evidence, Sent

\* A refusal answers with the revision and the generation it was made for.
LEMMA RefuseCurrent ==
    ASSUME TypeOK, TypeOK', Current, up', NEW p \in Prep, NEW r \in Record,
           r.rev > prep[p].rev, r.stage = "confirmed", prep' = [prep EXCEPT ![p] = r],
           workers' = workers, Enqueue(events, event("failed", p, r))
    PROVE  Current'
<1> DEFINE e == event("failed", p, r)
<1>1. r.rev \in Nat
  BY DEF Record
<1>2. e \in Event /\ e.prep = p /\ e.rev = r.rev /\ e.gen = r.gen
  BY EventType, Zenon DEF event, Kinds
<1>3. Enqueue(events, e)
  OBVIOUS
<1> HIDE DEF e
<1>4. Sent(events') \subseteq Sent(events) \cup {e}
  BY <1>2, <1>3, SentFacts, Zenon DEF TypeOK
<1>5. Evidence' \subseteq Evidence \cup {e}
  BY <1>4, EvidenceFrom, Zenon
<1>6. \A x \in Evidence' : x \in Evidence \/ (x.prep = p /\ x.rev <= r.rev /\ x.gen = r.gen)
  BY <1>1, <1>2, <1>5
<1>7. \A w \in workers' : \E v \in workers : v.prep = w.prep /\ v.rec = w.rec
  OBVIOUS
<1>8. r.stage # "clone-in-progress"
  OBVIOUS
<1> QED  BY <1>6, <1>7, <1>8, Raise, Zenon

\* A clone is started only when no worker of an earlier generation is left.
LEMMA StartCurrent ==
    ASSUME TypeOK, TypeOK', Counted, Current, up', NEW p \in Prep, NEW r \in Record,
           r.rev > prep[p].rev, r.stage = "confirmed", startPreparationClone(p, r)
    PROVE  Current'
<1>0. r.rev \in Nat /\ r.gen \in Nat /\ prep[p].rev \in Nat
  BY EvidenceType DEF Record
<1>1. CASE AdmitClone(p) = ""
  <2> DEFINE s == cloneStarted(r)
             w == [prep |-> p, rec |-> s, pos |-> "clone", live |-> TRUE, out |-> {}]
  <2>1. /\ prep' = [prep EXCEPT ![p] = s] /\ workers' = workers \cup {w} /\ events' = events
    BY <1>1, Zenon DEF startPreparationClone, queue
  <2>2. w.prep = p /\ w.rec.gen = r.gen /\ w.out = {} /\ s.gen = r.gen /\ s.rev = r.rev + 1
    BY Zenon DEF cloneStarted
  <2>3. s \in Record
    BY StartedType
  <2> HIDE DEF s, w
  <2>3a. s.rev > prep[p].rev
    BY <1>0, <2>2, SMTT(30)
  <2>4. \A v \in workers : v.prep # p
    BY <1>1, Admitted, Zenon DEF Counted, WorkersAreCounted
  <2>5. Evidence' \subseteq Evidence
    <3>1. \A x \in workers' : x \in workers \/ x.out = {}
      BY <2>1, <2>2, Zenon
    <3>2. UNION {x.out : x \in workers'} \subseteq UNION {x.out : x \in workers}
      BY <3>1, ZenonT(30)
    <3>3. Sent(events') = Sent(events)
      BY <2>1
    <3> QED  BY <3>2, <3>3, ZenonT(30) DEF Evidence
  <2> QED  BY <2>1, <2>2, <2>3, <2>3a, <2>4, <2>5, Raise, ZenonT(30)
<1>2. CASE AdmitClone(p) = "queue"
  <2>1. prep' = [prep EXCEPT ![p] = r] /\ workers' = workers /\ events' = events
    BY <1>2 DEF startPreparationClone, queue
  <2>2. Evidence' = Evidence
    BY <2>1 DEF Evidence
  <2> QED  BY <2>1, <2>2, Raise, Zenon
<1>3. CASE AdmitClone(p) = "refuse"
  <2>1. prep' = [prep EXCEPT ![p] = r] /\ workers' = workers /\ Enqueue(events, event("failed", p, r))
    BY <1>3 DEF startPreparationClone, control
  <2> QED  BY <2>1, RefuseCurrent, Zenon
<1> QED  BY <1>1, <1>2, <1>3, Zenon DEF startPreparationClone

\* A launch answers with the revision and the generation it was made for.
LEMMA LaunchCurrent ==
    ASSUME TypeOK, TypeOK', Current, up', NEW p \in Prep, NEW r \in Record,
           r.rev > prep[p].rev, r.stage = "clone-ready", prep' = [prep EXCEPT ![p] = r],
           NEW q \in Seq(Event), Sent(q) \subseteq Sent(events), launchPreparationSession(p, r, q)
    PROVE  Current'
<1>0. r.rev \in Nat
  BY DEF Record
<1>1. PICK k \in {"failed", "commit_available"} : Enqueue(q, event(k, p, r))
  BY DEF launchPreparationSession, failPendingLaunch
<1> DEFINE e == event(k, p, r)
<1>2. e \in Event /\ e.prep = p /\ e.rev = r.rev /\ e.gen = r.gen
  BY EventType, Zenon DEF event, Kinds
<1>3. Enqueue(q, e)
  BY <1>1
<1> HIDE DEF e
<1>4. Sent(events') \subseteq Sent(events) \cup {e}
  BY <1>2, <1>3, SentFacts
<1>5. workers' = workers \/ workers' = stopped(p, owner[p])
  BY DEF launchPreparationSession, failPendingLaunch
<1>6. \A w \in workers' : \E v \in workers : v.prep = w.prep /\ v.rec = w.rec /\ v.out = w.out
  BY <1>5, StoppedSame
<1>7. Evidence' \subseteq Evidence \cup {e}
  BY <1>4, <1>6, EvidenceFrom, Zenon
<1>8. \A x \in Evidence' : x \in Evidence \/ (x.prep = p /\ x.rev <= r.rev /\ x.gen = r.gen)
  BY <1>0, <1>2, <1>7
<1>9. \A w \in workers' : \/ w.prep = p /\ w.rec.gen = r.gen
                          \/ \E v \in workers : v.prep = w.prep /\ v.rec = w.rec
  BY <1>6
<1>10. r.stage = "clone-in-progress" => \A w \in workers' : w.prep = p => w.rec.gen = r.gen
  OBVIOUS
<1> QED  BY <1>8, <1>9, <1>10, Raise, ZenonT(60)

\* A reducer that only moves a preparation on outdates the events it had.
LEMMA AdvanceCurrent ==
    ASSUME TypeOK, TypeOK', Current, up', NEW p \in Prep, NEW s \in Stage \ {"clone-in-progress"},
           NEW o \in Origins, prep' = [prep EXCEPT ![p] = advance(p, s, o)],
           Sent(events') \subseteq Sent(events),
           workers' = workers \/ \E g : workers' = stopped(p, g)
    PROVE  Current'
<1> DEFINE r == advance(p, s, o)
<1>1. r \in Record /\ r.rev > prep[p].rev /\ r.stage # "clone-in-progress"
  BY AdvanceType, EvidenceType DEF advance
<1> HIDE DEF r
<1>2. \A w \in workers' : \E v \in workers : v.prep = w.prep /\ v.rec = w.rec /\ v.out = w.out
  BY StoppedSame
<1>3. Evidence' \subseteq Evidence \cup {}
  BY <1>2, EvidenceFrom
<1>4. prep' = [prep EXCEPT ![p] = r]
  BY DEF r
<1>5. \A w \in workers' : \E v \in workers : v.prep = w.prep /\ v.rec = w.rec
  BY <1>2
<1>6. \A x \in Evidence' : x \in Evidence
  BY <1>3
<1> QED  BY <1>1, <1>4, <1>5, <1>6, Raise, Zenon

\* A worker's report carries the generation of the clone in progress.
LEMMA RunCloneCurrent ==
    ASSUME TypeOK, Counted, Current, NEW w \in workers, runClone(w)
    PROVE  Current'
<1>0. up' /\ UNCHANGED prep
  BY DEF runClone, runCloneClones, runClonePublishes, runCloneSaves, runCloneSends, finishWorker,
         memory, up
<1>1. w.prep \in Prep /\ prep[w.prep].rev \in Nat
  BY EvidenceType
<1>2. ASSUME NEW pos, NEW out, becomes(w, pos, out)
      PROVE  /\ \A x \in workers' : \E v \in workers : v.prep = x.prep /\ v.rec = x.rec
             /\ \A x \in workers' : x.out \subseteq out \/ \E v \in workers : x.out \subseteq v.out
  BY <1>2 DEF becomes
<1>3. ASSUME NEW k \in {"clone_ready", "failed", "quarantined"}, report(w, k), UNCHANGED queue
      PROVE  Current'
  <2> DEFINE e == [kind |-> k, prep |-> w.prep, rev |-> prep[w.prep].rev, gen |-> w.rec.gen]
  <2>1. becomes(w, "send", {e})
    BY <1>3, Zenon DEF report
  <2>2. e.rev <= prep[e.prep].rev /\ (Advances(e) => e.gen = prep[e.prep].gen)
    <3>1. e.rev = prep[e.prep].rev /\ e.rev \in Nat /\ e.prep = w.prep /\ e.gen = w.rec.gen
      BY <1>1, Zenon
    <3>2. e.kind # "commit_available"
      OBVIOUS
    <3> HIDE DEF e
    <3>3. Advances(e) => e.gen = prep[e.prep].gen
      BY <3>1, <3>2, Zenon DEF Advances, Current
    <3> QED  BY <3>1, <3>3
  <2> HIDE DEF e
  <2>3. events' = events
    BY <1>3 DEF queue
  <2>4. Evidence' \subseteq Evidence \cup {e}
    BY <1>2, <2>1, <2>3, EvidenceFrom, Zenon
  <2> QED  BY <1>0, <1>2, <2>1, <2>2, <2>4, Keep, Zenon
<1>4. ASSUME NEW pos, becomes(w, pos, {}), UNCHANGED queue PROVE Current'
  <2>1. events' = events
    BY <1>4 DEF queue
  <2>2. \A x \in workers' : x \in workers \/ x.out = {}
    BY <1>4 DEF becomes
  <2>3. Evidence' \subseteq Evidence
    BY <2>1, <2>2, SMTT(30) DEF Evidence
  <2> QED  BY <1>0, <1>2, <1>4, <2>3, Keep, Zenon
<1>5. CASE runCloneClones(w)
  BY <1>3, <1>4, <1>5 DEF runCloneClones
<1>6. CASE runClonePublishes(w)
  BY <1>3, <1>4, <1>6 DEF runClonePublishes, finalConflict
<1>7. CASE runCloneSaves(w)
  BY <1>3, <1>7 DEF runCloneSaves
<1>8. CASE runCloneSends(w)
  <2>1. PICK e \in w.out : Enqueue(events, e)
    BY <1>8 DEF runCloneSends
  <2>2. becomes(w, "finish", {})
    BY <1>8 DEF runCloneSends
  <2>3. e \in Evidence /\ e \in Event
    BY <2>1, EvidenceType DEF Evidence
  <2>4. Sent(events') \subseteq Sent(events) \cup {e}
    BY <2>1, <2>3, SentFacts, Zenon DEF TypeOK
  <2>5. Evidence' \subseteq Evidence \cup {e}
    <3>1. \A x \in workers' : x \in workers \/ x.out = {}
      BY <2>2 DEF becomes
    <3>2. \A x \in workers' : x.out \subseteq {e} \/ \E v \in workers : x.out \subseteq v.out \cup {e}
      BY <3>1, Zenon
    <3> QED  BY <2>4, <3>2, EvidenceFrom, Zenon
  <2> QED  BY <1>0, <1>2, <2>2, <2>3, <2>5, Keep
<1>9. CASE finishWorker(w)
  <2>1. workers' \subseteq workers /\ events' = events
    BY <1>9 DEF finishWorker, queue
  <2>2. Evidence' \subseteq Evidence
    BY <2>1 DEF Evidence
  <2> QED  BY <1>0, <2>1, <2>2, Keep
<1> QED  BY <1>5, <1>6, <1>7, <1>8, <1>9 DEF runClone

\* Nothing is sent in an empty queue.
LEMMA NothingSent == Sent(<<>>) = {}
<1>1. DOMAIN <<>> = {}
  OBVIOUS
<1> QED  BY <1>1, Zenon DEF Sent

\* Every step keeps the evidence current.
LEMMA CurrentStep == TypeOK /\ TypeOK' /\ Counted /\ Current /\ [Next]_vars => Current'
<1> SUFFICES ASSUME TypeOK, TypeOK', Counted, Current, [Next]_vars PROVE Current'
  OBVIOUS
<1>0. ASSUME up', UNCHANGED prep, UNCHANGED workers, Sent(events') \subseteq Sent(events) PROVE Current'
  <2>1. Evidence' \subseteq Evidence
    BY <1>0 DEF Evidence
  <2> QED  BY <1>0, <2>1, Keep
<1>1. ASSUME NEW p \in Prep, reduceRepositoryCreate(p) PROVE Current'
  <2> DEFINE r == [stage |-> "confirmed", rev |-> 1, gen |-> 1, origin |-> "none"]
  <2>1. r \in Record /\ r.rev > prep[p].rev /\ r.stage = "confirmed"
    BY <1>1 DEF reduceRepositoryCreate, Absent, Record, Stage
  <2>2. startPreparationClone(p, r) /\ up'
    BY <1>1 DEF reduceRepositoryCreate, up
  <2> HIDE DEF r
  <2> QED  BY <2>1, <2>2, StartCurrent
<1>2. ASSUME NEW p \in Prep, reduceRepositoryCancelled(p) PROVE Current'
  <2>1. originOf(prep[p].stage) \in Origins /\ "cancelled" \in Stage \ {"clone-in-progress"}
    BY OriginType DEF Stage
  <2> QED  BY <1>2, <2>1, AdvanceCurrent, Zenon DEF reduceRepositoryCancelled, command, queue, up
<1>3. ASSUME NEW p \in Prep, reduceRepositoryAbandon(p) PROVE Current'
  <2>1. prep[p].origin \in Origins /\ "abandoned" \in Stage \ {"clone-in-progress"}
    BY EvidenceType DEF Record, Origins, Stage
  <2> QED  BY <1>3, <2>1, AdvanceCurrent, Zenon DEF reduceRepositoryAbandon, command, queue, up
<1>4. ASSUME NEW p \in Prep, reduceRepositoryRetry(p) PROVE Current'
  <2> DEFINE r == [stage |-> IF prep[p].origin = "launch" THEN "clone-ready" ELSE "confirmed",
                   rev |-> prep[p].rev + 1, gen |-> prep[p].gen + 1, origin |-> "none"]
  <2>1. r \in Record /\ r.rev > prep[p].rev
    BY EvidenceType, SMTT(30) DEF Record, Stage
  <2>2. up'
    BY <1>4, Zenon DEF reduceRepositoryRetry, command, up
  <2>3. CASE prep[p].origin = "launch"
    <3>1. r.stage = "clone-ready" /\ prep' = [prep EXCEPT ![p] = r] /\ launchPreparationSession(p, r, events)
      BY <1>4, <2>3 DEF reduceRepositoryRetry
    <3>2. events \in Seq(Event)
      BY DEF TypeOK
    <3> HIDE DEF r
    <3> QED  BY <2>1, <2>2, <3>1, <3>2, LaunchCurrent, Zenon
  <2>4. CASE prep[p].origin # "launch"
    <3>1. r.stage = "confirmed" /\ startPreparationClone(p, r)
      BY <1>4, <2>4 DEF reduceRepositoryRetry
    <3> HIDE DEF r
    <3> QED  BY <2>1, <2>2, <3>1, StartCurrent
  <2> QED  BY <2>3, <2>4
<1>5. CASE reduceRepository
  <2> DEFINE e == Head(events)
             p == e.prep
  <2>1. e \in Sent(events) /\ Sent(Tail(events)) \subseteq Sent(events) /\ Tail(events) \in Seq(Event)
    BY <1>5, SentFacts, TailTypes DEF reduceRepository
  <2>2. p \in Prep /\ up'
    BY <1>5, <2>1, EvidenceType DEF Evidence, reduceRepository, up
  <2>3. CASE reduceRepositoryCloneReady(e)
    <3> DEFINE r == advance(p, "clone-ready", "none")
    <3>0. "none" \in Origins /\ "clone-ready" \in Stage
      BY DEF Origins, Stage
    <3>1. r \in Record /\ r.rev > prep[p].rev /\ r.stage = "clone-ready"
      <4> HIDE DEF p
      <4>1. r \in Record
        BY <2>2, <3>0, AdvanceType
      <4> QED  BY <2>2, <4>1, EvidenceType DEF advance
    <3>2. prep' = [prep EXCEPT ![p] = r] /\ launchPreparationSession(p, r, Tail(events))
      BY <2>3 DEF reduceRepositoryCloneReady
    <3> HIDE DEF r, p, e
    <3> QED  BY <2>1, <2>2, <3>1, <3>2, LaunchCurrent, Zenon
  <2>4. ASSUME NEW s \in Stage \ {"clone-in-progress"}, NEW o \in Origins,
               prep' = [prep EXCEPT ![p] = advance(p, s, o)], events' = Tail(events), UNCHANGED workers
        PROVE  Current'
    <3> HIDE DEF p, e
    <3> QED  BY <2>1, <2>2, <2>4, AdvanceCurrent, Zenon
  <2>5. CASE reduceRepositoryFailed(e)
    <3>1. originOf(prep[p].stage) \in Origins /\ "failed" \in Stage \ {"clone-in-progress"}
      BY OriginType DEF Stage
    <3> QED  BY <2>4, <2>5, <3>1, Zenon DEF reduceRepositoryFailed, control
  <2>6. CASE reduceRepositoryQuarantined(e)
    <3>1. "none" \in Origins /\ "internal_corruption" \in Stage \ {"clone-in-progress"}
      BY DEF Stage, Origins
    <3> QED  BY <2>4, <2>6, <3>1, Zenon DEF reduceRepositoryQuarantined, control
  <2>7. CASE reduceRepositoryCommitAvailable(e)
    <3>1. "none" \in Origins /\ "available" \in Stage \ {"clone-in-progress"}
      BY DEF Stage, Origins
    <3> QED  BY <2>4, <2>7, <3>1, Zenon DEF reduceRepositoryCommitAvailable, control
  <2>8. CASE events' = Tail(events) /\ UNCHANGED <<memory, control>>
    BY <1>0, <2>1, <2>2, <2>8 DEF memory, control
  <2> QED  BY <1>5, <2>3, <2>5, <2>6, <2>7, <2>8 DEF reduceRepository
<1>6. ASSUME NEW w \in workers, runClone(w) PROVE Current'
  BY <1>6, RunCloneCurrent
<1>7. CASE Crash \/ reduceQuiescing
  <2>1. /\ prep' = [p \in Prep |-> Absent] /\ events' = <<>> /\ workers' = {}
    BY <1>7 DEF Crash, reduceQuiescing, processEnds
  <2>2. Evidence' = {}
    BY <2>1, NothingSent DEF Evidence
  <2> QED  BY <2>1, <2>2 DEF Current
<1>8. CASE ReconcileRepositoryPreparations
  <2>1. events' = <<>> /\ workers' = {} /\ up'
    BY <1>8 DEF ReconcileRepositoryPreparations, Current, up, queue, control
  <2>2. Evidence' = {}
    BY <2>1, NothingSent DEF Evidence
  <2> QED  BY <2>1, <2>2 DEF Current
<1>9. ASSUME NEW p \in Prep, SweepNeverAvailableOrphans(p) PROVE Current'
  BY <1>0, <1>9 DEF SweepNeverAvailableOrphans, memory, queue, control, up
<1>10. CASE reduceShutdown \/ reduceShutdownSaveFailed
  BY <1>0, <1>10 DEF reduceShutdown, reduceShutdownSaveFailed, memory, queue, control, up
<1>11. CASE UNCHANGED vars
  <2>1. UNCHANGED <<phase, prep, events, workers>>
    BY <1>11, Zenon DEF vars
  <2>2. CASE up'
    BY <1>0, <2>1, <2>2
  <2>3. CASE ~up'
    <3>1. /\ prep' = [p \in Prep |-> Absent] /\ events' = <<>> /\ workers' = {}
      BY <2>1, <2>3 DEF Current, up
    <3>2. Evidence' = {}
      BY <3>1, NothingSent DEF Evidence
    <3> QED  BY <3>1, <3>2 DEF Current
  <2> QED  BY <2>2, <2>3
<1> QED  BY <1>1, <1>2, <1>3, <1>4, <1>5, <1>6, <1>7, <1>8, <1>9, <1>10, <1>11 DEF Next

\* The inductive invariant holds always.
LEMMA CurrentHolds == Spec => []Current
<1>1. Init => Current
  <2> SUFFICES ASSUME Init PROVE Current
    OBVIOUS
  <2>1. events = <<>> /\ workers = {} /\ up
    BY DEF Init, up
  <2>2. Evidence = {}
    BY <2>1, NothingSent DEF Evidence
  <2> QED  BY <2>1, <2>2 DEF Current
<1> QED  BY <1>1, TypeCorrect, CountedHolds, CurrentStep, PTL DEF Spec

\* The transitions that rest on the work of a goroutine or of a launch.
Proceeds(p) ==
    \/ prep[p].stage = "clone-in-progress" /\ prep'[p].stage = "clone-ready"
    \/ prep[p].stage = "clone-ready" /\ prep'[p].stage = "available"

\* A preparation proceeds only by an event at the head of the channel that advances it.
LEMMA EvidenceStep ==
    ASSUME TypeOK, Current, [Next]_vars, NEW p \in Prep, Proceeds(p)
    PROVE  Head(events).gen = prep[p].gen
<1>0. ASSUME NEW q \in Prep, NEW r, prep' = [prep EXCEPT ![q] = r]
      PROVE  q = p /\ r.stage = prep'[p].stage
  BY <1>0 DEF TypeOK, Proceeds
<1>1. ~UNCHANGED prep
  BY Zenon DEF Proceeds
<1>2. ASSUME NEW q \in Prep, NEW r, r.stage = "confirmed", startPreparationClone(q, r) PROVE FALSE
  <2>1. cloneStarted(r).stage = "clone-in-progress"
    BY DEF cloneStarted
  <2>2. prep' = [prep EXCEPT ![q] = r] \/ prep' = [prep EXCEPT ![q] = cloneStarted(r)]
    BY <1>2, Zenon DEF startPreparationClone
  <2>3. prep'[p].stage \in {"confirmed", "clone-in-progress"}
    BY <1>0, <1>2, <2>1, <2>2
  <2> QED  BY <2>3 DEF Proceeds
<1>3. ASSUME NEW q \in Prep, reduceRepositoryCreate(q) PROVE FALSE
  <2> DEFINE r == [stage |-> "confirmed", rev |-> 1, gen |-> 1, origin |-> "none"]
  <2>1. r.stage = "confirmed" /\ startPreparationClone(q, r)
    BY <1>3 DEF reduceRepositoryCreate
  <2> HIDE DEF r
  <2> QED  BY <1>2, <2>1
<1>4. ASSUME NEW q \in Prep, NEW s, NEW o, prep' = [prep EXCEPT ![q] = advance(q, s, o)]
      PROVE  q = p /\ prep'[p].stage = s
  <2>1. advance(q, s, o).stage = s
    BY DEF advance
  <2> QED  BY <1>0, <1>4, <2>1, Zenon
<1>5. ASSUME NEW q \in Prep, reduceRepositoryCancelled(q) \/ reduceRepositoryAbandon(q) PROVE FALSE
  <2>1. prep'[p].stage \in {"cancelled", "abandoned"}
    BY <1>4, <1>5 DEF reduceRepositoryCancelled, reduceRepositoryAbandon
  <2> QED  BY <2>1 DEF Proceeds
<1>6. ASSUME NEW q \in Prep, reduceRepositoryRetry(q) PROVE FALSE
  <2>1. prep[q].stage \in {"failed", "cancelled", "interrupted"}
    BY <1>6 DEF reduceRepositoryRetry
  <2>2. \E r : prep' = [prep EXCEPT ![q] = r]
    BY <1>6, Zenon DEF reduceRepositoryRetry, startPreparationClone
  <2>3. q = p
    BY <1>0, <2>2, Zenon
  <2> QED  BY <2>1, <2>3 DEF Proceeds
<1>7. CASE reduceRepository
  <2> DEFINE e == Head(events)
  <2>1. e \in Evidence /\ e.prep \in Prep
    BY <1>7, SentFacts, EvidenceType DEF reduceRepository, Evidence
  <2>2. ~(UNCHANGED memory)
    BY <1>1 DEF memory
  <2>3. loadPrepFenced(e)
    BY <1>7, <2>2 DEF reduceRepository
  <2>4. CASE reduceRepositoryFailed(e) \/ reduceRepositoryQuarantined(e)
    <3>1. prep'[p].stage \in {"failed", "internal_corruption"}
      BY <1>4, <2>1, <2>4, Zenon DEF reduceRepositoryFailed, reduceRepositoryQuarantined
    <3> QED  BY <3>1 DEF Proceeds
  <2>5. CASE reduceRepositoryCloneReady(e) \/ reduceRepositoryCommitAvailable(e)
    <3>0. \E s : prep' = [prep EXCEPT ![e.prep] = advance(e.prep, s, "none")]
      BY <2>5, Zenon DEF reduceRepositoryCloneReady, reduceRepositoryCommitAvailable
    <3>1. e.prep = p
      BY <1>4, <2>1, <3>0, Zenon
    <3>2. Advances(e)
      BY <2>5, Zenon DEF reduceRepositoryCloneReady, reduceRepositoryCommitAvailable, Advances
    <3>3. e.rev = prep[e.prep].rev
      BY <2>3 DEF loadPrepFenced
    <3> HIDE DEF e
    <3>4. e.gen = prep[p].gen
      BY <2>1, <3>1, <3>2, <3>3 DEF Current
    <3> QED  BY <3>4 DEF e
  <2> QED  BY <1>7, <2>2, <2>4, <2>5 DEF reduceRepository
<1>8. ASSUME NEW w \in workers, runClone(w) PROVE FALSE
  BY <1>1, <1>8, Zenon DEF runClone, runCloneClones, runClonePublishes, runCloneSaves, runCloneSends,
                    finishWorker, memory
<1>9. CASE Crash \/ reduceQuiescing
  <2>1. prep' = [q \in Prep |-> Absent]
    BY <1>9 DEF Crash, reduceQuiescing, processEnds
  <2> QED  BY <2>1, Zenon DEF Proceeds, Absent
<1>10. CASE ReconcileRepositoryPreparations
  <2>1. prep = [q \in Prep |-> Absent]
    BY <1>10, Zenon DEF ReconcileRepositoryPreparations, Current, up
  <2> QED  BY <2>1 DEF Proceeds, Absent
<1>11. CASE (\E q \in Prep : SweepNeverAvailableOrphans(q)) \/ reduceShutdown \/ reduceShutdownSaveFailed
  BY <1>1, <1>11, Zenon DEF SweepNeverAvailableOrphans, reduceShutdown, reduceShutdownSaveFailed, memory
<1>12. CASE UNCHANGED vars
  BY <1>1, <1>12 DEF vars
<1> QED  BY <1>3, <1>5, <1>6, <1>7, <1>8, <1>9, <1>10, <1>11, <1>12, Zenon DEF Next

\* A clone or a launch counts only for the generation of the preparation that produced
\* it: no late event of a cancelled or retried generation advances a later one, whatever
\* the channel drops or delays and however often the process restarts.
THEOREM EvidenceIsCurrentHolds == Spec => EvidenceIsCurrent
<1>1. TypeOK /\ Current /\ [Next]_vars => [\A p \in Prep : Proceeds(p) => Head(events).gen = prep[p].gen]_vars
  BY EvidenceStep
<1>2. TypeOK /\ Current /\ [Next]_vars =>
        [\A p \in Prep :
            \/ prep[p].stage = "clone-in-progress" /\ prep'[p].stage = "clone-ready"
            \/ prep[p].stage = "clone-ready" /\ prep'[p].stage = "available"
            => Head(events).gen = prep[p].gen]_vars
  BY <1>1 DEF Proceeds
<1> QED  BY <1>2, TypeCorrect, CurrentHolds, PTL DEF Spec, EvidenceIsCurrent

-----------------------------------------------------------------------------
(* An accepted clone is the preparation's own.                              *)

\* If the clone is in progress, the directory holds what this clone has published.
Own(p) ==
    prep[p].stage = "clone-in-progress" => final[p] = {[gen |-> prep[p].gen, rev |-> prep[p].rev]}

\* The inductive invariant: the worker of a clone in progress was started with the record
\* of the preparation, and a worker that has published, and an event that reports a
\* published clone with the current revision, has its own directory behind it.  A worker
\* reports about its own preparation.
OwnInv ==
    /\ \A w \in workers : /\ prep[w.prep].stage = "clone-in-progress" => w.rec.rev = prep[w.prep].rev
                          /\ w.pos = "save" => Own(w.prep)
                          /\ \A e \in w.out : e.prep = w.prep
    /\ \A e \in Evidence : e.kind = "clone_ready" /\ e.rev = prep[e.prep].rev => Own(e.prep)

\* Where nothing is queued or at work, nothing can be wrong.
LEMMA EmptyOwn == events = <<>> /\ workers = {} => OwnInv
<1> SUFFICES ASSUME events = <<>>, workers = {} PROVE OwnInv
  OBVIOUS
<1>1. Evidence = {}
  BY NothingSent DEF Evidence
<1> QED  BY <1>1, Zenon DEF OwnInv

\* The workers differ at most in whether they are live.
Same(v, w) == v.prep = w.prep /\ v.rec = w.rec /\ v.pos = w.pos /\ v.out = w.out

\* A stopped worker is where it was.
LEMMA StoppedPos ==
    ASSUME TypeOK, NEW p, NEW gen, workers' = stopped(p, gen)
    PROVE  \A w \in workers' : \E v \in workers : Same(v, w)
<1>1. \A v \in workers : LET x == [v EXCEPT !.live = FALSE]
                         IN  Same(v, x)
  BY DEF TypeOK, Worker, Same
<1>2. \A v \in workers : Same(v, v)
  BY Zenon DEF Same
<1> QED  BY <1>1, <1>2, Zenon DEF stopped

\* A step that raises the revision of one preparation outdates the reports it had, and one
\* that starts its clone finds no worker of it left.
LEMMA OwnRaise ==
    ASSUME TypeOK, Current, OwnInv, NEW p \in Prep, NEW r \in Record,
           prep' = [prep EXCEPT ![p] = r], r.rev > prep[p].rev,
           \A q \in Prep \ {p} : final'[q] = final[q],
           \A e \in Evidence' : e \in Evidence \/ e.kind # "clone_ready",
           \A w \in workers' : \/ \E v \in workers : Same(v, w)
                               \/ w.prep = p /\ w.rec = r /\ w.pos = "clone" /\ w.out = {},
           r.stage = "clone-in-progress" => \A w \in workers : w.prep # p
    PROVE  OwnInv'
<1>0. prep \in [Prep -> Record]
  BY Zenon DEF TypeOK
<1>1. prep'[p] = r /\ \A q \in Prep \ {p} : prep'[q] = prep[q]
  BY <1>0
<1>2. \A q \in Prep \ {p} : Own(q) => Own(q)'
  BY <1>1, Zenon DEF Own
<1>3. ASSUME NEW w \in workers'
      PROVE  /\ prep'[w.prep].stage = "clone-in-progress" => w.rec.rev = prep'[w.prep].rev
             /\ w.pos = "save" => Own(w.prep)'
             /\ \A e \in w.out : e.prep = w.prep
  <2>1. CASE w.prep = p /\ w.rec = r /\ w.pos = "clone" /\ w.out = {}
    BY <1>1, <2>1
  <2>2. CASE \E v \in workers : Same(v, w)
    <3>1. PICK v \in workers : v.prep = w.prep /\ v.rec = w.rec /\ v.pos = w.pos /\ v.out = w.out
      BY <2>2, Zenon DEF Same
    <3>1a. \A e \in w.out : e.prep = w.prep
      BY <3>1, Zenon DEF OwnInv
    <3>2. v.prep \in Prep
      BY EvidenceType
    <3>3. CASE v.prep = p
      <4>1. prep'[w.prep].stage # "clone-in-progress"
        BY <1>1, <3>1, <3>3, Zenon
      <4> QED  BY <3>1a, <4>1, Zenon DEF Own
    <3>4. CASE v.prep # p
      <4>1. prep'[w.prep] = prep[v.prep] /\ (Own(v.prep) => Own(w.prep)')
        BY <1>1, <1>2, <3>1, <3>2, <3>4, Zenon
      <4> QED  BY <3>1, <3>1a, <4>1, Zenon DEF OwnInv
    <3> QED  BY <3>3, <3>4, Zenon
  <2> QED  BY <1>3, <2>1, <2>2, Zenon
<1>4. ASSUME NEW e \in Evidence', e.kind = "clone_ready", e.rev = prep'[e.prep].rev
      PROVE  Own(e.prep)'
  <2>1. e \in Evidence /\ e.prep \in Prep /\ e.rev \in Nat /\ e.rev <= prep[e.prep].rev
    BY <1>4, EvidenceType, Zenon DEF Current
  <2>2. e.prep # p
    <3>1. r.rev \in Nat /\ prep[p].rev \in Nat
      BY EvidenceType DEF Record
    <3> QED  BY <1>1, <1>4, <2>1, <3>1, SMTT(30)
  <2>3. prep'[e.prep] = prep[e.prep]
    BY <1>1, <2>1, <2>2, Zenon
  <2> QED  BY <1>2, <1>4, <2>1, <2>2, <2>3, Zenon DEF OwnInv
<1> QED  BY <1>3, <1>4, Zenon DEF OwnInv

\* A step that leaves the preparations alone may remove the directory of one for which
\* nothing is at work or queued.
LEMMA OwnKeep ==
    ASSUME TypeOK, TypeOK', OwnInv, UNCHANGED prep,
           \A p \in Prep : \/ Own(p) => Own(p)'
                           \/ (\A w \in workers' : w.prep # p) /\ (\A e \in Evidence' : e.prep # p),
           \A w \in workers' : \E v \in workers : v.prep = w.prep /\ v.rec = w.rec,
           \A w \in workers' : \/ w \in workers
                               \/ (w.pos = "save" => Own(w.prep)') /\ \A e \in w.out : e.prep = w.prep,
           \A e \in Evidence' : e \in Evidence \/ (e.kind = "clone_ready" => Own(e.prep)')
    PROVE  OwnInv'
<1>1. ASSUME NEW w \in workers'
      PROVE  /\ prep'[w.prep].stage = "clone-in-progress" => w.rec.rev = prep'[w.prep].rev
             /\ w.pos = "save" => Own(w.prep)'
             /\ \A e \in w.out : e.prep = w.prep
  <2>1. PICK v \in workers : v.prep = w.prep /\ v.rec = w.rec
    BY Zenon
  <2>2. prep[w.prep].stage = "clone-in-progress" => w.rec.rev = prep[w.prep].rev
    BY <2>1, Zenon DEF OwnInv
  <2>3. w.prep \in Prep
    BY <2>1, EvidenceType, Zenon
  <2>4. w \in workers => (w.pos = "save" => Own(w.prep))
    BY Zenon DEF OwnInv
  <2>5. w.pos = "save" => Own(w.prep)'
    BY <2>3, <2>4, Zenon
  <2>6. \A e \in w.out : e.prep = w.prep
    BY Zenon DEF OwnInv
  <2> QED  BY <2>2, <2>5, <2>6, Zenon
<1>2. ASSUME NEW e \in Evidence', e.kind = "clone_ready", e.rev = prep'[e.prep].rev
      PROVE  Own(e.prep)'
  <2>1. CASE e \in Evidence
    <3>1. e.prep \in Prep /\ Own(e.prep)
      BY <1>2, <2>1, EvidenceType, Zenon DEF OwnInv
    <3> QED  BY <3>1, Zenon
  <2> QED  BY <1>2, <2>1, Zenon
<1> QED  BY <1>1, <1>2, Zenon DEF OwnInv

\* A worker publishes for the record it was started with, and reports what it published.
LEMMA OwnRunClone ==
    ASSUME TypeOK, TypeOK', Current, OwnInv, NEW w \in workers, runClone(w)
    PROVE  OwnInv'
<1>0. UNCHANGED prep
  BY DEF runClone, runCloneClones, runClonePublishes, runCloneSaves, runCloneSends, finishWorker, memory
<1>1. w.prep \in Prep /\ final \in [Prep -> SUBSET Marker]
  BY EvidenceType DEF TypeOK
<1>2. ASSUME final' = [final EXCEPT ![w.prep] = {[gen |-> w.rec.gen, rev |-> w.rec.rev]}]
      PROVE  Own(w.prep)' /\ \A p \in Prep \ {w.prep} : final'[p] = final[p]
  <2>1. final'[w.prep] = {[gen |-> w.rec.gen, rev |-> w.rec.rev]}
    BY <1>1, <1>2
  <2>2. prep[w.prep].stage = "clone-in-progress" => w.rec.rev = prep[w.prep].rev /\ w.rec.gen = prep[w.prep].gen
    BY Zenon DEF OwnInv, Current
  <2> QED  BY <1>0, <1>1, <1>2, <2>1, <2>2 DEF Own
<1>3. ASSUME final' = final PROVE \A p \in Prep : Own(p) => Own(p)'
  BY <1>0, <1>3, Zenon DEF Own
<1>4. \A p \in Prep : Own(p) => Own(p)'
  <2>1. CASE runClonePublishes(w)
    <3>1. \/ final' = final
          \/ final' = [final EXCEPT ![w.prep] = {[gen |-> w.rec.gen, rev |-> w.rec.rev]}]
      BY <2>1, Zenon DEF runClonePublishes
    <3>2. ASSUME NEW p \in Prep \ {w.prep}, final'[p] = final[p] PROVE Own(p) => Own(p)'
      BY <1>0, <3>2, Zenon DEF Own
    <3> QED  BY <1>2, <1>3, <3>1, <3>2, Zenon
  <2>2. CASE ~runClonePublishes(w)
    BY <1>3, <2>2, Zenon DEF runClone, runCloneClones, runCloneSaves, runCloneSends, finishWorker, disk
  <2> QED  BY <2>1, <2>2, Zenon
<1>5. ASSUME NEW pos, NEW out, becomes(w, pos, out)
      PROVE  /\ \A x \in workers' : \E v \in workers : v.prep = x.prep /\ v.rec = x.rec
             /\ \A x \in workers' : x \in workers \/ (x.prep = w.prep /\ x.pos = pos /\ x.out = out)
  BY <1>5 DEF becomes
<1>6. ASSUME NEW pos, NEW out, becomes(w, pos, out), pos = "save" => Own(w.prep)', \A e \in out : e.prep = w.prep,
             \A e \in Evidence' : e \in Evidence \/ (e.kind = "clone_ready" => Own(e.prep)')
      PROVE  OwnInv'
  <2>1. \A x \in workers' : \/ x \in workers
                            \/ (x.pos = "save" => Own(x.prep)') /\ \A e \in x.out : e.prep = x.prep
    <3>1. ASSUME NEW x, x.prep = w.prep, x.pos = pos, x.out = out
          PROVE  (x.pos = "save" => Own(x.prep)') /\ \A e \in x.out : e.prep = x.prep
      BY <1>6, <3>1 DEF Own
    <3>2. \A x \in workers' : x \in workers \/ (x.prep = w.prep /\ x.pos = pos /\ x.out = out)
      BY <1>5, <1>6, Zenon
    <3> QED  BY <3>1, <3>2, Zenon
  <2>2. \A x \in workers' : \E v \in workers : v.prep = x.prep /\ v.rec = x.rec
    BY <1>5, <1>6, Zenon
  <2> QED  BY <1>0, <1>4, <1>6, <2>1, <2>2, OwnKeep, Zenon
<1>7. ASSUME NEW k, report(w, k), UNCHANGED queue, k = "clone_ready" => Own(w.prep)' PROVE OwnInv'
  <2> DEFINE e == [kind |-> k, prep |-> w.prep, rev |-> prep[w.prep].rev, gen |-> w.rec.gen]
  <2>1. becomes(w, "send", {e}) /\ e.kind = k /\ e.prep = w.prep
    BY <1>7, Zenon DEF report
  <2> HIDE DEF e
  <2>2. Sent(events') \subseteq Sent(events) \cup {e}
    BY <1>7, Zenon DEF queue
  <2>3. \A x \in workers' : x.out \subseteq {e} \/ \E v \in workers : x.out \subseteq v.out \cup {e}
    <3>1. \A x \in workers' : x \in workers \/ x.out = {e}
      BY <1>5, <2>1
    <3> QED  BY <3>1, Zenon
  <2>4. Evidence' \subseteq Evidence \cup {e}
    BY <2>2, <2>3, EvidenceFrom, Zenon
  <2>5. \A x \in Evidence' : x \in Evidence \/ (x.kind = "clone_ready" => Own(x.prep)')
    BY <1>7, <2>1, <2>4, Zenon
  <2> QED  BY <1>6, <2>1, <2>5, Zenon
<1>8. ASSUME NEW pos, becomes(w, pos, {}), Sent(events') \subseteq Sent(events) \cup w.out,
             pos = "save" => Own(w.prep)'
      PROVE  OwnInv'
  <2>1. \A x \in workers' : x.out \subseteq w.out \/ \E v \in workers : x.out \subseteq v.out \cup w.out
    <3>1. \A x \in workers' : x \in workers \/ x.out = {}
      BY <1>5, <1>8, Zenon
    <3> QED  BY <3>1, Zenon
  <2>2. Evidence' \subseteq Evidence \cup w.out
    BY <1>8, <2>1, EvidenceFrom, Zenon
  <2>3. w.out \subseteq Evidence
    BY Zenon DEF Evidence
  <2>4. \A e \in Evidence' : e \in Evidence
    BY <2>2, <2>3, Zenon
  <2>5. \A e \in {} : e.prep = w.prep
    OBVIOUS
  <2> QED  BY <1>6, <1>8, <2>4, <2>5
<1>9. CASE runCloneClones(w)
  BY <1>7, <1>8, <1>9 DEF runCloneClones, queue
<1>10. CASE runClonePublishes(w)
  BY <1>2, <1>7, <1>8, <1>10 DEF runClonePublishes, finalConflict, queue
<1>11. CASE runCloneSaves(w)
  <2>1. Own(w.prep)
    BY <1>11, Zenon DEF runCloneSaves, OwnInv
  <2> QED  BY <1>1, <1>4, <1>7, <1>11, <2>1, Zenon DEF runCloneSaves
<1>12. CASE runCloneSends(w)
  <2>1. PICK e \in w.out : Enqueue(events, e)
    BY <1>12, Zenon DEF runCloneSends
  <2>2. Sent(events') \subseteq Sent(events) \cup {e}
    <3>1. e \in Evidence
      BY <2>1, Zenon DEF Evidence
    <3>2. e \in Event /\ events \in Seq(Event)
      BY <3>1, EvidenceType, Zenon DEF TypeOK
    <3> QED  BY <2>1, <3>2, SentFacts, Zenon
  <2> QED  BY <1>8, <1>12, <2>1, <2>2, Zenon DEF runCloneSends
<1>13. CASE finishWorker(w)
  <2>1. workers' \subseteq workers /\ events' = events
    BY <1>13 DEF finishWorker, queue
  <2>2. Evidence' \subseteq Evidence
    BY <2>1 DEF Evidence
  <2> QED  BY <1>0, <1>4, <2>1, <2>2, OwnKeep, Zenon
<1> QED  BY <1>9, <1>10, <1>11, <1>12, <1>13 DEF runClone

\* A clone is started only when no worker of the preparation is left.
LEMMA OwnStart ==
    ASSUME TypeOK, Counted, Current, OwnInv, NEW p \in Prep, NEW r \in Record,
           r.rev > prep[p].rev, r.stage = "confirmed", startPreparationClone(p, r), UNCHANGED final
    PROVE  OwnInv'
<1>0. r.rev \in Nat /\ prep[p].rev \in Nat
  BY EvidenceType DEF Record
<1>1. CASE AdmitClone(p) = ""
  <2> DEFINE s == cloneStarted(r)
             w == [prep |-> p, rec |-> s, pos |-> "clone", live |-> TRUE, out |-> {}]
  <2>1. /\ prep' = [prep EXCEPT ![p] = s] /\ workers' = workers \cup {w} /\ events' = events
    BY <1>1, Zenon DEF startPreparationClone, queue
  <2>2. w.prep = p /\ w.rec = s /\ w.pos = "clone" /\ w.out = {} /\ s.rev = r.rev + 1
    BY Zenon DEF cloneStarted
  <2>3. s \in Record
    BY StartedType
  <2> HIDE DEF s, w
  <2>4. s.rev > prep[p].rev
    BY <1>0, <2>2, SMTT(30)
  <2>5. \A v \in workers : v.prep # p
    BY <1>1, Admitted, Zenon DEF Counted, WorkersAreCounted
  <2>6. Evidence' \subseteq Evidence \cup {}
    <3>1. \A x \in workers' : x.out \subseteq {} \/ \E v \in workers : x.out \subseteq v.out \cup {}
      BY <2>1, <2>2, Zenon
    <3>2. Sent(events') \subseteq Sent(events) \cup {}
      BY <2>1
    <3> QED  BY <3>1, <3>2, EvidenceFrom, Zenon
  <2>7. \A e \in Evidence' : e \in Evidence \/ e.kind # "clone_ready"
    BY <2>6, Zenon
  <2>8. \A x \in workers' : \/ \E v \in workers : Same(v, x)
                            \/ x.prep = p /\ x.rec = s /\ x.pos = "clone" /\ x.out = {}
    BY <2>1, <2>2, Zenon DEF Same
  <2> QED  BY <2>1, <2>3, <2>4, <2>5, <2>7, <2>8, OwnRaise, ZenonT(30)
<1>2. ASSUME prep' = [prep EXCEPT ![p] = r], workers' = workers,
             \A e \in Evidence' : e \in Evidence \/ e.kind # "clone_ready"
      PROVE  OwnInv'
  <2>1. r.stage # "clone-in-progress"
    OBVIOUS
  <2>2. \A w \in workers' : \E v \in workers : Same(v, w)
    BY <1>2, Zenon DEF Same
  <2> QED  BY <1>2, <2>1, <2>2, OwnRaise, ZenonT(30)
<1>3. CASE AdmitClone(p) = "queue"
  <2>1. prep' = [prep EXCEPT ![p] = r] /\ workers' = workers /\ events' = events
    BY <1>3 DEF startPreparationClone, queue
  <2>2. Evidence' = Evidence
    BY <2>1 DEF Evidence
  <2> QED  BY <1>2, <2>1, <2>2, Zenon
<1>4. CASE AdmitClone(p) = "refuse"
  <2> DEFINE e == event("failed", p, r)
  <2>1. prep' = [prep EXCEPT ![p] = r] /\ workers' = workers /\ Enqueue(events, e)
    BY <1>4 DEF startPreparationClone, control
  <2>2. e \in Event /\ e.kind = "failed"
    BY EventType, Zenon DEF event, Kinds
  <2> HIDE DEF e
  <2>3. Sent(events') \subseteq Sent(events) \cup {e}
    BY <2>1, <2>2, SentFacts, Zenon DEF TypeOK
  <2>4. Evidence' \subseteq Evidence \cup {e}
    BY <2>1, <2>3, EvidenceFrom, Zenon
  <2>5. \A x \in Evidence' : x \in Evidence \/ x.kind # "clone_ready"
    BY <2>2, <2>4
  <2> QED  BY <1>2, <2>1, <2>5, Zenon
<1> QED  BY <1>1, <1>3, <1>4, Zenon DEF startPreparationClone

\* A launch reports no clone.
LEMMA OwnLaunch ==
    ASSUME TypeOK, Current, OwnInv, NEW p \in Prep, NEW r \in Record,
           r.rev > prep[p].rev, r.stage = "clone-ready", prep' = [prep EXCEPT ![p] = r],
           NEW q \in Seq(Event), Sent(q) \subseteq Sent(events), launchPreparationSession(p, r, q)
    PROVE  OwnInv'
<1>1. PICK k \in {"failed", "commit_available"} : Enqueue(q, event(k, p, r))
  BY DEF launchPreparationSession, failPendingLaunch
<1> DEFINE e == event(k, p, r)
<1>2. e \in Event /\ e.kind # "clone_ready"
  BY EventType DEF event, Kinds
<1>3. Enqueue(q, e)
  BY <1>1
<1> HIDE DEF e
<1>4. Sent(events') \subseteq Sent(events) \cup {e}
  BY <1>2, <1>3, SentFacts
<1>5. (workers' = workers \/ workers' = stopped(p, owner[p])) /\ final' = final
  BY DEF launchPreparationSession, failPendingLaunch
<1>6. \A w \in workers' : \E v \in workers : v.out = w.out
  BY <1>5, StoppedSame
<1>7. \A w \in workers' : \E v \in workers : Same(v, w)
  BY <1>5, StoppedPos DEF Same
<1>8. Evidence' \subseteq Evidence \cup {e}
  BY <1>4, <1>6, EvidenceFrom, Zenon
<1>9. \A x \in Evidence' : x \in Evidence \/ x.kind # "clone_ready"
  BY <1>2, <1>8, Zenon
<1>10. r.stage # "clone-in-progress"
  OBVIOUS
<1> QED  BY <1>5, <1>7, <1>9, <1>10, OwnRaise, ZenonT(60)

\* A reducer that only moves a preparation on may remove its directory.
LEMMA OwnAdvance ==
    ASSUME TypeOK, Current, OwnInv, NEW p \in Prep, NEW s \in Stage \ {"clone-in-progress"},
           NEW o \in Origins, prep' = [prep EXCEPT ![p] = advance(p, s, o)],
           Sent(events') \subseteq Sent(events),
           workers' = workers \/ \E g : workers' = stopped(p, g),
           final' = final \/ final' = [final EXCEPT ![p] = {}]
    PROVE  OwnInv'
<1> DEFINE r == advance(p, s, o)
<1>1. r \in Record /\ r.rev > prep[p].rev /\ r.stage # "clone-in-progress"
  BY AdvanceType, EvidenceType DEF advance
<1>2. prep' = [prep EXCEPT ![p] = r]
  OBVIOUS
<1> HIDE DEF r
<1>3. \A w \in workers' : \E v \in workers : v.out = w.out
  BY StoppedSame
<1>4. \A w \in workers' : \E v \in workers : Same(v, w)
  BY StoppedPos DEF Same
<1>5. Evidence' \subseteq Evidence \cup {}
  BY <1>3, EvidenceFrom
<1>6. \A x \in Evidence' : x \in Evidence
  BY <1>5
<1>7. \A q \in Prep \ {p} : final'[q] = final[q]
  BY DEF TypeOK
<1> QED  BY <1>1, <1>2, <1>4, <1>6, <1>7, OwnRaise, ZenonT(60)

\* Every step keeps the invariant.
LEMMA OwnStep == TypeOK /\ TypeOK' /\ Counted /\ Current /\ OwnInv /\ [Next]_vars => OwnInv'
<1> SUFFICES ASSUME TypeOK, TypeOK', Counted, Current, OwnInv, [Next]_vars PROVE OwnInv'
  OBVIOUS
<1>0. ASSUME UNCHANGED <<prep, workers, final>>, Sent(events') \subseteq Sent(events) PROVE OwnInv'
  <2>1. Evidence' \subseteq Evidence
    BY <1>0 DEF Evidence
  <2>2. \A p \in Prep : Own(p) => Own(p)'
    BY <1>0, Zenon DEF Own
  <2>3. UNCHANGED prep /\ workers' = workers
    BY <1>0, Zenon
  <2> QED  BY <2>1, <2>2, <2>3, OwnKeep, Zenon
<1>1. ASSUME NEW p \in Prep, reduceRepositoryCreate(p) PROVE OwnInv'
  <2> DEFINE r == [stage |-> "confirmed", rev |-> 1, gen |-> 1, origin |-> "none"]
  <2>1. r \in Record /\ r.rev > prep[p].rev /\ r.stage = "confirmed"
    BY <1>1 DEF reduceRepositoryCreate, Absent, Record, Stage
  <2>2. startPreparationClone(p, r) /\ UNCHANGED final
    BY <1>1 DEF reduceRepositoryCreate, disk
  <2> HIDE DEF r
  <2> QED  BY <2>1, <2>2, OwnStart, Zenon
<1>2. ASSUME NEW p \in Prep, reduceRepositoryCancelled(p) PROVE OwnInv'
  <2>1. originOf(prep[p].stage) \in Origins /\ "cancelled" \in Stage \ {"clone-in-progress"}
    BY OriginType DEF Stage
  <2>2. events' = events /\ final' = final
    BY <1>2, Zenon DEF reduceRepositoryCancelled, queue, disk
  <2> QED  BY <1>2, <2>1, <2>2, OwnAdvance, Zenon DEF reduceRepositoryCancelled
<1>3. ASSUME NEW p \in Prep, reduceRepositoryAbandon(p) PROVE OwnInv'
  <2>1. prep[p].origin \in Origins /\ "abandoned" \in Stage \ {"clone-in-progress"}
    BY EvidenceType DEF Record, Origins, Stage
  <2>2. events' = events /\ final' = [final EXCEPT ![p] = {}]
    BY <1>3, Zenon DEF reduceRepositoryAbandon, CleanupNeverAvailable, queue
  <2> QED  BY <1>3, <2>1, <2>2, OwnAdvance, Zenon DEF reduceRepositoryAbandon
<1>4. ASSUME NEW p \in Prep, reduceRepositoryRetry(p) PROVE OwnInv'
  <2> DEFINE r == [stage |-> IF prep[p].origin = "launch" THEN "clone-ready" ELSE "confirmed",
                   rev |-> prep[p].rev + 1, gen |-> prep[p].gen + 1, origin |-> "none"]
  <2>1. r \in Record /\ r.rev > prep[p].rev
    BY EvidenceType, SMTT(30) DEF Record, Stage
  <2>2. CASE prep[p].origin = "launch"
    <3>1. r.stage = "clone-ready" /\ prep' = [prep EXCEPT ![p] = r] /\ launchPreparationSession(p, r, events)
      BY <1>4, <2>2 DEF reduceRepositoryRetry
    <3>2. events \in Seq(Event)
      BY DEF TypeOK
    <3> HIDE DEF r
    <3> QED  BY <2>1, <3>1, <3>2, OwnLaunch, Zenon
  <2>3. CASE prep[p].origin # "launch"
    <3>1. r.stage = "confirmed" /\ startPreparationClone(p, r) /\ UNCHANGED final
      BY <1>4, <2>3 DEF reduceRepositoryRetry, disk
    <3> HIDE DEF r
    <3> QED  BY <2>1, <3>1, OwnStart, Zenon
  <2> QED  BY <2>2, <2>3
<1>5. CASE reduceRepository
  <2> DEFINE e == Head(events)
             p == e.prep
  <2>1. e \in Sent(events) /\ Sent(Tail(events)) \subseteq Sent(events) /\ Tail(events) \in Seq(Event)
    BY <1>5, SentFacts, TailTypes DEF reduceRepository
  <2>2. p \in Prep
    BY <1>5, <2>1, EvidenceType DEF Evidence, reduceRepository
  <2>3. CASE reduceRepositoryCloneReady(e)
    <3> DEFINE r == advance(p, "clone-ready", "none")
    <3>0. "none" \in Origins /\ "clone-ready" \in Stage
      BY DEF Origins, Stage
    <3>1. r \in Record /\ r.rev > prep[p].rev /\ r.stage = "clone-ready"
      <4> HIDE DEF p
      <4>1. r \in Record
        BY <2>2, <3>0, AdvanceType
      <4> QED  BY <2>2, <4>1, EvidenceType DEF advance
    <3>2. prep' = [prep EXCEPT ![p] = r] /\ launchPreparationSession(p, r, Tail(events))
      BY <2>3 DEF reduceRepositoryCloneReady
    <3> HIDE DEF r, p, e
    <3> QED  BY <2>1, <2>2, <3>1, <3>2, OwnLaunch, Zenon
  <2>4. ASSUME NEW s \in Stage \ {"clone-in-progress"}, NEW o \in Origins,
               prep' = [prep EXCEPT ![p] = advance(p, s, o)], events' = Tail(events),
               UNCHANGED control, UNCHANGED disk
        PROVE  OwnInv'
    <3>1. workers' = workers /\ final' = final
      BY <2>4 DEF control, disk
    <3> HIDE DEF p, e
    <3> QED  BY <2>1, <2>2, <2>4, <3>1, OwnAdvance, Zenon
  <2>5. CASE reduceRepositoryFailed(e)
    <3>1. originOf(prep[p].stage) \in Origins /\ "failed" \in Stage \ {"clone-in-progress"}
      BY OriginType DEF Stage
    <3> QED  BY <2>4, <2>5, <3>1, Zenon DEF reduceRepositoryFailed
  <2>6. CASE reduceRepositoryQuarantined(e)
    <3>1. "none" \in Origins /\ "internal_corruption" \in Stage \ {"clone-in-progress"}
      BY DEF Stage, Origins
    <3> QED  BY <2>4, <2>6, <3>1, Zenon DEF reduceRepositoryQuarantined
  <2>7. CASE reduceRepositoryCommitAvailable(e)
    <3>1. "none" \in Origins /\ "available" \in Stage \ {"clone-in-progress"}
      BY DEF Stage, Origins
    <3> QED  BY <2>4, <2>7, <3>1, Zenon DEF reduceRepositoryCommitAvailable
  <2>8. CASE events' = Tail(events) /\ UNCHANGED <<memory, control, disk>>
    <3>1. UNCHANGED <<prep, workers, final>>
      BY <2>8 DEF memory, control, disk
    <3> QED  BY <1>0, <2>1, <2>8, <3>1
  <2> QED  BY <1>5, <2>3, <2>5, <2>6, <2>7, <2>8 DEF reduceRepository
<1>6. ASSUME NEW w \in workers, runClone(w) PROVE OwnInv'
  BY <1>6, OwnRunClone, Zenon
<1>7. CASE Crash \/ reduceQuiescing \/ ReconcileRepositoryPreparations
  <2>1. events' = <<>> /\ workers' = {}
    BY <1>7 DEF Crash, reduceQuiescing, processEnds, ReconcileRepositoryPreparations, Current, up, queue, control
  <2>2. Evidence' = {}
    BY <2>1, NothingSent DEF Evidence
  <2> QED  BY <2>1, <2>2, Zenon DEF OwnInv
<1>8. ASSUME NEW p \in Prep, SweepNeverAvailableOrphans(p) PROVE OwnInv'
  <2>1. UNCHANGED prep /\ workers' = workers /\ events' = events
    BY <1>8 DEF SweepNeverAvailableOrphans, memory, queue, control
  <2>2. Idle(p) /\ final' = [final EXCEPT ![p] = {}]
    BY <1>8, Zenon DEF SweepNeverAvailableOrphans, CleanupNeverAvailable
  <2>3. Evidence' = Evidence
    BY <2>1 DEF Evidence
  <2>4. \A q \in Prep \ {p} : final'[q] = final[q]
    BY <2>2 DEF TypeOK
  <2>5. \A q \in Prep \ {p} : Own(q) => Own(q)'
    BY <2>1, <2>4, Zenon DEF Own
  <2>6. (\A w \in workers' : w.prep # p) /\ (\A e \in Evidence' : e.prep # p)
    <3>1. (\A w \in workers : w.prep # p) /\ (\A k \in DOMAIN events : events[k].prep # p)
      BY <2>2, Zenon DEF Idle
    <3>2. \A e \in Sent(events) : e.prep # p
      BY <3>1, Zenon DEF Sent
    <3>3. \A w \in workers : \A e \in w.out : e.prep # p
      BY <3>1, Zenon DEF OwnInv
    <3>4. \A e \in Evidence : e.prep # p
      BY <3>2, <3>3, Zenon DEF Evidence
    <3> QED  BY <2>1, <2>3, <3>1, <3>4, Zenon
  <2> QED  BY <2>1, <2>3, <2>5, <2>6, OwnKeep, Zenon
<1>9. CASE reduceShutdown \/ reduceShutdownSaveFailed
  <2>1. UNCHANGED <<prep, workers, final>> /\ events' = events
    BY <1>9 DEF reduceShutdown, reduceShutdownSaveFailed, memory, queue, control, disk
  <2> QED  BY <1>0, <2>1
<1>10. CASE UNCHANGED vars
  <2>1. UNCHANGED <<prep, workers, final>> /\ events' = events
    BY <1>10, Zenon DEF vars
  <2> QED  BY <1>0, <2>1
<1> QED  BY <1>1, <1>2, <1>3, <1>4, <1>5, <1>6, <1>7, <1>8, <1>9, <1>10 DEF Next

\* The inductive invariant holds always.
LEMMA OwnHolds == Spec => []OwnInv
<1>1. Init => OwnInv
  BY EmptyOwn, Zenon DEF Init
<1> QED  BY <1>1, TypeCorrect, CountedHolds, CurrentHolds, OwnStep, PTL DEF Spec

\* A clone is accepted only by the report at the head of the channel.
LEMMA AcceptStep ==
    ASSUME TypeOK, Current, OwnInv, [Next]_vars, NEW p \in Prep,
           prep[p].stage = "clone-in-progress", prep'[p].stage = "clone-ready"
    PROVE  Own(p)
<1>0. ASSUME NEW q \in Prep, NEW r, prep' = [prep EXCEPT ![q] = r]
      PROVE  q = p /\ r.stage = "clone-ready"
  BY <1>0 DEF TypeOK
<1>1. ~UNCHANGED prep
  OBVIOUS
<1>2. ASSUME NEW q \in Prep, NEW r, r.stage = "confirmed", startPreparationClone(q, r) PROVE FALSE
  <2>1. cloneStarted(r).stage = "clone-in-progress"
    BY DEF cloneStarted
  <2>2. prep' = [prep EXCEPT ![q] = r] \/ prep' = [prep EXCEPT ![q] = cloneStarted(r)]
    BY <1>2, Zenon DEF startPreparationClone
  <2> QED  BY <1>0, <1>2, <2>1, <2>2
<1>3. ASSUME NEW q \in Prep, reduceRepositoryCreate(q) PROVE FALSE
  <2> DEFINE r == [stage |-> "confirmed", rev |-> 1, gen |-> 1, origin |-> "none"]
  <2>1. r.stage = "confirmed" /\ startPreparationClone(q, r)
    BY <1>3 DEF reduceRepositoryCreate
  <2> HIDE DEF r
  <2> QED  BY <1>2, <2>1
<1>4. ASSUME NEW q \in Prep, NEW s, NEW o, prep' = [prep EXCEPT ![q] = advance(q, s, o)]
      PROVE  q = p /\ s = "clone-ready"
  <2>1. advance(q, s, o).stage = s
    BY DEF advance
  <2> QED  BY <1>0, <1>4, <2>1, Zenon
<1>5. ASSUME NEW q \in Prep, reduceRepositoryCancelled(q) \/ reduceRepositoryAbandon(q) PROVE FALSE
  BY <1>4, <1>5 DEF reduceRepositoryCancelled, reduceRepositoryAbandon
<1>6. ASSUME NEW q \in Prep, reduceRepositoryRetry(q) PROVE FALSE
  <2>1. prep[q].stage \in {"failed", "cancelled", "interrupted"}
    BY <1>6 DEF reduceRepositoryRetry
  <2>2. \E r : prep' = [prep EXCEPT ![q] = r]
    BY <1>6, Zenon DEF reduceRepositoryRetry, startPreparationClone
  <2>3. q = p
    BY <1>0, <2>2, Zenon
  <2> QED  BY <2>1, <2>3
<1>7. CASE reduceRepository
  <2> DEFINE e == Head(events)
  <2>1. e \in Evidence /\ e.prep \in Prep
    BY <1>7, SentFacts, EvidenceType DEF reduceRepository, Evidence
  <2>2. ~(UNCHANGED memory)
    BY <1>1 DEF memory
  <2>3. loadPrepFenced(e)
    BY <1>7, <2>2 DEF reduceRepository
  <2>4. CASE \/ reduceRepositoryFailed(e) \/ reduceRepositoryQuarantined(e)
             \/ reduceRepositoryCommitAvailable(e)
    <3>1. \E s \in {"failed", "internal_corruption", "available"}, o \in Origins :
             prep' = [prep EXCEPT ![e.prep] = advance(e.prep, s, o)]
      BY <2>4, OriginType DEF reduceRepositoryFailed, reduceRepositoryQuarantined,
                              reduceRepositoryCommitAvailable, Origins
    <3> HIDE DEF e
    <3> QED  BY <1>4, <2>1, <3>1
  <2>5. CASE reduceRepositoryCloneReady(e)
    <3>1. e.kind = "clone_ready" /\ prep' = [prep EXCEPT ![e.prep] = advance(e.prep, "clone-ready", "none")]
      BY <2>5, Zenon DEF reduceRepositoryCloneReady
    <3>2. e.prep = p
      BY <1>4, <2>1, <3>1, Zenon
    <3>3. e.rev = prep[e.prep].rev
      BY <2>3 DEF loadPrepFenced
    <3> HIDE DEF e
    <3> QED  BY <2>1, <3>1, <3>2, <3>3, Zenon DEF OwnInv
  <2> QED  BY <1>7, <2>2, <2>4, <2>5 DEF reduceRepository
<1>8. ASSUME NEW w \in workers, runClone(w) PROVE FALSE
  BY <1>1, <1>8, Zenon DEF runClone, runCloneClones, runClonePublishes, runCloneSaves, runCloneSends,
                    finishWorker, memory
<1>9. CASE Crash \/ reduceQuiescing
  <2>1. prep' = [q \in Prep |-> Absent]
    BY <1>9 DEF Crash, reduceQuiescing, processEnds
  <2> QED  BY <2>1 DEF Absent
<1>10. CASE ReconcileRepositoryPreparations
  <2>1. prep = [q \in Prep |-> Absent]
    BY <1>10, Zenon DEF ReconcileRepositoryPreparations, Current, up
  <2> QED  BY <2>1 DEF Absent
<1>11. CASE (\E q \in Prep : SweepNeverAvailableOrphans(q)) \/ reduceShutdown \/ reduceShutdownSaveFailed
  BY <1>1, <1>11, Zenon DEF SweepNeverAvailableOrphans, reduceShutdown, reduceShutdownSaveFailed, memory
<1>12. CASE UNCHANGED vars
  BY <1>1, <1>12 DEF vars
<1> QED  BY <1>3, <1>5, <1>6, <1>7, <1>8, <1>9, <1>10, <1>11, <1>12, Zenon DEF Next

\* A clone a worker reports is accepted only if the directory is the one this generation
\* and revision published: whatever fails, is retried, swept or restarted, PublishClone
\* takes no directory it finds for its clone.
THEOREM AcceptedCloneIsOwnHolds == Spec => AcceptedCloneIsOwn
<1>1. TypeOK /\ Current /\ OwnInv /\ [Next]_vars =>
        [\A p \in Prep : prep[p].stage = "clone-in-progress" /\ prep'[p].stage = "clone-ready" =>
            final[p] = {[gen |-> prep[p].gen, rev |-> prep[p].rev]}]_vars
  BY AcceptStep, Zenon DEF Own
<1> QED  BY <1>1, TypeCorrect, CurrentHolds, OwnHolds, PTL DEF Spec, AcceptedCloneIsOwn

-----------------------------------------------------------------------------
(* A session has its clone.                                                 *)

\* The stages of a record SweepNeverAvailableOrphans takes for an orphan.
Swept == {"failed", "cancelled", "abandoned", "internal_corruption", "interrupted"}

SessionsInv ==
    \A p \in sessions : /\ prep[p].stage = "available"
                        /\ p \in unsaved \/ (final[p] # {} /\ \A r \in store[p] : r.stage \notin Swept)

\* The launch that e reports is the one the preparation waits for.
Awaits(e) ==
    e.kind = "commit_available" /\ e.rev = prep[e.prep].rev /\ prep[e.prep].stage = "clone-ready"

LaunchInv == \A e \in Sent(events) : Awaits(e) => final[e.prep] # {}

WorkInv ==
    \A w \in workers : w.rec.stage = "clone-in-progress" /\ \A e \in w.out : e.kind # "commit_available"

\* The inductive invariant: the record of a session is none that is swept, the clone of a
\* launch under way is on disk, and a worker only ever saves a clone in progress.
CloneInv == SessionsInv /\ LaunchInv /\ WorkInv /\ (~up => sessions = {})

\* Where nothing is queued, at work or in the list of sessions, nothing can be wrong.
LEMMA EmptyClone ==
    sessions = {} /\ events = <<>> /\ workers = {} => CloneInv
<1> SUFFICES ASSUME sessions = {}, events = <<>>, workers = {} PROVE CloneInv
  OBVIOUS
<1>1. Sent(events) = {}
  BY NothingSent
<1>2. LaunchInv
  BY <1>1, Zenon DEF LaunchInv
<1>3. SessionsInv /\ WorkInv
  BY Zenon DEF SessionsInv, WorkInv
<1> QED  BY <1>2, <1>3, Zenon DEF CloneInv

\* A Save of q touches its record only, and a failed one is remembered.
LEMMA Saved ==
    ASSUME TypeOK, NEW q \in Prep, NEW rs, persist(q, rs)
    PROVE  /\ unsaved \subseteq unsaved'
           /\ \A p \in Prep \ {q} : store'[p] = store[p]
           /\ q \in unsaved' \/ store'[q] = {rs[Len(rs)]}
<1>1. \E k : store' = [store EXCEPT ![q] = k]
  BY Zenon DEF persist
<1>2. \A p \in Prep \ {q} : store'[p] = store[p]
  BY <1>1 DEF TypeOK
<1>3. unsaved' = IF store'[q] = {rs[Len(rs)]} THEN unsaved ELSE unsaved \cup {q}
  BY Zenon DEF persist
<1> QED  BY <1>2, <1>3

\* Sessions keep what they need.
LEMMA SessionsKept ==
    ASSUME SessionsInv, sessions' = sessions, unsaved \subseteq unsaved',
           \A p \in sessions : /\ prep'[p] = prep[p] /\ (final[p] # {} => final'[p] # {})
                               /\ \A r \in store'[p] : r \in store[p] \/ r.stage \notin Swept
    PROVE  SessionsInv'
<1> SUFFICES ASSUME NEW p \in sessions
             PROVE  /\ prep'[p].stage = "available"
                    /\ p \in unsaved' \/ (final'[p] # {} /\ \A r \in store'[p] : r.stage \notin Swept)
  BY Zenon DEF SessionsInv, Swept
<1>1. prep[p].stage = "available" /\ (p \in unsaved \/ (final[p] # {} /\ \A r \in store[p] : r.stage \notin Swept))
  BY DEF SessionsInv
<1> QED  BY <1>1, Zenon

\* A step that moves a preparation on leaves the sessions of the others alone, and the
\* launch it may begin has its clone.
LEMMA MovesOn ==
    ASSUME TypeOK, Current, CloneInv, up', NEW q \in Prep, NEW r \in Record, NEW rs,
           prep[q].stage # "available", prep' = [prep EXCEPT ![q] = r], r.rev > prep[q].rev,
           sessions' = sessions, persist(q, rs),
           \A p \in Prep \ {q} : final'[p] = final[p],
           \A e \in Sent(events') : \/ e \in Sent(events)
                                    \/ e.prep = q /\ (e.kind = "commit_available" => final'[q] # {}),
           WorkInv'
    PROVE  CloneInv'
<1>0. prep \in [Prep -> Record] /\ sessions \subseteq Prep
  BY Zenon DEF TypeOK
<1>1. prep'[q] = r /\ \A p \in Prep \ {q} : prep'[p] = prep[p]
  BY <1>0
<1>2. q \notin sessions
  BY Zenon DEF CloneInv, SessionsInv
<1>3. unsaved \subseteq unsaved' /\ \A p \in Prep \ {q} : store'[p] = store[p]
  BY Saved, Zenon
<1>4. SessionsInv'
  BY <1>0, <1>1, <1>2, <1>3, SessionsKept, Zenon DEF CloneInv
<1>5. ASSUME NEW e \in Sent(events'), Awaits(e)' PROVE final'[e.prep] # {}
  <2>1. CASE e \in Sent(events)
    <3>1. e.prep \in Prep /\ e.rev \in Nat /\ e.rev <= prep[e.prep].rev
      BY <2>1, EvidenceType, Zenon DEF Evidence, Current
    <3>2. e.rev = prep'[e.prep].rev
      BY <1>5 DEF Awaits
    <3>3. e.prep # q
      <4>1. prep[q].rev \in Nat /\ r.rev \in Nat
        BY EvidenceType DEF Record
      <4> QED  BY <1>1, <3>1, <3>2, <4>1, SMTT(30)
    <3>4. Awaits(e)
      BY <1>1, <1>5, <3>1, <3>3 DEF Awaits
    <3> QED  BY <2>1, <3>1, <3>3, <3>4 DEF CloneInv, LaunchInv
  <2>2. CASE e \notin Sent(events)
    BY <1>5, <2>2 DEF Awaits
  <2> QED  BY <2>1, <2>2
<1>6. LaunchInv'
  BY <1>5 DEF LaunchInv
<1> QED  BY <1>4, <1>6 DEF CloneInv

\* StopOwnedWork changes the context only.
LEMMA StoppedWork ==
    ASSUME TypeOK, WorkInv, workers' = workers \/ \E p, g : workers' = stopped(p, g)
    PROVE  WorkInv'
<1>1. \A w \in workers' : \E v \in workers : v.prep = w.prep /\ v.rec = w.rec /\ v.out = w.out
  BY StoppedSame
<1> QED  BY <1>1, Zenon DEF WorkInv

\* A reducer that only moves a preparation on.
LEMMA AdvanceClone ==
    ASSUME TypeOK, Current, CloneInv, up', NEW q \in Prep, NEW s \in Stage, NEW o \in Origins,
           prep[q].stage # "available", prep' = [prep EXCEPT ![q] = advance(q, s, o)],
           persist(q, <<advance(q, s, o)>>), sessions' = sessions,
           \A p \in Prep \ {q} : final'[p] = final[p], Sent(events') \subseteq Sent(events),
           workers' = workers \/ \E p, g : workers' = stopped(p, g)
    PROVE  CloneInv'
<1> DEFINE r == advance(q, s, o)
<1>1. r \in Record /\ r.rev > prep[q].rev
  BY AdvanceType, EvidenceType DEF advance
<1>2. prep' = [prep EXCEPT ![q] = r] /\ persist(q, <<r>>)
  OBVIOUS
<1> HIDE DEF r
<1>3. WorkInv'
  BY StoppedWork DEF CloneInv
<1>4. \A e \in Sent(events') : e \in Sent(events)
  OBVIOUS
<1> QED  BY <1>1, <1>2, <1>3, <1>4, MovesOn, Zenon

\* An admitted, queued or refused clone.
LEMMA StartClone ==
    ASSUME TypeOK, Current, CloneInv, up', NEW q \in Prep, NEW r \in Record,
           prep[q].stage # "available", r.rev > prep[q].rev,
           startPreparationClone(q, r), sessions' = sessions, final' = final
    PROVE  CloneInv'
<1>0. r.rev \in Nat /\ prep[q].rev \in Nat /\ events \in Seq(Event)
  BY EvidenceType, Zenon DEF Record, TypeOK
<1>1. CASE AdmitClone(q) = ""
  <2> DEFINE s == cloneStarted(r)
             w == [prep |-> q, rec |-> s, pos |-> "clone", live |-> TRUE, out |-> {}]
  <2>1. /\ prep' = [prep EXCEPT ![q] = s] /\ workers' = workers \cup {w} /\ events' = events
        /\ persist(q, <<r, s>>)
    BY <1>1, Zenon DEF startPreparationClone, queue
  <2>2. w.rec.stage = "clone-in-progress" /\ w.out = {} /\ s.rev = r.rev + 1
    BY Zenon DEF cloneStarted
  <2>3. s \in Record
    BY StartedType, Zenon
  <2> HIDE DEF s, w
  <2>4. s.rev > prep[q].rev
    BY <1>0, <2>2, SMTT(30)
  <2>5. WorkInv'
    BY <2>1, <2>2, Zenon DEF CloneInv, WorkInv
  <2> QED  BY <2>1, <2>3, <2>4, <2>5, MovesOn, Zenon
<1>2. CASE AdmitClone(q) = "queue"
  <2>1. prep' = [prep EXCEPT ![q] = r] /\ workers' = workers /\ events' = events /\ persist(q, <<r>>)
    BY <1>2 DEF startPreparationClone, queue
  <2>2. WorkInv'
    BY <2>1, StoppedWork DEF CloneInv
  <2> QED  BY <2>1, <2>2, MovesOn, Zenon
<1>3. CASE AdmitClone(q) = "refuse"
  <2> DEFINE e == event("failed", q, r)
  <2>1. prep' = [prep EXCEPT ![q] = r] /\ workers' = workers /\ Enqueue(events, e) /\ persist(q, <<r>>)
    BY <1>3 DEF startPreparationClone, control
  <2>2. e \in Event /\ e.prep = q /\ e.kind # "commit_available"
    BY EventType, Zenon DEF event, Kinds
  <2> HIDE DEF e
  <2>3. Sent(events') \subseteq Sent(events) \cup {e}
    BY <1>0, <2>1, <2>2, SentFacts, Zenon
  <2>4. WorkInv'
    BY <2>1, StoppedWork DEF CloneInv
  <2>5. \A x \in Sent(events') : x \in Sent(events) \/ (x.prep = q /\ x.kind # "commit_available")
    BY <2>2, <2>3
  <2> QED  BY <2>1, <2>4, <2>5, MovesOn, Zenon
<1> QED  BY <1>1, <1>2, <1>3, Zenon DEF startPreparationClone

\* A launch reports success only of a clone that is on disk.
LEMMA LaunchClone ==
    ASSUME TypeOK, Current, CloneInv, up', NEW p \in Prep, NEW r \in Record,
           prep[p].stage # "available", r.rev > prep[p].rev, prep' = [prep EXCEPT ![p] = r],
           persist(p, <<r>>), sessions' = sessions,
           NEW q \in Seq(Event), Sent(q) \subseteq Sent(events), launchPreparationSession(p, r, q)
    PROVE  CloneInv'
<1>1. PICK k \in {"failed", "commit_available"} :
         Enqueue(q, event(k, p, r)) /\ (k = "commit_available" => final[p] # {})
  BY Zenon DEF launchPreparationSession, failPendingLaunch
<1> DEFINE e == event(k, p, r)
<1>2. e \in Event /\ e.prep = p /\ e.kind = k
  BY EventType, Zenon DEF event, Kinds
<1>3. Enqueue(q, e)
  BY <1>1, Zenon
<1> HIDE DEF e
<1>4. Sent(events') \subseteq Sent(events) \cup {e}
  BY <1>2, <1>3, SentFacts
<1>5. workers' = workers \/ workers' = stopped(p, owner[p])
  BY Zenon DEF launchPreparationSession, failPendingLaunch
<1>6. WorkInv'
  BY <1>5, StoppedWork DEF CloneInv
<1>7. final' = final
  BY DEF launchPreparationSession
<1>8. \A x \in Sent(events') : \/ x \in Sent(events)
                               \/ x.prep = p /\ (x.kind = "commit_available" => final'[p] # {})
  BY <1>1, <1>2, <1>4, <1>7, ZenonT(30)
<1> QED  BY <1>6, <1>7, <1>8, MovesOn, Zenon

\* A step that leaves the preparations and their sessions alone, and removes no clone.
LEMMA StaysPut ==
    ASSUME TypeOK, CloneInv, up', UNCHANGED <<prep, sessions, unsaved>>,
           \A p \in Prep : /\ final[p] # {} => final'[p] # {}
                           /\ \A r \in store'[p] : r \in store[p] \/ r.stage \notin Swept,
           \A e \in Sent(events') : e \in Sent(events) \/ e.kind # "commit_available",
           WorkInv'
    PROVE  CloneInv'
<1>1. sessions \subseteq Prep /\ \A e \in Sent(events) : e.prep \in Prep
  BY EvidenceType, Zenon DEF TypeOK, Evidence
<1>2. SessionsInv'
  BY <1>1, SessionsKept, Zenon DEF CloneInv
<1>3. ASSUME NEW e \in Sent(events'), Awaits(e)' PROVE final'[e.prep] # {}
  <2>1. e.kind = "commit_available" /\ Awaits(e)
    BY <1>3, Zenon DEF Awaits
  <2>2. e \in Sent(events)
    BY <1>3, <2>1, Zenon
  <2> QED  BY <1>1, <2>1, <2>2, Zenon DEF CloneInv, LaunchInv
<1>4. LaunchInv'
  BY <1>3 DEF LaunchInv
<1> QED  BY <1>2, <1>4 DEF CloneInv

\* A worker publishes a clone and removes none, and what it saves is not swept.
LEMMA RunCloneClone ==
    ASSUME TypeOK, CloneInv, NEW w \in workers, runClone(w)
    PROVE  CloneInv'
<1>1. up' /\ UNCHANGED <<prep, sessions, unsaved>>
  BY Zenon DEF runClone, runCloneClones, runClonePublishes, runCloneSaves, runCloneSends, finishWorker,
         memory, up
<1>2. w.prep \in Prep /\ w.rec \in Record /\ w.rec.stage = "clone-in-progress"
      /\ \A e \in w.out : e.kind # "commit_available" /\ e \in Event
  BY DEF TypeOK, Worker, CloneInv, WorkInv
<1>3. \A p \in Prep : final[p] # {} => final'[p] # {}
  <2>1. CASE UNCHANGED final
    BY <2>1
  <2>2. CASE runClonePublishes(w)
    <3>1. final' = final \/ \E m : final' = [final EXCEPT ![w.prep] = {m}]
      BY <2>2, Zenon DEF runClonePublishes
    <3>2. final \in [Prep -> SUBSET Marker]
      BY DEF TypeOK
    <3>3. \A p \in Prep : final'[p] = final[p] \/ \E m : final'[p] = {m}
      BY <3>1, <3>2, Zenon
    <3> QED  BY <3>3
  <2> QED  BY <2>1, <2>2, Zenon DEF runClone, runCloneClones, runCloneSaves, runCloneSends, finishWorker, disk
<1>4. \A p \in Prep : \A r \in store'[p] : r \in store[p] \/ r.stage \notin Swept
  <2>1. CASE UNCHANGED store
    BY <2>1
  <2>2. CASE runCloneSaves(w)
    <3>1. store' = store \/ store' = [store EXCEPT ![w.prep] = {w.rec}]
      BY <2>2 DEF runCloneSaves
    <3>2. \A p \in Prep : store'[p] = store[p] \/ store'[p] = {w.rec}
      BY <3>1 DEF TypeOK
    <3> QED  BY <1>2, <3>2 DEF Swept
  <2> QED  BY <2>1, <2>2 DEF runClone, runCloneClones, runClonePublishes, runCloneSends, finishWorker
<1>5. \A e \in Sent(events') : e \in Sent(events) \/ e.kind # "commit_available"
  <2>1. CASE UNCHANGED events
    BY <2>1
  <2>2. CASE runCloneSends(w)
    <3>1. PICK e \in w.out : Enqueue(events, e)
      BY <2>2 DEF runCloneSends
    <3>2. events \in Seq(Event)
      BY DEF TypeOK
    <3>3. Sent(events') \subseteq Sent(events) \cup {e}
      BY <1>2, <3>1, <3>2, SentFacts
    <3> QED  BY <1>2, <3>1, <3>3
  <2> QED  BY <2>1, <2>2 DEF runClone, runCloneClones, runClonePublishes,
              runCloneSaves, finishWorker, queue
<1>6. WorkInv'
  <2>0. ASSUME NEW pos, NEW out, becomes(w, pos, out), \A e \in out : e.kind # "commit_available"
        PROVE  WorkInv'
    <3> DEFINE x == [prep |-> w.prep, rec |-> w.rec, live |-> w.live, pos |-> pos, out |-> out]
    <3>1. x.rec = w.rec /\ x.out = out /\ workers' = (workers \ {w}) \cup {x}
      BY <2>0 DEF becomes
    <3> HIDE DEF x
    <3> QED  BY <1>2, <2>0, <3>1, Zenon DEF CloneInv, WorkInv
  <2>1. ASSUME NEW k \in {"clone_ready", "failed", "quarantined"}, report(w, k) PROVE WorkInv'
    <3> DEFINE e == [kind |-> k, prep |-> w.prep, rev |-> prep[w.prep].rev, gen |-> w.rec.gen]
    <3>1. becomes(w, "send", {e}) /\ e.kind # "commit_available"
      BY <2>1 DEF report
    <3> HIDE DEF e
    <3> QED  BY <2>0, <3>1
  <2>2. ASSUME NEW pos, becomes(w, pos, {}) PROVE WorkInv'
    <3>1. \A e \in {} : e.kind # "commit_available"
      OBVIOUS
    <3> QED  BY <2>0, <2>2, <3>1
  <2>3. CASE workers' = workers \ {w}
    BY <2>3 DEF CloneInv, WorkInv
  <2>4. CASE runCloneClones(w)
    BY <2>1, <2>2, <2>4 DEF runCloneClones
  <2>5. CASE runClonePublishes(w)
    BY <2>1, <2>2, <2>5 DEF runClonePublishes, finalConflict
  <2>6. CASE runCloneSaves(w) \/ runCloneSends(w) \/ finishWorker(w)
    BY <2>1, <2>2, <2>3, <2>6 DEF runCloneSaves, runCloneSends, finishWorker
  <2> QED  BY <2>4, <2>5, <2>6 DEF runClone
<1> QED  BY Zenon, <1>1, <1>3, <1>4, <1>5, <1>6, StaysPut

\* The sweep removes the clone of a session only when a Save of it has failed.
LEMMA SweepClone ==
    ASSUME TypeOK, CloneInv, NEW q \in Prep, SweepNeverAvailableOrphans(q)
    PROVE  CloneInv'
<1>1. /\ up' /\ UNCHANGED <<prep, sessions, unsaved, events, workers>>
      /\ final' = [final EXCEPT ![q] = {}] /\ store' = [store EXCEPT ![q] = {}]
  BY DEF SweepNeverAvailableOrphans, CleanupNeverAvailable, memory, queue, control, up
<1>2. (\A p \in Prep \ {q} : final'[p] = final[p] /\ store'[p] = store[p]) /\ sessions \subseteq Prep
  BY <1>1 DEF TypeOK
<1>3. q \in sessions => q \in unsaved
  BY Zenon DEF SweepNeverAvailableOrphans, CloneInv, SessionsInv, Swept
<1>4. \A p \in sessions : /\ prep[p].stage = "available"
                          /\ p \in unsaved \/ (final'[p] # {} /\ \A r \in store'[p] : r.stage \notin Swept)
  BY <1>2, <1>3, Zenon DEF CloneInv, SessionsInv
<1>5. SessionsInv'
  BY <1>1, <1>4, ZenonT(30) DEF SessionsInv, Swept
<1>6. \A e \in Sent(events) : e.prep # q /\ e.prep \in Prep
  BY EvidenceType, Zenon DEF SweepNeverAvailableOrphans, Idle, Sent, Evidence
<1>7. LaunchInv'
  BY <1>1, <1>2, <1>6, SMTT(30) DEF CloneInv, LaunchInv, Awaits, Sent
<1>8. WorkInv'
  BY <1>1 DEF CloneInv, WorkInv
<1> QED  BY <1>1, <1>5, <1>7, <1>8 DEF CloneInv

\* A preparation becomes available by the report of a launch, with the clone on disk.
LEMMA CommitClone ==
    ASSUME TypeOK, Current, CloneInv, up', events # <<>>, loadPrepFenced(Head(events)),
           reduceRepositoryCommitAvailable(Head(events))
    PROVE  CloneInv'
<1> DEFINE e == Head(events)
           q == e.prep
           r == advance(q, "available", "none")
<1>1. e \in Sent(events) /\ Sent(Tail(events)) \subseteq Sent(events)
  BY SentFacts
<1>2. q \in Prep /\ e.kind = "commit_available" /\ prep[q].stage = "clone-ready" /\ e.rev = prep[q].rev
  BY <1>1, EvidenceType DEF Evidence, reduceRepositoryCommitAvailable, loadPrepFenced
<1>3. /\ prep' = [prep EXCEPT ![q] = r] /\ persist(q, <<r>>) /\ sessions' = sessions \cup {q}
      /\ events' = Tail(events) /\ UNCHANGED <<final, workers>>
  BY DEF reduceRepositoryCommitAvailable, control, disk
<1>4. r.stage = "available" /\ r.stage \notin Swept
  BY DEF advance, Swept
<1> HIDE DEF r, q, e
<1>5. final[q] # {}
  BY <1>1, <1>2 DEF CloneInv, LaunchInv, Awaits, q
<1>6. prep'[q] = r /\ (\A p \in Prep \ {q} : prep'[p] = prep[p]) /\ sessions \subseteq Prep
  BY <1>2, <1>3, ZenonT(30) DEF TypeOK
<1>7. /\ unsaved \subseteq unsaved' /\ \A p \in Prep \ {q} : store'[p] = store[p]
      /\ q \in unsaved' \/ store'[q] = {r}
  <2>1. <<r>>[Len(<<r>>)] = r
    OBVIOUS
  <2> QED  BY <1>2, <1>3, <2>1, Saved, Zenon
<1>8. ASSUME NEW p \in sessions'
      PROVE  /\ prep'[p].stage = "available"
             /\ p \in unsaved' \/ (final'[p] # {} /\ \A x \in store'[p] : x.stage \notin Swept)
  <2>1. CASE p = q
    BY <1>3, <1>4, <1>5, <1>6, <1>7, <2>1, Zenon
  <2>2. CASE p # q
    <3>1. p \in sessions /\ p \in Prep \ {q}
      BY <1>3, <1>6, <1>8, <2>2
    <3>2. prep'[p] = prep[p] /\ store'[p] = store[p] /\ final'[p] = final[p]
      BY <1>3, <1>6, <1>7, <3>1, Zenon
    <3> QED  BY <1>7, <3>1, <3>2, Zenon DEF CloneInv, SessionsInv
  <2> QED  BY <2>1, <2>2, Zenon
<1>9. SessionsInv'
  BY <1>8, ZenonT(30) DEF SessionsInv, Swept
<1>10. ASSUME NEW x \in Sent(events'), Awaits(x)' PROVE final'[x.prep] # {}
  <2>1. x \in Sent(events) /\ x.prep \in Prep
    BY <1>1, <1>3, EvidenceType DEF Evidence
  <2>2. prep'[x.prep].stage = "clone-ready"
    BY <1>10 DEF Awaits
  <2>3. x.prep # q
    BY <1>4, <1>6, <2>2
  <2>4. Awaits(x)
    BY <1>6, <1>10, <2>1, <2>3 DEF Awaits
  <2> QED  BY <1>3, <2>1, <2>4, Zenon DEF CloneInv, LaunchInv
<1>11. LaunchInv'
  BY <1>10 DEF LaunchInv
<1>12. WorkInv'
  BY <1>3 DEF CloneInv, WorkInv
<1> QED  BY <1>9, <1>11, <1>12 DEF CloneInv

\* Every step keeps the invariant.
LEMMA CloneStep == TypeOK /\ Current /\ CloneInv /\ [Next]_vars => CloneInv'
<1> SUFFICES ASSUME TypeOK, Current, CloneInv, [Next]_vars PROVE CloneInv'
  OBVIOUS
<1>1. ASSUME NEW p \in Prep, reduceRepositoryCreate(p) PROVE CloneInv'
  <2> DEFINE r == [stage |-> "confirmed", rev |-> 1, gen |-> 1, origin |-> "none"]
  <2>1. r \in Record /\ r.rev > prep[p].rev /\ prep[p].stage # "available"
    BY <1>1 DEF reduceRepositoryCreate, Absent, Record, Stage
  <2>2. startPreparationClone(p, r) /\ up' /\ sessions' = sessions /\ final' = final
    BY <1>1 DEF reduceRepositoryCreate, up, disk
  <2> HIDE DEF r
  <2> QED  BY <2>1, <2>2, StartClone
<1>2. ASSUME NEW p \in Prep, reduceRepositoryCancelled(p) PROVE CloneInv'
  <2>1. originOf(prep[p].stage) \in Origins /\ "cancelled" \in Stage
    BY OriginType DEF Stage
  <2>2. prep[p].stage # "available" /\ up' /\ sessions' = sessions /\ events' = events /\ final' = final
    BY <1>2 DEF reduceRepositoryCancelled, IsTerminal, command, queue, disk, up
  <2>3. Sent(events') \subseteq Sent(events)
    BY <2>2
  <2> QED  BY <1>2, <2>1, <2>2, <2>3, AdvanceClone, Zenon DEF reduceRepositoryCancelled
<1>3. ASSUME NEW p \in Prep, reduceRepositoryAbandon(p) PROVE CloneInv'
  <2>1. prep[p].origin \in Origins /\ "abandoned" \in Stage
    BY EvidenceType DEF Record, Origins, Stage
  <2>2. /\ prep[p].stage # "available" /\ up' /\ sessions' = sessions /\ events' = events
        /\ final' = [final EXCEPT ![p] = {}]
    BY <1>3, Zenon DEF reduceRepositoryAbandon, CleanupNeverAvailable, command, queue, up
  <2>3. \A q \in Prep \ {p} : final'[q] = final[q]
    BY <2>2 DEF TypeOK
  <2>4. Sent(events') \subseteq Sent(events)
    BY <2>2
  <2> QED  BY <1>3, <2>1, <2>2, <2>3, <2>4, AdvanceClone, Zenon DEF reduceRepositoryAbandon
<1>4. ASSUME NEW p \in Prep, reduceRepositoryRetry(p) PROVE CloneInv'
  <2> DEFINE r == [stage |-> IF prep[p].origin = "launch" THEN "clone-ready" ELSE "confirmed",
                   rev |-> prep[p].rev + 1, gen |-> prep[p].gen + 1, origin |-> "none"]
  <2>1. r \in Record /\ r.rev > prep[p].rev
    <3>1. prep[p].rev \in Nat /\ prep[p].gen \in Nat
      BY EvidenceType DEF Record
    <3>2. r.stage \in Stage /\ r.origin \in {"none"}
      BY DEF Stage
    <3> QED  BY <3>1, <3>2 DEF Record
  <2>2. up' /\ sessions' = sessions /\ prep[p].stage # "available"
    BY <1>4, Zenon DEF reduceRepositoryRetry, command, up
  <2>3. CASE prep[p].origin = "launch"
    <3>1. /\ prep' = [prep EXCEPT ![p] = r] /\ persist(p, <<r>>)
          /\ launchPreparationSession(p, r, events)
      BY <1>4, <2>3, Zenon DEF reduceRepositoryRetry
    <3>2. events \in Seq(Event)
      BY DEF TypeOK
    <3> HIDE DEF r
    <3> QED  BY <2>1, <2>2, <3>1, <3>2, LaunchClone, Zenon
  <2>4. CASE prep[p].origin # "launch"
    <3>1. startPreparationClone(p, r) /\ final' = final
      BY <1>4, <2>4, Zenon DEF reduceRepositoryRetry, disk
    <3> HIDE DEF r
    <3> QED  BY <2>1, <2>2, <3>1, StartClone
  <2> QED  BY <2>3, <2>4
<1>5. CASE reduceRepository
  <2> DEFINE e == Head(events)
             p == e.prep
  <2>1. e \in Sent(events) /\ Sent(Tail(events)) \subseteq Sent(events) /\ Tail(events) \in Seq(Event)
    BY <1>5, SentFacts, TailTypes DEF reduceRepository
  <2>2. p \in Prep /\ up'
    BY <1>5, <2>1, EvidenceType DEF Evidence, reduceRepository, up
  <2>3. CASE reduceRepositoryCloneReady(e)
    <3> DEFINE r == advance(p, "clone-ready", "none")
    <3>0. "none" \in Origins /\ "clone-ready" \in Stage
      BY DEF Origins, Stage
    <3>1. r \in Record /\ r.rev > prep[p].rev
      <4> HIDE DEF p
      <4>1. r \in Record
        BY <2>2, <3>0, AdvanceType
      <4> QED  BY <2>2, <4>1, EvidenceType DEF advance
    <3>2. /\ prep' = [prep EXCEPT ![p] = r] /\ launchPreparationSession(p, r, Tail(events))
          /\ persist(p, <<r>>) /\ sessions' = sessions /\ prep[p].stage # "available"
      BY <2>3, Zenon DEF reduceRepositoryCloneReady
    <3> HIDE DEF r, p, e
    <3> QED  BY <2>1, <2>2, <3>1, <3>2, LaunchClone, Zenon
  <2>4. ASSUME NEW s \in Stage, NEW o \in Origins, prep[p].stage # "available",
               prep' = [prep EXCEPT ![p] = advance(p, s, o)], persist(p, <<advance(p, s, o)>>),
               events' = Tail(events), UNCHANGED <<workers, sessions, final>>
        PROVE  CloneInv'
    <3> HIDE DEF p, e
    <3> QED  BY <2>1, <2>2, <2>4, AdvanceClone, Zenon
  <2>5. CASE reduceRepositoryFailed(e)
    <3>1. originOf(prep[p].stage) \in Origins /\ "failed" \in Stage
      BY OriginType DEF Stage
    <3>2. prep[p].stage # "available"
      BY <2>5, Zenon DEF reduceRepositoryFailed, IsTerminal
    <3> QED  BY <2>4, <2>5, <3>1, <3>2, Zenon DEF reduceRepositoryFailed, control, disk
  <2>6. CASE reduceRepositoryQuarantined(e)
    <3>1. "none" \in Origins /\ "internal_corruption" \in Stage
      BY DEF Stage, Origins
    <3> QED  BY <2>4, <2>6, <3>1, Zenon DEF reduceRepositoryQuarantined, control, disk
  <2>7. CASE loadPrepFenced(e) /\ reduceRepositoryCommitAvailable(e)
    BY <1>5, <2>2, <2>7, CommitClone DEF reduceRepository
  <2>8. CASE events' = Tail(events) /\ UNCHANGED <<memory, control, disk, store, unsaved>>
    <3>1. UNCHANGED <<prep, sessions, workers, final, store, unsaved>>
      BY <2>8 DEF memory, control, disk
    <3>2. WorkInv'
      BY <3>1 DEF CloneInv, WorkInv
    <3> QED  BY <2>1, <2>2, <2>8, <3>1, <3>2, StaysPut
  <2> QED  BY <1>5, <2>3, <2>5, <2>6, <2>7, <2>8, Zenon DEF reduceRepository
<1>6. ASSUME NEW w \in workers, runClone(w) PROVE CloneInv'
  BY <1>6, RunCloneClone
<1>7. CASE Crash \/ reduceQuiescing
  <2>1. sessions' = {} /\ events' = <<>> /\ workers' = {}
    BY <1>7 DEF Crash, reduceQuiescing, processEnds
  <2>2. (sessions = {} /\ events = <<>> /\ workers = {})'
    BY <2>1
  <2> QED  BY <2>2, EmptyClone, PTL
<1>8. CASE ReconcileRepositoryPreparations
  <2>1. events' = <<>> /\ workers' = {} /\ sessions' = {}
    BY <1>8, Zenon DEF ReconcileRepositoryPreparations, Current, CloneInv, up, queue, control
  <2>2. (sessions = {} /\ events = <<>> /\ workers = {})'
    BY <2>1
  <2> QED  BY <2>2, EmptyClone, PTL
<1>9. ASSUME NEW p \in Prep, SweepNeverAvailableOrphans(p) PROVE CloneInv'
  BY <1>9, SweepClone
<1>10. CASE reduceShutdown \/ reduceShutdownSaveFailed
  <2>1. up' /\ UNCHANGED <<prep, sessions, workers, final, store, unsaved, events>>
    BY <1>10 DEF reduceShutdown, reduceShutdownSaveFailed, memory, queue, control, disk, up
  <2>2. WorkInv'
    BY <2>1 DEF CloneInv, WorkInv
  <2> QED  BY <2>1, <2>2, StaysPut, Zenon
<1>11. CASE UNCHANGED vars
  <2>1. UNCHANGED <<phase, prep, sessions, workers, final, store, unsaved, events>>
    BY <1>11, Zenon DEF vars
  <2>2. SessionsInv'
    BY <2>1, Zenon DEF CloneInv, SessionsInv
  <2>3. Sent(events') = Sent(events) /\ \A e : Awaits(e)' <=> Awaits(e)
    BY <2>1 DEF Awaits
  <2>4. LaunchInv'
    BY <2>1, <2>3 DEF CloneInv, LaunchInv
  <2>5. WorkInv'
    BY <2>1 DEF CloneInv, WorkInv
  <2> QED  BY <2>1, <2>2, <2>4, <2>5 DEF CloneInv, up
<1> QED  BY <1>1, <1>2, <1>3, <1>4, <1>5, <1>6, <1>7, <1>8, <1>9, <1>10, <1>11 DEF Next

\* FR-GH-INV-001: a session in the list is that of an available preparation and its clone
\* is on disk, unless a Save of its record failed. No cancel, abandon, retry, late event,
\* sweep or restart takes the clone away.
THEOREM SessionsHaveClones == Spec => []SessionHasClone
<1>1. Init => CloneInv
  BY EmptyClone DEF Init
<1>2. CloneInv => SessionHasClone
  BY DEF CloneInv, SessionsInv, SessionHasClone
<1> QED  BY <1>1, <1>2, TypeCorrect, CurrentHolds, CloneStep, PTL DEF Spec
=============================================================================
