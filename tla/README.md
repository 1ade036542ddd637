# agent-grid in TLA+

A TLA+ model of the stateful parts of agent-grid, checked with TLC on small
instances. The safety properties and the action properties that the passing runs check
are also proved with TLAPS, for every instance.
Paths are relative to `src/`. `PROJECT.json` is the index: it lists the components, the
runs, the source lines behind every definition, the hazards and the theorems.

## 1. The system

agent-grid runs coding agents. An orchestrator polls an issue tracker and drives
unattended agents. A host daemon keeps interactive sessions. A gateway and several
clients expose the daemon's sessions to people. Both daemons are built as a
functional core (a pure reducer) and an imperative shell (effects executed by one
event loop), with goroutines around the loop that send it events.

| Part | State | Operations that change it | Interacts with |
|---|---|---|---|
| Orchestrator scheduler (`services/orchestrator/scheduler`) | running, claimed, retry queue; worker handles, timers, two channels | tick, tracker refresh, candidates, revalidation, spawn, retry fire, worker exit, reload | tracker, runner, workspaces |
| Token accounting (`scheduler/transitions.go`, `platform/metrics`) | accumulator per issue, totals | report, release | scheduler, runner |
| Agent runner (`orchestrator/agent`, `orchestrator/workspace`) | one attempt: directory, process, turn, one-slot channels | prepare, launch, turn, timeout, kill, tear down | codex process, scheduler |
| Human input (`host/state/reduce_{approval,question}.go`, `host/runtime/subsystem/stream`) | pending entries; requests held open | ask, withdraw, respond, cancel, expire, evict, stop, process exit | app-server, clients, event loop |
| Repository preparation (`host/state/repository_reduce.go`, `host/runtime/repository_*`, `platform/lib/gitclone`) | preparation per intent, durable record, capacity, clone directories | create, clone, publish, fail, cancel, retry, abandon, reconcile, sweep | event loop, file system, terminal launch |
| Sessions and frames (`host/state/reduce_session*.go`, `reduce_frame_evict.go`, `host/runtime/interpret*.go`, `bootstrap*.go`) | sessions, frame lists, registrations, session files | create, fork, push, spawn result, stop, exit, vanish, save, shut down, cold start | stream backend, pty backend, persistence |
| Frame messaging (`host/runtime/frame_messaging_*`) | messages and summary of a session, journal, snapshot | send, reply, read, replay | agents, clients, persistence |
| Surfaces (`host/runtime/terminal_relay.go`, `platform/termvt`) | subscriptions, relay buffers, interactive lane | subscribe, rebind, forward, sever, close | terminals, clients, event loop |
| Terminal lifecycle (`host/runtime/terminal_lifecycle_*`) | revisions, outcomes, leases, timers | desire, attach, time out, expire, release | clients, relay |
| Codex connection (`platform/agent/codexclient`) | pending calls, closed flag | call, reply, close | app-server |
| Gateway, leases (`services/server/api`) | daemon connection, leases, tickets | reconnect, close, take | clients, daemon |
| Clients (`clients/*`) | socket and stores | reconnect, render | gateway |

What is hard about it: effects are executed after the state that asked for them was
published; kills are asynchronous; channels are bounded and several senders drop on
a full channel; results name an issue, a frame or a key and not the attempt that
produced them; timers fire before they are stopped; daemons crash between two durable
writes.

## 2. Modules

| Module | Models | Runs |
|---|---|---|
| `Scheduler`, `MCScheduler` | the scheduler's loop with its workers, timers and channels | `scheduler_safety`, `scheduler_live`, `scheduler_two_workers` |
| `SchedulerProofs` | theorems about `Scheduler` | |
| `TokenAccounting`, `MCTokenAccounting` | absolute token reports to published totals | `token_accounting` |
| `Runner` | the attempts of one worker, one after the other | `runner` |
| `RunnerProofs` | `Runner`: hooks are paired, the process is gone first, turns are real; `TokenAccounting`: nothing is counted twice, totals never decrease | |
| `HumanInput`, `MCHumanInput` | approvals and questions from the agent's request to its answer | `human_input` |
| `HumanInputProofs` | `HumanInput`: answers are the recorded ones, what may lose track of a held request, teardowns answer; `TerminalLifecycle`: a revision has one outcome | |
| `Preparation`, `MCPreparation` | repository preparations: reducer, clone workers, capacity, disk, restart | `preparation` |
| `PreparationProofs` | types, capacity counts the workers, evidence is current, an accepted clone is the preparation's own, sessions have clones | |
| `Sessions` | sessions and frames: reducers, spawns, shared backends, files, shutdown, cold start | `sessions` |
| `SessionLedger` | what the daemon promises of its sessions; `Sessions` implements it | `sessions` |
| `SessionsProofs` | frames belong to their session, live sessions are durable, the refinement, stopped sessions never return, frames that left hold nothing, requests are tracked | |
| `FrameMessaging` | messages of a session: broker, journal, snapshot, replay | `frame_messaging` |
| `FrameStepProofs` | the invariant of `FrameMessaging`, kept by every step of a running daemon | |
| `FrameMessagingProofs` | the restart, and the theorems: what was accepted survives, what was refused leaves nothing, order, summary and answers | |
| `TerminalRelay`, `MCTerminalRelay` | a terminal's output on its way to the clients | `terminal_relay`, `terminal_loop` |
| `TerminalRelayProofs` | no orphaned stream, output is of the head and has no gaps | |
| `TerminalLifecycle`, `MCTerminalLifecycle` | desired terminals, their attachment, outcomes and leases | `terminal_lifecycle` |

The definitions keep the names of the source. Definitions commented `Mutant` are
deliberately wrong variants of the definition below them and are used by no
specification; each shows that a property notices the corresponding mistake. A few
properties are stated and commented as not holding; section 5 says how to see it.
Every component calls its specification `Spec`, except `TokenAccounting` (`TokenSpec`) and
`TerminalLifecycle` (`LifecycleSpec`): these are extended together with `Runner` and
`HumanInput` by the module of their proofs, so their `Init`, `Next` and `vars` have names of
their own.

### Scheduler

`running`, `claimed`, `retry` are the fields of `State`; `workers`, `timers`,
`retryFire`, `workerDone` belong to the shell. `pc` is the effect the loop executes
next: between two values of `select` one event of `Run` is handled with all the
effects it leads to, and only workers and timers move in between. Each effect that
feeds an event back is one action with the reduction of that event (for example
`ExecRetryFetch` is `execRetryFetch` with `reduceRetryResolved`). The tracker may
answer anything, including an error, at every call. `Winners` states what the
allocation loop of `reduceCandidates` selects: the longest prefix in sort order that
fits the global and the per-state limits. `session` in an exit is a history
component; the code matches an exit by its issue id, and its attempt only numbers the
retry. `quiet` says of a running attempt that its last activity is older than
`stall_timeout_ms`: `StallTimeout` lets time pass, and `CodexActivity` is a report by any
worker of the issue that is left, as `updateCodexActivity` goes by the issue id too.

### Runner

`pc` walks through `spawnWith` and `runLoop`. The process, the read loop's two
one-slot channels (`sessionStarted`, `turnDone`), the kill and the removal of the
workspace are concurrent. `execKillWorker` starts a goroutine and goes on, so a kill is
`asked`, then `called` (`graceful` is set), then `cancelled`, and the removal of the
workspace of a terminal issue may come before, between or after these. The process may
report an error at any time while it is up. A crash of the orchestrator can happen at
any position; the directory survives it and everything else starts afresh. Attempts
follow one another here; that two may overlap is the subject of `scheduler_two_workers`.

### TokenAccounting

Reports carry absolute counts of a thread. The queue between the read loop and the
scheduler is explicit, so that a report of an issue's earlier thread can be applied
after its release. History variables record whether the reports were regular (not
decreasing, not applied to a later run); `NoDoubleCount` is stated for those.

### HumanInput

`request` is what the app-server knows, `held` what the backend holds open,
`entry` the reducer's record and `events` the bounded event channel between them.
A step of the event loop reduces one event and executes its effects in order; the
order of effects inside an eviction is explicit in `reapChild`. Several requests may
carry one item id, under which the backend holds and the reducer records them, and
`Enqueue` drops an event that finds the channel full. `routed` is the history of the
frame a request was sent for.

### Preparation

`prep` and `sessions` are the reducer's state, `events` the bounded channel into the
event loop, `workers` the `runClone` goroutines with `owner` and `cap` as the
controller sees them, `store` the durable records, `staging` and `final` the
directories. A client's command is reduced with its effects in one step, the nested
`clone_started` included. A worker clones, publishes, saves, sends and finishes in
separate steps, since the event loop, a sweep or a crash may come in between. It stamps
its event with the revision published when it has ended, and the send comes later.
Saves, launches, renames and the sync after the rename may fail. `Stat` and `Rename` of
`PublishClone` are one step: only the worker of a preparation makes its directory, so
nothing can come in between. A crash or a completed
shutdown loses everything but `store`, `staging` and `final`; the restart loads the
records and reconciles them with the directories.

`Commands` says which commands clients send. In the code nothing outside the tests
produces `retry`, `cancelled` and `abandon`: the reducers exist and are checked.
`unsaved` and `dropped` are history variables: they name the preparations for which a
save failed or an event was dropped, where `SessionHasClone` and `InFlightSettles`
promise less.

### Sessions

`status`, `frames`, `stopped`, `head` and `mru` are the rows of `State.Sessions`. Frame
ids are allocated upwards and appended, so a set of ids is the list and its least
element the root. `owned`, `ids`, `taps` and `pending` are the maps of the event loop,
`spawn` the goroutine of `EffSpawnFrame`, `bind` and `backend` the stream backend that
the frames of a session share, `proc` the pty process, `disk` the session files. One
action is one event of the loop: the reducer, its effects in order and the save that
`reconcilePersist` makes after it. A spawn ensures the backend and binds the frame on
its goroutine, and the backend may be removed between the two; it is handed over later,
and by then the frame may be evicted, its session stopped or the daemon
quiescing. A save writes some of the files and fails, or all. The deletion of a stopped
session's file may fail, or the daemon may die after it answered the stop and before it
deletes the file (`CrashInStop`). The shutdown goes from
`running` through `quiescing` to the final save or to `unsaved` and back; a crash is
possible at any moment. The cold start reads the files, drops what cannot be restored
and spawns the rest.

`SessionLedger` is the abstract specification: a session is opened once, written while
it is open, kept across restarts, and taken off the record by the user's stop only; a stop
that leaves the record is an action of its own.
`KeepsLedger` is `SessionLedger!Spec` under the mapping: up while the phase is not
`down`, live rows, and files that are not empty.

`gone`, `undeleted`, `owner` and `reply` are history: the sessions the user stopped while
they were live, those of them whose file was left, the session each frame was made for,
and whether the caller of a create or push is still owed an answer (`lost` where the code
forgets it, section 5). A stop of a session that had ended by itself is not in `gone`: it
deletes nothing (section 5).

### FrameMessaging

One session. A request (`send`, `reply`, a read by an agent or by a client) runs on the
event loop: the broker appends to the journal, then changes memory, then saves the
snapshot, and any of the three may be where it ends. A restart replays the journal over
the snapshot, whatever the age of the snapshot. `lines` is the state of the journal's
text: `bad` after a torn, glued or oversized line, from which on every replay fails as a
whole, and `open` when the last line lacks nothing but its newline, which a replay
accepts. The daemon may stop in the middle of any request, an append included. A client's
read is answered before it is written, and a broker's request after. The histories `sent`,
`answer`, `seen`, `cutShort` and `refused` record what callers were told; `cutShort` are
the reads whose answer was followed by a stop instead of the write.

### TerminalRelay

The output's way from a terminal to a client, with every hop bounded: the subscriber
channel in `termvt`, the relay buffer between the goroutines `fanOut` and
`relayForward`, the interactive lane of the event loop, and the client's outbox. A hop
that is full severs the subscription. The loop handles one event, and before the next
one `reconcileSurfaceRelay` points every wanted subscription at the head frame. `sub`
keeps all subscriptions ever made: the goroutines of an obsolete one go on until they
notice, and severance goes by key. `loop.send` is the close notice the event loop itself
has to send. `shown` is the history of what was written to the client, `late` that of the
keys that were subscribed after their connection was closed. Taking a subscription out of
the map, cancelling and releasing it are one step: whoever does the first does the others
next, and what the terminal prints in between is dropped by a `fanOut` that finds its
subscription gone.

### TerminalLifecycle

A client sends revisions of the terminal it wants. The actor's `latest`, `current` and
`order` are the three maps of `TerminalLifecycleActor`, with the eviction of the oldest
record beyond `RecordLimit`; `bindings` are the leases. Attaching happens on goroutines
that take `lifecycleEffectMu` in any order (`effects`, `attaching`), and results,
deadlines and expiries reach the loop in any order. A command may be repeated at any
time (`RepeatDesired`): the actor answers from its record, or `rejected` when the revision
is not the latest or its record is forgotten, and the answer is broadcast like any
outcome. `given` is the history of the terminal outcomes that were broadcast.

### How the parts fit together

The modules are composed at the places where the code is. `Sessions` holds the shared
backend that `HumanInput` sees from the agent's side; both execute an eviction's effects
in the same order. `FrameMessaging` and `Sessions` use the same save: live rows are
written, ended ones are passed over, and the file of a stopped one is deleted.
`TerminalLifecycle` acquires and releases the subscriptions that `TerminalRelay`
carries, and the close of a connection is an action of both. `Scheduler` and `Runner`
meet in the worker exit and the asynchronous kill.

## 3. Runs

Bounds are constants of the cfg files. The instances are the smallest in which the
named hazards can happen, and every action fires.

| Run | Instance | Shows |
|---|---|---|
| `scheduler_safety` | two issues in four tracker states, at most one `doing`, limits 1 and 2 by reload, valid and invalid workflows, three sessions (symmetric), a channel of two that three workers can fill | single authority, one retry request, slot limits, handles and workers of running attempts |
| `scheduler_live` | two issues, two sessions, limit 2, a channel of one that can be full, stall detection | a claimed retry is tried, a lost exit is recovered |
| `scheduler_two_workers` | as `scheduler_safety`; violation | a late exit of a killed worker ends the record of the next attempt |
| `runner` | three turns, with and without a turn timeout | one after_run per attempt, no process left, real turns, every attempt and every killed worker ends |
| `token_accounting` | two issues, small counts | regular reports are counted once, totals never decrease |
| `human_input` | a root and a child frame, two requests for one approval item, one question, a channel of two that drops events | the agent hears the first committed decision; a held request is lost track of only by a dropped event or a repeated item; every request of a served frame is answered |
| `preparation` | two preparations of one repository, every cap at one clone, a channel of two; all commands for the first up to revision 5, failing saves for the second | capacity counts the workers, evidence is of the current generation, an accepted clone is the one its attempt made and is not swept from under a session, a started clone settles |
| `sessions` | two sessions, two frames, one of them recoverable, a channel of one, one failing save or deletion, one shutdown or crash | evicted frames hold nothing, callers are answered, live sessions are durable, stopped ones stay gone unless their file was left, an exited frame is evicted, `SessionLedger` is implemented |
| `frame_messaging` | two frames, two messages, two replies, two faults of any kind | what was accepted survives, what was refused leaves nothing, order, summary and replies are right |
| `terminal_relay` | one client, two frames, every buffer of size one, two subscriptions, two chunks per frame, one move of the head, one full outbox, a connection that closes; frames symmetric | output has no gap and is of the head, no terminal prints to a lost subscriber or a closed connection |
| `terminal_loop` | the same with one chunk; violation | the event loop waits for room in its own lane |
| `terminal_lifecycle` | two clients on one connection, two sessions, one record, one owner, two revisions, repeated commands | one outcome per revision besides a last `rejected`; every revision settles and its lease ends |

A state class is merged where the code does not look further: attempts from
`MaxAttempt` on (0 in the scheduler runs, as no decision but the delay depends on the
attempt), session ids nothing refers to. Revision 5 lets a preparation be cloned,
cancelled and retried while the events of its first worker are still on their way.
Two issues suffice for the scheduler because its decisions compare an issue with the
set of the others. Two frames are a root and one sibling, which is what an eviction
distinguishes; two sessions share the most recently used order and the save. Two faults
let the journal and the snapshot fail one after the other, or one of them before a
restart. Buffers of one make every hop full after one chunk, and two subscriptions of
one key are an obsolete one and its successor. With one record and two revisions the
record of the first is forgotten while its attachment still runs. Two requests for one
item are a request and its repetition, and with a third request a channel of two is full
when the third event comes. The theorems cover any
number where there are any.

Deadlock is checked for `Scheduler`, `Runner`, `TokenAccounting` and `Preparation`. The
others may come to rest: `HumanInput` once the given requests are answered and the frames
are gone, `Sessions`, `FrameMessaging` and `TerminalLifecycle` once the ids and faults of
the bounds are used up, and `TerminalRelay` because the event loop may stop for ever, as
`terminal_loop` shows.

### Fairness

`Scheduler`: the loop executes the effect it is at (weak). `select` picks among ready
cases at random, so a case that is ready again and again is taken (strong). An armed
timer fires and a killed worker finishes its teardown (weak): both are bounded by the
operating system. Time passes for an attempt whose issue has no worker and no queued exit
left: nobody reports activity for it, so it gets older than the threshold (weak). Nothing
of the kind is assumed of an attempt whose issue still has a worker. The run has valid
workflows only; that an invalid one loses no retry is the safety property
`ClaimedRetryIsDue`. `Runner`: the attempt's own steps, the kill once it was asked for,
the death of a process whose context is cancelled and the timeout, never a turn result. `HumanInput`: the event loop reduces, and ticks
go on after every `expires_at`; no client is assumed to answer. `Preparation`: the
event loop reduces while the daemon runs, and the worker of each preparation goes on
(weak), since git ends by itself or with its context. `Sessions`: the event loop handles
what is queued and completes spawns and a shutdown that has begun (weak); the exit of a
process is reported again by every tick's reconciliation, so it gets through a channel
that has room again and again (strong). `TerminalLifecycle`: the handlers of deadlines
and expiries run (weak), since their goroutines sleep a bounded time and wait for the
lane; this takes the event loop for granted. Nothing is asked of the goroutine that
attaches: `RevisionSettles` holds with a terminal that never answers. `FrameMessaging`,
`TokenAccounting` and `TerminalRelay` claim no liveness.

## 4. Proofs

The theorems hold for every value of the constants that satisfies the assumption of the
component's module (`ConstantsAssumption`, `BoundsAssumption` or `TokenAssumption`). Each is the usual
argument: an inductive invariant that holds initially, is kept by every action, and
implies the property. What is interesting is what had to be added to the property.

**Scheduler** (`SchedulerProofs`): `TypeCorrect`, `SingleAuthorityHolds`,
`OneRetryRequestHolds`, `ClaimedRetryIsDueHolds`, `AdmissionHolds`, `HandleHolds`,
`RunningHasWorkerHolds`. Type correctness comes first. Single authority is not
inductive by itself: a retry fire may only remove an entry that is there, and a spawn
may only follow a claim, so it is proved together with facts about `pc`, `cur` and
`pending`. One retry request needs single authority, since a new timer is armed only
for an issue that leaves `running`, and such an issue has no request yet. Admission is
an action property that follows from the same invariant and cardinality facts. The
handle of a running attempt needs that handles are dropped only with the record they
belong to.

`RunningHasWorkerHolds` is an action property: the only step that leaves a running attempt
with neither a worker nor a queued exit is the end of that worker while `workerDone` is
full. `Owned` is the invariant behind it: a process or a queued exit with the session of a
running attempt is of that attempt's issue and not being killed. Without it the late exit
of another worker, or a kill meant for an earlier one, could take the only trace of a
running attempt.

**Runner** (`RunnerProofs`): `RunnerTypes`, `AfterRunIsCalledOnce`, `ProcessIsGoneFirst`,
`TurnsAreCounted`, for every `max_turns`. They share `AttemptInv`.

- `HooksInv` and `ProcInv` read the hooks that were called, the exit that was reported
  and the state of the process off the position in `spawnWith` and `runLoop`.
- `KillInv` is what pairs the script of the hook with its call: only the kill for a terminal
  issue removes the workspace of an attempt that has left `Ensure`, and an attempt is
  killed once.
- `TurnInv` is about the two one-slot channels. A token that is there belongs to a turn
  not counted yet, so a start or a result that was dropped makes `runLoop` count too few
  turns and never one too many.

**TokenAccounting** (`RunnerProofs`): `NoDoubleCountHolds` and `TotalsNeverDecreaseHolds`,
for any finite sets of issues and threads.

- The published total is a sum over the issues, and the bound a sum over the threads.
  `TokenInv` compares the two through a third: `Counted` is what the totals may hold of each
  thread, which is what the thread's issue has last seen of it, and everything the thread
  has used once its issue was released. The totals are at most the sum of `Counted`, and
  `Counted` is at most what was used.
- `Reports` adds what makes this inductive: a thread works for one issue only, and neither a
  report under way nor one that was seen exceeds what its thread has used. A report that
  comes after the release, or is lower than the last one, is where the argument ends, and
  `irregular` records just these.
- `TotalsNeverDecrease` follows from `ReleaseSum` (a release moves a summand into
  `codexTotals`) and `ObserveSum` (a report adds `clampPos`, which is not negative).
- The lemmas on sums (`SumsRemove`, `SumsMonotone`, `SumsUpdate`) say what
  `MapThenSumSet` yields when a set loses an element or one summand changes.

**HumanInput** (`HumanInputProofs`): `RecordedAnswers`, `HeldRequestsAreTracked`,
`TeardownAnswersApprovals`, for any frames, requests, items and channel capacity; several
requests may share an item.

- `RequestsInv` follows a request from the backend to the reducer: its "requested" event
  is the only one, names the frame it was routed to and is gone once there is an entry
  (`EventsInv`, `EntryInv`), and what is held is unanswered (`HeldInv`).
- A shared item makes the order of events matter. `OrderInv`: a request that is held came
  after every withdrawal of its item that the reducer has still to hear of, so a late
  withdrawal settles the entry of an older request and never that of the held one.
- `DecidedInv`: the item of a request that was answered with a decision keeps its settled
  entry while the session has frames, so no later request of the item is offered again and
  the first decision stays the only one.
- `HeldRequestsAreTracked` is an action property: the steps that lose track of a held
  request are the arrival of its event at a full channel and those that meet the entry of
  another request with its item. Section 5 says what becomes of such a request.
- `TeardownAnswersApprovals` is an action property and needs only that there is a set of
  entries for every item.

**Preparation** (`PreparationProofs`): `TypeCorrect`,
`WorkersAreCountedHolds`, `EvidenceIsCurrentHolds`, `AcceptedCloneIsOwnHolds`,
`SessionsHaveClones`.

- `WorkersAreCounted` is not inductive by itself. `finishWorker` clears the owner only
  when it has the generation of the worker, so `Counted` adds that the registered
  generation is that of the one worker there is. Capacity is given back once per worker
  because no second worker is admitted before the first one has finished.
- `EvidenceIsCurrent` is an action property. The revision alone fences the events, yet
  the claim is about generations. `Current` bridges the two: no queued or unsent event
  is ahead of its preparation, and one with the current revision that would advance the
  preparation is of its generation. A worker may stamp a late result with a newer
  revision, so the invariant also says that the worker of a clone in progress is of the
  generation in progress. That rests on `Counted`: a retry is admitted only when the
  earlier worker has gone. Every command and every reducer raises the revision and so
  outdates what was sent before.
- `AcceptedCloneIsOwn` is about the directory behind the evidence. `OwnInv`: the worker of a
  clone in progress was started with the record of that preparation; a worker that has
  published, and an event that reports a clone with the current revision, has behind it
  the directory of this generation and revision. A directory that an earlier attempt left
  makes the publication a conflict, so no worker gets past it with a foreign one. It rests
  on `Counted` and `Current`: while the clone is in progress no other worker of the
  preparation exists and no earlier event has its revision.
- `SessionHasClone` relates the reducer, the durable record and the disk. `CloneInv` adds
  that the record of a session is none the sweep takes for an orphan, that the clone of a
  launch under way is on disk, and that a worker saves nothing but a clone in progress:
  a late save may overwrite a newer record, yet not with one that is swept. It rests on
  `Counted` and `Current`.

**Sessions** (`SessionsProofs`).

- `FramesBelongHolds`: `FrameInv` says that a frame in a row or in a
  file belongs to that session and that ids not allocated yet belong to none. It is what
  makes "the session of a frame" well defined, and the later proofs rest on it.
- `LiveIsDurableHolds`: the property is kept by every step that saves; what the steps
  that do not save need is that they change neither rows nor files.
- `KeepsLedgerHolds`: the initial states map to initial states,
  and every step of `Sessions` maps to a step of `SessionLedger` or to a stutter. The
  mapping takes a session to be durable when its file is not empty, so `LedgerInv` adds
  that a live session has a frame, and that ids not allocated yet are absent everywhere,
  so that a create opens a session the ledger has never seen. A stop maps to the ledger's
  `Stop`, to `StopUndeleted` when the deletion failed, and a daemon that dies in a stop to
  `GoDownInStop`; a stop of a session that is not live maps to a write.
  `StoppedNeverReturnsHolds` is proved for the ledger and carried over.
- `ReleasedFramesHoldNothingHolds`: `ReleaseInv` adds that what
  is registered is in a session, and that what is bound is registered unless the
  goroutine that bound it has yet to hand it over. Without the second part an eviction
  would not find the binding it has to release. The teardown of a whole session needs
  `FrameInv`: the frames of one session are not those of another.
- `RequestsAreTracked`: the property is kept by itself once the types of the spawns, the
  replies and the bounded channel are known. The work is in `Enqueue`: of the failures a
  step reports, those that fit are queued behind what was there and the callers of the
  others are marked `lost`.

**FrameMessaging** (`FrameStepProofs`, `FrameMessagingProofs`): `AcceptedSurvivesHolds`, `RefusedTraceless`,
`MessagesOrdered`, `SummaryCurrent`, `AnswersFinal` and the types (`FrameTypesHold`), all from
`FrameInvariant`, for any frames, messages, replies and faults.

- `FrameInv` relates the three places a message is in. `JournalInv` is the order of the
  journal: ids ascend, and a reply or a read comes after the send it belongs to. `IdInv`:
  an id names one message and none that was refused. `AckInv`: what callers were told is in
  the journal. `MemoryInv` and `SavedInv` say of memory and of the snapshot that they are a
  `View` of the journal: in order, nothing refused, and what they miss comes after all that
  they have. This last part is what a snapshot of any age needs, since the replay appends a
  message it does not find: without it the replay could append behind a newer message.
- Memory has all of a journal whose lines are whole (`Complete`). A last line without its
  newline is ahead of memory: its request was refused and a replay will bring it in, which
  is why `refused` leaves it out. The snapshot shows what callers
  were told as long as no save failed, and memory as long as one of the two stores is intact
  (`Shows`). So a restart from an old snapshot rests on the journal, and one with a journal
  that cannot be read rests on the snapshot.
- The replay is a fold over the journal and `sanitizeFrameMessaging` one over the messages.
  `ReplayTrace` and `KeepTrace` name the list after every record; `Replayed` is the invariant
  of the replay and `Kept` that of the sanitising, each proved record by record
  (`ReplayedNew`, `ReplayedAgain`, `ReplayedReply`, `ReplayedRead`; `KeptStep`).
- Every request has its own lemma for the journal (`SentRecorded`, `ReplyRecorded`,
  `ReadRecorded`), for memory (`SendMemory`, `ReplyMemory`, `ReadMemory`) and for the save
  (`PersistSaved`), as it may end after each of them.

**TerminalRelay** (`TerminalRelayProofs`): `NoStreamIsOrphaned`, `OutputIsOfHead` and
`OutputHasNoGaps`, for any frames, keys, buffer sizes and bounds.

- `BaseInv` relates the relay's map, the terminals' subscribers and the loop. A current
  subscription is one of its key, the key is wanted, and it follows the head unless the
  loop has still to visit it before the next event (`CurrentInv`). With that a severance
  by key releases at the terminal what it takes out of the map, whoever asks for it, and
  a chunk that `broadcastSurfaceFromInternal` finds current is of the head.
- `WantedConns` adds the connections: a wanted key has one, or was subscribed after its
  close. The close of a connection takes its keys out of `wanted`, and
  `reconcileSurfaceRelay` attaches wanted keys only.
- `StreamInv` is the stream as a whole: from the chunk the client waits for to the last
  one printed, every chunk is in the lane, with `relayForward`, in the relay buffer, with
  `fanOut` or in the terminal's channel, once and in this order. Each hop moves the border
  between two of these sections, and a full hop ends the subscription. The lane is shared,
  so its section is described by what it contains of a subscription and not as a segment.

**TerminalLifecycle** (`HumanInputProofs`): `OneOutcomeHolds`. `OneOutcome` speaks
of the history and the actor decides by its records, which it forgets. `GivenInv` relates
them: an outcome that was given is of a revision that is no longer the latest, or whose
record is gone, or whose record says so. `RecordsInv` adds that a record exists exactly
for what `order` names, so that the eviction of the oldest cannot leave a record that is
completed again, and that no record says `rejected`, so that a repeated command told
`rejected` is one whose revision cannot be completed any more.

### Only model-checked

- Liveness (`ClaimedRetryIsTried`, `LostExitIsRecovered`, `KilledWorkerExits`,
  `AttemptEnds`, `RequestIsAnswered`, `InFlightSettles`, `ExitedFrameIsEvicted`,
  `RevisionSettles`) needs fairness and is out of the prover's reach.

All invariants and action properties of the passing runs are proved. Induction over data is
done on sets of numbers: `SetInduction` says that a set of natural numbers with 0 and with
the successor of each member has them all, and follows from the well-foundedness of `<`. A
fact about every number is then stated as membership in the set of the numbers it holds of.
In the same way the recursive functions behind the library's folds are shown to exist.

Types are proved for `Scheduler`, `Preparation`, `Runner` and `FrameMessaging`. The other
proofs carry the types they need in their inductive invariants.

## 5. Known divergences

Two runs show where the code does not do what a comment or document says.

- `scheduler_two_workers`: `reduceWorkerExit` matches an exit by issue id alone, and the
  late exit of a killed worker ends the record of the next attempt.
- `terminal_loop`: the event loop severs a client whose outbox is full
  (`services/host/runtime/ipc.go:322`) with a blocking send into the interactive lane,
  which only it empties. `docs/design/design-host.md:1031` says "The event loop never
  blocks".

Four more are stated in the modules as properties that do not hold. Adding the name to
the `INVARIANTS` or `PROPERTIES` of the module's cfg lets TLC show the behaviour.

- `ReduceNeverPanics` (`Preparation`): a clone worker that ends while the daemon quiesces
  sends an event that `reduceQuiescing` has no case for (`host/state/reduce.go:168`);
  `reduce.go:11` says "Reduce never panics in production".
- `ReadyCloneSurvivesRestart` (`Preparation`): after a restart between clone-ready and
  the launch the marker's revision is one behind the record's, and the good clone is
  quarantined (`repository_preparation_worker.go:237`).
- `NoOrphanProcess` (`Sessions`): a root that vanished or failed to spawn takes its
  siblings with it, without killing their processes (`reduce_frame_evict.go:85`).
- `AttachedOnce` (`TerminalLifecycle`): the goroutines of two revisions attach in the
  order in which they get the lock. A client may end attached to two sessions, or lose
  the newer one to the release of the older. FR-TERM-4 and FR-TERM-7 of
  `docs/changes/change-20260724-terminal-lifecycle-liveness/requirements.md` ask for the
  current surface alone.

Reading the code for the models showed others that no run repeats. The models behave as
the code does in each of them unless it is said otherwise.

Orchestrator:

- The backoff product overflows 64 bits from attempt 51 on, before the cap is applied
  (`scheduler/retry.go:24`, `docs/design/design-orchestrator.md:199`). Not modelled.
- `reduceSpawnFailed` queues a retry without a claim, and `reduceRetryFired` rejects it:
  the entry stays in the queue for ever and holds a slot (`reduce_retry.go:14`,
  `slots.go:10`).
- A dropped exit is logged as "scheduler slot leaked" (`runner.go:281`), and the comment says
  it "would permanently leak a scheduler slot" (`runner.go:272`). With
  `stall_timeout_ms > 0` stall detection gives the slot back (`LostExitIsRecovered`);
  with 0 nothing does but a reconciliation that finds the issue ended or inactive. Reports
  of activity are matched by issue id (`transitions.go:147`): a worker left over from an
  earlier attempt keeps a dead attempt's record fresh.
- A graceful kill between two turns is reported as a failure (`runner.go:157`, `:243`).
- A terminal issue's workspace may be removed before `after_run` runs in it, and before the
  kill has reached the process (`effects_exec.go:103-117` kills in a goroutine).
- A crash during `after_create` leaves a directory that the next attempt takes for a
  prepared workspace (`workspace/ensure.go:25`).
- Token reports that decrease, or arrive after a release, are counted again.

Human input:

- Questions of an evicted child frame are not answered (`reduce_frame_evict.go:115`);
  approvals are.
- `reduceStopSession` leaves pending requests behind until they expire.
- A request whose event is dropped on a full channel is held and never expires.
- Held approvals are keyed by item id alone. A second callback of the same item replaces
  the first, and the decision on the first prompt answers the second request. Once the
  first is settled, the second is taken for a duplicate and nothing answers it.

Repository preparation:

- A preparation that is queued for capacity stays `confirmed`: nothing dequeues it
  (`repository_preparation_worker.go:94`).
- A dropped preparation event leaves its preparation in flight until the next start.
- A publication whose parent sync fails leaves a directory that the retry meets as a
  conflict, and so does a cancel after the rename: the preparation is quarantined.
- A worker's save may overwrite the newer record of a cancel or an abandon.
- The sweep deletes the clone of a preparation that can still be retried from launch.
- The disk charge is dropped when a launch fails or the process restarts, while the
  clone stays (`repository_effects.go:126`).
- A terminal started for a preparation that is cancelled before the commit is left over.

Sessions and the event loop (`services/host`):

- A push into a session that has ended gives it frames again (`reduce_session.go:112`);
  `state/state.go:154` says "Ended sessions never regain frames".
- The record of a session is deleted by a stop that ends it. A stop of a session that
  had ended by itself does not delete it, nor does ending by itself
  (`runtime/runtime.go:787`, `runtime/interpret.go:378`).
- A stop whose deletion fails is only warned of (`runtime/runtime.go:797`), and one that the
  daemon answered but died before deleting leaves the file as well: the stopped session is
  live again after the next start.
- A failed spawn whose event is dropped on a full channel is never cleared from
  `pendingSpawns`, and its caller is not answered; nothing retries it, against
  `runtime/runtime.go:443`.
- `EffCommitShutdownSessions` sends into the event channel from the loop and may block
  it. The model does not block there.
- A spawn result that arrives while the daemon quiesces is dropped: if the shutdown's
  save then fails, the frame has neither tap nor reply.
- Frames restored by a cold start are missing in `frameSubsystemIDs`, so the shared
  backend may be reaped under a live root (`runtime/interpret_spawn.go:273`).
- A panic of the spawn goroutine after `BindFrame` leaks the binding.
- `restoreSession` keeps a `HeadFrameID` whose frame was dropped.
- A cold-start spawn that fails does not remove the session, as
  `runtime/bootstrap_coldstart.go:14` says, but the next `reconcileWindows` ends it.

Frame messaging (`services/host/runtime`):

- A client's read of a stopped session's messages creates the deleted journal anew
  (`state/reduce_messages.go:32`, `interpret.go:73`); nothing removes it.
- One torn line, or one of more than 1 MiB, makes every later replay fail as a whole.
- A client's read is answered before the snapshot and the journal are written
  (`state/reduce_messages.go:57-63`): a stop of the daemon in between loses it.
- A send or reply refused because the write failed at the newline is replayed as if it had
  been accepted (`frame_messaging_store.go:225`).
- Messages of evicted frames stay in memory until a restart.
- Callers of `List` and `Send` wait for their reply for ever when the loop has exited.

Terminals (`services/host/runtime`, requirements of
`docs/changes/change-20260711-terminal-output-backpressure` and
`change-20260724-terminal-lifecycle-liveness`):

- `SeverOwned` goes by key: a goroutine of an obsolete subscription can sever its
  successor (`terminal_relay.go:319`; FR-TERM-4). `NoOrphanStream` holds nevertheless:
  who takes it out of the map also releases it.
- The lane is shared: a burst of one subscription fills it, and the send of another is
  the one that is severed (FR-001). The close notice travels over the same lane (FR-003).
- When the terminal closes the channel, `fanOut` takes the key out at once, and chunks
  still on their way are not delivered (FR-TERM-12B). It leaves `sub.cancel` open, so an
  idle `relayForward` is never told to stop (`terminal_relay.go:405-418`).
- The close of a connection is sent without waiting and may be dropped (`ipc.go:116`). The
  model delivers it.
- A subscribe that is reduced after the close of its connection is granted
  (`state/reduce_surface.go:90-125` does not look for the connection): its terminal prints
  to a connection that is gone (`late`).
- The notice of a severance is pushed to the client with a send that may wait
  (`proto_bridge.go:53-64`). The model does not wait there.
- Subscriptions of the lifecycle are not in `SurfaceSubs`: a move of the head does not
  rebind them (against `runtime.go:687-692`) and their severance is not reported.
- An expiry, a release or the close of a connection that overtakes the attaching
  goroutine leaves a subscription without an owner (FR-TERM-8).
- An equal revision with another value is answered with the record, not refused as a
  conflict (FR-TERM-3). A repeated command of an older or forgotten revision is told
  `rejected` whatever its outcome was, and superseded revisions get no outcome.
  `requirements.md:214` names `rejected` among the outcomes that are assigned once; the
  code broadcasts it beside an earlier one.
- The reader goroutine of `termvt` may wait for ever on its chunk channel once the
  session is unusable. Not modelled.
- `EffBroadcastPromptEvent` and `EffBroadcastSurfaceOutput` are executed by the
  interpreter and produced by no reducer; they are not modelled.

## 6. What could follow

- `TerminalLifecycle` over `TerminalRelay` instead of the set of attachments that stands
  for it, once both take the same locks in the code.
- An abstract specification of the scheduler (an issue is idle, running or waiting) that
  `Scheduler` implements.

## 7. Not modelled

- Parsing, rendering, configuration, wire formats, generated schemas and wrappers of
  operating-system services have no state of their own.
- The drivers turn hooks, transcripts and terminal output into a status behind one
  interface. The models let a status change at any moment.
- The codex connection matches answers to requests over a pipe. `Runner` and `HumanInput`
  model what reaches them through it: answers lost, late or never, and the end of the
  process. The gateway keeps no session state; its connection may close at any moment in
  `TerminalRelay` and `TerminalLifecycle`, and in `HumanInput` no client need ever answer.
- The clients are other processes. They may do what the protocol allows at any moment.
- Leases and tickets of the REST interface are maps with an expiry under one lock, and a
  resume capsule is written and read by one reducer step each: there is no interleaving
  to check.
- Of modelled components: path checks of the workspace, credentials and the catalogue of
  repositories, views and notifications of sessions, bodies of messages, input and
  resizing of terminals, the warm start's reattachment, telemetry.

`PROJECT.json` gives the reason for each part.
