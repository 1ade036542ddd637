----------------------------- MODULE HumanInput -----------------------------
(***************************************************************************)
(* Approvals and questions of one session, end to end: the app-server asks *)
(* over JSON-RPC, stream.Backend holds the request open and emits an event *)
(* on the runtime's bounded channel eventCh, the reducer of host/state     *)
(* records a pending ApprovalRequest or QuestionRequest, a client, the     *)
(* clock or a teardown resolves it, and the effect EffReplyHeld... makes   *)
(* the backend answer the request it holds.                                *)
(*                                                                         *)
(* The session's frames share one backend.  An item is the identifier that *)
(* approvalFromParams and questionFromParams take from a request.  A step  *)
(* of the event loop reduces one event and executes its effects in order.  *)
(* Time is abstract: a tick may find any of the pending entries past their *)
(* expires_at.  Auto-approval, which no driver requests, is left out.      *)
(***************************************************************************)
EXTENDS Naturals, Sequences

CONSTANTS
    Frame, Root,    \* frames of the session, the first one
    Request,        \* JSON-RPC requests of the app-server
    ThreadOf,       \* request -> frame of the thread it names
    Item,           \* approval and question ids
    ItemOf,         \* request -> item
    Questions,      \* items that are questions; the others are approvals
    EventCap        \* capacity of eventCh

ASSUME ConstantsAssumption ==
    /\ Root \in Frame
    /\ ThreadOf \in [Request -> Frame]
    /\ ItemOf \in [Request -> Item]
    /\ Questions \subseteq Item
    /\ EventCap \in Nat

VARIABLES
    frames,     \* frames in State.Sessions
    bound,      \* frames with a subsystem: Runtime.frameSubsystems, Backend.frames
    conn,       \* the backend's connection to the app-server is open
    request,    \* what the app-server knows of each request
    routed,     \* request -> {} or the frame it was correlated to
    held,       \* heldApprovals, heldQuestions: item -> {} or {request}
    events,     \* eventCh, the events about human input
    entry       \* PendingApprovals, PendingQuestions: item -> {} or {entry}

vars == <<frames, bound, conn, request, routed, held, events, entry>>

Decision == {"accept", "deny", "answer"}
Event == [type : {"requested", "resolved"}, req : Request, frame : Frame]
Entry == [req : Request,    \* the request whose prompt the clients were shown
          frame : Frame,
          status : {"pending", "resolved", "expired", "cancelled"},
          decision : Decision \cup {"none"}]

PendingEntries == {i \in Item : \E e \in entry[i] : e.status = "pending"}
EntriesOf(f) == {i \in PendingEntries : \E e \in entry[i] : e.frame = f}
ApprovalsOf(f) == EntriesOf(f) \ Questions
QuestionsOf(f) == EntriesOf(f) \cap Questions

Init ==
    /\ frames = Frame /\ bound = Frame /\ conn = TRUE
    /\ request = [r \in Request |-> "unsent"]
    /\ routed = [r \in Request |-> {}]
    /\ held = [i \in Item |-> {}]
    /\ events = <<>>
    /\ entry = [i \in Item |-> {}]

\* Enqueue drops the event when the channel is full
emit(type, r, f) ==
    events' = IF Len(events) < EventCap
              THEN Append(events, [type |-> type, req |-> r, frame |-> f])
              ELSE events

\* frameForRequest: the thread's frame, else the only frame there is
frameForRequest(r) ==
    {f \in bound : f = ThreadOf[r] \/ (ThreadOf[r] \notin bound /\ bound = {f})}

\* handleRequest: hold the request open, then tell the reducer
handleRequest(r) ==
    /\ conn /\ request[r] = "unsent"
    /\ \/ \E f \in frameForRequest(r) :
             /\ request' = [request EXCEPT ![r] = "open"]
             /\ routed' = [routed EXCEPT ![r] = {f}]
             /\ held' = [held EXCEPT ![ItemOf[r]] = {r}]
             /\ emit("requested", r, f)
       \/ /\ frameForRequest(r) = {}
          /\ request' = [request EXCEPT ![r] = "error"]
          /\ UNCHANGED <<routed, held, events>>
    /\ UNCHANGED <<frames, bound, conn, entry>>

\* handleServerRequestResolved: the app-server no longer waits for r
handleServerRequestResolved(r) ==
    /\ conn /\ request[r] = "open"
    /\ request' = [request EXCEPT ![r] = "withdrawn"]
    /\ held' = [i \in Item |-> held[i] \ {r}]
    /\ IF ThreadOf[r] \in bound /\ r \in held[ItemOf[r]]
       THEN emit("resolved", r, ThreadOf[r])
       ELSE UNCHANGED events
    /\ UNCHANGED <<frames, bound, conn, routed, entry>>

\* executeHeldReply for the items I, while the frames b have a subsystem
replied(I, b) == {i \in I : held[i] # {} /\ \E e \in entry[i] : e.frame \in b}

\* ReplyHeldApproval answers a, ReplyHeldQuestion answers q
replyHeld(I, a, q) ==
    /\ held' = [i \in Item |-> IF i \in I THEN {} ELSE held[i]]
    /\ request' = [r \in Request |->
                     IF conn /\ ItemOf[r] \in I /\ r \in held[ItemOf[r]]
                     THEN IF ItemOf[r] \in Questions THEN q ELSE a
                     ELSE request[r]]

\* The entries of the items I leave pending and stay as tombstones
settle(I, status, a, q) ==
    entry' = [i \in Item |->
                IF i \in I
                THEN {[e EXCEPT !.status = status,
                                !.decision = IF i \in Questions THEN q ELSE a] : e \in entry[i]}
                ELSE entry[i]]

-----------------------------------------------------------------------------
(* Steps of the event loop *)

\* maybeCreate...FromSubsystem and maybeResolveHumanInputFromSubsystem
create(e) ==
    LET i == ItemOf[e.req]
    IN  /\ e.type = "requested" /\ entry[i] = {}
        /\ entry' = [entry EXCEPT ![i] = {[req |-> e.req, frame |-> e.frame,
                                           status |-> "pending", decision |-> "none"]}]

resolve(e) ==
    /\ e.type = "resolved" /\ ItemOf[e.req] \in PendingEntries
    /\ settle({ItemOf[e.req]}, "resolved", "none", "none")

\* Neither: the frame is unknown, the request a duplicate, the entry gone or settled
ignore(e) ==
    /\ \/ e.frame \notin frames
       \/ e.type = "requested" /\ entry[ItemOf[e.req]] # {}
       \/ e.type = "resolved" /\ ItemOf[e.req] \notin PendingEntries
    /\ UNCHANGED entry

reduceSubsystem ==
    /\ events # <<>>
    /\ events' = Tail(events)
    /\ \/ Head(events).frame \in frames /\ (create(Head(events)) \/ resolve(Head(events)))
       \/ ignore(Head(events))
    /\ UNCHANGED <<frames, bound, conn, request, routed, held>>

\* Mutant: the status is not looked at, the last response wins
responseTakesLast(i, d) == entry[i] # {}

\* A response to a settled entry is refused (resolved_by_other): nothing changes
responseTakes(i, d) == i \in PendingEntries

respond(i, d) ==
    /\ responseTakes(i, d)
    /\ settle({i}, "resolved", d, d)
    /\ replyHeld(replied({i}, bound), d, d)
    /\ UNCHANGED <<frames, bound, conn, routed, events>>

reduceApprovalRespond(i) == i \notin Questions /\ \E d \in {"accept", "deny"} : respond(i, d)
reduceQuestionRespond(i) == i \in Questions /\ respond(i, "answer")

cancel(i) ==
    /\ i \in PendingEntries
    /\ settle({i}, "cancelled", "deny", "none")
    /\ replyHeld(replied({i}, bound), "error", "error")
    /\ UNCHANGED <<frames, bound, conn, routed, events>>

reduceApprovalCancel(i) == i \notin Questions /\ cancel(i)
reduceQuestionCancel(i) == i \in Questions /\ cancel(i)

\* Mutant: questions expire without an answer to the driver
expireApprovalsOnly(I) ==
    /\ I # {} /\ I \subseteq PendingEntries
    /\ settle(I, "expired", "deny", "none")
    /\ replyHeld(replied(I \ Questions, bound), "deny", "error")
    /\ UNCHANGED <<frames, bound, conn, routed, events>>

\* Mutant: questions do not expire
expireNoQuestions(I) ==
    /\ I # {} /\ I \subseteq PendingEntries \ Questions
    /\ settle(I, "expired", "deny", "none")
    /\ replyHeld(replied(I, bound), "deny", "error")
    /\ UNCHANGED <<frames, bound, conn, routed, events>>

\* expirePendingApprovals and expirePendingQuestions in reduceTick
expire(I) ==
    /\ I # {} /\ I \subseteq PendingEntries
    /\ settle(I, "expired", "deny", "none")
    /\ replyHeld(replied(I, bound), "deny", "error")
    /\ UNCHANGED <<frames, bound, conn, routed, events>>

drop(I) == entry' = [i \in Item |-> IF i \in I THEN {} ELSE entry[i]]

\* Mutant: the approvals, too, are answered after the frame was released
reapChildReleaseFirst(f) == replyHeld(replied(EntriesOf(f), bound \ {f}), "error", "error")

\* The effects of evictChildFrame in their order: approvals, EffReleaseFrame, questions
reapChild(f) ==
    replyHeld(replied(ApprovalsOf(f), bound) \cup replied(QuestionsOf(f), bound \ {f}),
              "error", "error")

evictChildFrame(f) ==
    /\ f \in frames \ {Root}
    /\ frames' = frames \ {f}
    /\ drop(EntriesOf(f))
    /\ reapChild(f)
    /\ bound' = bound \ {f}
    /\ UNCHANGED <<conn, routed, events>>

\* cancelApprovalsForSession and cancelQuestionsForSession: the tombstones go, too
cancelForSession == drop(Item) /\ replyHeld(replied(PendingEntries, bound), "error", "error")

\* evictRootFrame: the requests are cancelled before the frames are released
evictRootFrame ==
    /\ Root \in frames
    /\ frames' = {} /\ bound' = {}
    /\ cancelForSession
    /\ UNCHANGED <<conn, routed, events>>

reduceStopSession ==
    /\ frames # {}
    /\ frames' = {} /\ bound' = {}
    /\ UNCHANGED <<conn, request, routed, held, events, entry>>

\* reduceFrameCommandExited with an abnormal exit code: stopped, released, kept
frameCrashed(f) ==
    /\ f \in frames \cap bound
    /\ bound' = bound \ {f}
    /\ UNCHANGED <<frames, conn, request, routed, held, events, entry>>

-----------------------------------------------------------------------------
(* The backend goes *)

\* Stop, once the last frame was released: drainHeldForFrame
stopBackend ==
    /\ bound = {}
    /\ conn \/ \E i \in Item : held[i] # {}
    /\ conn' = FALSE
    /\ replyHeld(Item, "error", "error")
    /\ UNCHANGED <<frames, bound, routed, events, entry>>

\* waitProcess: the app-server died, and its questions with it
appServerExits ==
    /\ conn
    /\ conn' = FALSE
    /\ request' = [r \in Request |-> IF request[r] = "open" THEN "lost" ELSE request[r]]
    /\ UNCHANGED <<frames, bound, routed, held, events, entry>>

Next ==
    \/ \E r \in Request : handleRequest(r) \/ handleServerRequestResolved(r)
    \/ reduceSubsystem
    \/ \E i \in Item : reduceApprovalRespond(i) \/ reduceQuestionRespond(i)
    \/ \E i \in Item : reduceApprovalCancel(i) \/ reduceQuestionCancel(i)
    \/ \E I \in SUBSET Item : expire(I)
    \/ \E f \in Frame : evictChildFrame(f) \/ frameCrashed(f)
    \/ evictRootFrame \/ reduceStopSession
    \/ stopBackend \/ appServerExits

Spec == Init /\ [][Next]_vars

\* The event loop keeps reducing, and ticks go on after every expires_at
FairSpec == Spec /\ WF_vars(reduceSubsystem) /\ WF_vars(expire(PendingEntries))

-----------------------------------------------------------------------------

\* Values, at most one held request and entry per item, and no subsystem entry for
\* a frame that left the session: what frameTeardownEffects is for
\* (reduce_frame_evict.go:126-129).
TypeOK ==
    /\ frames \subseteq Frame /\ bound \subseteq frames
    /\ conn \in BOOLEAN
    /\ request \in [Request -> {"unsent", "open", "error", "withdrawn", "lost"} \cup Decision]
    /\ routed \in [Request -> SUBSET Frame]
    /\ held \in [Item -> SUBSET Request]
    /\ events \in Seq(Event)
    /\ entry \in [Item -> SUBSET Entry]
    /\ \A i \in Item : \A e1, e2 \in entry[i] : e1 = e2
    /\ \A i \in Item : \A r \in held[i] : held[i] = {r}

\* The app-server has sent another request with the item of r: it replaces r in
\* heldApprovals or heldQuestions, or r replaces it (holdApproval, holdQuestion).
Repeated(r) == \E s \in Request \ {r} : ItemOf[s] = ItemOf[r] /\ routed[s] # {}

\* The decision the agent hears is the one that was committed first
\* (reduceApprovalRespond, "first-writer-wins"), and one request of an item at most
\* hears it.  It was taken on the prompt of that request, unless the app-server sent
\* another request with the same item.
AnswerIsRecorded ==
    \A r \in Request : request[r] \in Decision =>
        /\ \A e \in entry[ItemOf[r]] :
              e.decision = request[r] /\ (e.req = r \/ Repeated(r))
        /\ \A s \in Request :
              ItemOf[s] = ItemOf[r] /\ request[s] \in Decision => s = r

queued(type, r) == \E n \in 1 .. Len(events) : events[n].type = type /\ events[n].req = r

\* The backend holds r for a frame it serves, but the reducer will not hear of r and
\* has nothing pending that a client or the clock could answer it with.
LostTrack(r) ==
    /\ r \in held[ItemOf[r]] /\ routed[r] \subseteq bound
    /\ ~queued("requested", r)
    /\ ItemOf[r] \notin PendingEntries

\* A held request is lost track of in two ways only: its event finds eventCh full when
\* it arrives (Enqueue), or the reducer has an entry of another request with the same
\* item (maybeCreateApprovalFromSubsystem takes r for a duplicate, or the entry goes
\* with the frame of the other).  No response, expiry, withdrawal, crash or teardown of
\* another frame leaves a request behind that nobody can answer.
HeldIsTracked ==
    [][\A r \in Request : LostTrack(r)' =>
          \/ LostTrack(r)
          \/ request[r] = "unsent" /\ Len(events) >= EventCap
          \/ \E e \in entry[ItemOf[r]] : e.req # r]_vars

\* A step that removes the pending entry i answers the request held for it, or no
\* frame is left and the backend is stopped.
reapAnswered(i) ==
    entry'[i] = {} /\ bound' # {} /\ (\E e \in entry[i] : e.frame \in bound) => held'[i] = {}

\* evictChildFrame, evictRootFrame: a teardown that removes a pending approval answers
\* the request the backend holds for it.
ReapAnswersApproval == [][\A i \in PendingEntries \ Questions : reapAnswered(i)]_vars

\* The app-server is not kept waiting for ever by a frame that is served: expiry answers
\* for the user (expirePendingApprovals, expirePendingQuestions, DefaultApprovalTTL).
\* Two kinds of request may wait for the frame to go: one the reducer has lost track of
\* (LostTrack), and one whose item another request has taken over.
RequestIsAnswered ==
    \A r \in Request :
        request[r] = "open" /\ routed[r] \subseteq bound
            ~> \/ request[r] # "open" \/ ~(routed[r] \subseteq bound)
               \/ LostTrack(r) \/ Repeated(r)
=============================================================================
