--------------------------- MODULE TerminalRelay ---------------------------
(* How the output of a session's terminal reaches the clients that watch it *)
(* (platform/termvt/session_actor.go, host/runtime/terminal_relay.go and    *)
(* the surface part of the event loop). A frame's terminal fans every chunk *)
(* out to its subscribers; for each subscription one goroutine moves chunks *)
(* to a relay buffer (fanOut) and one moves them to the event loop's        *)
(* interactive lane (relayForward); the loop writes them to the client's    *)
(* outbox. Every hop is bounded, and a hop that is full severs the          *)
(* subscription instead of dropping a chunk. After every event the loop     *)
(* points each subscription at the session's head frame.                    *)
(* One session is modelled; a key stands for one (connection, session,      *)
(* subscriber). Bytes are left out: a chunk is numbered by what its frame   *)
(* has printed with it, and a snapshot by what it shows. Geometry never     *)
(* changes for a key, and events of the terminal other than output are      *)
(* skipped by fanOut.                                                       *)
EXTENDS Naturals, Sequences, FiniteSets

CONSTANTS
    Frames, Keys,
    NoFrame, NoKey,     \* no frame; no key
    SubBuffer,          \* termvt subBuffer
    RelayCap,           \* severanceThreshold as the size of a relay buffer
    LaneCap,            \* lifecycleMailboxSize, the size of the interactive lane
    MaxSubs,            \* bound on subscriptions; beyond it attaching fails
    MaxChunks,          \* bound on the chunks a frame prints
    MaxMoves,           \* bound on the moves of the head
    MaxFull             \* bound on the times a client's outbox is found full

ASSUME BoundsAssumption ==
    /\ {SubBuffer, RelayCap, LaneCap} \subseteq Nat \ {0}
    /\ {MaxSubs, MaxChunks, MaxMoves, MaxFull} \subseteq Nat
    /\ NoFrame \notin Frames /\ NoKey \notin Keys

VARIABLES
    frame,      \* per frame, whether its terminal is starting, up or gone
    printed,    \* per frame, the chunks printed so far
    head,       \* the session's head frame
    moves,      \* times the head has moved
    conns,      \* Runtime.conns, as the keys whose connection is registered
    late,       \* history: the keys subscribed after the close of their connection
    wanted,     \* State.SurfaceSubs
    subs,       \* TerminalRelay.subs: per key the number of a subscription, or 0
    sub,        \* all subscriptions in the order they were acquired
    lane,       \* Runtime.internalChInteractive
    closing,    \* internalSurfaceClosed events whose senders wait for the lane
    loop,       \* what the event loop has still to do for the current event
    full,       \* times an outbox was found full
    shown       \* history: per key the last output written to the client's outbox

terminal == <<frame, printed>>
vars == <<terminal, head, moves, conns, late, wanted, subs, sub, lane, closing, loop, full, shown>>

IdleLoop == [send |-> 0, todo |-> {}, attach |-> NoKey]

----------------------------------------------------------------------------
(* The terminal of a frame *)

\* fanout sends to every subscriber of the frame; one whose buffer is full is
\* disconnected by closing its channel.
fanout(f, n) ==
    [i \in DOMAIN sub |->
        IF ~(sub[i].frame = f /\ sub[i].open) THEN sub[i]
        ELSE IF Len(sub[i].ch) < SubBuffer THEN [sub[i] EXCEPT !.ch = Append(@, n)]
        ELSE [sub[i] EXCEPT !.open = FALSE]]

\* The spawn of the frame completes.
SpawnFrame(f) ==
    /\ frame[f] = "starting"
    /\ frame' = [frame EXCEPT ![f] = "up"]
    /\ UNCHANGED <<printed, head, moves, conns, late, wanted, subs, sub, lane, closing, loop, full, shown>>

\* mainLoop takes a chunk of output. Chunks nobody is subscribed to only change
\* what the next snapshot shows and are not counted.
processChunk(f) ==
    /\ frame[f] = "up" /\ printed[f] < MaxChunks
    /\ \E i \in DOMAIN sub : sub[i].frame = f /\ sub[i].open
    /\ printed' = [printed EXCEPT ![f] = @ + 1]
    /\ sub' = fanout(f, printed'[f])
    /\ UNCHANGED <<frame, head, moves, conns, late, wanted, subs, lane, closing, loop, full, shown>>

\* The process is gone, or the terminal became unusable: every subscriber's
\* channel is closed.
handleExit(f) ==
    /\ frame[f] = "up"
    /\ frame' = [frame EXCEPT ![f] = "gone"]
    /\ sub' = [i \in DOMAIN sub |->
                  IF sub[i].frame = f THEN [sub[i] EXCEPT !.open = FALSE] ELSE sub[i]]
    /\ UNCHANGED <<printed, head, moves, conns, late, wanted, subs, lane, closing, loop, full, shown>>

----------------------------------------------------------------------------
(* Relay operations *)

isActiveSub(i) == subs[sub[i].key] = i

\* What a goroutine of a subscription that is no longer current has left: fanOut
\* ends at the next chunk or at cancel, unless it finds its channel closed first.
Stale(s) ==
    [s EXCEPT !.fanHeld = <<>>, !.ch = <<>>, !.relay = <<>>,
              !.fan = IF s.ch = <<>> /\ s.fan = "run" THEN "stale" ELSE "done"]

\* Closing cancel and releasing the lease, which closes the terminal's channel. A
\* goroutine that holds a chunk goes on with it first. Whoever takes a subscription
\* out of the map does this next, and it is one step with that: what the terminal
\* sends in between is dropped, since fanOut finds its subscription gone, and its
\* channel may be found closed before cancel in either case.
Released(ss, i) ==
    IF i = 0 THEN ss
    ELSE [ss EXCEPT ![i] = IF @.fanHeld = <<>> THEN [Stale(@) EXCEPT !.open = FALSE]
                           ELSE [@ EXCEPT !.open = FALSE]]

\* UnsubscribeOwned.
UnsubscribeOwned(k) ==
    /\ subs' = [subs EXCEPT ![k] = 0]
    /\ sub' = Released(sub, subs[k])

\* SeverOwned as called by the goroutine who of some subscription: it goes by the
\* key, and its closed event waits for room in the lane.
SeverOwned(k, ss, who) ==
    /\ subs' = [subs EXCEPT ![k] = 0]
    /\ sub' = Released(ss, subs[k])
    /\ closing' = closing \cup
           (IF subs[k] = 0 THEN {} ELSE {[id |-> subs[k], by |-> who]})

\* fanOut receives a chunk and finds its subscription current.
fanOutTake(i) ==
    /\ sub[i].fanHeld = <<>> /\ sub[i].ch # <<>>
    /\ sub' = [sub EXCEPT ![i].ch = Tail(@), ![i].fanHeld = <<Head(sub[i].ch)>>]
    /\ UNCHANGED <<terminal, head, moves, conns, late, wanted, subs, lane, closing, loop, full, shown>>

\* fanOut puts the chunk into the relay buffer; a full buffer severs by key. The
\* subscription may have ended meanwhile, and its relayForward may have made room.
fanOutPut(i) ==
    /\ sub[i].fanHeld # <<>>
    /\ \/ /\ Len(sub[i].relay) < RelayCap \/ ~isActiveSub(i)
          /\ sub' = [sub EXCEPT ![i] =
                IF isActiveSub(i) THEN [sub[i] EXCEPT !.relay = @ \o sub[i].fanHeld, !.fanHeld = <<>>]
                ELSE Stale(@)]
          /\ UNCHANGED <<subs, closing>>
       \/ /\ Len(sub[i].relay) >= RelayCap
          /\ SeverOwned(sub[i].key, [sub EXCEPT ![i] = [Stale(@) EXCEPT !.fan = "done"]],
                        <<i, "fan">>)
    /\ UNCHANGED <<terminal, head, moves, conns, late, wanted, lane, loop, full, shown>>

\* fanOut finds the channel closed. What is still in the relay buffer is not
\* forwarded any more.
fanOutClosed(i) ==
    /\ sub[i].fan # "done" /\ sub[i].fanHeld = <<>> /\ sub[i].ch = <<>> /\ ~sub[i].open
    /\ sub' = [sub EXCEPT ![i] = [Stale(@) EXCEPT !.fan = "done"]]
    /\ subs' = IF isActiveSub(i) THEN [subs EXCEPT ![sub[i].key] = 0] ELSE subs
    /\ closing' = closing \cup {[id |-> i, by |-> <<i, "fan">>]}
    /\ UNCHANGED <<terminal, head, moves, conns, late, wanted, lane, loop, full, shown>>

\* relayForward takes a chunk from the relay buffer and finds its subscription
\* current.
relayForwardTake(i) ==
    /\ isActiveSub(i) /\ sub[i].fwdHeld = <<>> /\ sub[i].relay # <<>>
    /\ sub' = [sub EXCEPT ![i].relay = Tail(@), ![i].fwdHeld = <<Head(sub[i].relay)>>]
    /\ UNCHANGED <<terminal, head, moves, conns, late, wanted, subs, lane, closing, loop, full, shown>>

\* Mutant: a chunk that finds the lane full is dropped.
relayForwardSendDrops(i) ==
    /\ sub[i].fwdHeld # <<>>
    /\ lane' = IF Len(lane) < LaneCap
               THEN Append(lane, [kind |-> "output", id |-> i, n |-> Head(sub[i].fwdHeld)])
               ELSE lane
    /\ sub' = [sub EXCEPT ![i].fwdHeld = <<>>]
    /\ UNCHANGED <<terminal, head, moves, conns, late, wanted, subs, closing, loop, full, shown>>

\* relayForward sends it to the lane. When the lane is full enqueueInternal severs
\* by key; the subscription is not current after that, so that the next round of
\* relayForward ends and its count of failures stays at one, below the threshold.
relayForwardSend(i) ==
    /\ sub[i].fwdHeld # <<>>
    /\ IF Len(lane) < LaneCap
       THEN /\ lane' = Append(lane, [kind |-> "output", id |-> i, n |-> Head(sub[i].fwdHeld)])
            /\ sub' = [sub EXCEPT ![i].fwdHeld = <<>>]
            /\ UNCHANGED <<subs, closing>>
       ELSE /\ SeverOwned(sub[i].key, [sub EXCEPT ![i].fwdHeld = <<>>], <<i, "fwd">>)
            /\ UNCHANGED lane
    /\ UNCHANGED <<terminal, head, moves, conns, late, wanted, loop, full, shown>>

\* sendInternalNow of a goroutine finds room.
sendInternalNow ==
    \E c \in closing :
        /\ Len(lane) < LaneCap
        /\ lane' = Append(lane, [kind |-> "closed", id |-> c.id, n |-> 0])
        /\ closing' = closing \ {c}
        /\ UNCHANGED <<terminal, head, moves, conns, late, wanted, subs, sub, loop, full, shown>>

----------------------------------------------------------------------------
(* The event loop *)

Idle == loop = IdleLoop

\* Mutant: any subscription is taken to follow the head frame.
followsAny(k) == subs[k] # 0

\* RebindOwned leaves a subscription alone that follows the head frame.
follows(k) == subs[k] # 0 /\ sub[subs[k]].frame = head

\* An event of the reducer: after its effects reconcileSurfaceRelay visits every
\* wanted subscription. One that follows the head frame needs no visit: if it is
\* severed in between, that could as well have happened before the event.
dispatch ==
    loop' = [send |-> 0, todo |-> {k \in wanted' : ~follows(k)'}, attach |-> NoKey]

\* The loop itself severs when it finds an outbox full; it sends the closed event
\* to its own lane and cannot go on before there is room.
SeverByLoop(k) ==
    /\ UnsubscribeOwned(k)
    /\ full < MaxFull
    /\ full' = full + 1

LoopSend ==
    /\ loop.send # 0 /\ Len(lane) < LaneCap
    /\ lane' = Append(lane, [kind |-> "closed", id |-> loop.send, n |-> 0])
    /\ loop' = [loop EXCEPT !.send = 0]
    /\ UNCHANGED <<terminal, head, moves, conns, late, wanted, subs, sub, closing, full, shown>>

\* reconcileSurfaceRelay for one subscription, up to the point where RebindOwned
\* has let go of a subscription to another frame.
reconcileSurfaceRelay(k) ==
    /\ loop.send = 0 /\ loop.attach = NoKey /\ k \in loop.todo
    /\ loop' = [loop EXCEPT !.todo = @ \ {k}, !.attach = IF head = NoFrame THEN @ ELSE k]
    /\ UnsubscribeOwned(k)
    /\ UNCHANGED <<terminal, head, moves, conns, late, wanted, lane, closing, full, shown>>

\* SubscribeOwned: the terminal registers a subscriber and sends it a snapshot.
\* Only the loop subscribes these keys, so the second look at the map finds what
\* the first one found.
SubscribeOwned ==
    LET k == loop.attach IN
    /\ loop.send = 0 /\ k # NoKey
    /\ loop' = [loop EXCEPT !.attach = NoKey]
    /\ IF frame[head] = "up" /\ Len(sub) < MaxSubs
       THEN /\ sub' = Append(sub, [key |-> k, frame |-> head, snap |-> printed[head],
                          open |-> TRUE, ch |-> <<printed[head]>>, fan |-> "run",
                          fanHeld |-> <<>>, relay |-> <<>>, fwdHeld |-> <<>>])
            /\ subs' = [subs EXCEPT ![k] = Len(sub) + 1]
       ELSE UNCHANGED <<sub, subs>>
    /\ UNCHANGED <<terminal, head, moves, conns, late, wanted, lane, closing, full, shown>>

\* internalBroadcastSurface: output of the current subscription goes to the
\* client's outbox, or severs when the outbox is full. Without a connection it goes
\* nowhere.
broadcastSurfaceFromInternal ==
    /\ Idle /\ lane # <<>> /\ Head(lane).kind = "output"
    /\ lane' = Tail(lane)
    /\ LET i == Head(lane).id
           k == sub[i].key
       IN  \/ /\ isActiveSub(i) /\ k \in conns
              /\ shown' = [shown EXCEPT ![k] = [id |-> i, n |-> Head(lane).n]]
              /\ UNCHANGED <<subs, sub, loop, full>>
           \/ /\ isActiveSub(i) /\ k \in conns
              /\ SeverByLoop(k)
              /\ loop' = [loop EXCEPT !.send = i]
              /\ UNCHANGED shown
           \/ /\ ~(isActiveSub(i) /\ k \in conns)
              /\ UNCHANGED <<subs, sub, loop, full, shown>>
    /\ UNCHANGED <<terminal, head, moves, conns, late, wanted, closing>>

\* The reducer drops a subscription and its effect stops the relay, also for
\* reduceConnClosed.
reduceSurfaceUnsubscribe(k) ==
    /\ wanted' = wanted \ {k}
    /\ IF k \in wanted THEN UnsubscribeOwned(k) ELSE UNCHANGED <<subs, sub>>

\* internalSurfaceClosed: unless another subscription has taken the key over, the
\* client is told and the key is no longer wanted. The loop waits until there is
\* room for the notice in the client's outbox; meanwhile it takes no other event,
\* as between any two of them.
shouldApplySlowClose(i) == subs[sub[i].key] \in {0, i}

surfaceClosed ==
    /\ Idle /\ lane # <<>> /\ Head(lane).kind = "closed"
    /\ lane' = Tail(lane)
    /\ LET i == Head(lane).id
           k == sub[i].key
       IN  IF shouldApplySlowClose(i)
           THEN /\ reduceSurfaceUnsubscribe(k)
                /\ UNCHANGED head
                /\ dispatch
           ELSE UNCHANGED <<wanted, subs, sub, head, loop>>
    /\ UNCHANGED <<terminal, moves, conns, late, closing, full, shown>>

\* A client's subscribe command. The effect that starts the relay asks for what
\* the reconciliation of the same event asks for. A command that waits in eventCh is
\* overtaken by the close of its connection, which comes through internalChBulk.
reduceSurfaceSubscribe(k) ==
    /\ Idle /\ k \notin wanted /\ head # NoFrame
    /\ wanted' = wanted \cup {k}
    /\ late' = IF k \in conns THEN late ELSE late \cup {k}
    /\ UNCHANGED <<terminal, head, moves, conns, subs, sub, lane, closing, full, shown>>
    /\ dispatch

\* A client's unsubscribe command.
CmdSurfaceUnsubscribe(k) ==
    /\ Idle
    /\ reduceSurfaceUnsubscribe(k)
    /\ UNCHANGED <<terminal, head, moves, conns, late, lane, closing, full, shown>>
    /\ dispatch

\* Mutant: the relay keeps the subscription of a closed connection.
handleConnCloseKeeps(k) ==
    /\ Idle /\ k \in conns
    /\ conns' = conns \ {k}
    /\ wanted' = wanted \ {k}
    /\ UNCHANGED <<terminal, head, moves, late, subs, sub, lane, closing, full, shown>>
    /\ dispatch

\* A client's connection is closed.
handleConnClose(k) ==
    /\ Idle /\ k \in conns
    /\ conns' = conns \ {k}
    /\ reduceSurfaceUnsubscribe(k)
    /\ UNCHANGED <<terminal, head, moves, late, lane, closing, full, shown>>
    /\ dispatch

\* Events that move the head: a frame is pushed, selected or evicted.
HeadMoves(f) ==
    /\ Idle /\ f # head /\ moves < MaxMoves
    /\ head' = f /\ moves' = moves + 1
    /\ UNCHANGED wanted
    /\ UNCHANGED <<terminal, conns, late, subs, sub, lane, closing, full, shown>>
    /\ dispatch

\* A tick, and every event that leaves this state alone.
Tick ==
    /\ Idle
    /\ UNCHANGED wanted
    /\ UNCHANGED <<terminal, head, moves, conns, late, subs, sub, lane, closing, full, shown>>
    /\ dispatch

----------------------------------------------------------------------------

Init ==
    /\ head \in Frames /\ moves = 0
    /\ frame = [f \in Frames |-> IF f = head THEN "up" ELSE "starting"]
    /\ printed = [f \in Frames |-> 0]
    /\ conns = Keys
    /\ late = {}
    /\ wanted = {}
    /\ subs = [k \in Keys |-> 0]
    /\ sub = <<>>
    /\ lane = <<>>
    /\ closing = {}
    /\ loop = IdleLoop
    /\ full = 0
    /\ shown = [k \in Keys |-> [id |-> 0, n |-> 0]]

Goroutine(i) ==
    \/ fanOutTake(i) \/ fanOutPut(i) \/ fanOutClosed(i)
    \/ relayForwardTake(i) \/ relayForwardSend(i)

\* The rest of the current event.
LoopStep ==
    \/ LoopSend
    \/ \E k \in Keys : reconcileSurfaceRelay(k)
    \/ SubscribeOwned

LoopReceive == broadcastSurfaceFromInternal \/ surfaceClosed

Next ==
    \/ \E f \in Frames : SpawnFrame(f) \/ processChunk(f) \/ handleExit(f)
    \/ \E i \in DOMAIN sub : Goroutine(i)
    \/ sendInternalNow
    \/ LoopStep
    \/ LoopReceive
    \/ \E k \in Keys :
          reduceSurfaceSubscribe(k) \/ CmdSurfaceUnsubscribe(k) \/ handleConnClose(k)
    \/ \E f \in Frames \cup {NoFrame} : HeadMoves(f)
    \/ Tick

Spec == Init /\ [][Next]_vars

----------------------------------------------------------------------------

\* What a client is sent of one subscription is a snapshot followed by every chunk
\* printed since, in order, and it is never sent output of an older subscription
\* again: a hop that is full ends the subscription and leaves no gap in it
\* (fanout, fanOut, enqueueInternal and queueWireLane).
GaplessOutput ==
    [][\A k \in Keys : shown'[k] # shown[k] =>
        LET was == shown[k]  is == shown'[k]
        IN  IF is.id = was.id THEN is.n = was.n + 1
            ELSE is.id > was.id /\ is.n = sub[is.id].snap]_vars

\* A client is only sent output of the frame that is the head when it is sent,
\* which is the one its input goes to, although chunks of the previous head are
\* still on their way when the head moves (RebindOwned, isCurrentOwnedSubscription).
OutputOfHead ==
    [][\A k \in Keys : shown'[k] # shown[k] => sub[shown'[k].id].frame = head]_vars

\* A terminal does not print to a subscriber that nobody wants, that the relay has
\* lost, or whose connection is closed: whoever takes a subscription out of the
\* relay's map also releases it at the terminal, whatever goroutine of an older
\* subscription it is, and reduceConnClosed leaves nothing for reconcileSurfaceRelay
\* to attach again. The exception is a subscribe command that is reduced after the
\* close of its connection: reduceSurfaceSubscribe does not look for the connection.
NoOrphanStream ==
    \A i \in DOMAIN sub : sub[i].open =>
        isActiveSub(i) /\ sub[i].key \in wanted /\ sub[i].key \in conns \cup late

\* The event loop never waits for room in the lane that only it empties, which is
\* what sendInternalNow does when the loop severs a client whose outbox is full.
EventLoopNeverBlocks == ~(loop.send # 0 /\ Len(lane) >= LaneCap)
=============================================================================
