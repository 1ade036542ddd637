------------------------ MODULE TerminalRelayProofs -------------------------
(* What a client is sent of a session's terminal in TerminalRelay, for any  *)
(* frames, keys, buffer sizes and bounds: no subscription is left behind at *)
(* a terminal, output is of the head frame, and it has no gaps.             *)
EXTENDS TerminalRelay, TLAPS

\* A leaf is tried with Zenon, then with SMT, then with SMT again and more time.
USE ZenonT(5), SMT, SMTT(30)

FanStates == {"run", "stale", "done"}

Subscription ==
    [key : Keys, frame : Frames, snap : Nat, open : BOOLEAN, ch : Seq(Nat),
     fan : FanStates, fanHeld : Seq(Nat), relay : Seq(Nat), fwdHeld : Seq(Nat)]

Event == [kind : {"output", "closed"}, id : Nat, n : Nat]

LoopState == [send : Nat, todo : SUBSET Keys, attach : Keys \cup {NoKey}]

\* Types, and ids that name subscriptions.
RelayTypes ==
    /\ printed \in [Frames -> Nat]
    /\ head \in Frames \cup {NoFrame}
    /\ wanted \subseteq Keys
    /\ subs \in [Keys -> Nat]
    /\ sub \in Seq(Subscription)
    /\ lane \in Seq(Event)
    /\ loop \in LoopState
    /\ shown \in [Keys -> [id : Nat, n : Nat]]
    /\ \A p \in 1 .. Len(lane) : lane[p].id \in 1 .. Len(sub)
    /\ \A c \in closing : c.id \in 1 .. Len(sub)
    /\ loop.send \in 0 .. Len(sub)

\* A current subscription is one of its key, the key is wanted, and it follows the head
\* frame unless the loop has still to visit it; a key is attached only without one.
CurrentInv ==
    /\ \A k \in Keys : subs[k] # 0 =>
          /\ subs[k] \in 1 .. Len(sub) /\ sub[subs[k]].key = k
          /\ k \in wanted
          /\ sub[subs[k]].frame = head \/ k \in loop.todo
    /\ loop.todo \subseteq wanted
    /\ loop.attach # NoKey =>
          loop.attach \in wanted /\ subs[loop.attach] = 0 /\ head \in Frames

\* A client was last sent output of a subscription that is no younger than the current
\* one of its key.
ShownInv ==
    \A k \in Keys : shown[k].id <= Len(sub) /\ (subs[k] # 0 => shown[k].id <= subs[k])

\* The chunks of subscription i in lane q are those from n up to a, in this order.
Output(e, i) == e.kind = "output" /\ e.id = i

LaneFlow(q, i, n, a) ==
    /\ n <= a
    /\ \A p \in 1 .. Len(q) : Output(q[p], i) => n <= q[p].n /\ q[p].n < a
    /\ \A p, r \in 1 .. Len(q) : Output(q[p], i) /\ Output(q[r], i) /\ p < r => q[p].n < q[r].n
    /\ \A m \in Nat : n <= m /\ m < a => \E p \in 1 .. Len(q) : Output(q[p], i) /\ q[p].n = m

\* A sequence of numbers that counts from a up to b.
Run(q, a, b) == b = a + Len(q) /\ \A j \in 1 .. Len(q) : q[j] + 1 = a + j

\* The chunks with relayForward, in the relay buffer, with fanOut and in the channel of
\* the terminal are those from a up to z.
Held(fwd, relay, fan, ch, a, z) ==
    /\ Len(fwd) <= 1
    /\ \E b, c, d \in Nat : Run(fwd, a, b) /\ Run(relay, b, c) /\ Run(fan, c, d) /\ Run(ch, d, z)

HeldBy(s, a, z) == Held(s.fwdHeld, s.relay, s.fanHeld, s.ch, a, z)

\* The number of the chunk the client of key k waits for.
Awaited(k) == IF shown[k].id = subs[k] THEN shown[k].n + 1 ELSE sub[subs[k]].snap

\* Every chunk the client of key k has not been sent yet is on its way, once and in
\* order, up to the last one the terminal printed while the subscription was open.
Streams(k) ==
    \E a, z \in Nat :
        /\ LaneFlow(lane, subs[k], Awaited(k), a)
        /\ HeldBy(sub[subs[k]], a, z)
        /\ sub[subs[k]].open => z = printed[sub[subs[k]].frame] + 1

\* A terminal prints only to current subscriptions of wanted keys.
WantedStreams ==
    \A i \in DOMAIN sub : sub[i].open => isActiveSub(i) /\ sub[i].key \in wanted

\* A wanted key has a connection, or was subscribed after its close.
WantedConns == wanted \subseteq conns \cup late

BaseInv == RelayTypes /\ CurrentInv /\ WantedStreams /\ ShownInv

StreamInv == \A k \in Keys : subs[k] # 0 /\ k \in conns => Streams(k)

-----------------------------------------------------------------------------
(* Sequences of numbers that count up.                                      *)

\* No number, and one.
LEMMA RunShort ==
    ASSUME NEW a \in Nat
    PROVE  /\ <<>> \in Seq(Nat) /\ Run(<<>>, a, a) /\ \A b \in Nat : Run(<<>>, a, b) => b = a
           /\ <<a>> \in Seq(Nat) /\ Run(<<a>>, a, a + 1)
BY DEF Run

\* The first number is taken.
LEMMA RunTail ==
    ASSUME NEW q \in Seq(Nat), NEW a \in Nat, NEW b \in Nat, Run(q, a, b), q # <<>>
    PROVE  Head(q) = a /\ Tail(q) \in Seq(Nat) /\ Run(Tail(q), a + 1, b)
<1>1. Len(q) \in Nat /\ Len(q) >= 1 /\ Head(q) = q[1] /\ \A j \in 1 .. Len(q) : q[j] \in Nat
  OBVIOUS
<1>2. Tail(q) \in Seq(Nat) /\ Len(Tail(q)) = Len(q) - 1
  OBVIOUS
<1>3. \A j \in 1 .. Len(Tail(q)) : Tail(q)[j] = q[j + 1]
  OBVIOUS
<1>4. Head(q) = a
  BY <1>1 DEF Run
<1> QED  BY <1>1, <1>2, <1>3, <1>4, SMTT(30) DEF Run

\* The next number is added.
LEMMA RunAppend ==
    ASSUME NEW q \in Seq(Nat), NEW a \in Nat, NEW b \in Nat, Run(q, a, b)
    PROVE  Append(q, b) \in Seq(Nat) /\ Run(Append(q, b), a, b + 1)
<1> DEFINE r == Append(q, b)
<1>1. r \in Seq(Nat) /\ Len(r) = Len(q) + 1 /\ Len(q) \in Nat
  OBVIOUS
<1>2. /\ \A j \in 1 .. Len(q) : r[j] = q[j]
      /\ r[Len(q) + 1] = b
  OBVIOUS
<1> HIDE DEF r
<1>3. ASSUME NEW j \in 1 .. Len(q) + 1
      PROVE  r[j] + 1 = a + j
  <2>1. CASE j \in 1 .. Len(q)
    BY <1>2, <2>1 DEF Run
  <2>2. CASE j = Len(q) + 1
    BY <1>1, <1>2, <2>2, SMTT(30) DEF Run
  <2> QED  BY <1>1, <2>1, <2>2
<1>4. b + 1 = a + Len(r)
  BY <1>1, SMTT(30) DEF Run
<1>5. Run(r, a, b + 1)
  BY <1>1, <1>3, <1>4 DEF Run
<1> QED  BY <1>1, <1>5 DEF r

\* A sequence goes on where another one ends.
LEMMA RunConcat ==
    ASSUME NEW q \in Seq(Nat), NEW r \in Seq(Nat), NEW a \in Nat, NEW b \in Nat, NEW c \in Nat,
           Run(q, a, b), Run(r, b, c)
    PROVE  q \o r \in Seq(Nat) /\ Run(q \o r, a, c)
<1> DEFINE u == q \o r
<1>1. u \in Seq(Nat) /\ Len(u) = Len(q) + Len(r) /\ Len(q) \in Nat /\ Len(r) \in Nat
  OBVIOUS
<1>2. \A j \in 1 .. Len(q) : u[j] = q[j]
  OBVIOUS
<1>3. \A j \in 1 .. Len(u) : j > Len(q) => u[j] = r[j - Len(q)]
  OBVIOUS
<1> HIDE DEF u
<1>4. ASSUME NEW j \in 1 .. Len(u)
      PROVE  u[j] + 1 = a + j
  <2>1. CASE j <= Len(q)
    <3>1. j \in 1 .. Len(q)
      BY <1>1, <2>1
    <3> QED  BY <1>2, <3>1, Zenon DEF Run
  <2>2. CASE j > Len(q)
    <3>1. j - Len(q) \in 1 .. Len(r) /\ u[j] = r[j - Len(q)]
      BY <1>1, <1>3, <2>2
    <3>2. u[j] + 1 = b + (j - Len(q))
      BY <3>1 DEF Run
    <3>3. b = a + Len(q)
      BY DEF Run
    <3> QED  BY <1>1, <3>2, <3>3
  <2> QED  BY <1>1, <2>1, <2>2
<1>5. c = a + Len(u)
  BY <1>1, SMTT(30) DEF Run
<1>6. Run(u, a, c)
  BY <1>4, <1>5 DEF Run
<1> QED  BY <1>1, <1>6 DEF u

\* A sequence of at most one number.
LEMMA RunOne ==
    ASSUME NEW q \in Seq(Nat), NEW a \in Nat, NEW b \in Nat, Run(q, a, b), q # <<>>, Len(q) <= 1
    PROVE  Head(q) = a /\ b = a + 1
<1>1. Len(q) \in Nat /\ Len(q) >= 1
  OBVIOUS
<1>2. \A x \in Nat : x >= 1 /\ x <= 1 => x = 1
  OBVIOUS
<1>3. Len(q) = 1
  BY Zenon, <1>1, <1>2
<1>4. b = a + 1
  BY <1>3 DEF Run
<1> QED  BY <1>4, RunTail

-----------------------------------------------------------------------------
(* The lane.                                                                *)

\* The number of an event.
LEMMA EventNumber == \A e \in Event : e.id \in Nat /\ e.n \in Nat
BY DEF Event

\* An event that is no output of the subscription is added.
LEMMA LaneAppendOther ==
    ASSUME NEW q \in Seq(Event), NEW e \in Event, NEW i \in Nat, NEW n \in Nat, NEW a \in Nat,
           LaneFlow(q, i, n, a), ~Output(e, i)
    PROVE  LaneFlow(Append(q, e), i, n, a)
<1>1. Len(Append(q, e)) = Len(q) + 1 /\ Len(q) \in Nat
  OBVIOUS
<1>2. \A p \in 1 .. Len(q) + 1 : Append(q, e)[p] = IF p <= Len(q) THEN q[p] ELSE e
  OBVIOUS
<1>3. \A p \in 1 .. Len(q) + 1 : Output(Append(q, e)[p], i) => p \in 1 .. Len(q) /\ Append(q, e)[p] = q[p]
  BY <1>1, <1>2
<1>4. \A m \in Nat : n <= m /\ m < a =>
        \E p \in 1 .. Len(q) + 1 : Output(Append(q, e)[p], i) /\ Append(q, e)[p].n = m
  <2> SUFFICES ASSUME NEW m \in Nat, n <= m, m < a
               PROVE  \E p \in 1 .. Len(q) + 1 : Output(Append(q, e)[p], i) /\ Append(q, e)[p].n = m
    OBVIOUS
  <2>1. PICK p \in 1 .. Len(q) : Output(q[p], i) /\ q[p].n = m
    BY DEF LaneFlow
  <2>2. p \in 1 .. Len(q) + 1 /\ Append(q, e)[p] = q[p]
    BY <1>1, <1>2
  <2> QED  BY <2>1, <2>2
<1> QED  BY <1>1, <1>3, <1>4 DEF LaneFlow

\* The next chunk of the subscription is added.
LEMMA LaneAppendOwn ==
    ASSUME NEW q \in Seq(Event), NEW e \in Event, NEW i \in Nat, NEW n \in Nat, NEW a \in Nat,
           LaneFlow(q, i, n, a), Output(e, i), e.n = a
    PROVE  LaneFlow(Append(q, e), i, n, a + 1)
<1> DEFINE r == Append(q, e)
<1>1. Len(r) = Len(q) + 1 /\ Len(q) \in Nat
  OBVIOUS
<1>a. /\ \A p \in 1 .. Len(q) : r[p] = q[p]
      /\ r[Len(q) + 1] = e
      /\ \A p \in 1 .. Len(r) : p \in 1 .. Len(q) \/ p = Len(q) + 1
  BY <1>1
<1>b. \A p \in 1 .. Len(r) : r[p] \in Event
  BY <1>1
<1> HIDE DEF r
<1>2. /\ \A p \in 1 .. Len(q) : r[p] = q[p]
      /\ r[Len(q) + 1] = e
      /\ \A p \in 1 .. Len(r) : r[p].n \in Nat
      /\ \A p \in 1 .. Len(r) : p \in 1 .. Len(q) \/ p = Len(q) + 1
  BY <1>a, <1>b, EventNumber
<1>3. \A p \in 1 .. Len(r) : Output(r[p], i) => n <= r[p].n /\ r[p].n < a + 1
  BY <1>1, <1>2, SMTT(30) DEF LaneFlow
<1>4. ASSUME NEW p \in 1 .. Len(r), NEW t \in 1 .. Len(r), Output(r[p], i), Output(r[t], i), p < t
      PROVE  r[p].n < r[t].n
  <2>1. p \in 1 .. Len(q)
    BY <1>1, <1>4
  <2>2. CASE t \in 1 .. Len(q)
    BY <1>2, <1>4, <2>1, <2>2 DEF LaneFlow
  <2>3. CASE t = Len(q) + 1
    BY <1>2, <1>4, <2>1, <2>3 DEF LaneFlow
  <2> QED  BY <1>2, <2>2, <2>3
<1>5. ASSUME NEW m \in Nat, n <= m, m < a + 1
      PROVE  \E p \in 1 .. Len(r) : Output(r[p], i) /\ r[p].n = m
  <2>1. CASE m = a
    <3>1. Len(q) + 1 \in 1 .. Len(r) /\ Output(r[Len(q) + 1], i) /\ r[Len(q) + 1].n = m
      BY <1>1, <1>2, <2>1
    <3> QED  BY <3>1
  <2>2. CASE m < a
    <3>1. PICK p \in 1 .. Len(q) : Output(q[p], i) /\ q[p].n = m
      BY <1>5, <2>2, Zenon DEF LaneFlow
    <3>2. p \in 1 .. Len(r) /\ r[p] = q[p]
      BY <1>1, <1>2
    <3> QED  BY <3>1, <3>2
  <2> QED  BY <1>5, <2>1, <2>2
<1>6. n <= a + 1
  BY SMTT(30) DEF LaneFlow
<1>7. LaneFlow(r, i, n, a + 1)
  BY <1>3, <1>4, <1>5, <1>6 DEF LaneFlow
<1> QED  BY <1>7 DEF r

\* The first event is taken, and it is no output of the subscription.
LEMMA LaneTailOther ==
    ASSUME NEW q \in Seq(Event), NEW i \in Nat, NEW n \in Nat, NEW a \in Nat,
           LaneFlow(q, i, n, a), q # <<>>, ~Output(Head(q), i)
    PROVE  LaneFlow(Tail(q), i, n, a)
<1>1. Len(Tail(q)) = Len(q) - 1 /\ Len(q) \in Nat /\ Len(q) >= 1 /\ Head(q) = q[1]
  OBVIOUS
<1>2. \A p \in 1 .. Len(Tail(q)) : Tail(q)[p] = q[p + 1] /\ p + 1 \in 1 .. Len(q)
  OBVIOUS
<1>3. \A m \in Nat : n <= m /\ m < a => \E p \in 1 .. Len(Tail(q)) : Output(Tail(q)[p], i) /\ Tail(q)[p].n = m
  <2> SUFFICES ASSUME NEW m \in Nat, n <= m, m < a
               PROVE  \E p \in 1 .. Len(Tail(q)) : Output(Tail(q)[p], i) /\ Tail(q)[p].n = m
    OBVIOUS
  <2>1. PICK p \in 1 .. Len(q) : Output(q[p], i) /\ q[p].n = m
    BY DEF LaneFlow
  <2>2. p - 1 \in 1 .. Len(Tail(q)) /\ (p - 1) + 1 = p
    BY <1>1, <2>1
  <2> QED  BY <1>2, <2>1, <2>2
<1>4. \A p \in 1 .. Len(Tail(q)) : Output(Tail(q)[p], i) => n <= Tail(q)[p].n /\ Tail(q)[p].n < a
  BY <1>2 DEF LaneFlow
<1>5. ASSUME NEW p \in 1 .. Len(Tail(q)), NEW r \in 1 .. Len(Tail(q)),
             Output(Tail(q)[p], i), Output(Tail(q)[r], i), p < r
      PROVE  Tail(q)[p].n < Tail(q)[r].n
  <2>1. p + 1 \in 1 .. Len(q) /\ r + 1 \in 1 .. Len(q) /\ p + 1 < r + 1
    BY <1>1, <1>2, <1>5, SMTT(30)
  <2>2. Tail(q)[p] = q[p + 1] /\ Tail(q)[r] = q[r + 1]
    BY <1>2
  <2> QED  BY <1>5, <2>1, <2>2, Zenon DEF LaneFlow
<1> QED  BY <1>3, <1>4, <1>5, Zenon DEF LaneFlow

\* The first event is taken, and it is output of the subscription: the chunk awaited.
LEMMA LaneTailOwn ==
    ASSUME NEW q \in Seq(Event), NEW i \in Nat, NEW n \in Nat, NEW a \in Nat,
           LaneFlow(q, i, n, a), q # <<>>, Output(Head(q), i)
    PROVE  Head(q).n = n /\ LaneFlow(Tail(q), i, n + 1, a)
<1>1. Len(Tail(q)) = Len(q) - 1 /\ Len(q) \in Nat /\ Len(q) >= 1 /\ Head(q) = q[1]
  OBVIOUS
<1>2. \A p \in 1 .. Len(Tail(q)) : Tail(q)[p] = q[p + 1] /\ p + 1 \in 1 .. Len(q)
  OBVIOUS
<1>3. 1 \in 1 .. Len(q) /\ \A p \in 1 .. Len(q) : q[p].n \in Nat
  <2>1. \A p \in 1 .. Len(q) : q[p] \in Event
    OBVIOUS
  <2> QED  BY <1>1, <2>1, EventNumber
<1>4. n <= q[1].n /\ q[1].n < a /\ n < a
  BY <1>1, <1>3, SMTT(30) DEF LaneFlow
<1>5. q[1].n = n
  <2>1. PICK p \in 1 .. Len(q) : Output(q[p], i) /\ q[p].n = n
    BY <1>4 DEF LaneFlow
  <2>2. CASE p = 1
    BY <2>1, <2>2
  <2>3. CASE 1 < p
    BY <1>1, <1>3, <1>4, <2>1, <2>3, SMTT(30) DEF LaneFlow
  <2> QED  BY <2>2, <2>3
<1>6. \A p \in 1 .. Len(Tail(q)) : Output(Tail(q)[p], i) => n + 1 <= Tail(q)[p].n /\ Tail(q)[p].n < a
  BY <1>1, <1>2, <1>3, <1>5, SMTT(30) DEF LaneFlow
<1>7. \A m \in Nat : n + 1 <= m /\ m < a => \E p \in 1 .. Len(Tail(q)) : Output(Tail(q)[p], i) /\ Tail(q)[p].n = m
  <2> SUFFICES ASSUME NEW m \in Nat, n + 1 <= m, m < a
               PROVE  \E p \in 1 .. Len(Tail(q)) : Output(Tail(q)[p], i) /\ Tail(q)[p].n = m
    OBVIOUS
  <2>1. PICK p \in 1 .. Len(q) : Output(q[p], i) /\ q[p].n = m
    BY SMTT(30) DEF LaneFlow
  <2>2. p - 1 \in 1 .. Len(Tail(q)) /\ (p - 1) + 1 = p
    BY <1>1, <1>5, <2>1
  <2> QED  BY <1>2, <2>1, <2>2
<1>8. \A p, r \in 1 .. Len(Tail(q)) :
        Output(Tail(q)[p], i) /\ Output(Tail(q)[r], i) /\ p < r => Tail(q)[p].n < Tail(q)[r].n
  BY <1>1, <1>2, SMTT(30) DEF LaneFlow
<1> QED  BY <1>1, <1>4, <1>5, <1>6, <1>7, <1>8, SMTT(30) DEF LaneFlow

-----------------------------------------------------------------------------
(* What a subscription has on its way.                                      *)

\* The terminal prints a chunk to it.
LEMMA HeldPrinted ==
    ASSUME NEW fwd \in Seq(Nat), NEW relay \in Seq(Nat), NEW fan \in Seq(Nat), NEW ch \in Seq(Nat),
           NEW a \in Nat, NEW z \in Nat, Held(fwd, relay, fan, ch, a, z)
    PROVE  Held(fwd, relay, fan, Append(ch, z), a, z + 1)
<1>1. PICK b, c, d \in Nat : Run(fwd, a, b) /\ Run(relay, b, c) /\ Run(fan, c, d) /\ Run(ch, d, z)
  BY DEF Held
<1>2. Run(Append(ch, z), d, z + 1)
  BY <1>1, RunAppend
<1> QED  BY <1>1, <1>2 DEF Held

\* fanOut takes a chunk.
LEMMA HeldFanTaken ==
    ASSUME NEW fwd \in Seq(Nat), NEW relay \in Seq(Nat), NEW ch \in Seq(Nat),
           NEW a \in Nat, NEW z \in Nat, Held(fwd, relay, <<>>, ch, a, z), ch # <<>>
    PROVE  Held(fwd, relay, <<Head(ch)>>, Tail(ch), a, z)
<1>1. PICK b, c, d \in Nat : Run(fwd, a, b) /\ Run(relay, b, c) /\ Run(<<>>, c, d) /\ Run(ch, d, z)
  BY DEF Held
<1>2. d = c
  BY Zenon, <1>1, RunShort
<1>3. Head(ch) = c /\ Run(Tail(ch), c + 1, z)
  BY <1>1, <1>2, RunTail
<1>4. Run(<<Head(ch)>>, c, c + 1) /\ c + 1 \in Nat
  BY <1>3, RunShort, SMTT(30)
<1> QED  BY <1>1, <1>3, <1>4 DEF Held

\* fanOut puts what it holds into the relay buffer.
LEMMA HeldFanPut ==
    ASSUME NEW fwd \in Seq(Nat), NEW relay \in Seq(Nat), NEW fan \in Seq(Nat), NEW ch \in Seq(Nat),
           NEW a \in Nat, NEW z \in Nat, Held(fwd, relay, fan, ch, a, z)
    PROVE  Held(fwd, relay \o fan, <<>>, ch, a, z)
<1>1. PICK b, c, d \in Nat : Run(fwd, a, b) /\ Run(relay, b, c) /\ Run(fan, c, d) /\ Run(ch, d, z)
  BY DEF Held
<1>2. Run(relay \o fan, b, d) /\ Run(<<>>, d, d)
  BY Zenon, <1>1, RunConcat, RunShort
<1> QED  BY <1>1, <1>2 DEF Held

\* relayForward takes a chunk from the relay buffer.
LEMMA HeldForwardTaken ==
    ASSUME NEW relay \in Seq(Nat), NEW fan \in Seq(Nat), NEW ch \in Seq(Nat),
           NEW a \in Nat, NEW z \in Nat, Held(<<>>, relay, fan, ch, a, z), relay # <<>>
    PROVE  Held(<<Head(relay)>>, Tail(relay), fan, ch, a, z)
<1>1. PICK b, c, d \in Nat : Run(<<>>, a, b) /\ Run(relay, b, c) /\ Run(fan, c, d) /\ Run(ch, d, z)
  BY DEF Held
<1>2. b = a
  BY Zenon, <1>1, RunShort
<1>3. Head(relay) = a /\ Run(Tail(relay), a + 1, c)
  BY <1>1, <1>2, RunTail
<1>4. Run(<<Head(relay)>>, a, a + 1) /\ a + 1 \in Nat
  BY <1>3, RunShort, SMTT(30)
<1>5. Len(<<Head(relay)>>) <= 1
  OBVIOUS
<1> QED  BY <1>1, <1>3, <1>4, <1>5 DEF Held

\* relayForward sends it.
LEMMA HeldForwardSent ==
    ASSUME NEW fwd \in Seq(Nat), NEW relay \in Seq(Nat), NEW fan \in Seq(Nat), NEW ch \in Seq(Nat),
           NEW a \in Nat, NEW z \in Nat, Held(fwd, relay, fan, ch, a, z), fwd # <<>>
    PROVE  Head(fwd) = a /\ Held(<<>>, relay, fan, ch, a + 1, z)
<1>1. PICK b, c, d \in Nat : Run(fwd, a, b) /\ Run(relay, b, c) /\ Run(fan, c, d) /\ Run(ch, d, z)
  BY DEF Held
<1>2. Head(fwd) = a /\ b = a + 1
  BY <1>1, RunOne DEF Held
<1>3. a + 1 \in Nat /\ Len(<<>>) <= 1
  OBVIOUS
<1>4. Run(<<>>, a + 1, a + 1)
  BY Zenon, <1>3, RunShort
<1> QED  BY <1>1, <1>2, <1>3, <1>4 DEF Held

\* A new subscription has its snapshot.
LEMMA HeldSnapshot ==
    ASSUME NEW n \in Nat
    PROVE  Held(<<>>, <<>>, <<>>, <<n>>, n, n + 1)
<1>1. Run(<<>>, n, n) /\ Run(<<n>>, n, n + 1) /\ Len(<<>>) <= 1
  BY RunShort, SMTT(30)
<1> QED  BY <1>1 DEF Held

-----------------------------------------------------------------------------
(* What a step does to the subscriptions. Other than by SubscribeOwned they *)
(* only advance, are closed or stop being current.                          *)

Kept(s, t) ==
    /\ t \in Subscription
    /\ t.key = s.key /\ t.frame = s.frame /\ t.snap = s.snap
    /\ t.open => s.open

Updated(ss, tt) ==
    /\ tt \in Seq(Subscription) /\ Len(tt) = Len(ss)
    /\ \A i \in 1 .. Len(ss) : Kept(ss[i], tt[i])

OnlyAt(ss, tt, i) == \A j \in 1 .. Len(ss) : j # i => tt[j] = ss[j]

\* A subscription that stops being current is closed.
Narrowed ==
    /\ Updated(sub, sub')
    /\ subs' \in [Keys -> Nat]
    /\ \A k \in Keys : \/ subs'[k] = subs[k]
                       \/ subs'[k] = 0 /\ (subs[k] # 0 => ~sub'[subs[k]].open)

\* A subscription that stays current is not changed.
Spared == \A k \in Keys : subs'[k] # 0 => subs'[k] = subs[k] /\ sub'[subs[k]] = sub[subs[k]]

\* Keeping a subscription twice.
LEMMA KeptTwice ==
    ASSUME NEW s, NEW t, NEW u, Kept(s, t), Kept(t, u)
    PROVE  Kept(s, u)
BY Zenon DEF Kept

\* A subscription is kept as it is, and closed.
LEMMA KeptClosed ==
    ASSUME NEW s \in Subscription
    PROVE  /\ Kept(s, s)
           /\ [s EXCEPT !.open = FALSE] \in Subscription
           /\ Kept(s, [s EXCEPT !.open = FALSE])
           /\ ~[s EXCEPT !.open = FALSE].open
<1>1. Kept(s, s)
  BY DEF Kept
<1>2. [s EXCEPT !.open = FALSE] \in Subscription
  BY Zenon DEF Subscription
<1>3. [s EXCEPT !.open = FALSE].key = s.key /\ [s EXCEPT !.open = FALSE].frame = s.frame
      /\ [s EXCEPT !.open = FALSE].snap = s.snap /\ ~[s EXCEPT !.open = FALSE].open
  BY DEF Subscription
<1> QED  BY <1>1, <1>2, <1>3 DEF Kept

\* fanOut lets go of a subscription that is no longer current.
LEMMA KeptStale ==
    ASSUME NEW s \in Subscription
    PROVE  /\ Stale(s) \in Subscription /\ Kept(s, Stale(s)) /\ (Stale(s).open => s.open)
           /\ Kept(s, [Stale(s) EXCEPT !.fan = "done"]) /\ ([Stale(s) EXCEPT !.fan = "done"].open => s.open)
           /\ Kept(s, [Stale(s) EXCEPT !.open = FALSE])
           /\ ~[Stale(s) EXCEPT !.open = FALSE].open
<1>1. PICK x \in FanStates : x = IF s.ch = <<>> /\ s.fan = "run" THEN "stale" ELSE "done"
  BY DEF FanStates
<1>2. Stale(s) = [s EXCEPT !.fanHeld = <<>>, !.ch = <<>>, !.relay = <<>>, !.fan = x]
  BY <1>1 DEF Stale
<1>3. <<>> \in Seq(Nat)
  OBVIOUS
<1>4. Stale(s) \in Subscription
  BY <1>2, <1>3, Zenon DEF Subscription
<1>5. Stale(s).key = s.key /\ Stale(s).frame = s.frame /\ Stale(s).snap = s.snap /\ Stale(s).open = s.open
  BY <1>2 DEF Subscription
<1>6. Kept(s, Stale(s))
  BY <1>4, <1>5 DEF Kept
<1> DEFINE d == [Stale(s) EXCEPT !.fan = "done"]
<1>7. d \in Subscription
  BY <1>4, Zenon DEF Subscription, FanStates
<1>8. d.key = s.key /\ d.frame = s.frame /\ d.snap = s.snap /\ d.open = s.open
  BY <1>4, <1>5 DEF Subscription
<1>9. Kept(s, d)
  BY <1>7, <1>8 DEF Kept
<1>10. Kept(s, [Stale(s) EXCEPT !.open = FALSE]) /\ ~[Stale(s) EXCEPT !.open = FALSE].open
  BY <1>4, <1>6, KeptClosed, KeptTwice
<1> QED  BY <1>4, <1>5, <1>6, <1>8, <1>9, <1>10

\* One subscription changes.
LEMMA UpdatedAt ==
    ASSUME NEW ss \in Seq(Subscription), NEW i \in 1 .. Len(ss), NEW t, Kept(ss[i], t)
    PROVE  /\ Updated(ss, [ss EXCEPT ![i] = t]) /\ OnlyAt(ss, [ss EXCEPT ![i] = t], i)
           /\ [ss EXCEPT ![i] = t][i] = t
<1> DEFINE tt == [ss EXCEPT ![i] = t]
<1>1. t \in Subscription
  BY DEF Kept
<1>2. tt \in Seq(Subscription) /\ Len(tt) = Len(ss)
  BY <1>1
<1>3. tt[i] = t /\ \A j \in 1 .. Len(ss) : j # i => tt[j] = ss[j]
  OBVIOUS
<1>4. \A j \in 1 .. Len(ss) : ss[j] \in Subscription
  OBVIOUS
<1> HIDE DEF tt
<1>5. \A j \in 1 .. Len(ss) : Kept(ss[j], tt[j])
  BY Zenon, <1>3, <1>4, KeptClosed
<1>6. Updated(ss, tt) /\ OnlyAt(ss, tt, i) /\ tt[i] = t
  BY <1>2, <1>3, <1>5 DEF Updated, OnlyAt
<1> QED  BY <1>6 DEF tt

\* No subscription changes.
LEMMA UpdatedNot ==
    ASSUME NEW ss \in Seq(Subscription)
    PROVE  Updated(ss, ss)
<1>1. \A j \in 1 .. Len(ss) : ss[j] \in Subscription
  OBVIOUS
<1> QED  BY <1>1, KeptClosed, Zenon DEF Updated

\* Updating twice.
LEMMA UpdatedTwice ==
    ASSUME NEW ss, NEW tt, NEW uu, Updated(ss, tt), Updated(tt, uu)
    PROVE  Updated(ss, uu)
BY KeptTwice DEF Updated

\* A lease is released.
LEMMA ReleasedSub ==
    ASSUME NEW ss \in Seq(Subscription), NEW i \in 0 .. Len(ss)
    PROVE  /\ Updated(ss, Released(ss, i)) /\ OnlyAt(ss, Released(ss, i), i)
           /\ i # 0 => ~Released(ss, i)[i].open
<1>1. CASE i = 0
  BY <1>1, UpdatedNot DEF Released, OnlyAt
<1>2. CASE i # 0
  <2>1. i \in 1 .. Len(ss) /\ ss[i] \in Subscription
    BY <1>2
  <2>2. PICK t : /\ t = IF ss[i].fanHeld = <<>> THEN [Stale(ss[i]) EXCEPT !.open = FALSE]
                        ELSE [ss[i] EXCEPT !.open = FALSE]
    BY Zenon
  <2>3. Kept(ss[i], t) /\ ~t.open
    BY Zenon, <2>1, <2>2, KeptClosed, KeptStale
  <2>4. Released(ss, i) = [ss EXCEPT ![i] = t]
    BY <1>2, <2>2 DEF Released
  <2>5. /\ Updated(ss, [ss EXCEPT ![i] = t]) /\ OnlyAt(ss, [ss EXCEPT ![i] = t], i)
        /\ [ss EXCEPT ![i] = t][i] = t
    BY <2>1, <2>3, UpdatedAt
  <2> QED  BY <2>3, <2>4, <2>5, Zenon
<1> QED  BY <1>1, <1>2

\* The key of a subscription.
LEMMA KeyOfSub ==
    ASSUME RelayTypes, NEW i \in 1 .. Len(sub)
    PROVE  sub[i] \in Subscription /\ sub[i].key \in Keys /\ sub[i].frame \in Frames
<1>1. sub[i] \in Subscription
  BY SMTT(30) DEF RelayTypes
<1> QED  BY <1>1 DEF Subscription

\* The current subscription of a key.
LEMMA CurrentSub ==
    ASSUME RelayTypes, CurrentInv, NEW k \in Keys
    PROVE  /\ subs[k] \in 0 .. Len(sub)
           /\ subs[k] # 0 => /\ subs[k] \in 1 .. Len(sub)
                             /\ sub[subs[k]] \in Subscription /\ sub[subs[k]].key = k
<1>1. subs[k] \in Nat /\ Len(sub) \in Nat /\ \A i \in 1 .. Len(sub) : sub[i] \in Subscription
  BY SMTT(30) DEF RelayTypes
<1>2. subs[k] # 0 => subs[k] \in 1 .. Len(sub) /\ sub[subs[k]].key = k
  BY DEF CurrentInv
<1> QED  BY <1>1, <1>2

\* Subscriptions and their map stay as they are.
LEMMA UnmovedEffect ==
    ASSUME RelayTypes, UNCHANGED <<sub, subs>>
    PROVE  Narrowed /\ Spared
<1>1. sub \in Seq(Subscription) /\ subs \in [Keys -> Nat]
  BY DEF RelayTypes
<1> QED  BY <1>1, UpdatedNot DEF Narrowed, Spared

\* A subscription is taken out of the map and released, after a change to another one
\* that is not current under another key.
LEMMA RemovedEffect ==
    ASSUME RelayTypes, CurrentInv, NEW k \in Keys, NEW ss, Updated(sub, ss),
           \A j \in Keys : j # k /\ subs[j] # 0 => ss[subs[j]] = sub[subs[j]],
           subs' = [subs EXCEPT ![k] = 0], sub' = Released(ss, subs[k])
    PROVE  Narrowed /\ Spared
<1>1. ss \in Seq(Subscription) /\ Len(ss) = Len(sub) /\ subs \in [Keys -> Nat]
  BY DEF Updated, RelayTypes
<1>2. subs[k] \in 0 .. Len(ss)
  BY <1>1, CurrentSub
<1>3. Updated(ss, sub') /\ OnlyAt(ss, sub', subs[k]) /\ (subs[k] # 0 => ~sub'[subs[k]].open)
  BY <1>1, <1>2, ReleasedSub
<1>4. Updated(sub, sub')
  BY <1>3, UpdatedTwice
<1>5. subs' \in [Keys -> Nat] /\ subs'[k] = 0 /\ \A j \in Keys : j # k => subs'[j] = subs[j]
  BY <1>1
<1>6. Narrowed
  BY <1>3, <1>4, <1>5 DEF Narrowed
<1>7. ASSUME NEW j \in Keys, subs'[j] # 0
      PROVE  subs'[j] = subs[j] /\ sub'[subs[j]] = sub[subs[j]]
  <2>1. j # k /\ subs'[j] = subs[j] /\ subs[j] # 0
    BY <1>5, <1>7
  <2>2. subs[j] \in 1 .. Len(ss) /\ sub[subs[j]].key = j
    BY <1>1, <2>1, CurrentSub
  <2>3. subs[j] # subs[k]
    BY <2>1, <2>2, CurrentSub
  <2>4. sub'[subs[j]] = ss[subs[j]]
    BY <1>3, <2>2, <2>3 DEF OnlyAt
  <2> QED  BY <2>1, <2>4
<1> QED  BY <1>6, <1>7 DEF Spared

\* UnsubscribeOwned.
LEMMA UnsubscribeEffect ==
    ASSUME RelayTypes, CurrentInv, NEW k \in Keys, UnsubscribeOwned(k)
    PROVE  Narrowed /\ Spared /\ subs' = [subs EXCEPT ![k] = 0]
<1>1. Updated(sub, sub)
  BY UpdatedNot DEF RelayTypes
<1> QED  BY <1>1, RemovedEffect, Zenon DEF UnsubscribeOwned

\* A goroutine changes its own subscription only.
Advanced(i, t) == sub' = [sub EXCEPT ![i] = t] /\ Kept(sub[i], t)

\* A goroutine that advances its subscription changes no other one.
LEMMA AdvancedEffect ==
    ASSUME RelayTypes, NEW i \in 1 .. Len(sub), NEW t, Advanced(i, t)
    PROVE  /\ Updated(sub, sub') /\ OnlyAt(sub, sub', i) /\ sub'[i] = t
           /\ UNCHANGED subs => Narrowed
<1>1. sub \in Seq(Subscription) /\ subs \in [Keys -> Nat]
  BY DEF RelayTypes
<1>2. Updated(sub, sub') /\ OnlyAt(sub, sub', i) /\ sub'[i] = t
  BY <1>1, UpdatedAt, Zenon DEF Advanced
<1> QED  BY <1>1, <1>2 DEF Narrowed

\* SeverOwned.
LEMMA SeverEffect ==
    ASSUME RelayTypes, CurrentInv, NEW i \in 1 .. Len(sub), NEW t, NEW who, Kept(sub[i], t),
           SeverOwned(sub[i].key, [sub EXCEPT ![i] = t], who)
    PROVE  Narrowed /\ Spared /\ \A c \in closing' : c.id \in 1 .. Len(sub)
<1>1. sub \in Seq(Subscription) /\ sub[i] \in Subscription /\ \A c \in closing : c.id \in 1 .. Len(sub)
  BY SMTT(30) DEF RelayTypes
<1>2. PICK k \in Keys : k = sub[i].key
  BY <1>1, Zenon DEF Subscription
<1>3. PICK ss : ss = [sub EXCEPT ![i] = t]
  OBVIOUS
<1>4. Updated(sub, ss) /\ OnlyAt(sub, ss, i)
  BY Zenon, <1>1, <1>3, UpdatedAt
<1>5. \A j \in Keys : j # k /\ subs[j] # 0 => ss[subs[j]] = sub[subs[j]]
  BY <1>2, <1>4, CurrentSub DEF OnlyAt
<1>6. /\ subs' = [subs EXCEPT ![k] = 0] /\ sub' = Released(ss, subs[k])
      /\ closing' = closing \cup (IF subs[k] = 0 THEN {} ELSE {[id |-> subs[k], by |-> who]})
  BY <1>2, <1>3 DEF SeverOwned
<1>7. Narrowed /\ Spared
  BY Zenon, <1>4, <1>5, <1>6, RemovedEffect
<1>8. subs[k] # 0 => subs[k] \in 1 .. Len(sub)
  BY CurrentSub
<1>9. \A c \in closing' : c.id \in 1 .. Len(sub)
  BY <1>1, <1>6, <1>8
<1> QED  BY <1>7, <1>9

\* The goroutines of a subscription move what they hold, and leave everything else.
Moved(i, fwd, relay, fan, ch) ==
    \E t : /\ Advanced(i, t) /\ t.open = sub[i].open
          /\ t.fwdHeld = fwd /\ t.relay = relay /\ t.fanHeld = fan /\ t.ch = ch

\* The first chunk and the others.
LEMMA FirstAndRest ==
    ASSUME NEW q \in Seq(Nat), q # <<>>
    PROVE  Tail(q) \in Seq(Nat) /\ <<Head(q)>> \in Seq(Nat)
OBVIOUS

\* The fan-out takes the oldest chunk of its channel.
LEMMA FanTakeEffect ==
    ASSUME RelayTypes, NEW i \in 1 .. Len(sub), fanOutTake(i)
    PROVE  Moved(i, sub[i].fwdHeld, sub[i].relay, <<Head(sub[i].ch)>>, Tail(sub[i].ch))
<1>1. sub \in Seq(Subscription) /\ sub[i] \in Subscription
  BY SMTT(30) DEF RelayTypes
<1>2. PICK x, h : x = Tail(sub[i].ch) /\ h = <<Head(sub[i].ch)>>
  BY Zenon
<1>3. x \in Seq(Nat) /\ h \in Seq(Nat)
  <2>1. sub[i].ch \in Seq(Nat) /\ sub[i].ch # <<>>
    BY <1>1, Zenon DEF Subscription, fanOutTake
  <2> QED  BY <1>2, <2>1, FirstAndRest
<1> DEFINE t == [sub[i] EXCEPT !.ch = x, !.fanHeld = h]
<1>4. sub' = [sub EXCEPT ![i] = t]
  BY <1>1, <1>2, Zenon DEF fanOutTake
<1>5. t \in Subscription
  BY <1>1, <1>3, Zenon DEF Subscription
<1>6. /\ t.key = sub[i].key /\ t.frame = sub[i].frame /\ t.snap = sub[i].snap /\ t.open = sub[i].open
      /\ t.fwdHeld = sub[i].fwdHeld /\ t.relay = sub[i].relay /\ t.fanHeld = h /\ t.ch = x
  BY <1>1 DEF Subscription
<1> HIDE DEF t
<1>7. Advanced(i, t)
  BY <1>4, <1>5, <1>6 DEF Advanced, Kept
<1> QED  BY <1>2, <1>6, <1>7 DEF Moved

\* The forwarder takes the oldest chunk of the relay's channel.
LEMMA ForwardTakeEffect ==
    ASSUME RelayTypes, NEW i \in 1 .. Len(sub), relayForwardTake(i)
    PROVE  Moved(i, <<Head(sub[i].relay)>>, Tail(sub[i].relay), sub[i].fanHeld, sub[i].ch)
<1>1. sub \in Seq(Subscription) /\ sub[i] \in Subscription
  BY SMTT(30) DEF RelayTypes
<1>2. PICK x, h : x = Tail(sub[i].relay) /\ h = <<Head(sub[i].relay)>>
  BY Zenon
<1>3. x \in Seq(Nat) /\ h \in Seq(Nat)
  <2>1. sub[i].relay \in Seq(Nat) /\ sub[i].relay # <<>>
    BY <1>1 DEF Subscription, relayForwardTake
  <2> QED  BY <1>2, <2>1, FirstAndRest
<1> DEFINE t == [sub[i] EXCEPT !.relay = x, !.fwdHeld = h]
<1>4. sub' = [sub EXCEPT ![i] = t]
  BY <1>1, <1>2, Zenon DEF relayForwardTake
<1>5. t \in Subscription
  BY <1>1, <1>3, Zenon DEF Subscription
<1>6. /\ t.key = sub[i].key /\ t.frame = sub[i].frame /\ t.snap = sub[i].snap /\ t.open = sub[i].open
      /\ t.fwdHeld = h /\ t.relay = x /\ t.fanHeld = sub[i].fanHeld /\ t.ch = sub[i].ch
  BY <1>1 DEF Subscription
<1> HIDE DEF t
<1>7. Advanced(i, t)
  BY <1>4, <1>5, <1>6 DEF Advanced, Kept
<1> QED  BY <1>2, <1>6, <1>7 DEF Moved

\* What relayForward holds goes, to the lane or with the subscription.
LEMMA ForwardSent ==
    ASSUME RelayTypes, NEW i \in 1 .. Len(sub)
    PROVE  \E t : /\ [sub EXCEPT ![i].fwdHeld = <<>>] = [sub EXCEPT ![i] = t] /\ Kept(sub[i], t)
                 /\ t.open = sub[i].open /\ t.fwdHeld = <<>> /\ t.relay = sub[i].relay
                 /\ t.fanHeld = sub[i].fanHeld /\ t.ch = sub[i].ch
<1>1. sub \in Seq(Subscription) /\ sub[i] \in Subscription /\ <<>> \in Seq(Nat)
  BY SMTT(30) DEF RelayTypes
<1> DEFINE t == [sub[i] EXCEPT !.fwdHeld = <<>>]
<1>2. [sub EXCEPT ![i].fwdHeld = <<>>] = [sub EXCEPT ![i] = t]
  BY <1>1
<1>3. t \in Subscription
  BY <1>1, Zenon DEF Subscription
<1>4. /\ t.key = sub[i].key /\ t.frame = sub[i].frame /\ t.snap = sub[i].snap /\ t.open = sub[i].open
      /\ t.fwdHeld = <<>> /\ t.relay = sub[i].relay /\ t.fanHeld = sub[i].fanHeld /\ t.ch = sub[i].ch
  BY <1>1 DEF Subscription
<1> HIDE DEF t
<1> QED  BY <1>2, <1>3, <1>4, Zenon DEF Kept

\* relayForward sends to the lane, or the subscription of its key is severed.
LEMMA ForwardSendEffect ==
    ASSUME RelayTypes, CurrentInv, NEW i \in 1 .. Len(sub), relayForwardSend(i)
    PROVE  \/ /\ Moved(i, <<>>, sub[i].relay, sub[i].fanHeld, sub[i].ch)
              /\ lane' = Append(lane, [kind |-> "output", id |-> i, n |-> Head(sub[i].fwdHeld)])
              /\ UNCHANGED <<subs, closing>>
           \/ /\ Narrowed /\ Spared /\ UNCHANGED lane
              /\ \A c \in closing' : c.id \in 1 .. Len(sub)
<1>1. PICK t : /\ [sub EXCEPT ![i].fwdHeld = <<>>] = [sub EXCEPT ![i] = t] /\ Kept(sub[i], t)
               /\ t.open = sub[i].open /\ t.fwdHeld = <<>> /\ t.relay = sub[i].relay
               /\ t.fanHeld = sub[i].fanHeld /\ t.ch = sub[i].ch
  BY Zenon, ForwardSent
<1>2. CASE Len(lane) < LaneCap
  BY <1>1, <1>2 DEF relayForwardSend, Moved, Advanced
<1>3. CASE ~(Len(lane) < LaneCap)
  <2>1. SeverOwned(sub[i].key, [sub EXCEPT ![i] = t], <<i, "fwd">>) /\ UNCHANGED lane
    BY <1>1, <1>3 DEF relayForwardSend
  <2> QED  BY <1>1, <2>1, SeverEffect
<1> QED  BY <1>2, <1>3

\* fanOut puts what it holds into the relay buffer, or ends, or the subscription of its
\* key is severed.
LEMMA FanPutEffect ==
    ASSUME RelayTypes, CurrentInv, NEW i \in 1 .. Len(sub), fanOutPut(i)
    PROVE  \/ /\ isActiveSub(i)
              /\ Moved(i, sub[i].fwdHeld, sub[i].relay \o sub[i].fanHeld, <<>>, sub[i].ch)
              /\ UNCHANGED <<subs, closing>>
           \/ /\ Narrowed /\ Spared
              /\ \A c \in closing' : c.id \in 1 .. Len(sub)
<1>1. sub \in Seq(Subscription) /\ sub[i] \in Subscription /\ \A c \in closing : c.id \in 1 .. Len(sub)
  BY SMTT(30) DEF RelayTypes
<1>2. CASE isActiveSub(i) /\ UNCHANGED <<subs, closing>>
           /\ sub' = [sub EXCEPT ![i] = [sub[i] EXCEPT !.relay = sub[i].relay \o sub[i].fanHeld, !.fanHeld = <<>>]]
  <2>1. PICK x : x = sub[i].relay \o sub[i].fanHeld
    BY Zenon
  <2>2. x \in Seq(Nat) /\ <<>> \in Seq(Nat)
    <3>1. sub[i].relay \in Seq(Nat) /\ sub[i].fanHeld \in Seq(Nat)
      BY <1>1, Zenon DEF Subscription
    <3>2. \A u, v \in Seq(Nat) : u \o v \in Seq(Nat)
      OBVIOUS
    <3> QED  BY <2>1, <3>1, <3>2, SMTT(30)
  <2> DEFINE t == [sub[i] EXCEPT !.relay = x, !.fanHeld = <<>>]
  <2>3. sub' = [sub EXCEPT ![i] = t]
    BY <1>2, <2>1
  <2>4. t \in Subscription
    BY <1>1, <2>2, Zenon DEF Subscription
  <2>5. /\ t.key = sub[i].key /\ t.frame = sub[i].frame /\ t.snap = sub[i].snap /\ t.open = sub[i].open
        /\ t.fwdHeld = sub[i].fwdHeld /\ t.relay = x /\ t.fanHeld = <<>> /\ t.ch = sub[i].ch
    BY <1>1 DEF Subscription
  <2> HIDE DEF t
  <2>6. Advanced(i, t)
    BY <2>3, <2>4, <2>5 DEF Advanced, Kept
  <2> QED  BY <1>2, <2>1, <2>5, <2>6, Zenon DEF Moved
<1>3. CASE ~isActiveSub(i) /\ UNCHANGED <<subs, closing>> /\ sub' = [sub EXCEPT ![i] = Stale(sub[i])]
  <2>1. Advanced(i, Stale(sub[i]))
    BY <1>1, <1>3, KeptStale, Zenon DEF Advanced
  <2>2. Narrowed /\ OnlyAt(sub, sub', i)
    BY Zenon, <1>3, <2>1, AdvancedEffect
  <2>3. Spared
    BY <1>3, <2>2, CurrentSub, SMTT(30) DEF Spared, OnlyAt, isActiveSub
  <2> QED  BY <1>1, <1>3, <2>2, <2>3
<1>4. CASE SeverOwned(sub[i].key, [sub EXCEPT ![i] = [Stale(sub[i]) EXCEPT !.fan = "done"]], <<i, "fan">>)
  BY Zenon, <1>1, <1>4, KeptStale, SeverEffect
<1> DEFINE put == [sub[i] EXCEPT !.relay = sub[i].relay \o sub[i].fanHeld, !.fanHeld = <<>>]
           kept == IF isActiveSub(i) THEN put ELSE Stale(sub[i])
<1>5. \/ /\ sub' = [sub EXCEPT ![i] = kept]
         /\ UNCHANGED <<subs, closing>>
      \/ SeverOwned(sub[i].key, [sub EXCEPT ![i] = [Stale(sub[i]) EXCEPT !.fan = "done"]], <<i, "fan">>)
  BY DEF fanOutPut
<1>6. (isActiveSub(i) => kept = put) /\ (~isActiveSub(i) => kept = Stale(sub[i]))
  OBVIOUS
<1> HIDE DEF put, kept
<1>7. \/ isActiveSub(i) /\ UNCHANGED <<subs, closing>> /\ sub' = [sub EXCEPT ![i] = put]
      \/ ~isActiveSub(i) /\ UNCHANGED <<subs, closing>> /\ sub' = [sub EXCEPT ![i] = Stale(sub[i])]
      \/ SeverOwned(sub[i].key, [sub EXCEPT ![i] = [Stale(sub[i]) EXCEPT !.fan = "done"]], <<i, "fan">>)
  BY <1>5, <1>6, Zenon
<1> QED  BY <1>2, <1>3, <1>4, <1>7, Zenon DEF put

\* fanOut finds the channel closed.
LEMMA FanClosedEffect ==
    ASSUME RelayTypes, CurrentInv, NEW i \in 1 .. Len(sub), fanOutClosed(i)
    PROVE  Narrowed /\ Spared /\ \A c \in closing' : c.id \in 1 .. Len(sub)
<1>1. /\ sub \in Seq(Subscription) /\ sub[i] \in Subscription /\ subs \in [Keys -> Nat]
      /\ \A c \in closing : c.id \in 1 .. Len(sub)
  BY SMTT(30) DEF RelayTypes
<1>2. PICK t : t = [Stale(sub[i]) EXCEPT !.fan = "done"]
  BY Zenon
<1>3. Kept(sub[i], t) /\ ~t.open
  BY <1>1, <1>2, KeptStale, Zenon DEF fanOutClosed
<1>4. Advanced(i, t)
  BY <1>2, <1>3 DEF fanOutClosed, Advanced
<1>5. Updated(sub, sub') /\ OnlyAt(sub, sub', i) /\ ~sub'[i].open
  BY <1>3, <1>4, AdvancedEffect
<1>6. PICK k \in Keys : k = sub[i].key
  BY <1>1, Zenon DEF Subscription
<1>7. subs' = IF subs[k] = i THEN [subs EXCEPT ![k] = 0] ELSE subs
  BY <1>6 DEF fanOutClosed, isActiveSub
<1>8. subs' \in [Keys -> Nat] /\ (subs[k] = i => subs'[k] = 0) /\ (subs[k] # i => subs'[k] = subs[k])
      /\ \A j \in Keys : j # k => subs'[j] = subs[j]
  BY <1>1, <1>7
<1>9. Narrowed
  BY <1>5, <1>8 DEF Narrowed
<1>10. Spared
  <2> SUFFICES ASSUME NEW j \in Keys, subs'[j] # 0
               PROVE  subs'[j] = subs[j] /\ sub'[subs[j]] = sub[subs[j]]
    BY DEF Spared
  <2>1. subs'[j] = subs[j] /\ subs[j] # i
    BY <1>6, <1>8, CurrentSub
  <2> QED  BY <1>5, <2>1, CurrentSub DEF OnlyAt
<1>11. \A c \in closing' : c.id \in 1 .. Len(sub)
  BY <1>1, SMTT(30) DEF fanOutClosed
<1> QED  BY <1>9, <1>10, <1>11

\* Every subscription may change.
LEMMA UpdatedAll ==
    ASSUME NEW ss \in Seq(Subscription), NEW tt, tt = [i \in DOMAIN ss |-> tt[i]],
           \A i \in 1 .. Len(ss) : Kept(ss[i], tt[i])
    PROVE  Updated(ss, tt)
<1>1. DOMAIN ss = 1 .. Len(ss) /\ Len(ss) \in Nat
  OBVIOUS
<1>2. \A i \in 1 .. Len(ss) : tt[i] \in Subscription
  BY Zenon DEF Kept
<1>3. tt \in [1 .. Len(ss) -> Subscription]
  BY <1>1, <1>2
<1>4. tt \in Seq(Subscription) /\ Len(tt) = Len(ss)
  BY <1>1, <1>3
<1> QED  BY <1>4, Zenon DEF Updated

SameHeld(s, t) ==
    t.fwdHeld = s.fwdHeld /\ t.relay = s.relay /\ t.fanHeld = s.fanHeld /\ t.ch = s.ch

\* What a printed chunk does to one subscription.
PrintedTo(s, t, was, is) ==
    \/ t = s /\ (s.open => is = was)
    \/ SameHeld(s, t) /\ ~t.open
    \/ /\ s.open /\ is = was + 1
       /\ t.fwdHeld = s.fwdHeld /\ t.relay = s.relay /\ t.fanHeld = s.fanHeld
       /\ t.ch = Append(s.ch, was + 1)

\* A closed subscription holds what it held.
LEMMA ClosedHolds ==
    ASSUME NEW s \in Subscription
    PROVE  SameHeld(s, [s EXCEPT !.open = FALSE])
BY DEF Subscription, SameHeld

\* A chunk is added to the terminal's channel of a subscription.
LEMMA ChunkAdded ==
    ASSUME NEW s \in Subscription, NEW n \in Nat
    PROVE  LET t == [s EXCEPT !.ch = Append(s.ch, n)]
           IN  /\ Kept(s, t) /\ t.ch = Append(s.ch, n)
               /\ t.fwdHeld = s.fwdHeld /\ t.relay = s.relay /\ t.fanHeld = s.fanHeld
<1>1. PICK x : x = Append(s.ch, n)
  BY Zenon
<1>2. x \in Seq(Nat)
  BY <1>1, SMTT(30) DEF Subscription
<1> DEFINE t == [s EXCEPT !.ch = x]
<1>3. t \in Subscription
  BY <1>2, Zenon DEF Subscription
<1>4. /\ t.key = s.key /\ t.frame = s.frame /\ t.snap = s.snap /\ t.open = s.open
      /\ t.fwdHeld = s.fwdHeld /\ t.relay = s.relay /\ t.fanHeld = s.fanHeld /\ t.ch = x
  BY DEF Subscription
<1>5. Kept(s, t)
  BY <1>3, <1>4 DEF Kept
<1> QED  BY <1>1, <1>4, <1>5

\* The terminal prints.
LEMMA PrintEffect ==
    ASSUME RelayTypes, NEW f \in Frames, processChunk(f)
    PROVE  /\ Updated(sub, sub') /\ Narrowed /\ printed' \in [Frames -> Nat]
           /\ \A i \in 1 .. Len(sub) :
                 PrintedTo(sub[i], sub'[i], printed[sub[i].frame], printed'[sub[i].frame])
<1>1. /\ sub \in Seq(Subscription) /\ printed \in [Frames -> Nat] /\ subs \in [Keys -> Nat]
      /\ DOMAIN sub = 1 .. Len(sub) /\ \A i \in 1 .. Len(sub) : sub[i] \in Subscription
  BY SMTT(30) DEF RelayTypes
<1>2. /\ printed' \in [Frames -> Nat] /\ printed'[f] = printed[f] + 1
      /\ printed[f] \in Nat /\ printed'[f] \in Nat
      /\ \A g \in Frames : g # f => printed'[g] = printed[g]
  BY <1>1, SMTT(30) DEF processChunk
<1>3. sub' = [i \in DOMAIN sub |-> sub'[i]]
  BY SMTT(30) DEF processChunk, fanout
<1>4. ASSUME NEW i \in 1 .. Len(sub)
      PROVE  /\ Kept(sub[i], sub'[i])
             /\ PrintedTo(sub[i], sub'[i], printed[sub[i].frame], printed'[sub[i].frame])
  <2>1. PICK s \in Subscription : s = sub[i]
    BY <1>1
  <2>2. sub'[i] = IF ~(s.frame = f /\ s.open) THEN s
                  ELSE IF Len(s.ch) < SubBuffer THEN [s EXCEPT !.ch = Append(s.ch, printed'[f])]
                  ELSE [s EXCEPT !.open = FALSE]
    BY <1>1, <2>1 DEF processChunk, fanout
  <2>3. s.frame \in Frames
    BY DEF Subscription
  <2>4. CASE ~(s.frame = f /\ s.open)
    <3>1. sub'[i] = s /\ (s.open => printed'[s.frame] = printed[s.frame])
      BY <1>2, <2>2, <2>3, <2>4
    <3> QED  BY <2>1, <3>1, KeptClosed, Zenon DEF PrintedTo
  <2>5. CASE s.frame = f /\ s.open /\ Len(s.ch) < SubBuffer
    <3>1. sub'[i] = [s EXCEPT !.ch = Append(s.ch, printed[f] + 1)]
      BY <1>2, <2>2, <2>5
    <3>2. /\ Kept(s, sub'[i]) /\ sub'[i].ch = Append(s.ch, printed[f] + 1)
          /\ sub'[i].fwdHeld = s.fwdHeld /\ sub'[i].relay = s.relay /\ sub'[i].fanHeld = s.fanHeld
      BY <1>2, <3>1, ChunkAdded, SMTT(30)
    <3> QED  BY <1>2, <2>1, <2>5, <3>2 DEF PrintedTo
  <2>6. CASE s.frame = f /\ s.open /\ ~(Len(s.ch) < SubBuffer)
    <3>1. sub'[i] = [s EXCEPT !.open = FALSE]
      BY <2>2, <2>6
    <3> QED  BY <2>1, <3>1, KeptClosed, ClosedHolds DEF PrintedTo
  <2> QED  BY <2>4, <2>5, <2>6
<1>5. Updated(sub, sub')
  BY <1>1, <1>3, <1>4, UpdatedAll
<1> QED  BY <1>1, <1>2, <1>4, <1>5 DEF Narrowed, processChunk

\* The terminal ends.
LEMMA ExitEffect ==
    ASSUME RelayTypes, NEW f \in Frames, handleExit(f)
    PROVE  /\ Narrowed
           /\ \A i \in 1 .. Len(sub) : sub'[i] = sub[i] \/ (SameHeld(sub[i], sub'[i]) /\ ~sub'[i].open)
<1>1. /\ sub \in Seq(Subscription) /\ subs \in [Keys -> Nat]
      /\ DOMAIN sub = 1 .. Len(sub) /\ \A i \in 1 .. Len(sub) : sub[i] \in Subscription
  BY SMTT(30) DEF RelayTypes
<1>2. sub' = [i \in DOMAIN sub |-> sub'[i]]
  BY DEF handleExit
<1>3. ASSUME NEW i \in 1 .. Len(sub)
      PROVE  Kept(sub[i], sub'[i]) /\ (sub'[i] = sub[i] \/ (SameHeld(sub[i], sub'[i]) /\ ~sub'[i].open))
  <2>1. PICK s \in Subscription : s = sub[i]
    BY <1>1
  <2>2. sub'[i] = s \/ sub'[i] = [s EXCEPT !.open = FALSE]
    BY <1>1, <2>1 DEF handleExit
  <2> QED  BY Zenon, <2>1, <2>2, KeptClosed, ClosedHolds
<1>4. Updated(sub, sub')
  BY <1>1, <1>2, <1>3, UpdatedAll
<1> QED  BY <1>1, <1>3, <1>4 DEF Narrowed, handleExit

-----------------------------------------------------------------------------
(* The subscriptions, their map and the event loop.                         *)

\* What a step that only narrows leaves of the current subscriptions.
LEMMA NarrowedCurrent ==
    ASSUME RelayTypes, CurrentInv, Narrowed
    PROVE  /\ sub' \in Seq(Subscription) /\ Len(sub') = Len(sub) /\ subs' \in [Keys -> Nat]
           /\ \A i \in 1 .. Len(sub) : Kept(sub[i], sub'[i])
           /\ \A k \in Keys : subs'[k] # 0 =>
                 /\ subs'[k] = subs[k] /\ subs'[k] \in 1 .. Len(sub')
                 /\ sub'[subs'[k]].key = k /\ sub'[subs'[k]].frame = sub[subs[k]].frame
                 /\ sub'[subs'[k]].snap = sub[subs[k]].snap /\ k \in wanted
<1>1. /\ sub' \in Seq(Subscription) /\ Len(sub') = Len(sub) /\ subs' \in [Keys -> Nat]
      /\ \A i \in 1 .. Len(sub) : Kept(sub[i], sub'[i])
  BY DEF Narrowed, Updated
<1>2. \A k \in Keys : subs'[k] # 0 => subs'[k] = subs[k]
  BY DEF Narrowed
<1>3. \A k \in Keys : subs[k] # 0 => subs[k] \in 1 .. Len(sub) /\ sub[subs[k]].key = k /\ k \in wanted
  BY DEF CurrentInv
<1> QED  BY <1>1, <1>2, <1>3, SMTT(30) DEF Kept

\* The loop's visits are what they were.
LEMMA SameVisits ==
    ASSUME RelayTypes, CurrentInv, Narrowed, UNCHANGED <<wanted, head>>,
           loop'.todo = loop.todo, loop'.attach = loop.attach
    PROVE  CurrentInv'
<1>1. \A k \in Keys : subs'[k] # 0 =>
          /\ subs'[k] \in 1 .. Len(sub') /\ sub'[subs'[k]].key = k
          /\ k \in wanted'
          /\ sub'[subs'[k]].frame = head' \/ k \in loop'.todo
  BY NarrowedCurrent DEF CurrentInv
<1>2. loop'.todo \subseteq wanted'
  BY DEF CurrentInv
<1>3. loop'.attach # NoKey => loop'.attach \in wanted' /\ subs'[loop'.attach] = 0 /\ head' \in Frames
  BY DEF CurrentInv, RelayTypes, Narrowed
<1> QED  BY <1>1, <1>2, <1>3 DEF CurrentInv

\* An event makes the loop visit every subscription that does not follow the head.
LEMMA NewVisits ==
    ASSUME RelayTypes, CurrentInv, Narrowed, wanted' \subseteq Keys, dispatch,
           \A k \in Keys : subs'[k] # 0 => k \in wanted'
    PROVE  CurrentInv' /\ loop' \in LoopState /\ loop'.send = 0
<1>1. PICK todo : todo = {k \in wanted' : ~(subs'[k] # 0 /\ sub'[subs'[k]].frame = head')}
  BY Zenon
<1>2. loop' = [send |-> 0, todo |-> todo, attach |-> NoKey]
  BY <1>1 DEF dispatch, follows
<1>3. loop'.todo = todo /\ loop'.attach = NoKey /\ loop'.send = 0
  BY <1>2
<1>4. todo \subseteq wanted' /\ todo \in SUBSET Keys
  BY <1>1
<1>5. loop' \in LoopState
  BY <1>2, <1>4 DEF LoopState
<1>6. \A k \in Keys : subs'[k] # 0 =>
          /\ subs'[k] \in 1 .. Len(sub') /\ sub'[subs'[k]].key = k
          /\ k \in wanted'
          /\ sub'[subs'[k]].frame = head' \/ k \in todo
  BY <1>1, NarrowedCurrent
<1> QED  BY <1>3, <1>4, <1>5, <1>6 DEF CurrentInv

\* Closed subscriptions are not current any more.
LEMMA NarrowedBase ==
    ASSUME BaseInv, Narrowed, RelayTypes', CurrentInv',
           \A k \in Keys : shown'[k].id <= Len(sub) /\ (subs'[k] # 0 => shown'[k].id <= subs'[k])
    PROVE  BaseInv'
<1>1. ASSUME NEW i \in 1 .. Len(sub'), sub'[i].open
      PROVE  subs'[sub'[i].key] = i /\ sub'[i].key \in wanted'
  <2>1. i \in 1 .. Len(sub) /\ Kept(sub[i], sub'[i]) /\ sub[i] \in Subscription
    BY NarrowedCurrent, SMTT(30) DEF BaseInv, RelayTypes
  <2>2. PICK k \in Keys : k = sub[i].key /\ k = sub'[i].key
    BY <2>1 DEF Kept, Subscription
  <2>3. subs[k] = i /\ i # 0
    <3>1. sub[i].open /\ i # 0
      BY <1>1, <2>1 DEF Kept
    <3>2. i \in DOMAIN sub
      BY <2>1, SMTT(30) DEF BaseInv, RelayTypes
    <3>3. isActiveSub(i)
      BY <3>1, <3>2 DEF BaseInv, WantedStreams
    <3> QED  BY <2>2, <3>1, <3>3 DEF isActiveSub
  <2>4. subs'[k] = i
    BY <1>1, <2>3 DEF Narrowed
  <2> QED  BY <2>2, <2>3, <2>4 DEF CurrentInv
<1>2. DOMAIN sub' = 1 .. Len(sub')
  BY SMTT(30) DEF RelayTypes
<1>3. WantedStreams'
  BY <1>1, <1>2 DEF WantedStreams, isActiveSub
<1>4. ShownInv'
  BY NarrowedCurrent DEF ShownInv, BaseInv
<1> QED  BY <1>3, <1>4 DEF BaseInv

\* What clients were sent stays as it is.
LEMMA ShownSame ==
    ASSUME BaseInv, Narrowed, UNCHANGED shown
    PROVE  \A k \in Keys : shown'[k].id <= Len(sub) /\ (subs'[k] # 0 => shown'[k].id <= subs'[k])
BY DEF BaseInv, ShownInv, Narrowed

-----------------------------------------------------------------------------
(* Types.                                                                   *)

\* An event is added to the lane.
LEMMA LaneAdded ==
    ASSUME RelayTypes, NEW c \in {"output", "closed"}, NEW i \in 1 .. Len(sub), NEW m \in Nat
    PROVE  LET e == [kind |-> c, id |-> i, n |-> m]
           IN  /\ e \in Event /\ Append(lane, e) \in Seq(Event)
               /\ \A p \in 1 .. Len(Append(lane, e)) : Append(lane, e)[p].id \in 1 .. Len(sub)
<1> DEFINE e == [kind |-> c, id |-> i, n |-> m]
<1>1. i \in Nat /\ lane \in Seq(Event) /\ \A p \in 1 .. Len(lane) : lane[p].id \in 1 .. Len(sub)
  BY SMTT(30) DEF RelayTypes
<1>2. e \in Event /\ e.id = i
  BY <1>1 DEF Event
<1> HIDE DEF e
<1>3. Append(lane, e) \in Seq(Event) /\ Len(Append(lane, e)) = Len(lane) + 1 /\ Len(lane) \in Nat
  BY <1>1, <1>2
<1>4. \A p \in 1 .. Len(lane) + 1 : Append(lane, e)[p] = IF p <= Len(lane) THEN lane[p] ELSE e
  BY <1>1, <1>2
<1>5. \A p \in 1 .. Len(lane) + 1 : Append(lane, e)[p].id \in 1 .. Len(sub)
  BY <1>1, <1>2, <1>3, <1>4, SMTT(30)
<1> QED  BY <1>2, <1>3, <1>5 DEF e

\* An event is taken from the lane.
LEMMA LaneTaken ==
    ASSUME RelayTypes, lane # <<>>
    PROVE  /\ Tail(lane) \in Seq(Event)
           /\ \A p \in 1 .. Len(Tail(lane)) : Tail(lane)[p].id \in 1 .. Len(sub)
           /\ Head(lane) \in Event /\ Head(lane).id \in 1 .. Len(sub)
<1>1. lane \in Seq(Event) /\ \A p \in 1 .. Len(lane) : lane[p].id \in 1 .. Len(sub)
  BY DEF RelayTypes
<1>2. Len(lane) \in Nat /\ Len(lane) >= 1 /\ Head(lane) = lane[1] /\ 1 \in 1 .. Len(lane)
  BY <1>1
<1>3. Tail(lane) \in Seq(Event) /\ Len(Tail(lane)) = Len(lane) - 1
  BY <1>1
<1>4. \A p \in 1 .. Len(Tail(lane)) : Tail(lane)[p] = lane[p + 1] /\ p + 1 \in 1 .. Len(lane)
  BY <1>1, <1>2, <1>3
<1>5. Head(lane) \in Event
  BY <1>1, <1>2
<1> QED  BY <1>1, <1>2, <1>3, <1>4, <1>5

LaneTypes(q) == q \in Seq(Event) /\ \A p \in 1 .. Len(q) : q[p].id \in 1 .. Len(sub)

ClosingTypes(cs) == \A c \in cs : c.id \in 1 .. Len(sub)

\* A step of a terminal or a goroutine.
LEMMA QuietBase ==
    ASSUME BaseInv, Narrowed, UNCHANGED <<head, wanted, loop, shown>>,
           printed' \in [Frames -> Nat], LaneTypes(lane'), ClosingTypes(closing')
    PROVE  BaseInv'
<1>1. RelayTypes /\ CurrentInv
  BY DEF BaseInv
<1>2. sub' \in Seq(Subscription) /\ Len(sub') = Len(sub) /\ subs' \in [Keys -> Nat]
  BY <1>1, NarrowedCurrent
<1>3. RelayTypes'
  BY <1>1, <1>2 DEF RelayTypes, LaneTypes, ClosingTypes
<1>4. CurrentInv'
  BY <1>1, SameVisits
<1> QED  BY <1>3, <1>4, ShownSame, NarrowedBase

\* The goroutines' own steps.
LEMMA MovedNarrows ==
    ASSUME RelayTypes, NEW i \in 1 .. Len(sub), NEW fwd, NEW relay, NEW fan, NEW ch,
           Moved(i, fwd, relay, fan, ch), UNCHANGED subs
    PROVE  /\ Narrowed /\ OnlyAt(sub, sub', i) /\ sub'[i].open = sub[i].open
           /\ sub'[i].fwdHeld = fwd /\ sub'[i].relay = relay
           /\ sub'[i].fanHeld = fan /\ sub'[i].ch = ch
BY AdvancedEffect DEF Moved

\* A terminal that starts, prints or exits keeps the invariant.
LEMMA TerminalBase ==
    ASSUME BaseInv, NEW f \in Frames, SpawnFrame(f) \/ processChunk(f) \/ handleExit(f)
    PROVE  BaseInv'
<1>1. RelayTypes /\ printed \in [Frames -> Nat] /\ LaneTypes(lane) /\ ClosingTypes(closing)
  BY DEF BaseInv, RelayTypes, LaneTypes, ClosingTypes
<1>2. CASE SpawnFrame(f)
  <2>1. UNCHANGED <<printed, sub, subs, lane, closing, head, wanted, loop, shown>>
    BY <1>2 DEF SpawnFrame
  <2> QED  BY <1>1, <2>1, UnmovedEffect, QuietBase
<1>3. CASE processChunk(f)
  <2>1. UNCHANGED <<lane, closing, head, wanted, loop, shown>>
    BY <1>3 DEF processChunk
  <2> QED  BY <1>1, <1>3, <2>1, PrintEffect, QuietBase
<1>4. CASE handleExit(f)
  <2>1. UNCHANGED <<printed, lane, closing, head, wanted, loop, shown>>
    BY <1>4 DEF handleExit
  <2> QED  BY <1>1, <1>4, <2>1, ExitEffect, QuietBase
<1> QED  BY <1>2, <1>3, <1>4

\* The goroutines of a subscription keep the invariant.
LEMMA GoroutineBase ==
    ASSUME BaseInv, NEW i \in DOMAIN sub, Goroutine(i)
    PROVE  BaseInv'
<1>1. /\ RelayTypes /\ CurrentInv /\ printed \in [Frames -> Nat] /\ LaneTypes(lane) /\ ClosingTypes(closing)
      /\ i \in 1 .. Len(sub) /\ sub[i] \in Subscription
  BY SMTT(30) DEF BaseInv, RelayTypes, LaneTypes, ClosingTypes
<1>2. CASE fanOutTake(i)
  <2>1. UNCHANGED <<printed, subs, lane, closing, head, wanted, loop, shown>>
    BY <1>2 DEF fanOutTake, terminal
  <2>2. Narrowed
    BY Zenon, <1>1, <1>2, <2>1, FanTakeEffect, MovedNarrows
  <2> QED  BY <1>1, <2>1, <2>2, QuietBase
<1>3. CASE fanOutPut(i)
  <2>1. UNCHANGED <<printed, lane, head, wanted, loop, shown>>
    BY <1>3 DEF fanOutPut, terminal
  <2>2. Narrowed /\ ClosingTypes(closing')
    BY <1>1, <1>3, FanPutEffect, MovedNarrows, SMTT(30) DEF ClosingTypes
  <2> QED  BY <1>1, <2>1, <2>2, QuietBase
<1>4. CASE fanOutClosed(i)
  <2>1. UNCHANGED <<printed, lane, head, wanted, loop, shown>>
    BY <1>4 DEF fanOutClosed, terminal
  <2>2. Narrowed /\ ClosingTypes(closing')
    BY <1>1, <1>4, FanClosedEffect DEF ClosingTypes
  <2> QED  BY <1>1, <2>1, <2>2, QuietBase
<1>5. CASE relayForwardTake(i)
  <2>1. UNCHANGED <<printed, subs, lane, closing, head, wanted, loop, shown>>
    BY <1>5 DEF relayForwardTake, terminal
  <2>2. Narrowed
    BY Zenon, <1>1, <1>5, <2>1, ForwardTakeEffect, MovedNarrows
  <2> QED  BY <1>1, <2>1, <2>2, QuietBase
<1>6. CASE relayForwardSend(i)
  <2>1. UNCHANGED <<printed, head, wanted, loop, shown>>
    BY <1>6 DEF relayForwardSend, terminal
  <2>2. Head(sub[i].fwdHeld) \in Nat
    <3>1. sub[i].fwdHeld \in Seq(Nat) /\ sub[i].fwdHeld # <<>>
      BY <1>1, <1>6 DEF relayForwardSend, Subscription
    <3>2. \A q \in Seq(Nat) : q # <<>> => Head(q) \in Nat
      OBVIOUS
    <3> QED  BY <3>1, <3>2
  <2>3. LaneTypes(Append(lane, [kind |-> "output", id |-> i, n |-> Head(sub[i].fwdHeld)]))
    BY <1>1, <2>2, LaneAdded, Zenon DEF LaneTypes
  <2>4. Narrowed /\ ClosingTypes(closing') /\ LaneTypes(lane')
    BY <1>1, <1>6, <2>3, ForwardSendEffect, MovedNarrows, Zenon DEF ClosingTypes
  <2> QED  BY <1>1, <2>1, <2>4, QuietBase
<1> QED  BY <1>2, <1>3, <1>4, <1>5, <1>6 DEF Goroutine

\* Putting a closed event on the lane keeps the invariant.
LEMMA ClosedSentBase ==
    ASSUME BaseInv, sendInternalNow
    PROVE  BaseInv'
<1>1. RelayTypes /\ CurrentInv /\ printed \in [Frames -> Nat] /\ ClosingTypes(closing)
  BY DEF BaseInv, RelayTypes, ClosingTypes
<1>2. PICK c \in closing : /\ lane' = Append(lane, [kind |-> "closed", id |-> c.id, n |-> 0])
                           /\ closing' = closing \ {c}
                           /\ UNCHANGED <<printed, head, wanted, subs, sub, loop, shown>>
  BY DEF sendInternalNow, terminal
<1>3. c.id \in 1 .. Len(sub) /\ ClosingTypes(closing')
  BY <1>1, <1>2 DEF ClosingTypes
<1>4. LaneTypes(lane')
  BY <1>1, <1>2, <1>3, LaneAdded DEF LaneTypes
<1> QED  BY <1>1, <1>2, <1>3, <1>4, UnmovedEffect, QuietBase

\* An event of the reducer.
LEMMA EventBase ==
    ASSUME BaseInv, Narrowed, wanted' \subseteq Keys, head' \in Frames \cup {NoFrame}, dispatch,
           \A k \in Keys : subs'[k] # 0 => k \in wanted',
           UNCHANGED <<printed, closing, shown>>, LaneTypes(lane')
    PROVE  BaseInv'
<1>1. RelayTypes /\ CurrentInv
  BY DEF BaseInv
<1>2. sub' \in Seq(Subscription) /\ Len(sub') = Len(sub) /\ subs' \in [Keys -> Nat]
  BY <1>1, NarrowedCurrent
<1>3. CurrentInv' /\ loop' \in LoopState /\ loop'.send = 0
  BY <1>1, NewVisits
<1>4. RelayTypes'
  BY <1>1, <1>2, <1>3, SMTT(30) DEF RelayTypes, LaneTypes
<1> QED  BY <1>3, <1>4, ShownSame, NarrowedBase

\* The reducer drops a subscription.
LEMMA UnsubscribedEffect ==
    ASSUME RelayTypes, CurrentInv, NEW k \in Keys, reduceSurfaceUnsubscribe(k)
    PROVE  Narrowed /\ Spared /\ wanted' \subseteq Keys /\ \A j \in Keys : subs'[j] # 0 => j \in wanted'
<1>1. wanted \subseteq Keys /\ subs \in [Keys -> Nat] /\ \A j \in Keys : subs[j] # 0 => j \in wanted
  BY DEF RelayTypes, CurrentInv
<1>2. wanted' = wanted \ {k}
  BY DEF reduceSurfaceUnsubscribe
<1>3. CASE k \in wanted
  <2>1. Narrowed /\ Spared /\ subs' = [subs EXCEPT ![k] = 0]
    BY <1>3, UnsubscribeEffect DEF reduceSurfaceUnsubscribe
  <2> QED  BY <1>1, <1>2, <2>1
<1>4. CASE k \notin wanted
  <2>1. UNCHANGED <<sub, subs>>
    BY <1>4 DEF reduceSurfaceUnsubscribe
  <2> QED  BY <1>1, <1>2, <1>4, <2>1, UnmovedEffect
<1> QED  BY <1>3, <1>4

\* The clients' commands keep the invariant.
LEMMA CommandBase ==
    ASSUME BaseInv, NEW k \in Keys,
           reduceSurfaceSubscribe(k) \/ CmdSurfaceUnsubscribe(k) \/ handleConnClose(k)
    PROVE  BaseInv'
<1>1. /\ RelayTypes /\ CurrentInv /\ LaneTypes(lane) /\ head \in Frames \cup {NoFrame} /\ wanted \subseteq Keys
      /\ \A j \in Keys : subs[j] # 0 => j \in wanted
  BY DEF BaseInv, RelayTypes, CurrentInv, LaneTypes
<1>2. CASE reduceSurfaceSubscribe(k)
  <2>1. /\ UNCHANGED <<printed, head, subs, sub, lane, closing, shown>> /\ dispatch
        /\ wanted' = wanted \cup {k}
    BY <1>2 DEF reduceSurfaceSubscribe, terminal
  <2>2. wanted' \subseteq Keys /\ \A j \in Keys : subs'[j] # 0 => j \in wanted'
    BY <1>1, <2>1
  <2> QED  BY <1>1, <2>1, <2>2, UnmovedEffect, EventBase
<1>3. CASE CmdSurfaceUnsubscribe(k)
  <2>1. UNCHANGED <<printed, head, lane, closing, shown>> /\ dispatch /\ reduceSurfaceUnsubscribe(k)
    BY <1>3 DEF CmdSurfaceUnsubscribe, terminal
  <2> QED  BY <1>1, <2>1, UnsubscribedEffect, EventBase
<1>4. CASE handleConnClose(k)
  <2>1. UNCHANGED <<printed, head, lane, closing, shown>> /\ dispatch /\ reduceSurfaceUnsubscribe(k)
    BY <1>4 DEF handleConnClose, terminal
  <2> QED  BY <1>1, <2>1, UnsubscribedEffect, EventBase
<1> QED  BY <1>2, <1>3, <1>4

\* The tick and a change of the head frame keep the invariant.
LEMMA HeadBase ==
    ASSUME BaseInv, Tick \/ \E f \in Frames \cup {NoFrame} : HeadMoves(f)
    PROVE  BaseInv'
<1>1. /\ RelayTypes /\ CurrentInv /\ LaneTypes(lane) /\ head \in Frames \cup {NoFrame} /\ wanted \subseteq Keys
      /\ \A j \in Keys : subs[j] # 0 => j \in wanted
  BY DEF BaseInv, RelayTypes, CurrentInv, LaneTypes
<1>2. UNCHANGED <<printed, wanted, subs, sub, lane, closing, shown>> /\ dispatch
  BY DEF Tick, HeadMoves, terminal
<1>3. head' \in Frames \cup {NoFrame}
  BY <1>1 DEF Tick, HeadMoves
<1> QED  BY <1>1, <1>2, <1>3, UnmovedEffect, EventBase

\* Handling a closed event keeps the invariant.
LEMMA ClosedBase ==
    ASSUME BaseInv, surfaceClosed
    PROVE  BaseInv'
<1>1. RelayTypes /\ CurrentInv /\ head \in Frames \cup {NoFrame} /\ printed \in [Frames -> Nat] /\ ClosingTypes(closing)
  BY DEF BaseInv, RelayTypes, ClosingTypes
<1>2. lane # <<>> /\ lane' = Tail(lane) /\ UNCHANGED <<printed, closing, shown>>
  BY DEF surfaceClosed, terminal
<1>3. LaneTypes(lane') /\ Head(lane).id \in 1 .. Len(sub)
  BY <1>1, <1>2, LaneTaken DEF LaneTypes
<1>4. PICK i \in 1 .. Len(sub) : i = Head(lane).id
  BY <1>3
<1>5. PICK k \in Keys : k = sub[i].key
  BY <1>1, KeyOfSub
<1>6. CASE shouldApplySlowClose(i)
  <2>1. reduceSurfaceUnsubscribe(k) /\ UNCHANGED head /\ dispatch
    BY <1>4, <1>5, <1>6 DEF surfaceClosed
  <2> QED  BY <1>1, <1>2, <1>3, <2>1, UnsubscribedEffect, EventBase
<1>7. CASE ~shouldApplySlowClose(i)
  <2>1. UNCHANGED <<wanted, subs, sub, head, loop>>
    BY <1>4, <1>5, <1>7 DEF surfaceClosed
  <2> QED  BY <1>1, <1>2, <1>3, <2>1, UnmovedEffect, QuietBase
<1> QED  BY <1>6, <1>7

\* Output goes to a client, which has been sent no output of a younger subscription.
LEMMA BroadcastBase ==
    ASSUME BaseInv, broadcastSurfaceFromInternal
    PROVE  BaseInv'
<1>1. /\ RelayTypes /\ CurrentInv /\ printed \in [Frames -> Nat] /\ ClosingTypes(closing)
      /\ shown \in [Keys -> [id : Nat, n : Nat]] /\ loop \in LoopState
  BY DEF BaseInv, RelayTypes, ClosingTypes
<1>2. lane # <<>> /\ lane' = Tail(lane) /\ UNCHANGED <<printed, closing, head, wanted>>
  BY DEF broadcastSurfaceFromInternal, terminal
<1>3. LaneTypes(lane') /\ Head(lane) \in Event /\ Head(lane).id \in 1 .. Len(sub)
  BY <1>1, <1>2, LaneTaken DEF LaneTypes
<1>4. PICK i \in 1 .. Len(sub) : i = Head(lane).id
  BY <1>3
<1>5. PICK k \in Keys : k = sub[i].key
  BY <1>1, KeyOfSub
<1>6. PICK n \in Nat : n = Head(lane).n
  BY <1>3, EventNumber
<1>7. CASE isActiveSub(i) /\ shown' = [shown EXCEPT ![k] = [id |-> i, n |-> n]] /\ UNCHANGED <<subs, sub, loop>>
  <2>1. Narrowed
    BY <1>1, <1>7, UnmovedEffect
  <2>2. i \in Nat /\ [id |-> i, n |-> n] \in [id : Nat, n : Nat] /\ [id |-> i, n |-> n].id = i
    OBVIOUS
  <2>3. shown' \in [Keys -> [id : Nat, n : Nat]] /\ shown'[k].id = i /\ \A j \in Keys : j # k => shown'[j] = shown[j]
    BY <1>1, <1>7, <2>2
  <2>4. \A j \in Keys : shown'[j].id <= Len(sub) /\ (subs'[j] # 0 => shown'[j].id <= subs'[j])
    <3>1. subs[k] = i
      BY <1>5, <1>7 DEF isActiveSub
    <3>2. \A j \in Keys : shown[j].id <= Len(sub) /\ (subs[j] # 0 => shown[j].id <= subs[j])
      BY DEF BaseInv, ShownInv
    <3>3. i <= Len(sub) /\ i <= i
      BY <1>1 DEF RelayTypes
    <3> QED  BY <1>7, <2>3, <3>1, <3>2, <3>3
  <2>5. RelayTypes'
    BY <1>1, <1>2, <1>3, <1>7, <2>3 DEF RelayTypes, LaneTypes
  <2>6. CurrentInv'
    BY <1>1, <1>2, <1>7, <2>1, SameVisits
  <2> QED  BY <2>1, <2>4, <2>5, <2>6, NarrowedBase
<1>8. CASE UnsubscribeOwned(k) /\ loop' = [loop EXCEPT !.send = i] /\ UNCHANGED shown
  <2>1. Narrowed
    BY <1>1, <1>8, UnsubscribeEffect
  <2>2. i \in Nat /\ i \in 0 .. Len(sub)
    OBVIOUS
  <2>3. loop' \in LoopState /\ loop'.send = i /\ loop'.todo = loop.todo /\ loop'.attach = loop.attach
    BY <1>1, <1>8, <2>2, Zenon DEF LoopState
  <2>4. sub' \in Seq(Subscription) /\ Len(sub') = Len(sub) /\ subs' \in [Keys -> Nat]
    BY <1>1, <2>1, NarrowedCurrent
  <2>5. RelayTypes'
    BY <1>1, <1>2, <1>3, <1>8, <2>2, <2>3, <2>4 DEF RelayTypes, LaneTypes
  <2>6. CurrentInv'
    BY <1>1, <1>2, <2>1, <2>3, SameVisits
  <2> QED  BY <1>8, <2>1, <2>5, <2>6, ShownSame, NarrowedBase
<1>9. CASE UNCHANGED <<subs, sub, loop, shown>>
  BY <1>1, <1>2, <1>3, <1>9, UnmovedEffect, QuietBase
<1> QED  BY <1>4, <1>5, <1>6, <1>7, <1>8, <1>9 DEF broadcastSurfaceFromInternal, SeverByLoop

\* Sending a chunk to its client keeps the invariant.
LEMMA LoopSendBase ==
    ASSUME BaseInv, LoopSend
    PROVE  BaseInv'
<1>1. RelayTypes /\ CurrentInv /\ loop \in LoopState /\ loop.send \in 0 .. Len(sub)
  BY DEF BaseInv, RelayTypes
<1>2. /\ loop.send # 0 /\ loop' = [loop EXCEPT !.send = 0]
      /\ lane' = Append(lane, [kind |-> "closed", id |-> loop.send, n |-> 0])
      /\ UNCHANGED <<printed, head, wanted, subs, sub, closing, shown>>
  BY DEF LoopSend, terminal
<1>3. loop.send \in 1 .. Len(sub)
  BY <1>1, <1>2
<1>4. LaneTypes(lane')
  BY <1>1, <1>2, <1>3, LaneAdded DEF LaneTypes
<1>5. loop' \in LoopState /\ loop'.send = 0 /\ loop'.todo = loop.todo /\ loop'.attach = loop.attach
  BY <1>1, <1>2 DEF LoopState
<1>6. RelayTypes'
  BY <1>1, <1>2, <1>4, <1>5, SMTT(30) DEF RelayTypes, LaneTypes
<1>7. Narrowed
  BY <1>1, <1>2, UnmovedEffect
<1>8. CurrentInv'
  BY <1>1, <1>2, <1>5, <1>7, SameVisits
<1> QED  BY <1>2, <1>6, <1>7, <1>8, ShownSame, NarrowedBase

\* Reconciling a client's relay keeps the invariant.
LEMMA ReconcileBase ==
    ASSUME BaseInv, NEW k \in Keys, reconcileSurfaceRelay(k)
    PROVE  BaseInv'
<1>1. RelayTypes /\ CurrentInv /\ loop \in LoopState /\ head \in Frames \cup {NoFrame} /\ subs \in [Keys -> Nat]
  BY DEF BaseInv, RelayTypes
<1>2. /\ k \in loop.todo /\ loop.attach = NoKey
      /\ loop' = [loop EXCEPT !.todo = loop.todo \ {k}, !.attach = IF head = NoFrame THEN loop.attach ELSE k]
      /\ UnsubscribeOwned(k)
      /\ UNCHANGED <<printed, head, wanted, lane, closing, shown>>
  BY DEF reconcileSurfaceRelay, terminal
<1>3. Narrowed /\ subs' = [subs EXCEPT ![k] = 0]
  BY <1>1, <1>2, UnsubscribeEffect
<1>4. PICK a \in Keys \cup {NoKey} : a = IF head = NoFrame THEN loop.attach ELSE k
  BY <1>2
<1>5. loop.todo \in SUBSET Keys /\ loop.todo \ {k} \in SUBSET Keys
  BY <1>1 DEF LoopState
<1>6. loop' = [loop EXCEPT !.todo = loop.todo \ {k}, !.attach = a]
  BY <1>2, <1>4
<1>7. loop' \in LoopState /\ loop'.send = loop.send /\ loop'.todo = loop.todo \ {k} /\ loop'.attach = a
  BY <1>1, <1>5, <1>6, Zenon DEF LoopState
<1>8. sub' \in Seq(Subscription) /\ Len(sub') = Len(sub) /\ subs' \in [Keys -> Nat]
  BY <1>1, <1>3, NarrowedCurrent
<1>9. RelayTypes'
  BY <1>1, <1>2, <1>7, <1>8 DEF RelayTypes
<1>10. CurrentInv'
  <2>1. \A j \in Keys : subs'[j] # 0 => j # k /\ subs'[j] = subs[j]
    BY <1>1, <1>3
  <2>2. \A j \in Keys : subs'[j] # 0 =>
            /\ subs'[j] \in 1 .. Len(sub') /\ sub'[subs'[j]].key = j
            /\ j \in wanted'
            /\ sub'[subs'[j]].frame = head' \/ j \in loop'.todo
    BY <1>1, <1>2, <1>3, <1>7, <2>1, NarrowedCurrent, SMTT(30) DEF CurrentInv
  <2>3. loop'.todo \subseteq wanted' /\ k \in wanted'
    BY <1>1, <1>2, <1>7 DEF CurrentInv
  <2>4. a # NoKey => a = k /\ head \in Frames /\ subs'[k] = 0
    BY <1>1, <1>2, <1>3, <1>4
  <2> QED  BY <1>2, <1>7, <2>2, <2>3, <2>4 DEF CurrentInv
<1> QED  BY <1>2, <1>3, <1>9, <1>10, ShownSame, NarrowedBase

\* What a new subscription is.
NewSub(k) ==
    [key |-> k, frame |-> head, snap |-> printed[head], open |-> TRUE, ch |-> <<printed[head]>>,
     fan |-> "run", fanHeld |-> <<>>, relay |-> <<>>, fwdHeld |-> <<>>]

\* SubscribeOwned adds a subscription for the key, or nothing.
LEMMA SubscribeEffect ==
    ASSUME RelayTypes, CurrentInv, SubscribeOwned
    PROVE  /\ loop' \in LoopState /\ loop'.send = loop.send /\ loop'.todo = loop.todo /\ loop'.attach = NoKey
           /\ UNCHANGED <<printed, head, wanted, lane, closing, shown>>
           /\ \/ UNCHANGED <<sub, subs>>
              \/ \E k \in Keys : /\ k \in wanted /\ subs[k] = 0 /\ head \in Frames
                                 /\ sub' = Append(sub, NewSub(k)) /\ subs' = [subs EXCEPT ![k] = Len(sub) + 1]
<1>1. loop \in LoopState /\ wanted \subseteq Keys
  BY DEF RelayTypes
<1>2. loop' = [loop EXCEPT !.attach = NoKey] /\ UNCHANGED <<printed, head, wanted, lane, closing, shown>>
  BY DEF SubscribeOwned, terminal
<1>3. loop' \in LoopState /\ loop'.send = loop.send /\ loop'.todo = loop.todo /\ loop'.attach = NoKey
  BY <1>1, <1>2 DEF LoopState
<1>4. PICK k : k = loop.attach
  OBVIOUS
<1>5. k \in wanted /\ subs[k] = 0 /\ head \in Frames
  BY <1>4 DEF SubscribeOwned, CurrentInv
<1>6. \/ UNCHANGED <<sub, subs>>
      \/ sub' = Append(sub, NewSub(k)) /\ subs' = [subs EXCEPT ![k] = Len(sub) + 1]
  BY <1>4 DEF SubscribeOwned, NewSub
<1> QED  BY <1>1, <1>2, <1>3, <1>5, <1>6

\* A subscription is added.
LEMMA AddedSub ==
    ASSUME RelayTypes, NEW k \in Keys, head \in Frames,
           sub' = Append(sub, NewSub(k)), subs' = [subs EXCEPT ![k] = Len(sub) + 1]
    PROVE  /\ Len(sub) \in Nat /\ Len(sub') = Len(sub) + 1 /\ sub' \in Seq(Subscription)
           /\ \A i \in 1 .. Len(sub) : sub'[i] = sub[i]
           /\ sub'[Len(sub) + 1] = NewSub(k) /\ NewSub(k) \in Subscription
           /\ NewSub(k).key = k /\ NewSub(k).frame = head /\ NewSub(k).snap = printed[head]
           /\ subs' \in [Keys -> Nat] /\ subs'[k] = Len(sub) + 1
           /\ \A j \in Keys : j # k => subs'[j] = subs[j]
<1>1. sub \in Seq(Subscription) /\ subs \in [Keys -> Nat] /\ printed[head] \in Nat
  BY DEF RelayTypes
<1>2. <<printed[head]>> \in Seq(Nat) /\ <<>> \in Seq(Nat)
  BY <1>1
<1>3. NewSub(k) \in Subscription
  BY <1>1, <1>2 DEF NewSub, Subscription, FanStates
<1>4. NewSub(k).key = k /\ NewSub(k).frame = head /\ NewSub(k).snap = printed[head]
  BY DEF NewSub
<1>5. /\ Len(sub) \in Nat /\ Len(sub') = Len(sub) + 1 /\ sub' \in Seq(Subscription)
      /\ \A i \in 1 .. Len(sub) : sub'[i] = sub[i]
      /\ sub'[Len(sub) + 1] = NewSub(k)
  BY <1>1, <1>3
<1>6. Len(sub) + 1 \in Nat
  BY <1>5
<1>7. subs' \in [Keys -> Nat] /\ subs'[k] = Len(sub) + 1 /\ \A j \in Keys : j # k => subs'[j] = subs[j]
  BY <1>1, <1>6
<1> QED  BY <1>3, <1>4, <1>5, <1>7

\* Subscribing to the frame's terminal keeps the invariant.
LEMMA SubscribeBase ==
    ASSUME BaseInv, SubscribeOwned
    PROVE  BaseInv'
<1>1. RelayTypes /\ CurrentInv /\ DOMAIN sub = 1 .. Len(sub)
  BY SMTT(30) DEF BaseInv, RelayTypes
<1>2. /\ loop' \in LoopState /\ loop'.send = loop.send /\ loop'.todo = loop.todo /\ loop'.attach = NoKey
      /\ UNCHANGED <<printed, head, wanted, lane, closing, shown>>
  BY <1>1, SubscribeEffect
<1>3. CASE UNCHANGED <<sub, subs>>
  <2>1. RelayTypes'
    BY <1>1, <1>2, <1>3 DEF RelayTypes
  <2>2. CurrentInv'
    BY <1>1, <1>2, <1>3 DEF CurrentInv
  <2> QED  BY <1>1, <1>2, <1>3, <2>1, <2>2, UnmovedEffect, ShownSame, NarrowedBase
<1>4. ASSUME NEW k \in Keys, k \in wanted, subs[k] = 0, head \in Frames,
             sub' = Append(sub, NewSub(k)), subs' = [subs EXCEPT ![k] = Len(sub) + 1]
      PROVE  BaseInv'
  <2>1. /\ Len(sub) \in Nat /\ Len(sub') = Len(sub) + 1 /\ sub' \in Seq(Subscription)
        /\ \A i \in 1 .. Len(sub) : sub'[i] = sub[i]
        /\ subs' \in [Keys -> Nat] /\ subs'[k] = Len(sub) + 1
        /\ \A j \in Keys : j # k => subs'[j] = subs[j]
    BY Zenon, <1>1, <1>4, AddedSub
  <2>2. sub'[Len(sub) + 1].key = k /\ sub'[Len(sub) + 1].frame = head
    BY Zenon, <1>1, <1>4, AddedSub
  <2>3. \A i \in 0 .. Len(sub) : i \in 0 .. Len(sub')
    BY <2>1
  <2>4. \A i \in 1 .. Len(sub) : i \in 1 .. Len(sub') /\ i # 0
    BY <2>1
  <2>5. RelayTypes'
    BY <1>1, <1>2, <2>1, <2>3, <2>4 DEF RelayTypes
  <2>6. CurrentInv'
    <3>1. ASSUME NEW j \in Keys, subs'[j] # 0
          PROVE  /\ subs'[j] \in 1 .. Len(sub') /\ sub'[subs'[j]].key = j
                 /\ j \in wanted'
                 /\ sub'[subs'[j]].frame = head' \/ j \in loop'.todo
      <4>1. CASE j = k
        BY <1>2, <1>4, <2>1, <2>2, <4>1, SMTT(30)
      <4>2. CASE j # k
        <5>1. subs'[j] = subs[j] /\ subs[j] # 0
          BY <2>1, <3>1, <4>2
        <5>2. /\ subs[j] \in 1 .. Len(sub) /\ sub[subs[j]].key = j /\ j \in wanted
              /\ sub[subs[j]].frame = head \/ j \in loop.todo
          BY <1>1, <5>1 DEF CurrentInv
        <5> QED  BY <1>2, <2>1, <2>4, <5>1, <5>2
      <4> QED  BY <4>1, <4>2
    <3>2. loop'.todo \subseteq wanted'
      BY <1>1, <1>2 DEF CurrentInv
    <3> QED  BY <1>2, <3>1, <3>2 DEF CurrentInv
  <2>7. WantedStreams'
    <3>1. ASSUME NEW i \in 1 .. Len(sub'), sub'[i].open
          PROVE  subs'[sub'[i].key] = i /\ sub'[i].key \in wanted'
      <4>1. CASE i = Len(sub) + 1
        BY <1>2, <1>4, <2>1, <2>2, <4>1
      <4>2. CASE i \in 1 .. Len(sub)
        <5>1. sub'[i] = sub[i] /\ i # 0 /\ sub[i].key \in Keys
          BY <1>1, <2>1, <2>4, <4>2, KeyOfSub
        <5>2. subs[sub[i].key] = i /\ sub[i].key \in wanted
          BY <1>1, <3>1, <4>2, <5>1 DEF BaseInv, WantedStreams, isActiveSub
        <5>3. sub[i].key # k
          BY <1>4, <5>1, <5>2
        <5> QED  BY <1>2, <2>1, <5>1, <5>2, <5>3
      <4> QED  BY <2>1, <4>1, <4>2, SMTT(30)
    <3>2. DOMAIN sub' = 1 .. Len(sub')
      BY <2>1
    <3> QED  BY <3>1, <3>2 DEF WantedStreams, isActiveSub
  <2>8. ShownInv'
    <3>1. \A j \in Keys : shown[j].id \in Nat /\ shown[j].id <= Len(sub) /\ (subs[j] # 0 => shown[j].id <= subs[j])
      BY <1>1 DEF BaseInv, ShownInv, RelayTypes
    <3>2. \A j \in Keys : shown'[j].id <= Len(sub')
      BY <1>2, <2>1, <3>1
    <3>3. \A j \in Keys : subs'[j] # 0 => shown'[j].id <= subs'[j]
      BY <1>2, <2>1, <3>1
    <3> QED  BY <3>2, <3>3 DEF ShownInv
  <2> QED  BY <2>5, <2>6, <2>7, <2>8 DEF BaseInv
<1> QED  BY <1>1, <1>3, <1>4, SubscribeEffect

\* A step that changes nothing keeps the invariant.
LEMMA StutterBase ==
    ASSUME BaseInv, UNCHANGED vars
    PROVE  BaseInv'
<1>1. RelayTypes /\ CurrentInv /\ UNCHANGED <<printed, head, wanted, subs, sub, lane, closing, loop, shown>>
  BY DEF BaseInv, vars, terminal
<1>2. LaneTypes(lane') /\ ClosingTypes(closing') /\ printed' \in [Frames -> Nat]
  BY <1>1 DEF RelayTypes, LaneTypes, ClosingTypes
<1> QED  BY <1>1, <1>2, UnmovedEffect, QuietBase

\* Every step keeps the invariant.
LEMMA BaseStep ==
    ASSUME BaseInv, [Next]_vars
    PROVE  BaseInv'
<1>1. CASE \E f \in Frames : SpawnFrame(f) \/ processChunk(f) \/ handleExit(f)
  BY <1>1, TerminalBase
<1>2. CASE \E i \in DOMAIN sub : Goroutine(i)
  BY <1>2, GoroutineBase
<1>3. CASE sendInternalNow
  BY <1>3, ClosedSentBase
<1>4. CASE LoopStep
  BY <1>4, LoopSendBase, ReconcileBase, SubscribeBase DEF LoopStep
<1>5. CASE LoopReceive
  BY <1>5, BroadcastBase, ClosedBase DEF LoopReceive
<1>6. CASE \E k \in Keys : reduceSurfaceSubscribe(k) \/ CmdSurfaceUnsubscribe(k) \/ handleConnClose(k)
  BY <1>6, CommandBase
<1>7. CASE Tick \/ \E f \in Frames \cup {NoFrame} : HeadMoves(f)
  BY <1>7, HeadBase
<1>8. CASE UNCHANGED vars
  BY <1>8, StutterBase
<1> QED  BY <1>1, <1>2, <1>3, <1>4, <1>5, <1>6, <1>7, <1>8, Zenon DEF Next

\* The invariant holds at first.
LEMMA BaseInit ==
    ASSUME Init
    PROVE  BaseInv
<1>1. sub = <<>> /\ lane = <<>> /\ Len(sub) = 0 /\ Len(lane) = 0 /\ 1 .. 0 = {} /\ DOMAIN sub = {}
  BY DEF Init
<1>2. loop \in LoopState /\ loop.send = 0 /\ loop.todo = {} /\ loop.attach = NoKey
  BY DEF Init, IdleLoop, LoopState
<1>3. sub \in Seq(Subscription) /\ lane \in Seq(Event)
  BY <1>1
<1>4. /\ printed \in [Frames -> Nat] /\ head \in Frames /\ wanted = {} /\ closing = {}
      /\ subs \in [Keys -> Nat] /\ \A k \in Keys : subs[k] = 0
      /\ shown \in [Keys -> [id : Nat, n : Nat]] /\ \A k \in Keys : shown[k].id = 0
  BY DEF Init
<1>5. RelayTypes
  BY <1>1, <1>2, <1>3, <1>4, SMTT(30) DEF RelayTypes
<1>6. CurrentInv /\ WantedStreams /\ ShownInv
  BY <1>1, <1>2, <1>4, SMTT(30) DEF CurrentInv, WantedStreams, ShownInv
<1> QED  BY <1>5, <1>6 DEF BaseInv

\* A wanted key keeps its connection until it is no longer wanted.
LEMMA ConnsStep ==
    ASSUME [Next]_vars
    PROVE  conns' \subseteq conns /\ (WantedConns => WantedConns')
<1>1. ASSUME NEW f, SpawnFrame(f) \/ processChunk(f) \/ handleExit(f) \/ HeadMoves(f)
      PROVE  UNCHANGED <<conns, late, wanted>>
  BY <1>1, Zenon DEF SpawnFrame, processChunk, handleExit, HeadMoves
<1>2. ASSUME NEW i, Goroutine(i)
      PROVE  UNCHANGED <<conns, late, wanted>>
  BY <1>2, Zenon DEF Goroutine, fanOutTake, fanOutPut, fanOutClosed, relayForwardTake, relayForwardSend
<1>3. ASSUME sendInternalNow \/ LoopStep \/ broadcastSurfaceFromInternal \/ Tick
      PROVE  UNCHANGED <<conns, late, wanted>>
  BY <1>3, Zenon DEF sendInternalNow, LoopStep, LoopSend, reconcileSurfaceRelay, SubscribeOwned,
     broadcastSurfaceFromInternal, Tick
<1>4. CASE surfaceClosed
  <2>1. UNCHANGED <<conns, late>> /\ wanted' \subseteq wanted
    BY <1>4 DEF surfaceClosed, reduceSurfaceUnsubscribe
  <2> QED  BY <2>1 DEF WantedConns
<1>5. ASSUME NEW k, reduceSurfaceSubscribe(k)
      PROVE  conns' \subseteq conns /\ (WantedConns => WantedConns')
  <2>1. conns' = conns /\ wanted' = wanted \cup {k} /\ late' = IF k \in conns THEN late ELSE late \cup {k}
    BY <1>5 DEF reduceSurfaceSubscribe
  <2> QED  BY <2>1 DEF WantedConns
<1>6. ASSUME NEW k, CmdSurfaceUnsubscribe(k) \/ handleConnClose(k)
      PROVE  conns' \subseteq conns /\ (WantedConns => WantedConns')
  <2>1. late' = late /\ wanted' = wanted \ {k} /\ conns' \in {conns, conns \ {k}}
    BY <1>6 DEF CmdSurfaceUnsubscribe, handleConnClose, reduceSurfaceUnsubscribe
  <2> QED  BY <2>1 DEF WantedConns
<1>7. UNCHANGED vars => UNCHANGED <<conns, late, wanted>>
  BY DEF vars
<1>8. UNCHANGED <<conns, late, wanted>> => conns' \subseteq conns /\ (WantedConns => WantedConns')
  BY DEF WantedConns
<1> QED  BY <1>1, <1>2, <1>3, <1>4, <1>5, <1>6, <1>7, <1>8, Zenon DEF Next, LoopReceive

\* A terminal prints only to subscriptions the relay has in its map under a wanted key,
\* whoever took another subscription of the key out of the map, and to none that was
\* subscribed on a connection that has been closed since.
THEOREM NoStreamIsOrphaned == Spec => []NoOrphanStream
<1>1. Init => BaseInv /\ WantedConns
  BY BaseInit DEF Init, WantedConns
<1>2. BaseInv /\ WantedConns /\ [Next]_vars => BaseInv' /\ WantedConns'
  BY BaseStep, ConnsStep
<1>3. BaseInv /\ WantedConns => NoOrphanStream
  BY DEF BaseInv, WantedStreams, WantedConns, NoOrphanStream
<1> QED  BY <1>1, <1>2, <1>3, PTL DEF Spec

-----------------------------------------------------------------------------
(* What a client is sent.                                                   *)

\* Only output of the current subscription is sent, by the idle loop.
LEMMA ShownChange ==
    ASSUME BaseInv, [Next]_vars, NEW k \in Keys, shown'[k] # shown[k]
    PROVE  /\ Idle /\ lane # <<>> /\ k \in conns /\ subs[k] # 0 /\ Output(Head(lane), subs[k])
           /\ shown'[k] = [id |-> subs[k], n |-> Head(lane).n]
<1>1. RelayTypes /\ shown \in [Keys -> [id : Nat, n : Nat]]
  BY DEF BaseInv, RelayTypes
<1>2. ASSUME NEW i, Goroutine(i)
      PROVE  UNCHANGED shown
  BY <1>2, Zenon DEF Goroutine, fanOutTake, fanOutPut, fanOutClosed, relayForwardTake, relayForwardSend
<1>3. ASSUME NEW f, SpawnFrame(f) \/ processChunk(f) \/ handleExit(f)
      PROVE  UNCHANGED shown
  BY <1>3, Zenon DEF SpawnFrame, processChunk, handleExit
<1>4. ASSUME sendInternalNow \/ LoopStep \/ surfaceClosed \/ Tick
      PROVE  UNCHANGED shown
  BY <1>4, Zenon DEF sendInternalNow, LoopStep, LoopSend, reconcileSurfaceRelay,
     SubscribeOwned, surfaceClosed, Tick
<1>5. ASSUME NEW j, reduceSurfaceSubscribe(j) \/ CmdSurfaceUnsubscribe(j) \/ handleConnClose(j) \/ HeadMoves(j)
      PROVE  UNCHANGED shown
  BY <1>5, Zenon DEF reduceSurfaceSubscribe, CmdSurfaceUnsubscribe, handleConnClose, HeadMoves
<1>6. UNCHANGED vars => UNCHANGED shown
  BY DEF vars
<1>7. broadcastSurfaceFromInternal
  BY <1>2, <1>3, <1>4, <1>5, <1>6, Zenon DEF Next, LoopReceive
<1>8. Idle /\ lane # <<>> /\ Head(lane).kind = "output"
  BY <1>7 DEF broadcastSurfaceFromInternal
<1>9. PICK i \in 1 .. Len(sub) : i = Head(lane).id
  BY <1>1, <1>8, LaneTaken
<1>10. PICK j \in Keys : j = sub[i].key
  BY <1>1, KeyOfSub
<1>11. isActiveSub(i) /\ j \in conns /\ shown' = [shown EXCEPT ![j] = [id |-> i, n |-> Head(lane).n]]
  BY <1>7, <1>9, <1>10, Zenon DEF broadcastSurfaceFromInternal
<1>12. j = k /\ subs[k] = i /\ shown'[k] = [id |-> i, n |-> Head(lane).n]
  BY <1>1, <1>10, <1>11 DEF isActiveSub
<1>13. i # 0
  BY <1>1 DEF RelayTypes
<1> QED  BY <1>8, <1>9, <1>11, <1>12, <1>13 DEF Output

\* A client is sent output of the frame that is the head at this moment.
THEOREM OutputIsOfHead == Spec => OutputOfHead
<1>1. Init => BaseInv
  BY BaseInit
<1>2. BaseInv /\ [Next]_vars => BaseInv'
  BY BaseStep
<1>3. BaseInv /\ [Next]_vars => [\A k \in Keys : shown'[k] # shown[k] => sub[shown'[k].id].frame = head]_vars
  <2> SUFFICES ASSUME BaseInv, [Next]_vars
               PROVE  \A k \in Keys : shown'[k] # shown[k] => sub[shown'[k].id].frame = head
    BY Zenon
  <2> SUFFICES ASSUME NEW k \in Keys, shown'[k] # shown[k]
               PROVE  sub[shown'[k].id].frame = head
    OBVIOUS
  <2>1. Idle /\ subs[k] # 0 /\ shown'[k] = [id |-> subs[k], n |-> Head(lane).n]
    BY ShownChange, Zenon
  <2>2. loop.todo = {} /\ shown'[k].id = subs[k]
    BY <2>1 DEF Idle, IdleLoop
  <2> QED  BY <2>1, <2>2 DEF BaseInv, CurrentInv
<1> QED  BY <1>1, <1>2, <1>3, PTL DEF Spec, OutputOfHead

-----------------------------------------------------------------------------
(* The chunks on their way to a client.                                     *)

\* The parts of a stream are typed.
LEMMA StreamTypes ==
    ASSUME BaseInv, NEW k \in Keys, subs[k] # 0
    PROVE  /\ subs[k] \in Nat /\ subs[k] \in 1 .. Len(sub) /\ sub[subs[k]] \in Subscription
           /\ sub[subs[k]].key = k /\ Awaited(k) \in Nat /\ lane \in Seq(Event)
           /\ sub[subs[k]].fwdHeld \in Seq(Nat) /\ sub[subs[k]].relay \in Seq(Nat)
           /\ sub[subs[k]].fanHeld \in Seq(Nat) /\ sub[subs[k]].ch \in Seq(Nat)
           /\ printed[sub[subs[k]].frame] \in Nat /\ sub[subs[k]].frame \in Frames
<1>1. PICK s : s = sub[subs[k]]
  OBVIOUS
<1>2. subs[k] \in 1 .. Len(sub) /\ s \in Subscription /\ s.key = k /\ subs[k] \in Nat
  BY <1>1, CurrentSub DEF BaseInv, RelayTypes
<1>3. /\ s.fwdHeld \in Seq(Nat) /\ s.relay \in Seq(Nat) /\ s.fanHeld \in Seq(Nat) /\ s.ch \in Seq(Nat)
      /\ s.frame \in Frames /\ s.snap \in Nat
  BY <1>2 DEF Subscription
<1>4. lane \in Seq(Event) /\ printed \in [Frames -> Nat] /\ shown[k].n + 1 \in Nat
  BY SMTT(30) DEF BaseInv, RelayTypes
<1>5. Awaited(k) \in Nat
  BY <1>1, <1>3, <1>4 DEF Awaited
<1> QED  BY <1>1, <1>2, <1>3, <1>4, <1>5

\* The chunk awaited stays the same.
LEMMA AwaitedSame ==
    ASSUME BaseInv, Narrowed, NEW k \in Keys, subs'[k] # 0, shown'[k] = shown[k]
    PROVE  subs'[k] = subs[k] /\ Awaited(k)' = Awaited(k)
BY NarrowedCurrent DEF BaseInv, Awaited

\* A stream before the step, by its parts.
StreamParts(k, i, n, a, z) ==
    /\ subs[k] = i /\ Awaited(k) = n
    /\ LaneFlow(lane, i, n, a) /\ HeldBy(sub[i], a, z)
    /\ sub[i].open => z = printed[sub[i].frame] + 1

\* The chunks on their way to a client, taken apart: on the lane, in the channels, still to print.
LEMMA StreamOpened ==
    ASSUME BaseInv, StreamInv, NEW k \in Keys, subs[k] # 0, k \in conns
    PROVE  \E i \in 1 .. Len(sub) : \E n, a, z \in Nat : StreamParts(k, i, n, a, z)
<1>1. PICK i \in 1 .. Len(sub) : i = subs[k]
  BY StreamTypes
<1>2. PICK n \in Nat : n = Awaited(k)
  BY StreamTypes
<1>3. Streams(k)
  BY DEF StreamInv
<1>4. \E a, z \in Nat : /\ LaneFlow(lane, i, n, a) /\ HeldBy(sub[i], a, z)
                        /\ sub[i].open => z = printed[sub[i].frame] + 1
  BY <1>1, <1>2, <1>3, Zenon DEF Streams
<1> QED  BY <1>1, <1>2, <1>4, Zenon DEF StreamParts

\* A stream after the step, from its parts.
LEMMA StreamClosed ==
    ASSUME NEW k \in Keys, NEW i, NEW n \in Nat, NEW a \in Nat, NEW z \in Nat,
           subs'[k] = i, Awaited(k)' = n, LaneFlow(lane', i, n, a), HeldBy(sub'[i], a, z),
           sub'[i].open => z = printed'[sub'[i].frame] + 1
    PROVE  Streams(k)'
BY ZenonT(30) DEF Streams

\* A stream none of whose chunks move.
LEMMA QuietStream ==
    ASSUME BaseInv, StreamInv, conns' \subseteq conns, Narrowed, Spared, UNCHANGED <<printed, shown>>,
           \A k \in Keys : \A n, a \in Nat :
               subs'[k] # 0 /\ k \in conns' /\ LaneFlow(lane, subs[k], n, a) => LaneFlow(lane', subs[k], n, a)
    PROVE  StreamInv'
<1> SUFFICES ASSUME NEW k \in Keys, subs'[k] # 0, k \in conns'
             PROVE  Streams(k)'
  BY DEF StreamInv
<1>1. subs'[k] = subs[k] /\ Awaited(k)' = Awaited(k) /\ sub'[subs[k]] = sub[subs[k]]
  BY AwaitedSame, Zenon DEF Spared
<1>2. PICK i \in 1 .. Len(sub) : \E n, a, z \in Nat : StreamParts(k, i, n, a, z)
  BY <1>1, StreamOpened
<1>3. PICK n, a, z \in Nat : StreamParts(k, i, n, a, z)
  BY <1>2
<1>4. LaneFlow(lane', i, n, a)
  BY <1>3, Zenon DEF StreamParts
<1>5. subs'[k] = i /\ Awaited(k)' = n /\ sub'[i] = sub[i]
  BY <1>1, <1>3 DEF StreamParts
<1>6. HeldBy(sub'[i], a, z) /\ (sub'[i].open => z = printed'[sub'[i].frame] + 1)
  BY <1>3, <1>5 DEF StreamParts
<1> QED  BY Zenon, <1>4, <1>5, <1>6, StreamClosed

\* A goroutine moves the chunks of its own stream, and may send one of them.
LEMMA MovedStream ==
    ASSUME BaseInv, StreamInv, conns' \subseteq conns, NEW i \in 1 .. Len(sub), NEW fwd, NEW relay, NEW fan, NEW ch,
           Moved(i, fwd, relay, fan, ch), UNCHANGED <<subs, printed, shown>>,
           \A j \in 1 .. Len(sub) : \A n, a \in Nat :
               j # i /\ LaneFlow(lane, j, n, a) => LaneFlow(lane', j, n, a),
           \A n, a, z \in Nat : LaneFlow(lane, i, n, a) /\ HeldBy(sub[i], a, z) =>
               \E b \in Nat : LaneFlow(lane', i, n, b) /\ Held(fwd, relay, fan, ch, b, z)
    PROVE  StreamInv'
<1>1. /\ Narrowed /\ OnlyAt(sub, sub', i) /\ sub'[i].open = sub[i].open
      /\ sub'[i].fwdHeld = fwd /\ sub'[i].relay = relay /\ sub'[i].fanHeld = fan /\ sub'[i].ch = ch
  BY MovedNarrows DEF BaseInv
<1>2. sub'[i].frame = sub[i].frame
  BY <1>1 DEF Narrowed, Updated, Kept
<1> SUFFICES ASSUME NEW k \in Keys, subs'[k] # 0, k \in conns'
             PROVE  Streams(k)'
  BY DEF StreamInv
<1>3. subs'[k] = subs[k] /\ Awaited(k)' = Awaited(k)
  BY Zenon, <1>1, AwaitedSame
<1>4. PICK j \in 1 .. Len(sub) : \E n, a, z \in Nat : StreamParts(k, j, n, a, z)
  BY <1>3, StreamOpened
<1>5. PICK n, a, z \in Nat : StreamParts(k, j, n, a, z)
  BY <1>4
<1>6. subs'[k] = j /\ Awaited(k)' = n
  BY <1>3, <1>5 DEF StreamParts
<1>7. LaneFlow(lane, j, n, a) /\ HeldBy(sub[j], a, z) /\ (sub[j].open => z = printed[sub[j].frame] + 1)
  BY <1>5, Zenon DEF StreamParts
<1>8. CASE j # i
  <2>1. sub'[j] = sub[j]
    BY <1>1, <1>8 DEF OnlyAt
  <2>2. LaneFlow(lane', j, n, a)
    BY <1>7, <1>8, Zenon
  <2>3. HeldBy(sub'[j], a, z) /\ (sub'[j].open => z = printed'[sub'[j].frame] + 1)
    BY <1>7, <2>1
  <2> QED  BY Zenon, <1>6, <2>2, <2>3, StreamClosed
<1>9. CASE j = i
  <2>1. PICK b \in Nat : LaneFlow(lane', i, n, b) /\ Held(fwd, relay, fan, ch, b, z)
    BY <1>7, <1>9, ZenonT(30)
  <2>2. HeldBy(sub'[i], b, z)
    BY <1>1, <2>1, Zenon DEF HeldBy
  <2>3. sub'[i].open => z = printed'[sub'[i].frame] + 1
    BY <1>1, <1>2, <1>7, <1>9
  <2> QED  BY Zenon, <1>6, <1>9, <2>1, <2>2, <2>3, StreamClosed
<1> QED  BY <1>8, <1>9

\* The goroutines of a subscription hand on its chunks in order.
LEMMA GoroutineStream ==
    ASSUME BaseInv, StreamInv, conns' \subseteq conns, NEW i \in DOMAIN sub, Goroutine(i)
    PROVE  StreamInv'
<1>1. RelayTypes /\ CurrentInv /\ i \in 1 .. Len(sub) /\ i \in Nat /\ sub[i] \in Subscription /\ lane \in Seq(Event)
  <2>1. RelayTypes /\ CurrentInv
    BY Zenon DEF BaseInv
  <2>2. sub \in Seq(Subscription) /\ lane \in Seq(Event)
    BY <2>1, Zenon DEF RelayTypes
  <2>3. i \in 1 .. Len(sub) /\ i \in Nat /\ sub[i] \in Subscription
    BY <2>2
  <2> QED  BY <2>1, <2>2, <2>3, Zenon
<1>2. /\ sub[i].fwdHeld \in Seq(Nat) /\ sub[i].relay \in Seq(Nat)
      /\ sub[i].fanHeld \in Seq(Nat) /\ sub[i].ch \in Seq(Nat)
  BY <1>1 DEF Subscription
<1>3. CASE fanOutTake(i)
  <2>1. UNCHANGED <<printed, subs, lane, shown>> /\ sub[i].fanHeld = <<>> /\ sub[i].ch # <<>>
    BY <1>3 DEF fanOutTake, terminal
  <2>2. \A a, z \in Nat : HeldBy(sub[i], a, z) =>
            Held(sub[i].fwdHeld, sub[i].relay, <<Head(sub[i].ch)>>, Tail(sub[i].ch), a, z)
    BY <1>2, <2>1, HeldFanTaken DEF HeldBy
  <2>3. Moved(i, sub[i].fwdHeld, sub[i].relay, <<Head(sub[i].ch)>>, Tail(sub[i].ch))
    BY <1>1, <1>3, FanTakeEffect
  <2> QED  BY Zenon, <1>1, <2>1, <2>2, <2>3, MovedStream
<1>4. CASE fanOutPut(i)
  <2>1. UNCHANGED <<printed, lane, shown>>
    BY <1>4 DEF fanOutPut, terminal
  <2>2. \A a, z \in Nat : HeldBy(sub[i], a, z) =>
            Held(sub[i].fwdHeld, sub[i].relay \o sub[i].fanHeld, <<>>, sub[i].ch, a, z)
    BY <1>2, HeldFanPut DEF HeldBy
  <2>3. CASE Moved(i, sub[i].fwdHeld, sub[i].relay \o sub[i].fanHeld, <<>>, sub[i].ch) /\ UNCHANGED subs
    BY <1>1, <2>1, <2>2, <2>3, MovedStream
  <2>4. CASE Narrowed /\ Spared
    BY <2>1, <2>4, QuietStream
  <2> QED  BY <1>1, <1>4, <2>3, <2>4, FanPutEffect
<1>5. CASE fanOutClosed(i)
  <2>1. UNCHANGED <<printed, lane, shown>>
    BY <1>5 DEF fanOutClosed, terminal
  <2> QED  BY <1>1, <1>5, <2>1, FanClosedEffect, QuietStream
<1>6. CASE relayForwardTake(i)
  <2>1. UNCHANGED <<printed, subs, lane, shown>> /\ sub[i].fwdHeld = <<>> /\ sub[i].relay # <<>>
    BY <1>6 DEF relayForwardTake, terminal
  <2>2. \A a, z \in Nat : HeldBy(sub[i], a, z) =>
            Held(<<Head(sub[i].relay)>>, Tail(sub[i].relay), sub[i].fanHeld, sub[i].ch, a, z)
    BY <1>2, <2>1, HeldForwardTaken DEF HeldBy
  <2>3. Moved(i, <<Head(sub[i].relay)>>, Tail(sub[i].relay), sub[i].fanHeld, sub[i].ch)
    BY <1>1, <1>6, ForwardTakeEffect
  <2> QED  BY Zenon, <1>1, <2>1, <2>2, <2>3, MovedStream
<1>7. CASE relayForwardSend(i)
  <2>1. UNCHANGED <<printed, shown>> /\ sub[i].fwdHeld # <<>>
    BY <1>7 DEF relayForwardSend, terminal
  <2>2. CASE Narrowed /\ Spared /\ UNCHANGED lane
    BY <2>1, <2>2, QuietStream
  <2>3. CASE /\ Moved(i, <<>>, sub[i].relay, sub[i].fanHeld, sub[i].ch)
             /\ lane' = Append(lane, [kind |-> "output", id |-> i, n |-> Head(sub[i].fwdHeld)])
             /\ UNCHANGED <<subs, closing>>
    <3>1. PICK m \in Nat : m = Head(sub[i].fwdHeld)
      <4>1. \A q \in Seq(Nat) : q # <<>> => Head(q) \in Nat
        OBVIOUS
      <4> QED  BY <1>2, <2>1, <4>1
    <3> DEFINE out == [kind |-> "output", id |-> i, n |-> m]
    <3>a. out \in Event /\ out.kind = "output" /\ out.id = i /\ out.n = m
      BY <1>1 DEF Event
    <3>2. PICK e \in Event : /\ e = [kind |-> "output", id |-> i, n |-> m]
                             /\ e.kind = "output" /\ e.id = i /\ e.n = m
      BY <3>a
    <3>3. lane' = Append(lane, e)
      BY <2>3, <3>1, <3>2
    <3>4. ASSUME NEW j \in 1 .. Len(sub), NEW n \in Nat, NEW a \in Nat, j # i, LaneFlow(lane, j, n, a)
          PROVE  LaneFlow(lane', j, n, a)
      <4>1. ~Output(e, j)
        BY <3>2, <3>4 DEF Output
      <4>2. j \in Nat
        OBVIOUS
      <4> QED  BY <1>1, <3>3, <3>4, <4>1, <4>2, LaneAppendOther
    <3>5. ASSUME NEW n \in Nat, NEW a \in Nat, NEW z \in Nat, LaneFlow(lane, i, n, a), HeldBy(sub[i], a, z)
          PROVE  \E b \in Nat : LaneFlow(lane', i, n, b) /\ Held(<<>>, sub[i].relay, sub[i].fanHeld, sub[i].ch, b, z)
      <4>a. Held(sub[i].fwdHeld, sub[i].relay, sub[i].fanHeld, sub[i].ch, a, z)
        BY <3>5 DEF HeldBy
      <4>b. Head(sub[i].fwdHeld) = a /\ Held(<<>>, sub[i].relay, sub[i].fanHeld, sub[i].ch, a + 1, z)
        BY <1>2, <2>1, <4>a, HeldForwardSent
      <4>1. m = a /\ Held(<<>>, sub[i].relay, sub[i].fanHeld, sub[i].ch, a + 1, z)
        BY <3>1, <4>b
      <4>2. Output(e, i) /\ e.n = a
        BY <3>2, <4>1 DEF Output
      <4>3. LaneFlow(lane', i, n, a + 1)
        BY <1>1, <3>3, <3>5, <4>2, LaneAppendOwn
      <4>4. a + 1 \in Nat
        OBVIOUS
      <4> QED  BY <4>1, <4>3, <4>4
    <3> QED  BY <1>1, <2>1, <2>3, <3>4, <3>5, MovedStream
  <2> QED  BY <1>1, <1>7, <2>2, <2>3, ForwardSendEffect
<1> QED  BY <1>3, <1>4, <1>5, <1>6, <1>7 DEF Goroutine

\* The terminal prints to every stream that is open, or ends.
LEMMA TerminalStream ==
    ASSUME BaseInv, StreamInv, conns' \subseteq conns, NEW f \in Frames, SpawnFrame(f) \/ processChunk(f) \/ handleExit(f)
    PROVE  StreamInv'
<1>1. RelayTypes
  BY DEF BaseInv
<1>2. CASE SpawnFrame(f)
  <2>1. UNCHANGED <<printed, sub, subs, lane, shown>>
    BY <1>2 DEF SpawnFrame
  <2> QED  BY <1>1, <2>1, UnmovedEffect, QuietStream
<1>3. ASSUME Narrowed, UNCHANGED <<lane, shown>>,
             \A i \in 1 .. Len(sub) : PrintedTo(sub[i], sub'[i], printed[sub[i].frame], printed'[sub[i].frame])
      PROVE  StreamInv'
  <2> SUFFICES ASSUME NEW k \in Keys, subs'[k] # 0, k \in conns'
               PROVE  Streams(k)'
    BY DEF StreamInv
  <2>1. subs'[k] = subs[k] /\ Awaited(k)' = Awaited(k)
    BY <1>3, AwaitedSame
  <2>2. PICK i \in 1 .. Len(sub) : \E n, a, z \in Nat : StreamParts(k, i, n, a, z)
    BY <2>1, StreamOpened
  <2>3. PICK n, a, z \in Nat : StreamParts(k, i, n, a, z)
    BY <2>2
  <2>4. subs'[k] = i /\ Awaited(k)' = n /\ subs[k] = i /\ subs[k] # 0
    BY <2>1, <2>3, Zenon DEF StreamParts
  <2>5. LaneFlow(lane', i, n, a) /\ HeldBy(sub[i], a, z) /\ (sub[i].open => z = printed[sub[i].frame] + 1)
    BY <1>3, <2>3, ZenonT(30) DEF StreamParts
  <2>6. Kept(sub[i], sub'[i]) /\ sub'[i].frame = sub[i].frame
    BY <1>3 DEF Narrowed, Updated, Kept
  <2>7. CASE sub'[i] = sub[i] /\ (sub[i].open => printed'[sub[i].frame] = printed[sub[i].frame])
    <3>1. HeldBy(sub'[i], a, z) /\ (sub'[i].open => z = printed'[sub'[i].frame] + 1)
      BY <2>5, <2>7
    <3> QED  BY <2>4, <2>5, <3>1, StreamClosed
  <2>8. CASE SameHeld(sub[i], sub'[i]) /\ ~sub'[i].open
    <3>1. HeldBy(sub'[i], a, z) /\ (sub'[i].open => z = printed'[sub'[i].frame] + 1)
      BY <2>5, <2>8 DEF HeldBy, SameHeld
    <3> QED  BY <2>4, <2>5, <3>1, StreamClosed
  <2>9. CASE /\ sub[i].open /\ printed'[sub[i].frame] = printed[sub[i].frame] + 1
             /\ sub'[i].fwdHeld = sub[i].fwdHeld /\ sub'[i].relay = sub[i].relay
             /\ sub'[i].fanHeld = sub[i].fanHeld /\ sub'[i].ch = Append(sub[i].ch, printed[sub[i].frame] + 1)
    <3>1. z = printed[sub[i].frame] + 1
      BY <2>5, <2>9
    <3>2. /\ sub[i].fwdHeld \in Seq(Nat) /\ sub[i].relay \in Seq(Nat)
          /\ sub[i].fanHeld \in Seq(Nat) /\ sub[i].ch \in Seq(Nat)
      BY <2>4, StreamTypes
    <3>3. Held(sub[i].fwdHeld, sub[i].relay, sub[i].fanHeld, Append(sub[i].ch, z), a, z + 1)
      BY <2>5, <3>2, HeldPrinted DEF HeldBy
    <3>4. HeldBy(sub'[i], a, z + 1)
      BY <2>9, <3>1, <3>3, Zenon DEF HeldBy
    <3>5. z + 1 \in Nat /\ z + 1 = printed'[sub'[i].frame] + 1
      BY <2>6, <2>9, <3>1
    <3> QED  BY <2>4, <2>5, <3>4, <3>5, StreamClosed
  <2>10. PrintedTo(sub[i], sub'[i], printed[sub[i].frame], printed'[sub[i].frame])
    BY <1>3
  <2> QED  BY <2>7, <2>8, <2>9, <2>10, Zenon DEF PrintedTo
<1>4. CASE processChunk(f)
  <2>1. UNCHANGED <<lane, shown>>
    BY <1>4, Zenon DEF processChunk
  <2> QED  BY <1>1, <1>3, <1>4, <2>1, PrintEffect
<1>5. CASE handleExit(f)
  <2>1. UNCHANGED <<lane, shown, printed>>
    BY <1>5 DEF handleExit
  <2>2. Narrowed /\ \A i \in 1 .. Len(sub) : sub'[i] = sub[i] \/ (SameHeld(sub[i], sub'[i]) /\ ~sub'[i].open)
    BY <1>1, <1>5, ExitEffect
  <2>3. \A i \in 1 .. Len(sub) : PrintedTo(sub[i], sub'[i], printed[sub[i].frame], printed'[sub[i].frame])
    BY <2>1, <2>2 DEF PrintedTo
  <2> QED  BY <1>3, <2>1, <2>2, <2>3
<1> QED  BY <1>2, <1>4, <1>5

\* A closed event goes to the lane.
LEMMA ClosedSentStream ==
    ASSUME BaseInv, StreamInv, conns' \subseteq conns, NEW i \in 1 .. Len(sub), Narrowed, Spared, UNCHANGED <<printed, shown>>,
           lane' = Append(lane, [kind |-> "closed", id |-> i, n |-> 0])
    PROVE  StreamInv'
<1>1. lane \in Seq(Event) /\ i \in Nat
  BY SMTT(30) DEF BaseInv, RelayTypes
<1> DEFINE e == [kind |-> "closed", id |-> i, n |-> 0]
<1>2. e \in Event /\ \A j : ~Output(e, j)
  BY <1>1 DEF Event, Output
<1>3. lane' = Append(lane, e)
  OBVIOUS
<1> HIDE DEF e
<1>4. \A k \in Keys : \A n, a \in Nat :
          subs'[k] # 0 /\ k \in conns' /\ LaneFlow(lane, subs[k], n, a) => LaneFlow(lane', subs[k], n, a)
  <2> SUFFICES ASSUME NEW k \in Keys, NEW n \in Nat, NEW a \in Nat, LaneFlow(lane, subs[k], n, a)
               PROVE  LaneFlow(lane', subs[k], n, a)
    BY Zenon
  <2>1. subs[k] \in Nat
    BY DEF BaseInv, RelayTypes
  <2> QED  BY <1>1, <1>2, <1>3, <2>1, LaneAppendOther
<1> QED  BY <1>4, QuietStream

\* The loop takes an event from the lane that is no output of a current subscription.
LEMMA TakenStream ==
    ASSUME BaseInv, StreamInv, conns' \subseteq conns, Narrowed, Spared, UNCHANGED <<printed, shown>>,
           lane # <<>>, lane' = Tail(lane),
           \A k \in Keys : subs'[k] # 0 /\ k \in conns' => ~Output(Head(lane), subs[k])
    PROVE  StreamInv'
<1>1. lane \in Seq(Event)
  BY DEF BaseInv, RelayTypes
<1>2. \A k \in Keys : \A n, a \in Nat :
          subs'[k] # 0 /\ k \in conns' /\ LaneFlow(lane, subs[k], n, a) => LaneFlow(lane', subs[k], n, a)
  <2> SUFFICES ASSUME NEW k \in Keys, NEW n \in Nat, NEW a \in Nat, subs'[k] # 0, k \in conns',
                      LaneFlow(lane, subs[k], n, a)
               PROVE  LaneFlow(lane', subs[k], n, a)
    BY Zenon
  <2>1. subs[k] \in Nat /\ ~Output(Head(lane), subs[k])
    BY DEF BaseInv, RelayTypes
  <2> QED  BY <1>1, <2>1, LaneTailOther
<1> QED  BY <1>2, QuietStream

\* Output reaches its client, and it is the chunk the client waits for.
LEMMA BroadcastStream ==
    ASSUME BaseInv, StreamInv, conns' \subseteq conns, broadcastSurfaceFromInternal
    PROVE  StreamInv'
<1>1. RelayTypes /\ CurrentInv /\ lane \in Seq(Event) /\ shown \in [Keys -> [id : Nat, n : Nat]]
  BY DEF BaseInv, RelayTypes
<1>2. lane # <<>> /\ lane' = Tail(lane) /\ UNCHANGED printed /\ Head(lane).kind = "output"
  BY DEF broadcastSurfaceFromInternal, terminal
<1>3. Head(lane) \in Event /\ Head(lane).id \in 1 .. Len(sub)
  BY <1>1, <1>2, LaneTaken
<1>4. PICK i \in 1 .. Len(sub) : i = Head(lane).id
  BY <1>3
<1>5. PICK k \in Keys : k = sub[i].key
  BY <1>1, KeyOfSub
<1>6. PICK m \in Nat : m = Head(lane).n
  BY <1>3, EventNumber
<1>7. \A j \in Keys : subs[j] # 0 /\ Output(Head(lane), subs[j]) => j = k /\ subs[k] = i
  BY <1>1, <1>4, <1>5, CurrentSub DEF Output
<1>8. CASE subs[k] = i /\ shown' = [shown EXCEPT ![k] = [id |-> i, n |-> m]] /\ UNCHANGED <<subs, sub>>
  <2> SUFFICES ASSUME NEW j \in Keys, subs'[j] # 0, j \in conns'
               PROVE  Streams(j)'
    BY DEF StreamInv
  <2>1. Narrowed
    BY <1>1, <1>8, UnmovedEffect
  <2>2. PICK h \in 1 .. Len(sub) : \E n, a, z \in Nat : StreamParts(j, h, n, a, z)
    BY <1>8, StreamOpened
  <2>3. PICK n, a, z \in Nat : StreamParts(j, h, n, a, z)
    BY <2>2
  <2>4. subs'[j] = h /\ subs[j] = h /\ Awaited(j) = n /\ h \in Nat
    BY <1>8, <2>3 DEF StreamParts
  <2>5. LaneFlow(lane, h, n, a) /\ HeldBy(sub'[h], a, z) /\ (sub'[h].open => z = printed'[sub'[h].frame] + 1)
    BY <1>2, <1>8, <2>3 DEF StreamParts
  <2>6. CASE j = k
    <3>1. h = i /\ Output(Head(lane), h)
      BY <1>2, <1>4, <1>8, <2>4, <2>6 DEF Output
    <3>2. Head(lane).n = n /\ LaneFlow(lane', h, n + 1, a)
      BY <1>1, <1>2, <2>4, <2>5, <3>1, LaneTailOwn
    <3>3. shown'[k] = [id |-> i, n |-> m]
      BY <1>1, <1>8
    <3>4. shown'[k].id = subs'[k] /\ shown'[k].n = n
      BY <1>6, <2>4, <2>6, <3>1, <3>2, <3>3
    <3>5. Awaited(j)' = n + 1 /\ n + 1 \in Nat
      BY <2>6, <3>4 DEF Awaited
    <3> QED  BY Zenon, <2>4, <2>5, <3>2, <3>5, StreamClosed
  <2>7. CASE j # k
    <3>1. ~Output(Head(lane), h)
      BY <1>7, <1>8, <2>4, <2>7
    <3>2. LaneFlow(lane', h, n, a)
      BY <1>1, <1>2, <2>4, <2>5, <3>1, LaneTailOther
    <3>3. shown'[j] = shown[j]
      BY <1>1, <1>8, <2>7
    <3>4. Awaited(j)' = n
      BY <2>1, <2>4, <3>3, AwaitedSame
    <3> QED  BY <2>4, <2>5, <3>2, <3>4, StreamClosed
  <2> QED  BY <2>6, <2>7
<1>9. CASE UnsubscribeOwned(k) /\ UNCHANGED shown
  <2>1. Narrowed /\ Spared /\ subs' = [subs EXCEPT ![k] = 0]
    BY <1>1, <1>9, UnsubscribeEffect
  <2>2. \A j \in Keys : subs'[j] # 0 => j # k /\ subs[j] # 0
    BY <1>1, <2>1 DEF RelayTypes
  <2> QED  BY <1>2, <1>7, <1>9, <2>1, <2>2, TakenStream
<1>10. CASE ~(subs[k] = i /\ k \in conns) /\ UNCHANGED <<subs, sub, shown>>
  <2>1. Narrowed /\ Spared
    BY <1>1, <1>10, UnmovedEffect
  <2> QED  BY <1>2, <1>7, <1>10, <2>1, TakenStream
<1> QED  BY <1>4, <1>5, <1>6, <1>8, <1>9, <1>10 DEF broadcastSurfaceFromInternal,
            SeverByLoop, isActiveSub

\* A new stream starts with its snapshot; nothing in the lane is of it.
LEMMA SubscribeStream ==
    ASSUME BaseInv, StreamInv, conns' \subseteq conns, SubscribeOwned
    PROVE  StreamInv'
<1>1. RelayTypes /\ CurrentInv /\ lane \in Seq(Event) /\ \A p \in 1 .. Len(lane) : lane[p].id \in 1 .. Len(sub)
  BY DEF BaseInv, RelayTypes
<1>2. UNCHANGED <<printed, lane, shown>>
  BY <1>1, SubscribeEffect
<1>3. CASE UNCHANGED <<sub, subs>>
  BY <1>1, <1>2, <1>3, UnmovedEffect, QuietStream
<1>4. ASSUME NEW k \in Keys, subs[k] = 0, head \in Frames,
             sub' = Append(sub, NewSub(k)), subs' = [subs EXCEPT ![k] = Len(sub) + 1]
      PROVE  StreamInv'
  <2>1. /\ Len(sub) \in Nat
        /\ \A i \in 1 .. Len(sub) : sub'[i] = sub[i]
        /\ sub'[Len(sub) + 1] = NewSub(k) /\ NewSub(k).frame = head /\ NewSub(k).snap = printed[head]
        /\ subs'[k] = Len(sub) + 1 /\ \A j \in Keys : j # k => subs'[j] = subs[j]
    BY Zenon, <1>1, <1>4, AddedSub
  <2> SUFFICES ASSUME NEW j \in Keys, subs'[j] # 0, j \in conns'
               PROVE  Streams(j)'
    BY DEF StreamInv
  <2>2. CASE j = k
    <3>1. PICK c : c = Len(sub) + 1
      OBVIOUS
    <3>2. PICK n \in Nat : n = printed[head]
      BY <1>1, <1>4 DEF RelayTypes
    <3>3. shown[k].id # c
      BY <2>1, <3>1, SMTT(30) DEF BaseInv, ShownInv, RelayTypes
    <3>4. sub'[c] = NewSub(k) /\ subs'[k] = c
      BY <2>1, <3>1
    <3>5. Awaited(k)' = n
      BY <1>2, <2>1, <3>2, <3>3, <3>4 DEF Awaited
    <3>6. \A p \in 1 .. Len(lane) : ~Output(lane[p], c)
      BY <1>1, <2>1, <3>1, SMTT(30) DEF Output
    <3>7. LaneFlow(lane', c, n, n)
      BY <1>2, <3>6 DEF LaneFlow
    <3>8. HeldBy(sub'[c], n, n + 1)
      BY <3>2, <3>4, HeldSnapshot DEF HeldBy, NewSub
    <3>9. n + 1 \in Nat /\ n + 1 = printed'[sub'[c].frame] + 1
      BY <1>2, <2>1, <3>2, <3>4, SMTT(30)
    <3> QED  BY <2>2, <3>4, <3>5, <3>7, <3>8, <3>9, StreamClosed
  <2>3. CASE j # k
    <3>1. subs'[j] = subs[j] /\ subs[j] # 0
      BY <2>1, <2>3
    <3>2. PICK i \in 1 .. Len(sub) : \E n, a, z \in Nat : StreamParts(j, i, n, a, z)
      BY <3>1, StreamOpened
    <3>3. PICK n, a, z \in Nat : StreamParts(j, i, n, a, z)
      BY <3>2
    <3>4. subs'[j] = i /\ sub'[i] = sub[i] /\ subs[j] = i
      BY <2>1, <3>1, <3>3 DEF StreamParts
    <3>5. Awaited(j)' = n
      BY <1>2, <3>3, <3>4 DEF Awaited, StreamParts
    <3>6. LaneFlow(lane', i, n, a) /\ HeldBy(sub'[i], a, z) /\ (sub'[i].open => z = printed'[sub'[i].frame] + 1)
      BY <1>2, <3>3, <3>4 DEF StreamParts
    <3> QED  BY <3>4, <3>5, <3>6, StreamClosed
  <2> QED  BY <2>2, <2>3
<1> QED  BY <1>1, <1>3, <1>4, SubscribeEffect

\* The loop's other steps move no chunk.
LEMMA EventStream ==
    ASSUME BaseInv, StreamInv, conns' \subseteq conns, Narrowed, Spared, UNCHANGED <<printed, shown, lane>>
    PROVE  StreamInv'
BY QuietStream

\* The event loop hands on the chunks of a client in order.
LEMMA LoopStream ==
    ASSUME BaseInv, StreamInv, conns' \subseteq conns, LoopStep \/ surfaceClosed \/ sendInternalNow
    PROVE  StreamInv'
<1>1. RelayTypes /\ CurrentInv
  BY DEF BaseInv
<1>2. CASE sendInternalNow
  <2>1. PICK c \in closing : /\ lane' = Append(lane, [kind |-> "closed", id |-> c.id, n |-> 0])
                             /\ UNCHANGED <<printed, subs, sub, shown>>
    BY <1>2 DEF sendInternalNow, terminal
  <2>2. c.id \in 1 .. Len(sub)
    BY <1>1 DEF RelayTypes
  <2> QED  BY <1>1, <2>1, <2>2, UnmovedEffect, ClosedSentStream
<1>3. CASE LoopSend
  <2>1. /\ lane' = Append(lane, [kind |-> "closed", id |-> loop.send, n |-> 0]) /\ loop.send # 0
        /\ UNCHANGED <<printed, subs, sub, shown>>
    BY <1>3 DEF LoopSend, terminal
  <2>2. loop.send \in 1 .. Len(sub)
    BY <1>1, <2>1, SMTT(30) DEF RelayTypes
  <2> QED  BY <1>1, <2>1, <2>2, UnmovedEffect, ClosedSentStream
<1>4. ASSUME NEW k \in Keys, reconcileSurfaceRelay(k)
      PROVE  StreamInv'
  <2>1. UnsubscribeOwned(k) /\ UNCHANGED <<printed, shown, lane>>
    BY <1>4 DEF reconcileSurfaceRelay, terminal
  <2> QED  BY <1>1, <2>1, UnsubscribeEffect, EventStream
<1>5. CASE surfaceClosed
  <2>1. /\ lane # <<>> /\ lane' = Tail(lane) /\ Head(lane).kind = "closed" /\ UNCHANGED <<printed, shown>>
    BY <1>5 DEF surfaceClosed, terminal
  <2>2. PICK i \in 1 .. Len(sub) : i = Head(lane).id
    BY <1>1, <2>1, LaneTaken
  <2>3. PICK k \in Keys : k = sub[i].key
    BY <1>1, KeyOfSub
  <2>4. reduceSurfaceUnsubscribe(k) \/ UNCHANGED <<subs, sub>>
    BY <1>5, <2>2, <2>3 DEF surfaceClosed
  <2>5. Narrowed /\ Spared
    BY <1>1, <2>4, UnsubscribedEffect, UnmovedEffect
  <2>6. \A j \in Keys : ~Output(Head(lane), subs[j])
    BY <2>1 DEF Output
  <2> QED  BY <2>1, <2>5, <2>6, TakenStream
<1> QED  BY <1>2, <1>3, <1>4, <1>5, SubscribeStream DEF LoopStep

\* The clients' commands keep the order of the chunks on their way.
LEMMA CommandStream ==
    ASSUME BaseInv, StreamInv, conns' \subseteq conns, NEW k \in Keys,
           reduceSurfaceSubscribe(k) \/ CmdSurfaceUnsubscribe(k) \/ handleConnClose(k)
    PROVE  StreamInv'
<1>1. RelayTypes /\ CurrentInv
  BY DEF BaseInv
<1>2. UNCHANGED <<printed, shown, lane>>
  BY DEF reduceSurfaceSubscribe, CmdSurfaceUnsubscribe, handleConnClose, terminal
<1>3. UNCHANGED <<sub, subs>> \/ reduceSurfaceUnsubscribe(k)
  BY Zenon DEF reduceSurfaceSubscribe, CmdSurfaceUnsubscribe, handleConnClose
<1> QED  BY <1>1, <1>2, <1>3, UnsubscribedEffect, UnmovedEffect, EventStream

\* Every step keeps the order of the chunks on their way.
LEMMA StreamStep ==
    ASSUME BaseInv, StreamInv, [Next]_vars
    PROVE  StreamInv'
<1> conns' \subseteq conns
  BY ConnsStep
<1>1. CASE \E f \in Frames : SpawnFrame(f) \/ processChunk(f) \/ handleExit(f)
  BY <1>1, TerminalStream
<1>2. CASE \E i \in DOMAIN sub : Goroutine(i)
  BY <1>2, GoroutineStream
<1>3. CASE sendInternalNow \/ LoopStep
  BY <1>3, LoopStream
<1>4. CASE LoopReceive
  BY <1>4, BroadcastStream, LoopStream DEF LoopReceive
<1>5. CASE \E k \in Keys : reduceSurfaceSubscribe(k) \/ CmdSurfaceUnsubscribe(k) \/ handleConnClose(k)
  BY <1>5, CommandStream
<1>6. CASE UNCHANGED vars \/ Tick \/ \E f \in Frames \cup {NoFrame} : HeadMoves(f)
  <2>1. RelayTypes
    BY DEF BaseInv
  <2>2. UNCHANGED <<printed, shown, lane, sub, subs>>
    BY <1>6 DEF vars, terminal, Tick, HeadMoves
  <2> QED  BY <2>1, <2>2, UnmovedEffect, EventStream
<1> QED  BY <1>1, <1>2, <1>3, <1>4, <1>5, <1>6, Zenon DEF Next

\* The output a client is sent is the chunk it waits for.
LEMMA GaplessStep ==
    ASSUME BaseInv, StreamInv, [Next]_vars, NEW k \in Keys, shown'[k] # shown[k]
    PROVE  IF shown'[k].id = shown[k].id THEN shown'[k].n = shown[k].n + 1
           ELSE shown'[k].id > shown[k].id /\ shown'[k].n = sub[shown'[k].id].snap
<1>1. /\ lane # <<>> /\ k \in conns /\ subs[k] # 0 /\ Output(Head(lane), subs[k])
      /\ shown'[k] = [id |-> subs[k], n |-> Head(lane).n]
  BY ShownChange, Zenon
<1>2. shown'[k].id = subs[k] /\ shown'[k].n = Head(lane).n
  <2>1. \A r, x, y : r = [id |-> x, n |-> y] => r.id = x /\ r.n = y
    OBVIOUS
  <2> QED  BY <1>1, <2>1, Zenon
<1>3. lane \in Seq(Event) /\ subs[k] \in Nat /\ shown[k].id \in Nat /\ shown[k].id <= subs[k]
  BY <1>1 DEF BaseInv, RelayTypes, ShownInv
<1>4. PICK i \in 1 .. Len(sub) : \E n, a, z \in Nat : StreamParts(k, i, n, a, z)
  BY Zenon, <1>1, StreamOpened
<1>5. PICK n, a, z \in Nat : StreamParts(k, i, n, a, z)
  BY <1>4
<1>6. subs[k] = i /\ Awaited(k) = n /\ LaneFlow(lane, i, n, a)
  BY <1>5 DEF StreamParts
<1>7. Head(lane).n = n
  BY <1>1, <1>3, <1>6, LaneTailOwn
<1>8. shown[k].id # subs[k] => subs[k] > shown[k].id
  BY <1>3
<1> QED  BY <1>2, <1>6, <1>7, <1>8 DEF Awaited

\* What a client is sent of a subscription is its snapshot and then every chunk printed
\* since, in order: a hop that is full ends the subscription and leaves no gap in it.
THEOREM OutputHasNoGaps == Spec => GaplessOutput
<1>1. Init => BaseInv /\ StreamInv
  <2>1. Init => \A k \in Keys : subs[k] = 0
    BY DEF Init
  <2> QED  BY <2>1, BaseInit DEF StreamInv
<1>2. BaseInv /\ StreamInv /\ [Next]_vars => BaseInv' /\ StreamInv'
  BY BaseStep, StreamStep
<1>3. BaseInv /\ StreamInv /\ [Next]_vars =>
        [\A k \in Keys : shown'[k] # shown[k] =>
            LET was == shown[k]  is == shown'[k]
            IN  IF is.id = was.id THEN is.n = was.n + 1
                ELSE is.id > was.id /\ is.n = sub[is.id].snap]_vars
  <2> SUFFICES ASSUME BaseInv, StreamInv, [Next]_vars
               PROVE  \A k \in Keys : shown'[k] # shown[k] =>
                          IF shown'[k].id = shown[k].id THEN shown'[k].n = shown[k].n + 1
                          ELSE shown'[k].id > shown[k].id /\ shown'[k].n = sub[shown'[k].id].snap
    BY Zenon
  <2> QED  BY GaplessStep, Zenon
<1> QED  BY <1>1, <1>2, <1>3, PTL DEF Spec, GaplessOutput
=============================================================================
