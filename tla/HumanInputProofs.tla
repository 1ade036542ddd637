-------------------------- MODULE HumanInputProofs --------------------------
(* What a client's or an agent's request is answered, for any number of    *)
(* them. HumanInput: the agent hears the decision that was recorded, a     *)
(* teardown answers the approvals it removes, and the reducer loses track  *)
(* of a held request only through a full event channel or another request  *)
(* with the same item. TerminalLifecycle: a revision is given at most one terminal    *)
(* outcome, for every record limit and owner cap.                          *)
EXTENDS HumanInput, TerminalLifecycle, SequenceTheorems, TLAPS

\* A leaf is tried with Zenon, then with SMT, then with SMT again and more time.
USE ZenonT(5), SMT, SMTT(30)

\* What an entry may record and what a held request may be answered with
Recordable == Decision \cup {"none"}
Reply == Decision \cup {"error"}
Outcome == {"resolved", "expired", "cancelled"}

\* A "requested" event is the only one of its request and of the frame it was routed
\* to; what is "resolved" is not held any more.
EventsInv ==
    /\ \A n \in 1 .. Len(events) : events[n].type = "requested" =>
          /\ routed[events[n].req] = {events[n].frame}
          /\ request[events[n].req] # "unsent"
    /\ \A m, n \in 1 .. Len(events) :
          /\ events[m].type = "requested" /\ events[n].type = "requested"
          /\ events[m].req = events[n].req
          => m = n
    /\ \A n \in 1 .. Len(events) : events[n].type = "resolved" =>
          /\ request[events[n].req] # "unsent"
          /\ \A i \in Item : events[n].req \notin held[i]

\* The reducer hears of r only after the n-th event.
HeardAfter(r, i, n) ==
    /\ \A e \in entry[i] : e.req # r
    /\ \A m \in 1 .. Len(events) :
          events[m].type = "requested" /\ events[m].req = r => n < m

\* A request that is held for an item came after every withdrawal of that item which
\* the reducer has still to hear of.
OrderInv ==
    \A n \in 1 .. Len(events) : events[n].type = "resolved" =>
        \A i \in Item : \A r \in held[i] :
            ItemOf[events[n].req] = i => HeardAfter(r, i, n)

\* An entry is of a request of its item whose event has been reduced.
EntryInv ==
    \A i \in Item : \A e \in entry[i] :
        /\ ItemOf[e.req] = i /\ routed[e.req] = {e.frame} /\ request[e.req] # "unsent"
        /\ ~queued("requested", e.req)

\* A request that is held is held under its item, was routed and has no answer.
HeldInv ==
    \A i \in Item : \A r \in held[i] :
        /\ ItemOf[r] = i /\ routed[r] # {}
        /\ request[r] \notin {"unsent"} \cup Decision

\* The item of a decided request keeps its settled entry while the session has frames.
DecidedInv ==
    \A r \in Request : request[r] \in Decision =>
        /\ \A e \in entry[ItemOf[r]] : e.status # "pending"
        /\ entry[ItemOf[r]] # {} \/ frames = {}

RequestsInv ==
    /\ TypeOK /\ EventsInv /\ OrderInv /\ EntryInv /\ HeldInv
    /\ AnswerIsRecorded /\ DecidedInv

-----------------------------------------------------------------------------
(* What the helpers of the handlers do *)

\* What is left of the queue when its first event has been taken.
LEMMA TailItems ==
    ASSUME NEW T, NEW s \in Seq(T), s # <<>>
    PROVE  /\ Tail(s) \in Seq(T) /\ Head(s) \in T
           /\ Len(Tail(s)) = Len(s) - 1
           /\ 1 \in 1 .. Len(s) /\ Head(s) = s[1]
           /\ \A n \in 1 .. Len(Tail(s)) : n + 1 \in 1 .. Len(s) /\ Tail(s)[n] = s[n + 1]
           /\ \A n \in 1 .. Len(s) : n # 1 => n - 1 \in 1 .. Len(Tail(s)) /\ Tail(s)[n - 1] = s[n]
<1>1. Len(s) \in Nat /\ Len(s) # 0
  BY EmptySeq
<1>2. Tail(s) \in Seq(T) /\ Len(Tail(s)) = Len(s) - 1
  BY <1>1, HeadTailProperties
<1>3. \A n \in 1 .. Len(Tail(s)) : Tail(s)[n] = s[n + 1]
  BY HeadTailProperties
<1> QED
  BY <1>1, <1>2, <1>3, HeadTailProperties, SMTT(30)

\* The events of the queue name requests and frames.
LEMMA EventItems ==
    ASSUME TypeOK
    PROVE  \A n \in 1 .. Len(events) :
              /\ events[n] \in Event
              /\ events[n].req \in Request /\ events[n].frame \in Frame
              /\ events[n].type \in {"requested", "resolved"}
<1>1. \A n \in 1 .. Len(events) : events[n] \in Event
  BY ElementOfSeq DEF TypeOK
<1> QED
  BY <1>1 DEF Event

\* emit appends an event or drops it; with room it appends (Enqueue).
LEMMA EmitItems ==
    ASSUME TypeOK, NEW type \in {"requested", "resolved"}, NEW r \in Request, NEW f \in Frame,
           emit(type, r, f)
    PROVE  /\ events' \in Seq(Event)
           /\ \A n \in 1 .. Len(events) : n \in 1 .. Len(events') /\ events'[n] = events[n]
           /\ \A n \in 1 .. Len(events') :
                 \/ n \in 1 .. Len(events)
                 \/ n = Len(events) + 1 /\ events'[n] = [type |-> type, req |-> r, frame |-> f]
           /\ Len(events) < EventCap =>
                 /\ Len(events) + 1 \in 1 .. Len(events')
                 /\ events'[Len(events) + 1] = [type |-> type, req |-> r, frame |-> f]
<1> DEFINE ev == [type |-> type, req |-> r, frame |-> f]
<1>1. ev \in Event /\ events \in Seq(Event) /\ Len(events) \in Nat
  BY SMTT(30) DEF Event, TypeOK
<1>2. /\ Append(events, ev) \in Seq(Event)
      /\ Len(Append(events, ev)) = Len(events) + 1
      /\ \A n \in 1 .. Len(events) : Append(events, ev)[n] = events[n]
      /\ Append(events, ev)[Len(events) + 1] = ev
  BY <1>1, AppendProperties, SMTT(30)
<1>3. events' = IF Len(events) < EventCap THEN Append(events, ev) ELSE events
  BY DEF emit
<1> HIDE DEF ev
<1> QED
  BY <1>1, <1>2, <1>3 DEF ev

\* An entry with another status and decision
Settled(e, status, d) == [e EXCEPT !.status = status, !.decision = d]

\* The entries of the items I have the status and the decision a, or q for a question;
\* nothing else has changed.
EntriesSettled(I, status, a, q) ==
    /\ entry' \in [Item -> SUBSET Entry]
    /\ \A i \in Item : \A x, y \in entry'[i] : x = y
    /\ \A i \in Item : \A x \in entry'[i] : \E e \in entry[i] :
          /\ x.req = e.req /\ x.frame = e.frame
          /\ i \notin I => x = e
          /\ i \in I => /\ x.status = status
                        /\ x.decision = IF i \in Questions THEN q ELSE a
    /\ \A i \in Item : entry[i] # {} => entry'[i] # {}
    /\ \A i \in Item \ I : entry'[i] = entry[i]

\* settle changes status and decision of the entries of the items I (applyResponse).
LEMMA SettledEntries ==
    ASSUME TypeOK, NEW I \in SUBSET Item,
           NEW status \in Outcome, NEW a \in Recordable, NEW q \in Recordable,
           settle(I, status, a, q)
    PROVE  EntriesSettled(I, status, a, q)
<1> DEFINE decided(i) == IF i \in Questions THEN q ELSE a
           put(e, i) == Settled(e, status, decided(i))
<1>1. /\ entry' = [i \in Item |-> IF i \in I THEN {put(e, i) : e \in entry[i]} ELSE entry[i]]
  BY Zenon DEF settle, Settled
<1>2. /\ \A i \in Item : entry[i] \subseteq Entry
      /\ \A i \in Item : \A x, y \in entry[i] : x = y
  BY DEF TypeOK
<1>3. \A i \in Item : \A e \in entry[i] :
         /\ put(e, i) \in Entry /\ put(e, i).req = e.req /\ put(e, i).frame = e.frame
         /\ put(e, i).status = status /\ put(e, i).decision = decided(i)
  <2> TAKE i \in Item
  <2> TAKE e \in entry[i]
  <2>1. e \in Entry /\ decided(i) \in Recordable
    BY <1>2
  <2>2. PICK w \in Recordable : w = decided(i)
    BY <2>1
  <2>3. Settled(e, status, w) = put(e, i)
    BY <2>2
  <2> HIDE DEF decided, put
  <2>4. /\ Settled(e, status, w) \in Entry
        /\ Settled(e, status, w).req = e.req /\ Settled(e, status, w).frame = e.frame
        /\ Settled(e, status, w).status = status /\ Settled(e, status, w).decision = w
    BY <2>1, Zenon DEF Settled, Entry, Recordable, Outcome
  <2> QED
    BY <2>2, <2>3, <2>4
<1> HIDE DEF put
<1>4. \A i \in I : entry'[i] = {put(e, i) : e \in entry[i]}
  BY <1>1
<1>5. \A i \in Item \ I : entry'[i] = entry[i]
  BY <1>1
<1>6. \A i \in Item : \A x \in entry'[i] : \E e \in entry[i] :
                 /\ x \in Entry
                 /\ x.req = e.req /\ x.frame = e.frame
                 /\ i \notin I => x = e
                 /\ i \in I => x = put(e, i) /\ x.status = status /\ x.decision = decided(i)
  <2> TAKE i \in Item
  <2> TAKE x \in entry'[i]
  <2>1. CASE i \in I
    <3>1. PICK e \in entry[i] : x = put(e, i)
      BY <2>1, <1>4
    <3> WITNESS e \in entry[i]
    <3> QED
      BY <3>1, <2>1, <1>3
  <2>2. CASE i \notin I
    BY <2>2, <1>5, <1>2
  <2> QED
    BY <2>1, <2>2
<1>7. entry' \in [Item -> SUBSET Entry]
  <2>1. entry' = [i \in Item |-> entry'[i]]
    BY <1>1
  <2>2. \A i \in Item : entry'[i] \subseteq Entry
    BY <1>6
  <2> QED
    BY <2>1, <2>2
<1>8. \A i \in Item : \A x, y \in entry'[i] : x = y
  BY <1>6, <1>2, SMTT(30)
<1>9. \A i \in Item : entry[i] # {} => entry'[i] # {}
  BY <1>4, <1>5, SMTT(30)
<1> QED
  BY <1>5, <1>6, <1>7, <1>8, <1>9 DEF decided, EntriesSettled

\* The requests held for the items I are let go, each with the answer a, or q for a
\* question, or none.
HeldAnswered(I, a, q) ==
    /\ request' \in [Request -> {"unsent", "open", "error", "withdrawn", "lost"} \cup Decision]
    /\ held' \in [Item -> SUBSET Request]
    /\ \A i \in Item : \A r \in held'[i] : held'[i] = {r}
    /\ \A i \in I : held'[i] = {}
    /\ \A i \in Item \ I : held'[i] = held[i]
    /\ \A r \in Request :
          \/ request'[r] = request[r]
          \/ /\ ItemOf[r] \in I /\ r \in held[ItemOf[r]]
             /\ request'[r] = IF ItemOf[r] \in Questions THEN q ELSE a

\* replyHeld answers the requests held for the items I and forgets them
\* (ReplyHeldApproval, ReplyHeldQuestion).
LEMMA RepliesToHeld ==
    ASSUME TypeOK, NEW I \in SUBSET Item,
           NEW a \in Reply, NEW q \in Reply,
           replyHeld(I, a, q)
    PROVE  HeldAnswered(I, a, q)
  BY DEF replyHeld, TypeOK, Reply, HeldAnswered

\* A step that decides nothing and leaves the entries of decided requests alone, or
\* ends the session, keeps what is known of decisions.
LEMMA DecisionsKept ==
    ASSUME AnswerIsRecorded, DecidedInv,
           \A r \in Request : request'[r] \in Decision => request[r] = request'[r],
           \A r \in Request : routed[r] # {} => routed'[r] # {},
           \A r \in Request : request[r] \in Decision =>
               \/ entry'[ItemOf[r]] = entry[ItemOf[r]]
               \/ entry'[ItemOf[r]] = {} /\ frames' = {},
           frames = {} => frames' = {}
    PROVE  AnswerIsRecorded' /\ DecidedInv'
<1>1. DecidedInv'
  BY DEF DecidedInv
<1>2. \A r \in Request : Repeated(r) => Repeated(r)'
  BY DEF Repeated
<1>3. ASSUME NEW r \in Request, request'[r] \in Decision
      PROVE  /\ \A e \in entry'[ItemOf[r]] :
                   e.decision = request'[r] /\ (e.req = r \/ Repeated(r)')
             /\ \A s \in Request :
                   ItemOf[s] = ItemOf[r] /\ request'[s] \in Decision => s = r
  <2>1. request[r] = request'[r] /\ request[r] \in Decision
    BY <1>3
  <2>2. /\ \A e \in entry[ItemOf[r]] :
              e.decision = request[r] /\ (e.req = r \/ Repeated(r))
        /\ \A s \in Request :
              ItemOf[s] = ItemOf[r] /\ request[s] \in Decision => s = r
    BY <2>1, Zenon DEF AnswerIsRecorded
  <2>3. entry'[ItemOf[r]] \subseteq entry[ItemOf[r]]
    BY <2>1
  <2> QED
    BY <1>2, <2>1, <2>2, <2>3
<1> QED
  BY <1>1, <1>3, Zenon DEF AnswerIsRecorded

\* A step that leaves the queue alone, holds no new request and makes no entry of
\* another request keeps the order.
LEMMA OrderKept ==
    ASSUME OrderInv, UNCHANGED events, \A i \in Item : held'[i] \subseteq held[i],
           \A i \in Item : \A x \in entry'[i] : \E e \in entry[i] : x.req = e.req
    PROVE  OrderInv'
<1> SUFFICES ASSUME NEW n \in 1 .. Len(events), events[n].type = "resolved",
                    NEW i \in Item, NEW r \in held'[i], ItemOf[events[n].req] = i
             PROVE  HeardAfter(r, i, n)'
  BY DEF OrderInv
<1>1. HeardAfter(r, i, n)
  BY DEF OrderInv
<1> QED
  BY <1>1 DEF HeardAfter

\* Answers for items whose entries are pending are recorded in these entries, first
\* writer wins (reduceApprovalRespond, reduceApprovalCancel, expirePendingApprovals and
\* the same for questions).
LEMMA SettleKeeps ==
    ASSUME RequestsInv,
           NEW I \in SUBSET PendingEntries, NEW status \in Outcome,
           NEW a \in Recordable, NEW q \in Recordable, NEW b \in Reply, NEW c \in Reply,
           b \in {a, "error"}, c \in {q, "error"},
           settle(I, status, a, q), replyHeld(replied(I, bound), b, c),
           UNCHANGED <<frames, bound, conn, routed, events>>
    PROVE  RequestsInv'
<1> DEFINE R == replied(I, bound)
<1>0. I \in SUBSET Item /\ R \in SUBSET I
  BY DEF PendingEntries, replied
<1>1. /\ TypeOK /\ EventsInv /\ OrderInv /\ EntryInv /\ HeldInv
      /\ AnswerIsRecorded /\ DecidedInv
  BY DEF RequestsInv
<1>2. /\ request' \in [Request -> {"unsent", "open", "error", "withdrawn", "lost"} \cup Decision]
      /\ held' \in [Item -> SUBSET Request]
      /\ \A i \in Item : \A r \in held'[i] : held'[i] = {r}
      /\ \A i \in R : held'[i] = {}
      /\ \A i \in Item \ R : held'[i] = held[i]
      /\ \A r \in Request :
            \/ request'[r] = request[r]
            \/ /\ ItemOf[r] \in R /\ r \in held[ItemOf[r]]
               /\ request'[r] = IF ItemOf[r] \in Questions THEN c ELSE b
  <2>1. R \in SUBSET Item /\ replyHeld(R, b, c)
    BY <1>0
  <2> HIDE DEF R
  <2> QED
    <3>1. HeldAnswered(R, b, c)
      BY <1>1, <2>1, RepliesToHeld
    <3> QED
      BY <3>1 DEF HeldAnswered
<1>3. /\ entry' \in [Item -> SUBSET Entry]
      /\ \A i \in Item : \A x, y \in entry'[i] : x = y
      /\ \A i \in Item : \A x \in entry'[i] : \E e \in entry[i] :
            /\ x.req = e.req /\ x.frame = e.frame
            /\ i \notin I => x = e
            /\ i \in I => x.status = status /\ x.decision = IF i \in Questions THEN q ELSE a
      /\ \A i \in Item : entry[i] # {} => entry'[i] # {}
      /\ \A i \in Item \ I : entry'[i] = entry[i]
  <2>1. EntriesSettled(I, status, a, q)
    BY <1>0, <1>1, SettledEntries
  <2> QED
    BY <2>1 DEF EntriesSettled
<1>4. TypeOK'
  BY <1>1, <1>2, <1>3, Zenon DEF TypeOK
\* A request that is answered now is held for an item of I, whose entry is of a request
\* of that item.
<1>5. ASSUME NEW r \in Request, request'[r] # request[r]
      PROVE  /\ ItemOf[r] \in I /\ ItemOf[r] \in Item /\ held[ItemOf[r]] = {r}
             /\ entry[ItemOf[r]] # {}
             /\ \A e \in entry[ItemOf[r]] : e.req = r \/ Repeated(r)
             /\ request'[r] = IF ItemOf[r] \in Questions THEN c ELSE b
  <2>1. /\ ItemOf[r] \in R /\ r \in held[ItemOf[r]]
        /\ request'[r] = IF ItemOf[r] \in Questions THEN c ELSE b
    BY <1>2, <1>5
  <2>2. ItemOf[r] \in I /\ ItemOf[r] \in Item /\ entry[ItemOf[r]] # {}
    BY <2>1, <1>0 DEF replied
  <2>3. held[ItemOf[r]] = {r}
    BY <2>1, <2>2, <1>1 DEF TypeOK
  <2>4. \A e \in entry[ItemOf[r]] :
           e.req \in Request /\ ItemOf[e.req] = ItemOf[r] /\ routed[e.req] # {}
    <3> TAKE e \in entry[ItemOf[r]]
    <3>1. ItemOf[e.req] = ItemOf[r] /\ routed[e.req] = {e.frame}
      BY <2>2, <1>1, Zenon DEF EntryInv
    <3>2. e.req \in Request
      BY <2>2, <1>1, SMTT(30) DEF TypeOK, Entry
    <3> QED
      BY <3>1, <3>2
  <2> QED
    BY <2>1, <2>2, <2>3, <2>4 DEF Repeated
<1> HIDE DEF R
<1>6. EventsInv' /\ OrderInv'
  <2>2. \A r \in Request : request[r] # "unsent" => request'[r] # "unsent"
    BY <1>2 DEF Reply, Decision
  <2>3. \A i \in Item : held'[i] \subseteq held[i]
    BY <1>2
  <2>4. \A n \in 1 .. Len(events) : events[n].req \in Request
    BY <1>1, EventItems
  <2>5. EventsInv'
    BY <2>2, <2>3, <2>4, <1>1, Zenon DEF EventsInv
  <2>6. \A i \in Item : \A x \in entry'[i] : \E e \in entry[i] : x.req = e.req
    BY <1>3, SMTT(30)
  <2>7. OrderInv'
    BY <1>1, <2>3, <2>6, OrderKept, Zenon
  <2> QED
    BY <2>5, <2>7
<1>7. EntryInv'
  <2> SUFFICES ASSUME NEW i \in Item, NEW x \in entry'[i]
               PROVE  /\ ItemOf[x.req] = i /\ routed[x.req] = {x.frame}
                      /\ request'[x.req] # "unsent"
                      /\ ~queued("requested", x.req)
    BY SMTT(30) DEF EntryInv, queued
  <2>1. PICK e \in entry[i] : x.req = e.req /\ x.frame = e.frame
    BY <1>3, SMTT(30)
  <2>2. /\ ItemOf[e.req] = i /\ routed[e.req] = {e.frame} /\ request[e.req] # "unsent"
        /\ ~queued("requested", e.req)
    BY <1>1 DEF EntryInv
  <2>3. e.req \in Request
    BY <1>1, SMTT(30) DEF TypeOK, Entry
  <2>4. request'[e.req] # "unsent"
    BY <2>2, <2>3, <1>2 DEF Reply, Decision
  <2> QED
    BY <2>1, <2>2, <2>4
<1>8. HeldInv'
  <2> SUFFICES ASSUME NEW i \in Item, NEW r \in held'[i]
               PROVE  /\ ItemOf[r] = i /\ routed[r] # {}
                      /\ request'[r] \notin {"unsent"} \cup Decision
    BY DEF HeldInv
  <2>1. i \notin R /\ r \in held[i] /\ r \in Request
    BY <1>1, <1>2 DEF TypeOK
  <2>2. ItemOf[r] = i /\ routed[r] # {} /\ request[r] \notin {"unsent"} \cup Decision
    BY <2>1, <1>1 DEF HeldInv
  <2> QED
    BY <2>1, <2>2, <1>2
\* What is pending has not been decided.
<1>9. \A r \in Request : request[r] \in Decision => ItemOf[r] \notin I
  BY <1>1 DEF DecidedInv, PendingEntries
<1>10. DecidedInv'
  <2> SUFFICES ASSUME NEW r \in Request, request'[r] \in Decision
               PROVE  /\ \A x \in entry'[ItemOf[r]] : x.status # "pending"
                      /\ entry'[ItemOf[r]] # {} \/ frames = {}
    BY DEF DecidedInv
  <2>0. ItemOf[r] \in Item
    BY ConstantsAssumption
  <2>1. CASE request'[r] = request[r]
    <3>1. entry'[ItemOf[r]] = entry[ItemOf[r]]
      BY <2>0, <2>1, <1>3, <1>9
    <3> QED
      BY <2>1, <3>1, <1>1, Zenon DEF DecidedInv
  <2>2. CASE request'[r] # request[r]
    <3>1. ItemOf[r] \in I /\ entry[ItemOf[r]] # {}
      BY <2>2, <1>5
    <3> QED
      BY <2>0, <3>1, <1>3, SMTT(30) DEF Outcome
  <2> QED
    BY <2>1, <2>2
<1>11. AnswerIsRecorded'
  <2>1. ASSUME NEW r \in Request, request'[r] \in Decision, NEW x \in entry'[ItemOf[r]]
        PROVE  x.decision = request'[r] /\ (x.req = r \/ Repeated(r))
    <3>0. ItemOf[r] \in Item
      BY ConstantsAssumption
    <3>1. CASE request'[r] = request[r]
      <4>1. x \in entry[ItemOf[r]]
        BY <3>0, <3>1, <2>1, <1>3, <1>9
      <4> QED
        BY <3>1, <4>1, <2>1, <1>1, Zenon DEF AnswerIsRecorded
    <3>2. CASE request'[r] # request[r]
      <4>1. /\ ItemOf[r] \in I
            /\ \A e \in entry[ItemOf[r]] : e.req = r \/ Repeated(r)
            /\ request'[r] = IF ItemOf[r] \in Questions THEN c ELSE b
        BY <3>2, <1>5
      <4>2. PICK e \in entry[ItemOf[r]] :
               x.req = e.req /\ x.decision = IF ItemOf[r] \in Questions THEN q ELSE a
        BY <4>1, <3>0, <2>1, <1>3, SMTT(30)
      <4>3. x.req = r \/ Repeated(r)
        BY <4>1, <4>2
      <4>4. x.decision = request'[r]
        BY <4>1, <4>2, <2>1 DEF Decision
      <4> QED
        BY <4>3, <4>4
    <3> QED
      BY <3>1, <3>2
  <2>2. ASSUME NEW r \in Request, NEW s \in Request, ItemOf[s] = ItemOf[r],
               request'[r] \in Decision, request'[s] \in Decision
        PROVE  s = r
    <3>1. CASE request'[r] = request[r] /\ request'[s] = request[s]
      BY <2>2, <3>1, <1>1, Zenon DEF AnswerIsRecorded
    <3>2. CASE request'[r] # request[r] /\ request'[s] # request[s]
      BY <2>2, <3>2, <1>5
    <3>3. CASE request'[r] # request[r] /\ request'[s] = request[s]
      BY <2>2, <3>3, <1>5, <1>9
    <3>4. CASE request'[r] = request[r] /\ request'[s] # request[s]
      BY <2>2, <3>4, <1>5, <1>9
    <3> QED
      BY <3>1, <3>2, <3>3, <3>4
  <2>3. \A r \in Request : Repeated(r)' = Repeated(r)
    BY DEF Repeated
  <2> QED
    BY <2>1, <2>2, <2>3, Zenon DEF AnswerIsRecorded
<1> QED
  BY <1>4, <1>6, <1>7, <1>8, <1>10, <1>11 DEF RequestsInv

\* A teardown or a stopped backend answers with errors, and at most removes entries
\* (evictChildFrame, evictRootFrame, stopBackend).
LEMMA ErrorsKeep ==
    ASSUME RequestsInv, NEW J \in SUBSET Item, replyHeld(J, "error", "error"),
           entry' \in [Item -> SUBSET Entry],
           \A i \in Item : \/ entry'[i] = entry[i]
                           \/ entry'[i] = {} /\ (i \in PendingEntries \/ frames' = {}),
           frames' \subseteq frames, bound' \subseteq frames', conn' \in BOOLEAN,
           UNCHANGED <<routed, events>>
    PROVE  RequestsInv'
<1>1. /\ TypeOK /\ EventsInv /\ OrderInv /\ EntryInv /\ HeldInv
      /\ AnswerIsRecorded /\ DecidedInv
  BY DEF RequestsInv
<1>2. "error" \in Reply
  BY DEF Reply
<1>3. HeldAnswered(J, "error", "error")
  BY <1>1, <1>2, RepliesToHeld
<1>4. TypeOK'
  <2>1. /\ request' \in [Request -> {"unsent", "open", "error", "withdrawn", "lost"} \cup Decision]
        /\ held' \in [Item -> SUBSET Request]
        /\ \A i \in Item : \A r \in held'[i] : held'[i] = {r}
    BY <1>3 DEF HeldAnswered
  <2>2. \A i \in Item : \A x, y \in entry'[i] : x = y
    BY <1>1 DEF TypeOK
  <2> QED
    BY <1>1, <2>1, <2>2, Zenon DEF TypeOK
<1>5. /\ \A r \in Request : request'[r] = request[r] \/ request'[r] = "error"
      /\ \A i \in Item : held'[i] \subseteq held[i]
      /\ \A i \in Item : \A r \in held'[i] :
            r \in Request /\ (ItemOf[r] = i => request'[r] = request[r])
  BY <1>1, <1>3 DEF HeldAnswered, TypeOK
<1>6. "error" \notin {"unsent"} \cup Decision
  BY DEF Decision
<1>7. EventsInv'
  <2>1. \A n \in 1 .. Len(events') : events'[n].req \in Request /\ events'[n] = events[n]
    BY <1>1, EventItems
  <2>2. \A n \in 1 .. Len(events') : events'[n].type = "requested" =>
            /\ routed'[events'[n].req] = {events'[n].frame}
            /\ request'[events'[n].req] # "unsent"
    BY <1>1, <1>5, <1>6, <2>1, SMTT(30) DEF EventsInv
  <2>3. \A n \in 1 .. Len(events') : events'[n].type = "resolved" =>
            /\ request'[events'[n].req] # "unsent"
            /\ \A i \in Item : events'[n].req \notin held'[i]
    <3>1. ASSUME NEW n \in 1 .. Len(events), events[n].type = "resolved"
          PROVE  /\ request'[events[n].req] # "unsent"
                 /\ \A i \in Item : events[n].req \notin held'[i]
      <4>1. request[events[n].req] # "unsent" /\ \A i \in Item : events[n].req \notin held[i]
        BY <1>1, <3>1 DEF EventsInv
      <4>2. \/ request'[events[n].req] = request[events[n].req]
            \/ request'[events[n].req] = "error"
        BY <1>5, <2>1
      <4>3. "error" # "unsent"
        OBVIOUS
      <4> QED  BY <1>5, <4>1, <4>2, <4>3
    <3> QED  BY <3>1
  <2> QED  BY <1>1, <2>2, <2>3 DEF EventsInv
<1>8. EntryInv'
  <2>1. \A i \in Item : \A e \in entry[i] : e.req \in Request
    BY <1>1, SMTT(30) DEF TypeOK, Entry
  <2> QED
    BY <2>1, <1>1, <1>5, <1>6, SMTT(30) DEF EntryInv, queued
<1>9. HeldInv'
  BY <1>1, <1>5, SMTT(30) DEF HeldInv
<1>10. OrderInv'
  <2>1. \A i \in Item : \A x \in entry'[i] : \E e \in entry[i] : x.req = e.req
    OBVIOUS
  <2> QED
    BY <1>1, <1>5, <2>1, OrderKept, Zenon
<1>11. AnswerIsRecorded' /\ DecidedInv'
  <2>1. \A r \in Request : request[r] \in Decision =>
           \/ entry'[ItemOf[r]] = entry[ItemOf[r]]
           \/ entry'[ItemOf[r]] = {} /\ frames' = {}
    BY <1>1, ConstantsAssumption DEF DecidedInv, PendingEntries
  <2>2. \A r \in Request : request'[r] \in Decision => request[r] = request'[r]
    BY <1>5, <1>6
  <2> QED
    BY <1>1, <2>1, <2>2, DecisionsKept, Zenon
<1> QED
  BY <1>4, <1>7, <1>8, <1>9, <1>10, <1>11 DEF RequestsInv

\* handleRequest holds a request nobody has heard of yet under its item.
LEMMA RequestKeeps ==
    ASSUME RequestsInv, NEW r \in Request, handleRequest(r)
    PROVE  RequestsInv'
<1>1. /\ TypeOK /\ EventsInv /\ OrderInv /\ EntryInv /\ HeldInv
      /\ AnswerIsRecorded /\ DecidedInv
  BY DEF RequestsInv
<1>2. ItemOf[r] \in Item /\ request[r] = "unsent"
  BY ConstantsAssumption DEF handleRequest
<1>3. /\ \A n \in 1 .. Len(events) : events[n].req # r
      /\ \A i \in Item : \A e \in entry[i] : e.req # r
      /\ \A i \in Item : r \notin held[i]
  BY <1>1, <1>2, EventItems, SMTT(30) DEF EventsInv, EntryInv, HeldInv
<1>4. ASSUME NEW f \in frameForRequest(r),
             request' = [request EXCEPT ![r] = "open"],
             routed' = [routed EXCEPT ![r] = {f}],
             held' = [held EXCEPT ![ItemOf[r]] = {r}],
             emit("requested", r, f),
             UNCHANGED <<frames, bound, conn, entry>>
      PROVE  RequestsInv'
  <2>1. f \in Frame
    BY <1>1 DEF frameForRequest, TypeOK
  <2>2. /\ events' \in Seq(Event)
        /\ \A n \in 1 .. Len(events) : n \in 1 .. Len(events') /\ events'[n] = events[n]
        /\ \A n \in 1 .. Len(events') :
              \/ n \in 1 .. Len(events)
              \/ n = Len(events) + 1 /\ events'[n] = [type |-> "requested", req |-> r, frame |-> f]
    BY <1>1, <1>4, <2>1, EmitItems
  <2>3. /\ \A s \in Request : s # r => request'[s] = request[s] /\ routed'[s] = routed[s]
        /\ request'[r] = "open" /\ routed'[r] = {f}
        /\ \A i \in Item : i # ItemOf[r] => held'[i] = held[i]
        /\ held'[ItemOf[r]] = {r}
    BY <1>1, <1>2, <1>4, SMTT(30) DEF TypeOK
  <2>4. TypeOK'
    <3>1. /\ request' \in [Request -> {"unsent", "open", "error", "withdrawn", "lost"} \cup Decision]
          /\ routed' \in [Request -> SUBSET Frame]
          /\ held' \in [Item -> SUBSET Request]
      BY <1>1, <1>2, <1>4, <2>1, SMTT(30) DEF TypeOK
    <3>2. \A i \in Item : \A s \in held'[i] : held'[i] = {s}
      BY <1>1, <2>3 DEF TypeOK
    <3> QED
      BY <1>1, <1>4, <2>2, <3>1, <3>2, SMTT(30) DEF TypeOK
  <2>5. "open" \notin {"unsent"} \cup Decision
    BY DEF Decision
  <2>6. EventsInv'
    <3>1. \A n \in 1 .. Len(events') : events'[n].req = r =>
             /\ n = Len(events) + 1 /\ n \notin 1 .. Len(events)
             /\ events'[n].type = "requested" /\ events'[n].frame = f
      BY <1>1, <1>3, <2>2, SMTT(30) DEF TypeOK
    <3>2. \A n \in 1 .. Len(events') : events'[n].req # r =>
             n \in 1 .. Len(events) /\ events'[n] = events[n] /\ events[n].req \in Request
      BY <1>1, <2>2, EventItems, SMTT(30)
    <3>3. \A n \in 1 .. Len(events') : events'[n].type = "requested" =>
             /\ routed'[events'[n].req] = {events'[n].frame}
             /\ request'[events'[n].req] # "unsent"
      <4> TAKE n \in 1 .. Len(events')
      <4>1. CASE events'[n].req = r
        BY <4>1, <2>3, <2>5, <3>1
      <4>2. CASE events'[n].req # r
        BY <4>2, <1>1, <2>3, <3>2, SMTT(30) DEF EventsInv
      <4> QED
        BY <4>1, <4>2
    <3>4. \A m, n \in 1 .. Len(events') :
             /\ events'[m].type = "requested" /\ events'[n].type = "requested"
             /\ events'[m].req = events'[n].req
             => m = n
      BY <1>1, <3>1, <3>2, SMTT(30) DEF EventsInv
    <3>5. \A n \in 1 .. Len(events') : events'[n].type = "resolved" =>
             /\ request'[events'[n].req] # "unsent"
             /\ \A i \in Item : events'[n].req \notin held'[i]
      <4> TAKE n \in 1 .. Len(events')
      <4> HAVE events'[n].type = "resolved"
      <4>1. /\ n \in 1 .. Len(events) /\ events'[n] = events[n]
            /\ events[n].req \in Request /\ events[n].req # r
        BY <3>1, <3>2
      <4>2. request[events[n].req] # "unsent" /\ \A i \in Item : events[n].req \notin held[i]
        BY <4>1, <1>1, Zenon DEF EventsInv
      <4> QED
        BY <4>1, <4>2, <2>3
    <3> QED
      BY <3>3, <3>4, <3>5, Zenon DEF EventsInv
  <2>7. EntryInv'
    <3>1. \A i \in Item : \A e \in entry[i] : e.req \in Request /\ e.req # r
      BY <1>1, <1>3, SMTT(30) DEF TypeOK, Entry
    <3>2. \A s \in Request : s # r /\ queued("requested", s)' => queued("requested", s)
      BY <2>2 DEF queued
    <3> QED
      BY <1>1, <1>4, <2>3, <3>1, <3>2, SMTT(30) DEF EntryInv
  <2>8. HeldInv'
    <3> SUFFICES ASSUME NEW i \in Item, NEW s \in held'[i]
                 PROVE  /\ ItemOf[s] = i /\ routed'[s] # {}
                        /\ request'[s] \notin {"unsent"} \cup Decision
      BY DEF HeldInv
    <3>1. CASE s = r
      BY <3>1, <1>3, <2>3, <2>5
    <3>2. CASE s # r
      <4>1. s \in held[i] /\ s \in Request
        BY <3>2, <1>1, <2>3 DEF TypeOK
      <4> QED
        BY <4>1, <3>2, <1>1, <2>3 DEF HeldInv
    <3> QED
      BY <3>1, <3>2
  <2>9. AnswerIsRecorded' /\ DecidedInv'
    <3>1. /\ \A s \in Request : request'[s] \in Decision => request[s] = request'[s]
          /\ \A s \in Request : routed[s] # {} => routed'[s] # {}
      BY <2>3, <2>5
    <3> QED
      BY <1>1, <1>4, <3>1, DecisionsKept, Zenon
  <2>10. OrderInv'
    <3> SUFFICES ASSUME NEW n \in 1 .. Len(events'), events'[n].type = "resolved",
                        NEW i \in Item, NEW s \in held'[i], ItemOf[events'[n].req] = i
                 PROVE  HeardAfter(s, i, n)'
      BY Zenon DEF OrderInv
    <3>1. n \in 1 .. Len(events) /\ events'[n] = events[n]
      BY <2>2
    <3>2. CASE s = r
      <4>1. \A m \in 1 .. Len(events') : events'[m].req = r => m = Len(events) + 1
        BY <1>3, <2>2
      <4>2. n < Len(events) + 1
        BY <3>1, <1>1 DEF TypeOK
      <4> QED
        BY <1>3, <1>4, <3>2, <4>1, <4>2 DEF HeardAfter
    <3>3. CASE s # r
      <4>1. s \in held[i]
        BY <3>3, <2>3
      <4>2. \A m \in 1 .. Len(events') :
               events'[m].req = s => m \in 1 .. Len(events) /\ events'[m] = events[m]
        BY <3>3, <2>2
      <4>3. HeardAfter(s, i, n)
        BY <3>1, <4>1, <1>1, Zenon DEF OrderInv
      <4> QED
        BY <1>4, <4>2, <4>3 DEF HeardAfter
    <3> QED
      BY <3>2, <3>3
  <2> QED
    BY <2>4, <2>6, <2>7, <2>8, <2>9, <2>10 DEF RequestsInv
<1>5. CASE /\ request' = [request EXCEPT ![r] = "error"]
           /\ UNCHANGED <<routed, held, events, frames, bound, conn, entry>>
  <2>1. /\ \A s \in Request : s # r => request'[s] = request[s]
        /\ request'[r] = "error"
    BY <1>1, <1>5 DEF TypeOK
  <2>2. "error" \notin {"unsent"} \cup Decision
    BY DEF Decision
  <2>3. TypeOK'
    BY <1>1, <1>5 DEF TypeOK
  <2>4. EventsInv'
    BY <1>1, <1>5, <1>3, <2>1, EventItems, SMTT(30) DEF EventsInv
  <2>5. EntryInv'
    <3>1. \A i \in Item : \A e \in entry[i] : e.req \in Request /\ e.req # r
      BY <1>1, <1>3, SMTT(30) DEF TypeOK, Entry
    <3> QED
      BY <1>1, <1>5, <2>1, <3>1, SMTT(30) DEF EntryInv, queued
  <2>6. HeldInv'
    BY <1>1, <1>5, <2>1, <2>2 DEF HeldInv, TypeOK
  <2>7. AnswerIsRecorded' /\ DecidedInv'
    <3>1. \A s \in Request : request'[s] \in Decision => request[s] = request'[s]
      BY <2>1, <2>2
    <3> QED
      BY <1>1, <1>5, <3>1, DecisionsKept, Zenon
  <2>8. OrderInv'
    BY <1>1, <1>5, OrderKept
  <2> QED
    BY <2>3, <2>4, <2>5, <2>6, <2>7, <2>8 DEF RequestsInv
<1> QED
  BY <1>4, <1>5 DEF handleRequest

\* A request that the app-server withdraws is let go, and the reducer hears of it
\* (handleServerRequestResolved).
LEMMA WithdrawKeeps ==
    ASSUME RequestsInv, NEW r \in Request, handleServerRequestResolved(r)
    PROVE  RequestsInv'
<1>1. /\ TypeOK /\ EventsInv /\ OrderInv /\ EntryInv /\ HeldInv
      /\ AnswerIsRecorded /\ DecidedInv
  BY DEF RequestsInv
<1>2. /\ \A s \in Request : s # r => request'[s] = request[s]
      /\ request[r] = "open" /\ request'[r] = "withdrawn"
      /\ \A i \in Item : held'[i] = held[i] \ {r}
      /\ UNCHANGED <<frames, bound, conn, routed, entry>>
  BY <1>1 DEF handleServerRequestResolved, TypeOK
<1>3. /\ events' \in Seq(Event)
      /\ \A n \in 1 .. Len(events) : n \in 1 .. Len(events') /\ events'[n] = events[n]
      /\ \A n \in 1 .. Len(events') :
            \/ n \in 1 .. Len(events)
            \/ events'[n].type = "resolved" /\ events'[n].req = r /\ r \in held[ItemOf[r]]
  <2>1. CASE UNCHANGED events
    <3>1. events' \in Seq(Event)
      BY <2>1, <1>1 DEF TypeOK
    <3> QED
      BY <3>1, <2>1
  <2>2. CASE emit("resolved", r, ThreadOf[r])
    <3>0. UNCHANGED events \/ r \in held[ItemOf[r]]
      BY DEF handleServerRequestResolved
    <3>1. ThreadOf[r] \in Frame
      BY ConstantsAssumption
    <3>2. /\ events' \in Seq(Event)
          /\ \A n \in 1 .. Len(events) : n \in 1 .. Len(events') /\ events'[n] = events[n]
          /\ \A n \in 1 .. Len(events') :
                \/ n \in 1 .. Len(events)
                \/ n = Len(events) + 1
                   /\ events'[n] = [type |-> "resolved", req |-> r, frame |-> ThreadOf[r]]
      BY <1>1, <2>2, <3>1, EmitItems
    <3> QED
      BY <3>0, <3>2
  <2> QED
    BY <2>1, <2>2 DEF handleServerRequestResolved
<1>4. {"open", "withdrawn"} \cap ({"unsent"} \cup Decision) = {}
  BY DEF Decision
<1>5. TypeOK'
  <2>1. request' \in [Request -> {"unsent", "open", "error", "withdrawn", "lost"} \cup Decision]
    BY <1>1 DEF handleServerRequestResolved, TypeOK
  <2>2. held' \in [Item -> SUBSET Request]
    BY <1>1 DEF handleServerRequestResolved, TypeOK
  <2>3. \A i \in Item : \A s \in held'[i] : held'[i] = {s}
    BY <1>1, <1>2, SMTT(30) DEF TypeOK
  <2> QED
    BY <1>1, <1>2, <1>3, <2>1, <2>2, <2>3 DEF TypeOK
<1>6. \A s \in Request : request'[s] \in {"unsent"} \cup Decision =>
         s # r /\ request[s] = request'[s]
  BY <1>2, <1>4
<1>7. \A s \in Request : queued("requested", s)' => queued("requested", s)
  BY <1>3 DEF queued
<1>8. EventsInv'
  <2>1. \A n \in 1 .. Len(events) : events[n].req \in Request
    BY <1>1, EventItems
  <2>2. \A n \in 1 .. Len(events') : events'[n].type = "requested" =>
           n \in 1 .. Len(events) /\ events'[n] = events[n]
    BY <1>3
  <2>3. \A n \in 1 .. Len(events') : events'[n].type = "resolved" =>
           \/ events'[n].req = r
           \/ n \in 1 .. Len(events) /\ events'[n] = events[n]
    BY <1>3
  <2>4. \A n \in 1 .. Len(events') : events'[n].type = "resolved" =>
             /\ request'[events'[n].req] # "unsent"
             /\ \A i \in Item : events'[n].req \notin held'[i]
    BY <1>1, <1>2, <1>6, <2>1, <2>3, SMTT(30) DEF EventsInv
  <2>5. \A n \in 1 .. Len(events') : events'[n].type = "requested" =>
             /\ routed'[events'[n].req] = {events'[n].frame}
             /\ request'[events'[n].req] # "unsent"
    <3> TAKE n \in 1 .. Len(events')
    <3> HAVE events'[n].type = "requested"
    <3>1. n \in 1 .. Len(events) /\ events'[n] = events[n] /\ events[n].req \in Request
      BY <2>1, <2>2
    <3> QED
      BY <3>1, <1>1, <1>2, <1>6 DEF EventsInv
  <2> QED
    BY <1>1, <2>2, <2>4, <2>5 DEF EventsInv
<1>9. EntryInv'
  <2>1. \A i \in Item : \A e \in entry[i] : e.req \in Request
    BY <1>1, SMTT(30) DEF TypeOK, Entry
  <2> QED
    BY <1>1, <1>2, <1>6, <1>7, <2>1, SMTT(30) DEF EntryInv
<1>10. HeldInv'
  BY <1>1, <1>2, <1>6, SMTT(30) DEF HeldInv, TypeOK
<1>11. AnswerIsRecorded' /\ DecidedInv'
  BY <1>1, <1>2, <1>6, DecisionsKept, Zenon
<1>12. OrderInv'
  <2> SUFFICES ASSUME NEW n \in 1 .. Len(events'), events'[n].type = "resolved",
                      NEW i \in Item, NEW s \in held'[i], ItemOf[events'[n].req] = i
               PROVE  HeardAfter(s, i, n)'
    BY Zenon DEF OrderInv
  <2>1. s \in held[i] /\ s # r
    BY <1>2
  <2>2. n \in 1 .. Len(events)
    <3> SUFFICES ASSUME n \notin 1 .. Len(events) PROVE FALSE
      OBVIOUS
    <3>1. events'[n].req = r /\ r \in held[ItemOf[r]]
      BY <1>3
    <3>2. held[i] = {r}
      BY <3>1, <1>1 DEF TypeOK
    <3> QED
      BY <2>1, <3>2
  <2>3. \A m \in 1 .. Len(events') :
           events'[m].type = "requested" => m \in 1 .. Len(events) /\ events'[m] = events[m]
    BY <1>3
  <2>4. events'[n] = events[n]
    BY <1>3, <2>2
  <2>5. HeardAfter(s, i, n)
    BY <1>1, <2>1, <2>2, <2>4, Zenon DEF OrderInv
  <2> QED
    BY <1>2, <2>3, <2>5 DEF HeardAfter
<1> QED
  BY <1>5, <1>8, <1>9, <1>10, <1>11, <1>12 DEF RequestsInv

\* The reducer takes an event: it makes the one entry of the request, settles it or
\* leaves it (maybeCreate...FromSubsystem, maybeResolveHumanInputFromSubsystem).
LEMMA ReduceKeeps ==
    ASSUME RequestsInv, reduceSubsystem
    PROVE  RequestsInv'
<1>1. /\ TypeOK /\ EventsInv /\ OrderInv /\ EntryInv /\ HeldInv
      /\ AnswerIsRecorded /\ DecidedInv
  BY DEF RequestsInv
<1>2. /\ events # <<>> /\ events' = Tail(events)
      /\ UNCHANGED <<frames, bound, conn, request, routed, held>>
  BY DEF reduceSubsystem
<1>3. /\ events' \in Seq(Event) /\ Head(events) \in Event
      /\ 1 \in 1 .. Len(events) /\ Head(events) = events[1]
      /\ \A n \in 1 .. Len(events') : n + 1 \in 1 .. Len(events) /\ events'[n] = events[n + 1]
  BY <1>1, <1>2, TailItems, SMTT(30) DEF TypeOK
<1>4. EventsInv'
  <2>1. \A m, n \in 1 .. Len(events') : m + 1 = n + 1 => m = n
    OBVIOUS
  <2>2. \A n \in 1 .. Len(events') : events'[n].type = "requested" =>
            /\ routed'[events'[n].req] = {events'[n].frame}
            /\ request'[events'[n].req] # "unsent"
    BY <1>1, <1>2, <1>3, SMTT(30) DEF EventsInv
  <2>3. \A m, n \in 1 .. Len(events') :
            /\ events'[m].type = "requested" /\ events'[n].type = "requested"
            /\ events'[m].req = events'[n].req
            => m = n
    <3> SUFFICES ASSUME NEW m \in 1 .. Len(events'), NEW n \in 1 .. Len(events'),
                        events'[m].type = "requested", events'[n].type = "requested",
                        events'[m].req = events'[n].req
                 PROVE  m = n
      OBVIOUS
    <3>1. /\ m + 1 \in 1 .. Len(events) /\ events'[m] = events[m + 1]
          /\ n + 1 \in 1 .. Len(events) /\ events'[n] = events[n + 1]
      BY <1>3
    <3>2. m + 1 = n + 1
      BY <1>1, <3>1 DEF EventsInv
    <3> QED
      BY <2>1, <3>2
  <2>4. \A n \in 1 .. Len(events') : events'[n].type = "resolved" =>
            /\ request'[events'[n].req] # "unsent"
            /\ \A i \in Item : events'[n].req \notin held'[i]
    BY <1>1, <1>2, <1>3, SMTT(30) DEF EventsInv
  <2> QED
    BY <2>2, <2>3, <2>4 DEF EventsInv
<1>5. HeldInv'
  BY <1>1, <1>2 DEF HeldInv
<1>6. \A r : queued("requested", r)' => queued("requested", r)
  BY <1>3 DEF queued
<1>0. PICK ev \in Event : ev = Head(events)
  BY <1>3
<1>7. ev.req \in Request /\ ItemOf[ev.req] \in Item /\ ev.frame \in Frame
  BY <1>3, ConstantsAssumption DEF Event
\* Only the event that is reduced can make an entry for a request that is held.
<1>11. ASSUME \A i \in Item : \A x \in entry'[i] :
                 \/ \E e \in entry[i] : x.req = e.req
                 \/ x.req = ev.req /\ ev.type = "requested"
       PROVE  OrderInv'
  <2> SUFFICES ASSUME NEW n \in 1 .. Len(events'), events'[n].type = "resolved",
                      NEW i \in Item, NEW s \in held'[i], ItemOf[events'[n].req] = i
               PROVE  HeardAfter(s, i, n)'
    BY Zenon DEF OrderInv
  <2>1. /\ n + 1 \in 1 .. Len(events) /\ events[n + 1] = events'[n]
        /\ n \in Nat \ {0}
    BY <1>3
  <2>2. /\ \A e \in entry[i] : e.req # s
        /\ \A m \in 1 .. Len(events) :
              events[m].type = "requested" /\ events[m].req = s => n + 1 < m
    BY <2>1, <1>1, <1>2, Zenon DEF OrderInv, HeardAfter
  <2>3. ~(ev.type = "requested" /\ ev.req = s)
    <3>1. ~(n + 1 < 1)
      BY <2>1
    <3> QED
      BY <3>1, <2>2, <1>0, <1>3
  <2>4. \A x \in entry'[i] : x.req # s
    BY <1>11, <2>2, <2>3
  <2>5. ASSUME NEW m \in 1 .. Len(events'), events'[m].type = "requested", events'[m].req = s
        PROVE  n < m
    <3>1. m + 1 \in 1 .. Len(events) /\ events[m + 1] = events'[m]
      BY <1>3
    <3>2. n + 1 < m + 1
      BY <3>1, <2>2, <2>5
    <3> QED
      BY <3>2, <2>1
  <2> QED
    BY <2>4, <2>5 DEF HeardAfter
<1>8. CASE ev.frame \in frames /\ create(ev)
  <2> DEFINE x == [req |-> ev.req, frame |-> ev.frame, status |-> "pending", decision |-> "none"]
             i == ItemOf[ev.req]
  <2>1. /\ ev.type = "requested" /\ entry[i] = {}
        /\ entry' = [entry EXCEPT ![i] = {x}]
    BY <1>8 DEF create
  <2>2. x \in Entry
    BY <1>7 DEF Entry
  <2>3. /\ \A j \in Item : j # i => entry'[j] = entry[j]
        /\ entry'[i] = {x} /\ entry' \in [Item -> SUBSET Entry]
    BY <1>1, <1>7, <2>1, <2>2, SMTT(30) DEF TypeOK
  <2>4. /\ routed[ev.req] = {ev.frame} /\ request[ev.req] # "unsent"
        /\ ~queued("requested", ev.req)'
    <3>1. routed[ev.req] = {ev.frame} /\ request[ev.req] # "unsent"
      BY <1>0, <1>1, <1>3, <2>1, Zenon DEF EventsInv
    <3>2. \A n \in 1 .. Len(events') : events'[n].type = "requested" => events'[n].req # ev.req
      <4> SUFFICES ASSUME NEW n \in 1 .. Len(events'), events'[n].type = "requested",
                          events'[n].req = ev.req
                   PROVE  FALSE
        OBVIOUS
      <4>1. n + 1 \in 1 .. Len(events) /\ events[n + 1].type = "requested"
            /\ events[n + 1].req = events[1].req /\ events[1].type = "requested"
        BY <1>0, <1>3, <2>1
      <4>2. n + 1 = 1
        BY <1>1, <1>3, <4>1 DEF EventsInv
      <4> QED
        BY <4>2
    <3> QED
      BY <3>1, <3>2 DEF queued
  <2>5. x.req = ev.req /\ x.frame = ev.frame
    OBVIOUS
  <2> HIDE DEF x
  <2>6. TypeOK'
    <3>1. \A j \in Item : \A e1, e2 \in entry'[j] : e1 = e2
      BY <1>1, <2>3, SMTT(30) DEF TypeOK
    <3> QED
      BY <1>1, <1>2, <1>3, <2>3, <3>1 DEF TypeOK
  <2>7. EntryInv'
    <3> SUFFICES ASSUME NEW j \in Item, NEW e \in entry'[j]
                 PROVE  /\ ItemOf[e.req] = j /\ routed[e.req] = {e.frame}
                        /\ request[e.req] # "unsent"
                        /\ ~queued("requested", e.req)'
      BY <1>2 DEF EntryInv
    <3>1. CASE j = i
      BY <3>1, <2>3, <2>4, <2>5
    <3>2. CASE j # i
      BY <3>2, <2>3, <1>1, <1>6 DEF EntryInv
    <3> QED
      BY <3>1, <3>2
  <2>8. AnswerIsRecorded' /\ DecidedInv'
    <3>1. \A r \in Request : request[r] \in Decision => ItemOf[r] \in Item /\ ItemOf[r] # i
      BY <1>1, <1>8, <2>1, ConstantsAssumption DEF DecidedInv
    <3>2. \A r \in Request : request[r] \in Decision => entry'[ItemOf[r]] = entry[ItemOf[r]]
      BY <2>3, <3>1
    <3> QED
      BY <1>1, <1>2, <3>2, DecisionsKept, Zenon
  <2>9. OrderInv'
    <3>1. \A j \in Item : \A y \in entry'[j] :
             (\E e \in entry[j] : y.req = e.req) \/ (y.req = ev.req /\ ev.type = "requested")
      BY <2>1, <2>3, <2>5
    <3> QED
      BY <3>1, <1>11
  <2> QED
    BY <1>4, <1>5, <2>6, <2>7, <2>8, <2>9 DEF RequestsInv
<1>9. CASE resolve(ev)
  <2> DEFINE i == ItemOf[ev.req]
  <2>1. i \in PendingEntries /\ settle({i}, "resolved", "none", "none")
    BY <1>9 DEF resolve
  <2>2. "resolved" \in Outcome /\ "none" \in Recordable
    BY DEF Outcome, Recordable
  <2>3. {i} \in SUBSET Item
    BY <1>7
  <2>4. EntriesSettled({i}, "resolved", "none", "none")
    <3> HIDE DEF i
    <3> QED
      BY <1>1, <2>1, <2>2, <2>3, SettledEntries
  <2>5. /\ entry' \in [Item -> SUBSET Entry]
        /\ \A j \in Item : \A x, y \in entry'[j] : x = y
        /\ \A j \in Item : \A x \in entry'[j] : \E e \in entry[j] :
              /\ x.req = e.req /\ x.frame = e.frame
              /\ j # i => x = e
        /\ \A j \in Item : j # i => entry'[j] = entry[j]
    BY <2>4, SMTT(30) DEF EntriesSettled
  <2>6. TypeOK'
    BY <1>1, <1>2, <1>3, <2>5 DEF TypeOK
  <2>7. EntryInv'
    <3> SUFFICES ASSUME NEW j \in Item, NEW x \in entry'[j]
                 PROVE  /\ ItemOf[x.req] = j /\ routed[x.req] = {x.frame}
                        /\ request[x.req] # "unsent"
                        /\ ~queued("requested", x.req)'
      BY <1>2 DEF EntryInv
    <3>1. PICK e \in entry[j] : x.req = e.req /\ x.frame = e.frame
      BY <2>5, SMTT(30)
    <3> QED
      BY <3>1, <1>1, <1>6, SMTT(30) DEF EntryInv
  <2>8. AnswerIsRecorded' /\ DecidedInv'
    <3>1. \A r \in Request : request[r] \in Decision => ItemOf[r] \in Item /\ ItemOf[r] # i
      BY <1>1, <2>1, ConstantsAssumption DEF DecidedInv, PendingEntries
    <3>2. \A r \in Request : request[r] \in Decision => entry'[ItemOf[r]] = entry[ItemOf[r]]
      BY <2>5, <3>1
    <3> QED
      BY <1>1, <1>2, <3>2, DecisionsKept, Zenon
  <2>9. OrderInv'
    <3>1. \A j \in Item : \A x \in entry'[j] : \E e \in entry[j] : x.req = e.req
      BY <2>5, SMTT(30)
    <3> QED
      BY <3>1, <1>11, Zenon
  <2> QED
    BY <1>4, <1>5, <2>6, <2>7, <2>8, <2>9 DEF RequestsInv
<1>10. CASE ignore(ev)
  <2>1. UNCHANGED entry
    BY <1>10 DEF ignore
  <2>2. TypeOK'
    BY <1>1, <1>2, <1>3, <2>1 DEF TypeOK
  <2>3. EntryInv'
    BY <1>1, <1>2, <1>6, <2>1 DEF EntryInv
  <2>4. AnswerIsRecorded' /\ DecidedInv'
    BY <1>1, <1>2, <2>1, DecisionsKept, Zenon
  <2>5. OrderInv'
    BY <2>1, <1>11, Zenon
  <2> QED
    BY <1>4, <1>5, <2>2, <2>3, <2>4, <2>5 DEF RequestsInv
<1> QED
  BY <1>0, <1>8, <1>9, <1>10 DEF reduceSubsystem

-----------------------------------------------------------------------------
(* The steps *)

\* A response, a cancellation and an expiry settle pending entries and answer the
\* requests that are held for them, with what they record or with an error.
Settles(I, status, a, q, b, c) ==
    /\ status \in Outcome /\ a \in Recordable /\ q \in Recordable /\ b \in Reply /\ c \in Reply
    /\ b \in {a, "error"} /\ c \in {q, "error"}
    /\ I \in SUBSET PendingEntries
    /\ settle(I, status, a, q) /\ replyHeld(replied(I, bound), b, c)
    /\ UNCHANGED <<frames, bound, conn, routed, events>>

\* The steps that settle entries, brought under one form.
SettleStep == \E I \in SUBSET Item : \E status, a, q, b, c : Settles(I, status, a, q, b, c)

\* The response and expiry handlers are steps of that form.
LEMMA SettleSteps ==
    /\ \A i \in Item : reduceApprovalRespond(i) \/ reduceQuestionRespond(i) => SettleStep
    /\ \A i \in Item : reduceApprovalCancel(i) \/ reduceQuestionCancel(i) => SettleStep
    /\ \A I \in SUBSET Item : expire(I) => SettleStep
<1>0. /\ "resolved" \in Outcome /\ "cancelled" \in Outcome /\ "expired" \in Outcome
      /\ "deny" \in Recordable /\ "none" \in Recordable
      /\ "deny" \in Reply /\ "error" \in Reply
      /\ \A d \in {"accept", "deny", "answer"} : d \in Recordable /\ d \in Reply
  BY DEF Outcome, Recordable, Reply, Decision
<1>1. ASSUME NEW i \in Item, NEW d \in {"accept", "deny", "answer"}, respond(i, d)
      PROVE  SettleStep
  <2>1. {i} \in SUBSET Item /\ {i} \in SUBSET PendingEntries
    BY <1>1 DEF respond, responseTakes
  <2>2. Settles({i}, "resolved", d, d, d, d)
    BY <1>0, <1>1, <2>1 DEF Settles, respond
  <2> QED
    BY <2>1, <2>2 DEF SettleStep
<1>2. ASSUME NEW i \in Item, cancel(i)
      PROVE  SettleStep
  <2>1. {i} \in SUBSET Item /\ {i} \in SUBSET PendingEntries
    BY <1>2 DEF cancel
  <2>2. Settles({i}, "cancelled", "deny", "none", "error", "error")
    BY <1>0, <1>2, <2>1 DEF Settles, cancel
  <2> QED
    BY <2>1, <2>2 DEF SettleStep
<1>3. ASSUME NEW I \in SUBSET Item, expire(I)
      PROVE  SettleStep
  <2>1. Settles(I, "expired", "deny", "none", "deny", "error")
    BY <1>0, <1>3 DEF Settles, expire
  <2> QED
    BY <2>1 DEF SettleStep
<1> QED
  BY <1>1, <1>2, <1>3 DEF reduceApprovalRespond, reduceQuestionRespond, reduceApprovalCancel,
     reduceQuestionCancel

\* Every step keeps RequestsInv.
LEMMA StepKeeps ==
    ASSUME RequestsInv, [Next]_vars
    PROVE  RequestsInv'
<1>1. /\ TypeOK /\ EventsInv /\ OrderInv /\ EntryInv /\ HeldInv
      /\ AnswerIsRecorded /\ DecidedInv
  BY DEF RequestsInv
<1>2. CASE \E r \in Request : handleRequest(r) \/ handleServerRequestResolved(r)
  BY <1>2, RequestKeeps, WithdrawKeeps
<1>3. CASE reduceSubsystem
  BY <1>3, ReduceKeeps
<1>4. CASE SettleStep
  <2>0. PICK I \in SUBSET Item : \E status, a, q, b, c : Settles(I, status, a, q, b, c)
    BY <1>4 DEF SettleStep
  <2>1. PICK status, a, q, b, c : Settles(I, status, a, q, b, c)
    BY <2>0
  <2>2. /\ I \in SUBSET PendingEntries /\ status \in Outcome
        /\ a \in Recordable /\ q \in Recordable /\ b \in Reply /\ c \in Reply
        /\ b \in {a, "error"} /\ c \in {q, "error"}
        /\ settle(I, status, a, q) /\ replyHeld(replied(I, bound), b, c)
        /\ UNCHANGED <<frames, bound, conn, routed, events>>
    BY <2>1 DEF Settles
  <2> QED
    BY <2>2, SettleKeeps
<1>5. ASSUME NEW f \in Frame, evictChildFrame(f)
      PROVE  RequestsInv'
  <2> DEFINE J == replied(ApprovalsOf(f), bound) \cup replied(QuestionsOf(f), bound \ {f})
  <2>1. J \in SUBSET Item /\ replyHeld(J, "error", "error")
    BY <1>5 DEF evictChildFrame, reapChild, replied, ApprovalsOf, QuestionsOf, EntriesOf,
                PendingEntries
  <2>2. /\ entry' \in [Item -> SUBSET Entry]
        /\ \A i \in Item : entry'[i] = entry[i] \/ (entry'[i] = {} /\ i \in PendingEntries)
    BY <1>1, <1>5 DEF evictChildFrame, drop, TypeOK, EntriesOf
  <2>3. /\ frames' \subseteq frames /\ bound' \subseteq frames' /\ conn' \in BOOLEAN
        /\ UNCHANGED <<routed, events>>
    BY <1>1, <1>5 DEF evictChildFrame, TypeOK
  <2> HIDE DEF J
  <2> QED
    BY <2>1, <2>2, <2>3, ErrorsKeep
<1>6. CASE evictRootFrame
  <2> DEFINE J == replied(PendingEntries, bound)
  <2>1. J \in SUBSET Item /\ replyHeld(J, "error", "error")
    BY <1>6 DEF evictRootFrame, cancelForSession, replied, PendingEntries
  <2>2. entry' \in [Item -> SUBSET Entry] /\ \A i \in Item : entry'[i] = {} /\ frames' = {}
    BY <1>1, <1>6 DEF evictRootFrame, cancelForSession, drop, TypeOK
  <2>3. /\ frames' \subseteq frames /\ bound' \subseteq frames' /\ conn' \in BOOLEAN
        /\ UNCHANGED <<routed, events>>
    BY <1>1, <1>6 DEF evictRootFrame, TypeOK
  <2> HIDE DEF J
  <2> QED
    BY <2>1, <2>2, <2>3, ErrorsKeep
<1>7. CASE stopBackend
  <2>1. replyHeld(Item, "error", "error")
    BY <1>7 DEF stopBackend
  <2>2. entry' \in [Item -> SUBSET Entry] /\ \A i \in Item : entry'[i] = entry[i]
    BY <1>1, <1>7 DEF stopBackend, TypeOK
  <2>3. /\ frames' \subseteq frames /\ bound' \subseteq frames' /\ conn' \in BOOLEAN
        /\ UNCHANGED <<routed, events>>
    BY <1>1, <1>7, Zenon DEF stopBackend, TypeOK
  <2> QED
    BY <2>1, <2>2, <2>3, ErrorsKeep
<1>8. ASSUME frames' \subseteq frames, bound' \subseteq frames',
             UNCHANGED <<conn, request, routed, held, events, entry>>
      PROVE  RequestsInv'
  <2>1. TypeOK'
    BY <1>1, <1>8 DEF TypeOK
  <2>2. EventsInv' /\ HeldInv'
    BY <1>1, <1>8, Zenon DEF EventsInv, HeldInv
  <2>5. OrderInv'
    BY <1>1, <1>8, OrderKept
  <2>3. EntryInv'
    BY <1>1, <1>8, Zenon DEF EntryInv, queued
  <2>4. AnswerIsRecorded' /\ DecidedInv'
    <3>1. frames = {} => frames' = {}
      BY <1>8
    <3> QED
      BY <1>1, <1>8, <3>1, DecisionsKept, Zenon
  <2> QED
    BY <2>1, <2>2, <2>3, <2>4, <2>5 DEF RequestsInv
<1>9. CASE reduceStopSession \/ \E f \in Frame : frameCrashed(f)
  BY <1>1, <1>8, <1>9 DEF reduceStopSession, frameCrashed, TypeOK
<1>10. CASE appServerExits
  <2>1. /\ \A r \in Request : request'[r] \in {"unsent"} \cup Decision => request[r] = request'[r]
        /\ \A r \in Request : request[r] \in {"unsent"} => request'[r] = "unsent"
        /\ UNCHANGED <<frames, bound, routed, held, events, entry>>
    BY <1>1, <1>10 DEF appServerExits, TypeOK, Decision
  <2>2. TypeOK'
    BY <1>1, <1>10, Zenon DEF appServerExits, TypeOK
  <2>3. EventsInv'
    BY <1>1, <2>1, EventItems, Zenon DEF EventsInv
  <2>4. EntryInv'
    <3>1. \A i \in Item : \A e \in entry[i] : e.req \in Request
      BY <1>1, SMTT(30) DEF TypeOK, Entry
    <3> QED
      BY <1>1, <2>1, <3>1, SMTT(30) DEF EntryInv, queued
  <2>5. HeldInv'
    BY <1>1, <2>1 DEF HeldInv, TypeOK
  <2>7. OrderInv'
    BY <1>1, <2>1, OrderKept
  <2>6. AnswerIsRecorded' /\ DecidedInv'
    BY <1>1, <2>1, DecisionsKept, Zenon
  <2> QED
    BY <2>2, <2>3, <2>4, <2>5, <2>6, <2>7 DEF RequestsInv
<1>11. CASE UNCHANGED vars
  BY <1>1, <1>8, <1>11 DEF vars, TypeOK
<1> QED
  BY <1>2, <1>3, <1>4, <1>5, <1>6, <1>7, <1>9, <1>10, <1>11, SettleSteps DEF Next

\* The invariant holds initially and is kept.
LEMMA RequestsInvariant == Spec => []RequestsInv
<1>1. Init => RequestsInv
  <2> SUFFICES ASSUME Init PROVE RequestsInv
    OBVIOUS
  <2>1. TypeOK
    BY ConstantsAssumption, SMTT(30) DEF Init, TypeOK
  <2>2. \A r \in Request : request[r] \notin Decision
    BY DEF Init, Decision
  <2>3. AnswerIsRecorded /\ DecidedInv
    BY <2>2, Zenon DEF AnswerIsRecorded, DecidedInv
  <2>4. EventsInv /\ OrderInv /\ EntryInv /\ HeldInv
    BY DEF Init, EventsInv, OrderInv, EntryInv, HeldInv
  <2> QED
    BY <2>1, <2>3, <2>4 DEF RequestsInv
<1>2. RequestsInv /\ [Next]_vars => RequestsInv'
  BY StepKeeps
<1> QED
  BY <1>1, <1>2, PTL DEF Spec

\* The decision the agent hears is the one recorded first, one request of an item at
\* most hears it, and it is the request the clients were shown unless the app-server
\* has repeated the item: for any frames, requests and items and any capacity of the
\* event channel (reduceApprovalRespond, reduceQuestionRespond, handleRequest).
THEOREM RecordedAnswers == Spec => []AnswerIsRecorded
<1>1. RequestsInv => AnswerIsRecorded
  BY DEF RequestsInv
<1> QED
  BY <1>1, RequestsInvariant, PTL

-----------------------------------------------------------------------------
(* Held requests are tracked *)

\* The step makes the reducer lose track of r although eventCh had room for it and no
\* other request has an entry for its item.
Loses(r) ==
    /\ LostTrack(r)' /\ ~LostTrack(r)
    /\ ~(request[r] = "unsent" /\ Len(events) >= EventCap)
    /\ \A e \in entry[ItemOf[r]] : e.req = r

\* Such a step takes the event of r from the queue or its entry from pending.
LEMMA TrackTaken ==
    ASSUME NEW r \in Request, Loses(r), held'[ItemOf[r]] \subseteq held[ItemOf[r]],
           bound' \subseteq bound, UNCHANGED routed
    PROVE  /\ r \in held[ItemOf[r]] /\ r \in held'[ItemOf[r]]
           /\ routed[r] \subseteq bound /\ routed[r] \subseteq bound'
           /\ queued("requested", r) \/ ItemOf[r] \in PendingEntries
           /\ ~queued("requested", r)' /\ ItemOf[r] \notin PendingEntries'
           /\ \A e \in entry[ItemOf[r]] : e.req = r
  BY DEF Loses, LostTrack

\* An item whose entries do not change stays pending.
LEMMA PendingStays ==
    ASSUME NEW i \in PendingEntries, entry'[i] = entry[i]
    PROVE  i \in PendingEntries'
  BY DEF PendingEntries

\* A request that is held now is announced now (handleRequest), or the channel is full.
LEMMA RequestTracked ==
    ASSUME RequestsInv, NEW s \in Request, handleRequest(s), NEW r \in Request
    PROVE  ~Loses(r)
<1>1. TypeOK
  BY DEF RequestsInv
<1>2. UNCHANGED <<bound, entry>> /\ ItemOf[s] \in Item /\ ItemOf[r] \in Item /\ request[s] = "unsent"
  BY ConstantsAssumption DEF handleRequest
<1>3. PendingEntries' = PendingEntries
  BY <1>2 DEF PendingEntries
<1>4. ASSUME NEW f \in frameForRequest(s),
             routed' = [routed EXCEPT ![s] = {f}],
             held' = [held EXCEPT ![ItemOf[s]] = {s}],
             emit("requested", s, f), Loses(r)
      PROVE  FALSE
  <2>1. f \in Frame
    BY <1>1 DEF frameForRequest, TypeOK
  <2>2. /\ \A n \in 1 .. Len(events) : n \in 1 .. Len(events') /\ events'[n] = events[n]
        /\ Len(events) < EventCap =>
              /\ Len(events) + 1 \in 1 .. Len(events')
              /\ events'[Len(events) + 1] = [type |-> "requested", req |-> s, frame |-> f]
    BY <1>1, <1>4, <2>1, EmitItems
  <2>3. queued("requested", r) => queued("requested", r)'
    BY <2>2 DEF queued
  <2>4. CASE s = r
    <3>1. Len(events) < EventCap
      BY <2>4, <1>1, <1>2, <1>4, ConstantsAssumption DEF Loses, TypeOK
    <3>2. queued("requested", r)'
      BY <2>2, <2>4, <3>1 DEF queued
    <3> QED
      BY <3>2, <1>4 DEF Loses, LostTrack
  <2>5. CASE s # r
    <3>1. r \in held'[ItemOf[r]] => r \in held[ItemOf[r]]
      BY <2>5, <1>1, <1>2, <1>4, SMTT(30) DEF TypeOK
    <3>2. routed'[r] = routed[r]
      BY <2>5, <1>1, <1>4 DEF TypeOK
    <3> QED
      BY <1>2, <1>3, <1>4, <2>3, <3>1, <3>2 DEF Loses, LostTrack
  <2> QED
    BY <2>4, <2>5
<1>5. ASSUME UNCHANGED <<routed, held, events>>
      PROVE  ~Loses(r)
  <2>1. queued("requested", r)' = queued("requested", r)
    BY <1>5 DEF queued
  <2> QED
    BY <1>2, <1>3, <1>5, <2>1 DEF Loses, LostTrack
<1> QED
  BY <1>4, <1>5 DEF handleRequest

\* A withdrawn request is not held any more; the queue keeps its events.
LEMMA WithdrawTracked ==
    ASSUME RequestsInv, NEW s \in Request, handleServerRequestResolved(s), NEW r \in Request
    PROVE  ~Loses(r)
<1>1. TypeOK
  BY DEF RequestsInv
<1>2. /\ UNCHANGED <<bound, entry, routed>> /\ ItemOf[r] \in Item
      /\ \A i \in Item : held'[i] \subseteq held[i]
  BY ConstantsAssumption DEF handleServerRequestResolved
<1>3. queued("requested", r) => queued("requested", r)'
  <2>1. CASE UNCHANGED events
    BY <2>1 DEF queued
  <2>2. CASE emit("resolved", s, ThreadOf[s])
    <3>1. ThreadOf[s] \in Frame
      BY ConstantsAssumption
    <3>2. \A n \in 1 .. Len(events) : n \in 1 .. Len(events') /\ events'[n] = events[n]
      BY Zenon, <1>1, <2>2, <3>1, EmitItems
    <3> QED
      BY <3>2 DEF queued
  <2> QED
    BY <2>1, <2>2 DEF handleServerRequestResolved
<1>4. PendingEntries' = PendingEntries
  BY <1>2 DEF PendingEntries
<1> QED
  BY <1>2, <1>3, <1>4, TrackTaken

\* The event of a held request becomes its entry, unless its frame has gone or another
\* request has the entry.
LEMMA ReduceTracked ==
    ASSUME RequestsInv, reduceSubsystem, NEW r \in Request
    PROVE  ~Loses(r)
<1> SUFFICES ASSUME Loses(r) PROVE FALSE
  OBVIOUS
<1>1. TypeOK /\ EventsInv /\ OrderInv /\ EntryInv /\ HeldInv
  BY DEF RequestsInv
<1>2. /\ events # <<>> /\ events' = Tail(events)
      /\ UNCHANGED <<frames, bound, conn, request, routed, held>>
  BY DEF reduceSubsystem
<1>3. /\ Head(events) \in Event
      /\ 1 \in 1 .. Len(events) /\ Head(events) = events[1]
      /\ \A n \in 1 .. Len(events) : n # 1 => n - 1 \in 1 .. Len(events') /\ events'[n - 1] = events[n]
  BY <1>1, <1>2, TailItems, SMTT(30) DEF TypeOK
<1>4. PICK ev \in Event : ev = Head(events)
  BY <1>3
<1> DEFINE i == ItemOf[r]
<1>5. ev.req \in Request /\ ItemOf[ev.req] \in Item /\ i \in Item
  BY ConstantsAssumption DEF Event
<1>6. queued("requested", r) => queued("requested", r)' \/ (ev.type = "requested" /\ ev.req = r)
  BY <1>3, <1>4 DEF queued
<1>7. /\ r \in held[i] /\ routed[r] \subseteq bound
      /\ queued("requested", r) \/ i \in PendingEntries
      /\ ~queued("requested", r)' /\ i \notin PendingEntries'
      /\ \A e \in entry[i] : e.req = r
  BY <1>2, TrackTaken, Zenon
<1>8. CASE create(ev)
  <2>1. /\ ev.type = "requested" /\ entry[ItemOf[ev.req]] = {}
        /\ entry' = [entry EXCEPT ![ItemOf[ev.req]] =
              {[req |-> ev.req, frame |-> ev.frame, status |-> "pending", decision |-> "none"]}]
    BY <1>8 DEF create
  <2>2. CASE ItemOf[ev.req] = i
    BY <2>1, <2>2, <1>1, <1>5, <1>7, Zenon DEF PendingEntries, TypeOK
  <2>3. CASE ItemOf[ev.req] # i
    <3>1. entry'[i] = entry[i]
      BY <2>1, <2>3, <1>1, <1>5 DEF TypeOK
    <3>2. i \in PendingEntries
      BY <2>3, <1>6, <1>7
    <3> QED
      BY <3>1, <3>2, <1>7, PendingStays
  <2> QED
    BY <2>2, <2>3
<1>9. CASE resolve(ev)
  <2>1. ev.type = "resolved" /\ settle({ItemOf[ev.req]}, "resolved", "none", "none")
    BY <1>9 DEF resolve
  <2>2. i \in PendingEntries
    BY <2>1, <1>6, <1>7
  <2>3. PICK e \in entry[i] : e.req = r
    BY <2>2, <1>7 DEF PendingEntries
  <2>4. ItemOf[ev.req] # i
    <3>1. ItemOf[events[1].req] = i => \A x \in entry[i] : x.req # r
      BY <2>1, <1>1, <1>3, <1>4, <1>5, <1>7, Zenon DEF OrderInv, HeardAfter
    <3> QED
      BY <2>3, <3>1, <1>3, <1>4
  <2>5. entry'[i] = entry[i]
    BY <2>1, <2>4, <1>5, Zenon DEF settle
  <2> QED
    BY <2>2, <2>5, <1>7, PendingStays
<1>10. CASE ignore(ev)
  <2>1. UNCHANGED entry
    BY <1>10 DEF ignore
  <2>2. ~(ev.type = "requested" /\ ev.req = r)
    <3> SUFFICES ASSUME ev.type = "requested", ev.req = r PROVE FALSE
      OBVIOUS
    <3>1. routed[r] = {ev.frame} /\ queued("requested", r)
      BY <1>1, <1>3, <1>4, Zenon DEF EventsInv, queued
    <3>2. ev.frame \in frames
      BY <3>1, <1>1, <1>7 DEF TypeOK
    <3>3. PICK e \in entry[i] : TRUE
      BY <3>2, <1>10 DEF ignore
    <3>4. e.req = r /\ ~queued("requested", e.req)
      BY <1>1, <1>5, <1>7 DEF EntryInv
    <3> QED
      BY <3>1, <3>4
  <2>3. i \in PendingEntries
    BY <2>2, <1>6, <1>7
  <2> QED
    BY <2>1, <2>3, <1>7, PendingStays
<1> QED
  BY <1>4, <1>8, <1>9, <1>10 DEF reduceSubsystem

\* A settled entry of a served frame takes the request that is held for it along
\* (executeHeldReply).
LEMMA SettleTracked ==
    ASSUME RequestsInv, SettleStep, NEW r \in Request
    PROVE  ~Loses(r)
<1> SUFFICES ASSUME Loses(r) PROVE FALSE
  OBVIOUS
<1>1. TypeOK /\ EntryInv /\ HeldInv
  BY DEF RequestsInv
<1>2. PICK I \in SUBSET Item : \E status, a, q, b, c : Settles(I, status, a, q, b, c)
  BY DEF SettleStep
<1>3. PICK status, a, q, b, c : Settles(I, status, a, q, b, c)
  BY <1>2
<1>4. /\ status \in Outcome /\ a \in Recordable /\ q \in Recordable /\ b \in Reply /\ c \in Reply
      /\ settle(I, status, a, q) /\ replyHeld(replied(I, bound), b, c)
      /\ UNCHANGED <<bound, routed, events>>
  BY <1>3 DEF Settles
<1>5. replied(I, bound) \in SUBSET Item
  BY DEF replied
<1>6. HeldAnswered(replied(I, bound), b, c)
  BY <1>1, <1>4, <1>5, RepliesToHeld
<1>7. EntriesSettled(I, status, a, q)
  BY <1>1, <1>4, SettledEntries
<1>8. /\ \A i \in Item : held'[i] \subseteq held[i]
      /\ \A i \in replied(I, bound) : held'[i] = {}
      /\ \A i \in Item \ I : entry'[i] = entry[i]
  BY <1>5, <1>6, <1>7 DEF HeldAnswered, EntriesSettled
<1> DEFINE i == ItemOf[r]
<1>9. i \in Item
  BY ConstantsAssumption
<1>10. /\ r \in held[i] /\ r \in held'[i] /\ routed[r] \subseteq bound
       /\ queued("requested", r) \/ i \in PendingEntries
       /\ ~queued("requested", r)' /\ i \notin PendingEntries'
       /\ \A e \in entry[i] : e.req = r
  BY <1>4, <1>8, <1>9, TrackTaken, Zenon
<1>11. i \in PendingEntries
  BY <1>4, <1>10 DEF queued
<1>12. PICK e \in entry[i] : e.req = r
  BY <1>10, <1>11 DEF PendingEntries
<1>13. routed[r] = {e.frame}
  BY <1>1, <1>9, <1>12 DEF EntryInv
<1>14. i \notin I
  BY <1>8, <1>10, <1>12, <1>13 DEF replied
<1> QED
  BY <1>8, <1>9, <1>10, <1>11, <1>14, PendingStays

\* An entry that evictChildFrame removes is of the frame that goes.
LEMMA EvictTracked ==
    ASSUME RequestsInv, NEW f \in Frame, evictChildFrame(f), NEW r \in Request
    PROVE  ~Loses(r)
<1> SUFFICES ASSUME Loses(r) PROVE FALSE
  OBVIOUS
<1>1. TypeOK /\ EntryInv
  BY DEF RequestsInv
<1>2. /\ bound' = bound \ {f} /\ UNCHANGED <<routed, events>>
      /\ drop(EntriesOf(f))
      /\ \A i \in Item : held'[i] \subseteq held[i]
  BY DEF evictChildFrame, reapChild, replyHeld
<1> DEFINE i == ItemOf[r]
<1>3. i \in Item
  BY ConstantsAssumption
<1>4. /\ routed[r] \subseteq bound'
      /\ queued("requested", r) \/ i \in PendingEntries
      /\ ~queued("requested", r)' /\ i \notin PendingEntries'
      /\ \A e \in entry[i] : e.req = r
  <2>1. bound' \subseteq bound /\ held'[i] \subseteq held[i]
    BY <1>2, <1>3
  <2> QED
    BY <1>2, <2>1, TrackTaken, Zenon
<1>5. i \in PendingEntries
  BY <1>2, <1>4 DEF queued
<1>6. \A e \in entry[i] : routed[r] = {e.frame}
  BY <1>1, <1>3, <1>4, Zenon DEF EntryInv
<1>7. i \notin EntriesOf(f)
  BY <1>2, <1>4, <1>6 DEF EntriesOf
<1>8. entry'[i] = entry[i]
  BY <1>2, <1>3, <1>7 DEF drop
<1> QED
  BY <1>4, <1>5, <1>8, PendingStays

\* No step loses track of a request in another way.
LEMMA StepTracked ==
    ASSUME RequestsInv, [Next]_vars, NEW r \in Request
    PROVE  ~Loses(r)
<1>1. TypeOK /\ HeldInv /\ ItemOf[r] \in Item
  BY ConstantsAssumption DEF RequestsInv
<1>2. CASE \E s \in Request : handleRequest(s) \/ handleServerRequestResolved(s)
  BY <1>2, RequestTracked, WithdrawTracked
<1>3. CASE reduceSubsystem
  BY <1>3, ReduceTracked
<1>4. CASE SettleStep
  BY <1>4, SettleTracked
<1>5. CASE \E f \in Frame : evictChildFrame(f)
  BY <1>5, EvictTracked
<1>6. ASSUME bound' = {}, UNCHANGED routed, \A i \in Item : held'[i] \subseteq held[i]
      PROVE  ~Loses(r)
  BY <1>1, <1>6, SMTT(30) DEF Loses, LostTrack, HeldInv
<1>7. CASE evictRootFrame \/ reduceStopSession
  BY <1>6, <1>7 DEF evictRootFrame, cancelForSession, replyHeld, reduceStopSession
<1>8. CASE stopBackend
  BY <1>1, <1>8 DEF stopBackend, replyHeld, Loses, LostTrack
<1>9. ASSUME bound' \subseteq bound, UNCHANGED <<routed, held, events, entry>>
      PROVE  ~Loses(r)
  <2>1. /\ queued("requested", r)' = queued("requested", r)
        /\ PendingEntries' = PendingEntries
    BY <1>9 DEF queued, PendingEntries
  <2> QED
    BY <1>9, <2>1, TrackTaken
<1>10. CASE appServerExits \/ UNCHANGED vars \/ \E f \in Frame : frameCrashed(f)
  BY <1>9, <1>10 DEF appServerExits, vars, frameCrashed
<1> QED
  BY <1>2, <1>3, <1>4, <1>5, <1>7, <1>8, <1>10, SettleSteps DEF Next

\* The reducer loses track of a held request only when its event finds eventCh full or
\* another request has the entry of its item: not through responses, expiry,
\* withdrawals, crashes or teardowns of other frames, for any frames, requests, items and
\* capacity (handleRequest, Enqueue, executeHeldReply, evictChildFrame).
THEOREM HeldRequestsAreTracked == Spec => HeldIsTracked
<1>1. RequestsInv /\ [Next]_vars =>
         [\A r \in Request : LostTrack(r)' =>
             \/ LostTrack(r)
             \/ request[r] = "unsent" /\ Len(events) >= EventCap
             \/ \E e \in entry[ItemOf[r]] : e.req # r]_vars
  <2> SUFFICES ASSUME RequestsInv, [Next]_vars
               PROVE  \A r \in Request : LostTrack(r)' =>
                         \/ LostTrack(r)
                         \/ request[r] = "unsent" /\ Len(events) >= EventCap
                         \/ \E e \in entry[ItemOf[r]] : e.req # r
    OBVIOUS
  <2>1. \A r \in Request : ~Loses(r)
    BY StepTracked
  <2> QED
    BY <2>1, Zenon DEF Loses
<1> QED
  BY <1>1, RequestsInvariant, PTL DEF Spec, HeldIsTracked

-----------------------------------------------------------------------------

\* There is a set of entries for every item.
EntryDomain == DOMAIN entry = Item

\* A teardown that removes a pending approval answers the request held for it, for any
\* frames, requests and items (evictChildFrame, evictRootFrame).
THEOREM TeardownAnswersApprovals == Spec => ReapAnswersApproval
<1>1. Init => EntryDomain
  BY DEF Init, EntryDomain
<1>2. EntryDomain /\ [Next]_vars => EntryDomain'
  <2> SUFFICES ASSUME EntryDomain, [Next]_vars PROVE EntryDomain'
    OBVIOUS
  <2>1. ASSUME NEW I, NEW status, NEW a, NEW q, settle(I, status, a, q) \/ drop(I)
        PROVE  EntryDomain'
    BY <2>1, Zenon DEF settle, drop, EntryDomain
  <2>2. CASE SettleStep
    BY <2>1, <2>2 DEF SettleStep, Settles
  <2>3. CASE reduceSubsystem
    <3>1. ASSUME NEW ev, create(ev) PROVE EntryDomain'
      BY <3>1 DEF create, EntryDomain
    <3>2. ASSUME NEW ev, resolve(ev) PROVE EntryDomain'
      BY <2>1, <3>2 DEF resolve
    <3> QED
      BY <2>3, <3>1, <3>2, Zenon DEF reduceSubsystem, ignore, EntryDomain
  <2>4. CASE evictRootFrame \/ \E f \in Frame : evictChildFrame(f)
    BY <2>1, <2>4 DEF evictRootFrame, cancelForSession, evictChildFrame
  <2>5. CASE UNCHANGED entry
    BY <2>5 DEF EntryDomain
  <2> QED
    BY <2>2, <2>3, <2>4, <2>5, SettleSteps, Zenon DEF Next, handleRequest, handleServerRequestResolved,
       frameCrashed, reduceStopSession, stopBackend, appServerExits, vars
<1>3. ASSUME EntryDomain, [Next]_vars, NEW i \in PendingEntries \ Questions
      PROVE  reapAnswered(i)
  <2>1. i \in Item /\ entry[i] # {}
    BY <1>3 DEF PendingEntries
  <2>2. CASE entry'[i] # {}
    BY <2>2 DEF reapAnswered
  <2>3. CASE bound' = {}
    BY <2>3 DEF reapAnswered
  <2>4. ASSUME entry'[i] = {}, bound' # {}
        PROVE  \E f \in Frame : evictChildFrame(f)
    <3>1. ASSUME NEW I, NEW status, NEW a, NEW q, settle(I, status, a, q) PROVE FALSE
      BY <2>1, <2>4, <3>1, Zenon DEF settle
    <3>2. ~SettleStep
      BY <3>1 DEF SettleStep, Settles
    <3>3. ~reduceSubsystem
      <4>1. ASSUME NEW ev, create(ev) PROVE FALSE
        BY <1>3, <2>1, <2>4, <4>1 DEF create, EntryDomain
      <4>2. ASSUME NEW ev, resolve(ev) PROVE FALSE
        BY <3>1, <4>2 DEF resolve
      <4> QED
        BY <2>1, <2>4, <4>1, <4>2 DEF reduceSubsystem, ignore
    <3>4. ~(UNCHANGED entry)
      BY <2>1, <2>4
    <3>5. ~(\E r \in Request : handleRequest(r) \/ handleServerRequestResolved(r))
      BY <3>4 DEF handleRequest, handleServerRequestResolved
    <3>6. ~evictRootFrame /\ ~reduceStopSession
      BY <2>4 DEF evictRootFrame, reduceStopSession
    <3>7. ~stopBackend /\ ~appServerExits /\ ~(UNCHANGED vars) /\ ~(\E f \in Frame : frameCrashed(f))
      BY <3>4 DEF stopBackend, appServerExits, vars, frameCrashed
    <3> QED
      BY <1>3, <3>2, <3>3, <3>5, <3>6, <3>7, SettleSteps DEF Next
  <2>5. ASSUME NEW f \in Frame, evictChildFrame(f), entry'[i] = {}
        PROVE  reapAnswered(i)
    <3> SUFFICES ASSUME NEW e \in entry[i], e.frame \in bound PROVE held'[i] = {}
      BY DEF reapAnswered
    <3>1. i \in EntriesOf(f)
      BY <2>1, <2>5 DEF evictChildFrame, drop
    <3>2. i \in ApprovalsOf(f)
      BY <3>1, <1>3 DEF ApprovalsOf
    <3>3. held[i] # {} => i \in replied(ApprovalsOf(f), bound)
      BY <3>2 DEF replied
    <3> QED
      BY <2>1, <2>5, <3>3 DEF evictChildFrame, reapChild, replyHeld
  <2> QED
    BY <2>2, <2>3, <2>4, <2>5
<1>4. EntryDomain /\ [Next]_vars => [\A i \in PendingEntries \ Questions : reapAnswered(i)]_vars
  BY <1>3
<1> QED
  BY <1>1, <1>2, <1>4, PTL DEF Spec, ReapAnswersApproval

-----------------------------------------------------------------------------
(* The outcome of a revision in TerminalLifecycle *)

Recorded == {order[i] : i \in DOMAIN order}

\* The actor's maps agree: a record is kept for what the order names, and for
\* revisions of clients only; no record says rejected.
RecordsInv ==
    /\ latest \in [Clients -> Nat]
    /\ order \in Seq(Clients \X Nat)
    /\ DOMAIN current = Recorded
    /\ \A k \in DOMAIN current : current[k] # "rejected"

\* An outcome that was given is of a revision that is not the latest any more, or
\* whose record is gone, or whose record holds that outcome.
GivenInv ==
    /\ given \subseteq Clients \X Nat \X TerminalOutcome
    /\ \A x \in given :
          /\ x[2] <= latest[x[1]]
          /\ x[2] = latest[x[1]] /\ <<x[1], x[2]>> \in DOMAIN current =>
                current[<<x[1], x[2]>>] = x[3]

OutcomeInv == RecordsInv /\ GivenInv /\ OneOutcome

\* What stays in the order beyond the limit was in it before, or is the new entry
\* (the eviction in Admit).
LEMMA KeptEntries ==
    ASSUME NEW T, NEW s \in Seq(T), NEW e \in T
    PROVE  /\ Append(s, e) \in Seq(T) /\ Tail(Append(s, e)) \in Seq(T)
           /\ \A i \in DOMAIN Append(s, e) : Append(s, e)[i] \in {s[j] : j \in DOMAIN s} \cup {e}
           /\ \A i \in DOMAIN Tail(Append(s, e)) :
                 Tail(Append(s, e))[i] \in {s[j] : j \in DOMAIN s} \cup {e}
<1>1. Append(s, e) \in Seq(T) /\ Len(Append(s, e)) = Len(s) + 1
  OBVIOUS
<1>2. \A i \in DOMAIN Append(s, e) : Append(s, e)[i] \in {s[j] : j \in DOMAIN s} \cup {e}
  <2>1. SUFFICES ASSUME NEW i \in DOMAIN Append(s, e), i # Len(s) + 1
                 PROVE  i \in DOMAIN s /\ Append(s, e)[i] = s[i]
    BY SMTT(30)
  <2> QED
    BY <1>1, <2>1
<1>3. Append(s, e) # <<>>
  BY AppendProperties
<1>4. Tail(Append(s, e)) \in Seq(T)
  BY <1>1, <1>3
<1>5. \A i \in DOMAIN Tail(Append(s, e)) :
          i + 1 \in DOMAIN Append(s, e) /\ Tail(Append(s, e))[i] = Append(s, e)[i + 1]
  BY <1>1, <1>3
<1> QED
  BY <1>1, <1>2, <1>4, <1>5

\* An outcome is broadcast that the actor's record holds, with the record alone
\* changed, or a rejection of a revision that has no record as the latest one.
LEMMA GivenKeeps ==
    ASSUME OutcomeInv, NEW c \in Clients, NEW q \in Nat, NEW told \in TerminalOutcome,
           given' = given \cup {<<c, q, told>>}, UNCHANGED <<latest, order>>,
           DOMAIN current' = DOMAIN current, q <= latest[c],
           \A k \in DOMAIN current : k # <<c, q>> => current'[k] = current[k],
           \A k \in DOMAIN current : current'[k] # "rejected",
           \/ /\ q = latest[c] /\ <<c, q>> \in DOMAIN current
              /\ current'[<<c, q>>] = told
              /\ current[<<c, q>>] = told \/ current[<<c, q>>] \notin TerminalOutcome
           \/ /\ told = "rejected" /\ current' = current
              /\ q # latest[c] \/ <<c, q>> \notin DOMAIN current
    PROVE  OutcomeInv'
<1>1. RecordsInv'
  BY DEF OutcomeInv, RecordsInv, Recorded
<1>2. latest \in [Clients -> Nat]
  BY DEF OutcomeInv, RecordsInv
<1>3. \A x \in given : x[1] \in Clients /\ x[2] \in Nat /\ x[3] \in TerminalOutcome
  BY Zenon DEF OutcomeInv, GivenInv
<1>4. \A x \in given : x[1] = c /\ x[2] = q /\ q = latest[c] /\ <<c, q>> \in DOMAIN current =>
         current[<<c, q>>] = x[3]
  BY DEF OutcomeInv, GivenInv
<1>6. \A x \in given : x[1] = c /\ x[2] = q => told = "rejected" \/ x[3] = told
  BY <1>3, <1>4
<1>7. GivenInv'
  <2>1. given' \subseteq Clients \X Nat \X TerminalOutcome
    BY DEF OutcomeInv, GivenInv
  <2>2. ASSUME NEW x \in given
        PROVE  /\ x[2] <= latest'[x[1]]
               /\ x[2] = latest'[x[1]] /\ <<x[1], x[2]>> \in DOMAIN current' =>
                     current'[<<x[1], x[2]>>] = x[3]
    <3>1. /\ x[2] <= latest[x[1]]
          /\ x[2] = latest[x[1]] /\ <<x[1], x[2]>> \in DOMAIN current =>
                current[<<x[1], x[2]>>] = x[3]
      BY DEF OutcomeInv, GivenInv
    <3>2. CASE <<x[1], x[2]>> = <<c, q>>
      <4>1. x[1] = c /\ x[2] = q
        BY <3>2
      <4> QED
        BY <1>3, <3>1, <4>1
    <3>3. CASE <<x[1], x[2]>> # <<c, q>>
      BY <3>1, <3>3
    <3> QED
      BY <3>2, <3>3
  <2>3. /\ q <= latest'[c]
        /\ q = latest'[c] /\ <<c, q>> \in DOMAIN current' => current'[<<c, q>>] = told
    OBVIOUS
  <2> QED
    BY <2>1, <2>2, <2>3 DEF GivenInv
<1>8. OneOutcome'
  <2>1. ASSUME NEW x \in given', NEW y \in given', x[1] = y[1], x[2] = y[2],
               "rejected" \notin {x[3], y[3]}
        PROVE  x = y
    <3>1. CASE x \in given /\ y \in given
      BY <2>1, <3>1 DEF OutcomeInv, OneOutcome
    <3>2. ASSUME NEW z \in given, z[1] = c, z[2] = q, z[3] = told
          PROVE  z = <<c, q, told>>
      <4>1. z \in Clients \X Nat \X TerminalOutcome
        BY DEF OutcomeInv, GivenInv
      <4>2. z = <<z[1], z[2], z[3]>>
        BY <4>1
      <4> QED
        BY <3>2, <4>2
    <3> QED
      BY <1>6, <2>1, <3>1, <3>2
  <2>2. ASSUME NEW x \in given', x[3] = "rejected"
        PROVE  x[2] < latest'[x[1]] \/ <<x[1], x[2]>> \notin DOMAIN current'
    <3>1. CASE x \in given
      BY <2>2, <3>1 DEF OutcomeInv, OneOutcome
    <3>2. CASE x = <<c, q, told>>
      <4>1. told = "rejected"
        BY <2>2, <3>2
      <4>2. q # latest[c] \/ <<c, q>> \notin DOMAIN current
        BY <4>1
      <4>3. q # latest[c] => q < latest[c]
        BY <1>2
      <4> QED
        BY <3>2, <4>2, <4>3
    <3> QED
      BY <3>1, <3>2
  <2> QED
    BY <2>1, <2>2 DEF OneOutcome
<1> QED
  BY <1>1, <1>7, <1>8 DEF OutcomeInv

\* Complete gives an outcome to a revision that has none (Complete).
LEMMA CompleteKeeps ==
    ASSUME OutcomeInv, NEW c, NEW q, NEW status \in TerminalOutcome \ {"rejected"},
           Complete(c, q, status)
    PROVE  OutcomeInv'
<1>1. CASE UNCHANGED actor
  BY <1>1 DEF OutcomeInv, RecordsInv, GivenInv, OneOutcome, Recorded, actor
<1>2. CASE ~(UNCHANGED actor)
  <2>1. /\ latest[c] = q /\ <<c, q>> \in DOMAIN current /\ current[<<c, q>>] \notin TerminalOutcome
        /\ current' = [current EXCEPT ![<<c, q>>] = status]
        /\ given' = given \cup {<<c, q, status>>}
        /\ latest' = latest /\ order' = order
    BY <1>2 DEF Complete
  <2>2. c \in Clients /\ q \in Nat
    BY <2>1, SMTT(30) DEF OutcomeInv, RecordsInv, Recorded
  <2>3. /\ DOMAIN current' = DOMAIN current
        /\ current'[<<c, q>>] = status
        /\ \A k \in DOMAIN current : k # <<c, q>> => current'[k] = current[k]
        /\ \A k \in DOMAIN current : current'[k] # "rejected"
    BY <2>1 DEF OutcomeInv, RecordsInv
  <2>4. q <= latest[c]
    BY <2>1, <2>2
  <2> QED
    BY <2>1, <2>2, <2>3, <2>4, GivenKeeps
<1> QED
  BY <1>1, <1>2

\* Admitting a newer revision takes no outcome back (Admit).
LEMMA AdmitKeeps ==
    ASSUME OutcomeInv, NEW c \in Clients, NEW r \in Nat, Newer(c, r), Admit(c, r)
    PROVE  OutcomeInv'
<1> DEFINE all == Append(order, <<c, r>>)
           kept == IF Len(all) > RecordLimit THEN Tail(all) ELSE all
<1>1. /\ latest' = [latest EXCEPT ![c] = r]
      /\ order' = kept
      /\ current' = [k \in {kept[i] : i \in DOMAIN kept} |->
                        IF k = <<c, r>> THEN "waiting" ELSE current[k]]
      /\ given' = given
  BY DEF Admit
<1>2. /\ kept \in Seq(Clients \X Nat)
      /\ \A i \in DOMAIN kept : kept[i] \in Recorded \cup {<<c, r>>}
  <2>1. order \in Seq(Clients \X Nat) /\ <<c, r>> \in Clients \X Nat
    BY DEF OutcomeInv, RecordsInv
  <2>2. /\ all \in Seq(Clients \X Nat) /\ Tail(all) \in Seq(Clients \X Nat)
        /\ \A i \in DOMAIN all : all[i] \in Recorded \cup {<<c, r>>}
        /\ \A i \in DOMAIN Tail(all) : Tail(all)[i] \in Recorded \cup {<<c, r>>}
    BY <2>1, KeptEntries, Zenon DEF Recorded
  <2> HIDE DEF all
  <2>3. CASE Len(all) > RecordLimit
    BY <2>2, <2>3
  <2>4. CASE ~(Len(all) > RecordLimit)
    BY <2>2, <2>4
  <2> QED
    BY Zenon, <2>3, <2>4
<1> HIDE DEF kept
<1>3. RecordsInv'
  <2>1. latest' \in [Clients -> Nat]
    BY <1>1 DEF OutcomeInv, RecordsInv
  <2>2. Recorded' = {kept[i] : i \in DOMAIN kept}
    BY <1>1, Zenon DEF Recorded
  <2>3. DOMAIN current' = Recorded'
    BY <1>1, <2>2, Zenon
  <2>4. ASSUME NEW k \in DOMAIN current'
        PROVE  current'[k] # "rejected"
    <3>1. k = <<c, r>> \/ k \in DOMAIN current
      <4>1. PICK i \in DOMAIN kept : kept[i] = k
        BY <1>1, <2>4, Zenon
      <4> QED
        BY <1>2, <4>1, Zenon DEF OutcomeInv, RecordsInv
    <3>2. current'[k] = IF k = <<c, r>> THEN "waiting" ELSE current[k]
      BY <1>1, <2>4
    <3> QED
      BY <3>1, <3>2 DEF OutcomeInv, RecordsInv
  <2> QED
    BY <1>1, <1>2, <2>1, <2>3, <2>4 DEF RecordsInv
<1>4. ASSUME NEW x \in given
      PROVE  /\ x[2] <= latest'[x[1]]
             /\ x[2] = latest'[x[1]] /\ <<x[1], x[2]>> \in DOMAIN current' =>
                   current'[<<x[1], x[2]>>] = x[3]
  <2>1. x[1] \in Clients /\ x[2] \in Nat /\ x[2] <= latest[x[1]]
    BY Zenon DEF OutcomeInv, GivenInv
  <2>2. CASE x[1] = c
    BY <1>1, <2>1, <2>2, SMTT(30) DEF OutcomeInv, RecordsInv, Newer
  <2>3. CASE x[1] # c
    <3>1. latest'[x[1]] = latest[x[1]]
      BY <1>1, <2>1, <2>3 DEF OutcomeInv, RecordsInv
    <3>2. ASSUME x[2] = latest[x[1]], <<x[1], x[2]>> \in DOMAIN current'
          PROVE  current'[<<x[1], x[2]>>] = x[3]
      <4>1. <<x[1], x[2]>> # <<c, r>>
        BY <2>3
      <4>2. <<x[1], x[2]>> \in DOMAIN current
        <5>1. PICK i \in DOMAIN kept : kept[i] = <<x[1], x[2]>>
          BY <1>1, <3>2, Zenon
        <5>2. <<x[1], x[2]>> \in Recorded
          BY <1>2, <4>1, <5>1, Zenon
        <5> QED
          BY <5>2, Zenon DEF OutcomeInv, RecordsInv
      <4>3. current'[<<x[1], x[2]>>] = current[<<x[1], x[2]>>]
        BY <1>1, <3>2, <4>1
      <4> QED
        BY <3>2, <4>2, <4>3 DEF OutcomeInv, GivenInv
    <3> QED
      BY <2>1, <3>1, <3>2
  <2> QED
    BY <2>2, <2>3
<1>5. GivenInv'
  BY <1>1, <1>4 DEF OutcomeInv, GivenInv
<1>6. ASSUME NEW x \in given, x[3] = "rejected"
      PROVE  x[2] < latest'[x[1]] \/ <<x[1], x[2]>> \notin DOMAIN current'
  <2>1. /\ x[1] \in Clients /\ x[2] \in Nat /\ x[2] <= latest[x[1]]
        /\ x[2] < latest[x[1]] \/ <<x[1], x[2]>> \notin DOMAIN current
    BY <1>6, Zenon DEF OutcomeInv, GivenInv, OneOutcome
  <2>2. CASE x[1] = c
    BY <1>1, <2>1, <2>2, SMTT(30) DEF OutcomeInv, RecordsInv, Newer
  <2>3. CASE x[1] # c
    <3>1. latest'[x[1]] = latest[x[1]]
      BY <1>1, <2>1, <2>3 DEF OutcomeInv, RecordsInv
    <3>2. ASSUME <<x[1], x[2]>> \in DOMAIN current'
          PROVE  <<x[1], x[2]>> \in DOMAIN current
      <4>1. <<x[1], x[2]>> # <<c, r>>
        BY <2>3
      <4>2. PICK i \in DOMAIN kept : kept[i] = <<x[1], x[2]>>
        BY <1>1, <3>2, Zenon
      <4> QED
        BY <1>2, <4>1, <4>2, Zenon DEF OutcomeInv, RecordsInv
    <3> QED
      BY <2>1, <3>1, <3>2
  <2> QED
    BY <2>2, <2>3
<1>7. OneOutcome'
  BY <1>1, <1>6 DEF OutcomeInv, OneOutcome
<1> QED
  BY <1>3, <1>5, <1>7 DEF OutcomeInv

\* A repeated command is told what the record says, or that it is rejected
\* (Admit of a revision that is not newer).
LEMMA RepeatKeeps ==
    ASSUME OutcomeInv, NEW m \in Command, RepeatDesired(m)
    PROVE  OutcomeInv'
<1> DEFINE c == m.client
           q == m.rev
           told == Repeat(c, q)
<1>1. c \in Clients /\ q \in Nat
  BY SMTT(30) DEF Command, Revision
<1>2. /\ given' = IF told \in TerminalOutcome THEN given \cup {<<c, q, told>>} ELSE given
      /\ UNCHANGED <<latest, order, current>>
  BY DEF RepeatDesired
<1>3. q <= latest[c]
  BY <1>1 DEF RepeatDesired, Newer, OutcomeInv, RecordsInv
<1>4. CASE told \notin TerminalOutcome
  BY <1>2, <1>4 DEF OutcomeInv, RecordsInv, GivenInv, OneOutcome, Recorded
<1>5. CASE told \in TerminalOutcome
  <2>1. \/ /\ q = latest[c] /\ <<c, q>> \in DOMAIN current
           /\ current[<<c, q>>] = told
        \/ /\ told = "rejected"
           /\ q # latest[c] \/ <<c, q>> \notin DOMAIN current
    BY DEF Repeat
  <2>2. \A k \in DOMAIN current : current[k] # "rejected"
    BY DEF OutcomeInv, RecordsInv
  <2> HIDE DEF c, q, told
  <2> QED
    BY <1>1, <1>2, <1>3, <1>5, <2>1, <2>2, GivenKeeps
<1> QED
  BY <1>4, <1>5

\* No event of the loop and no goroutine breaks the invariant.
LEMMA LifecycleStepKeeps ==
    ASSUME OutcomeInv, [LifecycleNext]_lifecycleVars
    PROVE  OutcomeInv'
<1> USE DEF TerminalOutcome
<1>1. ASSUME NEW m \in Command, handleLifecycleDesired(m)
      PROVE  OutcomeInv'
  <2>1. m.client \in Clients /\ m.rev \in Nat
    BY SMTT(30) DEF Command, Revision
  <2>2. Newer(m.client, m.rev) /\ Admit(m.client, m.rev)
    BY <1>1 DEF handleLifecycleDesired
  <2> QED
    BY <2>1, <2>2, AdmitKeeps
<1>10. ASSUME NEW m \in Command, RepeatDesired(m)
       PROVE  OutcomeInv'
  BY <1>10, RepeatKeeps
<1>2. ASSUME NEW e \in results, handleLifecycleEffectResult(e)
      PROVE  OutcomeInv'
  <2>1. PICK status \in TerminalOutcome \ {"rejected"} : Complete(e.cmd.client, e.cmd.rev, status)
    BY <1>2 DEF handleLifecycleEffectResult
  <2> QED
    BY <2>1, CompleteKeeps
<1>3. ASSUME NEW t \in deadlines, handleLifecycleDeadline(t[1], t[2])
      PROVE  OutcomeInv'
  BY <1>3, CompleteKeeps DEF handleLifecycleDeadline
<1>4. ASSUME NEW t \in expiries, handleLifecycleExpiry(t[1], t[2])
      PROVE  OutcomeInv'
  <2>1. CASE UNCHANGED actor
    BY <2>1 DEF OutcomeInv, RecordsInv, GivenInv, OneOutcome, Recorded, actor
  <2>2. CASE Complete(t[1], t[2], "released")
    BY <2>2, CompleteKeeps
  <2> QED
    BY <1>4, <2>1, <2>2 DEF handleLifecycleExpiry
<1>5. ASSUME UNCHANGED actor
      PROVE  OutcomeInv'
  BY <1>5 DEF OutcomeInv, RecordsInv, GivenInv, OneOutcome, Recorded, actor
<1>6. CASE \E n \in conns : handleConnClose(n)
  BY <1>5, <1>6 DEF handleConnClose
<1>7. CASE \E m \in effects : runLifecycleEffect(m)
  BY <1>5, <1>7 DEF runLifecycleEffect
<1>8. CASE rebindFails \/ effectDone
  BY <1>5, <1>8 DEF rebindFails, effectDone
<1>9. CASE UNCHANGED lifecycleVars
  BY <1>5, <1>9 DEF lifecycleVars
<1> QED
  BY <1>1, <1>2, <1>3, <1>4, <1>6, <1>7, <1>8, <1>9, <1>10 DEF LifecycleNext, LoopStep

\* A revision is given one terminal outcome, whatever the order of results, deadlines,
\* expiries, newer revisions, repeated commands and forgotten records; a repeated
\* command may be told rejected besides, and a rejected revision gets no other outcome
\* any more (Admit and Complete of the actor).
THEOREM OneOutcomeHolds == LifecycleSpec => []OneOutcome
<1>1. LifecycleInit => OutcomeInv
  BY SMTT(30) DEF LifecycleInit, OutcomeInv, RecordsInv, GivenInv, OneOutcome, Recorded
<1>2. OutcomeInv /\ [LifecycleNext]_lifecycleVars => OutcomeInv'
  BY LifecycleStepKeeps
<1>3. OutcomeInv => OneOutcome
  BY DEF OutcomeInv
<1> QED
  BY <1>1, <1>2, <1>3, PTL DEF LifecycleSpec
=============================================================================
