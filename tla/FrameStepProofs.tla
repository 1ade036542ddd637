-------------------------- MODULE FrameStepProofs --------------------------
(* The invariant of FrameMessaging, and that every step of a running daemon  *)
(* keeps it: sends, replies, reads, evictions, saves and stops, wherever an  *)
(* append or a save fails. FrameMessagingProofs adds the restart.            *)
EXTENDS FrameMessaging, TLAPS

\* A leaf is tried with Zenon, then with SMT, then with SMT again and more time.
USE ZenonT(5), SMT, SMTT(30)

-----------------------------------------------------------------------------
(* The inductive invariant *)

\* The records of sends, of replies and of reads, by their place in the journal.
Sends == {j \in 1 .. Len(journal) : journal[j].kind = "sent"}
Replies == {j \in 1 .. Len(journal) : journal[j].kind = "reply"}
Reads == {j \in 1 .. Len(journal) : journal[j].kind = "read"}

\* The states of the journal's lines.
LineState == {"whole", "open", "bad"}

\* The messages whose reading is promised.
Noted == seen \ cutShort

\* The messages that the journal or a sender knows of.
Told == {journal[j].msg : j \in Sends} \cup sent

\* Two states of one message; a message between two of the frames; ids that ascend.
Alike(x, y) == x.id = y.id /\ x.src = y.src /\ x.dst = y.dst
Within(m, fs) == m.src \in fs /\ m.dst \in fs
InOrder(ms) == \A i, j \in DOMAIN ms : i < j => ms[i].id < ms[j].id

\* Ids of messages and of replies that were allocated and not answered by an error.
GoodId(id) == id <= lastMsg /\ <<"message", id>> \notin refused

\* A reply that was given out and not refused.
GoodReply(r) == r <= lastReply /\ <<"reply", r>> \notin refused

\* The variables have their types; a session that has ended has no frames.
FrameTypes ==
    /\ up \in BOOLEAN /\ ended \in BOOLEAN /\ lines \in LineState /\ stopped \in BOOLEAN
    /\ frames \subseteq Frame /\ (ended => frames = {})
    /\ journal \in Seq(JournalRecord)
    /\ saved \in [frames : SUBSET Frame, msgs : Seq(FrameMessage)]
    /\ lastMsg \in 0 .. MaxMessages /\ lastReply \in 0 .. MaxReplies
    /\ journalFaults \in 0 .. MaxFaults /\ saveErrors \in 0 .. MaxFaults /\ stops \in 0 .. MaxFaults
    /\ sent \subseteq FrameMessage /\ cutShort \subseteq seen /\ seen \subseteq 1 .. lastMsg
    /\ answer \in [1 .. MaxMessages -> NoReply .. MaxReplies]
    /\ refused \subseteq ({"message"} \X (1 .. lastMsg)) \cup ({"reply"} \X (1 .. lastReply))

\* An id names one message, and none that was refused.
IdInv ==
    /\ \A x \in Told : GoodId(x.id)
    /\ \A x, y \in Told : x.id = y.id => Alike(x, y)
    /\ \A id \in 1 .. MaxMessages : answer[id] # NoReply => id <= lastMsg

\* The journal has the requests in their order.
JournalInv ==
    /\ \A j \in Sends : journal[j].msg.reply = NoReply
    /\ \A j, k \in Sends : j < k => journal[j].msg.id < journal[k].msg.id
    /\ \A j \in Sends, k \in Replies : journal[k].id = journal[j].msg.id => j < k
    /\ \A j \in Sends, k \in Reads : journal[j].msg.id \in journal[k].ids => j < k
    /\ \A k \in Replies : journal[k].id <= lastMsg /\ GoodReply(journal[k].reply)
    /\ \A k \in Reads : journal[k].ids \subseteq 1 .. lastMsg
    /\ lines # "whole" => journalFaults > 0
    /\ ~unreadable => \A j, k \in Replies :
           journal[j].id = journal[k].id => journal[j].reply = journal[k].reply

\* What was acknowledged is in the journal.
AckInv ==
    /\ ~unreadable /\ ~stopped =>
           /\ \A m \in sent : \E j \in Sends : journal[j].msg = m
           /\ \A id \in 1 .. MaxMessages : answer[id] # NoReply =>
                  \E j \in Replies : journal[j].id = id /\ journal[j].reply = answer[id]
    /\ journalFaults = 0 /\ ~stopped =>
           \A id \in Noted : \E j \in Reads : id \in journal[j].ids

\* Messages ms of a session with the frames fs, in memory or in the snapshot: in
\* order, none of them refused, and those of the journal that are missing come last.
View(fs, ms) ==
    /\ ms \in Seq(FrameMessage)
    /\ \A i \in DOMAIN ms : GoodId(ms[i].id) /\ GoodReply(ms[i].reply)
    /\ \A i \in DOMAIN ms, y \in Told : ms[i].id = y.id => Alike(ms[i], y)
    /\ InOrder(ms)
    /\ ~unreadable => \A j \in Sends : Within(journal[j].msg, fs) =>
           \/ journal[j].msg.id \in Ids(ms)
           \/ \A i \in DOMAIN ms : ms[i].id < journal[j].msg.id

\* Memory has all the messages and replies of a journal whose lines are whole.
Complete(fs, ms) ==
    lines = "whole" =>
        /\ \A j \in Sends : Within(journal[j].msg, fs) => journal[j].msg.id \in Ids(ms)
        /\ \A i \in DOMAIN ms, k \in Replies :
               journal[k].id = ms[i].id => ms[i].reply = journal[k].reply

\* Messages ms of a session with the frames fs show what was acknowledged.
Shows(fs, ms) ==
    /\ \A m \in sent : Within(m, fs) =>
           \E i \in DOMAIN ms : ms[i].id = m.id /\ (m.id \in Noted => ms[i].read)
    /\ \A i \in DOMAIN ms : answer[ms[i].id] # NoReply => ms[i].reply = answer[ms[i].id]

\* The parts of the invariant about the journal and the history, about memory and
\* about the snapshot.
DiskInv == IdInv /\ JournalInv /\ AckInv

\* What the broker holds in memory, while the daemon runs.
MemoryInv ==
    /\ View(frames, msgs) /\ Complete(frames, msgs)
    /\ OneStoreIntact /\ ~stopped => Shows(frames, msgs)
    /\ SummaryIsCurrent

\* What the snapshot holds.
SavedInv ==
    /\ View(saved.frames, saved.msgs)
    /\ saveErrors = 0 /\ ~stopped => Shows(saved.frames, saved.msgs)

\* The inductive invariant.
FrameInv == FrameTypes /\ DiskInv /\ MemoryInv /\ SavedInv

-----------------------------------------------------------------------------
(* Messages and records *)

\* The messages new are old ones, some of them read or replied to since.
Over(new, old) ==
    /\ new \in Seq(FrameMessage) /\ DOMAIN new = DOMAIN old
    /\ \A i \in DOMAIN old : Alike(new[i], old[i]) /\ (old[i].read => new[i].read)

\* What the journal's records hold.
LEMMA RecordTypes ==
    ASSUME FrameTypes
    PROVE  /\ \A j \in Sends : /\ j \in 1 .. Len(journal) /\ journal[j].kind = "sent"
                               /\ journal[j].msg \in FrameMessage /\ journal[j].msg \in Told
           /\ \A j \in Replies : /\ j \in 1 .. Len(journal) /\ journal[j].kind = "reply"
                                 /\ journal[j].id \in 1 .. MaxMessages
                                 /\ journal[j].reply \in 1 .. MaxReplies
           /\ \A j \in Reads : /\ j \in 1 .. Len(journal) /\ journal[j].kind = "read"
                               /\ journal[j].ids \subseteq 1 .. MaxMessages
           /\ \A j \in 1 .. Len(journal) : j \in Sends \/ j \in Replies \/ j \in Reads
<1>1. ASSUME NEW j \in 1 .. Len(journal) PROVE journal[j] \in JournalRecord
  BY SMTT(30) DEF FrameTypes
<1>2. ASSUME NEW rec \in JournalRecord
      PROVE  /\ rec.kind = "sent" => rec.msg \in FrameMessage
             /\ rec.kind = "reply" => rec.id \in 1 .. MaxMessages /\ rec.reply \in 1 .. MaxReplies
             /\ rec.kind = "read" => rec.ids \subseteq 1 .. MaxMessages
             /\ rec.kind = "sent" \/ rec.kind = "reply" \/ rec.kind = "read"
  BY DEF JournalRecord
<1>3. \A j \in Sends : j \in 1 .. Len(journal) /\ journal[j].kind = "sent" /\ journal[j].msg \in Told
  BY DEF Sends, Told
<1>4. \A j \in Replies : j \in 1 .. Len(journal) /\ journal[j].kind = "reply"
  BY DEF Replies
<1>5. \A j \in Reads : j \in 1 .. Len(journal) /\ journal[j].kind = "read"
  BY DEF Reads
<1>6. \A j \in 1 .. Len(journal) : j \in Sends \/ j \in Replies \/ j \in Reads
  BY <1>1, <1>2 DEF Sends, Replies, Reads
<1> QED  BY <1>1, <1>2, <1>3, <1>4, <1>5, <1>6, Zenon

\* Messages that were there keep their ids and their frames.
LEMMA OverIds ==
    ASSUME NEW new, NEW old, Over(new, old)
    PROVE  Ids(new) = Ids(old)
BY DEF Over, Ids, Alike

\* The fields of a message.
LEMMA MessageFields ==
    ASSUME NEW m \in FrameMessage
    PROVE  /\ m.id \in 1 .. MaxMessages /\ m.src \in Frame /\ m.dst \in Frame
           /\ m.read \in BOOLEAN /\ m.reply \in NoReply .. MaxReplies
           /\ m.id \in Nat /\ m.reply \in Nat
<1>1. MaxMessages \in Nat /\ MaxReplies \in Nat /\ NoReply = 0
  BY BoundsAssumption DEF NoReply
<1> QED  BY <1>1, SMTT(30) DEF FrameMessage

\* No reply is never a refused one.
LEMMA GoodNoReply ==
    ASSUME FrameTypes
    PROVE  GoodReply(NoReply)
BY BoundsAssumption, SMTT(30) DEF GoodReply, FrameTypes, NoReply

\* What marking messages as read changes.
LEMMA SetReadIs ==
    ASSUME NEW ms \in Seq(FrameMessage), NEW ids
    PROVE  /\ Over(SetRead(ms, ids), ms)
           /\ \A i \in DOMAIN ms : /\ SetRead(ms, ids)[i].reply = ms[i].reply
                                   /\ SetRead(ms, ids)[i].read = (ms[i].read \/ ms[i].id \in ids)
<1> DEFINE new == SetRead(ms, ids)
<1>1. new = [i \in DOMAIN ms |-> [ms[i] EXCEPT !.read = ms[i].read \/ ms[i].id \in ids]]
  BY DEF SetRead
<1> HIDE DEF new
<1>2. DOMAIN new = DOMAIN ms /\ new = [i \in DOMAIN ms |-> new[i]]
  BY <1>1, Zenon
<1>3. Len(ms) \in Nat /\ DOMAIN ms = 1 .. Len(ms)
  OBVIOUS
<1>4. ASSUME NEW i \in DOMAIN ms
      PROVE  /\ new[i] \in FrameMessage /\ Alike(new[i], ms[i])
             /\ new[i].reply = ms[i].reply /\ new[i].read = (ms[i].read \/ ms[i].id \in ids)
  <2>1. ms[i] \in FrameMessage
    OBVIOUS
  <2>2. new[i] = [ms[i] EXCEPT !.read = ms[i].read \/ ms[i].id \in ids]
    BY <1>1
  <2>3. /\ new[i].id = ms[i].id /\ new[i].src = ms[i].src /\ new[i].dst = ms[i].dst
        /\ new[i].reply = ms[i].reply /\ new[i].read = (ms[i].read \/ ms[i].id \in ids)
    BY <2>1, <2>2 DEF FrameMessage
  <2>4. new[i] \in FrameMessage
    BY <2>1, <2>2, Zenon DEF FrameMessage
  <2> QED  BY <2>3, <2>4 DEF Alike
<1>5. new \in Seq(FrameMessage)
  BY <1>2, <1>3, <1>4, SMTT(30)
<1>6. Over(new, ms)
  BY <1>2, <1>4, <1>5, Zenon DEF Over
<1> QED  BY <1>4, <1>6 DEF new

\* What setting a reply changes.
LEMMA SetReplyIs ==
    ASSUME NEW ms \in Seq(FrameMessage), NEW id, NEW r \in NoReply .. MaxReplies
    PROVE  /\ Over(SetReply(ms, id, r), ms)
           /\ \A i \in DOMAIN ms :
                  SetReply(ms, id, r)[i].reply = IF ms[i].id = id THEN r ELSE ms[i].reply
<1> DEFINE new == SetReply(ms, id, r)
<1>1. new = [i \in DOMAIN ms |-> [ms[i] EXCEPT !.reply = IF ms[i].id = id THEN r ELSE ms[i].reply]]
  BY DEF SetReply
<1> HIDE DEF new
<1>2. DOMAIN new = DOMAIN ms /\ new = [i \in DOMAIN ms |-> new[i]]
  BY <1>1, Zenon
<1>3. Len(ms) \in Nat /\ DOMAIN ms = 1 .. Len(ms)
  OBVIOUS
<1>4. ASSUME NEW i \in DOMAIN ms
      PROVE  /\ new[i] \in FrameMessage /\ Alike(new[i], ms[i])
             /\ new[i].read = ms[i].read
             /\ new[i].reply = IF ms[i].id = id THEN r ELSE ms[i].reply
  <2>1. ms[i] \in FrameMessage
    OBVIOUS
  <2>2. new[i] = [ms[i] EXCEPT !.reply = IF ms[i].id = id THEN r ELSE ms[i].reply]
    BY <1>1
  <2>3. /\ new[i].id = ms[i].id /\ new[i].src = ms[i].src /\ new[i].dst = ms[i].dst
        /\ new[i].read = ms[i].read /\ new[i].reply = IF ms[i].id = id THEN r ELSE ms[i].reply
    BY <2>1, <2>2 DEF FrameMessage
  <2>4. new[i] \in FrameMessage
    BY <2>1, <2>2, Zenon DEF FrameMessage
  <2> QED  BY <2>3, <2>4 DEF Alike
<1>5. new \in Seq(FrameMessage)
  BY <1>2, <1>3, <1>4, SMTT(30)
<1>6. Over(new, ms)
  BY <1>2, <1>4, <1>5 DEF Over
<1> QED  BY <1>4, <1>6 DEF new

-----------------------------------------------------------------------------
(* What the steps do to the journal and to the history *)

\* The bounds are natural numbers.
LEMMA BoundsNat == /\ MaxFrames \in Nat /\ MaxMessages \in Nat /\ MaxReplies \in Nat
                   /\ MaxFaults \in Nat /\ NoReply = 0
BY BoundsAssumption DEF NoReply

\* No id that was good is lost.
IdsGrow ==
    /\ \A id \in Nat : GoodId(id) => GoodId(id)'
    /\ \A r \in Nat : GoodReply(r) => GoodReply(r)'
    /\ lastMsg' >= lastMsg

\* A step gives out the next id, or none.
LEMMA IdsGrowIf ==
    ASSUME FrameTypes, lastMsg' \in {lastMsg, lastMsg + 1}, lastReply' \in {lastReply, lastReply + 1},
           refused' \in {refused, refused \cup {<<"message", lastMsg + 1>>},
                         refused \cup {<<"reply", lastReply + 1>>}}
    PROVE  IdsGrow
<1>1. lastMsg \in Nat /\ lastReply \in Nat
  BY BoundsNat, SMTT(30) DEF FrameTypes
<1>2. ASSUME NEW id \in Nat, GoodId(id) PROVE GoodId(id)'
  <2>1. id <= lastMsg /\ <<"message", id>> \notin refused
    BY <1>2 DEF GoodId
  <2>2. id <= lastMsg' /\ id # lastMsg + 1
    BY <1>1, <2>1
  <2>3. <<"message", id>> # <<"message", lastMsg + 1>> /\ <<"message", id>> # <<"reply", lastReply + 1>>
    BY <2>2
  <2>4. <<"message", id>> \notin refused'
    BY <2>1, <2>3
  <2> QED  BY <2>2, <2>4 DEF GoodId
<1>3. ASSUME NEW r \in Nat, GoodReply(r) PROVE GoodReply(r)'
  <2>1. r <= lastReply /\ <<"reply", r>> \notin refused
    BY <1>3 DEF GoodReply
  <2>2. r <= lastReply' /\ r # lastReply + 1
    BY <1>1, <2>1
  <2>3. <<"reply", r>> # <<"message", lastMsg + 1>> /\ <<"reply", r>> # <<"reply", lastReply + 1>>
    BY <2>2
  <2>4. <<"reply", r>> \notin refused'
    BY <2>1, <2>3
  <2> QED  BY <2>2, <2>4 DEF GoodReply
<1>4. lastMsg' >= lastMsg
  BY <1>1
<1> QED  BY <1>2, <1>3, <1>4 DEF IdsGrow

\* Messages and records that are new have new ids.
Grows ==
    /\ IdsGrow
    /\ \A y \in Told' : y \in Told \/ y.id > lastMsg
    /\ ~unreadable' => \A j \in Sends' :
           \/ journal'[j].msg.id \in Nat /\ journal'[j].msg.id > lastMsg
           \/ ~unreadable /\ \E k \in Sends : journal[k].msg = journal'[j].msg

\* What is a view of the journal stays one when the journal grows.
LEMMA ViewGrows ==
    ASSUME FrameTypes, Grows
    PROVE  \A fs, ms : View(fs, ms) => View(fs, ms)'
<1> SUFFICES ASSUME NEW fs, NEW ms, View(fs, ms) PROVE View(fs, ms)'
  OBVIOUS
<1>1. lastMsg \in Nat
  BY BoundsNat, SMTT(30) DEF FrameTypes
<1>2. ASSUME NEW i \in DOMAIN ms
      PROVE  /\ ms[i].id \in Nat /\ ms[i].reply \in Nat /\ ms[i].id <= lastMsg
             /\ GoodId(ms[i].id) /\ GoodReply(ms[i].reply)
  <2>1. ms[i] \in FrameMessage
    BY DEF View
  <2>2. ms[i].id \in Nat /\ ms[i].reply \in Nat
    BY <2>1, MessageFields
  <2>3. GoodId(ms[i].id) /\ GoodReply(ms[i].reply)
    BY DEF View
  <2> QED  BY <2>2, <2>3 DEF GoodId
<1>3. ASSUME NEW i \in DOMAIN ms PROVE GoodId(ms[i].id)' /\ GoodReply(ms[i].reply)'
  BY <1>2 DEF Grows, IdsGrow
<1>4. ASSUME NEW i \in DOMAIN ms, NEW y \in Told', ms[i].id = y.id PROVE Alike(ms[i], y)
  <2>1. y \in Told
    BY <1>1, <1>2, <1>4 DEF Grows
  <2> QED  BY <1>4, <2>1, Zenon DEF View
<1>5. ASSUME ~unreadable', NEW j \in Sends', Within(journal'[j].msg, fs)
      PROVE  \/ journal'[j].msg.id \in Ids(ms)
             \/ \A i \in DOMAIN ms : ms[i].id < journal'[j].msg.id
  <2>1. CASE journal'[j].msg.id \in Nat /\ journal'[j].msg.id > lastMsg
    <3>1. \A a, c \in Nat : a > lastMsg /\ c <= lastMsg => c < a
      BY <1>1
    <3> QED  BY <1>2, <2>1, <3>1
  <2>2. CASE ~unreadable /\ \E k \in Sends : journal[k].msg = journal'[j].msg
    BY <1>5, <2>2 DEF View
  <2> QED  BY <1>5, <2>1, <2>2 DEF Grows
<1>6. ms \in Seq(FrameMessage) /\ InOrder(ms)
  BY DEF View
<1> QED  BY <1>3, <1>4, <1>5, <1>6, Zenon DEF View

\* A record is appended.
LEMMA Appended ==
    ASSUME FrameTypes, NEW rec \in JournalRecord, journal' = Append(journal, rec)
    PROVE  /\ Len(journal) \in Nat /\ journal' \in Seq(JournalRecord)
           /\ \A j \in 1 .. Len(journal) : journal'[j] = journal[j] /\ j < Len(journal) + 1
           /\ journal'[Len(journal) + 1] = rec
           /\ Sends' = Sends \cup (IF rec.kind = "sent" THEN {Len(journal) + 1} ELSE {})
           /\ Replies' = Replies \cup (IF rec.kind = "reply" THEN {Len(journal) + 1} ELSE {})
           /\ Reads' = Reads \cup (IF rec.kind = "read" THEN {Len(journal) + 1} ELSE {})
           /\ \A j \in Sends \cup Replies \cup Reads : j \in 1 .. Len(journal)
<1>1. journal \in Seq(JournalRecord)
  BY DEF FrameTypes
<1>2. /\ Len(journal) \in Nat /\ journal' \in Seq(JournalRecord)
      /\ \A j \in 1 .. Len(journal) : journal'[j] = journal[j] /\ j < Len(journal) + 1
      /\ journal'[Len(journal) + 1] = rec
      /\ Len(journal') = Len(journal) + 1
  BY <1>1
<1>3. 1 .. Len(journal') = (1 .. Len(journal)) \cup {Len(journal) + 1}
  BY <1>2
<1>4. Sends' = Sends \cup (IF rec.kind = "sent" THEN {Len(journal) + 1} ELSE {})
  BY <1>2, <1>3 DEF Sends
<1>5. Replies' = Replies \cup (IF rec.kind = "reply" THEN {Len(journal) + 1} ELSE {})
  BY <1>2, <1>3 DEF Replies
<1>6. Reads' = Reads \cup (IF rec.kind = "read" THEN {Len(journal) + 1} ELSE {})
  BY <1>2, <1>3 DEF Reads
<1>7. \A j \in Sends \cup Replies \cup Reads : j \in 1 .. Len(journal)
  BY DEF Sends, Replies, Reads
<1> QED  BY <1>2, <1>4, <1>5, <1>6, <1>7

\* The lines of the journal are spoilt by faults that are counted, and stay so.
FaultCounted ==
    /\ journalFaults' \in Nat /\ journalFaults' >= journalFaults
    /\ lines' = lines \/ journalFaults' > 0
    /\ ~unreadable' => ~unreadable
    /\ lines' = "whole" => lines = "whole"

\* The journal is as before.
LEMMA JournalSame ==
    ASSUME FrameTypes, DiskInv, IdsGrow, FaultCounted, lastMsg' \in Nat,
           UNCHANGED <<journal, sent, answer>>, Noted' = Noted \/ journalFaults' # 0,
           stopped' = stopped \/ stopped'
    PROVE  DiskInv' /\ Grows
<1>1. lastMsg \in Nat /\ journalFaults \in Nat /\ lastMsg' >= lastMsg
  BY BoundsNat, SMTT(30) DEF FrameTypes, IdsGrow
<1>2. Sends' = Sends /\ Replies' = Replies /\ Reads' = Reads /\ Told' = Told
  BY DEF Sends, Replies, Reads, Told
<1>3. ~unreadable' => ~unreadable
  BY DEF FaultCounted
<1>4. ASSUME NEW x \in Told PROVE x.id \in Nat
  <2>1. x \in FrameMessage
    BY RecordTypes DEF Told, FrameTypes
  <2> QED  BY <2>1, MessageFields
<1>5. IdInv'
  <2>1. \A x \in Told : GoodId(x.id)'
    BY <1>4 DEF DiskInv, IdInv, IdsGrow
  <2>2. \A id \in 1 .. MaxMessages : answer'[id] # NoReply => id <= lastMsg'
    BY <1>1, BoundsNat DEF DiskInv, IdInv
  <2> QED  BY <1>2, <2>1, <2>2 DEF DiskInv, IdInv
<1>6. JournalInv'
  <2>1. ASSUME NEW k \in Replies
        PROVE  (journal[k].id <= lastMsg /\ GoodReply(journal[k].reply))'
    <3>1. journal[k].id \in Nat /\ journal[k].reply \in Nat
      BY RecordTypes, BoundsNat, SMTT(30)
    <3>2. journal[k].id <= lastMsg /\ GoodReply(journal[k].reply)
      BY DEF DiskInv, JournalInv
    <3>3. GoodReply(journal[k].reply)'
      BY <3>1, <3>2 DEF IdsGrow
    <3> QED  BY <1>1, <3>1, <3>2, <3>3
  <2>2. ASSUME NEW k \in Reads PROVE journal'[k].ids \subseteq 1 .. lastMsg'
    <3>1. 1 .. lastMsg \subseteq 1 .. lastMsg'
      BY <1>1
    <3> QED  BY <3>1 DEF DiskInv, JournalInv
  <2>3. lines' # "whole" => journalFaults' > 0
    BY <1>1 DEF DiskInv, JournalInv, FaultCounted
  <2>4. JournalInv
    BY DEF DiskInv
  <2> QED  BY <1>2, <1>3, <2>1, <2>2, <2>3, <2>4 DEF JournalInv
<1>7. AckInv'
  <2>1. journalFaults' = 0 => journalFaults = 0
    BY <1>1 DEF FaultCounted
  <2>2. ~stopped' => ~stopped
    BY DEF FrameTypes
  <2> QED  BY <1>2, <1>3, <2>1, <2>2 DEF DiskInv, AckInv
<1>8. Grows
  BY <1>2, <1>3 DEF Grows
<1> QED  BY <1>5, <1>6, <1>7, <1>8 DEF DiskInv

\* What callers were told is of ids that were given out.
LEMMA ToldTypes ==
    ASSUME FrameTypes, IdInv
    PROVE  \A x \in Told : x \in FrameMessage /\ x.id \in Nat /\ x.id <= lastMsg
<1> TAKE x \in Told
<1>1. x \in FrameMessage
  BY RecordTypes DEF Told, FrameTypes
<1>2. GoodId(x.id)
  BY DEF IdInv
<1> QED  BY <1>1, <1>2, MessageFields DEF GoodId

\* The journal with the record of a send at its end, n.
LEMMA SentAdded ==
    ASSUME FrameTypes, DiskInv, IdsGrow, FaultCounted, NEW n \in Nat,
           NEW m \in FrameMessage, m.id = lastMsg + 1, m.reply = NoReply, GoodId(m.id)',
           \A j \in Sends : journal'[j] = journal[j] /\ j < n /\ ~ (n < j) /\ j # n,
           \A j \in Replies : journal'[j] = journal[j] /\ j < n,
           \A j \in Reads : journal'[j] = journal[j] /\ j < n,
           Sends' = Sends \cup {n}, Replies' = Replies, Reads' = Reads,
           journal'[n].msg = m, lastMsg' = lastMsg + 1,
           sent' \subseteq sent \cup {m}, UNCHANGED <<answer, Noted, stopped>>
    PROVE  DiskInv' /\ Grows
<1>4. /\ lastMsg \in Nat /\ m.id \in Nat /\ m.id > lastMsg /\ m.id <= lastMsg'
      /\ lastMsg <= lastMsg' /\ journalFaults \in Nat
  BY BoundsNat, SMTT(30) DEF FrameTypes
<1>5. \A x \in Told : x.id \in Nat /\ x.id <= lastMsg /\ x.id # m.id /\ x.id < m.id
  BY <1>4, ToldTypes, SMTT(30) DEF DiskInv
<1>6. \A x \in Told' : x \in Told \/ x = m
  BY DEF Told
<1>7. ~unreadable' => ~unreadable
  BY DEF FaultCounted
<1>8. GoodId(m.id)'
  OBVIOUS
<1>9. IdInv'
  <2>1. \A x \in Told : GoodId(x.id)'
    BY <1>5 DEF DiskInv, IdInv, IdsGrow
  <2>2. \A x, y \in Told' : x.id = y.id => Alike(x, y)
    BY <1>5, <1>6 DEF DiskInv, IdInv, Alike
  <2>3. \A id \in 1 .. MaxMessages : answer'[id] # NoReply => id <= lastMsg'
    BY <1>4, BoundsNat, SMTT(30) DEF DiskInv, IdInv
  <2> QED  BY <1>6, <1>8, <2>1, <2>2, <2>3 DEF IdInv
<1>10. JournalInv'
  <2>1. JournalInv
    BY DEF DiskInv
  <2>2. ASSUME NEW k \in Replies
        PROVE  /\ journal'[k].id <= lastMsg' /\ GoodReply(journal[k].reply)'
               /\ journal'[k].id # m.id /\ journal[k].reply = journal'[k].reply
    <3>1. journal[k].id \in Nat /\ journal[k].reply \in Nat /\ journal'[k] = journal[k]
      BY RecordTypes, BoundsNat, SMTT(30)
    <3>2. journal[k].id <= lastMsg /\ GoodReply(journal[k].reply)
      BY <2>1 DEF JournalInv
    <3>3. GoodReply(journal[k].reply)'
      BY <3>1, <3>2 DEF IdsGrow
    <3> QED  BY <1>4, <3>1, <3>2, <3>3, SMTT(30)
  <2>3. ASSUME NEW k \in Reads PROVE journal'[k].ids \subseteq 1 .. lastMsg' /\ m.id \notin journal'[k].ids
    <3>1. 1 .. lastMsg \subseteq 1 .. lastMsg' /\ m.id \notin 1 .. lastMsg
      BY <1>4, SMTT(30)
    <3>2. journal[k].ids \subseteq 1 .. lastMsg /\ journal'[k] = journal[k]
      BY <2>1 DEF JournalInv
    <3> QED  BY <3>1, <3>2
  <2>4. lines' # "whole" => journalFaults' > 0
    BY <1>4, <2>1, SMTT(30) DEF JournalInv, FaultCounted
  <2>5. ASSUME NEW j \in Sends', NEW k \in Sends', j < k PROVE journal'[j].msg.id < journal'[k].msg.id
    <3>1. \A i \in Sends : journal[i].msg \in Told
      BY RecordTypes
    <3>2. j \in Sends /\ journal'[j] = journal[j]
      <4>1. CASE j = n
        BY <2>5, <4>1
      <4>2. CASE j \in Sends
        BY <4>2
      <4> QED  BY <4>1, <4>2
    <3>3. CASE k = n
      BY <1>5, <3>1, <3>2, <3>3
    <3>4. CASE k \in Sends
      BY <2>1, <2>5, <3>2, <3>4 DEF JournalInv
    <3> QED  BY <3>3, <3>4
  <2>6. \A j \in Sends' : journal'[j].msg.reply = NoReply
    BY <2>1 DEF JournalInv
  <2>7. ASSUME NEW j \in Sends', NEW k \in Replies, journal'[k].id = journal'[j].msg.id PROVE j < k
    <3>1. j \in Sends
      BY <2>2, <2>7
    <3> QED  BY <2>1, <2>7, <3>1 DEF JournalInv
  <2>8. \A j \in Sends', k \in Reads : journal'[j].msg.id \in journal'[k].ids => j < k
    BY <2>1, <2>3 DEF JournalInv
  <2>9. ASSUME ~unreadable', NEW j \in Replies, NEW k \in Replies, journal'[j].id = journal'[k].id
        PROVE  journal'[j].reply = journal'[k].reply
    <3>1. ~unreadable /\ journal'[j] = journal[j] /\ journal'[k] = journal[k]
      BY <1>7, <2>9
    <3> QED  BY <2>1, <2>9, <3>1, SMTT(30) DEF JournalInv
  <2> QED  BY <2>2, <2>3, <2>4, <2>5, <2>6, <2>7, <2>8, <2>9 DEF JournalInv
<1>11. AckInv'
  <2>1. AckInv
    BY DEF DiskInv
  <2>2. journalFaults' = 0 => journalFaults = 0
    BY <1>4, SMTT(30) DEF FaultCounted
  <2>3. ASSUME ~unreadable', ~stopped', NEW x \in sent' PROVE \E j \in Sends' : journal'[j].msg = x
    <3>1. CASE x = m
      BY <3>1
    <3>2. CASE x \in sent
      <4>1. PICK j \in Sends : journal[j].msg = x
        BY <1>7, <2>1, <2>3, <3>2 DEF AckInv
      <4> QED  BY <4>1
    <3> QED  BY <3>1, <3>2
  <2>4. ASSUME ~unreadable', ~stopped', NEW id \in 1 .. MaxMessages, answer'[id] # NoReply
        PROVE  \E j \in Replies' : journal'[j].id = id /\ journal'[j].reply = answer'[id]
    BY <1>7, <2>1, <2>4, SMTT(30) DEF AckInv
  <2>5. ASSUME journalFaults' = 0, ~stopped'
        PROVE  \A id \in Noted' : \E j \in Reads' : id \in journal'[j].ids
    BY <2>1, <2>2, <2>5 DEF AckInv
  <2> QED  BY <2>3, <2>4, <2>5 DEF AckInv
<1>12. Grows
  BY <1>4, <1>6, <1>7 DEF Grows
<1> QED  BY <1>9, <1>10, <1>11, <1>12 DEF DiskInv

\* The record of a send keeps the journal in order (appendFrameMessageJournal).
LEMMA SentRecorded ==
    ASSUME FrameTypes, DiskInv, IdsGrow, FaultCounted,
           NEW m \in FrameMessage, m.id = lastMsg + 1, m.reply = NoReply,
           journal' = Append(journal, Sent(m)), lastMsg' = lastMsg + 1,
           sent' \in {sent, sent \cup {m}}, UNCHANGED <<answer, Noted, stopped, refused>>
    PROVE  DiskInv' /\ Grows
<1> DEFINE n == Len(journal) + 1
           rec == Sent(m)
<1>1. rec \in JournalRecord /\ rec.kind = "sent" /\ rec.msg = m
  BY DEF Sent, JournalRecord
<1>2. /\ n \in Nat /\ \A j \in 1 .. Len(journal) : journal'[j] = journal[j] /\ j < n
      /\ journal'[n].msg = m /\ journal'[n].kind = "sent"
      /\ Sends' = Sends \cup {n} /\ Replies' = Replies /\ Reads' = Reads
      /\ \A j \in Sends \cup Replies \cup Reads : j \in 1 .. Len(journal)
  <2> HIDE DEF rec
  <2>1. journal' = Append(journal, rec)
    BY DEF rec
  <2>2. /\ Len(journal) \in Nat
        /\ \A j \in 1 .. Len(journal) : journal'[j] = journal[j] /\ j < Len(journal) + 1
        /\ journal'[Len(journal) + 1] = rec
        /\ Sends' = Sends \cup (IF rec.kind = "sent" THEN {Len(journal) + 1} ELSE {})
        /\ Replies' = Replies \cup (IF rec.kind = "reply" THEN {Len(journal) + 1} ELSE {})
        /\ Reads' = Reads \cup (IF rec.kind = "read" THEN {Len(journal) + 1} ELSE {})
        /\ \A j \in Sends \cup Replies \cup Reads : j \in 1 .. Len(journal)
    BY <1>1, <2>1, Appended, Zenon
  <2> QED  BY <1>1, <2>2, SMTT(30)
<1> HIDE DEF n
<1>3. /\ \A j \in Sends : journal'[j] = journal[j] /\ j < n /\ ~ (n < j) /\ j # n
      /\ \A j \in Replies : journal'[j] = journal[j] /\ j < n
      /\ \A j \in Reads : journal'[j] = journal[j] /\ j < n
  <2>1. \A j \in 1 .. Len(journal) : j < n => ~ (n < j) /\ j # n
    BY <1>2
  <2> QED  BY <1>2, <2>1
<1>4. lastMsg \in Nat /\ m.id = lastMsg' /\ m.id > lastMsg
  BY BoundsNat DEF FrameTypes
<1>5. GoodId(m.id)'
  <2>1. <<"message", m.id>> \notin refused
    BY <1>4, SMTT(30) DEF FrameTypes
  <2> QED  BY <1>4, <2>1 DEF GoodId
<1>6. sent' \subseteq sent \cup {m}
  OBVIOUS
<1> QED  BY <1>2, <1>3, <1>5, <1>6, SentAdded, Zenon

\* A step without a fault leaves the journal readable.
LEMMA FaultKept ==
    ASSUME FrameTypes, JournalInv, FaultCounted
    PROVE  /\ lines' # "whole" => journalFaults' > 0
           /\ ~unreadable' => ~unreadable
           /\ lines' = "whole" => lines = "whole"
           /\ journalFaults' = 0 => journalFaults = 0
<1>1. journalFaults \in Nat /\ (lines # "whole" => journalFaults > 0)
  BY BoundsNat, SMTT(30) DEF FrameTypes, JournalInv
<1>2. lines' # "whole" => journalFaults' > 0
  BY <1>1 DEF FaultCounted
<1>3. journalFaults' = 0 => journalFaults = 0
  BY <1>1 DEF FaultCounted
<1> QED  BY <1>2, <1>3 DEF FaultCounted

\* The journal with the record of a reply at its end, n.
LEMMA ReplyAdded ==
    ASSUME FrameTypes, DiskInv, IdsGrow, FaultCounted, NEW n \in Nat,
           NEW id \in 1 .. MaxMessages, id <= lastMsg, NEW r, GoodReply(r)',
           ~unreadable' => \A k \in Replies : journal[k].id # id,
           \A j \in Sends : journal'[j] = journal[j] /\ j < n,
           \A j \in Replies : journal'[j] = journal[j] /\ j < n,
           \A j \in Reads : journal'[j] = journal[j] /\ j < n,
           Sends' = Sends, Replies' = Replies \cup {n}, Reads' = Reads,
           journal'[n].id = id, journal'[n].reply = r, lastMsg' = lastMsg,
           \A i \in 1 .. MaxMessages : answer'[i] = answer[i] \/ (i = id /\ answer'[i] = r),
           UNCHANGED <<sent, Noted, stopped>>
    PROVE  DiskInv' /\ Grows
<1>4. lastMsg \in Nat /\ lastReply \in Nat /\ JournalInv /\ AckInv /\ IdInv
  BY BoundsNat, SMTT(30) DEF FrameTypes, DiskInv
<1>5. Told' = Told
  BY SMTT(30) DEF Told
<1>6. /\ lines' # "whole" => journalFaults' > 0
      /\ ~unreadable' => ~unreadable
      /\ journalFaults' = 0 => journalFaults = 0
  BY <1>4, FaultKept
<1>7. GoodReply(r)'
  OBVIOUS
<1>8. IdInv'
  <2>1. \A x \in Told : GoodId(x.id)'
    BY <1>4, ToldTypes DEF IdInv, IdsGrow
  <2>2. \A i \in 1 .. MaxMessages : answer'[i] # NoReply => i <= lastMsg'
    BY <1>4 DEF IdInv, FrameTypes
  <2> QED  BY <1>4, <1>5, <2>1, <2>2 DEF IdInv
<1>9. JournalInv'
  <2>1. ASSUME NEW k \in Replies' PROVE (journal[k].id <= lastMsg /\ GoodReply(journal[k].reply))'
    <3>1. CASE k = n
      BY <1>7, <3>1
    <3>2. CASE k \in Replies
      <4>1. journal[k].reply \in Nat /\ journal'[k] = journal[k]
        BY <3>2, RecordTypes, BoundsNat, SMTT(30)
      <4>2. journal[k].id <= lastMsg /\ GoodReply(journal[k].reply)
        BY <1>4, <3>2 DEF JournalInv
      <4>3. GoodReply(journal[k].reply)'
        BY <4>1, <4>2 DEF IdsGrow
      <4> QED  BY <4>1, <4>2, <4>3
    <3> QED  BY <3>1, <3>2, Zenon
  <2>2. \A k \in Reads : journal'[k].ids \subseteq 1 .. lastMsg'
    BY <1>4 DEF JournalInv
  <2>3. \A j, k \in Sends : j < k => journal'[j].msg.id < journal'[k].msg.id
    BY <1>4 DEF JournalInv
  <2>4. \A j \in Sends : journal'[j].msg.reply = NoReply
    BY <1>4 DEF JournalInv
  <2>5. ASSUME NEW j \in Sends, NEW k \in Replies', journal'[k].id = journal'[j].msg.id PROVE j < k
    <3>1. CASE k = n
      BY <3>1
    <3>2. CASE k \in Replies
      <4>1. journal[k].id = journal[j].msg.id => j < k
        BY <1>4, <3>2 DEF JournalInv
      <4> QED  BY <2>5, <3>2, <4>1
    <3> QED  BY <3>1, <3>2
  <2>6. \A j \in Sends, k \in Reads : journal'[j].msg.id \in journal'[k].ids => j < k
    BY <1>4 DEF JournalInv
  <2>7. ASSUME ~unreadable', NEW j \in Replies', NEW k \in Replies', journal'[j].id = journal'[k].id
        PROVE  journal'[j].reply = journal'[k].reply
    <3>1. CASE j = n /\ k = n
      BY <3>1
    <3>2. CASE j \in Replies /\ k \in Replies
      <4>1. ~unreadable /\ journal'[j] = journal[j] /\ journal'[k] = journal[k]
        BY <1>6, <2>7, <3>2
      <4>2. journal[j].id = journal[k].id => journal[j].reply = journal[k].reply
        BY <1>4, <3>2, <4>1 DEF JournalInv
      <4> QED  BY <2>7, <4>1, <4>2
    <3>3. CASE j = n /\ k \in Replies
      BY <1>6, <2>7, <3>3
    <3>4. CASE j \in Replies /\ k = n
      BY <1>6, <2>7, <3>4
    <3> QED  BY <3>1, <3>2, <3>3, <3>4
  <2> QED  BY <1>6, <2>1, <2>2, <2>3, <2>4, <2>5, <2>6, <2>7 DEF JournalInv
<1>10. AckInv'
  <2>1. ASSUME ~unreadable', ~stopped', NEW x \in sent' PROVE \E j \in Sends' : journal'[j].msg = x
    BY <1>4, <1>6, <2>1, SMTT(30) DEF AckInv
  <2>2. ASSUME ~unreadable', ~stopped', NEW i \in 1 .. MaxMessages, answer'[i] # NoReply
        PROVE  \E j \in Replies' : journal'[j].id = i /\ journal'[j].reply = answer'[i]
    <3>1. CASE answer'[i] = answer[i]
      <4>1. PICK j \in Replies : journal[j].id = i /\ journal[j].reply = answer[i]
        BY <1>4, <1>6, <2>2, <3>1 DEF AckInv
      <4> QED  BY <3>1, <4>1
    <3>2. CASE answer'[i] # answer[i]
      <4>1. i = id /\ answer'[i] = r
        BY <3>2 DEF FrameTypes
      <4> QED  BY <4>1
    <3> QED  BY <3>1, <3>2
  <2>3. ASSUME journalFaults' = 0, ~stopped'
        PROVE  \A i \in Noted' : \E j \in Reads' : i \in journal'[j].ids
    BY <1>4, <1>6, <2>3 DEF AckInv
  <2> QED  BY <2>1, <2>2, <2>3 DEF AckInv
<1>11. Grows
  BY <1>5, <1>6 DEF Grows
<1> QED  BY <1>8, <1>9, <1>10, <1>11 DEF DiskInv

\* The record of a reply names a message that is in the journal.
LEMMA ReplyRecorded ==
    ASSUME FrameTypes, DiskInv, IdsGrow, FaultCounted,
           NEW id \in 1 .. MaxMessages, id <= lastMsg, NEW r \in 1 .. MaxReplies, r = lastReply + 1,
           ~unreadable' => \A k \in Replies : journal[k].id # id,
           journal' = Append(journal, [kind |-> "reply", id |-> id, reply |-> r]),
           lastMsg' = lastMsg, lastReply' = r,
           answer' \in {answer, [answer EXCEPT ![id] = r]}, UNCHANGED <<sent, Noted, stopped, refused>>
    PROVE  DiskInv' /\ Grows
<1> DEFINE n == Len(journal) + 1
           rec == [kind |-> "reply", id |-> id, reply |-> r]
<1>1. rec \in JournalRecord /\ rec.kind = "reply" /\ rec.id = id /\ rec.reply = r
  BY DEF JournalRecord
<1>2. /\ n \in Nat /\ \A j \in 1 .. Len(journal) : journal'[j] = journal[j] /\ j < n
      /\ journal'[n].id = id /\ journal'[n].reply = r
      /\ Sends' = Sends /\ Replies' = Replies \cup {n} /\ Reads' = Reads
      /\ \A j \in Sends \cup Replies \cup Reads : j \in 1 .. Len(journal)
  <2> HIDE DEF rec
  <2>1. journal' = Append(journal, rec)
    BY DEF rec
  <2>2. /\ Len(journal) \in Nat
        /\ \A j \in 1 .. Len(journal) : journal'[j] = journal[j] /\ j < Len(journal) + 1
        /\ journal'[Len(journal) + 1] = rec
        /\ Sends' = Sends \cup (IF rec.kind = "sent" THEN {Len(journal) + 1} ELSE {})
        /\ Replies' = Replies \cup (IF rec.kind = "reply" THEN {Len(journal) + 1} ELSE {})
        /\ Reads' = Reads \cup (IF rec.kind = "read" THEN {Len(journal) + 1} ELSE {})
        /\ \A j \in Sends \cup Replies \cup Reads : j \in 1 .. Len(journal)
    BY <1>1, <2>1, Appended, Zenon
  <2> QED  BY <1>1, <2>2, SMTT(30)
<1> HIDE DEF n
<1>3. /\ \A j \in Sends : journal'[j] = journal[j] /\ j < n
      /\ \A j \in Replies : journal'[j] = journal[j] /\ j < n
      /\ \A j \in Reads : journal'[j] = journal[j] /\ j < n
  BY <1>2
<1>4. lastMsg \in Nat /\ lastReply \in Nat
  BY BoundsNat, SMTT(30) DEF FrameTypes
<1>5. GoodReply(r)'
  <2>1. <<"reply", r>> \notin refused
    BY <1>4, SMTT(30) DEF FrameTypes
  <2> QED  BY <1>4, <2>1, SMTT(30) DEF GoodReply
<1>6. \A i \in 1 .. MaxMessages : answer'[i] = answer[i] \/ (i = id /\ answer'[i] = r)
  BY Zenon DEF FrameTypes
<1> QED  BY <1>2, <1>3, <1>5, <1>6, ReplyAdded, Zenon

\* The journal with the record of a read at its end, n.
LEMMA ReadAdded ==
    ASSUME FrameTypes, DiskInv, IdsGrow, FaultCounted, NEW n \in Nat,
           NEW ids, ids \subseteq 1 .. lastMsg,
           \A j \in Sends : journal'[j] = journal[j] /\ j < n,
           \A j \in Replies : journal'[j] = journal[j] /\ j < n,
           \A j \in Reads : journal'[j] = journal[j] /\ j < n,
           Sends' = Sends, Replies' = Replies, Reads' = Reads \cup {n},
           journal'[n].ids = ids, lastMsg' = lastMsg,
           Noted' \subseteq Noted \cup ids, UNCHANGED <<sent, answer, stopped>>
    PROVE  DiskInv' /\ Grows
<1>4. lastMsg \in Nat /\ JournalInv /\ AckInv /\ IdInv
  BY BoundsNat, SMTT(30) DEF FrameTypes, DiskInv
<1>5. Told' = Told
  BY DEF Told
<1>6. /\ lines' # "whole" => journalFaults' > 0
      /\ ~unreadable' => ~unreadable
      /\ journalFaults' = 0 => journalFaults = 0
  BY <1>4, FaultKept
<1>7. IdInv'
  <2>1. \A x \in Told : GoodId(x.id)'
    BY <1>4, ToldTypes DEF IdInv, IdsGrow
  <2> QED  BY <1>4, <1>5, <2>1 DEF IdInv
<1>8. JournalInv'
  <2>1. ASSUME NEW k \in Replies PROVE (journal[k].id <= lastMsg /\ GoodReply(journal[k].reply))'
    <3>1. journal[k].reply \in Nat /\ journal'[k] = journal[k]
      BY RecordTypes, BoundsNat, SMTT(30)
    <3>2. journal[k].id <= lastMsg /\ GoodReply(journal[k].reply)
      BY <1>4 DEF JournalInv
    <3>3. GoodReply(journal[k].reply)'
      BY <3>1, <3>2 DEF IdsGrow
    <3> QED  BY <3>1, <3>2, <3>3, Zenon
  <2>2. \A k \in Reads' : journal'[k].ids \subseteq 1 .. lastMsg'
    BY <1>4 DEF JournalInv
  <2>3. \A j, k \in Sends : j < k => journal'[j].msg.id < journal'[k].msg.id
    BY <1>4 DEF JournalInv
  <2>4. \A j \in Sends : journal'[j].msg.reply = NoReply
    BY <1>4 DEF JournalInv
  <2>5. \A j \in Sends, k \in Replies : journal'[k].id = journal'[j].msg.id => j < k
    BY <1>4 DEF JournalInv
  <2>6. ASSUME NEW j \in Sends, NEW k \in Reads', journal'[j].msg.id \in journal'[k].ids PROVE j < k
    <3>1. CASE k = n
      BY <3>1
    <3>2. CASE k \in Reads
      BY <1>4, <2>6, <3>2 DEF JournalInv
    <3> QED  BY <3>1, <3>2
  <2>7. ASSUME ~unreadable', NEW j \in Replies, NEW k \in Replies, journal'[j].id = journal'[k].id
        PROVE  journal'[j].reply = journal'[k].reply
    <3>1. ~unreadable /\ journal'[j] = journal[j] /\ journal'[k] = journal[k]
      BY <1>6, <2>7
    <3> QED  BY <1>4, <2>7, <3>1, SMTT(30) DEF JournalInv
  <2> QED  BY <1>6, <2>1, <2>2, <2>3, <2>4, <2>5, <2>6, <2>7 DEF JournalInv
<1>9. AckInv'
  <2>1. ASSUME ~unreadable', ~stopped', NEW x \in sent' PROVE \E j \in Sends' : journal'[j].msg = x
    BY <1>4, <1>6, <2>1 DEF AckInv
  <2>2. ASSUME ~unreadable', ~stopped', NEW i \in 1 .. MaxMessages, answer'[i] # NoReply
        PROVE  \E j \in Replies' : journal'[j].id = i /\ journal'[j].reply = answer'[i]
    BY <1>4, <1>6, <2>2, SMTT(30) DEF AckInv
  <2>3. ASSUME journalFaults' = 0, ~stopped', NEW i \in Noted'
        PROVE  \E j \in Reads' : i \in journal'[j].ids
    <3>1. CASE i \in Noted
      <4>1. PICK j \in Reads : i \in journal[j].ids
        BY <1>4, <1>6, <2>3, <3>1 DEF AckInv
      <4> QED  BY <4>1
    <3>2. CASE i \in ids
      BY <3>2
    <3> QED  BY <3>1, <3>2
  <2> QED  BY <2>1, <2>2, <2>3 DEF AckInv
<1>10. Grows
  BY <1>5, <1>6 DEF Grows
<1> QED  BY <1>7, <1>8, <1>9, <1>10 DEF DiskInv

\* The record of a read names messages that are in the journal.
LEMMA ReadRecorded ==
    ASSUME FrameTypes, DiskInv, IdsGrow, FaultCounted, NEW ids, ids \subseteq 1 .. lastMsg,
           journal' = Append(journal, [kind |-> "read", ids |-> ids]), lastMsg' = lastMsg,
           Noted' \in {Noted, Noted \cup ids}, UNCHANGED <<sent, answer, stopped>>
    PROVE  DiskInv' /\ Grows
<1> DEFINE n == Len(journal) + 1
           rec == [kind |-> "read", ids |-> ids]
<1>1. rec \in JournalRecord /\ rec.kind = "read" /\ rec.ids = ids
  <2>1. 1 .. lastMsg \subseteq 1 .. MaxMessages
    BY BoundsNat, SMTT(30) DEF FrameTypes
  <2>2. ids \in SUBSET (1 .. MaxMessages)
    BY <2>1
  <2> QED  BY <2>2 DEF JournalRecord
<1>2. /\ n \in Nat /\ \A j \in 1 .. Len(journal) : journal'[j] = journal[j] /\ j < n
      /\ journal'[n].ids = ids
      /\ Sends' = Sends /\ Replies' = Replies /\ Reads' = Reads \cup {n}
      /\ \A j \in Sends \cup Replies \cup Reads : j \in 1 .. Len(journal)
  <2> HIDE DEF rec
  <2>1. journal' = Append(journal, rec)
    BY DEF rec
  <2>2. /\ Len(journal) \in Nat
        /\ \A j \in 1 .. Len(journal) : journal'[j] = journal[j] /\ j < Len(journal) + 1
        /\ journal'[Len(journal) + 1] = rec
        /\ Sends' = Sends \cup (IF rec.kind = "sent" THEN {Len(journal) + 1} ELSE {})
        /\ Replies' = Replies \cup (IF rec.kind = "reply" THEN {Len(journal) + 1} ELSE {})
        /\ Reads' = Reads \cup (IF rec.kind = "read" THEN {Len(journal) + 1} ELSE {})
        /\ \A j \in Sends \cup Replies \cup Reads : j \in 1 .. Len(journal)
    BY <1>1, <2>1, Appended, Zenon
  <2> QED  BY <1>1, <2>2, SMTT(30)
<1> HIDE DEF n
<1>3. /\ \A j \in Sends : journal'[j] = journal[j] /\ j < n
      /\ \A j \in Replies : journal'[j] = journal[j] /\ j < n
      /\ \A j \in Reads : journal'[j] = journal[j] /\ j < n
  BY <1>2
<1>4. Noted' \subseteq Noted \cup ids
  OBVIOUS
<1> QED  BY <1>2, <1>3, <1>4, ReadAdded, Zenon

\* A stopped session has no journal.
LEMMA JournalDeleted ==
    ASSUME FrameTypes, DiskInv, journal' = <<>>, lines' = "whole", stopped' = TRUE,
           UNCHANGED <<lastMsg, lastReply, sent, answer, Noted, refused>>
    PROVE  DiskInv' /\ Grows
<1>1. Sends' = {} /\ Replies' = {} /\ Reads' = {}
  BY DEF Sends, Replies, Reads
<1>2. \A x \in Told' : x \in Told /\ x \in sent
  BY <1>1 DEF Told
<1>3. IdsGrow
  BY IdsGrowIf
<1>4. IdInv'
  <2>1. \A x \in Told : GoodId(x.id)'
    BY ToldTypes, <1>3 DEF DiskInv, IdInv, IdsGrow
  <2> QED  BY <1>2, <2>1 DEF DiskInv, IdInv
<1>5. JournalInv'
  BY <1>1 DEF JournalInv
<1>6. AckInv'
  BY DEF AckInv
<1>7. Grows
  BY <1>1, <1>2, <1>3 DEF Grows
<1> QED  BY <1>4, <1>5, <1>6, <1>7 DEF DiskInv

-----------------------------------------------------------------------------
(* What the steps do to memory and to the snapshot *)

\* Memory goes with the process.
LEMMA Emptied ==
    ASSUME frames' = {}, msgs' = <<>>, summary' = computeFrameMessagingSummary(<<>>)
    PROVE  MemoryInv'
<1>1. \A m : ~ Within(m, {})
  BY DEF Within
<1>2. DOMAIN msgs' = {} /\ msgs' \in Seq(FrameMessage)
  OBVIOUS
<1>3. View(frames, msgs)'
  BY <1>1, <1>2 DEF View, InOrder
<1>4. Complete(frames, msgs)'
  BY <1>1, <1>2 DEF Complete
<1>5. Shows(frames, msgs)'
  BY <1>1, <1>2 DEF Shows
<1>6. SummaryIsCurrent'
  BY DEF SummaryIsCurrent
<1> QED  BY <1>3, <1>4, <1>5, <1>6 DEF MemoryInv

\* The snapshot stays.
LEMMA SavedSame ==
    ASSUME FrameTypes, SavedInv, Grows, saved' = saved, saveErrors \in Nat,
           \/ stopped' = TRUE
           \/ stopped' = stopped /\ saveErrors' > 0
           \/ UNCHANGED <<stopped, saveErrors, sent, answer, Noted>>
    PROVE  SavedInv'
<1>1. View(saved.frames, saved.msgs)'
  BY ViewGrows DEF SavedInv
<1>2. ASSUME saveErrors' = 0, ~stopped' PROVE Shows(saved.frames, saved.msgs)'
  <2>1. UNCHANGED <<stopped, saveErrors, sent, answer, Noted>>
    BY <1>2
  <2>2. Shows(saved.frames, saved.msgs)
    BY <1>2, <2>1 DEF SavedInv
  <2> QED  BY <2>1, <2>2 DEF Shows
<1> QED  BY <1>1, <1>2 DEF SavedInv

\* The snapshot is taken of memory.
LEMMA SavedNow ==
    ASSUME MemoryInv', saved' = [frames |-> frames', msgs |-> msgs']
    PROVE  SavedInv'
<1>1. saved'.frames = frames' /\ saved'.msgs = msgs'
  OBVIOUS
<1>2. View(saved.frames, saved.msgs)'
  BY <1>1 DEF MemoryInv
<1>3. ASSUME saveErrors' = 0, ~stopped' PROVE Shows(saved.frames, saved.msgs)'
  BY <1>1, <1>3 DEF MemoryInv, OneStoreIntact
<1> QED  BY <1>2, <1>3 DEF SavedInv

\* A save writes what memory holds, or fails and leaves the older snapshot (PersistSave).
LEMMA PersistSaved ==
    ASSUME FrameTypes, SavedInv, Grows, MemoryInv', frames' \subseteq Frame, PersistSave, stopped' = stopped,
           ended' => UNCHANGED <<sent, answer, Noted>>
    PROVE  /\ SavedInv'
           /\ saved' \in [frames : SUBSET Frame, msgs : Seq(FrameMessage)]
           /\ saveErrors' \in 0 .. MaxFaults
<1>1. saveErrors \in Nat /\ MaxFaults \in Nat
  BY BoundsNat, SMTT(30) DEF FrameTypes
<1>2. CASE saved' = snapshotSessions /\ UNCHANGED saveErrors
  <2>1. CASE ended'
    <3>1. saved' = saved
      BY <1>2, <2>1 DEF snapshotSessions
    <3>2. UNCHANGED <<stopped, saveErrors, sent, answer, Noted>>
      BY <1>2, <2>1
    <3>3. SavedInv'
      BY <1>1, <3>1, <3>2, SavedSame, Zenon
    <3>4. saved' \in [frames : SUBSET Frame, msgs : Seq(FrameMessage)]
      BY <3>1, Zenon DEF FrameTypes
    <3>5. saveErrors' \in 0 .. MaxFaults
      BY <1>2, Zenon DEF FrameTypes
    <3> QED  BY <3>3, <3>4, <3>5, Zenon
  <2>2. CASE ~ended'
    <3>1. saved' = [frames |-> frames', msgs |-> msgs']
      BY <1>2, <2>2 DEF snapshotSessions
    <3>2. msgs' \in Seq(FrameMessage)
      <4>1. View(frames, msgs)'
        BY Zenon DEF MemoryInv
      <4> QED  BY <4>1, Zenon DEF View
    <3>3. SavedInv'
      BY <3>1, SavedNow, Zenon
    <3>4. saved' \in [frames : SUBSET Frame, msgs : Seq(FrameMessage)]
      BY <3>1, <3>2
    <3>5. saveErrors' \in 0 .. MaxFaults
      BY <1>2, Zenon DEF FrameTypes
    <3> QED  BY <3>3, <3>4, <3>5, Zenon
  <2> QED  BY <2>1, <2>2
<1>3. CASE MayFail /\ saveErrors' = saveErrors + 1 /\ UNCHANGED saved
  <2>1. saveErrors' > 0
    BY <1>1, <1>3
  <2>2. saveErrors' \in 0 .. MaxFaults
    BY <1>3, BoundsNat, SMTT(30) DEF FrameTypes, MayFail
  <2>3. saved' = saved
    BY <1>3
  <2>4. SavedInv'
    BY <1>1, <2>1, <2>3, SavedSame, Zenon
  <2>5. saved' \in [frames : SUBSET Frame, msgs : Seq(FrameMessage)]
    BY <2>3, Zenon DEF FrameTypes
  <2> QED  BY <2>2, <2>4, <2>5, Zenon
<1> QED  BY <1>2, <1>3 DEF PersistSave

\* The counters stay within their bounds.
LEMMA Counters ==
    ASSUME FrameTypes
    PROVE  /\ journalFaults \in Nat /\ saveErrors \in Nat /\ stops \in Nat
           /\ journalFaults \in 0 .. MaxFaults
           /\ MayFail => /\ journalFaults + 1 \in 0 .. MaxFaults /\ saveErrors + 1 \in 0 .. MaxFaults
                         /\ stops + 1 \in 0 .. MaxFaults
                         /\ journalFaults + 1 > 0 /\ journalFaults + 1 >= journalFaults
BY BoundsNat DEF FrameTypes, MayFail

\* The record is whole at the end of the journal, which is read to there if its
\* lines were whole before.
LEMMA WholeTypes ==
    ASSUME FrameTypes, JournalInv, NEW rec \in JournalRecord, journal' = Append(journal, rec),
           \/ lines' = (IF lines = "whole" THEN "whole" ELSE "bad") /\ UNCHANGED journalFaults
           \/ MayFail /\ lines' = "bad" /\ journalFaults' = journalFaults + 1
    PROVE  /\ journal' \in Seq(JournalRecord)
           /\ lines' \in LineState /\ journalFaults' \in 0 .. MaxFaults /\ FaultCounted
           /\ ~unreadable' => lines = "whole" /\ lines' = "whole"
<1>1. journal' \in Seq(JournalRecord)
  BY SMTT(30) DEF FrameTypes
<1>2. /\ journalFaults \in Nat /\ MaxFaults \in Nat /\ journalFaults \in 0 .. MaxFaults
      /\ lines # "whole" => journalFaults > 0
  BY BoundsNat, Counters DEF JournalInv
<1>3. journalFaults' \in 0 .. MaxFaults /\ journalFaults' \in Nat /\ journalFaults' >= journalFaults
  <2>1. CASE journalFaults' = journalFaults
    BY <1>2, <2>1
  <2>2. CASE MayFail /\ journalFaults' = journalFaults + 1
    BY <1>2, <2>2, Counters
  <2> QED  BY <2>1, <2>2
<1>4. lines' = lines \/ journalFaults' > 0
  BY <1>2
<1>5. lines' = "bad" \/ (lines' = "whole" /\ lines = "whole")
  OBVIOUS
<1> QED  BY <1>1, <1>3, <1>4, <1>5 DEF FaultCounted, LineState, unreadable

\* The types of what an append leaves.
LEMMA AppendedTypes ==
    ASSUME FrameTypes, JournalInv, NEW rec \in JournalRecord, JournalAppended(rec)
    PROVE  /\ journal' = Append(journal, rec) /\ journal' \in Seq(JournalRecord)
           /\ lines' \in LineState /\ journalFaults' \in 0 .. MaxFaults /\ FaultCounted
           /\ ~unreadable' => lines = "whole" /\ lines' = "whole"
BY WholeTypes DEF JournalAppended

\* A failed append leaves the types alone; its record is in the journal only as an
\* open line.
LEMMA FailedTypes ==
    ASSUME FrameTypes, NEW rec \in JournalRecord, JournalFailed(rec)
    PROVE  /\ journal' \in Seq(JournalRecord)
           /\ lines' \in LineState /\ journalFaults' \in 0 .. MaxFaults /\ FaultCounted
           /\ journalFaults' # 0
           /\ \/ journal' = journal
              \/ journal' = Append(journal, rec) /\ lines = "whole" /\ lines' = "open"
<1>1. MayFail /\ journalFaults' = journalFaults + 1
  BY DEF JournalFailed
<1>2. /\ journalFaults' \in 0 .. MaxFaults /\ journalFaults' > 0 /\ journalFaults' >= journalFaults
      /\ journalFaults' \in Nat /\ journalFaults' # 0
  <2>1. journalFaults' \in 0 .. MaxFaults /\ journalFaults' > 0 /\ journalFaults' >= journalFaults
    BY <1>1, Counters
  <2> QED  BY <2>1, BoundsNat
<1>3. \/ UNCHANGED <<journal, lines>>
      \/ lines' = "bad" /\ UNCHANGED journal
      \/ lines = "whole" /\ lines' = "open" /\ journal' = Append(journal, rec)
  BY DEF JournalFailed
<1>4. journal' \in Seq(JournalRecord)
  <2>1. journal \in Seq(JournalRecord)
    BY DEF FrameTypes
  <2>2. Append(journal, rec) \in Seq(JournalRecord)
    BY <2>1
  <2> QED  BY <1>3, <2>1, <2>2
<1>5. lines' \in LineState
  BY <1>3 DEF FrameTypes, LineState
<1>6. (~unreadable' => ~unreadable) /\ (lines' = "whole" => lines = "whole")
  BY <1>3 DEF unreadable
<1> QED  BY <1>2, <1>3, <1>4, <1>5, <1>6 DEF FaultCounted

\* The daemon stops in an append: the record is whole in the journal, or its
\* append failed.
LEMMA CutTypes ==
    ASSUME FrameTypes, JournalInv, NEW rec \in JournalRecord, JournalCut(rec)
    PROVE  /\ journal' \in Seq(JournalRecord)
           /\ lines' \in LineState /\ journalFaults' \in 0 .. MaxFaults /\ FaultCounted
           /\ \/ journal' = journal
              \/ journal' = Append(journal, rec) /\ (~unreadable' => lines = "whole")
<1>1. CASE JournalFailed(rec)
  BY <1>1, FailedTypes
<1>2. CASE /\ journal' = Append(journal, rec)
           /\ lines' = (IF lines = "whole" THEN "whole" ELSE "bad")
           /\ UNCHANGED journalFaults
  BY <1>2, WholeTypes
<1> QED  BY <1>1, <1>2 DEF JournalCut

\* So does the end of the daemon.
LEMMA GoDownTypes ==
    ASSUME FrameTypes, GoDown
    PROVE  /\ up' \in BOOLEAN /\ ended' = FALSE /\ frames' = {} /\ stops' \in 0 .. MaxFaults
           /\ MemoryInv'
<1>1. stops' \in 0 .. MaxFaults
  BY BoundsNat, SMTT(30) DEF FrameTypes, GoDown, MayFail
<1>2. MemoryInv'
  BY Emptied DEF GoDown
<1> QED  BY <1>1, <1>2, Zenon DEF GoDown

\* The daemon stops: what the journal and the snapshot keep.
LEMMA StopsWhileTypes ==
    ASSUME FrameTypes, JournalInv, NEW rec \in JournalRecord, StopsWhile(rec)
    PROVE  /\ up' \in BOOLEAN /\ ended' = FALSE /\ frames' = {} /\ stops' \in 0 .. MaxFaults
           /\ MemoryInv'
           /\ journal' \in Seq(JournalRecord)
           /\ lines' \in LineState /\ journalFaults' \in 0 .. MaxFaults /\ FaultCounted
           /\ \/ journal' = journal
              \/ journal' = Append(journal, rec) /\ (~unreadable' => lines = "whole")
           /\ UNCHANGED <<saved, saveErrors, sent, answer, seen, cutShort, Noted, refused, stopped>>
<1>1. /\ GoDown /\ JournalCut(rec)
      /\ UNCHANGED <<saved, saveErrors, sent, answer, seen, cutShort, Noted, refused, stopped>>
  BY DEF StopsWhile, history, Noted
<1> QED  BY <1>1, GoDownTypes, CutTypes

\* The ids given out stay within their bounds.
LEMMA IdTypes ==
    ASSUME FrameTypes, lastMsg' \in {lastMsg, lastMsg + 1}, lastMsg' <= MaxMessages,
           lastReply' \in {lastReply, lastReply + 1}, lastReply' <= MaxReplies,
           \/ refused' = refused
           \/ lastMsg' = lastMsg + 1 /\ refused' = refused \cup {<<"message", lastMsg + 1>>}
           \/ lastReply' = lastReply + 1 /\ refused' = refused \cup {<<"reply", lastReply + 1>>}
    PROVE  /\ lastMsg' \in Nat /\ lastMsg' \in 0 .. MaxMessages /\ lastReply' \in 0 .. MaxReplies
           /\ refused' \subseteq ({"message"} \X (1 .. lastMsg')) \cup ({"reply"} \X (1 .. lastReply'))
           /\ 1 .. lastMsg \subseteq 1 .. lastMsg'
           /\ IdsGrow
<1>1. lastMsg \in Nat /\ lastReply \in Nat
  BY BoundsNat, SMTT(30) DEF FrameTypes
<1>2. /\ lastMsg' \in Nat /\ lastMsg' \in 0 .. MaxMessages /\ lastReply' \in 0 .. MaxReplies
      /\ 1 .. lastMsg \subseteq 1 .. lastMsg' /\ 1 .. lastReply \subseteq 1 .. lastReply'
      /\ lastMsg' = lastMsg + 1 => lastMsg + 1 \in 1 .. lastMsg'
      /\ lastReply' = lastReply + 1 => lastReply + 1 \in 1 .. lastReply'
  BY <1>1, BoundsNat
<1>3. refused \subseteq ({"message"} \X (1 .. lastMsg')) \cup ({"reply"} \X (1 .. lastReply'))
  BY <1>2 DEF FrameTypes
<1>4. refused' \subseteq ({"message"} \X (1 .. lastMsg')) \cup ({"reply"} \X (1 .. lastReply'))
  BY <1>2, <1>3, SMTT(30)
<1>5. IdsGrow
  BY IdsGrowIf
<1> QED  BY <1>2, <1>4, <1>5

\* The messages stay in memory, and the journal stays or gets an open line; frames
\* may leave.
LEMMA MemorySame ==
    ASSUME FrameTypes, MemoryInv, Grows, OneStoreIntact' => OneStoreIntact,
           lines' = "whole" => lines = "whole" /\ journal' = journal,
           frames' \subseteq frames, UNCHANGED <<msgs, summary, sent, answer, Noted, stopped>>
    PROVE  MemoryInv'
<1>1. lines' = "whole" => lines = "whole" /\ Sends' = Sends /\ Replies' = Replies /\ journal' = journal
  BY DEF Sends, Replies
<1>2. \A m : Within(m, frames') => Within(m, frames)
  BY Zenon DEF Within
<1>3. PICK fs, ms : fs = frames /\ ms = msgs
  OBVIOUS
<1>4. View(frames, msgs)'
  <2>1. View(fs, ms)' /\ msgs' = ms
    BY <1>3, ViewGrows DEF MemoryInv
  <2>2. \A m : Within(m, frames') => Within(m, fs)
    BY <1>2, <1>3
  <2> QED  BY <2>1, <2>2, Zenon DEF View
<1>5. Complete(frames, msgs)'
  BY <1>1, <1>2 DEF MemoryInv, Complete
<1>6. (OneStoreIntact /\ ~stopped => Shows(frames, msgs))'
  BY <1>2, Zenon DEF MemoryInv, Shows
<1>7. SummaryIsCurrent'
  BY DEF MemoryInv, SummaryIsCurrent
<1> QED  BY <1>4, <1>5, <1>6, <1>7 DEF MemoryInv

\* A journal that is intact was intact before.
LEMMA IntactBefore ==
    ASSUME FrameTypes, FaultCounted, saveErrors' \in {saveErrors, saveErrors + 1}
    PROVE  OneStoreIntact' => OneStoreIntact
<1>1. journalFaults \in Nat /\ saveErrors \in Nat
  BY Counters
<1>2. journalFaults' = 0 => journalFaults = 0
  BY <1>1 DEF FaultCounted
<1>3. saveErrors' = 0 => saveErrors = 0
  BY <1>1
<1> QED  BY <1>2, <1>3 DEF OneStoreIntact

\* The messages new are the messages old and, at place q, the message m.
AddedLast(new, old, q, m) ==
    /\ q \in Nat /\ q \in DOMAIN new /\ new[q] = m /\ new \in Seq(FrameMessage)
    /\ \A i \in DOMAIN old : i \in DOMAIN new /\ i \in Nat /\ i < q /\ new[i] = old[i]
    /\ \A i \in DOMAIN new : i \in DOMAIN old \/ i = q

\* A message that is appended gets the largest id.
LEMMA LargestLast ==
    ASSUME FrameTypes, NEW m \in FrameMessage, m.id > lastMsg, NEW fs, NEW old, View(fs, old),
           NEW i \in DOMAIN old
    PROVE  old[i].id \in 1 .. MaxMessages /\ old[i].id < m.id
<1>1. old[i] \in FrameMessage /\ GoodId(old[i].id)
  BY DEF View
<1>2. old[i].id \in 1 .. MaxMessages /\ old[i].id <= lastMsg /\ m.id \in 1 .. MaxMessages
  BY <1>1, MessageFields DEF GoodId
<1>3. lastMsg \in Nat
  BY BoundsNat, SMTT(30) DEF FrameTypes
<1> QED  BY <1>2, <1>3

\* Messages with the one just recorded have all that the journal has.
LEMMA SentComplete ==
    ASSUME FrameTypes, JournalInv, lines' = "whole" => lines = "whole",
           NEW m \in FrameMessage, m.id > lastMsg, NEW n, Sends' = Sends \cup {n}, Replies' = Replies,
           \A j \in Sends : journal'[j] = journal[j], \A k \in Replies : journal'[k] = journal[k],
           journal'[n].msg = m, NEW fs, NEW old, Complete(fs, old),
           NEW new, NEW q, AddedLast(new, old, q, m)
    PROVE  Complete(fs, new)'
<1>1. ASSUME lines' = "whole", NEW j \in Sends', Within(journal'[j].msg, fs)
      PROVE  journal'[j].msg.id \in Ids(new)
  <2>1. CASE j = n
    BY <2>1 DEF AddedLast, Ids
  <2>2. CASE j \in Sends
    <3>1. journal[j].msg.id \in Ids(old) /\ journal'[j] = journal[j]
      BY <1>1, <2>2 DEF Complete
    <3>2. PICK i \in DOMAIN old : old[i].id = journal[j].msg.id
      BY <3>1 DEF Ids
    <3>3. i \in DOMAIN new /\ new[i] = old[i]
      BY DEF AddedLast
    <3> QED  BY <3>1, <3>2, <3>3 DEF Ids
  <2> QED  BY <2>1, <2>2
<1>2. ASSUME lines' = "whole", NEW i \in DOMAIN new, NEW k \in Replies', journal'[k].id = new[i].id
      PROVE  new[i].reply = journal'[k].reply
  <2>1. k \in Replies /\ journal'[k] = journal[k]
    BY Zenon
  <2>2. journal[k].id # m.id
    <3>1. journal[k].id <= lastMsg
      BY <2>1 DEF JournalInv
    <3>2. journal[k].id \in Nat /\ m.id \in Nat /\ lastMsg \in Nat
      BY <2>1, RecordTypes, MessageFields, BoundsNat, SMTT(30) DEF FrameTypes
    <3> QED  BY <3>1, <3>2
  <2>3. i \in DOMAIN old /\ new[i] = old[i]
    BY <1>2, <2>1, <2>2 DEF AddedLast
  <2> QED  BY <1>2, <2>1, <2>3 DEF Complete
<1> QED  BY <1>1, <1>2 DEF Complete

\* They are a view of the journal.
LEMMA SentViewed ==
    ASSUME FrameTypes, IdInv', NEW m \in FrameMessage, m.id > lastMsg, m \in Told', GoodReply(m.reply)',
           ~unreadable' => lines' = "whole",
           NEW fs, NEW old, View(fs, old), View(fs, old)',
           NEW new, NEW q, AddedLast(new, old, q, m), Complete(fs, new)'
    PROVE  View(fs, new)'
<1>1. ASSUME NEW i \in DOMAIN new PROVE (GoodId(new[i].id) /\ GoodReply(new[i].reply))'
  <2>1. CASE i = q
    BY <2>1 DEF IdInv, AddedLast
  <2>2. CASE i \in DOMAIN old
    BY <2>2 DEF View, AddedLast
  <2> QED  BY <2>1, <2>2 DEF AddedLast
<1>2. ASSUME NEW i \in DOMAIN new, NEW y \in Told', new[i].id = y.id PROVE Alike(new[i], y)
  <2>1. CASE i = q
    BY <1>2, <2>1 DEF IdInv, AddedLast
  <2>2. CASE i \in DOMAIN old
    BY <1>2, <2>2 DEF View, AddedLast
  <2> QED  BY <2>1, <2>2 DEF AddedLast
<1>3. ASSUME NEW i \in DOMAIN new, NEW j \in DOMAIN new, i < j PROVE new[i].id < new[j].id
  <2>1. i \in DOMAIN old
    BY <1>3 DEF AddedLast
  <2>2. CASE j = q
    BY <2>1, <2>2, LargestLast DEF AddedLast
  <2>3. CASE j \in DOMAIN old
    BY <1>3, <2>1, <2>3 DEF View, InOrder, AddedLast
  <2> QED  BY <2>2, <2>3 DEF AddedLast
<1>4. InOrder(new) /\ new \in Seq(FrameMessage)
  BY <1>3 DEF InOrder, AddedLast
<1>5. ~unreadable' => \A j \in Sends' : Within(journal'[j].msg, fs) => journal'[j].msg.id \in Ids(new)
  BY Zenon DEF Complete
<1> QED  BY <1>1, <1>2, <1>4, <1>5, Zenon DEF View

\* They show it to its reader, who has neither read it nor replied.
LEMMA SentShown ==
    ASSUME FrameTypes, IdInv, NEW m \in FrameMessage, m.id > lastMsg,
           sent' = sent \cup {m}, answer' = answer, Noted' = Noted,
           NEW fs, NEW old, Shows(fs, old), NEW new, NEW q, AddedLast(new, old, q, m)
    PROVE  Shows(fs, new)'
<1>1. answer[m.id] = NoReply /\ m.id \notin Noted
  <2>1. lastMsg \in Nat /\ m.id \in 1 .. MaxMessages
    BY BoundsNat, MessageFields, SMTT(30) DEF FrameTypes
  <2> QED  BY <2>1 DEF IdInv, FrameTypes, Noted
<1>2. ASSUME NEW x \in sent', Within(x, fs)
      PROVE  \E i \in DOMAIN new : new[i].id = x.id /\ (x.id \in Noted' => new[i].read)
  <2>1. CASE x = m
    BY <1>1, <2>1 DEF AddedLast
  <2>2. CASE x \in sent
    <3>1. PICK i \in DOMAIN old : old[i].id = x.id /\ (x.id \in Noted => old[i].read)
      BY <1>2, <2>2 DEF Shows
    <3> QED  BY <3>1 DEF AddedLast
  <2> QED  BY <2>1, <2>2
<1>3. ASSUME NEW i \in DOMAIN new, answer'[new[i].id] # NoReply
      PROVE  new[i].reply = answer'[new[i].id]
  <2>1. i \in DOMAIN old /\ new[i] = old[i]
    BY <1>1, <1>3 DEF AddedLast
  <2> QED  BY <1>3, <2>1 DEF Shows
<1> QED  BY <1>2, <1>3 DEF Shows

\* A message that was sent is in memory after its record (Send).
LEMMA SendMemory ==
    ASSUME FrameTypes, DiskInv, MemoryInv, Grows, IdInv', ~unreadable' => lines' = "whole",
           lines' = "whole" => lines = "whole",
           OneStoreIntact' => OneStoreIntact, NEW m \in FrameMessage, m.id = lastMsg + 1, m.reply = NoReply,
           journal' = Append(journal, Sent(m)), lastMsg' = lastMsg + 1,
           msgs' = Append(msgs, m), summary' = computeFrameMessagingSummary(msgs'),
           sent' = sent \cup {m}, UNCHANGED <<frames, answer, Noted, stopped, lastReply, refused>>
    PROVE  MemoryInv'
<1> DEFINE n == Len(journal) + 1
           rec == Sent(m)
<1>1. rec \in JournalRecord /\ rec.kind = "sent" /\ rec.msg = m
  BY DEF Sent, JournalRecord
<1>2. /\ \A j \in Sends : journal'[j] = journal[j]
      /\ \A j \in Replies : journal'[j] = journal[j]
      /\ journal'[n].msg = m /\ Sends' = Sends \cup {n} /\ Replies' = Replies
  <2> HIDE DEF rec
  <2>1. journal' = Append(journal, rec)
    BY DEF rec
  <2>2. /\ \A j \in 1 .. Len(journal) : journal'[j] = journal[j] /\ j < Len(journal) + 1
        /\ journal'[Len(journal) + 1] = rec
        /\ Sends' = Sends \cup (IF rec.kind = "sent" THEN {Len(journal) + 1} ELSE {})
        /\ Replies' = Replies \cup (IF rec.kind = "reply" THEN {Len(journal) + 1} ELSE {})
        /\ \A j \in Sends \cup Replies \cup Reads : j \in 1 .. Len(journal)
    BY <1>1, <2>1, Appended
  <2> QED  BY <1>1, <2>2
<1> HIDE DEF n, rec
<1>3. PICK fs, old, new : fs = frames /\ old = msgs /\ new = Append(msgs, m)
  OBVIOUS
<1>4. View(fs, old) /\ View(fs, old)' /\ Complete(fs, old) /\ frames' = fs /\ msgs' = new
  <2>1. View(fs, old) /\ Complete(fs, old) /\ frames' = fs /\ msgs' = new
    BY <1>3, Zenon DEF MemoryInv
  <2> QED  BY <2>1, ViewGrows
<1>5. AddedLast(new, old, Len(old) + 1, m)
  <2>1. old \in Seq(FrameMessage) /\ new = Append(old, m)
    BY <1>3, <1>4, Zenon DEF View
  <2> QED  BY <2>1 DEF AddedLast
<1>6. lastMsg \in Nat /\ m.id > lastMsg
  BY BoundsNat DEF FrameTypes
<1>7. m \in Told'
  BY <1>2, Zenon DEF Told
<1>8. GoodReply(m.reply)'
  <2>1. GoodReply(NoReply)
    BY GoodNoReply
  <2> QED  BY <2>1 DEF GoodReply
<1>9. Complete(fs, new)'
  BY <1>2, <1>4, <1>5, <1>6, SentComplete DEF DiskInv
<1>10. View(fs, new)'
  BY <1>4, <1>5, <1>6, <1>7, <1>8, <1>9, SentViewed
<1>11. ASSUME OneStoreIntact', ~stopped' PROVE Shows(fs, new)'
  <2>1. Shows(fs, old)
    BY <1>3, <1>11 DEF MemoryInv
  <2> QED  BY <1>5, <1>6, <2>1, SentShown DEF DiskInv
<1>12. SummaryIsCurrent'
  BY DEF SummaryIsCurrent
<1> QED  BY <1>4, <1>9, <1>10, <1>11, <1>12, Zenon DEF MemoryInv

\* Messages replied to or read since still make a view.
LEMMA ViewOver ==
    \A fs, old, new :
        View(fs, old)' /\ Over(new, old) /\ (\A i \in DOMAIN new : GoodReply(new[i].reply)')
            => View(fs, new)'
<1> SUFFICES ASSUME NEW fs, NEW old, NEW new, View(fs, old)', Over(new, old),
                    \A i \in DOMAIN new : GoodReply(new[i].reply)'
             PROVE  View(fs, new)'
  OBVIOUS
<1>1. Ids(new) = Ids(old) /\ DOMAIN new = DOMAIN old /\ new \in Seq(FrameMessage)
  BY OverIds DEF Over
<1>2. \A i \in DOMAIN old : Alike(new[i], old[i]) /\ new[i].id = old[i].id
  BY DEF Over, Alike
<1>3. \A i \in DOMAIN new : GoodId(new[i].id)'
  BY <1>1, <1>2 DEF View
<1>4. \A i \in DOMAIN new, y \in Told' : new[i].id = y.id => Alike(new[i], y)
  BY <1>1, <1>2, SMTT(30) DEF View, Alike
<1>5. InOrder(new)
  BY <1>1, <1>2 DEF View, InOrder
<1>6. ~unreadable' => \A j \in Sends' : Within(journal'[j].msg, fs) =>
           \/ journal'[j].msg.id \in Ids(new)
           \/ \A i \in DOMAIN new : new[i].id < journal'[j].msg.id
  BY <1>1, <1>2 DEF View
<1> QED  BY <1>1, <1>3, <1>4, <1>5, <1>6 DEF View

\* The messages new are the messages old, with the reply r to the message id.
AnsweredOne(new, old, id, r) ==
    /\ DOMAIN new = DOMAIN old /\ Ids(new) = Ids(old)
    /\ \A i \in DOMAIN old : /\ new[i].id = old[i].id /\ (old[i].read => new[i].read)
                             /\ new[i].reply = IF old[i].id = id THEN r ELSE old[i].reply

\* Messages with the reply just recorded have all that the journal has.
LEMMA ReplyComplete ==
    ASSUME lines' = "whole" => lines = "whole", NEW id, NEW r, NEW n,
           lines = "whole" => \A k \in Replies : journal[k].id # id,
           Sends' = Sends, Replies' = Replies \cup {n},
           \A j \in Sends : journal'[j] = journal[j], \A k \in Replies : journal'[k] = journal[k],
           journal'[n].id = id, journal'[n].reply = r,
           NEW fs, NEW old, Complete(fs, old), NEW new, AnsweredOne(new, old, id, r)
    PROVE  Complete(fs, new)'
<1>1. ASSUME lines' = "whole", NEW j \in Sends', Within(journal'[j].msg, fs)
      PROVE  journal'[j].msg.id \in Ids(new)
  BY <1>1 DEF Complete, AnsweredOne
<1>2. ASSUME lines' = "whole", NEW i \in DOMAIN new, NEW k \in Replies', journal'[k].id = new[i].id
      PROVE  new[i].reply = journal'[k].reply
  <2>1. /\ i \in DOMAIN old /\ new[i].id = old[i].id
        /\ new[i].reply = IF old[i].id = id THEN r ELSE old[i].reply
    BY DEF AnsweredOne
  <2>2. CASE k = n
    BY <1>2, <2>1, <2>2
  <2>3. CASE k \in Replies
    <3>1. journal[k].id = old[i].id /\ old[i].id # id /\ journal'[k] = journal[k]
      BY <1>2, <2>1, <2>3
    <3>2. old[i].reply = journal[k].reply
      BY <1>2, <2>1, <2>3, <3>1 DEF Complete
    <3> QED  BY <2>1, <3>1, <3>2
  <2> QED  BY <2>2, <2>3
<1> QED  BY <1>1, <1>2 DEF Complete

\* They show the reply to those who were told of it.
LEMMA ReplyShown ==
    ASSUME FrameTypes, NEW id \in 1 .. MaxMessages, NEW r,
           sent' = sent, answer' = [answer EXCEPT ![id] = r], Noted' = Noted,
           NEW fs, NEW old \in Seq(FrameMessage), Shows(fs, old), NEW new, AnsweredOne(new, old, id, r)
    PROVE  Shows(fs, new)'
<1>1. ASSUME NEW x \in sent', Within(x, fs)
      PROVE  \E i \in DOMAIN new : new[i].id = x.id /\ (x.id \in Noted' => new[i].read)
  <2>1. PICK i \in DOMAIN old : old[i].id = x.id /\ (x.id \in Noted => old[i].read)
    BY <1>1 DEF Shows
  <2> QED  BY <2>1 DEF AnsweredOne
<1>2. ASSUME NEW i \in DOMAIN new, answer'[new[i].id] # NoReply
      PROVE  new[i].reply = answer'[new[i].id]
  <2>1. /\ i \in DOMAIN old /\ new[i].id = old[i].id
        /\ new[i].reply = IF old[i].id = id THEN r ELSE old[i].reply
    BY DEF AnsweredOne
  <2>2. CASE old[i].id = id
    BY <2>1, <2>2 DEF FrameTypes
  <2>3. CASE old[i].id # id
    <3>1. old[i].id \in 1 .. MaxMessages
      <4>1. old[i] \in FrameMessage
        BY <2>1
      <4> QED  BY <4>1, MessageFields
    <3>2. answer'[old[i].id] = answer[old[i].id]
      BY <2>3, <3>1 DEF FrameTypes
    <3> QED  BY <1>2, <2>1, <2>3, <3>2 DEF Shows
  <2> QED  BY <2>2, <2>3
<1> QED  BY <1>1, <1>2 DEF Shows

\* A reply is in memory after its record (Reply).
LEMMA ReplyMemory ==
    ASSUME FrameTypes, DiskInv, MemoryInv, Grows, lines' = "whole" => lines = "whole",
           OneStoreIntact' => OneStoreIntact, NEW id \in 1 .. MaxMessages,
           NEW r \in 1 .. MaxReplies, r = lastReply + 1,
           lines = "whole" => \A k \in Replies : journal[k].id # id,
           journal' = Append(journal, [kind |-> "reply", id |-> id, reply |-> r]),
           lastMsg' = lastMsg, lastReply' = r,
           msgs' = SetReply(msgs, id, r), summary' = computeFrameMessagingSummary(msgs'),
           answer' = [answer EXCEPT ![id] = r], UNCHANGED <<frames, sent, Noted, stopped, refused>>
    PROVE  MemoryInv'
<1> DEFINE n == Len(journal) + 1
           rec == [kind |-> "reply", id |-> id, reply |-> r]
<1>1. rec \in JournalRecord /\ rec.kind = "reply" /\ rec.id = id /\ rec.reply = r
  BY DEF JournalRecord
<1>2. /\ \A j \in Sends : journal'[j] = journal[j]
      /\ \A j \in Replies : journal'[j] = journal[j]
      /\ journal'[n].id = id /\ journal'[n].reply = r /\ Sends' = Sends /\ Replies' = Replies \cup {n}
  <2> HIDE DEF rec
  <2>1. journal' = Append(journal, rec)
    BY DEF rec
  <2>2. /\ \A j \in 1 .. Len(journal) : journal'[j] = journal[j] /\ j < Len(journal) + 1
        /\ journal'[Len(journal) + 1] = rec
        /\ Sends' = Sends \cup (IF rec.kind = "sent" THEN {Len(journal) + 1} ELSE {})
        /\ Replies' = Replies \cup (IF rec.kind = "reply" THEN {Len(journal) + 1} ELSE {})
        /\ \A j \in Sends \cup Replies \cup Reads : j \in 1 .. Len(journal)
    BY <1>1, <2>1, Appended, Zenon
  <2> QED  BY <1>1, <2>2
<1> HIDE DEF n, rec
<1>3. PICK fs, old, new : fs = frames /\ old = msgs /\ new = SetReply(msgs, id, r)
  OBVIOUS
<1>4. /\ View(fs, old) /\ View(fs, old)' /\ Complete(fs, old) /\ old \in Seq(FrameMessage)
      /\ msgs' = new /\ frames' = fs
  <2>1. View(fs, old) /\ Complete(fs, old) /\ frames' = fs /\ msgs' = new
    BY <1>3, Zenon DEF MemoryInv
  <2>2. old \in Seq(FrameMessage)
    BY <2>1, Zenon DEF View
  <2> QED  BY <2>1, <2>2, ViewGrows
<1>5. Over(new, old) /\ AnsweredOne(new, old, id, r)
  <2>1. r \in NoReply .. MaxReplies
    BY BoundsNat
  <2>2. /\ Over(new, old)
        /\ \A i \in DOMAIN old : new[i].reply = IF old[i].id = id THEN r ELSE old[i].reply
    BY <1>3, <1>4, <2>1, SetReplyIs, SMTT(30)
  <2>3. /\ DOMAIN new = DOMAIN old /\ Ids(new) = Ids(old)
        /\ \A i \in DOMAIN old : new[i].id = old[i].id /\ (old[i].read => new[i].read)
    BY <2>2, OverIds DEF Over, Alike
  <2> QED  BY <2>2, <2>3 DEF AnsweredOne
<1>6. GoodReply(r)'
  <2>1. lastReply \in Nat /\ <<"reply", r>> \notin refused
    BY BoundsNat, SMTT(30) DEF FrameTypes
  <2> QED  BY <2>1 DEF GoodReply
<1>7. \A i \in DOMAIN new : GoodReply(new[i].reply)'
  <2>1. \A i \in DOMAIN old : GoodReply(old[i].reply)'
    BY <1>4, Zenon DEF View
  <2> QED  BY <1>5, <1>6, <2>1 DEF AnsweredOne
<1>8. View(fs, new)'
  BY <1>4, <1>5, <1>7, ViewOver
<1>9. Complete(fs, new)'
  BY <1>2, <1>4, <1>5, ReplyComplete, Zenon
<1>10. ASSUME OneStoreIntact', ~stopped' PROVE Shows(fs, new)'
  <2>1. Shows(fs, old)
    BY <1>3, <1>10 DEF MemoryInv
  <2> QED  BY <1>4, <1>5, <2>1, ReplyShown, Zenon
<1>11. SummaryIsCurrent'
  BY DEF SummaryIsCurrent
<1> QED  BY <1>4, <1>8, <1>9, <1>10, <1>11, Zenon DEF MemoryInv

\* Messages become read, in memory and in the journal.
LEMMA ReadMemory ==
    ASSUME FrameTypes, MemoryInv, Grows, lines' = "whole" => lines = "whole",
           OneStoreIntact' => OneStoreIntact, NEW ids, msgs' = SetRead(msgs, ids),
           NEW rec \in JournalRecord, rec.kind = "read", journal' \in {journal, Append(journal, rec)},
           Noted' \subseteq Noted \cup ids, UNCHANGED <<frames, sent, answer, stopped>>, SummaryIsCurrent'
    PROVE  MemoryInv'
<1>1. /\ Sends' = Sends /\ Replies' = Replies
      /\ \A j \in Sends : journal'[j] = journal[j]
      /\ \A j \in Replies : journal'[j] = journal[j]
  <2>1. CASE journal' = journal
    BY <2>1 DEF Sends, Replies
  <2>2. CASE journal' = Append(journal, rec)
    <3>1. /\ \A j \in 1 .. Len(journal) : journal'[j] = journal[j] /\ j < Len(journal) + 1
          /\ Sends' = Sends \cup (IF rec.kind = "sent" THEN {Len(journal) + 1} ELSE {})
          /\ Replies' = Replies \cup (IF rec.kind = "reply" THEN {Len(journal) + 1} ELSE {})
          /\ \A j \in Sends \cup Replies \cup Reads : j \in 1 .. Len(journal)
      BY <2>2, Appended, Zenon
    <3> QED  BY <3>1
  <2> QED  BY <2>1, <2>2
<1>2. PICK fs, old, new : fs = frames /\ old = msgs /\ new = SetRead(msgs, ids)
  OBVIOUS
<1>3. View(fs, old) /\ View(fs, old)' /\ old \in Seq(FrameMessage) /\ msgs' = new /\ frames' = fs
  BY <1>2, ViewGrows, Zenon DEF MemoryInv, View
<1>4. /\ Over(new, old)
      /\ \A i \in DOMAIN old : /\ new[i].reply = old[i].reply
                               /\ new[i].read = (old[i].read \/ old[i].id \in ids)
  BY <1>2, <1>3, SetReadIs
<1>5. /\ DOMAIN new = DOMAIN old /\ Ids(new) = Ids(old)
      /\ \A i \in DOMAIN old : new[i].id = old[i].id
  BY <1>4, OverIds DEF Over, Alike
<1>6. \A i \in DOMAIN new : GoodReply(new[i].reply)'
  BY <1>3, <1>4, <1>5 DEF View
<1>7. View(frames, msgs)'
  BY <1>3, <1>4, <1>6, ViewOver
<1>8. Complete(frames, msgs)'
  <2>1. Complete(fs, old)
    BY <1>2 DEF MemoryInv
  <2> QED  BY <1>1, <1>3, <1>4, <1>5, <2>1, SMTT(30) DEF Complete
<1>9. ASSUME OneStoreIntact', ~stopped' PROVE Shows(frames, msgs)'
  <2>1. Shows(fs, old)
    BY <1>2, <1>9 DEF MemoryInv
  <2>2. ASSUME NEW x \in sent', Within(x, frames')
        PROVE  \E i \in DOMAIN msgs' : msgs'[i].id = x.id /\ (x.id \in Noted' => msgs'[i].read)
    <3>1. PICK i \in DOMAIN old : old[i].id = x.id /\ (x.id \in Noted => old[i].read)
      BY <1>3, <2>1, <2>2 DEF Shows
    <3>2. x.id \in Noted' => new[i].read
      BY <1>4, <3>1, Zenon
    <3> QED  BY <1>3, <1>5, <3>1, <3>2
  <2>3. ASSUME NEW i \in DOMAIN msgs', answer'[msgs'[i].id] # NoReply
        PROVE  msgs'[i].reply = answer'[msgs'[i].id]
    BY <1>3, <1>4, <1>5, <2>1, <2>3, SMTT(30) DEF Shows
  <2> QED  BY <2>2, <2>3 DEF Shows
<1> QED  BY <1>7, <1>8, <1>9 DEF MemoryInv

-----------------------------------------------------------------------------
(* Every action keeps the invariant *)

\* A send keeps the invariant, wherever it ends (frameMessagingSend).
LEMMA SendFrame ==
    ASSUME FrameInv, NEW src \in Frame, NEW dst \in Frame, frameMessagingSend(src, dst)
    PROVE  FrameInv'
<1> DEFINE m == NewMessage(src, dst)
<1>1. FrameTypes /\ DiskInv /\ MemoryInv /\ SavedInv /\ JournalInv
  BY DEF FrameInv, DiskInv
<1>2. /\ CanSend(src, dst) /\ lastMsg' = lastMsg + 1 /\ lastReply' = lastReply
      /\ lastMsg \in Nat /\ lastMsg' <= MaxMessages /\ lastReply' <= MaxReplies
  <2>1. CanSend(src, dst) /\ lastMsg' = lastMsg + 1 /\ lastReply' = lastReply
    BY DEF frameMessagingSend, NewMessage
  <2> QED  BY <1>1, <2>1, BoundsNat DEF CanSend, FrameTypes
<1>3. /\ m \in FrameMessage /\ m.id = lastMsg + 1 /\ m.reply = NoReply
      /\ Sent(m) \in JournalRecord
  <2>1. m \in FrameMessage
    BY <1>2, BoundsNat DEF NewMessage, FrameMessage
  <2>2. m.id = lastMsg + 1 /\ m.reply = NoReply
    BY DEF NewMessage
  <2> QED  BY <2>1, <2>2 DEF Sent, JournalRecord
<1>4. ~ended
  BY <1>1, <1>2 DEF CanSend, FrameTypes
<1>5. CASE /\ JournalAppended(Sent(m)) /\ commitFrameMessagingSession(Append(msgs, m))
           /\ sent' = sent \cup {m} /\ UNCHANGED <<answer, seen, cutShort, refused, stopped>>
  <2>1. /\ UNCHANGED <<up, frames, ended, stops>> /\ msgs' = Append(msgs, m)
        /\ summary' = computeFrameMessagingSummary(msgs') /\ PersistSave /\ Noted' = Noted
    BY <1>5 DEF commitFrameMessagingSession, Noted
  <2>2. /\ lastMsg' \in Nat /\ lastMsg' \in 0 .. MaxMessages /\ lastReply' \in 0 .. MaxReplies
        /\ refused' \subseteq ({"message"} \X (1 .. lastMsg')) \cup ({"reply"} \X (1 .. lastReply'))
        /\ 1 .. lastMsg \subseteq 1 .. lastMsg'
        /\ IdsGrow
    BY <1>1, <1>2, <1>5, IdTypes
  <2>3. /\ journal' = Append(journal, Sent(m)) /\ journal' \in Seq(JournalRecord)
        /\ lines' \in LineState /\ journalFaults' \in 0 .. MaxFaults /\ FaultCounted
        /\ ~unreadable' => lines' = "whole"
    BY <1>1, <1>3, <1>5, AppendedTypes
  <2> HIDE DEF m
  <2>4. DiskInv' /\ Grows
    BY <1>1, <1>2, <1>3, <1>5, <2>1, <2>2, <2>3, SentRecorded
  <2>5. saveErrors' \in {saveErrors, saveErrors + 1}
    BY <2>1 DEF PersistSave
  <2>6. (lines' = "whole" => lines = "whole") /\ (OneStoreIntact' => OneStoreIntact)
    BY <1>1, <2>3, <2>5, FaultKept, IntactBefore
  <2>7. MemoryInv'
    BY <1>1, <1>2, <1>3, <1>5, <2>1, <2>3, <2>4, <2>6, SendMemory DEF DiskInv
  <2>8. /\ SavedInv'
        /\ saved' \in [frames : SUBSET Frame, msgs : Seq(FrameMessage)]
        /\ saveErrors' \in 0 .. MaxFaults
    <3>1. frames' \subseteq Frame /\ (ended' => UNCHANGED <<sent, answer, Noted>>)
      BY <1>1, <1>4, <2>1 DEF FrameTypes
    <3> QED  BY <1>1, <1>5, <2>1, <2>4, <2>7, <3>1, PersistSaved
  <2>9. FrameTypes'
    <3>1. sent' \subseteq FrameMessage /\ seen' \subseteq 1 .. lastMsg' /\ cutShort' \subseteq seen'
      BY <1>1, <1>3, <1>5, <2>2 DEF FrameTypes
    <3> QED  BY <1>1, <1>5, <2>1, <2>2, <2>3, <2>8, <3>1 DEF FrameTypes
  <2> QED  BY <2>4, <2>7, <2>8, <2>9 DEF FrameInv
<1>6. CASE /\ Refuse(Sent(m))
           /\ refused' = IF journal' = journal THEN refused \cup {<<"message", m.id>>} ELSE refused
           /\ UNCHANGED <<sent, answer, seen, cutShort, stopped>>
  <2>1. /\ UNCHANGED <<up, frames, ended, msgs, summary, saved, saveErrors, stops, Noted>>
        /\ JournalFailed(Sent(m))
    BY <1>6 DEF Refuse, memory, Noted
  <2>2. /\ lastMsg' \in Nat /\ lastMsg' \in 0 .. MaxMessages /\ lastReply' \in 0 .. MaxReplies
        /\ refused' \subseteq ({"message"} \X (1 .. lastMsg')) \cup ({"reply"} \X (1 .. lastReply'))
        /\ 1 .. lastMsg \subseteq 1 .. lastMsg'
        /\ IdsGrow
    BY <1>1, <1>2, <1>3, <1>6, IdTypes
  <2>3. /\ journal' \in Seq(JournalRecord)
        /\ lines' \in LineState /\ journalFaults' \in 0 .. MaxFaults /\ FaultCounted
        /\ \/ journal' = journal
           \/ journal' = Append(journal, Sent(m)) /\ lines = "whole" /\ lines' = "open"
    BY <1>1, <1>3, <2>1, FailedTypes
  <2> HIDE DEF m
  <2>4. DiskInv' /\ Grows
    <3>1. CASE journal' = journal
      BY <1>1, <1>6, <2>1, <2>2, <2>3, <3>1, JournalSame
    <3>2. CASE journal' # journal
      BY <1>1, <1>2, <1>3, <1>6, <2>1, <2>2, <2>3, <3>2, SentRecorded
    <3> QED  BY <3>1, <3>2
  <2>5. (lines' = "whole" => lines = "whole") /\ (OneStoreIntact' => OneStoreIntact)
    BY <1>1, <2>1, <2>3, FaultKept, IntactBefore
  <2>6. MemoryInv'
    BY <1>1, <1>6, <2>1, <2>3, <2>4, <2>5, MemorySame
  <2>7. SavedInv'
    BY <1>1, <1>6, <2>1, <2>4, SavedSame, Counters
  <2>8. FrameTypes'
    BY <1>1, <1>6, <2>1, <2>2, <2>3 DEF FrameTypes
  <2> QED  BY <2>4, <2>6, <2>7, <2>8 DEF FrameInv
<1>7. CASE StopsWhile(Sent(m))
  <2>1. /\ up' \in BOOLEAN /\ ended' = FALSE /\ frames' = {} /\ stops' \in 0 .. MaxFaults
        /\ MemoryInv'
        /\ journal' \in Seq(JournalRecord)
        /\ lines' \in LineState /\ journalFaults' \in 0 .. MaxFaults /\ FaultCounted
        /\ \/ journal' = journal
           \/ journal' = Append(journal, Sent(m)) /\ (~unreadable' => lines = "whole")
        /\ UNCHANGED <<saved, saveErrors, sent, answer, seen, cutShort, Noted, refused, stopped>>
    BY <1>1, <1>3, <1>7, StopsWhileTypes
  <2>2. /\ lastMsg' \in Nat /\ lastMsg' \in 0 .. MaxMessages /\ lastReply' \in 0 .. MaxReplies
        /\ refused' \subseteq ({"message"} \X (1 .. lastMsg')) \cup ({"reply"} \X (1 .. lastReply'))
        /\ 1 .. lastMsg \subseteq 1 .. lastMsg'
        /\ IdsGrow
    BY <1>1, <1>2, <2>1, IdTypes
  <2> HIDE DEF m
  <2>3. DiskInv' /\ Grows
    <3>1. CASE journal' = journal
      BY <1>1, <2>1, <2>2, <3>1, JournalSame
    <3>2. CASE journal' = Append(journal, Sent(m))
      BY <1>1, <1>2, <1>3, <2>1, <2>2, <3>2, SentRecorded
    <3> QED  BY <2>1, <3>1, <3>2
  <2>4. SavedInv'
    BY <1>1, <2>1, <2>3, SavedSame, Counters
  <2>5. FrameTypes'
    BY <1>1, <2>1, <2>2 DEF FrameTypes
  <2> QED  BY <2>1, <2>3, <2>4, <2>5 DEF FrameInv
<1> QED  BY <1>5, <1>6, <1>7 DEF frameMessagingSend

\* So does a reply (frameMessagingReply).
LEMMA ReplyFrame ==
    ASSUME FrameInv, NEW f \in Frame, NEW i \in DOMAIN msgs, frameMessagingReply(f, i)
    PROVE  FrameInv'
<1> DEFINE id == msgs[i].id
           r == lastReply + 1
           rec == [kind |-> "reply", id |-> id, reply |-> r]
<1>1. FrameTypes /\ DiskInv /\ MemoryInv /\ SavedInv /\ JournalInv
  BY DEF FrameInv, DiskInv
<1>2. /\ f \in frames /\ MayReply(f, i) /\ lastReply' = r /\ lastMsg' = lastMsg /\ lastReply < MaxReplies
      /\ lastMsg \in Nat /\ lastReply \in Nat /\ lastMsg' <= MaxMessages /\ lastReply' <= MaxReplies
  <2>1. f \in frames /\ MayReply(f, i) /\ lastReply' = r /\ lastMsg' = lastMsg /\ lastReply < MaxReplies
    BY DEF frameMessagingReply
  <2> QED  BY <1>1, <2>1, BoundsNat DEF FrameTypes
<1>3. /\ id \in 1 .. MaxMessages /\ id <= lastMsg /\ r \in 1 .. MaxReplies
      /\ rec \in JournalRecord
  <2>1. msgs[i] \in FrameMessage /\ GoodId(id)
    BY <1>1 DEF MemoryInv, View
  <2>2. id \in 1 .. MaxMessages /\ id <= lastMsg
    BY <2>1, MessageFields DEF GoodId
  <2>3. r \in 1 .. MaxReplies
    BY <1>2, BoundsNat
  <2> QED  BY <2>2, <2>3 DEF JournalRecord
<1>4. ~ended
  BY <1>1, <1>2 DEF FrameTypes
<1>5. ASSUME lines = "whole", NEW k \in Replies PROVE journal[k].id # id
  <2>1. journal[k].reply # NoReply
    BY <1>1, RecordTypes, BoundsNat, SMTT(30)
  <2>2. journal[k].id = msgs[i].id => msgs[i].reply = journal[k].reply
    BY <1>1, <1>5 DEF MemoryInv, Complete
  <2> QED  BY <1>2, <2>1, <2>2 DEF MayReply
<1>6. CASE /\ JournalAppended(rec) /\ commitFrameMessagingSession(SetReply(msgs, id, r))
           /\ answer' = [answer EXCEPT ![id] = r]
           /\ UNCHANGED <<sent, seen, cutShort, refused, stopped>>
  <2>1. /\ UNCHANGED <<up, frames, ended, stops>> /\ msgs' = SetReply(msgs, id, r)
        /\ summary' = computeFrameMessagingSummary(msgs') /\ PersistSave /\ Noted' = Noted
    BY <1>6 DEF commitFrameMessagingSession, Noted
  <2>2. /\ lastMsg' \in Nat /\ lastMsg' \in 0 .. MaxMessages /\ lastReply' \in 0 .. MaxReplies
        /\ refused' \subseteq ({"message"} \X (1 .. lastMsg')) \cup ({"reply"} \X (1 .. lastReply'))
        /\ 1 .. lastMsg \subseteq 1 .. lastMsg'
        /\ IdsGrow
    BY <1>1, <1>2, <1>6, IdTypes
  <2>3. /\ journal' = Append(journal, rec) /\ journal' \in Seq(JournalRecord)
        /\ lines' \in LineState /\ journalFaults' \in 0 .. MaxFaults /\ FaultCounted
        /\ ~unreadable' => lines = "whole"
    BY <1>1, <1>3, <1>6, AppendedTypes
  <2> HIDE DEF id, r
  <2>4. DiskInv' /\ Grows
    <3>1. ~unreadable' => \A k \in Replies : journal[k].id # id
      BY <1>5, <2>3
    <3> QED  BY <1>1, <1>2, <1>3, <1>6, <2>1, <2>2, <2>3, <3>1, ReplyRecorded DEF r
  <2>5. saveErrors' \in {saveErrors, saveErrors + 1}
    BY <2>1 DEF PersistSave
  <2>6. (lines' = "whole" => lines = "whole") /\ (OneStoreIntact' => OneStoreIntact)
    BY <1>1, <2>3, <2>5, FaultKept, IntactBefore
  <2>7. MemoryInv'
    BY <1>1, <1>2, <1>3, <1>5, <1>6, <2>1, <2>3, <2>4, <2>6, ReplyMemory DEF r
  <2>8. /\ SavedInv'
        /\ saved' \in [frames : SUBSET Frame, msgs : Seq(FrameMessage)]
        /\ saveErrors' \in 0 .. MaxFaults
    <3>1. frames' \subseteq Frame /\ (ended' => UNCHANGED <<sent, answer, Noted>>)
      BY <1>1, <1>4, <2>1 DEF FrameTypes
    <3> QED  BY <1>1, <1>6, <2>1, <2>4, <2>7, <3>1, PersistSaved
  <2>9. FrameTypes'
    <3>1. answer' \in [1 .. MaxMessages -> NoReply .. MaxReplies]
      <4>1. r \in NoReply .. MaxReplies
        BY <1>3, BoundsNat
      <4> QED  BY <1>1, <1>6, <4>1 DEF FrameTypes
    <3> QED  BY <1>1, <1>6, <2>1, <2>2, <2>3, <2>8, <3>1 DEF FrameTypes
  <2> QED  BY <2>4, <2>7, <2>8, <2>9 DEF FrameInv
<1>7. CASE /\ Refuse(rec)
           /\ refused' = IF journal' = journal THEN refused \cup {<<"reply", r>>} ELSE refused
           /\ UNCHANGED <<sent, answer, seen, cutShort, stopped>>
  <2>1. /\ UNCHANGED <<up, frames, ended, msgs, summary, saved, saveErrors, stops, Noted>>
        /\ JournalFailed(rec)
    BY <1>7 DEF Refuse, memory, Noted
  <2>2. /\ lastMsg' \in Nat /\ lastMsg' \in 0 .. MaxMessages /\ lastReply' \in 0 .. MaxReplies
        /\ refused' \subseteq ({"message"} \X (1 .. lastMsg')) \cup ({"reply"} \X (1 .. lastReply'))
        /\ 1 .. lastMsg \subseteq 1 .. lastMsg'
        /\ IdsGrow
    BY <1>1, <1>2, <1>7, IdTypes
  <2>3. /\ journal' \in Seq(JournalRecord)
        /\ lines' \in LineState /\ journalFaults' \in 0 .. MaxFaults /\ FaultCounted
        /\ \/ journal' = journal
           \/ journal' = Append(journal, rec) /\ lines = "whole" /\ lines' = "open"
    BY <1>1, <1>3, <2>1, FailedTypes
  <2> HIDE DEF id, r
  <2>4. DiskInv' /\ Grows
    <3>1. CASE journal' = journal
      BY <1>1, <1>7, <2>1, <2>2, <2>3, <3>1, JournalSame
    <3>2. CASE journal' # journal
      <4>1. ~unreadable' => \A k \in Replies : journal[k].id # id
        BY <1>5, <2>3, <3>2
      <4> QED  BY <1>1, <1>2, <1>3, <1>7, <2>1, <2>2, <2>3, <3>2, <4>1, ReplyRecorded DEF r
    <3> QED  BY <3>1, <3>2
  <2>5. (lines' = "whole" => lines = "whole") /\ (OneStoreIntact' => OneStoreIntact)
    BY <1>1, <2>1, <2>3, FaultKept, IntactBefore
  <2>6. MemoryInv'
    BY <1>1, <1>7, <2>1, <2>3, <2>4, <2>5, MemorySame
  <2>7. SavedInv'
    BY <1>1, <1>7, <2>1, <2>4, SavedSame, Counters
  <2>8. FrameTypes'
    BY <1>1, <1>7, <2>1, <2>2, <2>3 DEF FrameTypes
  <2> QED  BY <2>4, <2>6, <2>7, <2>8 DEF FrameInv
<1>8. CASE StopsWhile(rec)
  <2>1. /\ up' \in BOOLEAN /\ ended' = FALSE /\ frames' = {} /\ stops' \in 0 .. MaxFaults
        /\ MemoryInv'
        /\ journal' \in Seq(JournalRecord)
        /\ lines' \in LineState /\ journalFaults' \in 0 .. MaxFaults /\ FaultCounted
        /\ \/ journal' = journal
           \/ journal' = Append(journal, rec) /\ (~unreadable' => lines = "whole")
        /\ UNCHANGED <<saved, saveErrors, sent, answer, seen, cutShort, Noted, refused, stopped>>
    BY <1>1, <1>3, <1>8, StopsWhileTypes
  <2>2. /\ lastMsg' \in Nat /\ lastMsg' \in 0 .. MaxMessages /\ lastReply' \in 0 .. MaxReplies
        /\ refused' \subseteq ({"message"} \X (1 .. lastMsg')) \cup ({"reply"} \X (1 .. lastReply'))
        /\ 1 .. lastMsg \subseteq 1 .. lastMsg'
        /\ IdsGrow
    BY <1>1, <1>2, <2>1, IdTypes
  <2> HIDE DEF id, r
  <2>3. DiskInv' /\ Grows
    <3>1. CASE journal' = journal
      BY <1>1, <2>1, <2>2, <3>1, JournalSame
    <3>2. CASE journal' # journal
      <4>1. ~unreadable' => \A k \in Replies : journal[k].id # id
        BY <1>5, <2>1, <3>2
      <4> QED  BY <1>1, <1>2, <1>3, <2>1, <2>2, <3>2, <4>1, ReplyRecorded DEF r
    <3> QED  BY <3>1, <3>2
  <2>4. SavedInv'
    BY <1>1, <2>1, <2>3, SavedSame, Counters
  <2>5. FrameTypes'
    BY <1>1, <2>1, <2>2 DEF FrameTypes
  <2> QED  BY <2>1, <2>3, <2>4, <2>5 DEF FrameInv
<1> QED  BY <1>6, <1>7, <1>8 DEF frameMessagingReply

\* So does a read by an agent (frameMessagingRead).
LEMMA ReadFrame ==
    ASSUME FrameInv, NEW f, NEW peers, frameMessagingRead(f, peers)
    PROVE  FrameInv'
<1> DEFINE ids == Unread(f, peers)
           rec == [kind |-> "read", ids |-> ids]
<1>1. FrameTypes /\ DiskInv /\ MemoryInv /\ SavedInv /\ JournalInv
  BY DEF FrameInv, DiskInv
<1>2. /\ f \in frames /\ lastMsg' = lastMsg /\ lastReply' = lastReply
      /\ lastMsg \in Nat /\ lastReply \in Nat /\ lastMsg' <= MaxMessages /\ lastReply' <= MaxReplies
  <2>1. f \in frames /\ lastMsg' = lastMsg /\ lastReply' = lastReply
    BY DEF frameMessagingRead
  <2> QED  BY <1>1, <2>1, BoundsNat DEF FrameTypes
<1>3. ids \subseteq 1 .. lastMsg /\ rec \in JournalRecord /\ rec.kind = "read"
  <2>1. ASSUME NEW i \in DOMAIN msgs PROVE msgs[i].id \in 1 .. lastMsg /\ msgs[i].id \in 1 .. MaxMessages
    <3>1. msgs[i] \in FrameMessage /\ GoodId(msgs[i].id)
      BY <1>1 DEF MemoryInv, View
    <3>2. msgs[i].id \in 1 .. MaxMessages /\ msgs[i].id <= lastMsg
      BY <3>1, MessageFields DEF GoodId
    <3> QED  BY <1>2, <3>2
  <2>2. ids \subseteq {msgs[i].id : i \in DOMAIN msgs}
    BY DEF Unread, Range
  <2>3. ids \subseteq 1 .. lastMsg /\ ids \subseteq 1 .. MaxMessages
    BY <2>1, <2>2
  <2> QED  BY <2>3 DEF JournalRecord
<1>4. ~ended
  BY <1>1, <1>2 DEF FrameTypes
<1> HIDE DEF ids
<1>5. CASE /\ JournalAppended(rec) /\ commitFrameMessagingSession(SetRead(msgs, ids))
           /\ seen' = seen \cup ids /\ cutShort' = cutShort \ ids
           /\ UNCHANGED <<sent, answer, refused, stopped>>
  <2>1. /\ UNCHANGED <<up, frames, ended, stops>> /\ msgs' = SetRead(msgs, ids)
        /\ summary' = computeFrameMessagingSummary(msgs') /\ PersistSave
        /\ Noted' = Noted \cup ids
    BY <1>5 DEF commitFrameMessagingSession, Noted
  <2>2. /\ lastMsg' \in Nat /\ lastMsg' \in 0 .. MaxMessages /\ lastReply' \in 0 .. MaxReplies
        /\ refused' \subseteq ({"message"} \X (1 .. lastMsg')) \cup ({"reply"} \X (1 .. lastReply'))
        /\ 1 .. lastMsg \subseteq 1 .. lastMsg'
        /\ IdsGrow
    BY <1>1, <1>2, <1>5, IdTypes
  <2>3. /\ journal' = Append(journal, rec) /\ journal' \in Seq(JournalRecord)
        /\ lines' \in LineState /\ journalFaults' \in 0 .. MaxFaults /\ FaultCounted
    BY <1>1, <1>3, <1>5, AppendedTypes
  <2>4. DiskInv' /\ Grows
    BY <1>1, <1>2, <1>3, <1>5, <2>1, <2>2, <2>3, ReadRecorded
  <2>5. saveErrors' \in {saveErrors, saveErrors + 1}
    BY <2>1 DEF PersistSave
  <2>6. (lines' = "whole" => lines = "whole") /\ (OneStoreIntact' => OneStoreIntact)
    BY <1>1, <2>3, <2>5, FaultKept, IntactBefore
  <2>7. MemoryInv'
    <3>1. SummaryIsCurrent'
      BY <2>1 DEF SummaryIsCurrent
    <3> HIDE DEF rec
    <3>2. journal' \in {journal, Append(journal, rec)} /\ Noted' \subseteq Noted \cup ids
      BY <2>1, <2>3
    <3> QED  BY <1>1, <1>3, <1>5, <2>1, <2>4, <2>6, <3>1, <3>2, ReadMemory
  <2>8. /\ SavedInv'
        /\ saved' \in [frames : SUBSET Frame, msgs : Seq(FrameMessage)]
        /\ saveErrors' \in 0 .. MaxFaults
    <3>1. frames' \subseteq Frame /\ (ended' => UNCHANGED <<sent, answer, Noted>>)
      BY <1>1, <1>4, <2>1 DEF FrameTypes
    <3> QED  BY <1>1, <1>5, <2>1, <2>4, <2>7, <3>1, PersistSaved
  <2>9. FrameTypes'
    <3>1. seen' \subseteq 1 .. lastMsg' /\ cutShort' \subseteq seen'
      BY <1>1, <1>2, <1>3, <1>5 DEF FrameTypes
    <3> QED  BY <1>1, <1>5, <2>1, <2>2, <2>3, <2>8, <3>1 DEF FrameTypes
  <2> QED  BY <2>4, <2>7, <2>8, <2>9 DEF FrameInv
<1>6. CASE Refuse(rec) /\ UNCHANGED history
  <2>1. /\ UNCHANGED <<up, frames, ended, msgs, summary, saved, saveErrors, stops>> /\ JournalFailed(rec)
        /\ UNCHANGED <<sent, answer, seen, cutShort, Noted, refused, stopped>>
    BY <1>6 DEF Refuse, memory, history, Noted
  <2>2. /\ lastMsg' \in Nat /\ lastMsg' \in 0 .. MaxMessages /\ lastReply' \in 0 .. MaxReplies
        /\ refused' \subseteq ({"message"} \X (1 .. lastMsg')) \cup ({"reply"} \X (1 .. lastReply'))
        /\ 1 .. lastMsg \subseteq 1 .. lastMsg'
        /\ IdsGrow
    BY <1>1, <1>2, <2>1, IdTypes
  <2>3. /\ journal' \in Seq(JournalRecord)
        /\ lines' \in LineState /\ journalFaults' \in 0 .. MaxFaults /\ FaultCounted
        /\ \/ journal' = journal
           \/ journal' = Append(journal, rec) /\ lines = "whole" /\ lines' = "open"
    BY <1>1, <1>3, <2>1, FailedTypes
  <2>4. DiskInv' /\ Grows
    <3>1. CASE journal' = journal
      BY <1>1, <2>1, <2>2, <2>3, <3>1, JournalSame
    <3>2. CASE journal' # journal
      BY <1>1, <1>2, <1>3, <2>1, <2>2, <2>3, <3>2, ReadRecorded
    <3> QED  BY <3>1, <3>2
  <2>5. (lines' = "whole" => lines = "whole") /\ (OneStoreIntact' => OneStoreIntact)
    BY <1>1, <2>1, <2>3, FaultKept, IntactBefore
  <2>6. MemoryInv'
    BY <1>1, <2>1, <2>3, <2>4, <2>5, MemorySame
  <2>7. SavedInv'
    BY <1>1, <2>1, <2>4, SavedSame, Counters
  <2>8. FrameTypes'
    BY <1>1, <2>1, <2>2, <2>3 DEF FrameTypes
  <2> QED  BY <2>4, <2>6, <2>7, <2>8 DEF FrameInv
<1>7. CASE StopsWhile(rec)
  <2>1. /\ up' \in BOOLEAN /\ ended' = FALSE /\ frames' = {} /\ stops' \in 0 .. MaxFaults
        /\ MemoryInv'
        /\ journal' \in Seq(JournalRecord)
        /\ lines' \in LineState /\ journalFaults' \in 0 .. MaxFaults /\ FaultCounted
        /\ \/ journal' = journal
           \/ journal' = Append(journal, rec) /\ (~unreadable' => lines = "whole")
        /\ UNCHANGED <<saved, saveErrors, sent, answer, seen, cutShort, Noted, refused, stopped>>
    BY <1>1, <1>3, <1>7, StopsWhileTypes
  <2>2. /\ lastMsg' \in Nat /\ lastMsg' \in 0 .. MaxMessages /\ lastReply' \in 0 .. MaxReplies
        /\ refused' \subseteq ({"message"} \X (1 .. lastMsg')) \cup ({"reply"} \X (1 .. lastReply'))
        /\ 1 .. lastMsg \subseteq 1 .. lastMsg'
        /\ IdsGrow
    BY <1>1, <1>2, <2>1, IdTypes
  <2>3. DiskInv' /\ Grows
    <3>1. CASE journal' = journal
      BY <1>1, <2>1, <2>2, <3>1, JournalSame
    <3>2. CASE journal' = Append(journal, rec)
      BY <1>1, <1>2, <1>3, <2>1, <2>2, <3>2, ReadRecorded
    <3> QED  BY <2>1, <3>1, <3>2
  <2>4. SavedInv'
    BY <1>1, <2>1, <2>3, SavedSame, Counters
  <2>5. FrameTypes'
    BY <1>1, <2>1, <2>2 DEF FrameTypes
  <2> QED  BY <2>1, <2>3, <2>4, <2>5 DEF FrameInv
<1> QED  BY <1>5, <1>6, <1>7 DEF frameMessagingRead, ids

\* The messages up to one of the list.
LEMMA FirstMessages ==
    ASSUME NEW ms \in Seq(FrameMessage), NEW i \in DOMAIN ms
    PROVE  \A k \in DOMAIN SubSeq(ms, 1, i) : k \in DOMAIN ms /\ SubSeq(ms, 1, i)[k] = ms[k]
<1>1. i \in 1 .. Len(ms) /\ Len(ms) \in Nat
  OBVIOUS
<1>2. /\ DOMAIN SubSeq(ms, 1, i) = 1 .. i
      /\ \A k \in 1 .. i : SubSeq(ms, 1, i)[k] = ms[k]
  BY <1>1
<1> QED  BY <1>1, <1>2

\* Reading changes no count but that of the unread messages.
LEMMA ReadSummary ==
    ASSUME MemoryInv, NEW i \in DOMAIN msgs, markSessionMessagesReadThroughID(i)
    PROVE  SummaryIsCurrent'
<1> DEFINE ids == Ids(SubSeq(msgs, 1, i))
           new == SetRead(msgs, ids)
           unread == Cardinality({j \in DOMAIN msgs' : ~msgs'[j].read})
<1>1. msgs \in Seq(FrameMessage) /\ DOMAIN msgs = 1 .. Len(msgs) /\ Len(msgs) \in Nat
  BY DEF MemoryInv, View
<1>2. msgs' = new /\ summary' = [summary EXCEPT !.unread = unread]
  BY DEF markSessionMessagesReadThroughID
<1>3. /\ Over(new, msgs)
      /\ \A j \in DOMAIN msgs : new[j].reply = msgs[j].reply
  BY <1>1, SetReadIs, SMTT(30)
<1> HIDE DEF new, ids
<1>4. DOMAIN new = DOMAIN msgs /\ new \in Seq(FrameMessage) /\ Len(new) = Len(msgs) /\ new # <<>> /\ msgs # <<>>
  BY <1>1, <1>3 DEF Over
<1>5. {j \in DOMAIN new : new[j].reply = NoReply} = {j \in DOMAIN msgs : msgs[j].reply = NoReply}
  BY <1>3, <1>4
<1>6. Status(new[Len(new)]) = Status(msgs[Len(msgs)])
  BY <1>1, <1>3, <1>4 DEF Status
<1> DEFINE pending == Cardinality({j \in DOMAIN msgs : msgs[j].reply = NoReply})
           last == Status(msgs[Len(msgs)])
<1>7. summary = [unread |-> Cardinality({j \in DOMAIN msgs : ~msgs[j].read}),
                 pending |-> pending, last |-> last]
  BY <1>4 DEF MemoryInv, SummaryIsCurrent, computeFrameMessagingSummary
<1>8. computeFrameMessagingSummary(new) =
          [unread |-> Cardinality({j \in DOMAIN new : ~new[j].read}), pending |-> pending, last |-> last]
  BY <1>4, <1>5, <1>6 DEF computeFrameMessagingSummary
<1>9. unread = Cardinality({j \in DOMAIN new : ~new[j].read})
  BY <1>2
<1> HIDE DEF unread, pending, last
<1>10. summary' = [unread |-> unread, pending |-> pending, last |-> last]
  BY <1>2, <1>7
<1> QED  BY <1>2, <1>8, <1>9, <1>10 DEF SummaryIsCurrent

\* So does a read by a client (reduceReadSessionMessages).
LEMMA ClientReadFrame ==
    ASSUME FrameInv, NEW i \in DOMAIN msgs, reduceReadSessionMessages(i)
    PROVE  FrameInv'
<1> DEFINE first == SubSeq(msgs, 1, i)
           ids == {m.id : m \in {n \in Range(first) : ~n.read}}
           rec == [kind |-> "read", ids |-> ids]
           told == IF ended THEN {} ELSE ids
<1>1. FrameTypes /\ DiskInv /\ MemoryInv /\ SavedInv /\ JournalInv /\ msgs \in Seq(FrameMessage)
  BY DEF FrameInv, DiskInv, MemoryInv, View
<1>2. /\ lastMsg' = lastMsg /\ lastReply' = lastReply
      /\ lastMsg \in Nat /\ lastReply \in Nat /\ lastMsg' <= MaxMessages /\ lastReply' <= MaxReplies
  <2>1. lastMsg' = lastMsg /\ lastReply' = lastReply
    BY DEF reduceReadSessionMessages
  <2> QED  BY <1>1, <2>1, BoundsNat DEF FrameTypes
<1>3. ids \subseteq 1 .. lastMsg /\ rec \in JournalRecord /\ rec.kind = "read" /\ ids \subseteq Ids(first)
  <2>1. ASSUME NEW k \in DOMAIN msgs PROVE msgs[k].id \in 1 .. lastMsg /\ msgs[k].id \in 1 .. MaxMessages
    <3>1. msgs[k] \in FrameMessage /\ GoodId(msgs[k].id)
      BY <1>1 DEF MemoryInv, View
    <3>2. msgs[k].id \in 1 .. MaxMessages /\ msgs[k].id <= lastMsg
      BY <3>1, MessageFields DEF GoodId
    <3> QED  BY <1>2, <3>2
  <2>2. \A k \in DOMAIN first : k \in DOMAIN msgs /\ first[k] = msgs[k]
    BY <1>1, FirstMessages
  <2> HIDE DEF first
  <2>3. ids \subseteq Ids(first)
    BY DEF Ids, Range
  <2>4. ids \subseteq {msgs[k].id : k \in DOMAIN msgs}
    BY <2>2, <2>3 DEF Ids
  <2>5. ids \subseteq 1 .. lastMsg /\ ids \subseteq 1 .. MaxMessages
    BY <2>1, <2>4
  <2> QED  BY <2>3, <2>5 DEF JournalRecord
<1>7. told \in {{}, ids} /\ (ended => told = {})
  OBVIOUS
<1> HIDE DEF ids
<1>8. seen' = seen \cup told /\ UNCHANGED <<sent, answer, refused, stopped>>
  BY DEF reduceReadSessionMessages, ids
<1> HIDE DEF told
<1>4. CASE /\ markSessionMessagesReadThroughID(i) /\ UNCHANGED <<up, frames, ended, stops>> /\ PersistSave
           /\ JournalAppended(rec) \/ JournalFailed(rec)
           /\ cutShort' = cutShort \ told
  <2>1. msgs' = SetRead(msgs, Ids(first)) /\ Noted' = Noted \cup told
    BY <1>4, <1>8 DEF markSessionMessagesReadThroughID, Noted
  <2>2. /\ lastMsg' \in Nat /\ lastMsg' \in 0 .. MaxMessages /\ lastReply' \in 0 .. MaxReplies
        /\ refused' \subseteq ({"message"} \X (1 .. lastMsg')) \cup ({"reply"} \X (1 .. lastReply'))
        /\ IdsGrow
    BY <1>1, <1>2, <1>8, IdTypes
  <2>3. /\ journal' \in {journal, Append(journal, rec)} /\ journal' \in Seq(JournalRecord)
        /\ lines' \in LineState /\ journalFaults' \in 0 .. MaxFaults /\ FaultCounted
        /\ journal' = Append(journal, rec) \/ journalFaults' # 0
    <3>1. CASE JournalAppended(rec)
      BY <1>1, <1>3, <3>1, AppendedTypes
    <3>2. CASE JournalFailed(rec)
      BY <1>1, <1>3, <3>2, FailedTypes
    <3> QED  BY <1>4, <3>1, <3>2
  <2>4. DiskInv' /\ Grows
    <3>1. CASE journal' = Append(journal, rec)
      <4>1. Noted' \in {Noted, Noted \cup ids}
        BY <1>7, <2>1
      <4> QED  BY <1>1, <1>2, <1>3, <1>8, <2>2, <2>3, <3>1, <4>1, ReadRecorded
    <3>2. CASE journal' = journal /\ journalFaults' # 0
      BY <1>1, <1>8, <2>2, <2>3, <3>2, JournalSame
    <3> QED  BY <2>3, <3>1, <3>2
  <2>5. saveErrors' \in {saveErrors, saveErrors + 1}
    BY <1>4 DEF PersistSave
  <2>6. (lines' = "whole" => lines = "whole") /\ (OneStoreIntact' => OneStoreIntact)
    BY <1>1, <2>3, <2>5, FaultKept, IntactBefore
  <2>7. MemoryInv'
    <3>1. SummaryIsCurrent'
      BY <1>1, <1>4, ReadSummary
    <3> HIDE DEF rec, first
    <3>2. Noted' \subseteq Noted \cup Ids(first)
      BY <1>3, <1>7, <2>1
    <3> QED  BY <1>1, <1>3, <1>4, <1>8, <2>1, <2>3, <2>4, <2>6, <3>1, <3>2, ReadMemory
  <2>8. /\ SavedInv'
        /\ saved' \in [frames : SUBSET Frame, msgs : Seq(FrameMessage)]
        /\ saveErrors' \in 0 .. MaxFaults
    <3>1. frames' \subseteq Frame /\ (ended' => UNCHANGED <<sent, answer, Noted>>)
      BY <1>1, <1>4, <1>7, <1>8, <2>1 DEF FrameTypes
    <3> QED  BY <1>1, <1>4, <1>8, <2>4, <2>7, <3>1, PersistSaved
  <2>9. FrameTypes'
    <3>1. seen' \subseteq 1 .. lastMsg' /\ cutShort' \subseteq seen'
      BY <1>1, <1>2, <1>3, <1>4, <1>7, <1>8 DEF FrameTypes
    <3> QED  BY <1>1, <1>4, <1>8, <2>2, <2>3, <2>8, <3>1 DEF FrameTypes
  <2> QED  BY <2>4, <2>7, <2>8, <2>9 DEF FrameInv
<1>5. CASE /\ GoDown
           /\ \/ UNCHANGED <<saved, saveErrors>>
              \/ /\ ~ended /\ saved' = [frames |-> frames, msgs |-> SetRead(msgs, ids)]
                 /\ UNCHANGED saveErrors
              \/ MayFail /\ saveErrors' = saveErrors + 1 /\ UNCHANGED saved
           /\ UNCHANGED <<journal, lines, journalFaults>> \/ JournalCut(rec)
           /\ cutShort' = cutShort \cup (told \ seen)
  <2>1. UNCHANGED <<sent, answer, Noted, refused, stopped>>
    BY <1>1, <1>5, <1>8 DEF Noted, FrameTypes
  <2>2. /\ up' \in BOOLEAN /\ ended' = FALSE /\ frames' = {} /\ stops' \in 0 .. MaxFaults
        /\ MemoryInv'
    BY <1>1, <1>5, GoDownTypes
  <2>3. /\ lastMsg' \in Nat /\ lastMsg' \in 0 .. MaxMessages /\ lastReply' \in 0 .. MaxReplies
        /\ refused' \subseteq ({"message"} \X (1 .. lastMsg')) \cup ({"reply"} \X (1 .. lastReply'))
        /\ IdsGrow
    BY <1>1, <1>2, <2>1, IdTypes
  <2>7. /\ journal' \in {journal, Append(journal, rec)} /\ journal' \in Seq(JournalRecord)
        /\ lines' \in LineState /\ journalFaults' \in 0 .. MaxFaults /\ FaultCounted
    <3>1. CASE UNCHANGED <<journal, lines, journalFaults>>
      BY <1>1, <3>1, Counters DEF FaultCounted, FrameTypes, unreadable
    <3>2. CASE JournalCut(rec)
      BY <1>1, <1>3, <3>2, CutTypes
    <3> QED  BY <1>5, <3>1, <3>2
  <2>4. DiskInv' /\ Grows
    <3>1. CASE journal' = journal
      BY <1>1, <2>1, <2>3, <2>7, <3>1, JournalSame
    <3>2. CASE journal' = Append(journal, rec)
      BY <1>1, <1>2, <1>3, <2>1, <2>3, <2>7, <3>2, ReadRecorded
    <3> QED  BY <2>7, <3>1, <3>2
  <2>8. saveErrors' \in 0 .. MaxFaults /\ (saveErrors' = 0 => saveErrors = 0)
    BY <1>1, <1>5, Counters DEF FrameTypes
  <2>5. SavedInv' /\ saved' \in [frames : SUBSET Frame, msgs : Seq(FrameMessage)]
    <3>1. CASE UNCHANGED <<saved, saveErrors>>
      BY <1>1, <2>1, <2>4, <3>1, SavedSame, Counters DEF FrameTypes
    <3>3. CASE MayFail /\ saveErrors' = saveErrors + 1 /\ UNCHANGED saved
      <4>1. saveErrors \in Nat /\ saveErrors' > 0
        BY <1>1, <3>3, Counters
      <4> QED  BY <1>1, <2>1, <2>4, <3>3, <4>1, SavedSame DEF FrameTypes
    <3>2. CASE saved' = [frames |-> frames, msgs |-> SetRead(msgs, ids)]
      <4>1. PICK fs, old, new : fs = frames /\ old = msgs /\ new = SetRead(msgs, ids)
        OBVIOUS
      <4>2. View(fs, old) /\ View(fs, old)' /\ saved'.frames = fs /\ saved'.msgs = new
        BY <1>1, <2>4, <3>2, <4>1, ViewGrows DEF MemoryInv
      <4>3. /\ Over(new, old)
            /\ \A k \in DOMAIN old : /\ new[k].reply = old[k].reply
                                     /\ new[k].read = (old[k].read \/ old[k].id \in ids)
        BY <1>1, <4>1, SetReadIs, SMTT(30)
      <4>4. DOMAIN new = DOMAIN old /\ \A k \in DOMAIN old : new[k].id = old[k].id
        BY <4>3 DEF Over, Alike
      <4>5. View(fs, new)'
        <5>1. \A k \in DOMAIN new : GoodReply(new[k].reply)'
          BY <4>2, <4>3, <4>4 DEF View
        <5> QED  BY <4>2, <4>3, <5>1, ViewOver
      <4>6. ASSUME saveErrors' = 0, ~stopped' PROVE Shows(fs, new)'
        <5>1. Shows(fs, old)
          BY <1>1, <2>1, <2>8, <4>1, <4>6 DEF MemoryInv, OneStoreIntact
        <5>2. ASSUME NEW x \in sent', Within(x, fs)
              PROVE  \E k \in DOMAIN new : new[k].id = x.id /\ (x.id \in Noted' => new[k].read)
          <6>1. PICK k \in DOMAIN old : old[k].id = x.id /\ (x.id \in Noted => old[k].read)
            BY <2>1, <5>1, <5>2 DEF Shows
          <6> QED  BY <2>1, <4>3, <4>4, <6>1
        <5>3. \A k \in DOMAIN new : answer'[new[k].id] # NoReply => new[k].reply = answer'[new[k].id]
          BY <2>1, <4>3, <4>4, <5>1 DEF Shows
        <5> QED  BY <5>2, <5>3 DEF Shows
      <4>7. SavedInv'
        BY <4>2, <4>5, <4>6 DEF SavedInv
      <4>8. fs \subseteq Frame /\ new \in Seq(FrameMessage)
        BY <1>1, <4>1, <4>3 DEF FrameTypes, Over
      <4> QED  BY <3>2, <4>1, <4>7, <4>8
    <3> QED  BY <1>5, <3>1, <3>2, <3>3
  <2>6. FrameTypes'
    <3>1. seen' \subseteq 1 .. lastMsg' /\ cutShort' \subseteq seen'
      BY <1>1, <1>2, <1>3, <1>5, <1>7, <1>8 DEF FrameTypes
    <3> QED  BY <1>1, <1>2, <2>1, <2>2, <2>3, <2>5, <2>7, <2>8, <3>1 DEF FrameTypes
  <2> QED  BY <2>2, <2>4, <2>5, <2>6 DEF FrameInv
<1> QED  BY <1>4, <1>5 DEF reduceReadSessionMessages, ids, told

\* The journal, the ids and the history stay.
LEMMA QuietDisk ==
    ASSUME FrameTypes, DiskInv,
           UNCHANGED <<journal, lines, journalFaults, lastMsg, lastReply>>, UNCHANGED history
    PROVE  /\ DiskInv' /\ Grows
           /\ UNCHANGED <<sent, answer, seen, cutShort, Noted, refused, stopped>>
           /\ \A v \in {saveErrors, saveErrors + 1} : saveErrors' = v => (OneStoreIntact' => OneStoreIntact)
<1>1. UNCHANGED <<sent, answer, seen, cutShort, Noted, refused, stopped>>
  BY DEF history, Noted
<1>2. FaultCounted
  BY Counters DEF FaultCounted, unreadable
<1>3. IdsGrow /\ lastMsg' \in Nat
  BY <1>1, IdsGrowIf, BoundsNat, SMTT(30) DEF FrameTypes
<1>4. DiskInv' /\ Grows
  BY <1>1, <1>2, <1>3, JournalSame
<1> QED  BY <1>1, <1>2, <1>4, IntactBefore

\* So does the eviction of a frame (evictFrame).
LEMMA EvictFrame ==
    ASSUME FrameInv, NEW f, evictFrame(f)
    PROVE  FrameInv'
<1>1. FrameTypes /\ DiskInv /\ MemoryInv /\ SavedInv
  BY DEF FrameInv
<1>2. /\ ended' \in BOOLEAN /\ frames' \subseteq frames /\ (ended' => frames' = {})
      /\ PersistSave
      /\ UNCHANGED <<msgs, summary, up, journal, lines, journalFaults, stops, lastMsg, lastReply>>
      /\ UNCHANGED history
  BY DEF evictFrame
<1>3. /\ DiskInv' /\ Grows
      /\ UNCHANGED <<sent, answer, seen, cutShort, Noted, refused, stopped>>
      /\ \A v \in {saveErrors, saveErrors + 1} : saveErrors' = v => (OneStoreIntact' => OneStoreIntact)
  BY <1>1, <1>2, QuietDisk
<1>4. saveErrors' \in {saveErrors, saveErrors + 1}
  BY <1>2 DEF PersistSave
<1>5. MemoryInv'
  BY <1>1, <1>2, <1>3, <1>4, MemorySame
<1>6. /\ SavedInv'
      /\ saved' \in [frames : SUBSET Frame, msgs : Seq(FrameMessage)]
      /\ saveErrors' \in 0 .. MaxFaults
  <2>1. frames' \subseteq Frame
    BY <1>1, <1>2 DEF FrameTypes
  <2> QED  BY <1>1, <1>2, <1>3, <1>5, <2>1, PersistSaved
<1>7. FrameTypes'
  BY <1>1, <1>2, <1>3, <1>6 DEF FrameTypes
<1> QED  BY <1>3, <1>5, <1>6, <1>7 DEF FrameInv

\* So does a save (PersistSnapshot).
LEMMA PersistFrame ==
    ASSUME FrameInv, PersistSnapshot
    PROVE  FrameInv'
<1>1. FrameTypes /\ DiskInv /\ MemoryInv /\ SavedInv
  BY DEF FrameInv
<1>2. /\ PersistSave /\ UNCHANGED <<frames, ended, msgs, summary>>
      /\ UNCHANGED <<up, journal, lines, journalFaults, stops, lastMsg, lastReply>>
      /\ UNCHANGED history
  BY DEF PersistSnapshot, memory
<1>3. /\ DiskInv' /\ Grows
      /\ UNCHANGED <<sent, answer, seen, cutShort, Noted, refused, stopped>>
      /\ \A v \in {saveErrors, saveErrors + 1} : saveErrors' = v => (OneStoreIntact' => OneStoreIntact)
  BY <1>1, <1>2, QuietDisk
<1>4. saveErrors' \in {saveErrors, saveErrors + 1}
  BY <1>2 DEF PersistSave
<1>5. MemoryInv'
  BY <1>1, <1>2, <1>3, <1>4, MemorySame
<1>6. /\ SavedInv'
      /\ saved' \in [frames : SUBSET Frame, msgs : Seq(FrameMessage)]
      /\ saveErrors' \in 0 .. MaxFaults
  <2>1. frames' \subseteq Frame
    BY <1>1, <1>2 DEF FrameTypes
  <2> QED  BY <1>1, <1>2, <1>3, <1>5, <2>1, PersistSaved
<1>7. FrameTypes'
  BY <1>1, <1>2, <1>3, <1>6 DEF FrameTypes
<1> QED  BY <1>3, <1>5, <1>6, <1>7 DEF FrameInv

\* So does the end of the daemon (Stop).
LEMMA StopFrame ==
    ASSUME FrameInv, Stop
    PROVE  FrameInv'
<1>1. FrameTypes /\ DiskInv /\ MemoryInv /\ SavedInv
  BY DEF FrameInv
<1>2. /\ GoDown
      /\ UNCHANGED <<journal, lines, saved, journalFaults, saveErrors, lastMsg, lastReply>>
      /\ UNCHANGED history
  BY DEF Stop, disk
<1>3. DiskInv' /\ Grows /\ UNCHANGED <<sent, answer, seen, cutShort, Noted, refused, stopped>>
  BY <1>1, <1>2, QuietDisk
<1>4. /\ up' \in BOOLEAN /\ ended' = FALSE /\ frames' = {} /\ stops' \in 0 .. MaxFaults
      /\ MemoryInv'
  BY <1>1, <1>2, GoDownTypes
<1>5. SavedInv'
  BY <1>1, <1>2, <1>3, SavedSame, Counters
<1>6. FrameTypes'
  BY <1>1, <1>2, <1>3, <1>4 DEF FrameTypes
<1> QED  BY <1>3, <1>4, <1>5, <1>6 DEF FrameInv

\* So does the end of the session (reduceStopSession).
LEMMA StopSessionFrame ==
    ASSUME FrameInv, reduceStopSession
    PROVE  FrameInv'
<1>1. FrameTypes /\ DiskInv /\ MemoryInv /\ SavedInv
  BY DEF FrameInv
<1>2. stopped' = TRUE /\ UNCHANGED <<lastMsg, lastReply, sent, answer, seen, cutShort, Noted, refused>>
  BY DEF reduceStopSession, Noted
<1>3. IdsGrow /\ lastMsg' \in Nat
  BY <1>1, <1>2, IdsGrowIf, BoundsNat, SMTT(30) DEF FrameTypes
<1>4. ASSUME Grows, saved' = NoSnapshot PROVE SavedInv' /\ saved' \in [frames : SUBSET Frame, msgs : Seq(FrameMessage)]
  <2>1. saved'.frames = {} /\ saved'.msgs = <<>> /\ DOMAIN saved'.msgs = {}
    BY <1>4 DEF NoSnapshot
  <2>2. View(saved.frames, saved.msgs)'
    BY <2>1 DEF View, InOrder, Within
  <2>3. saved' \in [frames : SUBSET Frame, msgs : Seq(FrameMessage)]
    BY <1>4 DEF NoSnapshot
  <2> QED  BY <1>2, <2>2, <2>3 DEF SavedInv
<1>5. CASE /\ frames' = {} /\ ended' = TRUE
           /\ \/ saved' = NoSnapshot /\ UNCHANGED saveErrors
              \/ MayFail /\ saveErrors' = saveErrors + 1 /\ UNCHANGED saved
           /\ deleteFrameMessagingSession
           /\ UNCHANGED <<up, msgs, summary, stops>>
  <2>1. \/ journal' = <<>> /\ lines' = "whole" /\ UNCHANGED journalFaults
        \/ MayFail /\ journalFaults' = journalFaults + 1 /\ UNCHANGED <<journal, lines>>
    BY <1>5 DEF deleteFrameMessagingSession
  <2>2. /\ DiskInv' /\ Grows /\ Sends' \subseteq Sends
        /\ journal' \in Seq(JournalRecord) /\ lines' \in LineState /\ journalFaults' \in 0 .. MaxFaults
        /\ \A k \in Replies' : k \in Replies /\ journal'[k] = journal[k] /\ (lines' = "whole" => lines = "whole")
    <3>1. CASE journal' = <<>> /\ lines' = "whole" /\ UNCHANGED journalFaults
      <4>1. DiskInv' /\ Grows
        BY <1>1, <1>2, <3>1, JournalDeleted
      <4>2. Sends' = {} /\ Replies' = {}
        BY <3>1 DEF Sends, Replies
      <4>3. journal' \in Seq(JournalRecord)
        BY <3>1
      <4>4. lines' \in LineState /\ journalFaults' \in 0 .. MaxFaults
        BY <1>1, <3>1 DEF FrameTypes, LineState
      <4> QED  BY <4>1, <4>2, <4>3, <4>4
    <3>2. CASE MayFail /\ journalFaults' = journalFaults + 1 /\ UNCHANGED <<journal, lines>>
      <4>1. FaultCounted /\ journalFaults' \in 0 .. MaxFaults
        BY <1>1, <3>2, Counters DEF FaultCounted, unreadable
      <4>2. DiskInv' /\ Grows
        BY <1>1, <1>2, <1>3, <3>2, <4>1, JournalSame
      <4>3. Sends' = Sends /\ Replies' = Replies
        BY <3>2 DEF Sends, Replies
      <4> QED  BY <1>1, <3>2, <4>1, <4>2, <4>3 DEF FrameTypes
    <3> QED  BY <2>1, <3>1, <3>2
  <2>3. MemoryInv'
    <3>1. PICK fs, ms : fs = frames /\ ms = msgs
      OBVIOUS
    <3>2. View(fs, ms)' /\ msgs' = ms /\ Complete(fs, ms)
      BY <1>1, <1>5, <2>2, <3>1, ViewGrows DEF MemoryInv
    <3>3. \A m : ~ Within(m, frames')
      BY <1>5 DEF Within
    <3>4. View(frames, msgs)'
      BY <3>2, <3>3 DEF View
    <3>5. Complete(frames, msgs)'
      BY <2>2, <3>2, <3>3, SMTT(30) DEF Complete
    <3>6. SummaryIsCurrent'
      BY <1>1, <1>5 DEF MemoryInv, SummaryIsCurrent
    <3> QED  BY <1>2, <3>4, <3>5, <3>6 DEF MemoryInv
  <2>4. /\ SavedInv' /\ saved' \in [frames : SUBSET Frame, msgs : Seq(FrameMessage)]
        /\ saveErrors' \in 0 .. MaxFaults
    <3>1. CASE saved' = NoSnapshot /\ UNCHANGED saveErrors
      BY <1>1, <1>4, <2>2, <3>1 DEF FrameTypes
    <3>2. CASE MayFail /\ saveErrors' = saveErrors + 1 /\ UNCHANGED saved
      BY <1>1, <1>2, <2>2, <3>2, SavedSame, Counters DEF FrameTypes
    <3> QED  BY <1>5, <3>1, <3>2
  <2>5. FrameTypes'
    BY <1>1, <1>2, <1>5, <2>2, <2>4 DEF FrameTypes
  <2> QED  BY <2>2, <2>3, <2>4, <2>5 DEF FrameInv
<1>6. CASE /\ GoDown /\ saved' = NoSnapshot
           /\ UNCHANGED <<journal, lines, journalFaults, saveErrors>>
  <2>1. DiskInv' /\ Grows
    <3>1. FaultCounted
      BY <1>1, <1>6, Counters DEF FaultCounted, unreadable
    <3> QED  BY <1>1, <1>2, <1>3, <1>6, <3>1, JournalSame
  <2>2. /\ up' \in BOOLEAN /\ ended' = FALSE /\ frames' = {} /\ stops' \in 0 .. MaxFaults
        /\ MemoryInv'
    BY <1>1, <1>6, GoDownTypes
  <2>3. SavedInv' /\ saved' \in [frames : SUBSET Frame, msgs : Seq(FrameMessage)]
    BY <1>4, <1>6, <2>1
  <2>4. FrameTypes'
    BY <1>1, <1>2, <1>6, <2>2, <2>3 DEF FrameTypes
  <2> QED  BY <2>1, <2>2, <2>3, <2>4 DEF FrameInv
<1> QED  BY <1>5, <1>6 DEF reduceStopSession

=============================================================================
