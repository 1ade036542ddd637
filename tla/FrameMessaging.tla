-------------------------- MODULE FrameMessaging --------------------------
(* Messages between the agent frames of one session (services/host/runtime, *)
(* frame_messaging_*.go). Every request runs on the event loop: the broker   *)
(* appends a record to the session's messages.jsonl, and only when that      *)
(* succeeds changes memory and saves the session snapshot. A restart loads   *)
(* the snapshot and replays the journal over it. Appends and saves may fail, *)
(* a journal line may become unreadable, and the daemon may stop between the *)
(* steps of a request. Bodies, topics, previews and the audit log are left   *)
(* out; ids are numbers in the order of their allocation.                    *)
EXTENDS Naturals, Sequences, FiniteSets, FiniteSetsExt

CONSTANTS
    MaxFrames,          \* number of the session's agent frames
    MaxMessages,        \* bound on message ids
    MaxReplies,         \* bound on reply ids
    MaxFaults           \* bound on failed, torn or oversized appends, failed saves
                        \* and stops of the daemon, taken together

ASSUME BoundsAssumption ==
    {MaxFrames, MaxMessages, MaxReplies, MaxFaults} \subseteq Nat

VARIABLES
    up,             \* the daemon runs
    frames,         \* Session.Frames, numbered in their order in the list
    ended,          \* Session.EndedAt is set
    msgs,           \* Session.FrameMessaging.Messages
    summary,        \* Session.FrameMessaging.Summary
    journal,        \* the records of messages.jsonl
    lines,          \* the lines of messages.jsonl are whole, the last one is open (it
                    \* lacks its newline), or one is bad and cannot be replayed
    saved,          \* the session snapshot on disk
    lastMsg, lastReply,                 \* the last ids allocated
    journalFaults, saveErrors, stops,   \* counted against the bounds
    sent,           \* history: the messages whose sender was told so
    answer,         \* history: per message, the reply whose author was told so
    seen,           \* history: the messages whose reader was told so
    cutShort,       \* history: those of seen whose only reader was told before anything
                    \* was written, and then the daemon stopped
    refused,        \* history: the ids of sends and replies answered by an error, but for
                    \* those whose line got to the journal, without its newline
    stopped         \* history: the user stopped the session

memory == <<frames, ended, msgs, summary>>
disk == <<journal, lines, saved>>
faults == <<journalFaults, saveErrors, stops>>
history == <<sent, answer, seen, cutShort, refused, stopped>>
vars == <<up, memory, disk, lastMsg, lastReply, faults, history>>

Frame == 1..MaxFrames
NoReply == 0
unreadable == lines = "bad"
NoSnapshot == [frames |-> {}, msgs |-> <<>>]
FrameMessage == [id: 1..MaxMessages, src: Frame, dst: Frame, read: BOOLEAN,
                 reply: NoReply..MaxReplies]
JournalRecord ==
    [kind: {"sent"}, msg: FrameMessage]
        \cup [kind: {"reply"}, id: 1..MaxMessages, reply: 1..MaxReplies]
        \cup [kind: {"read"}, ids: SUBSET (1..MaxMessages)]

----------------------------------------------------------------------------
(* Reading messages *)

Ids(ms) == {ms[i].id : i \in DOMAIN ms}

Status(m) == IF m.reply = NoReply THEN "pending" ELSE "replied"

computeFrameMessagingSummary(ms) ==
    [unread |-> Cardinality({i \in DOMAIN ms : ~ms[i].read}),
     pending |-> Cardinality({i \in DOMAIN ms : ms[i].reply = NoReply}),
     last |-> IF ms = <<>> THEN "none" ELSE Status(ms[Len(ms)])]

SetRead(ms, ids) ==
    [i \in DOMAIN ms |-> [ms[i] EXCEPT !.read = @ \/ ms[i].id \in ids]]

SetReply(ms, id, r) ==
    [i \in DOMAIN ms |-> [ms[i] EXCEPT !.reply = IF ms[i].id = id THEN r ELSE @]]

\* A loop over a list, from its first element to its last.
FoldList(op(_, _), base, list) ==
    MapThenFoldSet(LAMBDA x, y : op(y, x), base, LAMBDA i : list[i], Max, DOMAIN list)

\* The messages between frames of live, in their order.
sanitizeFrameMessaging(ms, live) ==
    FoldList(LAMBDA kept, m : IF m.src \in live /\ m.dst \in live THEN Append(kept, m) ELSE kept,
             <<>>, ms)

----------------------------------------------------------------------------
(* Replaying the journal *)

\* Mutant: a replayed message replaces the one of the snapshot.
SentForgets(ms, m) ==
    IF m.id \in Ids(ms)
    THEN [i \in DOMAIN ms |-> IF ms[i].id = m.id THEN m ELSE ms[i]]
    ELSE Append(ms, m)

\* Mutant: a replayed message is appended again.
SentTwice(ms, m) == Append(ms, m)

applyFrameMessagingSent(ms, m) ==
    IF m.id \in Ids(ms)
    THEN [i \in DOMAIN ms |->
             IF ms[i].id # m.id THEN ms[i]
             ELSE [m EXCEPT !.read = @ \/ ms[i].read,
                            !.reply = IF ms[i].reply # NoReply THEN ms[i].reply ELSE @]]
    ELSE Append(ms, m)

applyFrameMessagingJournalRecord(ms, rec) ==
    CASE rec.kind = "sent" -> applyFrameMessagingSent(ms, rec.msg)
      [] rec.kind = "reply" -> SetReply(ms, rec.id, rec.reply)
      [] rec.kind = "read" -> SetRead(ms, rec.ids)

loadFrameMessagingFromJournal(base) ==
    FoldList(applyFrameMessagingJournalRecord, base, journal)

restoreFrameMessaging(live) == sanitizeFrameMessaging(saved.msgs, live)

\* The messages a restart that keeps the frames of live comes up with.
restoreFrameMessagingStores(live) ==
    LET base == restoreFrameMessaging(live)
    IN IF unreadable THEN base
       ELSE sanitizeFrameMessaging(loadFrameMessagingFromJournal(base), live)

----------------------------------------------------------------------------
(* The steps requests are made of *)

MayFail == journalFaults + saveErrors + stops < MaxFaults

\* appendJSONL succeeds. A line that is glued to an open one cannot be replayed. A
\* line over the 1 MiB the replay's scanner accepts is written all the same, and no
\* replay gets past it.
JournalAppended(rec) ==
    /\ journal' = Append(journal, rec)
    /\ \/ /\ lines' = IF lines = "whole" THEN "whole" ELSE "bad"
          /\ UNCHANGED journalFaults
       \/ /\ rec.kind # "read"
          /\ MayFail
          /\ lines' = "bad"
          /\ journalFaults' = journalFaults + 1

\* appendJSONL returns an error: nothing was written, or a part of the line that
\* nothing ever repairs, or all of it but the newline, which a replay accepts.
JournalFailed(rec) ==
    /\ MayFail
    /\ journalFaults' = journalFaults + 1
    /\ \/ UNCHANGED <<journal, lines>>
       \/ lines' = "bad" /\ UNCHANGED journal
       \/ lines = "whole" /\ lines' = "open" /\ journal' = Append(journal, rec)

\* What a save leaves on disk: a session that has ended is passed over, and the
\* record it has, if any, stays.
snapshotSessions ==
    IF ended' THEN saved ELSE [frames |-> frames', msgs |-> msgs']

\* Persist.Save: an error is logged and the old snapshot stays.
PersistSave ==
    \/ /\ saved' = snapshotSessions
       /\ UNCHANGED saveErrors
    \/ /\ MayFail
       /\ saveErrors' = saveErrors + 1
       /\ UNCHANGED saved

\* Memory goes with the process.
GoDown ==
    /\ up
    /\ MayFail
    /\ stops' = stops + 1
    /\ up' = FALSE
    /\ frames' = {}
    /\ ended' = FALSE
    /\ msgs' = <<>>
    /\ summary' = computeFrameMessagingSummary(<<>>)

\* The daemon stops in an append of rec: the line is whole, partial or absent.
JournalCut(rec) ==
    \/ /\ journal' = Append(journal, rec)
       /\ lines' = IF lines = "whole" THEN "whole" ELSE "bad"
       /\ UNCHANGED journalFaults
    \/ JournalFailed(rec)

\* The daemon stops while a request that appends rec is handled, and the caller
\* learns nothing.
StopsWhile(rec) ==
    /\ GoDown
    /\ JournalCut(rec)
    /\ UNCHANGED <<saved, saveErrors, history>>

commitFrameMessagingSession(ms) ==
    /\ UNCHANGED <<up, frames, ended, stops>>
    /\ msgs' = ms
    /\ summary' = computeFrameMessagingSummary(ms)
    /\ PersistSave

\* The request is answered by the error of the append of rec; memory is as before.
Refuse(rec) ==
    /\ JournalFailed(rec)
    /\ UNCHANGED <<up, memory, saved, saveErrors, stops>>

----------------------------------------------------------------------------
(* Requests *)

Sent(m) == [kind |-> "sent", msg |-> m]

NewMessage(src, dst) ==
    [id |-> lastMsg + 1, src |-> src, dst |-> dst, read |-> FALSE, reply |-> NoReply]

\* A message goes from an agent frame to another one of its session; any other
\* request is rejected, with no effect but a line of the audit log.
CanSend(src, dst) ==
    /\ up
    /\ {src, dst} \subseteq frames
    /\ src # dst
    /\ lastMsg < MaxMessages

\* Mutant: memory changes before the journal answers.
SendCommitsFirst(src, dst) ==
    LET m == NewMessage(src, dst) IN
    /\ CanSend(src, dst)
    /\ lastMsg' = m.id
    /\ commitFrameMessagingSession(Append(msgs, m))
    /\ \/ /\ JournalAppended(Sent(m))
          /\ sent' = sent \cup {m}
          /\ UNCHANGED refused
       \/ /\ JournalFailed(Sent(m))
          /\ refused' = IF journal' = journal THEN refused \cup {<<"message", m.id>>} ELSE refused
          /\ UNCHANGED sent
    /\ UNCHANGED <<lastReply, answer, seen, cutShort, stopped>>

frameMessagingSend(src, dst) ==
    LET m == NewMessage(src, dst) IN
    /\ CanSend(src, dst)
    /\ lastMsg' = m.id
    /\ \/ /\ JournalAppended(Sent(m))
          /\ commitFrameMessagingSession(Append(msgs, m))
          /\ sent' = sent \cup {m}
          /\ UNCHANGED <<answer, seen, cutShort, refused, stopped>>
       \/ /\ Refuse(Sent(m))
          /\ refused' = IF journal' = journal THEN refused \cup {<<"message", m.id>>} ELSE refused
          /\ UNCHANGED <<sent, answer, seen, cutShort, stopped>>
       \/ StopsWhile(Sent(m))
    /\ UNCHANGED lastReply

\* Mutant: a second reply is not rejected.
MayReplyAgain(f, i) == msgs[i].dst = f

\* Only the target replies, and only once (rejectInvalidFrameReply).
MayReply(f, i) == msgs[i].dst = f /\ msgs[i].reply = NoReply

frameMessagingReply(f, i) ==
    LET id == msgs[i].id
        rec == [kind |-> "reply", id |-> id, reply |-> lastReply + 1]
    IN
    /\ up
    /\ f \in frames
    /\ MayReply(f, i)
    /\ lastReply < MaxReplies
    /\ lastReply' = lastReply + 1
    /\ \/ /\ JournalAppended(rec)
          /\ commitFrameMessagingSession(SetReply(msgs, id, rec.reply))
          /\ answer' = [answer EXCEPT ![id] = rec.reply]
          /\ UNCHANGED <<sent, seen, cutShort, refused, stopped>>
       \/ /\ Refuse(rec)
          /\ refused' = IF journal' = journal THEN refused \cup {<<"reply", rec.reply>>} ELSE refused
          /\ UNCHANGED <<sent, answer, seen, cutShort, stopped>>
       \/ StopsWhile(rec)
    /\ UNCHANGED lastMsg

\* The unread messages to frame f from one of the frames peers.
Unread(f, peers) ==
    {m.id : m \in {n \in Range(msgs) : n.dst = f /\ n.src \in peers /\ ~n.read}}

\* A frame reads its messages, all of them or those it exchanged with a peer.
\* A read that finds nothing unread changes nothing.
frameMessagingRead(f, peers) ==
    LET ids == Unread(f, peers)
        rec == [kind |-> "read", ids |-> ids]
    IN
    /\ up
    /\ f \in frames
    /\ ids # {}
    /\ \/ /\ JournalAppended(rec)
          /\ commitFrameMessagingSession(SetRead(msgs, ids))
          /\ seen' = seen \cup ids
          /\ cutShort' = cutShort \ ids
          /\ UNCHANGED <<sent, answer, refused, stopped>>
       \/ Refuse(rec) /\ UNCHANGED history
       \/ StopsWhile(rec)
    /\ UNCHANGED <<lastMsg, lastReply>>

\* Mutant: the unread count is left as it was.
MarkReadKeepsCount(i) ==
    /\ msgs' = SetRead(msgs, Ids(SubSeq(msgs, 1, i)))
    /\ UNCHANGED summary

\* Every message up to the i-th is read; only the unread count is brought up to
\* date.
markSessionMessagesReadThroughID(i) ==
    /\ msgs' = SetRead(msgs, Ids(SubSeq(msgs, 1, i)))
    /\ summary' = [summary EXCEPT
                      !.unread = Cardinality({j \in DOMAIN msgs' : ~msgs'[j].read})]

\* A client has read the session's messages up to the i-th. The answer, the
\* snapshot and the journal follow in this order, and a failed append is only
\* logged: when the daemon stops after the answer, the read may be lost. Clients may
\* still read the messages of a session that has ended; nothing is promised about
\* that.
reduceReadSessionMessages(i) ==
    LET ids == {m.id : m \in {n \in Range(SubSeq(msgs, 1, i)) : ~n.read}}
        rec == [kind |-> "read", ids |-> ids]
        told == IF ended THEN {} ELSE ids
    IN
    /\ up
    /\ ids # {}
    /\ \/ /\ markSessionMessagesReadThroughID(i)
          /\ UNCHANGED <<up, frames, ended, stops>>
          /\ PersistSave
          /\ JournalAppended(rec) \/ JournalFailed(rec)
          /\ cutShort' = cutShort \ told
       \/ /\ GoDown
          /\ \/ UNCHANGED <<saved, saveErrors>>
             \/ /\ ~ended
                /\ saved' = [frames |-> frames, msgs |-> SetRead(msgs, ids)]
                /\ UNCHANGED saveErrors
             \/ MayFail /\ saveErrors' = saveErrors + 1 /\ UNCHANGED saved
          /\ UNCHANGED <<journal, lines, journalFaults>> \/ JournalCut(rec)
          /\ cutShort' = cutShort \cup (told \ seen)
    /\ seen' = seen \cup told
    /\ UNCHANGED <<lastMsg, lastReply, sent, answer, refused, stopped>>

----------------------------------------------------------------------------
(* The session and the daemon around the messages *)

\* A frame leaves the session, and the first one takes the session with it. The
\* messages stay in memory.
evictFrame(f) ==
    /\ up
    /\ f \in frames
    /\ ended' = (f = Min(frames))
    /\ frames' = IF ended' THEN {} ELSE frames \ {f}
    /\ UNCHANGED <<msgs, summary>>
    /\ PersistSave
    /\ UNCHANGED <<up, journal, lines, journalFaults, stops, lastMsg, lastReply, history>>

\* deleteFrameMessagingSession removes the directory of the journal, or fails and
\* is logged.
deleteFrameMessagingSession ==
    \/ /\ journal' = <<>>
       /\ lines' = "whole"
       /\ UNCHANGED journalFaults
    \/ /\ MayFail
       /\ journalFaults' = journalFaults + 1
       /\ UNCHANGED <<journal, lines>>

\* The user stops the session: Persist.Delete, then the journal. Each may fail,
\* and the daemon may stop between the two.
reduceStopSession ==
    /\ up
    /\ frames # {}
    /\ \/ /\ frames' = {}
          /\ ended' = TRUE
          /\ \/ saved' = NoSnapshot /\ UNCHANGED saveErrors
             \/ /\ MayFail
                /\ saveErrors' = saveErrors + 1
                /\ UNCHANGED saved
          /\ deleteFrameMessagingSession
          /\ UNCHANGED <<up, msgs, summary, stops>>
       \/ /\ GoDown
          /\ saved' = NoSnapshot
          /\ UNCHANGED <<journal, lines, journalFaults, saveErrors>>
    /\ stopped' = TRUE
    /\ UNCHANGED <<lastMsg, lastReply, sent, answer, seen, cutShort, refused>>

\* Any other change of the sessions saves the snapshot.
PersistSnapshot ==
    /\ up
    /\ UNCHANGED memory
    /\ PersistSave
    /\ UNCHANGED <<up, journal, lines, journalFaults, stops, lastMsg, lastReply, history>>

Stop ==
    /\ GoDown
    /\ UNCHANGED <<disk, journalFaults, saveErrors, lastMsg, lastReply, history>>

\* A warm start keeps every frame of the snapshot; a cold one may drop some.
LoadSnapshot(live) ==
    /\ ~up
    /\ up' = TRUE
    /\ frames' = live
    /\ ended' = FALSE
    /\ msgs' = restoreFrameMessagingStores(live)
    /\ summary' = computeFrameMessagingSummary(msgs')
    /\ UNCHANGED <<disk, lastMsg, lastReply, faults, history>>

----------------------------------------------------------------------------

Init ==
    /\ up = TRUE
    /\ frames = Frame
    /\ ended = FALSE
    /\ msgs = <<>>
    /\ summary = computeFrameMessagingSummary(<<>>)
    /\ journal = <<>>
    /\ lines = "whole"
    /\ saved = [frames |-> Frame, msgs |-> <<>>]
    /\ lastMsg = 0 /\ lastReply = 0
    /\ journalFaults = 0 /\ saveErrors = 0 /\ stops = 0
    /\ sent = {} /\ seen = {} /\ cutShort = {} /\ refused = {}
    /\ stopped = FALSE
    /\ answer = [id \in 1..MaxMessages |-> NoReply]

Next ==
    \/ \E src, dst \in Frame : frameMessagingSend(src, dst)
    \/ \E f \in Frame, i \in DOMAIN msgs : frameMessagingReply(f, i)
    \/ \E f \in Frame : frameMessagingRead(f, Frame)
    \/ \E f, peer \in frames : frameMessagingRead(f, {peer})
    \/ \E i \in DOMAIN msgs : reduceReadSessionMessages(i)
    \/ \E f \in Frame : evictFrame(f)
    \/ reduceStopSession
    \/ PersistSnapshot
    \/ Stop
    \/ \E live \in SUBSET saved.frames \ {{}} : LoadSnapshot(live)

Spec == Init /\ [][Next]_vars

----------------------------------------------------------------------------
(* Properties *)

\* The state stays within its types (state/frame_messaging.go).
TypeOK ==
    /\ {up, ended, stopped} \subseteq BOOLEAN
    /\ lines \in {"whole", "open", "bad"}
    /\ frames \subseteq Frame
    /\ \A ms \in {msgs, saved.msgs} : Range(ms) \subseteq FrameMessage
    /\ saved.frames \subseteq Frame
    /\ Range(journal) \subseteq JournalRecord
    /\ lastMsg \in 0..MaxMessages /\ lastReply \in 0..MaxReplies
    /\ {journalFaults, saveErrors, stops} \subseteq 0..MaxFaults
    /\ sent \subseteq FrameMessage /\ cutShort \subseteq seen /\ seen \subseteq 1..MaxMessages
    /\ answer \in [1..MaxMessages -> NoReply..MaxReplies]

\* Only one of the two stores has failed.
OneStoreIntact == journalFaults = 0 \/ saveErrors = 0

\* What was acknowledged is found again: whenever the daemon runs, before or after
\* any number of restarts, every message between frames of the session whose send
\* was answered is there, with the reply that was accepted for it and read if its
\* reader was told so, as long as the journal or the snapshot never failed and the
\* user did not stop the session. The exception is a read by a client, which
\* reduceReadSessionMessages answers before the snapshot and the journal are written:
\* a stop of the daemon after the answer may lose it.
AcceptedSurvives ==
    OneStoreIntact /\ ~stopped =>
        \A m \in sent : {m.src, m.dst} \subseteq frames =>
            \E n \in Range(msgs) :
                /\ n.id = m.id
                /\ answer[m.id] # NoReply => n.reply = answer[m.id]
                /\ m.id \in seen \ cutShort => n.read

\* A send or a reply answered by an error leaves nothing behind: neither memory,
\* nor the snapshot, nor a restart ever shows it, unless all of its line but the
\* newline was written when the append failed (loadFrameMessagingFromJournal replays
\* such a line, as long as it is the last one).
RefusedLeavesNoTrace ==
    \A ms \in {msgs, saved.msgs, restoreFrameMessagingStores(saved.frames)} :
        \A m \in Range(ms) :
            /\ <<"message", m.id>> \notin refused
            /\ <<"reply", m.reply>> \notin refused

\* Messages keep the order in which they were sent, each once, whatever the
\* snapshot a restart replays the journal over: clients acknowledge a prefix
\* (markSessionMessagesReadThroughID).
MessagesInOrder ==
    \A i, j \in DOMAIN msgs : i < j => msgs[i].id < msgs[j].id

\* The summary clients see always counts the messages in memory, although reads by
\* clients update only one of its fields.
SummaryIsCurrent == summary = computeFrameMessagingSummary(msgs)

\* A message gets one reply: no second reply is ever accepted for it, across
\* restarts, as long as the journal or the snapshot never failed and the user did
\* not stop the session.
AnswerIsFinal ==
    [][OneStoreIntact /\ ~stopped => \A id \in 1..MaxMessages :
           answer[id] # NoReply => answer'[id] = answer[id]]_vars
============================================================================
