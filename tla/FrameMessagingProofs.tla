------------------------ MODULE FrameMessagingProofs ------------------------
(* What FrameMessaging promises for any frames, messages, replies and       *)
(* faults: what was accepted survives, what was refused leaves nothing, and *)
(* messages, summary and answers stay as callers were told. The replay of   *)
(* the journal and the sanitising of a snapshot are folds; what they yield  *)
(* is followed record by record, by induction on the number of records.     *)
EXTENDS FrameStepProofs, WellFoundedInduction

\* A leaf is tried with Zenon, then with SMT, then with SMT again and more time.
USE ZenonT(5), SMT, SMTT(30)

-----------------------------------------------------------------------------
(* Induction and folds *)

\* A nonempty set of numbers has a least element.
LEMMA Least ==
    ASSUME NEW T, T \subseteq Nat, T # {}
    PROVE  \E m \in T : \A k \in T : m <= k
<1> DEFINE R == OpToRel(<, Nat)
<1>1. IsWellFoundedOn(R, Nat)
  BY NatLessThanWellFounded
<1>2. \A a, b \in Nat : a < b => <<a, b>> \in R
  BY DEF OpToRel
<1> HIDE DEF R
<1>3. PICK m \in T : \A k \in T : ~ (<<k, m>> \in R)
  BY <1>1, WFMin, Zenon
<1>4. \A k \in T : ~(k < m)
  BY <1>2, <1>3, Zenon
<1> QED  BY <1>4, SMTT(30)

\* Induction, for the set of the numbers a fact holds of.
LEMMA SetInduction ==
    ASSUME NEW G, 0 \in G, \A n \in Nat : n \in G => n + 1 \in G
    PROVE  \A n \in Nat : n \in G
<1> DEFINE T == {n \in Nat : n \notin G}
<1>1. SUFFICES ASSUME T # {} PROVE FALSE
  BY Zenon
<1>2. PICK m \in T : \A k \in T : m <= k
  BY <1>1, Least, Zenon
<1>3. m # 0 /\ m \in Nat
  BY <1>2
<1>4. m - 1 \in Nat /\ ~(m <= m - 1) /\ m = (m - 1) + 1
  BY <1>3
<1>5. m - 1 \in G
  BY <1>2, <1>4
<1> QED  BY <1>2, <1>4, <1>5

\* The largest of the numbers up to n, and of a set with n.
LEMMA MaxIs ==
    ASSUME NEW n \in Nat, NEW s \in SUBSET (1 .. n), n \in s
    PROVE  Max(s) = n
<1>1. \A x, y \in s : x <= n /\ (x >= n => x = n)
  OBVIOUS
<1>2. \A y \in s : n >= y
  BY <1>1
<1>3. Max(s) \in s /\ \A y \in s : Max(s) >= y
  BY <1>2, Zenon DEF Max
<1> QED  BY <1>1, <1>3, Zenon

\* g folds the records J[i] for each set of numbers in D.
Replays(g, b, J, D) ==
    g = [s \in D |-> IF s = {} THEN b
                     ELSE applyFrameMessagingJournalRecord(g[s \ {Max(s)}], J[Max(s)])]

\* The recursive function of the replay's fold exists.
LEMMA ReplaysExist ==
    ASSUME NEW b, NEW J
    PROVE  \A n \in Nat : \E g : Replays(g, b, J, SUBSET (1 .. n))
<1> DEFINE G == {n \in Nat : \E g : Replays(g, b, J, SUBSET (1 .. n))}
<1>1. 0 \in G
  <2> DEFINE g == [s \in SUBSET (1 .. 0) |-> b]
  <2>1. \A s \in SUBSET (1 .. 0) : s = {}
    OBVIOUS
  <2>2. Replays(g, b, J, SUBSET (1 .. 0))
    BY <2>1 DEF Replays
  <2> QED  BY <2>2
<1>2. ASSUME NEW n \in Nat, n \in G PROVE n + 1 \in G
  <2>1. PICK h : Replays(h, b, J, SUBSET (1 .. n))
    BY <1>2
  <2> DEFINE F(s) == applyFrameMessagingJournalRecord(h[s \ {Max(s)}], J[Max(s)])
             g == [s \in SUBSET (1 .. n + 1) |-> IF s = {} THEN b ELSE F(s)]
  <2>2. ASSUME NEW s \in SUBSET (1 .. n + 1), s # {} PROVE s \ {Max(s)} \in SUBSET (1 .. n)
    <3>1. CASE n + 1 \in s
      <4>1. Max(s) = n + 1
        BY <3>1, MaxIs, SMTT(30)
      <4> QED  BY <4>1, SMTT(30)
    <3>2. CASE n + 1 \notin s
      <4>1. s \subseteq 1 .. n
        BY <3>2
      <4> QED  BY <4>1, Zenon
    <3> QED  BY <3>1, <3>2
  <2>3. SUBSET (1 .. n) \subseteq SUBSET (1 .. n + 1)
    BY SMTT(30)
  <2>4. ASSUME NEW s \in SUBSET (1 .. n) PROVE g[s] = h[s]
    BY <2>1, <2>3, Zenon DEF Replays
  <2>5. ASSUME NEW s \in SUBSET (1 .. n + 1)
        PROVE  g[s] = IF s = {} THEN b
                      ELSE applyFrameMessagingJournalRecord(g[s \ {Max(s)}], J[Max(s)])
    <3>1. CASE s = {}
      BY <3>1
    <3>2. CASE s # {}
      <4>1. g[s \ {Max(s)}] = h[s \ {Max(s)}]
        BY <2>2, <2>4, <3>2, Zenon
      <4>2. g[s] = F(s)
        BY <3>2, Zenon
      <4> HIDE DEF g
      <4> QED  BY <3>2, <4>1, <4>2, Zenon
    <3> QED  BY <3>1, <3>2
  <2>6. Replays(g, b, J, SUBSET (1 .. n + 1))
    <3> HIDE DEF F
    <3>1. g = [s \in SUBSET (1 .. n + 1) |-> g[s]]
      OBVIOUS
    <3> HIDE DEF g
    <3> QED  BY <2>5, <3>1, Zenon DEF Replays
  <2> QED  BY <2>6
<1> HIDE DEF G
<1>3. \A n \in Nat : n \in G
  BY <1>1, <1>2, SetInduction
<1> QED  BY <1>3, Zenon DEF G

\* One step of sanitizeFrameMessaging.
keep(kept, m, live) == IF m.src \in live /\ m.dst \in live THEN Append(kept, m) ELSE kept

\* g keeps the messages ms[i] between frames of live for each set of numbers in D.
Keeps(g, ms, live, D) ==
    g = [s \in D |-> IF s = {} THEN <<>>
                     ELSE keep(g[s \ {Max(s)}], ms[Max(s)], live)]

\* The recursive function of the sanitising fold exists.
LEMMA KeepsExist ==
    ASSUME NEW ms, NEW live
    PROVE  \A n \in Nat : \E g : Keeps(g, ms, live, SUBSET (1 .. n))
<1> DEFINE G == {n \in Nat : \E g : Keeps(g, ms, live, SUBSET (1 .. n))}
<1>1. 0 \in G
  <2> DEFINE g == [s \in SUBSET (1 .. 0) |-> <<>>]
  <2>1. \A s \in SUBSET (1 .. 0) : s = {}
    OBVIOUS
  <2>2. Keeps(g, ms, live, SUBSET (1 .. 0))
    BY <2>1 DEF Keeps
  <2> QED  BY <2>2
<1>2. ASSUME NEW n \in Nat, n \in G PROVE n + 1 \in G
  <2>1. PICK h : Keeps(h, ms, live, SUBSET (1 .. n))
    BY <1>2
  <2> DEFINE F(s) == keep(h[s \ {Max(s)}], ms[Max(s)], live)
             g == [s \in SUBSET (1 .. n + 1) |-> IF s = {} THEN <<>> ELSE F(s)]
  <2>2. ASSUME NEW s \in SUBSET (1 .. n + 1), s # {} PROVE s \ {Max(s)} \in SUBSET (1 .. n)
    <3>1. CASE n + 1 \in s
      <4>1. Max(s) = n + 1
        BY <3>1, MaxIs
      <4> QED  BY <4>1
    <3>2. CASE n + 1 \notin s
      <4>1. s \subseteq 1 .. n
        BY <3>2
      <4> QED  BY <4>1
    <3> QED  BY <3>1, <3>2
  <2>3. SUBSET (1 .. n) \subseteq SUBSET (1 .. n + 1)
    OBVIOUS
  <2>4. ASSUME NEW s \in SUBSET (1 .. n) PROVE g[s] = h[s]
    BY <2>1, <2>3, Zenon DEF Keeps
  <2>5. ASSUME NEW s \in SUBSET (1 .. n + 1)
        PROVE  g[s] = IF s = {} THEN <<>>
                      ELSE keep(g[s \ {Max(s)}], ms[Max(s)], live)
    <3>1. CASE s = {}
      BY <3>1
    <3>2. CASE s # {}
      <4>1. g[s \ {Max(s)}] = h[s \ {Max(s)}]
        BY <2>2, <2>4, <3>2, Zenon
      <4>2. g[s] = F(s)
        BY <3>2, Zenon
      <4> HIDE DEF g
      <4> QED  BY <3>2, <4>1, <4>2, Zenon
    <3> QED  BY <3>1, <3>2
  <2>6. Keeps(g, ms, live, SUBSET (1 .. n + 1))
    <3> HIDE DEF F
    <3>1. g = [s \in SUBSET (1 .. n + 1) |-> g[s]]
      OBVIOUS
    <3> HIDE DEF g
    <3> QED  BY <2>5, <3>1, Zenon DEF Keeps
  <2> QED  BY <2>6, SMTT(30)
<1> HIDE DEF G
<1>3. \A n \in Nat : n \in G
  BY <1>1, <1>2, SetInduction
<1> QED  BY <1>3 DEF G

\* The states a replay of J over b, and a sanitizing of ms, go through.
ReplayTrace(r, b, J) ==
    r[0] = b /\ \A n \in 1 .. Len(J) : r[n] = applyFrameMessagingJournalRecord(r[n - 1], J[n])

\* The list grows message by message.
KeepTrace(r, ms, live) ==
    r[0] = <<>> /\ \A n \in 1 .. Len(ms) : r[n] = keep(r[n - 1], ms[n], live)

\* The positions up to n are those up to n - 1, and n.
LEMMA InitialSegments ==
    ASSUME NEW n \in Nat
    PROVE  /\ 1 .. n \in SUBSET (1 .. n) /\ {} \in SUBSET (1 .. n) /\ 1 .. 0 = {}
           /\ \A k \in 1 .. n : /\ 1 .. k \in SUBSET (1 .. n) /\ 1 .. k # {} /\ Max(1 .. k) = k
                                /\ (1 .. k) \ {k} = 1 .. (k - 1)
<1>1. ASSUME NEW k \in 1 .. n
      PROVE  /\ 1 .. k \in SUBSET (1 .. n) /\ 1 .. k # {} /\ Max(1 .. k) = k
             /\ (1 .. k) \ {k} = 1 .. (k - 1)
  <2>1. k \in Nat /\ k \in 1 .. k /\ 1 .. k \in SUBSET (1 .. k)
    OBVIOUS
  <2>2. Max(1 .. k) = k
    BY <2>1, MaxIs
  <2>3. 1 .. k \in SUBSET (1 .. n)
    BY SMTT(30)
  <2>4. (1 .. k) \ {k} = 1 .. (k - 1)
    OBVIOUS
  <2> QED  BY <2>1, <2>2, <2>3, <2>4
<1> QED  BY <1>1, SMTT(30)

\* LoadSnapshot's fold over the journal, step by step.
LEMMA LoadTrace ==
    ASSUME NEW b, NEW S, journal \in Seq(S)
    PROVE  \E r : ReplayTrace(r, b, journal) /\ loadFrameMessagingFromJournal(b) = r[Len(journal)]
<1> DEFINE N == Len(journal)
           P(g) == Replays(g, b, journal, SUBSET (1 .. N))
           g == CHOOSE h : P(h)
           r == [n \in 0 .. N |-> g[1 .. n]]
<1>1. N \in Nat /\ DOMAIN journal = 1 .. N
  OBVIOUS
<1>2. P(g)
  <2>1. \E h : P(h)
    BY <1>1, ReplaysExist, Zenon
  <2> HIDE DEF P
  <2> QED  BY <2>1, Zenon
<1>3. loadFrameMessagingFromJournal(b) = g[1 .. N]
  <2>1. loadFrameMessagingFromJournal(b) =
           (CHOOSE h : Replays(h, b, journal, SUBSET (DOMAIN journal)))[DOMAIN journal]
    BY Zenon DEF loadFrameMessagingFromJournal, FoldList, MapThenFoldSet, Replays
  <2> QED  BY <1>1, <2>1, Zenon
<1> HIDE DEF g
<1>4. \A s \in SUBSET (1 .. N) :
          g[s] = IF s = {} THEN b
                 ELSE applyFrameMessagingJournalRecord(g[s \ {Max(s)}], journal[Max(s)])
  BY <1>2, Zenon DEF Replays
<1>5. r[0] = b
  <2>1. g[{}] = b
    BY <1>1, <1>4, InitialSegments, Zenon
  <2> QED  BY <1>1, <2>1, InitialSegments, SMTT(30)
<1>6. ASSUME NEW n \in 1 .. N
      PROVE  r[n] = applyFrameMessagingJournalRecord(r[n - 1], journal[n])
  <2>1. /\ 1 .. n \in SUBSET (1 .. N) /\ 1 .. n # {} /\ Max(1 .. n) = n
        /\ (1 .. n) \ {n} = 1 .. (n - 1)
    BY <1>1, InitialSegments
  <2>2. g[1 .. n] = applyFrameMessagingJournalRecord(g[(1 .. n) \ {n}], journal[n])
    BY <1>4, <2>1, Zenon
  <2>3. r[n] = g[1 .. n] /\ r[n - 1] = g[1 .. (n - 1)]
    BY <1>1
  <2> HIDE DEF r
  <2> QED  BY <2>1, <2>2, <2>3, Zenon
<1>7. r[N] = g[1 .. N]
  BY <1>1
<1> HIDE DEF r
<1>8. ReplayTrace(r, b, journal)
  BY <1>5, <1>6 DEF ReplayTrace
<1> QED  BY <1>3, <1>7, <1>8, Zenon

\* The fold of sanitizeFrameMessaging, step by step.
LEMMA SanitizeTrace ==
    ASSUME NEW S, NEW ms \in Seq(S), NEW live
    PROVE  \E r : KeepTrace(r, ms, live) /\ sanitizeFrameMessaging(ms, live) = r[Len(ms)]
<1> DEFINE N == Len(ms)
           P(g) == Keeps(g, ms, live, SUBSET (1 .. N))
           g == CHOOSE h : P(h)
           r == [n \in 0 .. N |-> g[1 .. n]]
<1>1. N \in Nat /\ DOMAIN ms = 1 .. N
  OBVIOUS
<1>2. P(g)
  <2>1. \E h : P(h)
    BY <1>1, KeepsExist, Zenon
  <2> HIDE DEF P
  <2> QED  BY <2>1, Zenon
<1>3. sanitizeFrameMessaging(ms, live) = g[1 .. N]
  <2>1. sanitizeFrameMessaging(ms, live) =
           (CHOOSE h : Keeps(h, ms, live, SUBSET (DOMAIN ms)))[DOMAIN ms]
    BY Zenon DEF sanitizeFrameMessaging, FoldList, MapThenFoldSet, Keeps, keep
  <2> QED  BY <1>1, <2>1, Zenon
<1> HIDE DEF g
<1>4. \A s \in SUBSET (1 .. N) :
          g[s] = IF s = {} THEN <<>> ELSE keep(g[s \ {Max(s)}], ms[Max(s)], live)
  BY <1>2, Zenon DEF Keeps
<1>5. r[0] = <<>>
  <2>1. g[{}] = <<>>
    BY <1>1, <1>4, InitialSegments, Zenon
  <2> QED  BY <1>1, <2>1, InitialSegments, SMTT(30)
<1>6. ASSUME NEW n \in 1 .. N
      PROVE  r[n] = keep(r[n - 1], ms[n], live)
  <2>1. /\ 1 .. n \in SUBSET (1 .. N) /\ 1 .. n # {} /\ Max(1 .. n) = n
        /\ (1 .. n) \ {n} = 1 .. (n - 1)
    BY <1>1, InitialSegments
  <2>2. g[1 .. n] = keep(g[(1 .. n) \ {n}], ms[n], live)
    BY <1>4, <2>1, Zenon
  <2>3. r[n] = g[1 .. n] /\ r[n - 1] = g[1 .. (n - 1)]
    BY <1>1
  <2> HIDE DEF r
  <2> QED  BY <2>1, <2>2, <2>3, Zenon
<1>7. r[N] = g[1 .. N]
  BY <1>1
<1> HIDE DEF r
<1>8. KeepTrace(r, ms, live)
  BY <1>5, <1>6 DEF KeepTrace
<1> QED  BY <1>3, <1>7, <1>8, Zenon

-----------------------------------------------------------------------------
(* What sanitizeFrameMessaging keeps *)

\* The messages between frames of fs are in order.
InOrderWithin(ms, fs) ==
    \A i, j \in DOMAIN ms : i < j /\ Within(ms[i], fs) /\ Within(ms[j], fs) => ms[i].id < ms[j].id

\* s is what is kept of the first n of the messages ms.
Kept(s, ms, live, n) ==
    /\ s \in Seq(FrameMessage)
    /\ \A i \in DOMAIN s : \E k \in 1 .. n : s[i] = ms[k] /\ Within(ms[k], live)
    /\ \A k \in 1 .. n : Within(ms[k], live) => \E i \in DOMAIN s : s[i] = ms[k]
    /\ InOrderWithin(ms, live) => InOrder(s)

\* One more message is kept or left out.
LEMMA KeptStep ==
    ASSUME NEW ms \in Seq(FrameMessage), NEW live, NEW n \in 1 .. Len(ms), NEW s, Kept(s, ms, live, n - 1)
    PROVE  Kept(keep(s, ms[n], live), ms, live, n)
<1> DEFINE t == Append(s, ms[n])
<1>1. s \in Seq(FrameMessage) /\ ms[n] \in FrameMessage /\ n \in DOMAIN ms /\ n \in 1 .. n
  BY SMTT(30) DEF Kept
<1>2. /\ \A i \in DOMAIN s : \E k \in 1 .. n : s[i] = ms[k] /\ Within(ms[k], live)
      /\ \A k \in 1 .. n : k # n => k \in 1 .. n - 1
      /\ \A k \in 1 .. n - 1 : k \in 1 .. n /\ k < n /\ k \in DOMAIN ms
  <2>1. \A k \in 1 .. n - 1 : k \in 1 .. n /\ k < n /\ k \in DOMAIN ms
    OBVIOUS
  <2>2. \A k \in 1 .. n : k # n => k \in 1 .. n - 1
    OBVIOUS
  <2> QED  BY <2>1, <2>2 DEF Kept
<1>3. CASE Within(ms[n], live)
  <2>1. keep(s, ms[n], live) = t
    BY <1>3 DEF keep, Within
  <2>2. /\ t \in Seq(FrameMessage) /\ Len(t) = Len(s) + 1 /\ Len(s) \in Nat
        /\ DOMAIN t = 1 .. (Len(s) + 1) /\ DOMAIN s = 1 .. Len(s)
        /\ \A i \in 1 .. Len(s) : t[i] = s[i]
        /\ t[Len(s) + 1] = ms[n]
    BY <1>1
  <2> HIDE DEF t
  <2>3. ASSUME NEW i \in DOMAIN t PROVE \E k \in 1 .. n : t[i] = ms[k] /\ Within(ms[k], live)
    <3>1. CASE i = Len(s) + 1
      BY <1>1, <1>3, <2>2, <3>1
    <3>2. CASE i # Len(s) + 1
      <4>1. i \in DOMAIN s /\ t[i] = s[i]
        BY <2>2, <3>2
      <4> QED  BY <1>2, <4>1
    <3> QED  BY <3>1, <3>2
  <2>4. ASSUME NEW k \in 1 .. n, Within(ms[k], live) PROVE \E i \in DOMAIN t : t[i] = ms[k]
    <3>1. CASE k = n
      BY <2>2, <3>1
    <3>2. CASE k # n
      <4>1. PICK i \in DOMAIN s : s[i] = ms[k]
        BY <1>2, <2>4, <3>2 DEF Kept
      <4> QED  BY <2>2, <4>1
    <3> QED  BY <3>1, <3>2
  <2>5. ASSUME InOrderWithin(ms, live), NEW i \in DOMAIN t, NEW j \in DOMAIN t, i < j
        PROVE  t[i].id < t[j].id
    <3>1. i \in DOMAIN s /\ t[i] = s[i]
      BY <2>2, <2>5
    <3>2. CASE j = Len(s) + 1
      <4>1. PICK k \in 1 .. n - 1 : s[i] = ms[k] /\ Within(ms[k], live)
        BY <3>1 DEF Kept
      <4>2. ms[k].id < ms[n].id
        BY <1>1, <1>2, <1>3, <2>5, <4>1 DEF InOrderWithin
      <4> QED  BY <2>2, <3>1, <3>2, <4>1, <4>2
    <3>3. CASE j # Len(s) + 1
      <4>1. j \in DOMAIN s /\ t[j] = s[j]
        BY <2>2, <3>3
      <4> QED  BY <2>5, <3>1, <4>1 DEF Kept, InOrder
    <3> QED  BY <3>2, <3>3
  <2> QED  BY <2>1, <2>2, <2>3, <2>4, <2>5, SMTT(30) DEF Kept, InOrder
<1>4. CASE ~ Within(ms[n], live)
  <2>1. keep(s, ms[n], live) = s
    BY <1>4 DEF keep, Within
  <2>2. \A k \in 1 .. n : Within(ms[k], live) => \E i \in DOMAIN s : s[i] = ms[k]
    BY <1>2, <1>4 DEF Kept
  <2> QED  BY <1>1, <1>2, <2>1, <2>2, SMTT(30) DEF Kept
<1> QED  BY <1>3, <1>4

\* What is kept, of all the messages.
LEMMA Sanitized ==
    ASSUME NEW ms \in Seq(FrameMessage), NEW live
    PROVE  Kept(sanitizeFrameMessaging(ms, live), ms, live, Len(ms))
<1>1. PICK r : KeepTrace(r, ms, live) /\ sanitizeFrameMessaging(ms, live) = r[Len(ms)]
  BY SanitizeTrace
<1> DEFINE G == {n \in Nat : n <= Len(ms) => Kept(r[n], ms, live, n)}
<1>2. Len(ms) \in Nat
  OBVIOUS
<1>3. 0 \in G
  <2>1. r[0] = <<>>
    BY <1>1 DEF KeepTrace
  <2>2. Kept(<<>>, ms, live, 0)
    BY DEF Kept, InOrder
  <2> QED  BY <2>1, <2>2
<1>4. ASSUME NEW n \in Nat, n \in G PROVE n + 1 \in G
  <2>1. SUFFICES ASSUME n + 1 <= Len(ms) PROVE Kept(r[n + 1], ms, live, n + 1)
    OBVIOUS
  <2>2. n + 1 \in 1 .. Len(ms) /\ (n + 1) - 1 = n /\ n <= Len(ms)
    BY <1>2, <2>1
  <2>3. Kept(r[n], ms, live, n)
    BY <1>4, <2>2
  <2>4. r[n + 1] = keep(r[n], ms[n + 1], live)
    BY <1>1, <2>2 DEF KeepTrace
  <2> HIDE DEF G
  <2>5. Kept(r[n], ms, live, (n + 1) - 1)
    BY <2>2, <2>3
  <2>6. Kept(keep(r[n], ms[n + 1], live), ms, live, n + 1)
    BY <2>2, <2>5, KeptStep, Zenon
  <2> QED  BY <2>4, <2>6
<1> HIDE DEF G
<1>5. Len(ms) \in G
  BY <1>2, <1>3, <1>4, SetInduction
<1>6. Kept(r[Len(ms)], ms, live, Len(ms))
  BY <1>2, <1>5 DEF G
<1> QED  BY <1>1, <1>6

-----------------------------------------------------------------------------
(* What a replay of the journal results in *)

\* ms is the state of a replay over b after n records.
Replayed(ms, b, live, n) ==
    /\ ms \in Seq(FrameMessage)
    /\ \A i \in DOMAIN ms : GoodReply(ms[i].reply)
    /\ \A i \in DOMAIN ms : \/ \E h \in DOMAIN b : Alike(ms[i], b[h])
                            \/ \E k \in Sends : k <= n /\ Alike(ms[i], journal[k].msg)
    /\ \A h \in DOMAIN b : b[h].id \in Ids(ms)
    /\ \A k \in Sends : k <= n => journal[k].msg.id \in Ids(ms)
    /\ \A i \in DOMAIN ms, k \in Replies :
           k <= n /\ journal[k].id = ms[i].id => ms[i].reply = journal[k].reply
    /\ \A i \in DOMAIN ms, k \in Reads : k <= n /\ ms[i].id \in journal[k].ids => ms[i].read
    /\ \A i \in DOMAIN ms, h \in DOMAIN b : b[h].id = ms[i].id /\ b[h].read => ms[i].read
    /\ InOrderWithin(ms, live)

\* A step of the replay that changes messages in their places.
LEMMA ReplayedOver ==
    ASSUME FrameTypes, NEW ms, NEW b, NEW live, NEW n \in 1 .. Len(journal),
           Replayed(ms, b, live, n - 1), NEW new, Over(new, ms),
           n \in Sends => journal[n].msg.id \in Ids(ms),
           \A i \in DOMAIN new : GoodReply(new[i].reply),
           \A i \in DOMAIN new, k \in Replies :
               k <= n /\ journal[k].id = new[i].id => new[i].reply = journal[k].reply,
           n \in Reads => \A i \in DOMAIN new : new[i].id \in journal[n].ids => new[i].read
    PROVE  Replayed(new, b, live, n)
<1>1. Len(journal) \in Nat /\ n \in Nat /\ \A k \in 1 .. Len(journal) : k <= n => k <= n - 1 \/ k = n
  BY DEF FrameTypes
<1>2. Ids(new) = Ids(ms) /\ DOMAIN new = DOMAIN ms
  BY OverIds DEF Over
<1>3. ASSUME NEW i \in DOMAIN new
      PROVE  Alike(new[i], ms[i]) /\ (ms[i].read => new[i].read) /\ i \in DOMAIN ms
  BY <1>2 DEF Over
<1>4. ASSUME NEW i \in DOMAIN new
      PROVE  \/ \E h \in DOMAIN b : Alike(new[i], b[h])
             \/ \E k \in Sends : k <= n /\ Alike(new[i], journal[k].msg)
  <2>1. CASE \E h \in DOMAIN b : Alike(ms[i], b[h])
    BY <1>3, <2>1 DEF Alike
  <2>2. CASE \E k \in Sends : k <= n - 1 /\ Alike(ms[i], journal[k].msg)
    <3>1. PICK k \in Sends : k <= n - 1 /\ Alike(ms[i], journal[k].msg)
      BY <2>2
    <3>2. k <= n
      BY <1>1, <3>1, RecordTypes, SMTT(30)
    <3>3. Alike(new[i], journal[k].msg)
      BY <1>3, <3>1 DEF Alike
    <3> QED  BY <3>2, <3>3
  <2> QED  BY <1>3, <2>1, <2>2 DEF Replayed
<1>5. \A h \in DOMAIN b : b[h].id \in Ids(new)
  BY <1>2 DEF Replayed
<1>6. ASSUME NEW k \in Sends, k <= n PROVE journal[k].msg.id \in Ids(new)
  BY <1>1, <1>2, <1>6, RecordTypes DEF Replayed
<1>7. ASSUME NEW i \in DOMAIN new, NEW k \in Reads, k <= n, new[i].id \in journal[k].ids
      PROVE  new[i].read
  <2>1. CASE k = n
    BY <1>7, <2>1
  <2>2. CASE k # n
    <3>1. k <= n - 1
      BY <1>1, <1>7, <2>2, RecordTypes
    <3>2. ms[i].id \in journal[k].ids
      BY <1>3, <1>7 DEF Alike
    <3> QED  BY <1>3, <3>1, <3>2 DEF Replayed
  <2> QED  BY <2>1, <2>2
<1>8. ASSUME NEW i \in DOMAIN new, NEW h \in DOMAIN b, b[h].id = new[i].id, b[h].read
      PROVE  new[i].read
  BY <1>3, <1>8 DEF Replayed, Alike
<1>9. InOrderWithin(new, live)
  <2>1. SUFFICES ASSUME NEW i \in DOMAIN new, NEW j \in DOMAIN new, i < j,
                        Within(new[i], live), Within(new[j], live)
                 PROVE  new[i].id < new[j].id
    BY DEF InOrderWithin
  <2>2. Within(ms[i], live) /\ Within(ms[j], live)
    BY <1>3, <2>1 DEF Within, Alike
  <2>3. ms[i].id < ms[j].id
    BY <1>3, <2>1, <2>2 DEF Replayed, InOrderWithin
  <2> QED  BY <1>3, <2>3 DEF Alike
<1> QED  BY <1>4, <1>5, <1>6, <1>7, <1>8, <1>9 DEF Replayed, Over

\* An id of the replay belongs to the message the journal and the senders know.
LEMMA ReplayedAlike ==
    ASSUME FrameTypes, IdInv, NEW ms, NEW b, NEW live, NEW n \in Int, View(live, b),
           Replayed(ms, b, live, n), NEW i \in DOMAIN ms, NEW y \in Told, ms[i].id = y.id
    PROVE  Alike(ms[i], y)
<1>1. CASE \E h \in DOMAIN b : Alike(ms[i], b[h])
  <2>1. PICK h \in DOMAIN b : Alike(ms[i], b[h])
    BY <1>1
  <2>2. Alike(b[h], y)
    BY <2>1, Zenon DEF View, Alike
  <2> QED  BY <2>1, <2>2 DEF Alike
<1>2. CASE \E k \in Sends : k <= n /\ Alike(ms[i], journal[k].msg)
  <2>1. PICK k \in Sends : Alike(ms[i], journal[k].msg)
    BY <1>2
  <2>2. journal[k].msg \in Told /\ journal[k].msg.id = y.id
    BY <2>1, RecordTypes DEF Alike
  <2>3. Alike(journal[k].msg, y)
    BY <2>2 DEF IdInv
  <2> QED  BY <2>1, <2>3 DEF Alike
<1> QED  BY <1>1, <1>2 DEF Replayed

\* The replay of a send that the snapshot or an earlier record has.
LEMMA ReplayedAgain ==
    ASSUME FrameTypes, IdInv, JournalInv, NEW ms, NEW b, NEW live, NEW n \in Sends, View(live, b),
           Replayed(ms, b, live, n - 1), journal[n].msg.id \in Ids(ms)
    PROVE  Replayed(applyFrameMessagingSent(ms, journal[n].msg), b, live, n)
<1> DEFINE m == journal[n].msg
           new == applyFrameMessagingSent(ms, m)
<1>1. /\ m \in FrameMessage /\ m \in Told /\ n \in 1 .. Len(journal) /\ n \in Int /\ n - 1 \in Int
      /\ m.reply = NoReply /\ n \notin Reads
  BY RecordTypes, SMTT(30) DEF JournalInv
<1>2. ms \in Seq(FrameMessage) /\ DOMAIN ms = 1 .. Len(ms)
  BY DEF Replayed
<1> HIDE DEF m
<1>3. new = [i \in DOMAIN ms |->
               IF ms[i].id # m.id THEN ms[i]
               ELSE [m EXCEPT !.read = @ \/ ms[i].read,
                              !.reply = IF ms[i].reply # NoReply THEN ms[i].reply ELSE @]]
  BY DEF applyFrameMessagingSent, m
<1>4. ASSUME NEW i \in DOMAIN ms
      PROVE  /\ new[i] \in FrameMessage /\ Alike(new[i], ms[i])
             /\ ms[i].read => new[i].read
             /\ new[i].reply = ms[i].reply
  <2>1. ms[i] \in FrameMessage
    BY <1>2
  <2>2. CASE ms[i].id # m.id
    BY <1>3, <2>1, <2>2, Zenon DEF Alike
  <2>3. CASE ms[i].id = m.id
    <3>1. Alike(ms[i], m)
      BY <1>1, <2>3, ReplayedAlike
    <3>2. new[i] = [m EXCEPT !.read = m.read \/ ms[i].read, !.reply = ms[i].reply]
      BY <1>1, <1>3, <2>3
    <3> HIDE DEF new
    <3>3. new[i] \in FrameMessage
      BY <1>1, <2>1, <3>2, Zenon DEF FrameMessage
    <3>4. /\ new[i].id = m.id /\ new[i].src = m.src /\ new[i].dst = m.dst
          /\ new[i].read = (m.read \/ ms[i].read) /\ new[i].reply = ms[i].reply
      BY <1>1, <3>2 DEF FrameMessage
    <3> QED  BY <3>1, <3>3, <3>4, Zenon DEF Alike
  <2> QED  BY <2>2, <2>3
<1>5. DOMAIN new = DOMAIN ms /\ new \in Seq(FrameMessage)
  <2> HIDE DEF new
  <2>1. DOMAIN new = DOMAIN ms /\ new = [i \in DOMAIN ms |-> new[i]]
    BY <1>3, Zenon
  <2>2. Len(ms) \in Nat
    BY <1>2
  <2> QED  BY <1>2, <1>4, <2>1, <2>2
<1> HIDE DEF new
<1>6. Over(new, ms)
  BY <1>4, <1>5 DEF Over
<1>7. ASSUME NEW i \in DOMAIN new, NEW k \in Replies, k <= n, journal[k].id = new[i].id
      PROVE  new[i].reply = journal[k].reply
  <2>1. k <= n - 1
    <3>1. k \in 1 .. Len(journal) /\ k # n
      BY <1>1, RecordTypes
    <3> QED  BY <1>1, <1>7, <3>1
  <2>2. journal[k].id = ms[i].id /\ i \in DOMAIN ms
    BY <1>4, <1>5, <1>7 DEF Alike
  <2> QED  BY <1>4, <2>1, <2>2 DEF Replayed
<1>8. \A i \in DOMAIN new : GoodReply(new[i].reply)
  BY <1>4, <1>5 DEF Replayed
<1>9. Replayed(new, b, live, n)
  BY <1>1, <1>6, <1>7, <1>8, ReplayedOver, Zenon
<1> QED  BY <1>9 DEF new, m

\* The replay of a send that neither the snapshot nor an earlier record has.
LEMMA ReplayedNew ==
    ASSUME FrameTypes, IdInv, JournalInv, ~unreadable, NEW ms, NEW b, NEW live, NEW n \in Sends,
           View(live, b), Replayed(ms, b, live, n - 1), journal[n].msg.id \notin Ids(ms)
    PROVE  Replayed(applyFrameMessagingSent(ms, journal[n].msg), b, live, n)
<1> DEFINE m == journal[n].msg
           new == Append(ms, m)
<1>1. /\ m \in FrameMessage /\ m \in Told /\ n \in 1 .. Len(journal) /\ n \in Int /\ n - 1 \in Int
      /\ m.reply = NoReply
  BY RecordTypes, SMTT(30) DEF JournalInv
<1>2. ms \in Seq(FrameMessage)
  BY DEF Replayed
<1>3. applyFrameMessagingSent(ms, m) = new
  BY DEF applyFrameMessagingSent
<1>4. /\ new \in Seq(FrameMessage) /\ Len(ms) \in Nat
      /\ DOMAIN ms = 1 .. Len(ms) /\ DOMAIN new = 1 .. (Len(ms) + 1)
      /\ \A i \in DOMAIN ms : i \in DOMAIN new /\ new[i] = ms[i]
      /\ new[Len(ms) + 1] = m /\ Len(ms) + 1 \in DOMAIN new
      /\ \A i \in DOMAIN new : i \in DOMAIN ms \/ i = Len(ms) + 1
  BY <1>1, <1>2
<1> HIDE DEF new
<1>5. \A id \in Ids(ms) : id \in Ids(new)
  BY <1>4 DEF Ids
<1>6. m.id \in Ids(new)
  BY <1>4 DEF Ids
<1>7. \A k \in 1 .. Len(journal) : k <= n => k <= n - 1 \/ k = n
  BY <1>1
<1>8. n \notin Replies /\ n \notin Reads
  BY RecordTypes
<1>9. \A i \in DOMAIN new : GoodReply(new[i].reply)
  <2>1. GoodReply(NoReply)
    BY GoodNoReply
  <2> QED  BY <1>1, <1>4, <2>1 DEF Replayed
<1>10. ASSUME NEW i \in DOMAIN new
       PROVE  \/ \E h \in DOMAIN b : Alike(new[i], b[h])
              \/ \E k \in Sends : k <= n /\ Alike(new[i], journal[k].msg)
  <2>1. CASE i = Len(ms) + 1
    <3>1. n <= n /\ Alike(new[i], journal[n].msg)
      BY <1>1, <1>4, <2>1 DEF Alike, m
    <3> QED  BY <3>1
  <2>2. CASE i \in DOMAIN ms
    <3>1. \A k \in Sends : k <= n - 1 => k <= n
      BY <1>1, RecordTypes, SMTT(30)
    <3> QED  BY <1>4, <2>2, <3>1 DEF Replayed
  <2> QED  BY <1>4, <2>1, <2>2
<1>11. \A h \in DOMAIN b : b[h].id \in Ids(new)
  BY <1>5 DEF Replayed
<1>12. \A k \in Sends : k <= n => journal[k].msg.id \in Ids(new)
  BY <1>5, <1>6, <1>7, RecordTypes DEF Replayed, m
<1>13. ASSUME NEW i \in DOMAIN new, NEW k \in Replies, k <= n, journal[k].id = new[i].id
       PROVE  new[i].reply = journal[k].reply
  <2>1. k <= n - 1 /\ k \in 1 .. Len(journal) /\ ~ (n < k)
    BY <1>1, <1>7, <1>8, <1>13, RecordTypes, SMTT(30)
  <2>2. CASE i = Len(ms) + 1
    BY <1>4, <1>13, <2>1, <2>2 DEF JournalInv, m
  <2>3. CASE i \in DOMAIN ms
    BY <1>4, <1>13, <2>1, <2>3, SMTT(30) DEF Replayed
  <2> QED  BY <1>4, <2>2, <2>3
<1>14. ASSUME NEW i \in DOMAIN new, NEW k \in Reads, k <= n, new[i].id \in journal[k].ids
       PROVE  new[i].read
  <2>1. k <= n - 1 /\ k \in 1 .. Len(journal) /\ ~ (n < k)
    BY <1>1, <1>7, <1>8, <1>14, RecordTypes, SMTT(30)
  <2>2. CASE i = Len(ms) + 1
    BY <1>4, <1>14, <2>1, <2>2 DEF JournalInv, m
  <2>3. CASE i \in DOMAIN ms
    BY <1>4, <1>14, <2>1, <2>3 DEF Replayed
  <2> QED  BY <1>4, <2>2, <2>3
<1>15. ASSUME NEW i \in DOMAIN new, NEW h \in DOMAIN b, b[h].id = new[i].id, b[h].read
       PROVE  new[i].read
  <2>1. CASE i = Len(ms) + 1
    <3>1. b[h].id \in Ids(ms)
      BY DEF Replayed
    <3> QED  BY <1>4, <1>15, <2>1, <3>1 DEF m
  <2>2. CASE i \in DOMAIN ms
    BY <1>4, <1>15, <2>2 DEF Replayed
  <2> QED  BY <1>4, <2>1, <2>2
<1>16. ASSUME NEW i \in DOMAIN ms, Within(m, live) PROVE ms[i].id < m.id
  <2>1. CASE \E h \in DOMAIN b : Alike(ms[i], b[h])
    <3>1. PICK h \in DOMAIN b : Alike(ms[i], b[h])
      BY <2>1
    <3>2. m.id \notin Ids(b)
      BY DEF Replayed, Ids, m
    <3>3. b[h].id < m.id
      BY <1>16, <3>2 DEF View, m
    <3> QED  BY <3>1, <3>3 DEF Alike
  <2>2. CASE \E k \in Sends : k <= n - 1 /\ Alike(ms[i], journal[k].msg)
    <3>1. PICK k \in Sends : k <= n - 1 /\ Alike(ms[i], journal[k].msg)
      BY <2>2
    <3>2. k < n
      <4>1. k \in 1 .. Len(journal) /\ n \in 1 .. Len(journal) /\ Len(journal) \in Nat
        BY RecordTypes DEF FrameTypes
      <4> QED  BY <3>1, <4>1
    <3>3. journal[k].msg.id < m.id
      BY <3>2 DEF JournalInv, m
    <3> QED  BY <3>1, <3>3 DEF Alike
  <2> QED  BY <2>1, <2>2 DEF Replayed
<1>17. InOrderWithin(new, live)
  <2>1. SUFFICES ASSUME NEW i \in DOMAIN new, NEW j \in DOMAIN new, i < j,
                        Within(new[i], live), Within(new[j], live)
                 PROVE  new[i].id < new[j].id
    BY DEF InOrderWithin
  <2>2. i \in DOMAIN ms
    BY <1>4, <2>1
  <2>3. CASE j = Len(ms) + 1
    BY <1>4, <1>16, <2>1, <2>2, <2>3
  <2>4. CASE j \in DOMAIN ms
    BY <1>4, <2>1, <2>2, <2>4 DEF Replayed, InOrderWithin
  <2> QED  BY <1>4, <2>3, <2>4
<1>18. Replayed(new, b, live, n)
  BY <1>4, <1>9, <1>10, <1>11, <1>12, <1>13, <1>14, <1>15, <1>17 DEF Replayed
<1> QED  BY <1>3, <1>18 DEF m

\* A replayed reply is set at its message and nowhere else.
LEMMA ReplayedReply ==
    ASSUME FrameTypes, JournalInv, ~unreadable, NEW ms, NEW b, NEW live, NEW n \in Replies,
           Replayed(ms, b, live, n - 1)
    PROVE  Replayed(SetReply(ms, journal[n].id, journal[n].reply), b, live, n)
<1> DEFINE id == journal[n].id
           r == journal[n].reply
           new == SetReply(ms, id, r)
<1>1. /\ id \in 1 .. MaxMessages /\ r \in 1 .. MaxReplies /\ r \in NoReply .. MaxReplies
      /\ n \in 1 .. Len(journal) /\ n \notin Sends /\ n \notin Reads
  <2>1. /\ id \in 1 .. MaxMessages /\ r \in 1 .. MaxReplies
        /\ n \in 1 .. Len(journal) /\ n \notin Sends /\ n \notin Reads
    BY RecordTypes
  <2> QED  BY <2>1, BoundsAssumption DEF NoReply
<1>2. ms \in Seq(FrameMessage)
  BY DEF Replayed
<1>3. /\ Over(new, ms)
      /\ \A i \in DOMAIN ms : new[i].reply = IF ms[i].id = id THEN r ELSE ms[i].reply
  BY <1>1, <1>2, SetReplyIs, SMTT(30)
<1> HIDE DEF new, id, r
<1>4. DOMAIN new = DOMAIN ms /\ \A i \in DOMAIN ms : new[i].id = ms[i].id
  BY <1>3 DEF Over, Alike
<1>5. \A i \in DOMAIN new : GoodReply(new[i].reply)
  <2>1. GoodReply(r)
    BY DEF JournalInv, r
  <2> QED  BY <1>3, <1>4, <2>1 DEF Replayed
<1>6. ASSUME NEW i \in DOMAIN new, NEW k \in Replies, k <= n, journal[k].id = new[i].id
      PROVE  new[i].reply = journal[k].reply
  <2>1. CASE ms[i].id = id
    BY <1>3, <1>4, <1>6, <2>1, SMTT(30) DEF JournalInv, id, r
  <2>2. CASE ms[i].id # id
    <3>1. k # n
      BY <1>4, <1>6, <2>2 DEF id
    <3>2. k <= n - 1
      <4>1. k \in 1 .. Len(journal)
        BY RecordTypes
      <4> QED  BY <1>1, <1>6, <3>1, <4>1
    <3> QED  BY <1>3, <1>4, <1>6, <2>2, <3>2 DEF Replayed
  <2> QED  BY <2>1, <2>2
<1>7. Replayed(new, b, live, n)
  BY <1>1, <1>3, <1>5, <1>6, ReplayedOver
<1> QED  BY <1>7 DEF new, id, r

\* A replayed read marks the messages it names and no other.
LEMMA ReplayedRead ==
    ASSUME FrameTypes, JournalInv, NEW ms, NEW b, NEW live, NEW n \in Reads,
           Replayed(ms, b, live, n - 1)
    PROVE  Replayed(SetRead(ms, journal[n].ids), b, live, n)
<1> DEFINE ids == journal[n].ids
           new == SetRead(ms, ids)
<1>1. n \in 1 .. Len(journal) /\ n \notin Sends /\ n \notin Replies
  BY RecordTypes
<1>2. ms \in Seq(FrameMessage)
  BY DEF Replayed
<1>3. /\ Over(new, ms)
      /\ \A i \in DOMAIN ms : /\ new[i].reply = ms[i].reply
                              /\ new[i].read = (ms[i].read \/ ms[i].id \in ids)
  BY <1>2, SetReadIs, SMTT(30)
<1> HIDE DEF new, ids
<1>4. DOMAIN new = DOMAIN ms /\ \A i \in DOMAIN ms : new[i].id = ms[i].id
  BY <1>3 DEF Over, Alike
<1>5. \A i \in DOMAIN new : GoodReply(new[i].reply)
  BY <1>3, <1>4 DEF Replayed
<1>6. ASSUME NEW i \in DOMAIN new, NEW k \in Replies, k <= n, journal[k].id = new[i].id
      PROVE  new[i].reply = journal[k].reply
  <2>1. k <= n - 1
    <3>1. k \in 1 .. Len(journal) /\ k # n
      BY <1>1, RecordTypes
    <3> QED  BY <1>1, <1>6, <3>1
  <2> QED  BY <1>3, <1>4, <1>6, <2>1, SMTT(30) DEF Replayed
<1>7. \A i \in DOMAIN new : new[i].id \in journal[n].ids => new[i].read
  BY <1>3, <1>4, Zenon DEF ids
<1>8. Replayed(new, b, live, n)
  BY <1>1, <1>3, <1>5, <1>6, <1>7, ReplayedOver
<1> QED  BY <1>8 DEF new, ids

\* The replay of the whole journal.
LEMMA Loaded ==
    ASSUME FrameTypes, IdInv, JournalInv, ~unreadable, NEW b, NEW live, View(live, b)
    PROVE  Replayed(loadFrameMessagingFromJournal(b), b, live, Len(journal))
<1>1. journal \in Seq(JournalRecord) /\ Len(journal) \in Nat
  BY SMTT(30) DEF FrameTypes
<1>2. PICK r : ReplayTrace(r, b, journal) /\ loadFrameMessagingFromJournal(b) = r[Len(journal)]
  BY <1>1, LoadTrace
<1> DEFINE G == {n \in Nat : n <= Len(journal) => Replayed(r[n], b, live, n)}
<1>3. 0 \in G
  <2>1. r[0] = b
    BY <1>2 DEF ReplayTrace
  <2>2. \A k \in Sends \cup Replies \cup Reads : ~ (k <= 0)
    <3>1. \A k \in Sends \cup Replies \cup Reads : k \in 1 .. Len(journal)
      BY RecordTypes
    <3> QED  BY <1>1, <3>1
  <2>3. \A h \in DOMAIN b : b[h].id \in Ids(b) /\ Alike(b[h], b[h])
    BY DEF Ids, Alike
  <2>4. ASSUME NEW i \in DOMAIN b, NEW h \in DOMAIN b, b[h].id = b[i].id PROVE i = h
    <3>1. b \in Seq(FrameMessage) /\ DOMAIN b = 1 .. Len(b) /\ Len(b) \in Nat
      BY DEF View
    <3>2. b[i].id \in Nat
      <4>1. b[i] \in FrameMessage
        BY <3>1
      <4> QED  BY <4>1, MessageFields
    <3>3. ~ (i < h) /\ ~ (h < i)
      BY <2>4, <3>2 DEF View, InOrder
    <3> QED  BY <3>1, <3>3
  <2>5. InOrderWithin(b, live)
    BY DEF View, InOrder, InOrderWithin
  <2>6. Replayed(b, b, live, 0)
    BY <2>2, <2>3, <2>4, <2>5 DEF Replayed, View
  <2> QED  BY <2>1, <2>6
<1>4. ASSUME NEW n \in Nat, n \in G PROVE n + 1 \in G
  <2>1. SUFFICES ASSUME n + 1 <= Len(journal) PROVE Replayed(r[n + 1], b, live, n + 1)
    OBVIOUS
  <2>2. n + 1 \in 1 .. Len(journal) /\ (n + 1) - 1 = n /\ n <= Len(journal)
    BY <1>1, <2>1
  <2>3. Replayed(r[n], b, live, (n + 1) - 1)
    BY <1>4, <2>2
  <2>4. r[n + 1] = applyFrameMessagingJournalRecord(r[n], journal[n + 1])
    BY <1>2, <2>2 DEF ReplayTrace
  <2> HIDE DEF G
  <2>5. CASE n + 1 \in Sends
    <3>1. r[n + 1] = applyFrameMessagingSent(r[n], journal[n + 1].msg)
      BY <2>4, <2>5, RecordTypes DEF applyFrameMessagingJournalRecord
    <3>2. CASE journal[n + 1].msg.id \in Ids(r[n])
      BY <2>3, <2>5, <3>1, <3>2, ReplayedAgain, Zenon
    <3>3. CASE journal[n + 1].msg.id \notin Ids(r[n])
      BY <2>3, <2>5, <3>1, <3>3, ReplayedNew, Zenon
    <3> QED  BY <3>2, <3>3
  <2>6. CASE n + 1 \in Replies
    <3>1. r[n + 1] = SetReply(r[n], journal[n + 1].id, journal[n + 1].reply)
      BY <2>4, <2>6, RecordTypes DEF applyFrameMessagingJournalRecord
    <3> QED  BY <2>3, <2>6, <3>1, ReplayedReply, Zenon
  <2>7. CASE n + 1 \in Reads
    <3>1. r[n + 1] = SetRead(r[n], journal[n + 1].ids)
      BY <2>4, <2>7, RecordTypes DEF applyFrameMessagingJournalRecord
    <3> QED  BY <2>3, <2>7, <3>1, ReplayedRead
  <2> QED  BY <2>2, <2>5, <2>6, <2>7, RecordTypes, Zenon
<1> HIDE DEF G
<1>5. Len(journal) \in G
  BY <1>1, <1>3, <1>4, SetInduction
<1>6. Replayed(r[Len(journal)], b, live, Len(journal))
  BY <1>1, <1>5 DEF G
<1> QED  BY <1>2, <1>6

-----------------------------------------------------------------------------
(* What a restart comes up with *)

\* A view stays one when frames are dropped with their messages.
LEMMA ViewSanitized ==
    ASSUME FrameTypes, NEW fs, NEW ms, View(fs, ms), NEW live, live \subseteq fs
    PROVE  View(live, sanitizeFrameMessaging(ms, live))
<1> DEFINE s == sanitizeFrameMessaging(ms, live)
<1>1. ms \in Seq(FrameMessage) /\ DOMAIN ms = 1 .. Len(ms)
  BY DEF View
<1>2. Kept(s, ms, live, Len(ms))
  BY <1>1, Sanitized
<1> HIDE DEF s
<1>3. ASSUME NEW i \in DOMAIN s PROVE \E k \in DOMAIN ms : s[i] = ms[k]
  BY <1>1, <1>2 DEF Kept
<1>4. \A i \in DOMAIN s : GoodId(s[i].id) /\ GoodReply(s[i].reply)
  BY <1>3 DEF View
<1>5. \A i \in DOMAIN s, y \in Told : s[i].id = y.id => Alike(s[i], y)
  BY <1>3 DEF View
<1>6. InOrder(s)
  BY <1>2 DEF View, Kept, InOrder, InOrderWithin
<1>7. ASSUME ~unreadable, NEW j \in Sends, Within(journal[j].msg, live)
      PROVE  \/ journal[j].msg.id \in Ids(s)
             \/ \A i \in DOMAIN s : s[i].id < journal[j].msg.id
  <2>1. Within(journal[j].msg, fs) /\ journal[j].msg \in Told
    BY <1>7, RecordTypes DEF Within
  <2>2. CASE journal[j].msg.id \in Ids(ms)
    <3>1. PICK k \in DOMAIN ms : ms[k].id = journal[j].msg.id
      BY <2>2 DEF Ids
    <3>2. Within(ms[k], live)
      BY <1>7, <2>1, <3>1 DEF View, Alike, Within
    <3>3. PICK i \in DOMAIN s : s[i] = ms[k]
      BY <1>1, <1>2, <3>2 DEF Kept
    <3> QED  BY <3>1, <3>3 DEF Ids
  <2>3. CASE \A i \in DOMAIN ms : ms[i].id < journal[j].msg.id
    BY <1>3, <2>3
  <2> QED  BY <1>7, <2>1, <2>2, <2>3 DEF View
<1>8. View(live, s)
  BY <1>2, <1>4, <1>5, <1>6, <1>7 DEF View, Kept
<1> QED  BY <1>8 DEF s

\* A restart that replays the whole journal restores a view (LoadSnapshot).
LEMMA RestoredView ==
    ASSUME FrameTypes, IdInv, JournalInv, View(saved.frames, saved.msgs),
           NEW live, live \subseteq saved.frames
    PROVE  /\ View(live, restoreFrameMessagingStores(live))
           /\ Complete(live, restoreFrameMessagingStores(live))
<1> DEFINE b == restoreFrameMessaging(live)
           l == loadFrameMessagingFromJournal(b)
           s == sanitizeFrameMessaging(l, live)
<1>1. View(live, b)
  BY ViewSanitized DEF restoreFrameMessaging
<1> HIDE DEF b
<1>2. CASE unreadable
  <2>1. restoreFrameMessagingStores(live) = b
    BY <1>2 DEF restoreFrameMessagingStores, b
  <2> QED  BY <1>1, <1>2, <2>1 DEF Complete, unreadable
<1>3. CASE ~unreadable
  <2>1. restoreFrameMessagingStores(live) = s
    BY <1>3 DEF restoreFrameMessagingStores, b
  <2>2. Replayed(l, b, live, Len(journal))
    BY <1>1, <1>3, Loaded
  <2> HIDE DEF l
  <2>3. l \in Seq(FrameMessage) /\ DOMAIN l = 1 .. Len(l)
    BY <2>2 DEF Replayed
  <2>4. Kept(s, l, live, Len(l))
    BY <2>3, Sanitized
  <2> HIDE DEF s
  <2>5. ASSUME NEW i \in DOMAIN s PROVE \E k \in DOMAIN l : s[i] = l[k]
    BY <2>3, <2>4 DEF Kept
  <2>6. /\ Len(journal) \in Nat /\ Len(journal) \in Int
        /\ \A k \in Sends \cup Replies \cup Reads : k <= Len(journal)
    <3>1. Len(journal) \in Nat
      BY SMTT(30) DEF FrameTypes
    <3>2. \A k \in Sends \cup Replies \cup Reads : k \in 1 .. Len(journal)
      BY RecordTypes
    <3> QED  BY <3>1, <3>2
  <2>7. ASSUME NEW k \in DOMAIN l PROVE GoodId(l[k].id)
    <3>1. CASE \E h \in DOMAIN b : Alike(l[k], b[h])
      BY <1>1, <3>1 DEF View, Alike
    <3>2. CASE \E j \in Sends : Alike(l[k], journal[j].msg)
      BY <3>2, RecordTypes DEF IdInv, Alike
    <3> QED  BY <2>2, <3>1, <3>2 DEF Replayed
  <2>8. ASSUME NEW k \in DOMAIN l, NEW y \in Told, l[k].id = y.id PROVE Alike(l[k], y)
    BY <1>1, <2>2, <2>6, <2>8, ReplayedAlike
  <2>9. \A i \in DOMAIN s : GoodId(s[i].id) /\ GoodReply(s[i].reply)
    BY <2>2, <2>5, <2>7 DEF Replayed
  <2>10. \A i \in DOMAIN s, y \in Told : s[i].id = y.id => Alike(s[i], y)
    BY <2>5, <2>8
  <2>11. InOrder(s)
    BY <2>2, <2>4, Zenon DEF Replayed, Kept
  <2>12. ASSUME NEW j \in Sends, Within(journal[j].msg, live) PROVE journal[j].msg.id \in Ids(s)
    <3>1. journal[j].msg.id \in Ids(l) /\ journal[j].msg \in Told
      BY <2>2, <2>6, RecordTypes DEF Replayed
    <3>2. PICK k \in DOMAIN l : l[k].id = journal[j].msg.id
      BY <3>1 DEF Ids
    <3>3. Within(l[k], live)
      BY <2>8, <2>12, <3>1, <3>2 DEF Alike, Within
    <3>4. PICK i \in DOMAIN s : s[i] = l[k]
      BY <2>3, <2>4, <3>3 DEF Kept
    <3> QED  BY <3>2, <3>4 DEF Ids
  <2>13. \A i \in DOMAIN s, k \in Replies : journal[k].id = s[i].id => s[i].reply = journal[k].reply
    BY <2>2, <2>5, <2>6, SMTT(30) DEF Replayed
  <2>14. View(live, s)
    BY <2>4, <2>9, <2>10, <2>11, <2>12, Zenon DEF View, Kept
  <2>15. Complete(live, s)
    BY <2>12, <2>13 DEF Complete
  <2> QED  BY <2>1, <2>14, <2>15
<1> QED  BY <1>2, <1>3

\* After a restart, too, the messages show what was acknowledged.
LEMMA RestoredShows ==
    ASSUME FrameTypes, IdInv, JournalInv, AckInv, View(saved.frames, saved.msgs),
           OneStoreIntact, ~stopped, saveErrors = 0 => Shows(saved.frames, saved.msgs),
           NEW live, live \subseteq saved.frames
    PROVE  Shows(live, restoreFrameMessagingStores(live))
<1> DEFINE ms == saved.msgs
           b == restoreFrameMessaging(live)
           l == loadFrameMessagingFromJournal(b)
           s == sanitizeFrameMessaging(l, live)
<1>1. View(live, b)
  BY ViewSanitized DEF restoreFrameMessaging
<1>2. ms \in Seq(FrameMessage) /\ DOMAIN ms = 1 .. Len(ms)
  BY DEF View
<1>3. Kept(b, ms, live, Len(ms))
  BY <1>2, Sanitized DEF restoreFrameMessaging
<1> HIDE DEF b
<1>4. ASSUME saveErrors = 0, NEW m \in sent, Within(m, live)
      PROVE  \E h \in DOMAIN b : b[h].id = m.id /\ (m.id \in Noted => b[h].read)
  <2>1. Within(m, saved.frames) /\ m \in Told
    BY <1>4 DEF Within, Told
  <2>2. PICK k \in DOMAIN ms : ms[k].id = m.id /\ (m.id \in Noted => ms[k].read)
    BY <1>4, <2>1 DEF Shows
  <2>3. Within(ms[k], live)
    BY <1>4, <2>1, <2>2 DEF View, Alike, Within
  <2>4. PICK h \in DOMAIN b : b[h] = ms[k]
    BY <1>2, <1>3, <2>3 DEF Kept
  <2> QED  BY <2>2, <2>4
<1>5. CASE unreadable
  <2>1. restoreFrameMessagingStores(live) = b
    BY <1>5 DEF restoreFrameMessagingStores, b
  <2>2. saveErrors = 0
    BY <1>5, Counters DEF OneStoreIntact, JournalInv, unreadable
  <2>3. ASSUME NEW i \in DOMAIN b, answer[b[i].id] # NoReply PROVE b[i].reply = answer[b[i].id]
    <3>1. PICK k \in DOMAIN ms : b[i] = ms[k]
      BY <1>2, <1>3 DEF Kept
    <3> QED  BY <2>2, <2>3, <3>1 DEF Shows
  <2> QED  BY <1>4, <2>1, <2>2, <2>3 DEF Shows
<1>6. CASE ~unreadable
  <2>1. restoreFrameMessagingStores(live) = s
    BY <1>6 DEF restoreFrameMessagingStores, b
  <2>2. Replayed(l, b, live, Len(journal))
    BY <1>1, <1>6, Loaded
  <2> HIDE DEF l
  <2>3. l \in Seq(FrameMessage) /\ DOMAIN l = 1 .. Len(l)
    BY <2>2 DEF Replayed
  <2>4. Kept(s, l, live, Len(l))
    BY <2>3, Sanitized
  <2> HIDE DEF s
  <2>5. ASSUME NEW i \in DOMAIN s PROVE \E k \in DOMAIN l : s[i] = l[k]
    BY <2>3, <2>4 DEF Kept
  <2>6. /\ Len(journal) \in Nat /\ Len(journal) \in Int
        /\ \A k \in Sends \cup Replies \cup Reads : k <= Len(journal)
    <3>1. Len(journal) \in Nat
      BY SMTT(30) DEF FrameTypes
    <3>2. \A k \in Sends \cup Replies \cup Reads : k \in 1 .. Len(journal)
      BY RecordTypes
    <3> QED  BY <3>1, <3>2
  <2>7. ASSUME NEW m \in sent, Within(m, live)
        PROVE  \E i \in DOMAIN s : s[i].id = m.id /\ (m.id \in Noted => s[i].read)
    <3>1. m \in Told /\ m.id \in Ids(l)
      <4>1. PICK j \in Sends : journal[j].msg = m
        BY <1>6 DEF AckInv
      <4> QED  BY <2>2, <2>6, <4>1 DEF Replayed, Told
    <3>2. PICK k \in DOMAIN l : l[k].id = m.id
      BY <3>1 DEF Ids
    <3>3. Within(l[k], live)
      <4>1. Alike(l[k], m)
        BY <1>1, <2>2, <2>6, <3>1, <3>2, ReplayedAlike
      <4> QED  BY <2>7, <4>1 DEF Alike, Within
    <3>4. ASSUME m.id \in Noted PROVE l[k].read
      <4>1. CASE saveErrors = 0
        <5>1. PICK h \in DOMAIN b : b[h].id = m.id /\ b[h].read
          BY <1>4, <2>7, <3>4, <4>1
        <5> QED  BY <2>2, <3>2, <5>1 DEF Replayed
      <4>2. CASE journalFaults = 0
        <5>1. PICK j \in Reads : m.id \in journal[j].ids
          BY <3>4, <4>2 DEF AckInv
        <5> QED  BY <2>2, <2>6, <3>2, <5>1 DEF Replayed
      <4> QED  BY <4>1, <4>2 DEF OneStoreIntact
    <3>5. PICK i \in DOMAIN s : s[i] = l[k]
      BY <2>3, <2>4, <3>3 DEF Kept
    <3> QED  BY <3>2, <3>4, <3>5
  <2>8. ASSUME NEW i \in DOMAIN s, answer[s[i].id] # NoReply PROVE s[i].reply = answer[s[i].id]
    <3>1. PICK k \in DOMAIN l : s[i] = l[k]
      BY <2>5
    <3>2. s[i].id \in 1 .. MaxMessages
      <4>1. s[i] \in FrameMessage
        BY <2>4, SMTT(30) DEF Kept
      <4> QED  BY <4>1, MessageFields
    <3>3. PICK j \in Replies : journal[j].id = s[i].id /\ journal[j].reply = answer[s[i].id]
      BY <1>6, <2>8, <3>2 DEF AckInv
    <3> QED  BY <2>2, <2>6, <3>1, <3>3, SMTT(30) DEF Replayed
  <2> QED  BY <2>1, <2>7, <2>8 DEF Shows
<1> QED  BY <1>5, <1>6

-----------------------------------------------------------------------------
(* Every step keeps the invariant *)

\* So does a restart (LoadSnapshot).
LEMMA LoadFrame ==
    ASSUME FrameInv, NEW live \in SUBSET saved.frames, LoadSnapshot(live)
    PROVE  FrameInv'
<1>1. FrameTypes /\ DiskInv /\ SavedInv /\ IdInv /\ JournalInv /\ AckInv
  BY DEF FrameInv, DiskInv
<1>2. /\ up' = TRUE /\ ended' = FALSE /\ frames' = live
      /\ msgs' = restoreFrameMessagingStores(live) /\ summary' = computeFrameMessagingSummary(msgs')
      /\ UNCHANGED <<journal, lines, saved, lastMsg, lastReply, journalFaults, saveErrors, stops>>
      /\ UNCHANGED history
  BY DEF LoadSnapshot, disk, faults
<1>3. DiskInv' /\ Grows /\ UNCHANGED <<sent, answer, seen, cutShort, Noted, refused, stopped>>
  BY <1>1, <1>2, QuietDisk
<1>4. PICK ms : ms = restoreFrameMessagingStores(live)
  OBVIOUS
<1>5. View(live, ms) /\ Complete(live, ms) /\ (OneStoreIntact /\ ~stopped => Shows(live, ms))
  BY <1>1, <1>4, RestoredView, RestoredShows DEF SavedInv
<1>6. MemoryInv'
  <2>1. Sends' = Sends /\ Replies' = Replies /\ frames' = live /\ msgs' = ms
    BY <1>2, <1>4 DEF Sends, Replies
  <2>2. View(frames, msgs)'
    BY <1>1, <1>3, <1>5, <2>1, ViewGrows
  <2>3. Complete(frames, msgs)'
    BY <1>2, <1>5, <2>1, SMTT(30) DEF Complete
  <2>4. (OneStoreIntact /\ ~stopped => Shows(frames, msgs))'
    BY <1>2, <1>3, <1>5, <2>1 DEF Shows, OneStoreIntact
  <2>5. SummaryIsCurrent'
    BY <1>2 DEF SummaryIsCurrent
  <2> QED  BY <2>2, <2>3, <2>4, <2>5 DEF MemoryInv
<1>7. SavedInv'
  BY <1>1, <1>2, <1>3, SavedSame, Counters
<1>8. FrameTypes'
  BY <1>1, <1>2, <1>3 DEF FrameTypes
<1> QED  BY <1>3, <1>6, <1>7, <1>8 DEF FrameInv

\* There are no messages at first.
LEMMA InitFrame ==
    ASSUME Init
    PROVE  FrameInv
<1>1. DOMAIN msgs = {} /\ DOMAIN saved.msgs = {} /\ Sends = {} /\ Replies = {} /\ Reads = {} /\ Told = {}
  BY DEF Init, Sends, Replies, Reads, Told
<1>2. FrameTypes
  <2>1. journal \in Seq(JournalRecord) /\ saved \in [frames : SUBSET Frame, msgs : Seq(FrameMessage)]
    BY DEF Init
  <2>2. 0 \in 0 .. MaxMessages /\ 0 \in 0 .. MaxReplies /\ 0 \in 0 .. MaxFaults /\ NoReply \in NoReply .. MaxReplies
    BY BoundsNat
  <2> QED  BY <2>1, <2>2 DEF Init, FrameTypes, LineState
<1>3. DiskInv
  <2>1. IdInv /\ JournalInv
    BY <1>1 DEF Init, IdInv, JournalInv
  <2>2. AckInv
    BY <1>1 DEF Init, AckInv, Noted
  <2> QED  BY <2>1, <2>2 DEF DiskInv
<1>4. \A fs : View(fs, <<>>) /\ Complete(fs, <<>>) /\ Shows(fs, <<>>)
  <2>1. <<>> \in Seq(FrameMessage) /\ DOMAIN <<>> = {} /\ sent = {}
    BY DEF Init
  <2> QED  BY <1>1, <2>1 DEF View, Complete, Shows, InOrder
<1>5. MemoryInv /\ SavedInv
  BY <1>4 DEF Init, MemoryInv, SavedInv, SummaryIsCurrent
<1> QED  BY <1>2, <1>3, <1>5 DEF FrameInv

\* No step breaks the invariant.
LEMMA NextFrame ==
    ASSUME FrameInv, [Next]_vars
    PROVE  FrameInv'
<1>1. ASSUME NEW src \in Frame, NEW dst \in Frame, frameMessagingSend(src, dst) PROVE FrameInv'
  BY <1>1, SendFrame
<1>2. ASSUME NEW f \in Frame, NEW i \in DOMAIN msgs, frameMessagingReply(f, i) PROVE FrameInv'
  BY <1>2, ReplyFrame
<1>3. ASSUME NEW f, NEW peers, frameMessagingRead(f, peers) PROVE FrameInv'
  BY <1>3, ReadFrame
<1>4. ASSUME NEW i \in DOMAIN msgs, reduceReadSessionMessages(i) PROVE FrameInv'
  BY <1>4, ClientReadFrame
<1>5. ASSUME NEW f \in Frame, evictFrame(f) PROVE FrameInv'
  BY <1>5, EvictFrame
<1>6. CASE reduceStopSession
  BY <1>6, StopSessionFrame
<1>7. CASE PersistSnapshot
  BY <1>7, PersistFrame
<1>8. CASE Stop
  BY <1>8, StopFrame
<1>9. ASSUME NEW live \in SUBSET saved.frames, LoadSnapshot(live) PROVE FrameInv'
  BY <1>9, LoadFrame
<1>10. CASE UNCHANGED vars
  <2>1. FrameTypes /\ DiskInv /\ MemoryInv /\ SavedInv
    BY DEF FrameInv
  <2>2. /\ UNCHANGED <<up, frames, ended, msgs, summary, saved, saveErrors, stops>>
        /\ UNCHANGED <<journal, lines, journalFaults, lastMsg, lastReply>> /\ UNCHANGED history
    BY <1>10 DEF vars, memory, disk, faults
  <2>3. /\ DiskInv' /\ Grows /\ UNCHANGED <<sent, answer, seen, cutShort, Noted, refused, stopped>>
        /\ OneStoreIntact' => OneStoreIntact
    BY <2>1, <2>2, QuietDisk
  <2>4. MemoryInv' /\ SavedInv'
    BY <2>1, <2>2, <2>3, MemorySame, SavedSame, Counters
  <2>5. FrameTypes'
    BY <2>1, <2>2, <2>3 DEF FrameTypes
  <2> QED  BY <2>3, <2>4, <2>5 DEF FrameInv
<1> QED  BY <1>1, <1>2, <1>3, <1>4, <1>5, <1>6, <1>7, <1>8, <1>9, <1>10 DEF Next

-----------------------------------------------------------------------------
(* Theorems *)

\* Whatever happens to the requests, the appends, the saves and the daemon, memory,
\* the snapshot and the journal agree as FrameInv says: the snapshot misses at most
\* the last messages of the journal, and every reply and read of the journal is of a
\* message sent before it.
THEOREM FrameInvariant == Spec => []FrameInv
<1>1. Init => FrameInv
  BY InitFrame
<1>2. FrameInv /\ [Next]_vars => FrameInv'
  BY NextFrame
<1> QED  BY <1>1, <1>2, PTL DEF Spec

\* The variables keep the types of state/frame_messaging.go.
THEOREM FrameTypesHold == Spec => []TypeOK
<1>1. FrameInv => TypeOK
  <2> SUFFICES ASSUME FrameInv PROVE TypeOK
    OBVIOUS
  <2>1. FrameTypes /\ View(frames, msgs) /\ View(saved.frames, saved.msgs)
    BY DEF FrameInv, MemoryInv, SavedInv
  <2>2. \A ms \in {msgs, saved.msgs} : Range(ms) \subseteq FrameMessage
    BY <2>1, SMTT(30) DEF View, Range
  <2>3. Range(journal) \subseteq JournalRecord
    BY <2>1, SMTT(30) DEF FrameTypes, Range
  <2>4. seen \subseteq 1 .. MaxMessages
    BY <2>1, BoundsNat, SMTT(30) DEF FrameTypes
  <2> QED  BY <2>1, <2>2, <2>3, <2>4 DEF TypeOK, FrameTypes, LineState
<1> QED  BY <1>1, FrameInvariant, PTL

\* The counts that clients are shown, of which markSessionMessagesReadThroughID
\* brings only one up to date, are those of the messages in memory.
THEOREM SummaryCurrent == Spec => []SummaryIsCurrent
<1>1. FrameInv => SummaryIsCurrent
  BY DEF FrameInv, MemoryInv
<1> QED  BY <1>1, FrameInvariant, PTL

\* The messages in memory are in the order in which they were sent, each once, also
\* after a restart that replayed the journal over an older snapshot.
THEOREM MessagesOrdered == Spec => []MessagesInOrder
<1>1. FrameInv => MessagesInOrder
  BY DEF FrameInv, MemoryInv, View, InOrder, MessagesInOrder
<1> QED  BY <1>1, FrameInvariant, PTL

\* A send or reply that frameMessagingSend or frameMessagingReply answered by an
\* error is neither in memory nor in the snapshot, and no restart brings it back,
\* unless the failed append wrote all of its line but the newline.
THEOREM RefusedTraceless == Spec => []RefusedLeavesNoTrace
<1>1. FrameInv => RefusedLeavesNoTrace
  <2> SUFFICES ASSUME FrameInv PROVE RefusedLeavesNoTrace
    OBVIOUS
  <2>1. /\ FrameTypes /\ IdInv /\ JournalInv
        /\ View(frames, msgs) /\ View(saved.frames, saved.msgs)
    BY DEF FrameInv, DiskInv, MemoryInv, SavedInv
  <2>2. View(saved.frames, restoreFrameMessagingStores(saved.frames))
    BY <2>1, RestoredView
  <2>3. ASSUME NEW fs, NEW ms, View(fs, ms), NEW m \in Range(ms)
        PROVE  <<"message", m.id>> \notin refused /\ <<"reply", m.reply>> \notin refused
    BY <2>3 DEF View, Range, GoodId, GoodReply
  <2> QED  BY <2>1, <2>2, <2>3 DEF RefusedLeavesNoTrace
<1> QED  BY <1>1, FrameInvariant, PTL

\* A message whose send was answered, the reply accepted for it and its being read
\* are found again after any number of restarts of the daemon, as long as one of
\* messages.jsonl and the session snapshot never failed and the user did not stop
\* the session. Only a client's read, which is answered before it is written, may be
\* lost in a stop of the daemon.
THEOREM AcceptedSurvivesHolds == Spec => []AcceptedSurvives
<1>1. FrameInv => AcceptedSurvives
  <2> SUFFICES ASSUME FrameInv, OneStoreIntact, ~stopped, NEW m \in sent, {m.src, m.dst} \subseteq frames
               PROVE  \E n \in Range(msgs) :
                          /\ n.id = m.id
                          /\ answer[m.id] # NoReply => n.reply = answer[m.id]
                          /\ m.id \in Noted => n.read
    BY DEF AcceptedSurvives, Noted
  <2>1. Shows(frames, msgs) /\ Within(m, frames)
    BY DEF FrameInv, MemoryInv, Within
  <2>2. PICK i \in DOMAIN msgs : msgs[i].id = m.id /\ (m.id \in Noted => msgs[i].read)
    BY <2>1 DEF Shows
  <2>3. answer[m.id] # NoReply => msgs[i].reply = answer[m.id]
    BY <2>1, <2>2 DEF Shows
  <2>4. msgs[i] \in Range(msgs)
    BY DEF Range
  <2> QED  BY <2>2, <2>3, <2>4
<1> QED  BY <1>1, FrameInvariant, PTL

\* The reply that was accepted for a message stays, as long as one of messages.jsonl
\* and the session snapshot never failed and the user did not stop the session:
\* frameMessagingReply finds it in memory, before and after restarts, and rejects a
\* second one.
THEOREM AnswersFinal == Spec => AnswerIsFinal
<1> DEFINE A == OneStoreIntact /\ ~stopped => \A id \in 1 .. MaxMessages :
                    answer[id] # NoReply => answer'[id] = answer[id]
<1>1. FrameInv /\ [Next]_vars => [A]_vars
  <2> SUFFICES ASSUME FrameInv, Next, OneStoreIntact, ~stopped, NEW id \in 1 .. MaxMessages,
                      answer[id] # NoReply
               PROVE  answer'[id] = answer[id]
    OBVIOUS
  <2>1. ASSUME NEW f \in Frame, NEW i \in DOMAIN msgs, frameMessagingReply(f, i)
        PROVE  answer'[id] = answer[id]
    <3>1. \/ answer' = answer
          \/ MayReply(f, i) /\ answer' = [answer EXCEPT ![msgs[i].id] = lastReply + 1]
      BY <2>1 DEF frameMessagingReply, StopsWhile, history
    <3>2. MayReply(f, i) => msgs[i].id # id
      BY DEF FrameInv, MemoryInv, Shows, MayReply
    <3> QED  BY <3>1, <3>2 DEF FrameInv, FrameTypes
  <2>2. \/ \E f \in Frame, i \in DOMAIN msgs : frameMessagingReply(f, i)
        \/ answer' = answer
    BY DEF Next, frameMessagingSend, frameMessagingRead, reduceReadSessionMessages, evictFrame,
           reduceStopSession, PersistSnapshot, Stop, LoadSnapshot, StopsWhile, history
  <2> QED  BY <2>1, <2>2
<1>2. Spec => [][A]_vars
  BY <1>1, FrameInvariant, PTL DEF Spec
<1> QED  BY <1>2 DEF AnswerIsFinal

=============================================================================
