---------------------------- MODULE DaemonProofs ----------------------------
(***************************************************************************)
(* Why a client of the change feed reads the log in order, why no agent is *)
(* nudged twice in a row for one thing, and why no shell outlives the      *)
(* worktree it runs in, for every value of the constants.  Each part has   *)
(* an inductive invariant of its own.                                      *)
(***************************************************************************)
EXTENDS Feed, Reactions, ShellGate, WellFoundedInduction, TLAPS

-----------------------------------------------------------------------------
(***************************************************************************)
(* The change feed.  Each set of events on the way, what the poller read,  *)
(* a batch of the replay, the channel and the wire, has no gap from where  *)
(* the stage behind it stands; and from the batch that ends the replay on, *)
(* batch and channel together hold all that the poller has pushed.         *)
(***************************************************************************)

\* The sizes and bounds are numbers.
FeedAssumptions == Batch \in Nat /\ MaxEvents \in Nat /\ MaxFeedFaults \in Nat

\* Only a stream that is open has written, and only a replay holds a batch.
Idle ==
    /\ phase = "off" => wire = {}
    /\ phase # "write" => hand = {}

\* The client is behind the stream, and what is between them is on the wire.
Written ==
    /\ \A e \in wire : received < e
    /\ phase # "off" =>
         /\ received <= sent
         /\ \A n \in log : received < n /\ n <= sent => n \in wire

\* Neither a read of the poller nor a batch of the replay leaves out a row.
PolledWhole == \A n \in log : \A m \in polled : cursor < n /\ n <= m => n \in polled
BatchWhole == \A n \in log : \A m \in hand : sent < n /\ n <= m => n \in hand

\* The replay has read to the end of the log.
Replayed == phase = "live" \/ (phase = "write" /\ Cardinality(hand) < Batch)

\* From then on batch and channel hold what was pushed, up to the cut.
Covered ==
    Replayed =>
        \A n \in log :
            /\ ~cut /\ sent < n /\ n <= cursor => n \in live \cup hand
            /\ \A m \in live : sent < n /\ n <= m => n \in live \cup hand

FeedInv == FeedTypeOK /\ Idle /\ Written /\ PolledWhole /\ BatchWhole /\ Covered

-----------------------------------------------------------------------------
\* Every set of numbers has a least one.
LEMMA SomeLeast ==
    ASSUME NEW s, s \subseteq Nat, s # {}
    PROVE  \E n \in s : \A m \in s : n <= m
<1> DEFINE less == {p \in Nat \X Nat : p[1] < p[2]}
<1>1. IsWellFoundedOn(less, Nat)
  BY NatLessThanWellFounded DEF OpToRel
<1>2. \A m, n \in Nat : <<m, n>> \in less <=> m < n
  OBVIOUS
<1> HIDE DEF less
<1>3. PICK n \in s : \A m \in s : <<m, n>> \notin less
  BY <1>1, WFMin
<1>4. \A m \in s : m \in Nat /\ n \in Nat /\ ~(m < n)
  BY <1>2, <1>3
<1> QED
  BY <1>4

\* The least of some numbers.
LEMMA LeastOf ==
    ASSUME NEW s, s \subseteq Nat, s # {}
    PROVE  Least(s) \in s /\ \A m \in s : Least(s) <= m
<1>1. \E n \in s : \A m \in s : n <= m
  BY SomeLeast
<1> QED
  BY <1>1, Zenon DEF Least

\* The highest of some numbers up to a bound, or zero.
LEMMA HighestOf ==
    ASSUME NEW h \in Nat, NEW s, s \subseteq 0..h
    PROVE  /\ Highest(s) \in s \cup {0} /\ Highest(s) \in 0..h
           /\ \A m \in s : m <= Highest(s)
<1> DEFINE bounds == {n \in 0..h : \A m \in s : m <= n}
<1>1. h \in bounds /\ bounds \subseteq Nat /\ bounds # {}
  OBVIOUS
<1>2. PICK least \in bounds : \A n \in bounds : least <= n
  <2> HIDE DEF bounds
  <2> QED
    BY <1>1, SomeLeast
<1>3. least \in s \cup {0}
  <2>1. SUFFICES ASSUME least \notin s, least # 0
                 PROVE  FALSE
    OBVIOUS
  <2>2. least - 1 \in 0..h
    BY <2>1
  <2>3. ASSUME NEW m \in s
        PROVE  m <= least - 1
    <3>1. m <= least /\ m # least /\ m \in 0..h /\ least \in 0..h
      BY <2>1
    <3> QED
      BY <3>1
  <2>4. least - 1 \in bounds
    BY <2>2, <2>3
  <2>5. least <= least - 1
    BY <1>2, <2>4
  <2> QED
    BY <2>5
<1>4. \A m \in s : m <= least
  OBVIOUS
<1>5. \E n \in s \cup {0} : \A m \in s : m <= n
  BY <1>3, <1>4
<1> HIDE DEF bounds
<1>6. Highest(s) \in s \cup {0} /\ \A m \in s : m <= Highest(s)
  BY <1>5, Zenon DEF Highest
<1>7. s \cup {0} \subseteq 0..h
  OBVIOUS
<1> QED
  BY <1>6, <1>7

\* What a read returns: rows after the position, none left out, and all of
\* them when it is short.
LEMMA ReadsOf ==
    ASSUME NEW n, NEW rows \in Reads(n), log \subseteq Nat, n \in Nat, Batch \in Nat
    PROVE  /\ rows \subseteq After(n)
           /\ \A e \in After(n) : \A m \in rows : e <= m => e \in rows
           /\ Cardinality(rows) < Batch => rows = After(n)
<1>1. PICK k \in log \cup {0} : rows = {m \in After(n) : m <= k}
  BY DEF Reads
<1>2. rows \subseteq After(n) /\ After(n) \subseteq log
  BY <1>1 DEF After
<1>3. \A e \in After(n) : \A m \in rows : e <= m => e \in rows
  <2> SUFFICES ASSUME NEW e \in After(n), NEW m \in rows, e <= m
               PROVE  e \in rows
    OBVIOUS
  <2>1. k \in Nat
    OBVIOUS
  <2>2. e \in log /\ m \in log /\ m <= k
    BY <1>1, <1>2
  <2>3. e <= k
    BY <2>1, <2>2
  <2> QED
    BY <1>1, <2>3
<1>4. Cardinality(rows) = Batch \/ (rows = After(n) /\ Cardinality(rows) < Batch)
  BY DEF Reads
<1> QED
  BY <1>2, <1>3, <1>4

\* The sets of events hold numbers.
LEMMA FeedTypes ==
    ASSUME FeedTypeOK
    PROVE  /\ log \subseteq Nat /\ polled \subseteq Nat /\ live \subseteq Nat
           /\ hand \subseteq Nat /\ wire \subseteq Nat
           /\ head \in Nat /\ cursor \in Nat /\ sent \in Nat /\ received \in Nat
  BY DEF FeedTypeOK

\* The type invariant, element by element.
LEMMA TypesOf ==
    FeedTypeOK <=>
        /\ head \in 0..MaxEvents
        /\ \A n \in log : n \in 1..head
        /\ cursor \in 0..head
        /\ \A n \in polled : n \in cursor + 1..head
        /\ phase \in {"off", "replay", "write", "live"}
        /\ cut \in BOOLEAN
        /\ \A n \in live : n \in 1..cursor
        /\ \A n \in hand : n \in sent + 1..head
        /\ sent \in 0..head
        /\ \A n \in wire : n \in 1..sent
        /\ received \in 0..head
        /\ mishaps \in 0..MaxFeedFaults
  BY DEF FeedTypeOK

\* The same of the next state.
LEMMA FeedTypesNext ==
    FeedTypeOK' <=>
        /\ head' \in 0..MaxEvents
        /\ \A n \in log' : n \in 1..head'
        /\ cursor' \in 0..head'
        /\ \A n \in polled' : n \in cursor' + 1..head'
        /\ phase' \in {"off", "replay", "write", "live"}
        /\ cut' \in BOOLEAN
        /\ \A n \in live' : n \in 1..cursor'
        /\ \A n \in hand' : n \in sent' + 1..head'
        /\ sent' \in 0..head'
        /\ \A n \in wire' : n \in 1..sent'
        /\ received' \in 0..head'
        /\ mishaps' \in 0..MaxFeedFaults
  BY DEF FeedTypeOK

\* The initial states.
LEMMA FeedInitInv == ASSUME FeedAssumptions PROVE FeedInit => FeedInv
<1> SUFFICES ASSUME FeedInit PROVE FeedInv
  OBVIOUS
<1>1. /\ log = {} /\ head = 0 /\ cursor = 0 /\ polled = {} /\ phase = "off" /\ cut = FALSE
      /\ live = {} /\ hand = {} /\ sent = 0 /\ wire = {} /\ received = 0 /\ mishaps = 0
  BY DEF FeedInit
<1>2. 0 \in 0..MaxEvents /\ 0 \in 0..MaxFeedFaults
  BY DEF FeedAssumptions
<1>3. FeedTypeOK
  <2>1. cut \in BOOLEAN
    BY <1>1, Zenon
  <2>2. /\ head \in 0..MaxEvents /\ cursor \in 0..head /\ sent \in 0..head
        /\ received \in 0..head /\ mishaps \in 0..MaxFeedFaults
        /\ phase \in {"off", "replay", "write", "live"}
    BY <1>1, <1>2
  <2>3. log = {} /\ polled = {} /\ live = {} /\ hand = {} /\ wire = {}
    BY <1>1
  <2> QED
    BY <2>1, <2>2, <2>3, TypesOf, Zenon
<1>4. Idle /\ Written /\ PolledWhole /\ BatchWhole /\ Covered
  BY <1>1 DEF Idle, Written, PolledWhole, BatchWhole, Covered
<1> QED
  BY <1>3, <1>4 DEF FeedInv

\* A new row is beyond all that was read or sent.
LEMMA CommitInv == ASSUME FeedAssumptions, FeedInv, Commit PROVE FeedInv'
<1>1. /\ head < MaxEvents /\ head' = head + 1 /\ log' = log \cup {head + 1}
      /\ UNCHANGED <<cursor, polled, phase, cut, live, hand, sent, wire, received, mishaps>>
  BY DEF Commit, pollerVars, streamVars
<1>2. FeedTypeOK
  BY DEF FeedInv
<1>3. FeedTypeOK'
  BY <1>1, <1>2, TypesOf, FeedTypesNext DEF FeedAssumptions
<1>4. Idle'
  BY <1>1 DEF FeedInv, Idle
<1>5. Written'
  BY <1>1, <1>2, TypesOf DEF FeedInv, Written
<1>6. PolledWhole' /\ BatchWhole'
  BY <1>1, <1>2, TypesOf DEF FeedInv, PolledWhole, BatchWhole
<1>7. Covered'
  BY <1>1, <1>2, TypesOf DEF FeedInv, Covered, Replayed
<1> QED
  BY <1>3, <1>4, <1>5, <1>6, <1>7 DEF FeedInv

\* A row that is gone leaves no gap.
LEMMA DeleteSessionInv == ASSUME FeedAssumptions, FeedInv, NEW n \in log, DeleteSession(n) PROVE FeedInv'
<1>1. /\ log' = log \ {n} /\ mishaps < MaxFeedFaults /\ mishaps' = mishaps + 1
      /\ UNCHANGED <<head, cursor, polled, phase, cut, live, hand, sent, wire, received>>
  BY DEF DeleteSession, pollerVars, streamVars
<1>2. FeedTypeOK
  BY DEF FeedInv
<1>3. FeedTypeOK'
  BY <1>1, <1>2, TypesOf, FeedTypesNext DEF FeedAssumptions
<1>4. Idle' /\ Written' /\ PolledWhole' /\ BatchWhole'
  BY <1>1 DEF FeedInv, Idle, Written, PolledWhole, BatchWhole
<1>5. Covered'
  BY <1>1 DEF FeedInv, Covered, Replayed
<1> QED
  BY <1>3, <1>4, <1>5 DEF FeedInv

\* The poller reads on from its cursor.
LEMMA PollInv == ASSUME FeedAssumptions, FeedInv, Poll PROVE FeedInv'
<1>1. /\ polled' \in Reads(cursor)
      /\ UNCHANGED <<log, head, cursor, phase, cut, live, hand, sent, wire, received, mishaps>>
  BY DEF Poll, logVars, streamVars
<1>2. FeedTypeOK
  BY DEF FeedInv
<1>3. /\ polled' \subseteq After(cursor)
      /\ \A e \in After(cursor) : \A m \in polled' : e <= m => e \in polled'
  BY <1>1, <1>2, FeedTypes, ReadsOf DEF FeedAssumptions
<1>4. \A m \in polled' : m \in log /\ m > cursor
  BY <1>3 DEF After
<1>5. FeedTypeOK'
  BY <1>1, <1>2, <1>4, TypesOf, FeedTypesNext
<1>6. PolledWhole'
  BY <1>1, <1>2, <1>3, TypesOf DEF PolledWhole, After
<1>7. Idle' /\ Written' /\ BatchWhole'
  BY <1>1 DEF FeedInv, Idle, Written, BatchWhole
<1>8. Covered'
  BY <1>1 DEF FeedInv, Covered, Replayed
<1> QED
  BY <1>5, <1>6, <1>7, <1>8 DEF FeedInv

\* Rows are pushed in order: the channel takes the next one, or is cut.
LEMMA PublishInv == ASSUME FeedAssumptions, FeedInv, Publish PROVE FeedInv'
<1> DEFINE e == Least(polled)
<1>1. /\ polled # {} /\ cursor' = e /\ polled' = polled \ {e} /\ Push(e)
      /\ UNCHANGED <<log, head, phase, hand, sent, wire, received, mishaps>>
  BY DEF Publish, logVars
<1>2. FeedTypeOK
  BY DEF FeedInv
<1>3. e \in polled /\ \A m \in polled : e <= m
  BY <1>1, <1>2, FeedTypes, LeastOf
<1> HIDE DEF e
<1>4. e \in cursor + 1..head /\ cursor \in Nat /\ head \in Nat
  BY <1>2, <1>3, TypesOf, FeedTypes
<1>5. /\ live \subseteq live' /\ live' \subseteq live \cup {e}
      /\ ~cut' /\ phase # "off" => ~cut /\ e \in live'
      /\ cut => live' = live
  BY <1>1, Zenon DEF Push, Subscribed
<1>6. cut' \in BOOLEAN
  BY <1>1, Zenon DEF Push
<1>7. FeedTypeOK'
  <2>1. \A n \in live' : n \in 1..cursor'
    BY <1>1, <1>2, <1>4, <1>5, TypesOf
  <2>2. \A n \in polled' : n \in cursor' + 1..head'
    BY <1>1, <1>2, <1>3, <1>4, TypesOf
  <2> QED
    BY <1>1, <1>2, <1>4, <1>6, <2>1, <2>2, TypesOf, FeedTypesNext
<1>8. Idle' /\ Written' /\ BatchWhole'
  BY <1>1 DEF FeedInv, Idle, Written, BatchWhole
<1>9. PolledWhole'
  BY <1>1, <1>2, <1>3, <1>4, TypesOf DEF FeedInv, PolledWhole
<1>10. Covered'
  <2> SUFFICES ASSUME Replayed', NEW n \in log, sent < n
               PROVE  /\ ~cut' /\ n <= e => n \in live' \cup hand
                      /\ \A m \in live' : n <= m => n \in live' \cup hand
    BY <1>1 DEF Covered
  <2>1. Replayed /\ phase # "off"
    BY <1>1 DEF Replayed
  <2>2. n \in Nat /\ sent \in Nat
    BY <1>2, FeedTypes
  <2>3. ~cut /\ n <= cursor => n \in live \cup hand
    BY <2>1 DEF FeedInv, Covered
  <2>4. cursor < n /\ n <= e => n = e
    BY <1>2, <1>3, <1>4, <2>2, TypesOf DEF FeedInv, PolledWhole
  <2>5. ~cut' /\ n <= e => n \in live' \cup hand
    <3> SUFFICES ASSUME ~cut', n <= e
                 PROVE  n \in live' \cup hand
      OBVIOUS
    <3>1. ~cut /\ e \in live' /\ live \subseteq live'
      BY <1>5, <2>1
    <3>2. CASE n <= cursor
      BY <2>3, <3>1, <3>2
    <3>3. CASE cursor < n
      BY <2>4, <3>1, <3>3
    <3> QED
      BY <1>4, <2>2, <3>2, <3>3
  <2>6. ASSUME NEW m \in live', n <= m
        PROVE  n \in live' \cup hand
    <3>1. CASE m \in live
      BY <1>5, <2>1, <2>6, <3>1 DEF FeedInv, Covered
    <3>2. CASE m = e /\ m \notin live
      <4>1. ~cut
        BY <1>5, <2>6, <3>2
      <4>2. CASE n <= cursor
        BY <1>5, <2>3, <4>1, <4>2
      <4>3. CASE cursor < n
        BY <2>4, <2>6, <3>2, <4>3
      <4> QED
        BY <1>4, <2>2, <4>2, <4>3
    <3> QED
      BY <1>5, <2>6, <3>1, <3>2
  <2> QED
    BY <2>5, <2>6
<1> QED
  BY <1>7, <1>8, <1>9, <1>10 DEF FeedInv

\* A stream opens where its client is.
LEMMA ConnectInv == ASSUME FeedAssumptions, FeedInv, Connect PROVE FeedInv'
<1>1. /\ phase = "off" /\ phase' = "replay" /\ sent' = received
      /\ UNCHANGED <<log, head, cursor, polled, cut, live, hand, wire, received, mishaps>>
  BY DEF Connect, logVars, pollerVars
<1>2. FeedTypeOK /\ wire = {} /\ hand = {}
  BY <1>1 DEF FeedInv, Idle
<1>3. FeedTypeOK'
  BY <1>1, <1>2, TypesOf, FeedTypesNext
<1>4. Idle' /\ PolledWhole' /\ BatchWhole'
  BY <1>1, <1>2 DEF FeedInv, Idle, PolledWhole, BatchWhole
<1>5. Written'
  BY <1>1, <1>2, TypesOf DEF Written
<1>6. Covered'
  BY <1>1 DEF Covered, Replayed
<1> QED
  BY <1>3, <1>4, <1>5, <1>6 DEF FeedInv

\* A batch follows on what was sent, and a short one is all there is.
LEMMA ReplayReadInv == ASSUME FeedAssumptions, FeedInv, ReplayRead PROVE FeedInv'
<1>1. /\ phase = "replay" /\ phase' = "write" /\ hand' \in Reads(sent)
      /\ UNCHANGED <<log, head, cursor, polled, cut, live, sent, wire, received, mishaps>>
  BY DEF ReplayRead, logVars, pollerVars
<1>2. FeedTypeOK
  BY DEF FeedInv
<1>3. /\ hand' \subseteq After(sent)
      /\ \A e \in After(sent) : \A m \in hand' : e <= m => e \in hand'
      /\ Cardinality(hand') < Batch => hand' = After(sent)
  BY <1>1, <1>2, FeedTypes, ReadsOf DEF FeedAssumptions
<1>4. \A m \in hand' : m \in log /\ m > sent
  BY <1>3 DEF After
<1>5. FeedTypeOK'
  BY <1>1, <1>2, <1>4, TypesOf, FeedTypesNext
<1>6. BatchWhole'
  BY <1>1, <1>2, <1>3, TypesOf DEF BatchWhole, After
<1>7. Idle' /\ Written' /\ PolledWhole'
  BY <1>1 DEF FeedInv, Idle, Written, PolledWhole
<1>8. Covered'
  <2> SUFFICES ASSUME Replayed', NEW n \in log, sent < n
               PROVE  n \in live \cup hand'
    BY <1>1 DEF Covered
  <2>1. hand' = After(sent)
    BY <1>1, <1>3 DEF Replayed
  <2>2. n \in Nat /\ sent \in Nat
    BY <1>2, FeedTypes
  <2> QED
    BY <2>1, <2>2 DEF After
<1> QED
  BY <1>5, <1>6, <1>7, <1>8 DEF FeedInv

\* A batch is put on the wire, and the last one hands over to the channel.
LEMMA ReplayWriteInv == ASSUME FeedAssumptions, FeedInv, ReplayWrite PROVE FeedInv'
<1> DEFINE high == Highest(hand \cup {sent})
<1>1. /\ phase = "write" /\ wire' = wire \cup hand /\ sent' = high /\ hand' = {}
      /\ phase' = IF Cardinality(hand) < Batch THEN "live" ELSE "replay"
      /\ UNCHANGED <<log, head, cursor, polled, cut, live, received, mishaps>>
  BY DEF ReplayWrite, logVars, pollerVars
<1>2. FeedTypeOK
  BY DEF FeedInv
<1>3. /\ high \in hand \cup {sent} /\ high \in 0..head
      /\ sent <= high /\ \A m \in hand : m <= high
  <2>1. hand \cup {sent} \subseteq 0..head /\ head \in Nat
    BY <1>2, TypesOf, FeedTypes
  <2>2. /\ high \in hand \cup {sent} \cup {0} /\ high \in 0..head
        /\ \A m \in hand \cup {sent} : m <= high
    BY <2>1, HighestOf
  <2> HIDE DEF high
  <2>3. high = 0 => high = sent
    BY <1>2, <2>2, FeedTypes
  <2> QED
    BY <2>2, <2>3
<1> HIDE DEF high
<1>4. FeedTypeOK'
  <2>1. phase' \in {"off", "replay", "write", "live"}
    BY <1>1
  <2>2. \A n \in wire \cup hand : n \in 1..high
    <3>1. \A n \in wire : n \in 1..sent
      BY <1>2, TypesOf
    <3>2. \A n \in hand : n \in sent + 1..head
      BY <1>2, TypesOf
    <3>3. sent \in Nat /\ high \in Nat
      BY <1>2, <1>3, FeedTypes
    <3>4. ASSUME NEW n \in wire
          PROVE  n \in 1..high
      <4>1. n \in 1..sent /\ sent <= high
        BY <1>3, <3>1
      <4> QED
        BY <3>3, <4>1
    <3>5. ASSUME NEW n \in hand
          PROVE  n \in 1..high
      <4>1. n \in sent + 1..head /\ n <= high
        BY <1>3, <3>2
      <4> QED
        BY <3>3, <4>1
    <3> QED
      BY <3>4, <3>5
  <2> QED
    BY <1>1, <1>2, <1>3, <2>1, <2>2, TypesOf, FeedTypesNext
<1>5. Idle' /\ PolledWhole' /\ BatchWhole'
  BY <1>1 DEF FeedInv, Idle, PolledWhole, BatchWhole
<1>6. Written'
  <2>1. received <= sent /\ \A e \in wire : received < e
    BY <1>1 DEF FeedInv, Written
  <2>2. \A e \in wire \cup hand : received < e
    BY <1>2, <2>1, TypesOf
  <2>3. received <= high
    BY <1>2, <1>3, <2>1, TypesOf
  <2>4. ASSUME NEW n \in log, received < n, n <= high
        PROVE  n \in wire \cup hand
    <3>1. n \in Nat /\ sent \in Nat
      BY <1>2, FeedTypes
    <3>2. CASE n <= sent
      BY <1>1, <2>4, <3>2 DEF FeedInv, Written
    <3>3. CASE sent < n
      <4>1. high \in hand
        BY <1>3, <2>4, <3>1, <3>3
      <4> QED
        BY <2>4, <3>3, <4>1 DEF FeedInv, BatchWhole
    <3> QED
      BY <3>1, <3>2, <3>3
  <2> QED
    BY <1>1, <2>2, <2>3, <2>4 DEF Written
<1>7. Covered'
  <2> SUFFICES ASSUME Replayed', NEW n \in log, high < n
               PROVE  /\ ~cut /\ n <= cursor => n \in live
                      /\ \A m \in live : n <= m => n \in live
    BY <1>1 DEF Covered
  <2>1. Replayed
    BY <1>1 DEF Replayed
  <2>2. sent < n /\ n \notin hand
    BY <1>2, <1>3, TypesOf
  <2> QED
    BY <2>1, <2>2 DEF FeedInv, Covered
<1> QED
  BY <1>4, <1>5, <1>6, <1>7 DEF FeedInv

\* The stream takes the oldest event of its channel and skips what it replayed.
LEMMA TakeInv == ASSUME FeedAssumptions, FeedInv, Take PROVE FeedInv'
<1> DEFINE e == Least(live)
<1>1. /\ phase = "live" /\ live # {} /\ live' = live \ {e}
      /\ wire' = IF e <= sent THEN wire ELSE wire \cup {e}
      /\ sent' = IF e <= sent THEN sent ELSE e
      /\ UNCHANGED <<log, head, cursor, polled, phase, cut, hand, received, mishaps>>
  BY DEF Take, WriteSSEEvent, logVars, pollerVars
<1>2. FeedTypeOK /\ hand = {}
  BY <1>1 DEF FeedInv, Idle
<1>3. e \in live /\ \A m \in live : e <= m
  BY <1>1, <1>2, FeedTypes, LeastOf
<1> HIDE DEF e
<1>4. e \in 1..cursor /\ cursor \in 0..head /\ head \in Nat /\ sent \in 0..head
  BY <1>2, <1>3, TypesOf, FeedTypes
<1>5. sent' \in 0..head /\ sent <= sent' /\ e <= sent'
  BY <1>1, <1>4
<1>6. FeedTypeOK'
  BY <1>1, <1>2, <1>4, <1>5, TypesOf, FeedTypesNext
<1>7. Idle' /\ PolledWhole' /\ BatchWhole'
  BY <1>1, <1>2 DEF FeedInv, Idle, PolledWhole, BatchWhole
<1>8. Written'
  <2>1. received <= sent /\ \A m \in wire : received < m
    BY <1>1 DEF FeedInv, Written
  <2>2. \A m \in wire' : received < m
    BY <1>1, <1>2, <1>4, <2>1, TypesOf
  <2>3. received <= sent'
    BY <1>2, <1>5, <2>1, TypesOf
  <2>4. ASSUME NEW n \in log, received < n, n <= sent'
        PROVE  n \in wire'
    <3>1. n \in Nat
      BY <1>2, FeedTypes
    <3>2. CASE n <= sent
      BY <1>1, <2>4, <3>2 DEF FeedInv, Written
    <3>3. CASE sent < n
      <4>1. sent' = e /\ wire' = wire \cup {e}
        BY <1>1, <1>4, <2>4, <3>1, <3>3
      <4>2. n \in live
        BY <1>1, <1>2, <1>3, <2>4, <3>3, <4>1 DEF FeedInv, Covered, Replayed
      <4>3. n = e
        BY <1>3, <1>4, <2>4, <3>1, <4>1, <4>2
      <4> QED
        BY <4>1, <4>3
    <3> QED
      BY <1>4, <3>1, <3>2, <3>3
  <2> QED
    BY <1>1, <2>2, <2>3, <2>4 DEF Written
<1>9. Covered'
  <2> SUFFICES ASSUME NEW n \in log, sent' < n
               PROVE  /\ ~cut /\ n <= cursor => n \in live'
                      /\ \A m \in live' : n <= m => n \in live'
    BY <1>1 DEF Covered
  <2>1. sent < n /\ n # e
    BY <1>2, <1>4, <1>5, FeedTypes
  <2> QED
    BY <1>1, <1>2, <2>1 DEF FeedInv, Covered, Replayed
<1> QED
  BY <1>6, <1>7, <1>8, <1>9 DEF FeedInv

\* The client reads what is next on the wire.
LEMMA ReceiveInv ==
    ASSUME FeedAssumptions, FeedInv, Receive
    PROVE  /\ FeedInv'
           /\ received' > received
           /\ \A n \in log : n <= received \/ n >= received'
<1> DEFINE e == Least(wire)
<1>1. /\ wire # {} /\ received' = e /\ wire' = wire \ {e}
      /\ UNCHANGED <<log, head, cursor, polled, phase, cut, live, hand, sent, mishaps>>
  BY DEF Receive, logVars, pollerVars
<1>2. FeedTypeOK /\ phase # "off"
  BY <1>1 DEF FeedInv, Idle
<1>3. e \in wire /\ \A m \in wire : e <= m
  BY <1>1, <1>2, FeedTypes, LeastOf
<1> HIDE DEF e
<1>4. e \in 1..sent /\ sent \in 0..head /\ head \in Nat /\ received \in Nat /\ received < e
  BY <1>2, <1>3, TypesOf, FeedTypes DEF FeedInv, Written
<1>5. FeedTypeOK'
  BY <1>1, <1>2, <1>4, TypesOf, FeedTypesNext
<1>6. ASSUME NEW n \in log, received < n
      PROVE  e <= n
  <2>1. n \in Nat
    BY <1>2, FeedTypes
  <2>2. CASE n <= sent
    BY <1>2, <1>3, <1>6, <2>2 DEF FeedInv, Written
  <2>3. CASE sent < n
    BY <1>4, <2>1, <2>3
  <2> QED
    BY <1>4, <2>1, <2>2, <2>3
<1>7. Written'
  <2>1. \A m \in wire' : e < m
    BY <1>1, <1>2, <1>3, <1>4, FeedTypes
  <2>2. ASSUME NEW n \in log, e < n, n <= sent
        PROVE  n \in wire'
    <3>1. n \in Nat /\ received < n /\ n # e
      BY <1>2, <1>4, <2>2, FeedTypes
    <3> QED
      BY <1>1, <1>2, <2>2, <3>1 DEF FeedInv, Written
  <2> QED
    BY <1>1, <1>4, <2>1, <2>2 DEF Written
<1>8. Idle' /\ PolledWhole' /\ BatchWhole' /\ Covered'
  BY <1>1, <1>2 DEF FeedInv, Idle, PolledWhole, BatchWhole, Covered, Replayed
<1>9. \A n \in log : n <= received \/ n >= received'
  BY <1>1, <1>2, <1>4, <1>6, FeedTypes
<1> QED
  BY <1>1, <1>4, <1>5, <1>7, <1>8, <1>9 DEF FeedInv

\* A stream that is over leaves the log and the poller as they are.
LEMMA CloseInv == ASSUME FeedAssumptions, FeedInv, Close PROVE FeedInv'
<1>1. /\ phase' = "off" /\ cut' = FALSE /\ live' = {} /\ hand' = {} /\ sent' = 0 /\ wire' = {}
      /\ UNCHANGED <<log, head, cursor, polled, received, mishaps>>
  BY DEF Close, Closed, logVars, pollerVars
<1>2. FeedTypeOK'
  <2>1. FeedTypeOK
    BY DEF FeedInv
  <2>2. cut' \in BOOLEAN
    BY <1>1, Zenon
  <2> QED
    BY <1>1, <2>1, <2>2, TypesOf, FeedTypesNext, FeedTypes
<1>3. PolledWhole'
  BY <1>1 DEF FeedInv, PolledWhole
<1>4. Idle' /\ Written' /\ BatchWhole' /\ Covered'
  BY <1>1 DEF Idle, Written, BatchWhole, Covered, Replayed
<1> QED
  BY <1>2, <1>3, <1>4 DEF FeedInv

\* A broken connection: the client keeps its place, or starts afresh.
LEMMA DisconnectInv == ASSUME FeedAssumptions, FeedInv, NEW afresh \in BOOLEAN, Disconnect(afresh) PROVE FeedInv'
<1>1. /\ phase' = "off" /\ cut' = FALSE /\ live' = {} /\ hand' = {} /\ sent' = 0 /\ wire' = {}
      /\ received' \in {received, 0} /\ mishaps < MaxFeedFaults /\ mishaps' = mishaps + 1
      /\ UNCHANGED <<log, head, cursor, polled>>
  BY DEF Disconnect, Closed, logVars, pollerVars
<1>2. FeedTypeOK'
  <2>1. FeedTypeOK
    BY DEF FeedInv
  <2>2. cut' \in BOOLEAN
    BY <1>1, Zenon
  <2>3. received' \in 0..head /\ mishaps' \in 0..MaxFeedFaults
    BY <1>1, <2>1, TypesOf, FeedTypes DEF FeedAssumptions
  <2> QED
    BY <1>1, <2>1, <2>2, <2>3, TypesOf, FeedTypesNext, FeedTypes
<1>3. PolledWhole'
  BY <1>1 DEF FeedInv, PolledWhole
<1>4. Idle' /\ Written' /\ BatchWhole' /\ Covered'
  BY <1>1 DEF Idle, Written, BatchWhole, Covered, Replayed
<1> QED
  BY <1>2, <1>3, <1>4 DEF FeedInv

\* A daemon that starts polls from the head of the log.
LEMMA RestartInv == ASSUME FeedAssumptions, FeedInv, FeedRestart PROVE FeedInv'
<1>1. /\ phase' = "off" /\ cut' = FALSE /\ live' = {} /\ hand' = {} /\ sent' = 0 /\ wire' = {}
      /\ mishaps < MaxFeedFaults /\ mishaps' = mishaps + 1
      /\ cursor' = Highest(log) /\ polled' = {}
      /\ UNCHANGED <<log, head, received>>
  BY DEF FeedRestart, Closed, logVars
<1>2. FeedTypeOK'
  <2>1. FeedTypeOK
    BY DEF FeedInv
  <2>2. cut' \in BOOLEAN
    BY <1>1, Zenon
  <2>3. mishaps' \in 0..MaxFeedFaults
    BY <1>1, <2>1, TypesOf DEF FeedAssumptions
  <2>4. cursor' \in 0..head
    <3>1. log \subseteq 0..head /\ head \in Nat
      BY <2>1, TypesOf, FeedTypes
    <3> QED
      BY <1>1, <3>1, HighestOf
  <2> QED
    BY <1>1, <2>1, <2>2, <2>3, <2>4, TypesOf, FeedTypesNext, FeedTypes
<1>3. Idle' /\ Written' /\ PolledWhole' /\ BatchWhole' /\ Covered'
  BY <1>1 DEF Idle, Written, PolledWhole, BatchWhole, Covered, Replayed
<1> QED
  BY <1>2, <1>3 DEF FeedInv

-----------------------------------------------------------------------------
\* Every step keeps the invariant.
LEMMA FeedStepInv == ASSUME FeedAssumptions, FeedInv, [FeedNext]_feedVars PROVE FeedInv'
<1>1. CASE FeedNext
  BY <1>1, CommitInv, DeleteSessionInv, PollInv, PublishInv, ConnectInv, ReplayReadInv,
     ReplayWriteInv, TakeInv, CloseInv, ReceiveInv, DisconnectInv, RestartInv DEF FeedNext
<1>2. CASE UNCHANGED feedVars
  <2>1. UNCHANGED <<log, head, cursor, polled, phase, cut, live, hand, sent, wire, received, mishaps>>
    BY <1>2 DEF feedVars, logVars, pollerVars, streamVars
  <2>2. FeedTypeOK'
    BY <2>1 DEF FeedInv, FeedTypeOK
  <2> QED
    BY <2>1, <2>2 DEF FeedInv, Idle, Written, PolledWhole, BatchWhole, Covered, Replayed
<1> QED
  BY <1>1, <1>2

\* The inductive invariant holds throughout.
THEOREM FeedInvHolds == ASSUME FeedAssumptions PROVE FeedSpec => []FeedInv
<1>1. FeedInit => FeedInv
  BY FeedInitInv
<1>2. FeedInv /\ [FeedNext]_feedVars => FeedInv'
  BY FeedStepInv
<1> QED
  BY <1>1, <1>2, PTL DEF FeedSpec

\* For any batch, buffer and log, a client reads every event that is in the log
\* in order and none twice, unless it starts afresh.
THEOREM FeedInOrder == ASSUME FeedAssumptions PROVE FeedSpec => InOrder
<1> DEFINE onward == \/ received' = 0
                     \/ received' > received /\ \A n \in log : n <= received \/ n >= received'
<1>1. ASSUME FeedInv, [FeedNext]_feedVars
      PROVE  [onward]_received
  <2>1. CASE Receive
    BY <1>1, <2>1, ReceiveInv
  <2>2. ASSUME NEW afresh \in BOOLEAN, Disconnect(afresh)
        PROVE  [onward]_received
    BY <2>2 DEF Disconnect
  <2>3. CASE ~Receive /\ ~\E afresh \in BOOLEAN : Disconnect(afresh)
    <3>1. UNCHANGED received
      BY <1>1, <2>3
      DEF FeedNext, feedVars, Commit, DeleteSession, Poll, Publish, Connect, ReplayRead, ReplayWrite,
          Take, Close, FeedRestart
    <3> QED
      BY <3>1
  <2> QED
    BY <2>1, <2>2, <2>3
<1>2. InOrder <=> [][onward]_received
  BY DEF InOrder
<1> HIDE DEF onward
<1> QED
  BY <1>1, <1>2, FeedInvHolds, PTL DEF FeedSpec

-----------------------------------------------------------------------------
(***************************************************************************)
(* The reactions.  What was nudged for last is in the memory or, before    *)
(* the memory is loaded, in the row; what is in either was told; and a     *)
(* pass has dealt with every condition that is not left in its queue.      *)
(***************************************************************************)

\* The bounds are numbers.
ReactionAssumptions == MaxVersions \in Nat /\ MaxChanges \in Nat /\ MaxReactionFaults \in Nat

PassRecord == [at : {"off", "fetched", "nudging", "persist"}, facts : [Parts -> Numbers],
               todo : SUBSET Kinds, broken : BOOLEAN]
MemoryRecord == [loaded : BOOLEAN, seen : [Kinds -> Numbers], attempts : [Kinds -> Nat]]
SavedRecord == [seen : [Kinds -> Numbers], attempts : [Kinds -> Nat]]

\* What the next pass of sendOnce compares with.
SeenNow == IF memory.loaded THEN memory.seen ELSE saved.seen
Dealt == told \cup spared \cup missed

\* Only conditions that stand are queued.
Queued == pass.todo \subseteq Standing(pass.facts)

\* A record is written after its nudge.
Sending ==
    pass.at = "persist" =>
        pass.todo # {} /\ memory.loaded /\ <<Kind, Signature>> \in told

\* The last nudge of a kind is on record, unless its record is lost.
Remembered == \A kind \in Kinds \ forgot : latest[kind] # 0 => SeenNow[kind] = latest[kind]

\* What is on record was told.
OnRecord ==
    \A kind \in Kinds :
        /\ memory.seen[kind] # 0 => <<kind, memory.seen[kind]>> \in told
        /\ saved.seen[kind] # 0 => <<kind, saved.seen[kind]>> \in told

\* A pass that will acknowledge has dealt with what it does not queue.
DealtWith ==
    pass.at \in {"nudging", "persist"} /\ ~pass.broken =>
        Of(pass.facts, Standing(pass.facts) \ pass.todo) \subseteq Dealt

ReactionInv ==
    /\ ReactionTypeOK /\ Queued /\ Sending
    /\ Remembered /\ OnRecord /\ DealtWith
    /\ ToldOnce /\ AcknowledgedWasHandled

-----------------------------------------------------------------------------
\* The type invariant, by the records it is made of.
LEMMA ReactionTypes ==
    ReactionTypeOK <=> /\ pr \in [Parts -> Numbers] /\ acked \in [Parts -> Numbers]
               /\ changes \in 0..MaxChanges /\ slips \in 0..MaxReactionFaults
               /\ stacked \in BOOLEAN /\ agent \in {"workable", "waits", "terminated"}
               /\ pass \in PassRecord /\ memory \in MemoryRecord /\ saved \in SavedRecord
               /\ told \cup missed \cup spared \subseteq Kinds \X (Numbers \ {0})
               /\ latest \in [Kinds -> Numbers] /\ forgot \subseteq Kinds
               /\ repeated \in BOOLEAN
  BY DEF ReactionTypeOK, PassRecord, MemoryRecord, SavedRecord

\* The same of the next state.
LEMMA ReactionTypesNext ==
    ReactionTypeOK' <=> /\ pr' \in [Parts -> Numbers] /\ acked' \in [Parts -> Numbers]
                /\ changes' \in 0..MaxChanges /\ slips' \in 0..MaxReactionFaults
                /\ stacked' \in BOOLEAN /\ agent' \in {"workable", "waits", "terminated"}
                /\ pass' \in PassRecord /\ memory' \in MemoryRecord /\ saved' \in SavedRecord
                /\ told' \cup missed' \cup spared' \subseteq Kinds \X (Numbers \ {0})
                /\ latest' \in [Kinds -> Numbers] /\ forgot' \subseteq Kinds
                /\ repeated' \in BOOLEAN
  BY DEF ReactionTypeOK, PassRecord, MemoryRecord, SavedRecord

\* Zero is a number, and a slip more is counted while there is room.
LEMMA Counting ==
    ASSUME ReactionAssumptions
    PROVE  /\ 0 \in Numbers /\ 0..MaxVersions \subseteq Numbers /\ {0, 1} \subseteq Numbers
           /\ \A n \in 0..MaxReactionFaults : n < MaxReactionFaults => n + 1 \in 0..MaxReactionFaults
           /\ \A n \in 0..MaxChanges : n < MaxChanges => n + 1 \in 0..MaxChanges
           /\ 0 \in 0..MaxReactionFaults /\ 0 \in 0..MaxChanges
  BY DEF ReactionAssumptions, Numbers

\* The pass at rest is a pass that queues nothing.
LEMMA OffIsPass ==
    ASSUME ReactionAssumptions
    PROVE  Off \in PassRecord /\ Off.at = "off" /\ Off.todo = {}
  BY Counting DEF Off, PassRecord, Nothing, Parts

\* The kind a turn is about is queued, and its signature stands for something.
LEMMA TurnOf ==
    ASSUME ReactionTypeOK, Queued, pass.todo # {}
    PROVE  /\ Kind \in pass.todo /\ Kind \in Kinds
           /\ Signature = pass.facts[Kind] /\ Signature \in Numbers \ {0}
<1>1. pass.todo \subseteq Kinds /\ pass.facts \in [Parts -> Numbers]
  BY ReactionTypes DEF PassRecord
<1>2. Kind \in pass.todo
  BY <1>1 DEF Kind, First, Kinds
<1>3. Kind \in Kinds /\ Kind \in Parts
  BY <1>1, <1>2 DEF Parts
<1>4. pass.facts[Kind] # 0
  BY <1>2 DEF Queued, Standing
<1> QED
  BY <1>1, <1>2, <1>3, <1>4 DEF Signature

\* Loading keeps what counts.
LEMMA Loading ==
    ASSUME ReactionTypeOK
    PROVE  /\ LoadPRSignatures \in MemoryRecord
           /\ LoadPRSignatures.loaded
           /\ LoadPRSignatures.seen = SeenNow
<1>1. memory \in MemoryRecord /\ saved \in SavedRecord
  BY ReactionTypes
<1>2. CASE memory.loaded
  BY <1>1, <1>2 DEF LoadPRSignatures, SeenNow, MemoryRecord
<1>3. CASE ~memory.loaded
  <2> DEFINE r == [loaded |-> TRUE, seen |-> saved.seen, attempts |-> saved.attempts]
  <2>1. r \in MemoryRecord /\ r.loaded /\ r.seen = saved.seen
    BY <1>1 DEF MemoryRecord, SavedRecord
  <2>2. LoadPRSignatures = r
    BY <1>3 DEF LoadPRSignatures
  <2> QED
    BY <1>3, <2>1, <2>2 DEF SeenNow
<1> QED
  BY <1>2, <1>3

\* What would be compared with was told.
LEMMA SeenWasTold ==
    ASSUME OnRecord, NEW kind \in Kinds, SeenNow[kind] # 0
    PROVE  <<kind, SeenNow[kind]>> \in told
  BY DEF OnRecord, SeenNow

\* The initial states.
LEMMA ReactionInitInv == ASSUME ReactionAssumptions PROVE ReactionInit => ReactionInv
<1> SUFFICES ASSUME ReactionInit PROVE ReactionInv
  OBVIOUS
<1>1. /\ pr = Nothing /\ acked = Nothing /\ changes = 0 /\ slips = 0 /\ stacked \in BOOLEAN
      /\ agent = "workable" /\ pass = Off /\ memory = Forgetful
      /\ saved = [seen |-> None, attempts |-> None]
      /\ told = {} /\ missed = {} /\ spared = {} /\ latest = None /\ forgot = {}
      /\ repeated = FALSE
  BY DEF ReactionInit
<1>2. Nothing \in [Parts -> Numbers] /\ None \in [Kinds -> Numbers] /\ None \in [Kinds -> Nat]
  BY Counting DEF Nothing, None
<1>3. memory \in MemoryRecord /\ saved \in SavedRecord
  BY <1>1, <1>2 DEF Forgetful, MemoryRecord, SavedRecord
<1>4. memory.seen = None /\ saved.seen = None
  BY <1>1 DEF Forgetful
<1>5. ReactionTypeOK
  BY <1>1, <1>2, <1>3, ReactionTypes, OffIsPass, Counting
<1>6. Queued /\ Sending /\ DealtWith
  BY <1>1, OffIsPass DEF Queued, Sending, DealtWith
<1>7. Remembered /\ OnRecord
  BY <1>1, <1>4 DEF Remembered, OnRecord, None
<1>8. ToldOnce /\ AcknowledgedWasHandled
  BY <1>1 DEF ToldOnce, AcknowledgedWasHandled, Of, Standing, Nothing, Parts
<1> QED
  BY <1>5, <1>6, <1>7, <1>8 DEF ReactionInv

\* Steps of the provider and of the session touch no record.
LEMMA WorldInv ==
    ASSUME ReactionAssumptions, ReactionInv,
           \/ \E part \in Parts : \E value \in Values(part) : Change(part, value)
           \/ ParentMerges
           \/ \E next \in {"workable", "waits", "terminated"} : SettleTurn(next)
    PROVE  ReactionInv'
<1>1. ReactionTypeOK
  BY DEF ReactionInv
<1>2. UNCHANGED <<acked, pass, memory, saved, slips, ghosts>>
  BY DEF Change, ParentMerges, SettleTurn
<1>3. /\ pr' \in [Parts -> Numbers] /\ changes' \in 0..MaxChanges
      /\ stacked' \in BOOLEAN /\ agent' \in {"workable", "waits", "terminated"}
  <2>1. ASSUME NEW part \in Parts, NEW value \in Values(part), Change(part, value)
        PROVE  <1>3
    <3>1. value \in Numbers
      BY Counting DEF Values
    <3>2. changes' = changes + 1 /\ changes < MaxChanges
      BY <2>1 DEF Change
    <3>3. changes' \in 0..MaxChanges
      BY <1>1, <3>2, ReactionTypes, Counting
    <3> QED
      BY <1>1, <2>1, <3>1, <3>3, ReactionTypes DEF Change
  <2>2. CASE ParentMerges
    BY <1>1, <2>2, ReactionTypes DEF ParentMerges
  <2>3. ASSUME NEW next \in {"workable", "waits", "terminated"}, SettleTurn(next)
        PROVE  <1>3
    BY <1>1, <2>3, ReactionTypes DEF SettleTurn
  <2> QED
    BY <2>1, <2>2, <2>3
<1>4. ReactionTypeOK'
  BY <1>1, <1>2, <1>3, ReactionTypes, ReactionTypesNext DEF ghosts
<1> QED
  BY <1>2, <1>4
  DEF ReactionInv, Queued, Sending, Remembered, OnRecord, DealtWith, ToldOnce,
      AcknowledgedWasHandled, SeenNow, Dealt, Kind, Signature, ghosts

\* A pass that goes to rest keeps what the records say.
LEMMA OffInv ==
    ASSUME ReactionAssumptions, ReactionInv, pass' = Off, slips' \in 0..MaxReactionFaults,
           UNCHANGED <<provider, acked, memory, saved, ghosts>>
    PROVE  ReactionInv'
<1>1. ReactionTypeOK'
  BY ReactionTypes, ReactionTypesNext, OffIsPass DEF ReactionInv, provider, ghosts
<1>2. Queued' /\ Sending' /\ DealtWith'
  BY OffIsPass DEF Queued, Sending, DealtWith
<1>3. Remembered' /\ OnRecord' /\ ToldOnce' /\ AcknowledgedWasHandled'
  BY DEF ReactionInv, Remembered, OnRecord, ToldOnce, AcknowledgedWasHandled, SeenNow, ghosts
<1> QED
  BY <1>1, <1>2, <1>3 DEF ReactionInv

\* A pass given up, before or after a nudge.
LEMMA GivenUpInv == ASSUME ReactionAssumptions, ReactionInv, Abandon \/ PersistFails PROVE ReactionInv'
<1>1. slips' = slips + 1 /\ slips < MaxReactionFaults
  BY DEF Abandon, PersistFails
<1>2. slips' \in 0..MaxReactionFaults
  BY <1>1, ReactionTypes, Counting DEF ReactionInv
<1> QED
  BY <1>2, OffInv DEF Abandon, PersistFails

\* A fetched observation leaves the hashes as they are.
LEMMA FetchInv == ASSUME ReactionAssumptions, ReactionInv, Fetch PROVE ReactionInv'
<1>1. /\ UNCHANGED <<provider, memory, saved, slips, ghosts>>
      /\ acked' = acked
      /\ pass' = [Off EXCEPT !.at = "fetched", !.facts = pr]
  BY DEF Fetch, Pending
<1>2. pass' \in PassRecord /\ pass'.at = "fetched" /\ pass'.todo = {}
  BY <1>1, OffIsPass, ReactionTypes DEF ReactionInv, PassRecord, Off
<1>3. ReactionTypeOK'
  BY <1>1, <1>2, ReactionTypes, ReactionTypesNext DEF ReactionInv, provider, ghosts
<1>4. Queued' /\ Sending' /\ DealtWith'
  BY <1>2 DEF Queued, Sending, DealtWith
<1>5. Remembered' /\ OnRecord' /\ ToldOnce' /\ AcknowledgedWasHandled'
  BY <1>1 DEF ReactionInv, Remembered, OnRecord, ToldOnce, AcknowledgedWasHandled, SeenNow, ghosts
<1> QED
  BY <1>3, <1>4, <1>5 DEF ReactionInv

\* What stands is queued, left to the parent or missed; a conflict that could
\* not be judged breaks the pass.
LEMMA EnterInv == ASSUME ReactionAssumptions, ReactionInv, NEW readable \in BOOLEAN, Enter(readable) PROVE ReactionInv'
<1> DEFINE asked == Standing(pass.facts)
           left == {kind \in asked : kind = "conflict" /\ (stacked \/ ~readable)}
<1>1. ReactionTypeOK /\ pass \in PassRecord /\ pass.at = "fetched"
  BY ReactionTypes DEF ReactionInv, Enter
<1>2. UNCHANGED <<provider, acked, memory, saved, told, latest, forgot, repeated>>
  BY DEF Enter
<1>3. asked \subseteq Kinds /\ Of(pass.facts, asked) \subseteq Kinds \X (Numbers \ {0})
  BY <1>1 DEF Standing, Of, PassRecord, Parts
<1>4. slips' \in 0..MaxReactionFaults
  BY <1>1, ReactionTypes, Counting DEF Enter
<1>5. /\ pass' \in PassRecord /\ pass'.at = "nudging" /\ pass'.facts = pass.facts
      /\ pass'.todo \subseteq asked
      /\ told' = told /\ spared \subseteq spared' /\ missed \subseteq missed'
      /\ spared' \subseteq spared \cup Of(pass.facts, asked)
      /\ missed' \subseteq missed \cup Of(pass.facts, asked)
      /\ ~pass'.broken => Of(pass.facts, asked \ pass'.todo) \subseteq spared' \cup missed'
  <2>1. CASE agent = "workable"
    <3>1. /\ pass' = [pass EXCEPT !.at = "nudging", !.broken = ~readable, !.todo = asked \ left]
          /\ spared' = spared \cup (IF readable THEN Of(pass.facts, left) ELSE {})
          /\ missed' = missed
      BY <2>1 DEF Enter
    <3>2. /\ pass' \in PassRecord /\ pass'.at = "nudging" /\ pass'.facts = pass.facts
          /\ pass'.todo = asked \ left /\ pass'.broken = ~readable
      BY <1>1, <1>3, <3>1 DEF PassRecord
    <3>3. asked \ (asked \ left) = left /\ left \subseteq asked
      OBVIOUS
    <3> HIDE DEF asked, left
    <3>4. Of(pass.facts, left) \subseteq Of(pass.facts, asked)
      BY <3>3 DEF Of
    <3> QED
      BY <1>2, <3>1, <3>2, <3>3, <3>4
  <2>2. CASE agent # "workable"
    <3>1. /\ pass' = [pass EXCEPT !.at = "nudging"]
          /\ missed' = missed \cup Of(pass.facts, asked)
          /\ spared' = spared
      BY <2>2 DEF Enter
    <3>2. /\ pass' \in PassRecord /\ pass'.at = "nudging" /\ pass'.facts = pass.facts
          /\ pass'.todo = pass.todo
      BY <1>1, <3>1 DEF PassRecord
    <3>3. pass.todo \subseteq asked
      BY DEF ReactionInv, Queued
    <3> HIDE DEF asked
    <3>4. Of(pass.facts, asked \ pass.todo) \subseteq Of(pass.facts, asked)
      BY DEF Of
    <3> QED
      BY <1>2, <3>1, <3>2, <3>3, <3>4
  <2> QED
    BY <2>1, <2>2
<1> HIDE DEF left
<1>6. ReactionTypeOK'
  <2>1. told' \cup missed' \cup spared' \subseteq Kinds \X (Numbers \ {0})
    BY <1>1, <1>3, <1>5, ReactionTypes
  <2> HIDE DEF asked
  <2> QED
    BY <1>1, <1>2, <1>4, <1>5, <2>1, ReactionTypes, ReactionTypesNext DEF provider
<1>7. Queued' /\ Sending' /\ DealtWith'
  BY <1>5 DEF Queued, Sending, DealtWith, Dealt
<1>8. Remembered' /\ OnRecord' /\ ToldOnce' /\ AcknowledgedWasHandled'
  BY <1>2, <1>5 DEF ReactionInv, Remembered, OnRecord, ToldOnce, AcknowledgedWasHandled, SeenNow
<1> QED
  BY <1>6, <1>7, <1>8 DEF ReactionInv

\* Only a pass that dealt with everything is acknowledged.
LEMMA AcknowledgeInv == ASSUME ReactionAssumptions, ReactionInv, Acknowledge PROVE ReactionInv'
<1>1. /\ UNCHANGED <<provider, memory, saved, slips, ghosts>>
      /\ pass' = Off /\ pass.at = "nudging" /\ pass.todo = {}
      /\ acked' = IF pass.broken THEN acked ELSE pass.facts
  BY DEF Acknowledge
<1>2. ReactionTypeOK /\ pass \in PassRecord
  BY ReactionTypes DEF ReactionInv
<1>3. ReactionTypeOK'
  BY <1>1, <1>2, ReactionTypes, ReactionTypesNext, OffIsPass DEF provider, ghosts, PassRecord
<1>4. Queued' /\ Sending' /\ DealtWith'
  BY <1>1, OffIsPass DEF Queued, Sending, DealtWith
<1>5. Remembered' /\ OnRecord' /\ ToldOnce'
  BY <1>1 DEF ReactionInv, Remembered, OnRecord, ToldOnce, SeenNow, ghosts
<1>6. AcknowledgedWasHandled'
  <2>1. CASE pass.broken
    BY <1>1, <2>1 DEF ReactionInv, AcknowledgedWasHandled, ghosts
  <2>2. CASE ~pass.broken
    <3>1. Of(pass.facts, Standing(pass.facts) \ pass.todo) \subseteq Dealt
      BY <1>1, <2>2 DEF ReactionInv, DealtWith
    <3>2. Standing(pass.facts) \ pass.todo = Standing(pass.facts)
      BY <1>1
    <3> QED
      BY <1>1, <2>2, <3>1, <3>2 DEF AcknowledgedWasHandled, Dealt, ghosts
  <2> QED
    BY <2>1, <2>2
<1> QED
  BY <1>3, <1>4, <1>5, <1>6 DEF ReactionInv

\* What holds while a pass has a nudge at hand.
LEMMA AtTurn ==
    ASSUME ReactionInv, Turn
    PROVE  /\ ReactionTypeOK /\ pass \in PassRecord /\ pass.todo # {}
           /\ Kind \in pass.todo /\ Kind \in Kinds
           /\ Signature = pass.facts[Kind] /\ Signature \in Numbers \ {0}
           /\ LoadPRSignatures \in MemoryRecord /\ LoadPRSignatures.loaded
           /\ LoadPRSignatures.seen = SeenNow
           /\ ~pass.broken =>
                Of(pass.facts, Standing(pass.facts) \ pass.todo) \subseteq Dealt
<1>1. ReactionTypeOK /\ Queued /\ DealtWith
  BY DEF ReactionInv
<1>2. pass.todo # {} /\ pass.at = "nudging"
  BY DEF Turn
<1> QED
  BY <1>1, <1>2, ReactionTypes, TurnOf, Loading DEF DealtWith

\* A loaded memory holds what the records held.
LEMMA LoadedInv ==
    ASSUME ReactionInv, memory' = LoadPRSignatures, UNCHANGED <<saved, told, latest, forgot, repeated>>
    PROVE  memory' \in MemoryRecord /\ Remembered' /\ OnRecord' /\ ToldOnce'
<1>1. /\ memory' \in MemoryRecord /\ memory'.loaded /\ memory'.seen = SeenNow
      /\ SeenNow' = SeenNow
  BY Loading DEF ReactionInv, SeenNow
<1>2. Remembered'
  BY <1>1 DEF ReactionInv, Remembered
<1>3. OnRecord'
  BY <1>1, SeenWasTold DEF ReactionInv, OnRecord
<1> QED
  BY <1>1, <1>2, <1>3 DEF ReactionInv, ToldOnce

\* Taking a kind that was dealt with off the queue.
LEMMA Crossed ==
    ASSUME NEW facts, NEW todo, NEW kind, NEW dealt,
           Of(facts, Standing(facts) \ todo) \subseteq dealt, <<kind, facts[kind]>> \in dealt
    PROVE  Of(facts, Standing(facts) \ (todo \ {kind})) \subseteq dealt
  BY DEF Of

\* A nudge that is passed over was told before, is over the budget, or finds
\* an agent that cannot take it.
LEMMA PassOverInv == ASSUME ReactionAssumptions, ReactionInv, PassOver PROVE ReactionInv'
<1>1. /\ memory' = LoadPRSignatures
      /\ pass' = [pass EXCEPT !.todo = pass.todo \ {Kind}]
      /\ spared' = IF ~Known /\ Spent THEN spared \cup {<<Kind, Signature>>} ELSE spared
      /\ missed' = IF Known \/ Spent THEN missed ELSE missed \cup {<<Kind, Signature>>}
      /\ UNCHANGED <<provider, acked, saved, slips, told, latest, forgot, repeated>>
      /\ Turn
  BY DEF PassOver
<1>2. ReactionTypeOK /\ pass \in PassRecord /\ Kind \in Kinds
  BY <1>1, AtTurn
<1> DEFINE left == pass.todo \ {Kind}
           dealt == told' \cup spared' \cup missed'
<1>3. /\ pass' \in PassRecord /\ pass'.at = pass.at /\ pass'.facts = pass.facts
      /\ pass'.todo = left /\ pass'.broken = pass.broken /\ pass.at = "nudging"
  BY <1>1, <1>2 DEF PassRecord, Turn
<1>4. <<Kind, Signature>> \in dealt
  <2>1. CASE Known
    <3>1. SeenNow[Kind] = Signature /\ Signature # 0
      BY <1>1, <2>1, AtTurn DEF Known
    <3> QED
      BY <1>1, <1>2, <3>1, SeenWasTold DEF ReactionInv
  <2>2. CASE ~Known
    BY <1>1, <2>2
  <2> QED
    BY <2>1, <2>2
<1>5. <<Kind, Signature>> \in Kinds \X (Numbers \ {0})
  BY <1>1, AtTurn
<1>6. ReactionTypeOK'
  <2>1. told' \cup missed' \cup spared' \subseteq Kinds \X (Numbers \ {0})
    BY <1>1, <1>2, <1>5, ReactionTypes
  <2>2. memory' \in MemoryRecord
    BY <1>1, AtTurn
  <2> HIDE DEF left, dealt
  <2> QED
    BY <1>1, <1>2, <1>3, <2>1, <2>2, ReactionTypes, ReactionTypesNext DEF provider
<1>7. Queued' /\ Sending'
  BY <1>3 DEF ReactionInv, Queued, Sending
<1>8. DealtWith'
  <2>1. ASSUME ~pass.broken
        PROVE  Of(pass.facts, Standing(pass.facts) \ left) \subseteq dealt
    <3>1. Of(pass.facts, Standing(pass.facts) \ pass.todo) \subseteq dealt
      BY <1>1, <2>1, AtTurn DEF Dealt
    <3>2. Signature = pass.facts[Kind]
      BY <1>1, AtTurn
    <3> HIDE DEF dealt
    <3> QED
      BY <1>4, <3>1, <3>2, Crossed
  <2> QED
    BY <1>3, <2>1 DEF DealtWith, Dealt
<1>9. Remembered' /\ OnRecord' /\ ToldOnce'
  BY <1>1, LoadedInv
<1>10. AcknowledgedWasHandled'
  BY <1>1 DEF ReactionInv, AcknowledgedWasHandled
<1> QED
  BY <1>6, <1>7, <1>8, <1>9, <1>10 DEF ReactionInv

\* A nudge repeats the one before it only when no record of that one is read.
LEMMA DeliveredIsNew ==
    ASSUME ReactionInv, Turn, ~Known, Delivered
    PROVE  /\ told' = told \cup {<<Kind, Signature>>}
           /\ latest' = [latest EXCEPT ![Kind] = Signature]
           /\ repeated' = FALSE
           /\ told' \subseteq Kinds \X (Numbers \ {0})
           /\ latest' \in [Kinds -> Numbers]
<1>1. ReactionTypeOK /\ Kind \in Kinds /\ Signature \in Numbers \ {0} /\ LoadPRSignatures.seen = SeenNow
  BY AtTurn
<1>2. ~(latest[Kind] = Signature /\ Kind \notin forgot)
  BY <1>1 DEF ReactionInv, Remembered, Known
<1>3. repeated' = FALSE
  BY <1>2 DEF ReactionInv, ToldOnce, Delivered
<1> QED
  BY <1>1, <1>3, ReactionTypes DEF Delivered

\* A nudge is put in the memory before anything can fail.
LEMMA NudgeInv == ASSUME ReactionAssumptions, ReactionInv, Nudge PROVE ReactionInv'
<1>1. /\ Turn /\ ~Known /\ Delivered
      /\ pass' = [pass EXCEPT !.at = "persist"]
      /\ forgot' = forgot \ {Kind}
      /\ UNCHANGED <<provider, acked, saved, slips, missed, spared>>
      /\ memory' = [LoadPRSignatures EXCEPT !.seen[Kind] = Signature,
                         !.attempts[Kind] = LoadPRSignatures.attempts[Kind] + 1]
  BY DEF Nudge
<1>2. /\ ReactionTypeOK /\ pass \in PassRecord /\ Kind \in Kinds /\ Signature \in Numbers \ {0}
      /\ pass.todo # {} /\ Signature = pass.facts[Kind]
      /\ LoadPRSignatures \in MemoryRecord /\ LoadPRSignatures.loaded
      /\ LoadPRSignatures.seen = SeenNow
  BY <1>1, AtTurn
<1>3. /\ told' = told \cup {<<Kind, Signature>>} /\ repeated' = FALSE
      /\ latest' = [latest EXCEPT ![Kind] = Signature] /\ latest' \in [Kinds -> Numbers]
      /\ told' \subseteq Kinds \X (Numbers \ {0})
  BY <1>1, DeliveredIsNew
<1>4. /\ memory' \in MemoryRecord /\ memory'.loaded
      /\ memory'.seen = [SeenNow EXCEPT ![Kind] = Signature]
  <2> DEFINE m == LoadPRSignatures
             seen == [m.seen EXCEPT ![Kind] = Signature]
             attempts == [m.attempts EXCEPT ![Kind] = m.attempts[Kind] + 1]
             r == [loaded |-> TRUE, seen |-> seen, attempts |-> attempts]
  <2>1. m.seen \in [Kinds -> Numbers] /\ m.attempts \in [Kinds -> Nat]
    BY <1>2 DEF MemoryRecord
  <2>2. seen \in [Kinds -> Numbers]
    BY <1>2, <2>1
  <2>3. attempts \in [Kinds -> Nat]
    BY <1>2, <2>1
  <2>4. r \in MemoryRecord /\ r.loaded /\ r.seen = seen
    BY <2>2, <2>3 DEF MemoryRecord
  <2>5. m = [loaded |-> m.loaded, seen |-> m.seen, attempts |-> m.attempts]
    BY <1>2 DEF MemoryRecord
  <2>6. memory' = [loaded |-> m.loaded, seen |-> seen, attempts |-> attempts]
    BY <1>1, <2>5, Zenon
  <2>7. m.loaded = TRUE
    BY <1>2 DEF MemoryRecord
  <2> HIDE DEF m, seen, attempts
  <2>8. memory' = r
    BY <2>6, <2>7
  <2> HIDE DEF r
  <2> QED
    BY <1>2, <2>4, <2>8 DEF seen, m
<1>5. /\ pass' \in PassRecord /\ pass'.at = "persist" /\ pass'.facts = pass.facts
      /\ pass'.todo = pass.todo /\ pass'.broken = pass.broken /\ pass.at = "nudging"
  BY <1>1, <1>2 DEF PassRecord, Turn
<1>6. Kind' = Kind /\ Signature' = Signature
  BY <1>5 DEF Kind, Signature
<1>7. SeenNow' = [SeenNow EXCEPT ![Kind] = Signature] /\ SeenNow \in [Kinds -> Numbers]
  BY <1>2, <1>4 DEF SeenNow, MemoryRecord
<1>8. ReactionTypeOK'
  <2>1. told' \cup missed' \cup spared' \subseteq Kinds \X (Numbers \ {0})
    BY <1>1, <1>2, <1>3, ReactionTypes
  <2> QED
    BY <1>1, <1>2, <1>3, <1>4, <1>5, <2>1, ReactionTypes, ReactionTypesNext DEF provider
<1>9. Queued' /\ Sending'
  BY <1>2, <1>3, <1>4, <1>5, <1>6 DEF ReactionInv, Queued, Sending
<1>10. DealtWith'
  BY <1>1, <1>3, <1>5 DEF ReactionInv, DealtWith, Dealt
<1>11. Remembered'
  BY <1>1, <1>2, <1>3, <1>7, ReactionTypes DEF ReactionInv, Remembered
<1>12. OnRecord'
  <2>1. \A kind \in Kinds : memory'.seen[kind] # 0 => <<kind, memory'.seen[kind]>> \in told'
    BY <1>2, <1>3, <1>4, <1>7, SeenWasTold DEF ReactionInv
  <2> QED
    BY <1>1, <1>3, <2>1 DEF ReactionInv, OnRecord
<1>13. ToldOnce' /\ AcknowledgedWasHandled'
  BY <1>1, <1>3 DEF ReactionInv, ToldOnce, AcknowledgedWasHandled
<1> QED
  BY <1>8, <1>9, <1>10, <1>11, <1>12, <1>13 DEF ReactionInv

\* A message that fails is not recorded, and may have arrived.
LEMMA NudgeFailsInv ==
    ASSUME ReactionAssumptions, ReactionInv, NEW reached \in BOOLEAN, NudgeFails(reached) PROVE ReactionInv'
<1>1. /\ Turn /\ ~Known /\ memory' = LoadPRSignatures /\ pass' = Off
      /\ slips' = slips + 1 /\ slips < MaxReactionFaults
      /\ UNCHANGED <<provider, acked, saved, missed, spared>>
  BY DEF NudgeFails
<1>2. /\ ReactionTypeOK /\ Kind \in Kinds /\ Signature \in Numbers \ {0}
      /\ memory' \in MemoryRecord /\ memory'.seen = SeenNow /\ memory'.loaded
      /\ SeenNow' = SeenNow
  BY <1>1, AtTurn DEF SeenNow
<1>3. slips' \in 0..MaxReactionFaults
  BY <1>1, <1>2, ReactionTypes, Counting
<1>4. Queued' /\ Sending' /\ DealtWith'
  BY <1>1, OffIsPass DEF Queued, Sending, DealtWith
<1>5. CASE ~reached
  <2>1. UNCHANGED <<told, latest, repeated, forgot>>
    BY <1>5 DEF NudgeFails
  <2>2. ReactionTypeOK'
    BY <1>1, <1>2, <1>3, <2>1, ReactionTypes, ReactionTypesNext, OffIsPass DEF provider
  <2>3. Remembered' /\ OnRecord' /\ ToldOnce'
    BY <1>1, <2>1, LoadedInv
  <2>4. AcknowledgedWasHandled'
    BY <1>1, <2>1 DEF ReactionInv, AcknowledgedWasHandled
  <2> QED
    BY <1>4, <2>2, <2>3, <2>4 DEF ReactionInv
<1>6. CASE reached
  <2>1. Delivered /\ forgot' = forgot \cup {Kind}
    BY <1>6 DEF NudgeFails
  <2>2. /\ told' = told \cup {<<Kind, Signature>>} /\ repeated' = FALSE
        /\ latest' = [latest EXCEPT ![Kind] = Signature] /\ latest' \in [Kinds -> Numbers]
        /\ told' \subseteq Kinds \X (Numbers \ {0})
    BY <1>1, <2>1, DeliveredIsNew
  <2>3. ReactionTypeOK'
    <3>1. told' \cup missed' \cup spared' \subseteq Kinds \X (Numbers \ {0})
      BY <1>1, <1>2, <2>2, ReactionTypes
    <3> QED
      BY <1>1, <1>2, <1>3, <2>1, <2>2, <3>1, ReactionTypes, ReactionTypesNext, OffIsPass DEF provider
  <2>4. Remembered'
    BY <1>2, <2>1, <2>2, ReactionTypes DEF ReactionInv, Remembered
  <2>5. OnRecord'
    <3>1. \A kind \in Kinds : memory'.seen[kind] # 0 => <<kind, memory'.seen[kind]>> \in told'
      BY <1>2, <2>2, SeenWasTold DEF ReactionInv
    <3> QED
      BY <1>1, <2>2, <3>1 DEF ReactionInv, OnRecord
  <2>6. ToldOnce' /\ AcknowledgedWasHandled'
    BY <1>1, <2>2 DEF ReactionInv, ToldOnce, AcknowledgedWasHandled
  <2> QED
    BY <1>4, <2>3, <2>4, <2>5, <2>6 DEF ReactionInv
<1> QED
  BY <1>5, <1>6

\* The row takes over what the memory holds.
LEMMA PersistInv == ASSUME ReactionAssumptions, ReactionInv, Persist PROVE ReactionInv'
<1>1. /\ pass.at = "persist"
      /\ saved' = [seen |-> memory.seen, attempts |-> memory.attempts]
      /\ pass' = [pass EXCEPT !.at = "nudging", !.todo = pass.todo \ {Kind}]
      /\ UNCHANGED <<provider, acked, memory, slips, ghosts>>
  BY DEF Persist
<1>2. /\ ReactionTypeOK /\ pass \in PassRecord /\ memory \in MemoryRecord
      /\ pass.todo # {} /\ memory.loaded /\ <<Kind, Signature>> \in told
  BY <1>1, ReactionTypes DEF ReactionInv, Sending
<1> DEFINE left == pass.todo \ {Kind}
<1>3. /\ pass' \in PassRecord /\ pass'.at = "nudging" /\ pass'.facts = pass.facts
      /\ pass'.todo = left /\ pass'.broken = pass.broken
  BY <1>1, <1>2 DEF PassRecord
<1>4. saved' \in SavedRecord /\ saved'.seen = memory.seen /\ SeenNow' = SeenNow
  BY <1>1, <1>2 DEF SavedRecord, MemoryRecord, SeenNow
<1>5. ReactionTypeOK'
  <2> HIDE DEF left
  <2> QED
    BY <1>1, <1>2, <1>3, <1>4, ReactionTypes, ReactionTypesNext DEF provider, ghosts
<1>6. Queued' /\ Sending'
  BY <1>3 DEF ReactionInv, Queued, Sending
<1>7. DealtWith'
  <2>1. ASSUME ~pass.broken
        PROVE  Of(pass.facts, Standing(pass.facts) \ left) \subseteq Dealt
    <3>1. Of(pass.facts, Standing(pass.facts) \ pass.todo) \subseteq Dealt
      BY <1>1, <2>1 DEF ReactionInv, DealtWith
    <3>2. <<Kind, pass.facts[Kind]>> \in Dealt
      BY <1>2 DEF Dealt, Signature
    <3> QED
      BY <3>1, <3>2, Crossed
  <2> QED
    BY <1>1, <1>3, <2>1 DEF DealtWith, Dealt, ghosts
<1>8. Remembered' /\ OnRecord'
  BY <1>1, <1>4 DEF ReactionInv, Remembered, OnRecord, ghosts
<1>9. ToldOnce' /\ AcknowledgedWasHandled'
  BY <1>1 DEF ReactionInv, ToldOnce, AcknowledgedWasHandled, ghosts
<1> QED
  BY <1>5, <1>6, <1>7, <1>8, <1>9 DEF ReactionInv

\* A death of the daemon loses the records that were not written.
LEMMA CrashInv == ASSUME ReactionAssumptions, ReactionInv, ReactionCrash PROVE ReactionInv'
<1>1. /\ slips' = slips + 1 /\ slips < MaxReactionFaults
      /\ pass' = Off /\ memory' = Forgetful
      /\ forgot' = forgot \cup {kind \in Kinds :
                                   memory.loaded /\ memory.seen[kind] # saved.seen[kind]}
      /\ UNCHANGED <<provider, acked, saved, told, latest, missed, spared, repeated>>
  BY DEF ReactionCrash
<1>2. ReactionTypeOK /\ memory \in MemoryRecord
  BY ReactionTypes DEF ReactionInv
<1>3. memory' \in MemoryRecord /\ memory'.loaded = FALSE /\ memory'.seen = None
  BY <1>1, Counting DEF Forgetful, MemoryRecord, None
<1>4. SeenNow' = saved.seen
  BY <1>1, <1>3 DEF SeenNow
<1>5. slips' \in 0..MaxReactionFaults
  BY <1>1, <1>2, ReactionTypes, Counting
<1>6. ReactionTypeOK'
  BY <1>1, <1>2, <1>3, <1>5, ReactionTypes, ReactionTypesNext, OffIsPass DEF provider
<1>7. Queued' /\ Sending' /\ DealtWith'
  BY <1>1, OffIsPass DEF Queued, Sending, DealtWith
<1>8. Remembered'
  <2>1. ASSUME NEW kind \in Kinds \ forgot', latest[kind] # 0
        PROVE  saved.seen[kind] = latest[kind]
    <3>1. kind \notin forgot /\ (memory.loaded => memory.seen[kind] = saved.seen[kind])
      BY <1>1, <2>1
    <3> QED
      BY <2>1, <3>1 DEF ReactionInv, Remembered, SeenNow
  <2> QED
    BY <1>1, <1>4, <2>1 DEF Remembered
<1>9. OnRecord'
  BY <1>1, <1>3 DEF ReactionInv, OnRecord, None
<1>10. ToldOnce' /\ AcknowledgedWasHandled'
  BY <1>1 DEF ReactionInv, ToldOnce, AcknowledgedWasHandled
<1> QED
  BY <1>6, <1>7, <1>8, <1>9, <1>10 DEF ReactionInv

-----------------------------------------------------------------------------
\* Every step keeps the invariant.
LEMMA ReactionStepInv == ASSUME ReactionAssumptions, ReactionInv, [ReactionNext]_reactionVars PROVE ReactionInv'
<1>1. CASE ReactionNext
  <2>1. ASSUME Pass
        PROVE  ReactionInv'
    BY <2>1, FetchInv, EnterInv, AcknowledgeInv, PassOverInv, NudgeInv, PersistInv DEF Pass
  <2>2. ASSUME NEW reached \in BOOLEAN, NudgeFails(reached)
        PROVE  ReactionInv'
    BY <2>2, NudgeFailsInv
  <2> QED
    BY <1>1, <2>1, <2>2, WorldInv, EnterInv, GivenUpInv, CrashInv DEF ReactionNext
<1>2. CASE UNCHANGED reactionVars
  BY <1>2, ReactionTypes, ReactionTypesNext
  DEF ReactionInv, Queued, Sending, Remembered, OnRecord, DealtWith, ToldOnce, AcknowledgedWasHandled,
      SeenNow, Dealt, Kind, Signature, reactionVars, provider, ghosts
<1> QED
  BY <1>1, <1>2

\* The inductive invariant holds throughout.
THEOREM ReactionInvHolds == ASSUME ReactionAssumptions PROVE ReactionSpec => []ReactionInv
<1>1. ReactionInit => ReactionInv
  BY ReactionInitInv
<1>2. ReactionInv /\ [ReactionNext]_reactionVars => ReactionInv'
  BY ReactionStepInv
<1> QED
  BY <1>1, <1>2, PTL DEF ReactionSpec

\* No agent is nudged twice in a row for one thing while a record of the first
\* nudge is there to be read, whatever fails between message, memory and row.
THEOREM NudgedOnce == ASSUME ReactionAssumptions PROVE ReactionSpec => []ToldOnce
<1>1. ReactionInv => ToldOnce
  BY DEF ReactionInv
<1> QED
  BY <1>1, ReactionInvHolds, PTL

\* What the hashes acknowledge was handled, whatever fails and whenever the
\* daemon dies.
THEOREM NothingSlips == ASSUME ReactionAssumptions PROVE ReactionSpec => []AcknowledgedWasHandled
<1>1. ReactionInv => AcknowledgedWasHandled
  BY DEF ReactionInv
<1> QED
  BY <1>1, ReactionInvHolds, PTL

-----------------------------------------------------------------------------
(***************************************************************************)
(* The shell terminals.  A call that works holds the gate, so at most one  *)
(* does; a teardown lists while nothing is being created, so its list      *)
(* holds every terminal that runs, and each of them is crossed off only    *)
(* once it is dead, or the teardown has failed.                            *)
(***************************************************************************)

\* No request is the absence of one.
ShellAssumptions == NoCall \notin Calls /\ MaxCrashes \in Nat

CallPlaces == {"rest", "wait", "resolve", "create", "insert", "destroy", "list", "drain", "remove"}
CallKinds == {"none", "open", "close", "teardown"}
Dirs == {"none", "worktree", "root"}

CallRecord == [kind : CallKinds, at : CallPlaces, shell : SUBSET Shells, dir : Dirs,
               todo : SUBSET Shells, failed : BOOLEAN]

ShellRecord == [live : BOOLEAN, row : BOOLEAN, dir : Dirs, old : BOOLEAN]

\* The type invariant, by the kinds of record it is made of.
LEMMA ShellTypes ==
    ShellTypeOK <=> /\ gate \in Calls \cup {NoCall}
               /\ call \in [Calls -> CallRecord]
               /\ shell \in [Shells -> ShellRecord]
               /\ worktree \in BOOLEAN /\ undone \in BOOLEAN
               /\ sweep \subseteq Shells /\ untracked \subseteq Shells
               /\ crashes \in 0..MaxCrashes
  BY DEF ShellTypeOK, CallRecord, ShellRecord, CallPlaces, CallKinds, Dirs

\* A call at rest is a call.
LEMMA RestIsCall == Rest \in CallRecord
  BY DEF Rest, CallRecord, CallPlaces, CallKinds, Dirs

\* The initial state is well typed.
LEMMA InitTypes == ASSUME ShellAssumptions PROVE ShellInit => ShellTypeOK
<1> SUFFICES ASSUME ShellInit PROVE ShellTypeOK
  OBVIOUS
<1>1. call \in [Calls -> CallRecord]
  BY RestIsCall DEF ShellInit
<1>2. shell \in [Shells -> ShellRecord]
  <2> DEFINE fresh == [live |-> FALSE, row |-> FALSE, dir |-> "none", old |-> FALSE]
  <2>1. fresh \in ShellRecord
    BY DEF ShellRecord, Dirs
  <2>2. shell = [s \in Shells |-> fresh]
    BY DEF ShellInit
  <2> QED
    BY <2>1, <2>2
<1>3. /\ gate = NoCall /\ worktree = TRUE /\ sweep = {}
      /\ crashes = 0 /\ untracked = {} /\ undone = FALSE
  BY DEF ShellInit
<1>4. crashes \in 0..MaxCrashes
  BY <1>3 DEF ShellAssumptions
<1> QED
  BY <1>1, <1>2, <1>3, <1>4, ShellTypes

\* What replacing the record of one call does.
LEMMA CallStep ==
    ASSUME call \in [Calls -> CallRecord], NEW c \in Calls, NEW r \in CallRecord,
           call' = [call EXCEPT ![c] = r]
    PROVE  /\ call' \in [Calls -> CallRecord]
           /\ call'[c] = r
           /\ \A d \in Calls \ {c} : call'[d] = call[d]
  OBVIOUS

\* What replacing the record of one terminal does.
LEMMA ShellStep ==
    ASSUME shell \in [Shells -> ShellRecord], NEW s \in Shells, NEW r \in ShellRecord,
           shell' = [shell EXCEPT ![s] = r]
    PROVE  /\ shell' \in [Shells -> ShellRecord]
           /\ shell'[s] = r
           /\ \A t \in Shells \ {s} : shell'[t] = shell[t]
  OBVIOUS

\* What moving one call on does.
LEMMA AtStep ==
    ASSUME call \in [Calls -> CallRecord], NEW c \in Calls, NEW at \in CallPlaces,
           call' = [call EXCEPT ![c].at = at]
    PROVE  /\ call' \in [Calls -> CallRecord]
           /\ call'[c].at = at /\ call'[c].todo = call[c].todo /\ call'[c].failed = call[c].failed
           /\ call'[c].shell = call[c].shell
           /\ \A d \in Calls \ {c} : call'[d] = call[d]
  BY DEF CallRecord

\* destroyConfirmed: it starts nothing, touches no other terminal, and drops a
\* row, or reports death, only for a terminal that is dead or lost.
LEMMA DestroyStep ==
    ASSUME ShellTypeOK, NEW s \in Shells, NEW outcome, NEW probe, NEW stays \in BOOLEAN,
           DestroyConfirmed(s, outcome, probe, stays)
    PROVE  /\ shell' \in [Shells -> ShellRecord]
           /\ untracked' \subseteq Shells
           /\ \A t \in Shells \ {s} : shell'[t] = shell[t]
           /\ \A t \in Shells : shell'[t].live => shell[t].live
           /\ \A t \in Shells : shell'[t].dir = shell[t].dir
           /\ \A t \in Shells : t \in untracked /\ shell'[t].live => t \in untracked'
           /\ Confirmed(outcome, probe) => ~shell'[s].live \/ s \in untracked'
           /\ shell'[s].row \/ ~shell[s].row \/ ~shell'[s].live \/ s \in untracked'
<1> DEFINE r == [shell[s] EXCEPT !.live = shell[s].live /\ outcome # "gone",
                     !.row = shell[s].row /\ (~Confirmed(outcome, probe) \/ stays)]
<1>1. shell \in [Shells -> ShellRecord] /\ untracked \subseteq Shells
  BY ShellTypes
<1>2. /\ r \in ShellRecord
      /\ r.live = (shell[s].live /\ outcome # "gone")
      /\ r.row = (shell[s].row /\ (~Confirmed(outcome, probe) \/ stays))
      /\ r.dir = shell[s].dir
  BY <1>1 DEF ShellRecord
<1>3. shell' = [shell EXCEPT ![s] = r]
  BY DEF DestroyConfirmed
<1> HIDE DEF r
<1>4. /\ shell' \in [Shells -> ShellRecord] /\ shell'[s] = r
      /\ \A t \in Shells \ {s} : shell'[t] = shell[t]
  BY <1>1, <1>2, <1>3, ShellStep
<1>5. untracked' \subseteq Shells
  BY <1>1 DEF DestroyConfirmed
<1>6. \A t \in Shells : t \in untracked /\ shell'[t].live => t \in untracked'
  BY <1>1, <1>2, <1>4 DEF DestroyConfirmed
<1>7. Confirmed(outcome, probe) => ~shell'[s].live \/ s \in untracked'
  BY <1>1, <1>2, <1>4 DEF DestroyConfirmed, Confirmed, Outcomes, Probes
<1> QED
  BY <1>2, <1>4, <1>5, <1>6, <1>7

-----------------------------------------------------------------------------
\* The call has the gate.
Inside(c) == call[c].at \notin {"rest", "wait"}

\* Whoever works holds the gate.
GateHeld == \A c \in Calls : Inside(c) => gate = c

\* What runs is on the list of a teardown that may still succeed, and nothing
\* runs once it removes.
TeardownSeesAll ==
    \A c \in Calls : \A s \in Shells \ untracked :
        shell[s].live => /\ call[c].at = "drain" => call[c].failed \/ s \in call[c].todo
                         /\ call[c].at # "remove"

ShellInv == ShellTypeOK /\ GateHeld /\ TeardownSeesAll /\ ForgottenWereDead /\ ShellsRooted

\* A terminal is being created when some call is about to insert it.
LEMMA InCreating ==
    ASSUME NEW s
    PROVE  s \in Creating <=> \E c \in Calls : call[c].at = "insert" /\ s \in call[c].shell
  BY DEF Creating

\* The same of the next state.
LEMMA InCreatingNext ==
    ASSUME NEW s
    PROVE  s \in Creating' <=> \E c \in Calls : call'[c].at = "insert" /\ s \in call'[c].shell
  BY DEF Creating

\* The same of the next state.
LEMMA ShellTypesNext ==
    ShellTypeOK' <=> /\ gate' \in Calls \cup {NoCall}
                /\ call' \in [Calls -> CallRecord]
                /\ shell' \in [Shells -> ShellRecord]
                /\ worktree' \in BOOLEAN /\ undone' \in BOOLEAN
                /\ sweep' \subseteq Shells /\ untracked' \subseteq Shells
                /\ crashes' \in 0..MaxCrashes
  BY DEF ShellTypeOK, CallRecord, ShellRecord, CallPlaces, CallKinds, Dirs

\* A call that moves on where nothing happens to a terminal.
LEMMA QuietMove ==
    ASSUME ShellInv, NEW c \in Calls,
           call' \in [Calls -> CallRecord],
           \A d \in Calls \ {c} : call'[d] = call[d],
           call[c].at # "insert",
           call'[c].at = "drain" => call'[c].todo = Recorded /\ gate = c /\ call[c].at = "list",
           call'[c].at = "remove" => Drained(c),
           \/ gate' = gate /\ (Inside(c)' => gate = c)
           \/ gate' = c /\ gate = NoCall
           \/ gate' = NoCall /\ gate = c /\ ~Inside(c)',
           UNCHANGED <<shell, worktree, sweep, crashes, untracked, undone>>,
           ShellAssumptions
    PROVE  ShellInv'
<1>1. ShellTypeOK'
  BY ShellTypes, ShellTypesNext DEF ShellInv
<1>2. GateHeld'
  BY DEF ShellInv, GateHeld, Inside, ShellAssumptions
<1>3. ForgottenWereDead'
  <2> SUFFICES ASSUME NEW s \in Shells, shell[s].live, ~shell[s].row, s \notin untracked
               PROVE  s \in Creating'
    BY DEF ForgottenWereDead
  <2>1. PICK d \in Calls : call[d].at = "insert" /\ s \in call[d].shell
    BY InCreating DEF ShellInv, ForgottenWereDead
  <2> QED
    BY <2>1, InCreatingNext
<1>4. ShellsRooted'
  BY DEF ShellInv, ShellsRooted
<1>5. TeardownSeesAll'
  <2> SUFFICES ASSUME NEW d \in Calls, NEW s \in Shells, s \notin untracked, shell[s].live
               PROVE  /\ call'[d].at = "drain" => call'[d].failed \/ s \in call'[d].todo
                      /\ call'[d].at # "remove"
    BY DEF TeardownSeesAll
  <2>1. CASE d # c
    BY <2>1 DEF ShellInv, TeardownSeesAll
  <2>2. CASE d = c
    <3>1. call'[c].at # "remove"
      BY <2>2 DEF ShellInv, TeardownSeesAll, Drained
    <3>2. ASSUME call'[c].at = "drain" PROVE s \in Recorded
      <4>1. gate = c /\ call[c].at = "list"
        BY <3>2
      <4>2. \A e \in Calls : call[e].at # "insert"
        BY <4>1 DEF ShellInv, GateHeld, Inside
      <4>3. shell[s].row
        BY <4>2, InCreating DEF ShellInv, ForgottenWereDead
      <4> QED
        BY <4>3 DEF Recorded
    <3> QED
      BY <2>2, <3>1, <3>2
  <2> QED
    BY <2>1, <2>2
<1> QED
  BY <1>1, <1>2, <1>3, <1>4, <1>5 DEF ShellInv

-----------------------------------------------------------------------------
(* The actions in which nothing happens to a terminal                      *)

\* A request that arrives keeps the invariant.
LEMMA Asks ==
    ASSUME ShellAssumptions, ShellInv, NEW c \in Calls, NEW kind \in CallKinds, NEW on \in SUBSET Shells,
           Ask(c, kind, on)
    PROVE  ShellInv'
<1> DEFINE r == [Rest EXCEPT !.kind = kind, !.at = "wait", !.shell = on]
<1>1. r \in CallRecord /\ r.at = "wait"
  BY DEF Rest, CallRecord, CallPlaces, CallKinds, Dirs
<1>2. call' = [call EXCEPT ![c] = r]
  BY DEF Ask
<1> HIDE DEF r
<1>3. /\ call' \in [Calls -> CallRecord] /\ call'[c].at = "wait"
      /\ \A d \in Calls \ {c} : call'[d] = call[d]
  BY <1>1, <1>2, CallStep, ShellTypes DEF ShellInv
<1> QED
  BY <1>3, QuietMove DEF Ask, Inside

\* So does a call that ends without touching a terminal,
LEMMA Leaves ==
    ASSUME ShellAssumptions, ShellInv, NEW c \in Calls,
           call' = [call EXCEPT ![c] = Rest],
           call[c].at # "insert",
           \/ gate' = gate /\ ~Inside(c)
           \/ gate' = NoCall /\ Inside(c),
           UNCHANGED <<shell, worktree, sweep, crashes, untracked, undone>>
    PROVE  ShellInv'
<1>1. /\ call' \in [Calls -> CallRecord] /\ call'[c].at = "rest"
      /\ \A d \in Calls \ {c} : call'[d] = call[d]
  BY RestIsCall, CallStep, ShellTypes DEF ShellInv, Rest
<1>2. Inside(c) => gate = c
  BY DEF ShellInv, GateHeld
<1> QED
  BY <1>1, <1>2, QuietMove DEF Inside

\* one that gets the gate,
LEMMA Acquires ==
    ASSUME ShellAssumptions, ShellInv, NEW c \in Calls, Acquire(c)
    PROVE  ShellInv'
<1>1. FirstStep(call[c].kind) \in {"resolve", "destroy", "list"}
  BY DEF FirstStep
<1> DEFINE at == FirstStep(call[c].kind)
<1>2. at \in CallPlaces /\ call' = [call EXCEPT ![c].at = at]
  BY <1>1 DEF Acquire, CallPlaces
<1> HIDE DEF at
<1>3. /\ call' \in [Calls -> CallRecord] /\ call'[c].at = at
      /\ \A d \in Calls \ {c} : call'[d] = call[d]
  BY <1>2, AtStep, ShellTypes DEF ShellInv
<1> QED
  BY <1>1, <1>3, QuietMove DEF Acquire, at

\* one that resolves its directory,
LEMMA Resolves ==
    ASSUME ShellAssumptions, ShellInv, NEW c \in Calls, ResolveDir(c)
    PROVE  ShellInv'
<1> DEFINE r == [call[c] EXCEPT !.at = "create", !.dir = ResolvedDir]
<1>1. r \in CallRecord /\ r.at = "create"
  BY ShellTypes DEF ShellInv, ResolvedDir, CallRecord, CallPlaces, Dirs
<1>2. call' = [call EXCEPT ![c] = r]
  BY ShellTypes DEF ShellInv, ResolveDir, CallRecord
<1> HIDE DEF r
<1>3. /\ call' \in [Calls -> CallRecord] /\ call'[c].at = "create"
      /\ \A d \in Calls \ {c} : call'[d] = call[d]
  BY <1>1, <1>2, CallStep, ShellTypes DEF ShellInv
<1>4. gate = c
  BY DEF ShellInv, GateHeld, Inside, ResolveDir
<1> QED
  BY <1>3, <1>4, QuietMove DEF ResolveDir

\* a teardown that lists the terminals,
LEMMA Lists ==
    ASSUME ShellAssumptions, ShellInv, NEW c \in Calls, List(c)
    PROVE  ShellInv'
<1> DEFINE r == [call[c] EXCEPT !.at = "drain", !.todo = Recorded]
<1>1. r \in CallRecord /\ r.at = "drain" /\ r.todo = Recorded
  BY ShellTypes DEF ShellInv, Recorded, CallRecord, CallPlaces
<1>2. call' = [call EXCEPT ![c] = r]
  BY ShellTypes DEF ShellInv, List, CallRecord
<1> HIDE DEF r
<1>3. /\ call' \in [Calls -> CallRecord] /\ call'[c].at = "drain" /\ call'[c].todo = Recorded
      /\ \A d \in Calls \ {c} : call'[d] = call[d]
  BY <1>1, <1>2, CallStep, ShellTypes DEF ShellInv
<1>4. gate = c
  BY DEF ShellInv, GateHeld, Inside, List
<1> QED
  BY <1>3, <1>4, QuietMove DEF List

\* and one that has drained them.
LEMMA BeginsRemoval ==
    ASSUME ShellAssumptions, ShellInv, NEW c \in Calls, BeginRemoval(c)
    PROVE  ShellInv'
<1>1. /\ call' \in [Calls -> CallRecord] /\ call'[c].at = "remove"
      /\ \A d \in Calls \ {c} : call'[d] = call[d]
  BY AtStep, ShellTypes DEF ShellInv, BeginRemoval, CallPlaces
<1>2. gate = c
  BY DEF ShellInv, GateHeld, Inside, BeginRemoval, Drained
<1> QED
  BY <1>1, <1>2, QuietMove DEF BeginRemoval, Drained

-----------------------------------------------------------------------------
(* The actions in which a terminal ends, or its row is dropped             *)

\* No terminal starts, and a row goes only where the terminal is dead or lost.
Thins ==
    /\ \A s \in Shells : shell'[s].live => shell[s].live /\ shell'[s].dir = shell[s].dir
    /\ \A s \in Shells : shell'[s].live /\ s \in untracked => s \in untracked'
    /\ \A s \in Shells : shell'[s].live /\ ~shell'[s].row => ~shell[s].row \/ s \in untracked'

\* When terminals only end, none is forgotten and none loses its worktree.
LEMMA ThinnedStay ==
    ASSUME ShellInv, Thins, worktree' = worktree, undone' = undone,
           \A c \in Calls : call[c].at = "insert" => call'[c] = call[c]
    PROVE  ForgottenWereDead' /\ ShellsRooted'
<1>1. ForgottenWereDead'
  <2> SUFFICES ASSUME NEW s \in Shells, shell'[s].live, ~shell'[s].row, s \notin untracked'
               PROVE  s \in Creating'
    BY DEF ForgottenWereDead
  <2>1. shell[s].live /\ ~shell[s].row /\ s \notin untracked
    BY DEF Thins
  <2>2. PICK c \in Calls : call[c].at = "insert" /\ s \in call[c].shell
    BY <2>1, InCreating DEF ShellInv, ForgottenWereDead
  <2> QED
    BY <2>2, InCreatingNext
<1>2. ShellsRooted'
  BY DEF ShellInv, ShellsRooted, Thins
<1> QED
  BY <1>1, <1>2

\* A call that leaves the gate, or nobody's step, while terminals end.
LEMMA ThinnedMove ==
    ASSUME ShellInv, Thins, worktree' = worktree, undone' = undone, ShellTypeOK', GateHeld',
           \A c \in Calls : call'[c] = call[c] \/ (~Inside(c)' /\ call[c].at # "insert")
    PROVE  ShellInv'
<1>1. ForgottenWereDead' /\ ShellsRooted'
  BY ThinnedStay
<1>2. TeardownSeesAll'
  <2> SUFFICES ASSUME NEW c \in Calls, NEW s \in Shells, s \notin untracked', shell'[s].live
               PROVE  /\ call'[c].at = "drain" => call'[c].failed \/ s \in call'[c].todo
                      /\ call'[c].at # "remove"
    BY DEF TeardownSeesAll
  <2>1. shell[s].live /\ s \notin untracked
    BY DEF Thins
  <2> QED
    BY <2>1 DEF ShellInv, TeardownSeesAll, Inside
<1> QED
  BY <1>1, <1>2 DEF ShellInv

\* destroyConfirmed only ends terminals.
LEMMA DestroyThins ==
    ASSUME ShellTypeOK, NEW s \in Shells, NEW outcome, NEW probe, NEW stays \in BOOLEAN,
           DestroyConfirmed(s, outcome, probe, stays)
    PROVE  Thins
<1>1. \A t \in Shells : shell'[t].live => shell[t].live
  BY DestroyStep
<1>2. \A t \in Shells : shell'[t].dir = shell[t].dir
  BY DestroyStep
<1>3. \A t \in Shells : shell'[t].live /\ t \in untracked => t \in untracked'
  BY DestroyStep
<1>4. \A t \in Shells : shell'[t].live /\ ~shell'[t].row => ~shell[t].row \/ t \in untracked'
  BY DestroyStep
<1> QED
  BY <1>1, <1>2, <1>3, <1>4 DEF Thins

\* The close of a terminal keeps the invariant,
LEMMA Destroys ==
    ASSUME ShellAssumptions, ShellInv, NEW c \in Calls, NEW s \in Shells,
           NEW outcome, NEW probe, NEW stays \in BOOLEAN,
           Destroy(c, s, outcome, probe, stays)
    PROVE  ShellInv'
<1>1. shell' \in [Shells -> ShellRecord] /\ untracked' \subseteq Shells
  BY DestroyStep DEF ShellInv, Destroy
<1>2. /\ call' \in [Calls -> CallRecord] /\ call'[c].at = "rest"
      /\ \A d \in Calls \ {c} : call'[d] = call[d]
  BY RestIsCall, CallStep, ShellTypes DEF ShellInv, Rest, Destroy, Release
<1>3. ShellTypeOK'
  BY <1>1, <1>2, ShellTypes, ShellTypesNext DEF ShellInv, Destroy, Release
<1>4. GateHeld'
  BY <1>2 DEF ShellInv, GateHeld, Inside, Destroy
<1>5. Thins
  BY DestroyThins DEF ShellInv, Destroy
<1> QED
  BY <1>2, <1>3, <1>4, <1>5, ThinnedMove DEF Destroy, Inside

\* and so does each terminal a teardown drains,
LEMMA Drains ==
    ASSUME ShellAssumptions, ShellInv, NEW c \in Calls, NEW s \in Shells,
           NEW outcome, NEW probe, NEW stays \in BOOLEAN,
           Drain(c, s, outcome, probe, stays)
    PROVE  ShellInv'
<1> DEFINE r == [call[c] EXCEPT !.todo = call[c].todo \ {s},
                                !.failed = call[c].failed \/ ~Confirmed(outcome, probe)]
<1>1. Confirmed(outcome, probe) \in BOOLEAN
  BY DEF Confirmed
<1>2. /\ r \in CallRecord /\ r.at = call[c].at /\ r.todo = call[c].todo \ {s}
      /\ r.failed = (call[c].failed \/ ~Confirmed(outcome, probe))
  BY <1>1, ShellTypes DEF ShellInv, CallRecord
<1>3. call' = [call EXCEPT ![c] = r]
  BY DEF Drain
<1> HIDE DEF r
<1>4. /\ call' \in [Calls -> CallRecord] /\ call'[c] = r
      /\ \A d \in Calls \ {c} : call'[d] = call[d]
  BY <1>2, <1>3, CallStep, ShellTypes DEF ShellInv
<1>5. shell' \in [Shells -> ShellRecord] /\ untracked' \subseteq Shells
  BY DestroyStep DEF ShellInv, Drain
<1>6. ShellTypeOK'
  BY <1>4, <1>5, ShellTypes, ShellTypesNext DEF ShellInv, Drain
<1>7. GateHeld'
  BY <1>2, <1>4 DEF ShellInv, GateHeld, Inside, Drain
<1>8. Thins
  BY DestroyThins DEF ShellInv, Drain
<1>9. ForgottenWereDead' /\ ShellsRooted'
  BY <1>4, <1>8, ThinnedStay DEF Drain
<1>10. TeardownSeesAll'
  <2> SUFFICES ASSUME NEW d \in Calls, NEW t \in Shells, t \notin untracked', shell'[t].live
               PROVE  /\ call'[d].at = "drain" => call'[d].failed \/ t \in call'[d].todo
                      /\ call'[d].at # "remove"
    BY DEF TeardownSeesAll
  <2>1. shell[t].live /\ t \notin untracked
    BY <1>8 DEF Thins
  <2>2. t = s => ~Confirmed(outcome, probe)
    BY DestroyStep DEF ShellInv, Drain
  <2> QED
    BY <1>2, <1>4, <2>1, <2>2 DEF ShellInv, TeardownSeesAll, Drain
<1> QED
  BY <1>6, <1>7, <1>9, <1>10 DEF ShellInv

\* each that the boot reaps,
LEMMA Reaps ==
    ASSUME ShellAssumptions, ShellInv, NEW s \in Shells,
           NEW outcome, NEW probe, NEW stays \in BOOLEAN,
           Reap(s, outcome, probe, stays)
    PROVE  ShellInv'
<1>1. shell' \in [Shells -> ShellRecord] /\ untracked' \subseteq Shells
  BY DestroyStep DEF ShellInv, Reap
<1>2. sweep' \subseteq Shells
  BY ShellTypes DEF ShellInv, Reap
<1>3. ShellTypeOK'
  BY <1>1, <1>2, ShellTypes, ShellTypesNext DEF ShellInv, Reap
<1>4. GateHeld'
  BY DEF ShellInv, GateHeld, Inside, Reap
<1>5. Thins
  BY DestroyThins DEF ShellInv, Reap
<1> QED
  BY <1>3, <1>4, <1>5, ThinnedMove DEF Reap

\* each that the list prunes,
LEMMA Prunes ==
    ASSUME ShellAssumptions, ShellInv, NEW s \in Shells, Prune(s)
    PROVE  ShellInv'
<1> DEFINE r == [shell[s] EXCEPT !.row = FALSE]
<1>1. r \in ShellRecord /\ r.live = shell[s].live /\ r.dir = shell[s].dir
  BY ShellTypes DEF ShellInv, ShellRecord
<1>2. shell' = [shell EXCEPT ![s] = r]
  BY DEF Prune
<1> HIDE DEF r
<1>3. /\ shell' \in [Shells -> ShellRecord] /\ shell'[s] = r
      /\ \A t \in Shells \ {s} : shell'[t] = shell[t]
  BY <1>1, <1>2, ShellStep, ShellTypes DEF ShellInv
<1>4. ShellTypeOK'
  BY <1>3, ShellTypes, ShellTypesNext DEF ShellInv, Prune
<1>5. GateHeld'
  BY DEF ShellInv, GateHeld, Inside, Prune
<1>6. Thins
  BY <1>1, <1>3 DEF Thins, Prune
<1> QED
  BY <1>4, <1>5, <1>6, ThinnedMove DEF Prune

\* and each that exits.
LEMMA Exits ==
    ASSUME ShellAssumptions, ShellInv, NEW s \in Shells, Exit(s)
    PROVE  ShellInv'
<1> DEFINE r == [shell[s] EXCEPT !.live = FALSE]
<1>1. r \in ShellRecord /\ ~r.live
  BY ShellTypes DEF ShellInv, ShellRecord
<1>2. shell' = [shell EXCEPT ![s] = r]
  BY DEF Exit
<1> HIDE DEF r
<1>3. /\ shell' \in [Shells -> ShellRecord] /\ shell'[s] = r
      /\ \A t \in Shells \ {s} : shell'[t] = shell[t]
  BY <1>1, <1>2, ShellStep, ShellTypes DEF ShellInv
<1>4. untracked' \subseteq Shells
  BY ShellTypes DEF ShellInv, Exit
<1>5. ShellTypeOK'
  BY <1>3, <1>4, ShellTypes, ShellTypesNext DEF ShellInv, Exit
<1>6. GateHeld'
  BY DEF ShellInv, GateHeld, Inside, Exit
<1>7. Thins
  BY <1>1, <1>3 DEF Thins, Exit
<1> QED
  BY <1>5, <1>6, <1>7, ThinnedMove DEF Exit

-----------------------------------------------------------------------------
(* A terminal starts, is recorded, or loses its worktree                   *)

\* A terminal that starts is on its way to its row, in a worktree that is there.
LEMMA Creates ==
    ASSUME ShellAssumptions, ShellInv, NEW c \in Calls, NEW s \in Shells, Create(c, s)
    PROVE  ShellInv'
<1> DEFINE r == [call[c] EXCEPT !.at = "insert", !.shell = {s}]
           t == [shell[s] EXCEPT !.live = TRUE, !.dir = call[c].dir]
<1>1. r \in CallRecord /\ r.at = "insert" /\ r.shell = {s}
  BY ShellTypes DEF ShellInv, CallRecord, CallPlaces
<1>2. t \in ShellRecord /\ t.dir = call[c].dir
  BY ShellTypes DEF ShellInv, CallRecord, ShellRecord
<1>3. call' = [call EXCEPT ![c] = r]
  BY ShellTypes DEF ShellInv, Create, CallRecord
<1>4. shell' = [shell EXCEPT ![s] = t]
  BY ShellTypes DEF ShellInv, Create, ShellRecord
<1> HIDE DEF r, t
<1>5. /\ call' \in [Calls -> CallRecord] /\ call'[c] = r
      /\ \A d \in Calls \ {c} : call'[d] = call[d]
  BY <1>1, <1>3, CallStep, ShellTypes DEF ShellInv
<1>6. /\ shell' \in [Shells -> ShellRecord] /\ shell'[s] = t
      /\ \A u \in Shells \ {s} : shell'[u] = shell[u]
  BY <1>2, <1>4, ShellStep, ShellTypes DEF ShellInv
<1>7. ShellTypeOK'
  BY <1>5, <1>6, ShellTypes, ShellTypesNext DEF ShellInv, Create
<1>8. gate = c
  BY DEF ShellInv, GateHeld, Inside, Create
<1>9. GateHeld'
  BY <1>5, <1>8 DEF ShellInv, GateHeld, Inside, Create
<1>10. ForgottenWereDead'
  <2> SUFFICES ASSUME NEW u \in Shells, shell'[u].live, ~shell'[u].row, u \notin untracked
               PROVE  u \in Creating'
    BY DEF ForgottenWereDead, Create
  <2>1. CASE u = s
    BY <1>1, <1>5, <2>1, InCreatingNext
  <2>2. CASE u # s
    <3>1. PICK d \in Calls : call[d].at = "insert" /\ u \in call[d].shell
      BY <1>6, <2>2, InCreating DEF ShellInv, ForgottenWereDead
    <3>2. call'[d] = call[d]
      BY <1>5, <3>1 DEF Create
    <3> QED
      BY <3>1, <3>2, InCreatingNext
  <2> QED
    BY <2>1, <2>2
<1>11. ShellsRooted'
  BY <1>2, <1>6 DEF ShellInv, ShellsRooted, Create
<1>12. TeardownSeesAll'
  <2>1. \A d \in Calls : call'[d].at \notin {"drain", "remove"}
    BY <1>1, <1>5, <1>8 DEF ShellInv, GateHeld, Inside
  <2> QED
    BY <2>1 DEF TeardownSeesAll
<1> QED
  BY <1>7, <1>9, <1>10, <1>11, <1>12 DEF ShellInv

\* Both ends of an insert: the terminals it created are recorded, dead or lost.
LEMMA EndsInsert ==
    ASSUME ShellAssumptions, ShellInv, NEW c \in Calls, call[c].at = "insert", Release(c),
           shell' \in [Shells -> ShellRecord], untracked' \subseteq Shells,
           Thins, UNCHANGED <<worktree, sweep, crashes, undone>>,
           \A s \in call[c].shell \cap Shells :
               shell'[s].live => shell'[s].row \/ s \in untracked'
    PROVE  ShellInv'
<1>1. /\ call' \in [Calls -> CallRecord] /\ call'[c].at = "rest"
      /\ \A d \in Calls \ {c} : call'[d] = call[d]
  BY RestIsCall, CallStep, ShellTypes DEF ShellInv, Rest, Release
<1>2. ShellTypeOK'
  BY <1>1, ShellTypes, ShellTypesNext DEF ShellInv, Release
<1>3. GateHeld'
  BY <1>1 DEF ShellInv, GateHeld, Inside
<1>4. ForgottenWereDead'
  <2> SUFFICES ASSUME NEW s \in Shells, shell'[s].live, ~shell'[s].row, s \notin untracked'
               PROVE  s \in Creating'
    BY DEF ForgottenWereDead
  <2>1. shell[s].live /\ ~shell[s].row /\ s \notin untracked
    BY DEF Thins
  <2>2. PICK d \in Calls : call[d].at = "insert" /\ s \in call[d].shell
    BY <2>1, InCreating DEF ShellInv, ForgottenWereDead
  <2>3. call'[d] = call[d]
    BY <1>1, <2>2
  <2> QED
    BY <2>2, <2>3, InCreatingNext
<1>5. ShellsRooted'
  BY DEF ShellInv, ShellsRooted, Thins
<1>6. TeardownSeesAll'
  <2>1. \A d \in Calls : call'[d].at \notin {"drain", "remove"}
    BY <1>1 DEF ShellInv, GateHeld, Inside
  <2> QED
    BY <2>1 DEF TeardownSeesAll
<1> QED
  BY <1>2, <1>3, <1>4, <1>5, <1>6 DEF ShellInv

\* The insert that succeeds keeps the invariant,
LEMMA Inserts ==
    ASSUME ShellAssumptions, ShellInv, NEW c \in Calls, Insert(c)
    PROVE  ShellInv'
<1>1. \A s \in Shells :
        /\ shell'[s] \in ShellRecord
        /\ shell'[s].live = shell[s].live /\ shell'[s].dir = shell[s].dir
        /\ shell'[s].row = (shell[s].row \/ s \in call[c].shell)
  <2> TAKE s \in Shells
  <2> DEFINE r == [shell[s] EXCEPT !.row = shell[s].row \/ s \in call[c].shell]
  <2>1. /\ r \in ShellRecord /\ r.live = shell[s].live /\ r.dir = shell[s].dir
        /\ r.row = (shell[s].row \/ s \in call[c].shell)
    BY ShellTypes DEF ShellInv, ShellRecord
  <2>2. shell'[s] = r
    BY DEF Insert
  <2> QED
    BY <2>1, <2>2
<1>2. shell' \in [Shells -> ShellRecord]
  <2>1. shell' = [s \in Shells |-> shell'[s]]
    BY DEF Insert
  <2> QED
    BY <1>1, <2>1
<1>3. untracked' = untracked /\ untracked \subseteq Shells
  BY ShellTypes DEF ShellInv, Insert
<1>4. Thins
  BY <1>1, <1>3 DEF Thins
<1>5. \A s \in call[c].shell \cap Shells : shell'[s].row
  BY <1>1
<1> QED
  BY <1>2, <1>3, <1>4, <1>5, EndsInsert DEF Insert

\* and so does the one that fails.
LEMMA FailsToInsert ==
    ASSUME ShellAssumptions, ShellInv, NEW c \in Calls, NEW killed \in BOOLEAN, InsertFails(c, killed)
    PROVE  ShellInv'
<1>1. \A s \in Shells :
        /\ shell'[s] \in ShellRecord
        /\ shell'[s].live = (shell[s].live /\ ~(killed /\ s \in call[c].shell))
        /\ shell'[s].row = shell[s].row /\ shell'[s].dir = shell[s].dir
  <2> TAKE s \in Shells
  <2> DEFINE r == [shell[s] EXCEPT !.live = shell[s].live /\ ~(killed /\ s \in call[c].shell)]
  <2>1. /\ r \in ShellRecord /\ r.row = shell[s].row /\ r.dir = shell[s].dir
        /\ r.live = (shell[s].live /\ ~(killed /\ s \in call[c].shell))
    BY ShellTypes DEF ShellInv, ShellRecord
  <2>2. shell'[s] = r
    BY DEF InsertFails
  <2> QED
    BY <2>1, <2>2
<1>2. shell' \in [Shells -> ShellRecord]
  <2>1. shell' = [s \in Shells |-> shell'[s]]
    BY DEF InsertFails
  <2> QED
    BY <1>1, <2>1
<1>3. call[c].shell \subseteq Shells /\ untracked \subseteq Shells
  BY ShellTypes DEF ShellInv, CallRecord
<1>4. untracked' = untracked \cup {s \in call[c].shell : shell[s].live /\ ~killed}
  BY DEF InsertFails
<1>5. Thins
  BY <1>1, <1>4 DEF Thins
<1>6. \A s \in call[c].shell \cap Shells : shell'[s].live => s \in untracked'
  BY <1>1, <1>4
<1>7. untracked' \subseteq Shells
  BY <1>3, <1>4
<1> QED
  BY <1>2, <1>5, <1>6, <1>7, EndsInsert DEF InsertFails

\* A removal finds no terminal that runs, except the ones the daemon has lost.
LEMMA Removes ==
    ASSUME ShellAssumptions, ShellInv, NEW c \in Calls, NEW removed \in BOOLEAN, Remove(c, removed)
    PROVE  ShellInv'
<1>1. /\ call' \in [Calls -> CallRecord] /\ call'[c].at = "rest"
      /\ \A d \in Calls \ {c} : call'[d] = call[d]
  BY RestIsCall, CallStep, ShellTypes DEF ShellInv, Rest, Remove, Release
<1>2. worktree' \in BOOLEAN
  BY ShellTypes DEF ShellInv, Remove
<1>3. ShellTypeOK'
  BY <1>1, <1>2, ShellTypes, ShellTypesNext DEF ShellInv, Remove, Release
<1>4. GateHeld'
  BY <1>1 DEF ShellInv, GateHeld, Inside, Remove
<1>5. ForgottenWereDead'
  <2> SUFFICES ASSUME NEW s \in Shells, shell[s].live, ~shell[s].row, s \notin untracked
               PROVE  s \in Creating'
    BY DEF ForgottenWereDead, Remove
  <2>1. PICK d \in Calls : call[d].at = "insert" /\ s \in call[d].shell
    BY InCreating DEF ShellInv, ForgottenWereDead
  <2>2. call'[d] = call[d]
    BY <1>1, <2>1 DEF Remove
  <2> QED
    BY <2>1, <2>2, InCreatingNext
<1>6. \A s \in Shells \ untracked : ~shell[s].live
  BY DEF ShellInv, TeardownSeesAll, Remove
<1>7. ShellsRooted'
  BY <1>6 DEF ShellsRooted, Remove
<1>8. TeardownSeesAll'
  BY <1>6 DEF TeardownSeesAll, Remove
<1> QED
  BY <1>3, <1>4, <1>5, <1>7, <1>8 DEF ShellInv

\* Where only the worktree changes.
LEMMA WorktreeMoves ==
    ASSUME ShellAssumptions, ShellInv, UNCHANGED <<gate, call, shell, sweep, crashes, untracked>>,
           worktree' \in BOOLEAN, undone' \in BOOLEAN,
           worktree' \/ undone'
    PROVE  ShellInv'
<1>1. ShellTypeOK'
  BY ShellTypes, ShellTypesNext DEF ShellInv
<1>2. GateHeld' /\ TeardownSeesAll'
  BY DEF ShellInv, GateHeld, TeardownSeesAll, Inside
<1>3. ForgottenWereDead'
  BY DEF ShellInv, ForgottenWereDead, Creating
<1>4. ShellsRooted'
  BY DEF ShellsRooted
<1> QED
  BY <1>1, <1>2, <1>3, <1>4 DEF ShellInv

\* A death of the daemon leaves its terminals running, and those without a row
\* lost.
LEMMA Crashes ==
    ASSUME ShellAssumptions, ShellInv, NEW newRun \in BOOLEAN, ShellCrash(newRun)
    PROVE  ShellInv'
<1>1. \A s \in Shells :
        /\ shell'[s] \in ShellRecord
        /\ shell'[s].live = shell[s].live /\ shell'[s].row = shell[s].row
        /\ shell'[s].dir = shell[s].dir
  <2> TAKE s \in Shells
  <2> DEFINE r == [shell[s] EXCEPT !.old = shell[s].row /\ (shell[s].old \/ newRun)]
  <2>1. /\ r \in ShellRecord /\ r.live = shell[s].live /\ r.row = shell[s].row
        /\ r.dir = shell[s].dir
    BY ShellTypes DEF ShellInv, ShellRecord
  <2>2. shell'[s] = r
    BY DEF ShellCrash
  <2> QED
    BY <2>1, <2>2
<1>2. shell' \in [Shells -> ShellRecord]
  <2>1. shell' = [s \in Shells |-> shell'[s]]
    BY DEF ShellCrash
  <2> QED
    BY <1>1, <2>1
<1>3. call' \in [Calls -> CallRecord] /\ \A c \in Calls : call'[c].at = "rest"
  BY RestIsCall DEF ShellCrash, Rest
<1>4. Creating \subseteq Shells
  BY ShellTypes, InCreating DEF ShellInv, CallRecord
<1>5. untracked' = untracked \cup {s \in Creating : shell[s].live}
  BY DEF ShellCrash
<1>6. sweep' \subseteq Shells
  BY DEF ShellCrash, Recorded
<1>7. crashes' \in 0..MaxCrashes
  BY ShellTypes DEF ShellInv, ShellCrash, ShellAssumptions
<1>8. untracked' \subseteq Shells
  BY <1>4, <1>5, ShellTypes DEF ShellInv
<1>9. ShellTypeOK'
  BY <1>2, <1>3, <1>6, <1>7, <1>8, ShellTypes, ShellTypesNext DEF ShellInv, ShellCrash
<1>10. GateHeld' /\ TeardownSeesAll'
  BY <1>3 DEF GateHeld, TeardownSeesAll, Inside
<1>11. ForgottenWereDead'
  BY <1>1, <1>5 DEF ShellInv, ForgottenWereDead
<1>12. ShellsRooted'
  BY <1>1, <1>5 DEF ShellInv, ShellsRooted, ShellCrash
<1> QED
  BY <1>9, <1>10, <1>11, <1>12 DEF ShellInv

-----------------------------------------------------------------------------
\* The initial state satisfies the invariant.
LEMMA Initially == ASSUME ShellAssumptions PROVE ShellInit => ShellInv
<1> SUFFICES ASSUME ShellInit PROVE ShellInv
  OBVIOUS
<1>1. ShellTypeOK
  BY InitTypes
<1>2. \A c \in Calls : call[c].at = "rest"
  BY DEF ShellInit, Rest
<1>3. \A s \in Shells : ~shell[s].live
  BY DEF ShellInit
<1> QED
  BY <1>1, <1>2, <1>3 DEF ShellInv, GateHeld, Inside, TeardownSeesAll, ForgottenWereDead, ShellsRooted

\* Every step keeps it.
LEMMA Inductive == ASSUME ShellAssumptions PROVE ShellInv /\ [ShellNext]_shellVars => ShellInv'
<1> SUFFICES ASSUME ShellInv, [ShellNext]_shellVars PROVE ShellInv'
  OBVIOUS
<1>1. ASSUME NEW c \in Calls, OpenShellTerminal(c) PROVE ShellInv'
  BY <1>1, Asks DEF OpenShellTerminal, CallKinds
<1>2. ASSUME NEW c \in Calls, BeginSessionTeardown(c) PROVE ShellInv'
  BY <1>2, Asks DEF BeginSessionTeardown, CallKinds
<1>3. ASSUME NEW c \in Calls, NEW s \in Shells, CloseShellTerminal(c, s) PROVE ShellInv'
  BY <1>3, Asks DEF CloseShellTerminal, CallKinds
<1>4. ASSUME NEW c \in Calls, GiveUp(c) PROVE ShellInv'
  <2>1. ~Inside(c) /\ call[c].at # "insert"
    BY <1>4 DEF GiveUp, Inside
  <2>2. gate' = gate /\ call' = [call EXCEPT ![c] = Rest]
    BY <1>4 DEF GiveUp
  <2>3. UNCHANGED <<shell, worktree, sweep, crashes, untracked, undone>>
    BY <1>4 DEF GiveUp
  <2> QED
    BY <2>1, <2>2, <2>3, Leaves
<1>5. ASSUME NEW c \in Calls, Fails(c) PROVE ShellInv'
  BY <1>5, Leaves DEF Fails, Release, Inside
<1>6. ASSUME NEW c \in Calls, Refuse(c) PROVE ShellInv'
  BY <1>6, Leaves DEF Refuse, Release, Inside
<1>7. CASE Restore
  BY <1>7, WorktreeMoves, ShellTypes DEF Restore, ShellInv
<1>8. CASE RollBackSpawn
  BY <1>8, WorktreeMoves DEF RollBackSpawn
<1>9. CASE UNCHANGED shellVars
  <2>1. ShellTypeOK'
    BY <1>9, ShellTypes, ShellTypesNext DEF ShellInv, shellVars
  <2>2. GateHeld' /\ TeardownSeesAll'
    BY <1>9 DEF ShellInv, shellVars, GateHeld, TeardownSeesAll, Inside
  <2>3. ForgottenWereDead' /\ ShellsRooted'
    BY <1>9 DEF ShellInv, shellVars, ForgottenWereDead, ShellsRooted, Creating
  <2> QED
    BY <2>1, <2>2, <2>3 DEF ShellInv
<1>10. ASSUME NEW c \in Calls, NEW s \in Shells, NEW a \in Answers,
              Destroy(c, s, a[1], a[2], a[3]) \/ Drain(c, s, a[1], a[2], a[3])
       PROVE  ShellInv'
  <2>1. a[3] \in BOOLEAN
    BY DEF Answers
  <2> QED
    BY <1>10, <2>1, Destroys, Drains
<1>11. ASSUME NEW s \in Shells, NEW a \in Answers, Reap(s, a[1], a[2], a[3]) PROVE ShellInv'
  <2>1. a[3] \in BOOLEAN
    BY DEF Answers
  <2> QED
    BY <1>11, <2>1, Reaps
<1> QED
  BY <1>1, <1>2, <1>3, <1>4, <1>5, <1>6, <1>7, <1>8, <1>9, <1>10, <1>11,
     Acquires, Resolves, Creates, Inserts, FailsToInsert, Lists, BeginsRemoval, Removes,
     Prunes, Exits, Crashes DEF ShellNext

\* The invariant holds in every state of every behaviour.
THEOREM ShellInvHolds == ASSUME ShellAssumptions PROVE ShellSpec => []ShellInv
<1>1. ShellInit => ShellInv
  BY Initially
<1>2. ShellInv /\ [ShellNext]_shellVars => ShellInv'
  BY Inductive
<1> QED
  BY <1>1, <1>2, PTL DEF ShellSpec

\* No teardown removes the worktree under a terminal the daemon knows, however
\* opens, closes, lists, sweeps and deaths of the daemon interleave with it.
THEOREM ShellsStayRooted == ASSUME ShellAssumptions PROVE ShellSpec => []ShellsRooted
<1>1. ShellInv => ShellsRooted
  BY DEF ShellInv
<1> QED
  BY <1>1, ShellInvHolds, PTL

\* A terminal that runs keeps its row, unless the daemon died or failed between
\* its start and its row, or was told that it had gone.
THEOREM NoneForgotten == ASSUME ShellAssumptions PROVE ShellSpec => []ForgottenWereDead
<1>1. ShellInv => ForgottenWereDead
  BY DEF ShellInv
<1> QED
  BY <1>1, ShellInvHolds, PTL

=============================================================================
