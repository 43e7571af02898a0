---------------------------- MODULE ServicesProofs ----------------------------
(***************************************************************************)
(* What the daemon keeps of a session, for every value of the constants:   *)
(* one open question in the notifications, the reports of its supervised   *)
(* launches, and one preview server.  Each part has an inductive invariant *)
(* of its own, kept by its steps and left alone by the steps of the        *)
(* others.  The invariants of all the parts, these and those of the        *)
(* modules it extends, give the types of every part.                       *)
(***************************************************************************)
EXTENDS DesktopProofs, TrainProofs, DaemonProofs

-----------------------------------------------------------------------------
(* The notifications                                                       *)

\* A row of the notifications, as far as a question goes.
Row == [read : BOOLEAN, resolved : BOOLEAN]

\* The write that a session waits for, or has been left by.
KindNow == IF Waiting THEN "notify" ELSE "resolve"

\* Writes are numbered apart, and the youngest says how the session stands,
\* unless one was overtaken or lost.
YoungestTells ==
    /\ \A c \in calls : c.at < clock
    /\ \A c, d \in calls : c.at = d.at => c = d
    /\ ~raced /\ ~lost => \A c \in calls : (\A d \in calls : d.at <= c.at) => c.kind = KindNow

\* The invariant of the notifications.
NeedsInputInv == TypeOK /\ OneOpenRow /\ YoungestTells /\ ListTellsThePause

\* What the steps of a session owe the store: nothing, or one write that says
\* how the session then stands.
LEMMA OneWrite ==
    ASSUME NEW next \in States, NEW ended \in BOOLEAN, ~term
    PROVE  /\ Cardinality({}) = 0 /\ Cardinality({"resolve"}) = 1 /\ Cardinality({"notify"}) = 1
           /\ Resolutions(next, ended) \in {{}, {"resolve"}}
           /\ Intents(next) \in {{}, {"notify"}}
           /\ Resolutions(next, ended) = {"resolve"} <=> Waits(state) /\ ~(Waits(next) /\ ~ended)
           /\ Intents(next) = {"notify"} <=> ~Waits(state) /\ Waits(next)
  BY FS_EmptySet, FS_Singleton DEF Resolutions, Intents

\* Settling rows keeps their types, their number and what was read of them.
LEMMA Settling ==
    ASSUME rows \in Seq(Row), NEW mine
    PROVE  /\ Settle(mine) \in Seq(Row) /\ DOMAIN Settle(mine) = DOMAIN rows
           /\ \A i \in DOMAIN rows :
                /\ Settle(mine)[i].read = rows[i].read
                /\ Settle(mine)[i].resolved = (rows[i].resolved \/ i \in mine)
<1>1. DOMAIN rows = 1..Len(rows) /\ Len(rows) \in Nat /\ \A i \in 1..Len(rows) : rows[i] \in Row
  OBVIOUS
<1>2. Settle(mine) = [i \in 1..Len(rows) |-> IF i \in mine THEN [rows[i] EXCEPT !.resolved = TRUE]
                                                 ELSE rows[i]]
  BY <1>1 DEF Settle
<1>3. \A i \in 1..Len(rows) : [rows[i] EXCEPT !.resolved = TRUE] \in Row
  BY <1>1 DEF Row
<1>4. \A i \in 1..Len(rows) : Settle(mine)[i] \in Row
  BY <1>1, <1>2, <1>3
<1>5. Settle(mine) \in [1..Len(rows) -> Row]
  BY <1>2, <1>1, <1>3
<1>6. Settle(mine) \in Seq(Row) /\ DOMAIN Settle(mine) = DOMAIN rows
  BY <1>5, <1>1, IsASeq
<1> QED
  BY <1>1, <1>2, <1>6 DEF Row

\* A write of the row by the reducer: the row of the session, one write more
\* at most, and no row of the store.
LEMMA WriteStep ==
    ASSUME NeedsInputInv, ~term,
           NEW next \in States, NEW ended \in BOOLEAN, NEW kinds,
           kinds = Resolutions(next, ended) \cup (IF ended THEN {} ELSE Intents(next)),
           ended => next = "exited",
           Write(next, ended, kinds)
    PROVE  /\ state' \in States /\ term' \in BOOLEAN /\ (term' => state' = "exited")
           /\ calls' \subseteq [at : 0..clock', kind : {"notify", "resolve"}] /\ clock' \in Nat
           /\ OneOpenRow' /\ YoungestTells' /\ (muted' = muted => ListTellsThePause')
<1> DEFINE now == IF Waits(next) /\ ~ended THEN "notify" ELSE "resolve"
<1>1. KindNow' = now /\ KindNow = (IF Waits(state) THEN "notify" ELSE "resolve")
  BY DEF KindNow, Waiting, Write
<1>2. rows' = rows /\ raced' = raced /\ lost' = lost /\ clock \in Nat /\ muted' = muted
      /\ calls \subseteq [at : 0..clock, kind : {"notify", "resolve"}]
  BY DEF NeedsInputInv, TypeOK, Write
<1>3. kinds = {now} \/ (kinds = {} /\ KindNow' = KindNow)
  BY <1>1, OneWrite DEF Waits, States
<1>4. OneOpenRow'
  BY <1>2 DEF NeedsInputInv, OneOpenRow, Open
<1>5. CASE kinds = {}
  <2>1. KindNow' = KindNow
    BY <1>3, <1>5
  <2>2. calls' = calls /\ clock' = clock + 0
    BY <1>5, OneWrite DEF Write
  <2>3. YoungestTells'
    BY <2>1, <2>2, <1>2 DEF NeedsInputInv, YoungestTells
  <2>4. Waiting' <=> Waiting
    BY <2>1, <1>1 DEF KindNow
  <2>5. ASSUME muted' = muted PROVE ListTellsThePause'
    BY <2>4, <2>2, <1>2, <2>5 DEF NeedsInputInv, ListTellsThePause, Unresolved
  <2> QED
    BY <2>2, <2>3, <2>5, <1>2, <1>4 DEF Write, States
<1>6. CASE kinds = {now}
  <2> DEFINE new == [at |-> clock, kind |-> now]
  <2>1. calls' = calls \cup {new} /\ clock' = clock + 1
    <3>1. Cardinality({now}) = 1
      BY OneWrite
    <3>2. {[at |-> clock, kind |-> k] : k \in {now}} = {new}
      OBVIOUS
    <3> QED
      BY <3>1, <3>2, <1>6 DEF Write
  <2>2. \A c \in calls : c.at < clock /\ c.at \in Nat
    BY <1>2 DEF NeedsInputInv, YoungestTells
  <2>3. calls' \subseteq [at : 0..clock', kind : {"notify", "resolve"}]
    BY <2>1, <2>2, <1>2
  <2>4. YoungestTells'
    <3>1. new.at = clock /\ new.kind = KindNow'
      BY <1>1
    <3>2. \A c, d \in calls : c.at = d.at => c = d
      BY DEF NeedsInputInv, YoungestTells
    <3>3. \A c \in calls' : c = new \/ (c \in calls /\ c.at < new.at /\ c.at \in Nat)
      BY <2>1, <2>2, <3>1
    <3>4. ASSUME NEW c \in calls', \A d \in calls' : d.at <= c.at PROVE c = new
      <4>1. new.at <= c.at
        BY <2>1, <3>4
      <4> QED
        BY <4>1, <3>3, <3>1, <1>2
    <3>5. \A c \in calls' : c.at < clock'
      BY <3>3, <3>1, <2>1, <1>2
    <3>6. \A c, d \in calls' : c.at = d.at => c = d
      BY <3>2, <3>3, <3>1, <1>2
    <3> QED
      BY <3>1, <3>4, <3>5, <3>6 DEF YoungestTells
  <2>5. calls' # {}
    BY <2>1
  <2> QED
    BY <2>1, <2>3, <2>4, <2>5, <1>2, <1>4 DEF Write, States, ListTellsThePause
<1> QED
  BY <1>3, <1>5, <1>6

\* Every step of the session and of its store keeps the invariant.
LEMMA NeedsInputStep == NeedsInputInv /\ [Next]_vars => NeedsInputInv'
<1> SUFFICES ASSUME NeedsInputInv, [Next]_vars PROVE NeedsInputInv'
  OBVIOUS
<1> USE NeedsInputAssumption
<1>r. rows \in Seq(Row)
  BY DEF NeedsInputInv, TypeOK, Row
<1>t. /\ state \in States /\ term \in BOOLEAN /\ clock \in Nat /\ rows \in Seq(Row)
      /\ calls \subseteq [at : 0..clock, kind : {"notify", "resolve"}]
      /\ pauses \in 0..MaxPauses /\ dropped \in 0..MaxDropped
      /\ term => state = "exited"
      /\ raced \in BOOLEAN /\ lost \in BOOLEAN /\ muted \in BOOLEAN
      /\ DOMAIN rows = 1..Len(rows) /\ Len(rows) \in Nat
      /\ \A i \in DOMAIN rows : rows[i] \in Row
  BY <1>r, LenProperties, ElementOfSeq DEF NeedsInputInv, TypeOK
<1>1. CASE vars' = vars
  BY <1>1 DEF vars, NeedsInputInv, TypeOK, OneOpenRow, Open, YoungestTells, KindNow, Waiting,
              ListTellsThePause, Unresolved
<1>2. ASSUME NEW s \in States, ApplyActivitySignal(s) PROVE NeedsInputInv'
  <2>1. ~term /\ pauses' \in 0..MaxPauses
    BY <1>2, <1>t DEF ApplyActivitySignal
  <2>2. Write(s, FALSE, Resolutions(s, FALSE) \cup Intents(s))
    BY <1>2 DEF ApplyActivitySignal
  <2>3. muted' = muted /\ dropped' = dropped /\ rows' = rows /\ raced' = raced /\ lost' = lost
    BY <2>2 DEF Write
  <2> QED
    BY <2>1, <2>2, <2>3, <1>t, WriteStep DEF NeedsInputInv, TypeOK, Row
<1>3. CASE MarkTerminated
  <2>1. ~term /\ pauses' = pauses /\ "exited" \in States
    BY <1>3 DEF MarkTerminated, States
  <2>2. Write("exited", TRUE, Resolutions("exited", TRUE) \cup {})
    BY <1>3 DEF MarkTerminated
  <2>3. muted' = muted /\ dropped' = dropped /\ rows' = rows /\ raced' = raced /\ lost' = lost
    BY <2>2 DEF Write
  <2> QED
    BY <2>1, <2>2, <2>3, <1>t, WriteStep DEF NeedsInputInv, TypeOK, Row
<1>4. CASE MarkSpawned
  <2>1. /\ state' = "idle" /\ term' = FALSE /\ term /\ calls' = calls
        /\ clock' = clock /\ UNCHANGED <<pauses, dropped, rows, raced, lost, muted>>
    BY <1>4, <1>t, FS_EmptySet DEF MarkSpawned, Write
  <2>2. ~Waiting /\ ~Waiting' /\ "idle" \in States
    BY <2>1 DEF Waiting, Waits, States
  <2> QED
    BY <2>1, <2>2, <1>t DEF NeedsInputInv, TypeOK, Row, OneOpenRow, Open, YoungestTells, KindNow,
                            ListTellsThePause, Unresolved
<1>5. ASSUME NEW c \in calls, Taken(c)
      PROVE  /\ YoungestTells'
             /\ raced' \in BOOLEAN /\ (~raced' => ~raced)
             /\ calls' = {} /\ ~raced' /\ ~lost => c.kind = KindNow
  <2>1. calls' = calls \ {c} /\ (raced' <=> raced \/ \E older \in calls : older.at < c.at)
        /\ KindNow' = KindNow /\ clock' = clock /\ lost' = lost
    BY <1>5 DEF Taken, KindNow, Waiting
  <2>2. \A d \in calls : d.at \in Nat
    BY <1>t
  <2>3. /\ \A d \in calls : d.at < clock
        /\ \A d, e \in calls : d.at = e.at => d = e
        /\ ~raced /\ ~lost =>
             \A d \in calls : (\A e \in calls : e.at <= d.at) => d.kind = KindNow
    BY DEF NeedsInputInv, YoungestTells
  <2>4. ASSUME ~raced', ~lost, NEW d \in calls', \A e \in calls' : e.at <= d.at
        PROVE  d.kind = KindNow
    <3>1. c.at <= d.at
      BY <2>1, <2>2, <2>4
    <3>2. \A e \in calls : e.at <= d.at
      BY <3>1, <2>1, <2>4
    <3> QED
      BY <3>2, <2>1, <2>3, <2>4
  <2>5. calls' = {} /\ ~raced' /\ ~lost => c.kind = KindNow
    <3>1. calls' = {} => \A e \in calls : e.at <= c.at
      BY <2>1, <2>2
    <3> QED
      BY <3>1, <2>1, <2>3
  <2>6. raced' \in BOOLEAN
    BY <1>5, <1>t DEF Taken
  <2> QED
    BY <2>1, <2>3, <2>4, <2>5, <2>6 DEF YoungestTells
<1>6. ASSUME NEW c \in calls, Notify(c) PROVE NeedsInputInv'
  <2>1. Taken(c) /\ UNCHANGED <<state, term, clock, pauses, dropped, lost>> /\ calls' = calls \ {c}
        /\ c.kind = "notify"
    BY <1>6 DEF Notify, Taken
  <2>2. /\ YoungestTells' /\ raced' \in BOOLEAN /\ (~raced' => ~raced)
        /\ calls' = {} /\ ~raced' /\ ~lost => c.kind = KindNow
    BY <2>1, <1>5
  <2>3. Waiting' <=> Waiting
    BY <2>1 DEF Waiting
  <2>4. CASE OpenRows = {}
    <3> DEFINE new == [read |-> FALSE, resolved |-> FALSE]
    <3>1. rows' = Append(rows, new) /\ muted' = FALSE /\ new \in Row
      BY <1>6, <2>4 DEF Notify, Row
    <3>2. /\ rows' \in Seq(Row) /\ DOMAIN rows' = 1..Len(rows) + 1
          /\ rows'[Len(rows) + 1] = new
      BY <3>1, <1>t, <1>r, AppendProperties, LenProperties
    <3>3. \A i \in DOMAIN rows : ~Open(rows'[i])
      <4>1. \A i \in DOMAIN rows : rows'[i] = rows[i]
        BY <3>1, <1>t, <1>r, AppendProperties
      <4> QED
        BY <4>1, <2>4 DEF OpenRows
    <3>4. OneOpenRow'
      <4>1. \A i \in DOMAIN rows' : i \in DOMAIN rows \/ i = Len(rows) + 1
        BY <3>2, <1>t
      <4> QED
        BY <4>1, <3>3 DEF OneOpenRow
    <3>5. Len(rows) + 1 \in Unresolved'
      BY <3>2, <1>t DEF Unresolved
    <3> QED
      BY <2>1, <2>2, <2>3, <3>1, <3>2, <3>4, <3>5, <1>t
      DEF NeedsInputInv, TypeOK, ListTellsThePause, KindNow, Row
  <2>5. CASE OpenRows # {}
    <3>1. rows' = rows /\ (muted' <=> OpenRows \cap Unresolved = {}) /\ muted' \in BOOLEAN
      BY <1>6, <2>5 DEF Notify
    <3>2. muted' \/ Unresolved' # {}
      BY <3>1 DEF Unresolved
    <3>3. OneOpenRow'
      BY <3>1 DEF OneOpenRow, NeedsInputInv, Open
    <3> QED
      BY <2>1, <2>2, <2>3, <3>1, <3>2, <3>3, <1>t
      DEF NeedsInputInv, TypeOK, ListTellsThePause, KindNow, Row
  <2> QED
    BY <2>4, <2>5
<1>7. ASSUME rows' = Settle(Unresolved)
      PROVE  rows' \in Seq(Row) /\ OneOpenRow' /\ Unresolved' = {}
  <2>1. /\ rows' \in Seq(Row) /\ DOMAIN rows' = DOMAIN rows
        /\ \A i \in DOMAIN rows : rows'[i].read = rows[i].read /\ rows'[i].resolved
    <3>1. \A i \in DOMAIN rows : rows[i].resolved \/ i \in Unresolved
      BY DEF Unresolved
    <3> QED
      BY <3>1, <1>7, <1>r, Settling
  <2>2. \A i \in DOMAIN rows : Open(rows'[i]) => Open(rows[i])
    BY <2>1 DEF Open
  <2> QED
    BY <2>1, <2>2 DEF OneOpenRow, Unresolved, NeedsInputInv
<1>8. ASSUME NEW c \in calls, Resolve(c) PROVE NeedsInputInv'
  <2>1. Taken(c) /\ UNCHANGED <<state, term, clock, pauses, dropped, lost, muted>>
        /\ calls' = calls \ {c} /\ c.kind = "resolve" /\ rows' = Settle(Unresolved)
    BY <1>8 DEF Resolve, Taken
  <2>2. /\ YoungestTells' /\ raced' \in BOOLEAN /\ (~raced' => ~raced)
        /\ calls' = {} /\ ~raced' /\ ~lost => c.kind = KindNow
    BY <2>1, <1>5
  <2>3. Waiting' <=> Waiting
    BY <2>1 DEF Waiting
  <2>4. rows' \in Seq(Row) /\ OneOpenRow' /\ Unresolved' = {}
    BY <2>1, <1>7
  <2> QED
    BY <2>1, <2>2, <2>3, <2>4, <1>t DEF NeedsInputInv, TypeOK, ListTellsThePause, KindNow, Row
<1>9. ASSUME NEW c \in calls, Fail(c) PROVE NeedsInputInv'
  <2>1. /\ UNCHANGED <<state, term, clock, pauses, rows, raced, muted>>
        /\ calls' = calls \ {c} /\ lost' = TRUE /\ dropped' = dropped + 1 /\ dropped < MaxDropped
    BY <1>9 DEF Fail
  <2>2. dropped' \in 0..MaxDropped
    BY <2>1, <1>t
  <2>3. YoungestTells'
    BY <2>1 DEF YoungestTells, NeedsInputInv
  <2> QED
    BY <2>1, <2>2, <2>3, <1>t DEF NeedsInputInv, TypeOK, OneOpenRow, Open, ListTellsThePause, Row
<1>10. ASSUME NEW i \in DOMAIN rows, MarkNotificationRead(i) PROVE NeedsInputInv'
  <2>1. /\ UNCHANGED <<state, term, calls, clock, pauses, dropped, raced, lost, muted>>
        /\ rows' = [rows EXCEPT ![i] = [rows[i] EXCEPT !.read = TRUE]]
    BY <1>10 DEF MarkNotificationRead
  <2>2. [rows[i] EXCEPT !.read = TRUE] \in Row /\ i \in 1..Len(rows)
    BY <1>t DEF Row
  <2>3. /\ rows' \in Seq(Row) /\ DOMAIN rows' = DOMAIN rows
        /\ \A j \in DOMAIN rows :
             rows'[j] = IF j = i THEN [rows[i] EXCEPT !.read = TRUE] ELSE rows[j]
    BY <2>1, <2>2, <1>r, <1>t, ExceptSeq, LenProperties
  <2>4. \A j \in DOMAIN rows : rows'[j].resolved = rows[j].resolved /\ (Open(rows'[j]) => Open(rows[j]))
    BY <2>3, <1>t DEF Open, Row
  <2>5. OneOpenRow' /\ Unresolved' = Unresolved
    BY <2>3, <2>4 DEF OneOpenRow, Unresolved, NeedsInputInv
  <2>6. YoungestTells'
    BY <2>1 DEF YoungestTells, NeedsInputInv, KindNow, Waiting
  <2> QED
    BY <2>1, <2>3, <2>5, <2>6, <1>t
    DEF NeedsInputInv, TypeOK, ListTellsThePause, Waiting, Row
<1>11. CASE Restart
  <2>1. /\ UNCHANGED <<state, term, clock, pauses, muted>>
        /\ calls' = {} /\ rows' = Reconciled /\ dropped' = dropped + 1 /\ dropped < MaxDropped
        /\ lost' = (Waiting /\ (lost \/ calls # {})) /\ raced' = (Waiting /\ raced)
    BY <1>11 DEF Restart
  <2>2. dropped' \in 0..MaxDropped /\ lost' \in BOOLEAN /\ raced' \in BOOLEAN
    BY <2>1, <1>t
  <2>3. YoungestTells'
    BY <2>1 DEF YoungestTells
  <2>4. Waiting' <=> Waiting
    BY <2>1 DEF Waiting
  <2>5. CASE Waiting
    <3>1. rows' = rows
      BY <2>1, <2>5 DEF Reconciled
    <3> QED
      BY <3>1, <2>1, <2>2, <2>3, <2>4, <2>5, <1>t
      DEF NeedsInputInv, TypeOK, OneOpenRow, Open, ListTellsThePause, Unresolved, Row
  <2>6. CASE ~Waiting
    <3>1. rows' \in Seq(Row) /\ OneOpenRow' /\ Unresolved' = {}
      BY <2>1, <2>6, <1>7 DEF Reconciled
    <3> QED
      BY <3>1, <2>1, <2>2, <2>3, <2>4, <2>6, <1>t
      DEF NeedsInputInv, TypeOK, ListTellsThePause, Row
  <2> QED
    BY <2>5, <2>6
<1> QED
  BY <1>1, <1>2, <1>3, <1>4, <1>6, <1>8, <1>9, <1>10, <1>11 DEF Next

\* The notifications rest in the steps of the other parts.
LEMMA NeedsInputPart == Services => Spec
<1>1. ServicesInit => Init
  BY DEF ServicesInit
<1>2. [ServicesNext]_services => [Next]_vars
  BY DEF ServicesNext, services, daemonVars, Notifications, ShellTerminals, Launches, ChangeFeed,
         Nudging, Merging, Previews, BrowserCommands, TerminalViews
<1> QED
  BY <1>1, <1>2, PTL DEF Services, Spec

\* The invariant of the notifications holds throughout.
LEMMA NeedsInputInvariant == Services => []NeedsInputInv
<1>1. ASSUME Init PROVE NeedsInputInv
  <2>1. rows \in Seq([read : BOOLEAN, resolved : BOOLEAN]) /\ DOMAIN rows = {}
    BY <1>1, EmptySeq DEF Init
  <2>2. TypeOK
    <3>1. clock \in Nat /\ pauses \in 0..MaxPauses /\ dropped \in 0..MaxDropped
      BY <1>1, NeedsInputAssumption DEF Init
    <3>2. state \in States /\ ~term /\ calls = {} /\ ~raced /\ ~lost /\ ~muted
      BY <1>1 DEF Init, States
    <3>3. /\ raced \in BOOLEAN /\ lost \in BOOLEAN /\ muted \in BOOLEAN /\ term \in BOOLEAN
      BY <1>1 DEF Init
    <3> QED
      BY <2>1, <3>1, <3>2, <3>3 DEF TypeOK
  <2>3. ~Waiting /\ calls = {}
    BY <1>1 DEF Init, Waiting, Waits
  <2>4. OneOpenRow
    <3>1. \A i \in DOMAIN rows : FALSE
      BY <2>1
    <3> QED
      BY <3>1, Zenon DEF OneOpenRow
  <2>5. YoungestTells
    BY <2>3 DEF YoungestTells
  <2>6. Unresolved = {}
    BY <2>1 DEF Unresolved
  <2> QED
    BY <2>2, <2>3, <2>4, <2>5, <2>6 DEF NeedsInputInv, ListTellsThePause
<1> QED
  BY <1>1, NeedsInputPart, NeedsInputStep, PTL DEF Spec

\* A session never has two rows that the user has still to see or to settle,
\* however many pauses, failures and handlers: the panel does not show the same
\* pause twice.
THEOREM NoPauseTwice == Services => []OneOpenRow
  BY NeedsInputInvariant, PTL DEF NeedsInputInv

\* The list of unresolved rows tells whether the session waits, once the writes
\* have landed and but for the named races, for any number of pauses.
THEOREM PausesAreListed == Services => []ListTellsThePause
  BY NeedsInputInvariant, PTL DEF NeedsInputInv

-----------------------------------------------------------------------------
(* The supervised launches                                                 *)

\* The row of the session, as the launches leave it, and a report.
LaunchRow == [state : {"active", "idle", "exited"}, term : BOOLEAN, launch : 0..MaxLaunches,
              first : BOOLEAN, at : {0}, agent : {"none"}]

Told == [launch : 1..last, event : {"process-started", "process-exited"},
         state : {"active", "idle", "exited"}]

\* Every value of the launches has its type.
LaunchTypes ==
    /\ row \in LaunchRow /\ row.launch <= last
    /\ last \in 0..MaxLaunches /\ pending \in {0, last} /\ started \in BOOLEAN
    /\ proc \in [Launch!Launches -> {"none", "running", "succeeded", "failed"}]
    /\ reports \subseteq Told
    /\ seen \in {{}} \cup {{f} : f \in Launch!Observations}
    /\ faults \in 0..MaxLaunchFaults /\ served \in 0..last

\* What was told of a launch before the row could name it is not held against
\* it: only launches that are over and done with are discarded.
Discarding ==
    /\ discarded \subseteq 1..last
    /\ pending # 0 => pending \notin discarded
    /\ row.launch # 0 => row.launch \notin discarded

\* A launch that has no process has not been started, and what says of one
\* that it ended is right.
Processes ==
    /\ \A l \in Launch!Launches : l > last \/ (l = pending /\ ~started) => proc[l] = "none"
    /\ pending # 0 /\ started => proc[pending] # "none"
    /\ row.launch # 0 => proc[row.launch] # "none"
    /\ \A r \in reports : r.event = "process-exited" => Launch!Ended(r.launch)
    /\ \A r \in reports : r.event = "process-started" <=> r.state = "active"
    /\ \A f \in seen : f.workload = "dead" => f.launch # 0 /\ Launch!Ended(f.launch)

\* An idle row that has had a signal of this spawn names no launch, so the
\* reducer never takes the end of a launch for a repeat.
Served ==
    /\ row.state = "idle" /\ row.first => row.launch = 0
    /\ served # 0 => row.launch = 0
    /\ ~row.term /\ row.state = "exited" =>
         served = 0 /\ (row.launch # 0 => Launch!Ended(row.launch))

\* The invariant of the launches.
LaunchInv == LaunchTypes /\ Discarding /\ Processes /\ Served

\* The row of a session that took a state, took the success of its launch, or
\* was found without its agent.
TakesState(w, x) == [w EXCEPT !.state = x, !.at = 0, !.first = TRUE]
TakesSuccess(w) == [w EXCEPT !.state = "idle", !.at = 0, !.first = TRUE, !.launch = 0]
WithoutAgent(w) == [w EXCEPT !.state = "exited", !.at = 0]

\* What the reducer makes of a report: it drops it, or takes the state that it
\* tells; the success of the launch that the row names ends that launch's name.
LEMMA ReportReduced ==
    ASSUME NEW w \in LaunchRow, NEW r \in Told, NEW fl,
           w.state = "idle" /\ w.first => w.launch = 0,
           r.event = "process-started" <=> r.state = "active"
    PROVE  LET next == Launch!Reducer!ApplyActivitySignal(w, fl, Launch!Signal(r)).row
               success == r.state = "idle" /\ r.launch = w.launch
           IN  /\ Launch!Reducer!Fenced(w, Launch!Signal(r)) <=> r.launch # w.launch
               /\ Launch!Reducer!SuccessfulProcessExit(w, Launch!Signal(r)) <=> success
               /\ w.term \/ r.launch # w.launch => next = w
               /\ ~w.term /\ success => next = TakesSuccess(w)
               /\ ~w.term /\ r.launch = w.launch /\ ~success =>
                    next = w \/ next = TakesState(w, r.state)
               /\ w.state = "exited" /\ r.state = "active" => next = w
<1> DEFINE s == Launch!Signal(r)
<1>1. /\ s.valid /\ s.state = r.state /\ s.event = r.event /\ s.tool = "none" /\ s.name = "none"
      /\ s.launch = r.launch /\ s.agent = "none" /\ s.at = 0 /\ ~s.probe /\ ~s.stale
  BY DEF Launch!Signal
<1>2. /\ r.launch # 0 /\ r.event \in {"process-started", "process-exited"}
      /\ r.state \in {"active", "idle", "exited"}
  BY DEF Told
<1>3. w.state \in {"active", "idle", "exited"} /\ w.agent = "none" /\ w.term \in BOOLEAN
  BY DEF LaunchRow
<1> HIDE DEF s
<1>4. Launch!Reducer!Fenced(w, s) <=> r.launch # w.launch
  BY <1>1, <1>2 DEF Launch!Reducer!Fenced
<1>5. Launch!Reducer!SuccessfulProcessExit(w, s) <=> r.state = "idle" /\ r.launch = w.launch
  BY <1>1, <1>2 DEF Launch!Reducer!SuccessfulProcessExit
<1>6. Launch!Reducer!ApplyToolPrecedence(fl, w.state, s).pass
  BY <1>1, <1>2, <1>3 DEF Launch!Reducer!ApplyToolPrecedence, Launch!Reducer!TurnBoundaryEvents,
       Launch!Reducer!ToolEvents
<1>7. ~Launch!Reducer!MetadataChanged(w, s) /\ Launch!Reducer!WithAgent(w, s) = w
  BY <1>1 DEF Launch!Reducer!MetadataChanged, Launch!Reducer!WithAgent
<1>8. ~Launch!Reducer!NeedsInput(w.state)
  BY <1>3 DEF Launch!Reducer!NeedsInput
<1>9. Launch!Reducer!Recorded(w, s) =
        IF r.state = "idle" /\ r.launch = w.launch
          THEN TakesSuccess(w) ELSE TakesState(w, r.state)
  BY <1>1, <1>5 DEF Launch!Reducer!Recorded, LaunchRow, TakesState, TakesSuccess
<1>10. Launch!Reducer!ApplyActivitySignal(w, fl, s).row =
         IF w.term \/ r.launch # w.launch \/ Launch!Reducer!AfterExit(w, s) THEN w
         ELSE IF Launch!Reducer!Repeats(w, s) THEN w ELSE Launch!Reducer!Recorded(w, s)
  BY <1>1, <1>4, <1>6, <1>7, <1>8 DEF Launch!Reducer!ApplyActivitySignal, Launch!Reducer!Outcome
<1>11. /\ Launch!Reducer!AfterExit(w, s) <=>
            w.state = "exited" /\ r.state # "exited" /\ ~(r.state = "idle" /\ r.launch = w.launch)
       /\ Launch!Reducer!Repeats(w, s) <=> w.state = r.state /\ w.first
  BY <1>1, <1>2, <1>5 DEF Launch!Reducer!AfterExit, Launch!Reducer!Repeats
<1> HIDE DEF LaunchRow
<1> QED
  BY <1>2, <1>4, <1>5, <1>9, <1>10, <1>11 DEF s

\* A report that is handled.
LEMMA ReportStep ==
    ASSUME LaunchInv, NEW r \in reports, Launch!Report(r)
    PROVE  LaunchInv'
<1> USE DEF LaunchInv
<1>0. r \in Told /\ r.launch \in 1..last /\ last \in 0..MaxLaunches /\ row \in LaunchRow
  BY DEF LaunchTypes, Told
<1> DEFINE s == Launch!Signal(r)
           success == r.state = "idle" /\ r.launch = row.launch
<1>1. /\ Launch!Reducer!Fenced(row, s) <=> r.launch # row.launch
      /\ Launch!Reducer!SuccessfulProcessExit(row, s) <=> success
      /\ row.term \/ r.launch # row.launch => row' = row
      /\ ~row.term /\ success => row' = TakesSuccess(row)
      /\ ~row.term /\ r.launch = row.launch /\ ~success =>
           row' = row \/ row' = TakesState(row, r.state)
      /\ row.state = "exited" /\ r.state = "active" => row' = row
  <2>1. /\ row.state = "idle" /\ row.first => row.launch = 0
        /\ r.event = "process-started" <=> r.state = "active"
    BY DEF Served, Processes
  <2>2. row' = Launch!Reducer!ApplyActivitySignal(row, Launch!Reducer!EmptyFlight, s).row
    BY DEF Launch!Report
  <2> QED
    BY <1>0, <2>1, <2>2, ReportReduced
<1>2. /\ pending # r.launch /\ reports' = reports \ {r}
      /\ discarded' = IF ~row.term /\ r.launch # row.launch
                        THEN discarded \cup {r.launch} ELSE discarded
      /\ served' = IF ~row.term /\ success THEN r.launch ELSE served
      /\ UNCHANGED <<pending, last, started, proc, seen, faults>>
  BY <1>1 DEF Launch!Report, Launch!AwaitsMark
<1> HIDE DEF s
<1>3. \/ row' = row /\ (row.term \/ ~success)
      \/ /\ ~row.term /\ success /\ row' = TakesSuccess(row)
      \/ /\ ~row.term /\ r.launch = row.launch /\ ~success /\ r.state # "idle"
         /\ row' = TakesState(row, r.state)
         /\ ~(row.state = "exited" /\ r.state = "active")
  BY <1>1
<1> HIDE DEF success
<1>4. /\ row' \in LaunchRow /\ row'.launch \in {0, row.launch} /\ row'.term = row.term
      /\ row'.state \in {row.state, r.state}
  <2>1. r.state \in {"active", "idle", "exited"}
    BY <1>0 DEF Told
  <2>2. CASE row' = TakesSuccess(row) /\ success
    <3>1. r.state = "idle" /\ 0 \in 0..MaxLaunches
      BY <2>2, ServicesAssumption DEF success
    <3> QED
      BY <1>0, <2>2, <3>1 DEF LaunchRow, TakesSuccess
  <2>3. CASE row' = TakesState(row, r.state)
    BY <1>0, <2>1, <2>3 DEF LaunchRow, TakesState
  <2> QED
    BY <1>0, <1>3, <2>2, <2>3
<1>5. LaunchTypes'
  BY <1>0, <1>2, <1>4 DEF LaunchTypes, Told, LaunchRow
<1>6. Discarding'
  BY <1>0, <1>2, <1>4 DEF Discarding, LaunchTypes, LaunchRow
<1>7. Processes'
  BY <1>2, <1>4 DEF Processes, Launch!Ended
<1>8. Served'
  <2>1. CASE row' = row /\ (row.term \/ ~success)
    BY <2>1, <1>2 DEF Served, Launch!Ended
  <2>2. CASE ~row.term /\ success /\ row' = TakesSuccess(row)
    BY <2>2, <1>0 DEF Served, LaunchRow, TakesSuccess
  <2>3. CASE /\ ~row.term /\ r.launch = row.launch /\ ~success /\ r.state # "idle"
             /\ row' = TakesState(row, r.state)
    <3>1. row'.state = r.state /\ row'.launch = row.launch /\ row.launch # 0 /\ served' = served
      BY <2>3, <1>0, <1>2 DEF LaunchRow, TakesState
    <3>2. r.state = "exited" => Launch!Ended(row.launch) /\ proc' = proc
      <4> SUFFICES ASSUME r.state = "exited" PROVE Launch!Ended(row.launch)
        BY <1>2
      <4>1. r.event = "process-exited"
        BY <1>0 DEF Processes, Told
      <4> QED
        BY <4>1, <2>3 DEF Processes
    <3> QED
      BY <2>3, <3>1, <3>2 DEF Served, Launch!Ended
  <2> QED
    BY <1>3, <2>1, <2>2, <2>3
<1> QED
  BY <1>5, <1>6, <1>7, <1>8

\* What the reaper makes of an observation: the agent of the launch that the
\* row names is gone, or nothing.
LEMMA ObservationReduced ==
    ASSUME NEW w \in LaunchRow, NEW f \in Launch!Observations, NEW fl
    PROVE  LET next == Launch!Reducer!ApplyRuntimeObservation(w, fl, f).row IN
           \/ next = w
           \/ /\ ~w.term /\ w.launch # 0 /\ f.launch = w.launch /\ f.workload = "dead"
              /\ w.state # "exited"
              /\ next = WithoutAgent(w)
  BY DEF WithoutAgent, Launch!Reducer!ApplyRuntimeObservation, Launch!Reducer!ObservationFenced,
         Launch!Reducer!WorkloadDead, Launch!Reducer!RuntimeClearlyDead, Launch!Reducer!Outcome,
         Launch!Observations

\* The reaper applies what it saw.
LEMMA ObserveStep ==
    ASSUME LaunchInv, NEW f \in seen, Launch!Observe(f)
    PROVE  LaunchInv'
<1> USE DEF LaunchInv
<1>0. f \in Launch!Observations /\ row \in LaunchRow
  BY DEF LaunchTypes
<1>1. seen' = {} /\ UNCHANGED <<pending, last, started, proc, reports, faults, discarded, served>>
  BY DEF Launch!Observe
<1>2. \/ row' = row
      \/ /\ ~row.term /\ row.launch # 0 /\ f.launch = row.launch /\ f.workload = "dead"
         /\ row.state # "exited"
         /\ row' = WithoutAgent(row)
  <2>1. row' = Launch!Reducer!ApplyRuntimeObservation(row, Launch!Reducer!EmptyFlight, f).row
    BY DEF Launch!Observe
  <2> QED
    BY <1>0, <2>1, ObservationReduced
<1>3. /\ row' \in LaunchRow /\ row'.launch = row.launch /\ row'.term = row.term
      /\ row' # row => row'.state = "exited" /\ row.launch # 0 /\ Launch!Ended(row.launch)
  BY <1>0, <1>2 DEF LaunchRow, Processes, WithoutAgent
<1>4. LaunchTypes'
  BY <1>1, <1>3 DEF LaunchTypes, Told
<1>5. Discarding' /\ Processes'
  BY <1>1, <1>3 DEF Discarding, Processes, Launch!Ended
<1>6. Served'
  BY <1>1, <1>3 DEF Served, Launch!Ended
<1> QED
  BY <1>4, <1>5, <1>6

\* A launch that is registered, started, cancelled, marked or given up.
LEMMA PrepareStep ==
    ASSUME LaunchInv, Launch!PrepareLaunch
    PROVE  LaunchInv'
<1> USE DEF LaunchInv, Launch!PrepareLaunch
<1>1. /\ pending = 0 /\ last' = last + 1 /\ pending' = last + 1 /\ ~started' /\ last < MaxLaunches
      /\ started' = FALSE /\ last \in Nat /\ MaxLaunches \in Nat
      /\ UNCHANGED <<row, proc, reports, seen, faults, discarded, served>>
  BY ServicesAssumption DEF LaunchTypes
<1> HIDE DEF Launch!PrepareLaunch
<1>2. LaunchTypes'
  <2>1. last' \in 0..MaxLaunches /\ pending' \in {0, last'} /\ row'.launch <= last'
    BY <1>1 DEF LaunchTypes, LaunchRow
  <2>2. reports' \subseteq Told'
    BY <1>1 DEF LaunchTypes, Told
  <2>3. served' \in 0..last'
    BY <1>1 DEF LaunchTypes
  <2> QED
    BY <1>1, <2>1, <2>2, <2>3 DEF LaunchTypes
<1>3. Discarding'
  BY <1>1 DEF Discarding, LaunchTypes, LaunchRow
<1>4. Processes'
  BY <1>1 DEF Processes, LaunchTypes, Launch!Launches, Launch!Ended
<1>5. Served'
  BY <1>1 DEF Served, Launch!Ended
<1> QED
  BY <1>2, <1>3, <1>4, <1>5

\* The new process begins: it replaces the one before it, and tells that it started.
LEMMA StartStep ==
    ASSUME LaunchInv, Launch!Start
    PROVE  LaunchInv'
<1> USE DEF LaunchInv
<1> DEFINE news == [launch |-> pending, event |-> "process-started", state |-> "active"]
<1>0. LaunchTypes /\ pending # 0 /\ pending = last /\ last \in 1..MaxLaunches /\ MaxLaunches \in Nat
  BY ServicesAssumption DEF LaunchTypes, Launch!Start
<1>1. /\ ~started /\ started' = TRUE /\ reports' = reports \cup {news}
      /\ UNCHANGED <<row, pending, last, seen, faults, discarded, served>>
      /\ proc' = [l \in Launch!Launches |-> IF l = pending THEN "running"
                                            ELSE Launch!Replaced(proc[l])]
  BY DEF Launch!Start
<1>2. news \in Told /\ news.event # "process-exited" /\ news.event = "process-started"
      /\ news.state = "active"
  BY <1>0 DEF Told
<1> HIDE DEF news
<1>3. /\ proc' \in [Launch!Launches -> {"none", "running", "succeeded", "failed"}]
      /\ proc'[pending] = "running" /\ proc[pending] = "none"
      /\ \A l \in Launch!Launches \ {pending} :
           /\ proc'[l] = "none" <=> proc[l] = "none"
           /\ Launch!Ended(l) => Launch!Ended(l)'
  BY <1>0, <1>1 DEF LaunchTypes, Launch!Replaced, Launch!Ended, Launch!Launches, Processes
<1>4. LaunchTypes'
  BY <1>0, <1>1, <1>2, <1>3 DEF LaunchTypes, Told
<1>5. Discarding'
  BY <1>1 DEF Discarding
<1>6. row.launch \in 0..last /\ (row.launch # 0 => row.launch \in Launch!Launches)
  BY <1>0 DEF LaunchTypes, LaunchRow, Launch!Launches
<1>7. \A l \in Launch!Launches : Launch!Ended(l) => l # pending /\ Launch!Ended(l)'
  BY <1>3 DEF Launch!Ended
<1>8. Processes'
  <2>1. \A r \in reports : r.launch \in Launch!Launches
    BY <1>0 DEF LaunchTypes, Told, Launch!Launches
  <2>2. \A f \in seen : f.launch # 0 => f.launch \in Launch!Launches
    BY <1>0 DEF LaunchTypes, Launch!Observations, Launch!Launches
  <2>3. \A r \in reports' :
          /\ r.event = "process-exited" => Launch!Ended(r.launch)'
          /\ r.event = "process-started" <=> r.state = "active"
    BY <2>1, <1>1, <1>2, <1>7 DEF Processes
  <2>4. \A f \in seen' : f.workload = "dead" => f.launch # 0 /\ Launch!Ended(f.launch)'
    BY <2>2, <1>1, <1>7 DEF Processes
  <2>5. \A l \in Launch!Launches : l > last' \/ (l = pending' /\ ~started') => proc'[l] = "none"
    BY <1>0, <1>1, <1>3 DEF Processes, Launch!Launches
  <2>6. row'.launch # 0 => proc'[row'.launch] # "none"
    BY <1>1, <1>3, <1>6 DEF Processes
  <2> QED
    BY <2>3, <2>4, <2>5, <2>6, <1>1, <1>3 DEF Processes
<1>9. Served'
  BY <1>1, <1>6, <1>7 DEF Served
<1> QED
  BY <1>4, <1>5, <1>8, <1>9

\* The row is told which launch it is of.
LEMMA MarkStep ==
    ASSUME LaunchInv, Launch!MarkSpawned
    PROVE  LaunchInv'
<1> USE DEF LaunchInv
<1>0. LaunchTypes /\ pending # 0 /\ pending = last /\ last \in 1..MaxLaunches /\ MaxLaunches \in Nat
      /\ row \in LaunchRow
  BY ServicesAssumption DEF LaunchTypes, Launch!MarkSpawned
<1>1. /\ started /\ pending' = 0 /\ served' = 0
      /\ UNCHANGED <<last, started, proc, reports, seen, faults, discarded>>
  BY DEF Launch!MarkSpawned
<1>2. /\ row' \in LaunchRow /\ row'.launch = pending /\ row'.state = "idle" /\ ~row'.first
  <2>1. row' = [row EXCEPT !.term = FALSE, !.state = "idle", !.at = 0, !.first = FALSE,
                           !.launch = pending]
    BY DEF Launch!MarkSpawned, Launch!Reducer!MarkSpawned
  <2>2. pending \in 0..MaxLaunches
    BY <1>0
  <2> HIDE DEF LaunchInv
  <2>3. row' \in LaunchRow
    BY <1>0, <2>1, <2>2 DEF LaunchRow
  <2>4. row'.launch = pending /\ row'.state = "idle"
    BY <1>0, <2>1 DEF LaunchRow
  <2>5. ~row'.first
    BY <1>0, <2>1 DEF LaunchRow
  <2> QED
    BY <2>3, <2>4, <2>5
<1>3. LaunchTypes'
  BY <1>0, <1>1, <1>2 DEF LaunchTypes, Told
<1>4. Discarding'
  BY <1>0, <1>1, <1>2 DEF Discarding
<1>5. Processes'
  <2>1. \A l \in Launch!Launches : ~(l = pending /\ ~started)
    BY <1>1
  <2>2. \A l \in Launch!Launches : l # 0
    BY DEF Launch!Launches
  <2> QED
    BY <2>1, <2>2, <1>0, <1>1, <1>2 DEF Processes, Launch!Ended
<1>6. Served'
  BY <1>0, <1>1, <1>2 DEF Served
<1> QED
  BY <1>3, <1>4, <1>5, <1>6

\* Processes that are killed end, and no other has anything to tell.
LEMMA KilledProcesses ==
    ASSUME LaunchInv, NEW p \in [Launch!Launches -> {"none", "running", "succeeded", "failed"}],
           \A l \in Launch!Launches : p[l] \in {proc[l], Launch!Replaced(proc[l])}
    PROVE  /\ \A l \in Launch!Launches :
                /\ p[l] = "none" <=> proc[l] = "none"
                /\ Launch!Ended(l) => p[l] \in {"succeeded", "failed"}
  BY DEF Launch!Replaced, Launch!Ended

\* A row that is terminated keeps its launch.
LEMMA TerminatedRow ==
    ASSUME NEW w \in LaunchRow, NEW fl
    PROVE  LET next == Launch!Reducer!MarkTerminated(w, fl, 0).row IN
           /\ next \in LaunchRow /\ next.term /\ next.launch = w.launch
           /\ next.state \in {w.state, "exited"} /\ next.first = w.first
  BY DEF Launch!Reducer!MarkTerminated, Launch!Reducer!Outcome, LaunchRow

\* What a step that kills processes, or one that ends by itself, leaves of the
\* invariant: the launches, the row and what was told of them.
LEMMA EndingStep ==
    ASSUME LaunchInv, pending' \in {0, pending}, UNCHANGED <<last, started, seen, faults, discarded, served>>,
           proc' \in [Launch!Launches -> {"none", "running", "succeeded", "failed"}],
           \A l \in Launch!Launches :
             /\ proc'[l] = "none" <=> proc[l] = "none"
             /\ Launch!Ended(l) => Launch!Ended(l)',
           reports' \subseteq Told,
           \A r \in reports' \ reports :
             r.event = "process-exited" /\ r.state # "active" /\ Launch!Ended(r.launch)',
           row' \in LaunchRow, row'.launch = row.launch,
           row' = row \/ (row'.term /\ row'.state \in {row.state, "exited"} /\ row'.first = row.first)
    PROVE  LaunchInv'
<1> USE DEF LaunchInv
<1>0. /\ \A r \in reports : r.launch \in Launch!Launches
      /\ \A f \in seen : f.launch # 0 => f.launch \in Launch!Launches
      /\ row.launch # 0 => row.launch \in Launch!Launches
      /\ pending # 0 => pending \in Launch!Launches
  <2>1. last \in 0..MaxLaunches /\ MaxLaunches \in Nat
    BY ServicesAssumption DEF LaunchTypes
  <2>2. \A r \in reports : r.launch \in Launch!Launches
    BY <2>1 DEF LaunchTypes, Told, Launch!Launches
  <2>3. \A f \in seen : f.launch # 0 => f.launch \in Launch!Launches
    BY <2>1 DEF LaunchTypes, Launch!Observations, Launch!Launches
  <2>4. row.launch # 0 => row.launch \in Launch!Launches
    BY <2>1 DEF LaunchTypes, LaunchRow, Launch!Launches
  <2>5. pending # 0 => pending \in Launch!Launches
    BY <2>1 DEF LaunchTypes, Launch!Launches
  <2> QED
    BY <2>2, <2>3, <2>4, <2>5
<1>1. LaunchTypes'
  BY DEF LaunchTypes, Told
<1>2. Discarding'
  BY DEF Discarding
<1>3. Processes'
  <2>1. \A r \in reports' :
          /\ r.event = "process-exited" => Launch!Ended(r.launch)'
          /\ r.event = "process-started" <=> r.state = "active"
    BY <1>0 DEF Processes
  <2>2. \A f \in seen' : f.workload = "dead" => f.launch # 0 /\ Launch!Ended(f.launch)'
    BY <1>0 DEF Processes
  <2>3. \A l \in Launch!Launches : l > last' \/ (l = pending' /\ ~started') => proc'[l] = "none"
    BY DEF Processes, Launch!Launches
  <2>4. row'.launch # 0 => proc'[row'.launch] # "none"
    BY <1>0 DEF Processes
  <2>5. pending' # 0 /\ started' => proc'[pending'] # "none"
    BY <1>0 DEF Processes
  <2> QED
    BY <2>1, <2>2, <2>3, <2>4, <2>5 DEF Processes
<1>4. Served'
  BY <1>0 DEF Served
<1> QED
  BY <1>1, <1>2, <1>3, <1>4

\* A launch is cancelled, or the row that should name it cannot be written.
LEMMA GiveUpStep ==
    ASSUME LaunchInv, NEW destroyed \in BOOLEAN, NEW terminated \in BOOLEAN,
           Launch!CancelLaunch \/ Launch!MarkSpawnedFails(destroyed, terminated)
    PROVE  LaunchInv'
<1> USE DEF LaunchInv
<1>0. LaunchTypes /\ row \in LaunchRow /\ (pending # 0 => pending \in Launch!Launches)
  BY DEF LaunchTypes, Launch!Launches
<1>1. /\ pending' = 0 /\ UNCHANGED <<last, started, reports, seen, faults, discarded, served>>
      /\ proc' \in {proc, [proc EXCEPT ![pending] = Launch!Replaced(@)]} /\ pending # 0
      /\ row' \in {row, Launch!Reducer!MarkTerminated(row, Launch!Reducer!EmptyFlight, 0).row}
  BY DEF Launch!CancelLaunch, Launch!MarkSpawnedFails
<1>2. /\ proc' \in [Launch!Launches -> {"none", "running", "succeeded", "failed"}]
      /\ \A l \in Launch!Launches : proc'[l] \in {proc[l], Launch!Replaced(proc[l])}
  BY <1>0, <1>1 DEF LaunchTypes, Launch!Replaced
<1>3. /\ \A l \in Launch!Launches :
           /\ proc'[l] = "none" <=> proc[l] = "none"
           /\ Launch!Ended(l) => Launch!Ended(l)'
  BY <1>2, KilledProcesses DEF Launch!Ended
<1>4. /\ row' \in LaunchRow /\ row'.launch = row.launch
      /\ row' = row \/ (row'.term /\ row'.state \in {row.state, "exited"} /\ row'.first = row.first)
  BY <1>0, <1>1, TerminatedRow
<1>5. reports' \subseteq Told
  BY <1>0, <1>1 DEF LaunchTypes
<1> QED
  BY <1>1, <1>2, <1>3, <1>4, <1>5, EndingStep

\* The session is killed.
LEMMA KillStep ==
    ASSUME LaunchInv, Launch!Kill
    PROVE  LaunchInv'
<1> USE DEF LaunchInv
<1>0. LaunchTypes /\ row \in LaunchRow
  BY DEF LaunchTypes
<1>1. /\ UNCHANGED <<pending, last, started, reports, seen, faults, discarded, served>>
      /\ proc' = [l \in Launch!Launches |-> Launch!Replaced(proc[l])]
      /\ row' = Launch!Reducer!MarkTerminated(row, Launch!Reducer!EmptyFlight, 0).row
  BY DEF Launch!Kill
<1>2. /\ proc' \in [Launch!Launches -> {"none", "running", "succeeded", "failed"}]
      /\ \A l \in Launch!Launches : proc'[l] \in {proc[l], Launch!Replaced(proc[l])}
  BY <1>0, <1>1 DEF LaunchTypes, Launch!Replaced
<1>3. /\ \A l \in Launch!Launches :
           /\ proc'[l] = "none" <=> proc[l] = "none"
           /\ Launch!Ended(l) => Launch!Ended(l)'
  BY <1>2, KilledProcesses DEF Launch!Ended
<1>4. /\ row' \in LaunchRow /\ row'.launch = row.launch
      /\ row'.term /\ row'.state \in {row.state, "exited"} /\ row'.first = row.first
  BY <1>0, <1>1, TerminatedRow
<1>5. reports' \subseteq Told
  BY <1>0, <1>1 DEF LaunchTypes
<1> QED
  BY <1>1, <1>2, <1>3, <1>4, <1>5, EndingStep

\* The agent of a launch ends.
LEMMA ExitStep ==
    ASSUME LaunchInv, NEW l \in Launch!Launches, NEW outcome \in {"succeeded", "failed"},
           Launch!Exit(l, outcome)
    PROVE  LaunchInv'
<1> USE DEF LaunchInv
<1> DEFINE news == [launch |-> l, event |-> "process-exited",
                    state |-> IF outcome = "succeeded" THEN "idle" ELSE "exited"]
<1>0. LaunchTypes /\ row \in LaunchRow /\ l \in 1..last
  BY ServicesAssumption DEF LaunchTypes, Launch!Launches, Launch!Exit, Processes
<1>1. /\ UNCHANGED <<row, pending, last, started, seen, faults, discarded, served>>
      /\ proc[l] = "running" /\ proc' = [proc EXCEPT ![l] = outcome]
      /\ reports' = reports \cup {news}
  BY DEF Launch!Exit
<1>2. news \in Told /\ news.launch = l /\ news.event = "process-exited" /\ news.state # "active"
  BY <1>0 DEF Told
<1> HIDE DEF news
<1>3. /\ proc' \in [Launch!Launches -> {"none", "running", "succeeded", "failed"}]
      /\ Launch!Ended(l)'
      /\ \A k \in Launch!Launches :
           /\ proc'[k] = "none" <=> proc[k] = "none"
           /\ Launch!Ended(k) => Launch!Ended(k)'
  BY <1>0, <1>1 DEF LaunchTypes, Launch!Ended
<1>4. reports' \subseteq Told
  BY <1>0, <1>1, <1>2 DEF LaunchTypes
<1>5. \A r \in reports' \ reports :
        r.event = "process-exited" /\ r.state # "active" /\ Launch!Ended(r.launch)'
  BY <1>1, <1>2, <1>3
<1> QED
  BY <1>0, <1>1, <1>3, <1>4, <1>5, EndingStep

\* The reaper looks at the launch that the row names.
LEMMA ProbeStep ==
    ASSUME LaunchInv, Launch!Probe
    PROVE  LaunchInv'
<1> USE DEF LaunchInv
<1> DEFINE f == [launch |-> row.launch, runtime |-> "alive", workload |-> Launch!Workload, at |-> 0]
<1>0. LaunchTypes /\ row \in LaunchRow
  BY DEF LaunchTypes
<1>1. seen' = {f} /\ UNCHANGED <<row, pending, last, started, proc, reports, faults, discarded, served>>
  BY DEF Launch!Probe
<1>2. f \in Launch!Observations /\ f.launch = row.launch /\ f.workload = Launch!Workload
  BY <1>0 DEF LaunchRow, Launch!Observations, Launch!Workload
<1> HIDE DEF f
<1>3. Launch!Workload = "dead" => row.launch # 0 /\ Launch!Ended(row.launch)
  BY <1>0 DEF Launch!Workload, Launch!Ended, LaunchTypes, LaunchRow, Processes, Launch!Launches
<1>4. LaunchTypes'
  BY <1>1, <1>2 DEF LaunchTypes, Told
<1>5. Processes'
  BY <1>1, <1>2, <1>3 DEF Processes, Launch!Ended
<1>6. Discarding' /\ Served'
  BY <1>1 DEF Discarding, Served, Launch!Ended
<1> QED
  BY <1>4, <1>5, <1>6

\* A report is lost, or the daemon dies.
LEMMA LossStep ==
    ASSUME LaunchInv, Launch!Crash \/ \E r \in reports : Launch!LoseReport(r)
    PROVE  LaunchInv'
<1> USE DEF LaunchInv
<1>1. /\ faults' \in 0..MaxLaunchFaults /\ pending' \in {0, pending} /\ seen' \in {{}, seen}
      /\ reports' \subseteq reports
      /\ UNCHANGED <<row, last, started, proc, discarded, served>>
  BY ServicesAssumption DEF Launch!Crash, Launch!LoseReport, LaunchTypes
<1>2. LaunchTypes'
  BY <1>1 DEF LaunchTypes, Told
<1>3. Discarding'
  BY <1>1 DEF Discarding
<1>4. Served'
  BY <1>1 DEF Served, Launch!Ended
<1>5. Processes'
  <2>1. \A l \in Launch!Launches : l # 0
    BY DEF Launch!Launches
  <2> QED
    BY <2>1, <1>1 DEF Processes, Launch!Ended
<1> QED
  BY <1>2, <1>3, <1>4, <1>5

\* Every step of the launches keeps the invariant.
LEMMA LaunchStep == LaunchInv /\ [Launch!Next]_launchVars => LaunchInv'
<1> SUFFICES ASSUME LaunchInv, [Launch!Next]_launchVars PROVE LaunchInv'
  OBVIOUS
<1>1. CASE UNCHANGED launchVars
  <2>1. LaunchTypes'
    BY <1>1 DEF launchVars, LaunchInv, LaunchTypes, Told
  <2> QED
    BY <1>1, <2>1 DEF launchVars, LaunchInv, Discarding, Processes, Served, Launch!Ended
<1>2. ASSUME NEW destroyed \in BOOLEAN, NEW terminated \in BOOLEAN,
             Launch!CancelLaunch \/ Launch!MarkSpawnedFails(destroyed, terminated)
      PROVE  LaunchInv'
  BY <1>2, GiveUpStep
<1>3. ASSUME NEW l \in Launch!Launches, NEW outcome \in {"succeeded", "failed"},
             Launch!Exit(l, outcome)
      PROVE  LaunchInv'
  BY <1>3, ExitStep
<1>4. CASE Launch!PrepareLaunch \/ Launch!Start \/ Launch!MarkSpawned
  BY <1>4, PrepareStep, StartStep, MarkStep
<1>5. CASE Launch!Probe \/ \E f \in seen : Launch!Observe(f)
  BY <1>5, ProbeStep, ObserveStep
<1>6. CASE Launch!Kill
  BY <1>6, KillStep
<1>7. CASE Launch!Crash \/ \E r \in reports : Launch!LoseReport(r)
  BY <1>7, LossStep
<1>8. CASE \E r \in reports : Launch!Report(r)
  BY <1>8, ReportStep
<1>9. CASE Launch!CancelLaunch
  BY <1>9, <1>2
<1> QED
  BY <1>1, <1>2, <1>3, <1>4, <1>5, <1>6, <1>7, <1>8, <1>9 DEF Launch!Next

\* The launches begin in the invariant.
LEMMA LaunchBegins == ServicesInit => LaunchInv
<1> SUFFICES ASSUME ServicesInit PROVE LaunchInv
  OBVIOUS
<1>1. /\ row = [state |-> "idle", term |-> FALSE, launch |-> 0, first |-> FALSE,
                at |-> 0, agent |-> "none"]
      /\ pending = 0 /\ last = 0 /\ started = FALSE
      /\ proc = [l \in Launch!Launches |-> "none"]
      /\ reports = {} /\ seen = {} /\ faults = 0 /\ discarded = {} /\ served = 0
  BY DEF ServicesInit, Launch!Init
<1>2. row \in LaunchRow /\ row.launch = 0 /\ row.state = "idle"
  BY <1>1, ServicesAssumption DEF LaunchRow
<1>3. LaunchTypes
  <2>1. proc \in [Launch!Launches -> {"none", "running", "succeeded", "failed"}]
    BY <1>1
  <2>2. started \in BOOLEAN
    BY <1>1
  <2> QED
    BY <1>1, <1>2, <2>1, <2>2, ServicesAssumption DEF LaunchTypes
<1> QED
  BY <1>1, <1>2, <1>3 DEF LaunchInv, Discarding, Processes, Served

\* The invariant of the launches holds throughout: the other parts leave them be.
LEMMA LaunchInvariant == Services => []LaunchInv
<1>1. [ServicesNext]_services => [Launch!Next]_launchVars
  BY DEF ServicesNext, services, daemonVars, launchVars, Notifications, ShellTerminals, Launches,
         ChangeFeed, Nudging, Merging, Previews, BrowserCommands, TerminalViews
<1> QED
  BY <1>1, LaunchBegins, LaunchStep, PTL DEF Services

\* A report of the launch that the row names was never taken for another
\* generation's, for any number of launches, losses and crashes.
THEOREM ReportsAreKept == Services => []NeverDiscarded
<1>1. LaunchInv => NeverDiscarded
  BY DEF LaunchInv, Discarding, NeverDiscarded, Launch!NeverDiscarded
<1> QED
  BY <1>1, LaunchInvariant, PTL

\* The row tells how the launch ended: no success is shown as a failure, and an
\* exited session names a launch that is over, in whatever order the reports
\* and the observations of the reaper come.
THEOREM EndIsTold == Services => []RowTellsTheEnd
<1>1. LaunchInv => RowTellsTheEnd
  BY DEF LaunchInv, Served, RowTellsTheEnd, Launch!RowTellsTheEnd
<1> QED
  BY <1>1, LaunchInvariant, PTL

-----------------------------------------------------------------------------
(* The preview servers                                                     *)

\* The processes that a daemon could answer for.
Own == Preview!Alive \ stray

\* Who is between the lock and its release holds it; a request that waits for a
\* process knows which, and no request survives the daemon.
Locked ==
    /\ \A v \in Visitors :
        /\ visit[v].at \in {"stop", "await", "killed", "spawn", "record"} => operation = v
        /\ visit[v].at \in {"await", "killed", "record", "probe", "failing"} => visit[v].run # 0
        /\ visit[v].at \in {"await", "killed"} => current \in {0, visit[v].run}
        /\ booting => visit[v].at = "away"

\* The registry names the process of the map, unless it could not be written,
\* and what is said of a process is not ahead of what happened to it.
Mapped ==
    /\ booting => current = 0 /\ \A i \in Preview!Runs : ~server[i].cmd
    /\ ~booting /\ ~unsaved => registry = IF Preview!Running THEN {current} ELSE {}
    /\ current # 0 => root[current] # "none"
    /\ \A i \in Preview!Runs :
        /\ server[i].done => root[i] = "gone"
        /\ server[i].state = "ready" => ~server[i].stopping
    /\ \A v \in Visitors : visit[v].at = "record" =>
        server[visit[v].run].cmd /\ root[visit[v].run] # "none"

\* One process at most lives, none when the next is about to start and no other
\* when it has, and it is in the map, on its way there, or known to the daemon
\* that is about to begin.
Single ==
    /\ \A i, j \in Own : i = j
    /\ \A v \in Visitors : visit[v].at = "spawn" => Own = {}
    /\ \A v \in Visitors : visit[v].at = "record" => Own \subseteq {visit[v].run}
    /\ booting => \A i \in Own : i \in registry /\ server[i].stamp
    /\ ~booting => \A i \in Own :
        \/ current = i /\ server[i].cmd /\ server[i].state # "stopped"
        \/ ~Preview!Recorded(i)

\* The types of the previews.
VisitRecord ==
    [kind : {"none", "start", "stop"}, run : 0..MaxRuns,
     at : {"away", "lock", "stop", "await", "killed", "spawn", "record", "probe", "failing"}]
ServerRecord ==
    [state : {"stopped", "starting", "ready", "stopping", "failed"},
     cmd : BOOLEAN, stopping : BOOLEAN, stamp : BOOLEAN, done : BOOLEAN]

\* Every value of the previews has its type.
PreviewTypes ==
    /\ visit \in [Visitors -> VisitRecord]
    /\ operation \in Visitors \cup {Nobody} /\ current \in 0..MaxRuns
    /\ server \in [Preview!Runs -> ServerRecord]
    /\ root \in [Preview!Runs -> {"none", "alive", "gone"}] /\ piped \subseteq Preview!Runs
    /\ grace \in [Preview!Runs -> {"none", "waits", "killed"}] /\ registry \subseteq Preview!Runs
    /\ stray \subseteq Preview!Runs /\ setbacks \in 0..MaxSetbacks /\ booting \in BOOLEAN
    /\ unsaved \in BOOLEAN

\* The invariant of the previews.
PreviewInv == PreviewTypes /\ Locked /\ Mapped /\ Single

\* A request that moves, and one that returns; the others stay.
LEMMA VisitStep ==
    ASSUME visit \in [Visitors -> VisitRecord], NEW v \in Visitors
    PROVE  /\ \A at \in {"stop", "killed", "spawn", "probe", "failing"} :
                Preview!GoesTo(v, at) =>
                  /\ visit' \in [Visitors -> VisitRecord]
                  /\ visit'[v].at = at /\ visit'[v].run = visit[v].run
                  /\ \A w \in Visitors \ {v} : visit'[w] = visit[w]
           /\ Preview!Returns(v) =>
                /\ visit' \in [Visitors -> VisitRecord]
                /\ visit'[v].at = "away"
                /\ \A w \in Visitors \ {v} : visit'[w] = visit[w]
<1>1. ASSUME NEW at \in {"stop", "killed", "spawn", "probe", "failing"}, Preview!GoesTo(v, at)
      PROVE  /\ visit' \in [Visitors -> VisitRecord]
             /\ visit'[v].at = at /\ visit'[v].run = visit[v].run
             /\ \A w \in Visitors \ {v} : visit'[w] = visit[w]
  <2>1. [visit[v] EXCEPT !.at = at] \in VisitRecord
    BY DEF VisitRecord
  <2>2. [visit[v] EXCEPT !.at = at].at = at /\ [visit[v] EXCEPT !.at = at].run = visit[v].run
    BY DEF VisitRecord
  <2>3. visit' = [visit EXCEPT ![v] = [visit[v] EXCEPT !.at = at]]
    BY <1>1 DEF Preview!GoesTo
  <2> DEFINE goes == [visit[v] EXCEPT !.at = at]
  <2> HIDE DEF goes
  <2>4. visit' = [visit EXCEPT ![v] = goes] /\ goes \in VisitRecord /\ goes.at = at
        /\ goes.run = visit[v].run
    BY <2>1, <2>2, <2>3 DEF goes
  <2> QED
    BY <2>4
<1>2. ASSUME Preview!Returns(v)
      PROVE  /\ visit' \in [Visitors -> VisitRecord]
             /\ visit'[v].at = "away"
             /\ \A w \in Visitors \ {v} : visit'[w] = visit[w]
  <2>1. Preview!Away \in VisitRecord /\ Preview!Away.at = "away"
    BY ServicesAssumption DEF Preview!Away, VisitRecord
  <2> QED
    BY <1>2, <2>1 DEF Preview!Returns
<1> QED
  BY <1>1, <1>2

\* The map is written: the run that is in it is as given, what the others say
\* of themselves is reset, and the registry names the one if it has a process
\* and the file could be written.
LEMMA KeepStep ==
    ASSUME PreviewTypes, NEW i \in 0..MaxRuns, NEW s \in [Preview!Runs -> ServerRecord],
           Preview!Keep(i, s)
    PROVE  /\ current' = i /\ server' \in [Preview!Runs -> ServerRecord]
           /\ registry' \subseteq Preview!Runs
           /\ unsaved' \in BOOLEAN /\ setbacks' \in 0..MaxSetbacks
           /\ \A j \in Preview!Runs :
                /\ server'[j].cmd = s[j].cmd /\ server'[j].stamp = s[j].stamp
                /\ server'[j].done = s[j].done
                /\ j = i => server'[j] = s[j]
                /\ j # i => server'[j].state = "stopped"
           /\ ~unsaved' => registry' = IF i # 0 /\ s[i].cmd THEN {i} ELSE {}
<1> DEFINE reset(j) == [s[j] EXCEPT !.state = "stopped", !.stopping = FALSE]
           named == IF i # 0 /\ s[i].cmd THEN {i} ELSE {}
<1>1. \A j \in Preview!Runs : s[j] \in ServerRecord
  OBVIOUS
<1>2. \A j \in Preview!Runs :
        /\ reset(j) \in ServerRecord /\ reset(j).cmd = s[j].cmd /\ reset(j).stamp = s[j].stamp
        /\ reset(j).done = s[j].done /\ reset(j).state = "stopped"
  BY <1>1 DEF ServerRecord
<1>3. server' = [j \in Preview!Runs |-> IF j = i THEN s[j] ELSE reset(j)]
  BY DEF Preview!Keep
<1>4. /\ current' = i
      /\ \/ registry' = named /\ unsaved' = FALSE /\ setbacks' = setbacks
         \/ Preview!SetBack /\ registry' \in {registry, {}} /\ unsaved' = TRUE
  BY DEF Preview!Keep
<1>5. named \subseteq Preview!Runs
  BY ServicesAssumption DEF Preview!Runs
<1> HIDE DEF named, reset
<1>6. registry' \subseteq Preview!Runs /\ unsaved' \in BOOLEAN /\ (~unsaved' => registry' = named)
  BY <1>4, <1>5 DEF PreviewTypes
<1>7. setbacks' \in 0..MaxSetbacks
  BY <1>4, ServicesAssumption DEF PreviewTypes, Preview!SetBack
<1> QED
  BY <1>1, <1>2, <1>3, <1>4, <1>6, <1>7 DEF named

\* A request that takes a step, and a map that keeps its run or loses it, keep
\* the order of the lock.
LEMMA LockKept ==
    ASSUME Locked, NEW v \in Visitors, \A w \in Visitors \ {v} : visit'[w] = visit[w],
           operation' = operation \/ operation \in {v, Nobody}, operation \in Visitors \cup {Nobody},
           current' \in {0, current}, ~booting, ~booting',
           visit'[v].at \in {"stop", "await", "killed", "spawn", "record"} => operation' = v,
           visit'[v].at \in {"await", "killed", "record", "probe", "failing"} => visit'[v].run # 0,
           visit'[v].at \in {"await", "killed"} => current' \in {0, visit'[v].run}
    PROVE  Locked'
<1>1. \A w \in Visitors \ {v} :
        visit[w].at \in {"stop", "await", "killed", "spawn", "record"} =>
          operation = w /\ operation' = w
  BY ServicesAssumption DEF Locked
<1> QED
  BY <1>1 DEF Locked

\* Processes that at most end, and runs that at most change what they say of
\* themselves.
LEMMA QuietStep ==
    ASSUME PreviewInv, UNCHANGED <<current, registry, unsaved, booting, stray>>,
           root' \in [Preview!Runs -> {"none", "alive", "gone"}],
           \A i \in Preview!Runs :
             /\ server'[i].cmd = server[i].cmd /\ server'[i].stamp = server[i].stamp
             /\ server'[i].done = server[i].done
             /\ server'[i].state = "ready" => ~server'[i].stopping
             /\ server'[i].state = "stopped" => server[i].state = "stopped"
             /\ root'[i] \in {root[i], "gone"},
           \A w \in Visitors :
             /\ visit'[w].at = "record" \/ visit[w].at = "record" => visit'[w] = visit[w]
             /\ visit'[w].at = "spawn" => visit[w].at = "spawn" \/ Own = {}
    PROVE  Mapped' /\ Single'
<1>1. Own' \subseteq Own /\ Own \subseteq Preview!Runs
  BY DEF Own, Preview!Alive, PreviewInv, PreviewTypes
<1>2. /\ Preview!Running' <=> Preview!Running
      /\ \A v \in Visitors : visit[v].at = "record" => visit[v].run \in Preview!Runs
  <2>1. current # 0 => current \in Preview!Runs
    BY DEF PreviewInv, PreviewTypes, Preview!Runs
  <2>2. \A v \in Visitors : visit[v].at = "record" => visit[v].run \in Preview!Runs
    BY ServicesAssumption DEF PreviewInv, PreviewTypes, VisitRecord, Locked, Preview!Runs
  <2> QED
    BY <2>1, <2>2 DEF Preview!Running
<1>3. Mapped'
  <2>1. current # 0 => current \in Preview!Runs
    BY DEF PreviewInv, PreviewTypes, Preview!Runs
  <2> QED
    BY <1>2, <2>1 DEF PreviewInv, Mapped
<1>4. \A i \in Own : ~Preview!Recorded(i) => ~Preview!Recorded(i)'
  BY DEF Preview!Recorded, Preview!At
<1>5. Single'
  BY <1>1, <1>4 DEF PreviewInv, Single
<1> QED
  BY <1>3, <1>5

\* The map is emptied when the process in it, if there is one, is over.
LEMMA ForgetStep ==
    ASSUME PreviewInv, ~booting, Preview!Keep(0, server), UNCHANGED <<root, booting, stray>>,
           \A i \in Own : ~(current = i /\ server[i].cmd),
           \A w \in Visitors :
             /\ visit'[w].at = "record" \/ visit[w].at = "record" => visit'[w] = visit[w]
             /\ visit'[w].at = "spawn" => visit[w].at = "spawn" \/ Own = {}
    PROVE  Mapped' /\ Single'
<1>1. /\ current' = 0 /\ server' \in [Preview!Runs -> ServerRecord]
      /\ ~unsaved' => registry' = {}
      /\ \A j \in Preview!Runs :
           /\ server'[j].cmd = server[j].cmd /\ server'[j].stamp = server[j].stamp
           /\ server'[j].done = server[j].done /\ server'[j].state = "stopped"
  <2>1. PreviewTypes /\ server \in [Preview!Runs -> ServerRecord] /\ 0 \in 0..MaxRuns
    BY ServicesAssumption DEF PreviewInv, PreviewTypes
  <2>2. 0 \notin Preview!Runs
    BY DEF Preview!Runs
  <2> QED
    BY <2>1, <2>2, KeepStep
<1>2. \A v \in Visitors : visit[v].at = "record" => visit[v].run \in Preview!Runs
  BY ServicesAssumption DEF PreviewInv, PreviewTypes, VisitRecord, Locked, Preview!Runs
<1>3. Mapped'
  BY <1>1, <1>2 DEF PreviewInv, Mapped, Preview!Running
<1>4. \A i \in Own : ~Preview!Recorded(i) => ~Preview!Recorded(i)'
  BY DEF Preview!Recorded, Preview!At
<1>5. Own' = Own
  BY DEF Own, Preview!Alive
<1>6. Single'
  BY <1>4, <1>5 DEF PreviewInv, Single
<1> QED
  BY <1>3, <1>6

\* A process that is wanted to end ends, or is let be.
LEMMA KilledStep ==
    ASSUME PreviewTypes, NEW i \in Preview!Runs, Preview!Killed(i)
    PROVE  /\ root' \in [Preview!Runs -> {"none", "alive", "gone"}]
           /\ \A j \in Preview!Runs : root'[j] \in {root[j], "gone"}
           /\ setbacks' \in 0..MaxSetbacks
  BY ServicesAssumption DEF Preview!Killed, Preview!Ends, Preview!SetBack, PreviewTypes

\* A start and a stop: wanted for, and past the lock.
LEMMA AskStep ==
    ASSUME PreviewInv, NEW v \in Visitors, NEW kind \in {"start", "stop"}, Preview!Ask(v, kind)
    PROVE  PreviewInv'
<1> DEFINE wanted == [kind |-> kind, at |-> "lock", run |-> 0]
<1>1. /\ ~booting /\ visit[v] = Preview!Away /\ visit' = [visit EXCEPT ![v] = wanted]
      /\ UNCHANGED <<operation, current, server, registry, unsaved, root, piped, grace, setbacks, booting, stray>>
  BY DEF Preview!Ask, Preview!manager, Preview!book
<1>2. wanted \in VisitRecord /\ wanted.at = "lock" /\ Preview!Away.at = "away"
  BY ServicesAssumption DEF VisitRecord, Preview!Away
<1> HIDE DEF wanted
<1>3. /\ visit' \in [Visitors -> VisitRecord] /\ visit'[v].at = "lock" /\ visit[v].at = "away"
      /\ \A w \in Visitors \ {v} : visit'[w] = visit[w]
  BY <1>1, <1>2 DEF PreviewInv, PreviewTypes
<1>4. PreviewTypes'
  BY <1>1, <1>3 DEF PreviewInv, PreviewTypes
<1>5. Locked'
  BY <1>1, <1>3 DEF PreviewInv, PreviewTypes, Locked
<1>6. Mapped' /\ Single'
  BY <1>1, <1>3, QuietStep DEF PreviewInv, PreviewTypes, Mapped
<1> QED
  BY <1>4, <1>5, <1>6 DEF PreviewInv

\* A request has the lock of the session, or gives up.
LEMMA AcquireStep ==
    ASSUME PreviewInv, NEW v \in Visitors, NEW valid \in BOOLEAN, Preview!Acquire(v, valid)
    PROVE  PreviewInv'
<1>1. /\ visit[v].at = "lock" /\ operation = Nobody
      /\ \/ Preview!GoesTo(v, "stop") /\ operation' = v
         \/ Preview!Returns(v) /\ operation' = operation
      /\ UNCHANGED <<current, server, registry, unsaved, root, piped, grace, setbacks, booting, stray>>
  BY DEF Preview!Acquire, Preview!At, Preview!manager, Preview!book
<1>2. /\ visit' \in [Visitors -> VisitRecord] /\ visit'[v].at \in {"stop", "away"}
      /\ visit'[v].at = "stop" => operation' = v
      /\ \A w \in Visitors \ {v} : visit'[w] = visit[w]
      /\ operation' \in {operation, v}
  BY <1>1, VisitStep DEF PreviewInv, PreviewTypes
<1>3. ~booting
  BY <1>1 DEF PreviewInv, Locked
<1>4. PreviewTypes'
  BY <1>1, <1>2 DEF PreviewInv, PreviewTypes
<1>5. Locked'
  BY <1>1, <1>2, <1>3, ServicesAssumption DEF PreviewInv, Locked
<1>6. Mapped' /\ Single'
  BY <1>1, <1>2, QuietStep DEF PreviewInv, PreviewTypes, Mapped
<1> QED
  BY <1>4, <1>5, <1>6 DEF PreviewInv

\* What a stop does once there is nothing left to wait for.
LEMMA StoppedStep ==
    ASSUME PreviewTypes, NEW v \in Visitors, Preview!Stopped(v)
    PROVE  /\ visit' \in [Visitors -> VisitRecord] /\ visit'[v].at \in {"spawn", "away"}
           /\ \A w \in Visitors \ {v} : visit'[w] = visit[w]
           /\ operation' \in {operation, Nobody}
           /\ visit'[v].at = "spawn" => operation' = operation
           /\ operation' = operation \/ operation = v
<1>1. \/ Preview!GoesTo(v, "spawn") /\ operation' = operation
      \/ Preview!Returns(v) /\ operation' = (IF operation = v THEN Nobody ELSE operation)
  BY DEF Preview!Stopped, Preview!Releases
<1> QED
  BY <1>1, VisitStep DEF PreviewTypes

\* While a stop has the lock, a process that lives is the one in the map.
LEMMA HeldLock ==
    ASSUME PreviewInv, NEW v \in Visitors, visit[v].at \in {"stop", "await", "killed", "spawn"}
    PROVE  /\ ~booting /\ operation = v
           /\ \A w \in Visitors : visit[w].at # "record"
           /\ \A i \in Own : current = i /\ server[i].cmd
<1>1. ~booting /\ operation = v /\ \A w \in Visitors : visit[w].at # "record"
  BY DEF PreviewInv, Locked
<1> QED
  BY <1>1 DEF PreviewInv, Single, Preview!Recorded, Preview!At

\* There is no process to stop.
LEMMA StopNothingStep ==
    ASSUME PreviewInv, NEW v \in Visitors, Preview!StopNothing(v)
    PROVE  PreviewInv'
<1>1. /\ visit[v].at = "stop" /\ ~Preview!Running /\ Preview!Stopped(v)
      /\ IF current = 0 THEN UNCHANGED <<current, server, registry, unsaved, setbacks>>
                        ELSE Preview!Keep(0, server)
      /\ UNCHANGED <<root, piped, grace, booting, stray>>
  BY DEF Preview!StopNothing, Preview!At, Preview!manager, Preview!book
<1>t. PreviewTypes
  BY DEF PreviewInv
<1>2. ~booting /\ operation = v /\ (\A i \in Own : current = i /\ server[i].cmd)
  BY <1>1, HeldLock
<1>3. Own = {}
  BY <1>1, <1>2, <1>t DEF Preview!Running, Own, Preview!Alive, Preview!Runs
<1>4. /\ visit' \in [Visitors -> VisitRecord] /\ visit'[v].at \in {"spawn", "away"}
      /\ \A w \in Visitors \ {v} : visit'[w] = visit[w]
      /\ operation' \in {operation, Nobody}
      /\ visit'[v].at = "spawn" => operation' = operation
  BY <1>1, <1>t, StoppedStep
<1>5. CASE current = 0
  <2>1. UNCHANGED <<current, server, registry, unsaved, setbacks>>
    BY <1>1, <1>5
  <2>2. PreviewTypes'
    BY <2>1, <1>1, <1>2, <1>4, <1>t DEF PreviewTypes
  <2>3. Locked'
    BY <2>1, <1>1, <1>2, <1>4, <1>t, LockKept DEF PreviewInv, PreviewTypes
  <2>4. Mapped' /\ Single'
    BY <2>1, <1>1, <1>3, <1>4, QuietStep DEF PreviewInv, PreviewTypes, Mapped
  <2> QED
    BY <2>2, <2>3, <2>4 DEF PreviewInv
<1>6. CASE current # 0
  <2>1. Preview!Keep(0, server)
    BY <1>1, <1>6
  <2>2. /\ current' = 0 /\ server' \in [Preview!Runs -> ServerRecord]
        /\ registry' \subseteq Preview!Runs
        /\ unsaved' \in BOOLEAN /\ setbacks' \in 0..MaxSetbacks
    BY <2>1, <1>t, ServicesAssumption, KeepStep DEF PreviewTypes
  <2>3. PreviewTypes'
    BY <2>2, <1>1, <1>2, <1>4, <1>t, ServicesAssumption DEF PreviewTypes
  <2>4. Locked'
    BY <2>2, <1>1, <1>2, <1>4, <1>t, LockKept DEF PreviewInv, PreviewTypes
  <2>5. Mapped' /\ Single'
    BY <2>1, <1>1, <1>2, <1>3, <1>4, ForgetStep
  <2> QED
    BY <2>3, <2>4, <2>5 DEF PreviewInv
<1> QED
  BY <1>5, <1>6

\* A stop asks the process to end, waits for it, kills it, or gives up.
LEMMA TerminateStep ==
    ASSUME PreviewInv, NEW v \in Visitors, Preview!Terminate(v)
    PROVE  PreviewInv'
<1> DEFINE goes == [visit[v] EXCEPT !.at = "await", !.run = current]
           renewed == [server[current] EXCEPT !.stopping = TRUE, !.state = "stopping"]
<1>t. PreviewTypes
  BY DEF PreviewInv
<1>1. /\ visit[v].at = "stop" /\ Preview!Running
      /\ visit' = [visit EXCEPT ![v] = goes] /\ server' = [server EXCEPT ![current] = renewed]
      /\ UNCHANGED <<operation, current, registry, unsaved, root, piped, grace, setbacks, booting, stray>>
  BY DEF Preview!Terminate, Preview!At, Preview!book
<1>2. current \in Preview!Runs /\ current # 0
  BY <1>1, <1>t DEF Preview!Running, PreviewTypes, Preview!Runs
<1>3. goes \in VisitRecord /\ goes.at = "await" /\ goes.run = current
  <2>1. visit[v] \in VisitRecord /\ current \in 0..MaxRuns
    BY <1>t DEF PreviewTypes
  <2> QED
    BY <2>1 DEF VisitRecord
<1>4. /\ renewed \in ServerRecord /\ renewed.state = "stopping" /\ renewed.cmd = server[current].cmd
      /\ renewed.stamp = server[current].stamp /\ renewed.done = server[current].done
  <2>1. server[current] \in ServerRecord
    BY <1>2, <1>t DEF PreviewTypes
  <2> QED
    BY <2>1 DEF ServerRecord
<1> HIDE DEF goes, renewed
<1>5. /\ visit' \in [Visitors -> VisitRecord] /\ visit'[v] = goes
      /\ \A w \in Visitors \ {v} : visit'[w] = visit[w]
  BY <1>1, <1>3, <1>t DEF PreviewTypes
<1>6. /\ server' \in [Preview!Runs -> ServerRecord] /\ server'[current] = renewed
      /\ \A i \in Preview!Runs \ {current} : server'[i] = server[i]
  BY <1>1, <1>2, <1>4, <1>t DEF PreviewTypes
<1>7. ~booting /\ operation = v
  BY <1>1, HeldLock
<1>8. PreviewTypes'
  BY <1>1, <1>5, <1>6, <1>t DEF PreviewTypes
<1>9. Locked'
  BY <1>1, <1>2, <1>3, <1>5, <1>7, <1>t, LockKept DEF PreviewInv, PreviewTypes
<1>10. Mapped' /\ Single'
  <2>1. \A i \in Preview!Runs :
          /\ server'[i].cmd = server[i].cmd /\ server'[i].stamp = server[i].stamp
          /\ server'[i].done = server[i].done
          /\ server'[i].state = "ready" => ~server'[i].stopping
          /\ server'[i].state = "stopped" => server[i].state = "stopped"
    BY <1>4, <1>6 DEF PreviewInv, Mapped
  <2> QED
    BY <2>1, <1>1, <1>3, <1>5, <1>t, QuietStep DEF PreviewTypes
<1> QED
  BY <1>8, <1>9, <1>10 DEF PreviewInv

\* The process that a stop waited for is over.
LEMMA ReapedStep ==
    ASSUME PreviewInv, NEW v \in Visitors, Preview!Reaped(v)
    PROVE  PreviewInv'
<1>t. PreviewTypes
  BY DEF PreviewInv
<1>1. /\ visit[v].at \in {"await", "killed"} /\ server[visit[v].run].done
      /\ Preview!Stopped(v) /\ Preview!Keep(0, server)
      /\ UNCHANGED <<root, piped, grace, booting, stray>>
  BY DEF Preview!Reaped
<1>2. ~booting /\ operation = v /\ (\A i \in Own : current = i /\ server[i].cmd)
  BY <1>1, HeldLock
<1>3. Own = {}
  <2>1. ASSUME NEW i \in Own PROVE FALSE
    <3>1. current = i /\ i \in Preview!Runs /\ root[i] = "alive" /\ i # 0
      BY <1>2 DEF Own, Preview!Alive, Preview!Runs
    <3>2. visit[v].run = i
      BY <3>1, <1>1 DEF PreviewInv, Locked
    <3> QED
      BY <3>1, <3>2, <1>1 DEF PreviewInv, Mapped
  <2> QED
    BY <2>1
<1>4. /\ visit' \in [Visitors -> VisitRecord] /\ visit'[v].at \in {"spawn", "away"}
      /\ \A w \in Visitors \ {v} : visit'[w] = visit[w]
      /\ operation' \in {operation, Nobody}
      /\ visit'[v].at = "spawn" => operation' = operation
  BY <1>1, <1>t, StoppedStep
<1>5. /\ current' = 0 /\ server' \in [Preview!Runs -> ServerRecord]
      /\ registry' \subseteq Preview!Runs
      /\ unsaved' \in BOOLEAN /\ setbacks' \in 0..MaxSetbacks
  BY <1>1, <1>t, ServicesAssumption, KeepStep DEF PreviewTypes
<1>6. PreviewTypes'
  BY <1>1, <1>2, <1>4, <1>5, <1>t, ServicesAssumption DEF PreviewTypes
<1>7. Locked'
  BY <1>1, <1>2, <1>4, <1>5, <1>t, LockKept DEF PreviewInv, PreviewTypes
<1>8. Mapped' /\ Single'
  BY <1>1, <1>2, <1>3, <1>4, ForgetStep
<1> QED
  BY <1>6, <1>7, <1>8 DEF PreviewInv

\* A stop kills the process that did not end in time.
LEMMA ForceKillStep ==
    ASSUME PreviewInv, NEW v \in Visitors, Preview!ForceKill(v)
    PROVE  PreviewInv'
<1>t. PreviewTypes
  BY DEF PreviewInv
<1>1. /\ visit[v].at = "await" /\ Preview!GoesTo(v, "killed") /\ Preview!Killed(visit[v].run)
      /\ UNCHANGED <<operation, current, server, registry, unsaved, piped, grace, booting, stray>>
  BY DEF Preview!ForceKill, Preview!At, Preview!manager, Preview!book
<1>2. visit[v].run # 0 /\ current \in {0, visit[v].run} /\ visit[v].run \in Preview!Runs
  BY <1>1, <1>t DEF PreviewInv, Locked, PreviewTypes, VisitRecord, Preview!Runs
<1>3. /\ root' \in [Preview!Runs -> {"none", "alive", "gone"}]
      /\ \A j \in Preview!Runs : root'[j] \in {root[j], "gone"}
      /\ setbacks' \in 0..MaxSetbacks
  BY <1>1, <1>2, <1>t, KilledStep
<1>4. /\ visit' \in [Visitors -> VisitRecord] /\ visit'[v].at = "killed"
      /\ visit'[v].run = visit[v].run
      /\ \A w \in Visitors \ {v} : visit'[w] = visit[w]
  BY <1>1, <1>t, VisitStep DEF PreviewTypes
<1>5. ~booting /\ operation = v
  BY <1>1, HeldLock
<1>6. PreviewTypes'
  BY <1>1, <1>3, <1>4, <1>t DEF PreviewTypes
<1>7. Locked'
  BY <1>1, <1>2, <1>4, <1>5, <1>t, LockKept DEF PreviewInv, PreviewTypes
<1>8. Mapped' /\ Single'
  BY <1>1, <1>3, <1>4, QuietStep DEF PreviewInv, PreviewTypes, Mapped
<1> QED
  BY <1>6, <1>7, <1>8 DEF PreviewInv

\* A request that returns without having written the map.
LEMMA ReturnStep ==
    ASSUME PreviewInv, NEW v \in Visitors, visit[v].at \notin {"away", "record"},
           Preview!Returns(v), operation' = operation \/ Preview!Releases(v),
           UNCHANGED <<current, registry, unsaved, booting, stray, piped>>,
           grace' \in [Preview!Runs -> {"none", "waits", "killed"}], setbacks' \in 0..MaxSetbacks,
           root' \in [Preview!Runs -> {"none", "alive", "gone"}],
           server' \in [Preview!Runs -> ServerRecord],
           \A i \in Preview!Runs :
             /\ server'[i].cmd = server[i].cmd /\ server'[i].stamp = server[i].stamp
             /\ server'[i].done = server[i].done
             /\ server'[i].state = "ready" => ~server'[i].stopping
             /\ server'[i].state = "stopped" => server[i].state = "stopped"
             /\ root'[i] \in {root[i], "gone"}
    PROVE  PreviewInv'
<1>t. PreviewTypes
  BY DEF PreviewInv
<1>1. /\ visit' \in [Visitors -> VisitRecord] /\ visit'[v].at = "away"
      /\ \A w \in Visitors \ {v} : visit'[w] = visit[w]
  BY <1>t, VisitStep DEF PreviewTypes
<1>2. operation' = operation \/ (operation = v /\ operation' = Nobody)
  BY DEF Preview!Releases
<1>3. ~booting
  BY DEF PreviewInv, Locked
<1>4. PreviewTypes'
  BY <1>1, <1>2, <1>t DEF PreviewTypes
<1>5. Locked'
  BY <1>1, <1>2, <1>3, <1>t, LockKept DEF PreviewInv, PreviewTypes
<1>6. Mapped' /\ Single'
  BY <1>1, QuietStep
<1> QED
  BY <1>4, <1>5, <1>6 DEF PreviewInv

\* A server whose run says that it failed, is ready, or is wanted to end.
LEMMA SaysStep ==
    ASSUME PreviewTypes, Mapped, NEW i \in Preview!Runs,
           NEW renewed \in ServerRecord,
           renewed.cmd = server[i].cmd, renewed.stamp = server[i].stamp, renewed.done = server[i].done,
           renewed.state # "stopped", renewed.state = "ready" => ~renewed.stopping,
           server' \in {server, [server EXCEPT ![i] = renewed]}
    PROVE  /\ server' \in [Preview!Runs -> ServerRecord]
           /\ \A j \in Preview!Runs :
                /\ server'[j].cmd = server[j].cmd /\ server'[j].stamp = server[j].stamp
                /\ server'[j].done = server[j].done
                /\ server'[j].state = "ready" => ~server'[j].stopping
                /\ server'[j].state = "stopped" => server[j].state = "stopped"
  BY DEF PreviewTypes, Mapped

\* A request is given up, finds no way to spawn, or has its answer from the probe.
LEMMA GivenUpStep ==
    ASSUME PreviewInv, NEW v \in Visitors,
           Preview!Abandon(v) \/ Preview!SpawnFails(v) \/ Preview!ProbeEnds(v)
    PROVE  PreviewInv'
<1>t. PreviewTypes /\ Mapped
  BY DEF PreviewInv
<1>1. /\ visit[v].at \notin {"away", "record"} /\ Preview!Returns(v)
      /\ operation' = operation \/ Preview!Releases(v)
      /\ UNCHANGED <<current, server, registry, unsaved, root, booting, stray, piped, setbacks>>
  BY DEF Preview!Abandon, Preview!SpawnFails, Preview!ProbeEnds, Preview!At, Preview!manager, Preview!book
<1>2. grace' \in [Preview!Runs -> {"none", "waits", "killed"}]
  BY <1>t DEF PreviewTypes, Preview!Abandon, Preview!SpawnFails, Preview!ProbeEnds
<1>3. \A i \in Preview!Runs :
        server'[i] = server[i] /\ root'[i] = root[i]
        /\ (server'[i].state = "ready" => ~server'[i].stopping)
  BY <1>1, <1>t DEF Mapped
<1> QED
  BY <1>1, <1>2, <1>3, <1>t, ReturnStep DEF PreviewTypes

\* A stop that has killed gives up waiting, and the process is on record as failed.
LEMMA StopFailsStep ==
    ASSUME PreviewInv, NEW v \in Visitors, Preview!StopFails(v)
    PROVE  PreviewInv'
<1> DEFINE i == visit[v].run
           renewed == [server[i] EXCEPT !.state = IF current = i THEN "failed" ELSE @]
<1>t. PreviewTypes /\ Mapped
  BY DEF PreviewInv
<1>1. /\ visit[v].at = "killed" /\ Preview!Returns(v) /\ Preview!Releases(v)
      /\ server' = [server EXCEPT ![i] = renewed]
      /\ UNCHANGED <<current, registry, unsaved, root, piped, grace, setbacks, booting, stray>>
  BY DEF Preview!StopFails, Preview!At, Preview!book
<1>2. i \in Preview!Runs
  BY <1>1, <1>t DEF PreviewInv, Locked, PreviewTypes, VisitRecord, Preview!Runs
<1>3. server[i] \in ServerRecord
  BY <1>2, <1>t DEF PreviewTypes
<1>4. /\ renewed \in ServerRecord /\ renewed.cmd = server[i].cmd /\ renewed.stamp = server[i].stamp
      /\ renewed.done = server[i].done /\ renewed.stopping = server[i].stopping
      /\ renewed.state \in {server[i].state, "failed"}
  BY <1>3 DEF ServerRecord
<1> HIDE DEF renewed, i
<1>5. /\ server' \in [Preview!Runs -> ServerRecord]
      /\ server'[i] = renewed /\ \A j \in Preview!Runs \ {i} : server'[j] = server[j]
  BY <1>1, <1>2, <1>4, <1>t DEF PreviewTypes
<1>6. \A j \in Preview!Runs :
        /\ server'[j].cmd = server[j].cmd /\ server'[j].stamp = server[j].stamp
        /\ server'[j].done = server[j].done
        /\ server'[j].state = "ready" => ~server'[j].stopping
        /\ server'[j].state = "stopped" => server[j].state = "stopped"
        /\ root'[j] = root[j]
  BY <1>1, <1>4, <1>5, <1>t DEF Mapped
<1> QED
  BY <1>1, <1>5, <1>6, <1>t, ReturnStep DEF PreviewTypes

\* The probe of a start finds its URL answered, or gives up.
LEMMA AnswersStep ==
    ASSUME PreviewInv, NEW v \in Visitors, Preview!Answers(v)
    PROVE  PreviewInv'
<1> DEFINE i == visit[v].run
           renewed == [server[i] EXCEPT !.state = "ready"]
<1>t. PreviewTypes /\ Mapped
  BY DEF PreviewInv
<1>1. /\ visit[v].at = "probe" /\ Preview!Returns(v)
      /\ server' = IF current = i /\ server[i].cmd /\ ~server[i].stopping
                     THEN [server EXCEPT ![i] = renewed] ELSE server
      /\ UNCHANGED <<operation, current, registry, unsaved, root, piped, grace, setbacks, booting, stray>>
  BY DEF Preview!Answers, Preview!At, Preview!book
<1>2. i \in Preview!Runs
  BY <1>1, <1>t DEF PreviewInv, Locked, PreviewTypes, VisitRecord, Preview!Runs
<1>3. server[i] \in ServerRecord
  BY <1>2, <1>t DEF PreviewTypes
<1>4. /\ renewed \in ServerRecord /\ renewed.cmd = server[i].cmd /\ renewed.stamp = server[i].stamp
      /\ renewed.done = server[i].done /\ renewed.stopping = server[i].stopping /\ renewed.state = "ready"
  BY <1>3 DEF ServerRecord
<1> HIDE DEF renewed, i
<1>5. /\ server' \in [Preview!Runs -> ServerRecord]
      /\ \A j \in Preview!Runs :
           \/ server'[j] = server[j]
           \/ j = i /\ server'[j] = renewed /\ ~server[i].stopping
  BY <1>1, <1>2, <1>4, <1>t DEF PreviewTypes
<1>6. \A j \in Preview!Runs :
        /\ server'[j].cmd = server[j].cmd /\ server'[j].stamp = server[j].stamp
        /\ server'[j].done = server[j].done
        /\ server'[j].state = "ready" => ~server'[j].stopping
        /\ server'[j].state = "stopped" => server[j].state = "stopped"
        /\ root'[j] = root[j]
  BY <1>1, <1>4, <1>5, <1>t DEF Mapped
<1> QED
  BY <1>1, <1>5, <1>6, <1>t, ReturnStep DEF PreviewTypes

\* A start whose process does not answer marks it failed before it stops it.
LEMMA FailAndStopStep ==
    ASSUME PreviewInv, NEW v \in Visitors, Preview!FailAndStop(v)
    PROVE  PreviewInv'
<1> DEFINE i == visit[v].run
           renewed == [server[i] EXCEPT !.state = "failed", !.stopping = TRUE]
           goes == [visit[v] EXCEPT !.at = "failing"]
<1>t. PreviewTypes /\ Mapped
  BY DEF PreviewInv
<1>1. /\ visit[v].at = "probe"
      /\ \/ visit' = [visit EXCEPT ![v] = goes]
         \/ Preview!Returns(v)
      /\ server' = IF current = i THEN [server EXCEPT ![i] = renewed] ELSE server
      /\ UNCHANGED <<operation, current, registry, unsaved, root, piped, grace, setbacks, booting, stray>>
  BY DEF Preview!FailAndStop, Preview!At, Preview!book, Preview!GoesTo
<1>2. i \in Preview!Runs /\ ~booting
  BY <1>1, <1>t DEF PreviewInv, Locked, PreviewTypes, VisitRecord, Preview!Runs
<1>3. server[i] \in ServerRecord /\ visit[v] \in VisitRecord
  BY <1>2, <1>t DEF PreviewTypes
<1>4. /\ renewed \in ServerRecord /\ renewed.cmd = server[i].cmd /\ renewed.stamp = server[i].stamp
      /\ renewed.done = server[i].done /\ renewed.state = "failed"
  BY <1>3 DEF ServerRecord
<1>5. goes \in VisitRecord /\ goes.at = "failing" /\ goes.run = i
  BY <1>3 DEF VisitRecord
<1> HIDE DEF renewed, goes
<1>6. /\ server' \in [Preview!Runs -> ServerRecord]
      /\ \A j \in Preview!Runs : server'[j] \in {server[j], IF j = i THEN renewed ELSE server[j]}
  BY <1>1, <1>2, <1>4, <1>t DEF PreviewTypes
<1>7. \A j \in Preview!Runs :
        /\ server'[j].cmd = server[j].cmd /\ server'[j].stamp = server[j].stamp
        /\ server'[j].done = server[j].done
        /\ server'[j].state = "ready" => ~server'[j].stopping
        /\ server'[j].state = "stopped" => server[j].state = "stopped"
        /\ root'[j] = root[j]
  BY <1>1, <1>4, <1>6, <1>t DEF Mapped
<1>8. /\ visit' \in [Visitors -> VisitRecord] /\ visit'[v].at \in {"failing", "away"}
      /\ visit'[v].at = "failing" => visit'[v].run = i
      /\ \A w \in Visitors \ {v} : visit'[w] = visit[w]
  BY <1>1, <1>5, <1>t, VisitStep DEF PreviewTypes
<1>9. PreviewTypes'
  BY <1>1, <1>6, <1>8, <1>t DEF PreviewTypes
<1>10. Locked'
  BY <1>1, <1>2, <1>8, <1>t, LockKept DEF PreviewInv, PreviewTypes, Preview!Runs
<1>11. Mapped' /\ Single'
  BY <1>1, <1>7, <1>8, <1>t, QuietStep DEF PreviewTypes
<1> QED
  BY <1>9, <1>10, <1>11 DEF PreviewInv

\* The process that failed to answer is killed.
LEMMA FailKillsStep ==
    ASSUME PreviewInv, NEW v \in Visitors, Preview!FailKills(v)
    PROVE  PreviewInv'
<1>t. PreviewTypes /\ Mapped
  BY DEF PreviewInv
<1>1. /\ visit[v].at = "failing" /\ Preview!Returns(v) /\ Preview!Killed(visit[v].run)
      /\ UNCHANGED <<operation, current, server, registry, unsaved, piped, grace, booting, stray>>
  BY DEF Preview!FailKills, Preview!At, Preview!manager, Preview!book
<1>2. visit[v].run \in Preview!Runs
  BY <1>1, <1>t DEF PreviewInv, Locked, PreviewTypes, VisitRecord, Preview!Runs
<1>3. /\ root' \in [Preview!Runs -> {"none", "alive", "gone"}]
      /\ \A j \in Preview!Runs : root'[j] \in {root[j], "gone"}
      /\ setbacks' \in 0..MaxSetbacks
  BY <1>1, <1>2, <1>t, KilledStep
<1>4. \A i \in Preview!Runs :
        server'[i] = server[i] /\ (server'[i].state = "ready" => ~server'[i].stopping)
  BY <1>1, <1>t DEF Mapped
<1> QED
  BY <1>1, <1>3, <1>4, <1>t, ReturnStep DEF PreviewTypes

\* A process is started: it is the only one.
LEMMA SpawnStep ==
    ASSUME PreviewInv, NEW v \in Visitors, NEW stamp \in BOOLEAN, Preview!Spawn(v, stamp)
    PROVE  PreviewInv'
<1> DEFINE born == [Preview!Unborn EXCEPT !.cmd = TRUE, !.stamp = stamp]
           goes(i) == [visit[v] EXCEPT !.at = "record", !.run = i]
<1>t. PreviewTypes /\ Mapped
  BY DEF PreviewInv
<1>1. /\ visit[v].at = "spawn" /\ setbacks' \in 0..MaxSetbacks
      /\ UNCHANGED <<operation, current, registry, unsaved, piped, grace, booting, stray>>
  BY <1>t, ServicesAssumption DEF Preview!Spawn, Preview!At, Preview!book, Preview!Goes, Preview!SetBack,
                                  PreviewTypes
<1>2. PICK i \in Preview!Runs :
        /\ root[i] = "none" /\ root' = [root EXCEPT ![i] = "alive"]
        /\ server' = [server EXCEPT ![i] = born]
        /\ visit' = [visit EXCEPT ![v].at = "record", ![v].run = i]
  BY DEF Preview!Spawn
<1>2a. visit' = [visit EXCEPT ![v] = goes(i)]
  BY <1>2
<1>3. i # 0 /\ i \in 0..MaxRuns
  BY DEF Preview!Runs
<1>4. /\ born \in ServerRecord /\ born.cmd /\ ~born.done /\ born.state = "stopped"
      /\ ~born.stopping
  BY DEF ServerRecord, Preview!Unborn
<1>5. goes(i) \in VisitRecord /\ goes(i).at = "record" /\ goes(i).run = i
  <2>1. visit[v] \in VisitRecord
    BY <1>t DEF PreviewTypes
  <2> QED
    BY <2>1, <1>3 DEF VisitRecord
<1> DEFINE gone == goes(i)
<1> HIDE DEF born, goes, gone
<1>6. gone \in VisitRecord /\ gone.at = "record" /\ gone.run = i /\ visit' = [visit EXCEPT ![v] = gone]
  BY <1>2a, <1>5 DEF gone
<1>7. /\ visit' \in [Visitors -> VisitRecord] /\ visit'[v] = gone
      /\ \A w \in Visitors \ {v} : visit'[w] = visit[w]
  BY <1>6, <1>t DEF PreviewTypes
<1>8. /\ server' \in [Preview!Runs -> ServerRecord] /\ server'[i] = born
      /\ \A j \in Preview!Runs \ {i} : server'[j] = server[j]
      /\ root' \in [Preview!Runs -> {"none", "alive", "gone"}] /\ root'[i] = "alive"
      /\ \A j \in Preview!Runs \ {i} : root'[j] = root[j]
  BY <1>2, <1>4, <1>t DEF PreviewTypes
<1>9. ~booting /\ operation = v /\ (\A w \in Visitors : visit[w].at # "record")
  BY <1>1, HeldLock
<1>10. PreviewTypes'
  BY <1>1, <1>7, <1>8, <1>t DEF PreviewTypes
<1>11. Locked'
  BY <1>1, <1>3, <1>6, <1>7, <1>9, <1>t, LockKept DEF PreviewInv, PreviewTypes
<1>12. current # i /\ (current # 0 => current \in Preview!Runs)
  BY <1>2, <1>3, <1>t DEF Mapped, PreviewTypes, Preview!Runs
<1>13. Mapped'
  <2>1. Preview!Running' <=> Preview!Running
    BY <1>1, <1>8, <1>12 DEF Preview!Running
  <2>2. \A w \in Visitors : visit'[w].at = "record" => w = v
    BY <1>7, <1>9
  <2> QED
    BY <2>1, <2>2, <1>1, <1>4, <1>6, <1>7, <1>8, <1>9, <1>12, <1>t DEF Mapped
<1>14. Single'
  <2>1. Own = {}
    BY <1>1 DEF PreviewInv, Single
  <2>2. Own' \subseteq {i}
    BY <2>1, <1>1, <1>8 DEF Own, Preview!Alive
  <2>3. ~Preview!Recorded(i)'
    BY <1>6, <1>7 DEF Preview!Recorded, Preview!At
  <2>4. \A w \in Visitors : visit'[w].at # "spawn"
    BY <1>6, <1>7, <1>9, <1>1 DEF PreviewInv, Locked
  <2>5. \A w \in Visitors : visit'[w].at = "record" => visit'[w].run = i
    BY <1>6, <1>7, <1>9
  <2> QED
    BY <2>2, <2>3, <2>4, <2>5, <1>1, <1>9 DEF Single
<1> QED
  BY <1>10, <1>11, <1>13, <1>14 DEF PreviewInv

\* The process is recorded, and the lock released.
LEMMA RecordStep ==
    ASSUME PreviewInv, NEW v \in Visitors, Preview!Record(v)
    PROVE  PreviewInv'
<1> DEFINE i == visit[v].run
           renewed == [server[i] EXCEPT !.state = "starting"]
           s == [server EXCEPT ![i] = renewed]
<1>t. PreviewTypes /\ Mapped
  BY DEF PreviewInv
<1>1. /\ visit[v].at = "record" /\ Preview!GoesTo(v, "probe") /\ Preview!Releases(v)
      /\ Preview!Keep(i, s)
      /\ UNCHANGED <<root, piped, grace, booting, stray>>
  BY DEF Preview!Record, Preview!At
<1>2. i \in Preview!Runs /\ i # 0 /\ i \in 0..MaxRuns /\ ~booting /\ operation = v
  BY <1>1, <1>t DEF PreviewInv, Locked, PreviewTypes, VisitRecord, Preview!Runs
<1>3. server[i] \in ServerRecord
  BY <1>2, <1>t DEF PreviewTypes
<1>4. /\ renewed \in ServerRecord /\ renewed.cmd = server[i].cmd /\ renewed.stamp = server[i].stamp
      /\ renewed.done = server[i].done /\ renewed.state = "starting"
  BY <1>3 DEF ServerRecord
<1> HIDE DEF renewed
<1>5. /\ s \in [Preview!Runs -> ServerRecord] /\ s[i] = renewed
      /\ \A j \in Preview!Runs \ {i} : s[j] = server[j]
  BY <1>2, <1>4, <1>t DEF PreviewTypes
<1> HIDE DEF s
<1>6. /\ current' = i /\ server' \in [Preview!Runs -> ServerRecord]
      /\ registry' \subseteq Preview!Runs
      /\ unsaved' \in BOOLEAN /\ setbacks' \in 0..MaxSetbacks
      /\ \A j \in Preview!Runs :
           /\ server'[j].cmd = s[j].cmd /\ server'[j].stamp = s[j].stamp
           /\ server'[j].done = s[j].done
           /\ j = i => server'[j] = s[j]
           /\ j # i => server'[j].state = "stopped"
      /\ ~unsaved' => registry' = IF i # 0 /\ s[i].cmd THEN {i} ELSE {}
  BY <1>1, <1>2, <1>5, <1>t, KeepStep
<1>7. /\ visit' \in [Visitors -> VisitRecord] /\ visit'[v].at = "probe" /\ visit'[v].run = i
      /\ \A w \in Visitors \ {v} : visit'[w] = visit[w]
  BY <1>1, <1>t, VisitStep DEF PreviewTypes
<1>8. operation' = Nobody
  BY <1>1, <1>2 DEF Preview!Releases
<1>9. \A w \in Visitors \ {v} :
        visit[w].at \notin {"stop", "await", "killed", "spawn", "record"}
  BY <1>2 DEF PreviewInv, Locked
<1>10. server[i].cmd /\ root[i] # "none"
  BY <1>1, <1>t DEF Mapped
<1> HIDE DEF i
<1>11. PreviewTypes'
  BY <1>1, <1>2, <1>6, <1>7, <1>8, <1>t DEF PreviewTypes
<1>12. Locked'
  BY <1>1, <1>2, <1>7, <1>9 DEF PreviewInv, Locked
<1>13. Mapped'
  <2>1. Preview!Running'
    BY <1>2, <1>4, <1>5, <1>6, <1>10 DEF Preview!Running
  <2>2. \A w \in Visitors : visit'[w].at # "record"
    BY <1>7, <1>9
  <2>3. \A j \in Preview!Runs :
          /\ server'[j].done => root'[j] = "gone"
          /\ server'[j].state # "ready"
    BY <1>1, <1>4, <1>5, <1>6, <1>t DEF Mapped
  <2> QED
    BY <2>1, <2>2, <2>3, <1>1, <1>2, <1>4, <1>5, <1>6, <1>10 DEF Mapped
<1>14. Single'
  <2>1. Own' = Own
    BY <1>1 DEF Own, Preview!Alive
  <2>2. \A j \in Own : j = i
    BY <1>1 DEF PreviewInv, Single, i
  <2>3. \A w \in Visitors : visit'[w].at # "spawn" /\ visit'[w].at # "record"
    BY <1>7, <1>9
  <2> QED
    BY <2>1, <2>2, <2>3, <1>1, <1>2, <1>4, <1>5, <1>6, <1>10 DEF Single
<1> QED
  BY <1>11, <1>12, <1>13, <1>14 DEF PreviewInv

\* A process ends by itself, or what held its output open does.
LEMMA ExitsStep ==
    ASSUME PreviewInv, NEW i \in Preview!Runs, NEW held \in BOOLEAN,
           Preview!Exits(i, held) \/ Preview!DescendantEnds(i) \/ Preview!GraceKills(i)
    PROVE  PreviewInv'
<1>t. PreviewTypes /\ Mapped
  BY DEF PreviewInv
<1>1. /\ UNCHANGED <<visit, operation, current, server, registry, unsaved, booting, stray>>
      /\ setbacks' \in 0..MaxSetbacks /\ piped' \subseteq Preview!Runs
      /\ grace' \in [Preview!Runs -> {"none", "waits", "killed"}]
      /\ root' \in [Preview!Runs -> {"none", "alive", "gone"}]
      /\ \A j \in Preview!Runs : root'[j] \in {root[j], "gone"}
  <2>1. CASE Preview!Exits(i, held)
    BY <2>1, <1>t, ServicesAssumption
    DEF Preview!Exits, Preview!Ends, Preview!Goes, Preview!SetBack, Preview!visits,
        Preview!manager, Preview!book, PreviewTypes
  <2>2. CASE Preview!DescendantEnds(i)
    BY <2>2, <1>t DEF Preview!DescendantEnds, Preview!visits, Preview!manager, Preview!book, PreviewTypes
  <2>3. CASE Preview!GraceKills(i)
    <3>1. UNCHANGED <<visit, operation, current, server, registry, unsaved, booting, stray, piped>>
      BY <2>3 DEF Preview!GraceKills, Preview!visits, Preview!manager, Preview!book
    <3>2. grace' \in [Preview!Runs -> {"none", "waits", "killed"}]
      BY <2>3, <1>t DEF Preview!GraceKills, PreviewTypes
    <3>3. Preview!Killed(i)
      BY <2>3 DEF Preview!GraceKills
    <3> QED
      BY <3>1, <3>2, <3>3, <1>t, KilledStep DEF PreviewTypes
  <2> QED
    BY <2>1, <2>2, <2>3
<1>2. PreviewTypes'
  BY <1>1, <1>t DEF PreviewTypes
<1>3. Locked'
  BY <1>1 DEF PreviewInv, Locked
<1>4. \A j \in Preview!Runs : server'[j].state = "ready" => ~server'[j].stopping
  BY <1>1, <1>t DEF Mapped
<1>5. \A w \in Visitors : visit'[w] = visit[w]
  BY <1>1
<1>6. Mapped' /\ Single'
  BY <1>1, <1>4, <1>5, QuietStep
<1> QED
  BY <1>2, <1>3, <1>6 DEF PreviewInv

\* The exit of a process that is gone is noticed.
LEMMA WaitForExitStep ==
    ASSUME PreviewInv, NEW i \in Preview!Runs, Preview!WaitForExit(i)
    PROVE  PreviewInv'
<1> DEFINE final == IF server[i].stopping /\ server[i].state # "failed" THEN "stopped" ELSE "failed"
           over == [server[i] EXCEPT !.done = TRUE]
           out == [over EXCEPT !.cmd = FALSE, !.state = final]
           s == [server EXCEPT ![i] = IF current = i THEN out ELSE over]
<1>t. PreviewTypes /\ Mapped
  BY DEF PreviewInv
<1>1. /\ root[i] = "gone" /\ server[i].cmd /\ ~server[i].done /\ Preview!Recorded(i)
      /\ UNCHANGED <<visit, operation, root, piped, grace, booting, stray>>
  BY DEF Preview!WaitForExit, Preview!visits
<1>2. server[i] \in ServerRecord /\ final \in {"stopped", "failed"}
  BY <1>t DEF PreviewTypes
<1>3. /\ over \in ServerRecord /\ over.cmd = server[i].cmd /\ over.stamp = server[i].stamp
      /\ over.done /\ over.state = server[i].state /\ over.stopping = server[i].stopping
  BY <1>2 DEF ServerRecord
<1>4. /\ out \in ServerRecord /\ ~out.cmd /\ out.stamp = server[i].stamp /\ out.done
      /\ out.state \in {"stopped", "failed"}
  BY <1>2, <1>3 DEF ServerRecord
<1>5. Preview!Keep(current, s)
  <2>1. Preview!Keep(current, IF current = i
                    THEN [[server EXCEPT ![i].done = TRUE] EXCEPT ![i].cmd = FALSE, ![i].state = final]
                    ELSE [server EXCEPT ![i].done = TRUE])
    BY DEF Preview!WaitForExit
  <2>2. [server EXCEPT ![i].done = TRUE] = [server EXCEPT ![i] = over]
    OBVIOUS
  <2>3. server \in [Preview!Runs -> ServerRecord]
    BY <1>t DEF PreviewTypes
  <2>4. [[server EXCEPT ![i].done = TRUE] EXCEPT ![i].cmd = FALSE, ![i].state = final]
          = [server EXCEPT ![i] = out]
    BY <2>3
  <2> QED
    BY <2>1, <2>2, <2>4
<1> HIDE DEF final, over, out
<1>6. /\ s \in [Preview!Runs -> ServerRecord] /\ s[i] = (IF current = i THEN out ELSE over)
      /\ \A j \in Preview!Runs \ {i} : s[j] = server[j]
  BY <1>3, <1>4, <1>t DEF PreviewTypes
<1> HIDE DEF s
<1>7. /\ current' = current /\ server' \in [Preview!Runs -> ServerRecord]
      /\ registry' \subseteq Preview!Runs
      /\ unsaved' \in BOOLEAN /\ setbacks' \in 0..MaxSetbacks
      /\ \A j \in Preview!Runs :
           /\ server'[j].cmd = s[j].cmd /\ server'[j].stamp = s[j].stamp
           /\ server'[j].done = s[j].done
           /\ j = current => server'[j] = s[j]
           /\ j # current => server'[j].state = "stopped"
      /\ ~unsaved' => registry' = IF current # 0 /\ s[current].cmd THEN {current} ELSE {}
  BY <1>5, <1>6, <1>t, KeepStep DEF PreviewTypes
<1>8. ~booting /\ i # 0 /\ (current # 0 => current \in Preview!Runs)
  BY <1>1, <1>t DEF Mapped, PreviewTypes, Preview!Runs
<1>9. PreviewTypes'
  BY <1>1, <1>7, <1>t DEF PreviewTypes
<1>10. Locked'
  BY <1>1, <1>7 DEF PreviewInv, Locked
<1>11. \A v \in Visitors : visit[v].at = "record" =>
         visit[v].run # i /\ visit[v].run \in Preview!Runs
  BY <1>1, <1>t DEF Preview!Recorded, Preview!At, PreviewInv, PreviewTypes, VisitRecord, Locked,
                    Preview!Runs
<1>12. Mapped'
  <2>1. \A v \in Visitors : visit'[v].at = "record" =>
          server'[visit'[v].run].cmd /\ root'[visit'[v].run] # "none"
    BY <1>1, <1>6, <1>7, <1>11, <1>t DEF Mapped
  <2>2. \A j \in Preview!Runs : server'[j].done => root'[j] = "gone"
    BY <1>1, <1>6, <1>7, <1>t DEF Mapped
  <2>3. \A j \in Preview!Runs : server'[j].state = "ready" => ~server'[j].stopping
    BY <1>4, <1>6, <1>7, <1>t DEF Mapped
  <2>4. ~unsaved' => registry' = IF Preview!Running' THEN {current'} ELSE {}
    BY <1>7, <1>8 DEF Preview!Running
  <2> QED
    BY <2>1, <2>2, <2>3, <2>4, <1>1, <1>7, <1>8, <1>t DEF Mapped
<1>13. Single'
  <2>1. Own' = Own /\ i \notin Own
    BY <1>1 DEF Own, Preview!Alive
  <2>2. \A j \in Own : /\ j \in Preview!Runs /\ j # i
                       /\ Preview!Recorded(j)' <=> Preview!Recorded(j)
    BY <2>1, <1>1 DEF Own, Preview!Alive, Preview!Recorded, Preview!At
  <2> QED
    BY <2>1, <2>2, <1>1, <1>6, <1>7, <1>8 DEF PreviewInv, Single
<1> QED
  BY <1>9, <1>10, <1>12, <1>13 DEF PreviewInv

\* A run that failed is forgotten, after a time or by the stop that was
\* abandoned; its process has ended.
LEMMA ForgottenStep ==
    ASSUME PreviewInv, NEW i \in Preview!Runs, Preview!Expire(i) \/ Preview!GraceEnds(i)
    PROVE  PreviewInv'
<1>t. PreviewTypes /\ Mapped
  BY DEF PreviewInv
<1>1. /\ UNCHANGED <<visit, operation, root, piped, booting, stray>>
      /\ grace' \in [Preview!Runs -> {"none", "waits", "killed"}]
      /\ \/ UNCHANGED <<current, server, registry, unsaved, setbacks>>
         \/ current = i /\ ~server[i].cmd /\ Preview!Keep(0, server)
  BY <1>t DEF Preview!Expire, Preview!GraceEnds, Preview!visits, Preview!manager, Preview!book, PreviewTypes
<1>2. \A w \in Visitors : visit'[w] = visit[w]
  BY <1>1
<1>3. CASE UNCHANGED <<current, server, registry, unsaved, setbacks>>
  <2>1. PreviewTypes'
    BY <1>1, <1>3, <1>t DEF PreviewTypes
  <2>2. Locked'
    BY <1>1, <1>3 DEF PreviewInv, Locked
  <2>3. \A j \in Preview!Runs : server'[j].state = "ready" => ~server'[j].stopping
    BY <1>3, <1>t DEF Mapped
  <2>4. Mapped' /\ Single'
    BY <2>3, <1>1, <1>2, <1>3, <1>t, QuietStep DEF PreviewTypes
  <2> QED
    BY <2>1, <2>2, <2>4 DEF PreviewInv
<1>4. CASE current = i /\ ~server[i].cmd /\ Preview!Keep(0, server)
  <2>1. /\ current' = 0 /\ server' \in [Preview!Runs -> ServerRecord]
        /\ registry' \subseteq Preview!Runs /\ 0 \in 0..MaxRuns
        /\ unsaved' \in BOOLEAN /\ setbacks' \in 0..MaxSetbacks
    BY <1>4, <1>t, ServicesAssumption, KeepStep DEF PreviewTypes
  <2>2. ~booting
    BY <1>4, <1>t DEF Mapped, Preview!Runs
  <2>3. PreviewTypes'
    BY <2>1, <1>1, <1>t DEF PreviewTypes
  <2>4. Locked'
    BY <2>1, <1>1 DEF PreviewInv, Locked
  <2>5. Mapped' /\ Single'
    BY <2>2, <1>1, <1>2, <1>4, ForgetStep
  <2> QED
    BY <2>3, <2>4, <2>5 DEF PreviewInv
<1> QED
  BY <1>1, <1>3, <1>4

\* The daemon dies: the registry names what it could answer for, or it is astray.
LEMMA OutageStep ==
    ASSUME PreviewInv, Preview!Outage
    PROVE  PreviewInv'
<1> DEFINE blank(i) == [Preview!Unborn EXCEPT !.stamp = server[i].stamp]
<1>t. PreviewTypes
  BY DEF PreviewInv
<1>1. /\ booting' = TRUE /\ operation' = Nobody /\ current' = 0 /\ setbacks' \in 0..MaxSetbacks
      /\ visit' = [v \in Visitors |-> Preview!Away]
      /\ grace' = [i \in Preview!Runs |-> "none"]
      /\ stray' = stray \cup {i \in Preview!Alive : i \notin registry \/ ~server[i].stamp}
      /\ server' = [i \in Preview!Runs |-> blank(i)]
      /\ UNCHANGED <<registry, unsaved, root, piped>>
  BY <1>t, ServicesAssumption DEF Preview!Outage, Preview!book, Preview!SetBack, PreviewTypes
<1>2. Preview!Away \in VisitRecord /\ Preview!Away.at = "away"
  BY ServicesAssumption DEF Preview!Away, VisitRecord
<1>3. \A i \in Preview!Runs :
        /\ blank(i) \in ServerRecord /\ ~blank(i).cmd /\ ~blank(i).done
        /\ blank(i).stamp = server[i].stamp /\ blank(i).state = "stopped"
  <2>1. \A i \in Preview!Runs : server[i].stamp \in BOOLEAN
    BY <1>t DEF PreviewTypes, ServerRecord
  <2> QED
    BY <2>1 DEF Preview!Unborn, ServerRecord
<1> HIDE DEF blank
<1>4. PreviewTypes'
  <2>1. stray' \subseteq Preview!Runs
    BY <1>1, <1>t DEF PreviewTypes, Preview!Alive
  <2>2. current' \in 0..MaxRuns
    BY <1>1, ServicesAssumption
  <2> QED
    BY <2>1, <2>2, <1>1, <1>2, <1>3, <1>t DEF PreviewTypes
<1>5. Locked'
  BY <1>1, <1>2 DEF Locked
<1>6. Mapped'
  BY <1>1, <1>2, <1>3 DEF Mapped
<1>7. Single'
  <2>1. \A i \in Own' : i \in Own /\ i \in registry /\ server[i].stamp /\ i \in Preview!Runs
    BY <1>1 DEF Own, Preview!Alive
  <2> QED
    BY <2>1, <1>1, <1>2, <1>3 DEF PreviewInv, Single
<1> QED
  BY <1>4, <1>5, <1>6, <1>7 DEF PreviewInv

\* The next daemon ends what the registry names.
LEMMA ReapPersistedStep ==
    ASSUME PreviewInv, NEW killed \in BOOLEAN, Preview!ReapPersistedProcesses(killed)
    PROVE  PreviewInv'
<1> DEFINE ours == {i \in registry : server[i].stamp}
<1>t. PreviewTypes
  BY DEF PreviewInv
<1>1. /\ booting /\ booting' = FALSE /\ setbacks' \in 0..MaxSetbacks
      /\ root' = [i \in Preview!Runs |-> IF i \in ours /\ killed THEN "gone" ELSE root[i]]
      /\ stray' = IF killed THEN stray ELSE stray \cup (ours \cap Preview!Alive)
      /\ registry' = {} /\ unsaved' = FALSE
      /\ server' = [i \in Preview!Runs |-> Preview!Unborn]
      /\ UNCHANGED <<visit, operation, current, piped, grace>>
  BY <1>t, ServicesAssumption DEF Preview!ReapPersistedProcesses, Preview!Goes, Preview!SetBack,
                                  Preview!visits, PreviewTypes
<1>2. /\ Preview!Unborn \in ServerRecord /\ ~Preview!Unborn.cmd /\ ~Preview!Unborn.done
      /\ Preview!Unborn.state = "stopped"
  BY DEF Preview!Unborn, ServerRecord
<1>3. current = 0 /\ \A v \in Visitors : visit[v].at = "away"
  BY <1>1 DEF PreviewInv, Mapped, Locked
<1>4. Own \subseteq ours
  BY <1>1 DEF PreviewInv, Single
<1> HIDE DEF ours
<1>5. PreviewTypes'
  <2>1. stray' \subseteq Preview!Runs
    BY <1>1, <1>t DEF PreviewTypes, Preview!Alive
  <2>2. root' \in [Preview!Runs -> {"none", "alive", "gone"}]
    BY <1>1, <1>t DEF PreviewTypes
  <2> QED
    BY <2>1, <2>2, <1>1, <1>2, <1>t DEF PreviewTypes
<1>6. Locked'
  BY <1>1, <1>3 DEF Locked
<1>7. Mapped'
  BY <1>1, <1>2, <1>3 DEF Mapped, Preview!Running
<1>8. Single'
  <2>1. Own' = {}
    BY <1>1, <1>4 DEF Own, Preview!Alive
  <2> QED
    BY <2>1, <1>1, <1>3 DEF Single
<1> QED
  BY <1>5, <1>6, <1>7, <1>8 DEF PreviewInv

\* The next daemon cannot read the registry: what it names is astray.
LEMMA RegistryUnreadStep ==
    ASSUME PreviewInv, Preview!RegistryUnread
    PROVE  PreviewInv'
<1>t. PreviewTypes
  BY DEF PreviewInv
<1>1. /\ booting /\ booting' = FALSE /\ setbacks' \in 0..MaxSetbacks /\ unsaved' = TRUE
      /\ stray' = stray \cup (registry \cap Preview!Alive)
      /\ UNCHANGED <<visit, operation, current, server, registry, root, piped, grace>>
  BY <1>t, ServicesAssumption DEF Preview!RegistryUnread, Preview!SetBack, Preview!visits, PreviewTypes
<1>2. \A v \in Visitors : visit[v].at = "away"
  BY <1>1 DEF PreviewInv, Locked
<1>3. PreviewTypes'
  BY <1>1, <1>t DEF PreviewTypes
<1>4. Locked'
  BY <1>1, <1>2 DEF Locked
<1>5. Mapped'
  BY <1>1 DEF PreviewInv, Mapped
<1>6. Own' = {}
  BY <1>1 DEF PreviewInv, Single, Own, Preview!Alive
<1>7. Single'
  BY <1>1, <1>2, <1>6 DEF Single
<1> QED
  BY <1>3, <1>4, <1>5, <1>7 DEF PreviewInv

\* Every step of the previews keeps the invariant.
LEMMA PreviewStep == PreviewInv /\ [Preview!PreviewNext]_previewVars => PreviewInv'
<1> SUFFICES ASSUME PreviewInv, [Preview!PreviewNext]_previewVars PROVE PreviewInv'
  OBVIOUS
<1>1. CASE UNCHANGED previewVars
  <2>1. UNCHANGED <<visit, operation, current, server, root, piped, grace, registry, unsaved, setbacks,
                    booting, stray>>
    BY <1>1 DEF previewVars
  <2>2. PreviewTypes'
    BY <2>1 DEF PreviewInv, PreviewTypes
  <2>3. Locked'
    BY <2>1 DEF PreviewInv, Locked
  <2>4. \A j \in Preview!Runs : server'[j].state = "ready" => ~server'[j].stopping
    BY <2>1 DEF PreviewInv, Mapped
  <2>5. \A w \in Visitors : visit'[w] = visit[w]
    BY <2>1
  <2>6. Mapped' /\ Single'
    BY <2>1, <2>4, <2>5, QuietStep DEF PreviewInv, PreviewTypes
  <2> QED
    BY <2>2, <2>3, <2>6 DEF PreviewInv
<1>2. ASSUME NEW v \in Visitors, NEW kind \in {"start", "stop"}, Preview!Ask(v, kind)
      PROVE  PreviewInv'
  BY <1>2, AskStep
<1>3. ASSUME NEW v \in Visitors, NEW b \in BOOLEAN, Preview!Acquire(v, b) \/ Preview!Spawn(v, b)
      PROVE  PreviewInv'
  BY <1>3, AcquireStep, SpawnStep
<1>4. ASSUME NEW v \in Visitors,
             \/ Preview!StopNothing(v) \/ Preview!Terminate(v) \/ Preview!Reaped(v)
             \/ Preview!ForceKill(v)
      PROVE  PreviewInv'
  BY <1>4, StopNothingStep, TerminateStep, ReapedStep, ForceKillStep
<1>5. ASSUME NEW v \in Visitors,
             \/ Preview!Abandon(v) \/ Preview!StopFails(v) \/ Preview!SpawnFails(v)
             \/ Preview!Record(v)
      PROVE  PreviewInv'
  BY <1>5, GivenUpStep, StopFailsStep, RecordStep
<1>6. ASSUME NEW v \in Visitors,
             \/ Preview!Answers(v) \/ Preview!ProbeEnds(v) \/ Preview!FailAndStop(v)
             \/ Preview!FailKills(v)
      PROVE  PreviewInv'
  BY <1>6, AnswersStep, GivenUpStep, FailAndStopStep, FailKillsStep
<1>7. ASSUME NEW i \in Preview!Runs, NEW held \in BOOLEAN,
             Preview!Exits(i, held) \/ Preview!DescendantEnds(i) \/ Preview!GraceKills(i)
      PROVE  PreviewInv'
  BY <1>7, ExitsStep
<1>8. ASSUME NEW i \in Preview!Runs,
             Preview!WaitForExit(i) \/ Preview!Expire(i) \/ Preview!GraceEnds(i)
      PROVE  PreviewInv'
  BY <1>8, WaitForExitStep, ForgottenStep
<1>9. CASE Preview!Outage
  BY <1>9, OutageStep
<1>10. ASSUME NEW killed \in BOOLEAN, Preview!ReapPersistedProcesses(killed) PROVE PreviewInv'
  BY <1>10, ReapPersistedStep
<1>11. CASE Preview!RegistryUnread
  BY <1>11, RegistryUnreadStep
<1> QED
  BY <1>1, <1>2, <1>3, <1>4, <1>5, <1>6, <1>7, <1>8, <1>9, <1>10, <1>11 DEF Preview!PreviewNext

\* The previews begin in the invariant.
LEMMA PreviewBegins == ServicesInit => PreviewInv
<1> SUFFICES ASSUME ServicesInit PROVE PreviewInv
  OBVIOUS
<1>1. /\ visit = [v \in Visitors |-> Preview!Away] /\ operation = Nobody
      /\ current = 0 /\ server = [i \in Preview!Runs |-> Preview!Unborn] /\ registry = {}
      /\ unsaved = FALSE
      /\ root = [i \in Preview!Runs |-> "none"] /\ piped = {}
      /\ grace = [i \in Preview!Runs |-> "none"]
      /\ setbacks = 0 /\ booting = FALSE /\ stray = {}
  BY DEF ServicesInit, Preview!PreviewInit
<1>2. /\ Preview!Unborn \in ServerRecord /\ ~Preview!Unborn.cmd /\ ~Preview!Unborn.done
      /\ Preview!Unborn.state = "stopped"
  BY DEF Preview!Unborn, ServerRecord
<1>3. Preview!Away \in VisitRecord /\ Preview!Away.at = "away"
  BY ServicesAssumption DEF Preview!Away, VisitRecord
<1>4. PreviewTypes
  <2>1. current \in 0..MaxRuns /\ setbacks \in 0..MaxSetbacks
    BY <1>1, ServicesAssumption
  <2> QED
    BY <2>1, <1>1, <1>2, <1>3 DEF PreviewTypes
<1>5. Locked
  BY <1>1, <1>3 DEF Locked
<1>6. Mapped
  BY <1>1, <1>2, <1>3 DEF Mapped, Preview!Running
<1>7. Single
  <2>1. Own = {}
    BY <1>1 DEF Own, Preview!Alive
  <2> QED
    BY <2>1, <1>1 DEF Single
<1> QED
  BY <1>4, <1>5, <1>6, <1>7 DEF PreviewInv

\* The invariant of the previews holds throughout: the other parts leave them be.
LEMMA PreviewInvariant == Services => []PreviewInv
<1>1. [ServicesNext]_services => [Preview!PreviewNext]_previewVars
  BY DEF ServicesNext, services, desktopVars, previewVars, Notifications, ShellTerminals, Launches,
         ChangeFeed, Nudging, Merging, Previews, BrowserCommands, TerminalViews
<1> QED
  BY <1>1, PreviewBegins, PreviewStep, PTL DEF Services

\* The cardinality that the previews count with is the library's.
LEMMA SameCardinality == \A S : Preview!Cardinality(S) = Cardinality(S)
  BY DEF Preview!Cardinality, Cardinality

\* At most one preview process of the session lives, and it is the one that a
\* stop will find and the registry names unless it could not be written,
\* whoever starts, stops, gives up or dies in between; for any number of
\* requests and processes.
THEOREM OnePreview == Services => []OneServer
<1>1. PreviewInv => OneServer
  <2> SUFFICES ASSUME PreviewInv PROVE OneServer
    OBVIOUS
  <2>1. Cardinality(Own) <= 1
    <3>1. CASE Own = {}
      BY <3>1, FS_EmptySet
    <3>2. CASE Own # {}
      <4>1. PICK i \in Own : TRUE
        BY <3>2
      <4>2. Own = {i}
        BY <4>1 DEF PreviewInv, Single
      <4>3. Cardinality({i}) = 1
        BY FS_Singleton, Zenon
      <4> QED
        BY <4>2, <4>3
    <3> QED
      BY <3>1, <3>2
  <2>2. ASSUME NEW i \in Own
        PROVE  \/ /\ current = i /\ server[i].cmd /\ server[i].state # "stopped"
                  /\ registry = {i} \/ unsaved
               \/ booting /\ i \in registry
               \/ ~Preview!Recorded(i)
    <3>1. i # 0
      BY DEF Own, Preview!Alive, Preview!Runs
    <3> QED
      BY <3>1 DEF PreviewInv, PreviewTypes, Single, Mapped, Preview!Running
  <2>3. \A i \in Preview!Runs : server[i].state = "ready" => ~server[i].stopping
    BY DEF PreviewInv, Mapped
  <2>4. Preview!Cardinality(Own) <= 1
    BY <2>1, SameCardinality
  <2> QED
    BY <2>2, <2>3, <2>4 DEF OneServer, Preview!OneServer, Own
<1> QED
  BY <1>1, PreviewInvariant, PTL

-----------------------------------------------------------------------------
(* Every part                                                              *)

\* The shell terminals keep their invariant in this company as they do alone.
LEMMA ShellsThroughout == Services => []ShellInv
<1>1. ServicesInit => ShellInv
  BY Initially, DaemonAssumption DEF ServicesInit, ShellAssumptions
<1>2. [ServicesNext]_services => [ShellNext]_shellVars
  BY DEF ServicesNext, services, daemonVars, Notifications, ShellTerminals, Launches,
         ChangeFeed, Nudging, Merging, Previews, BrowserCommands, TerminalViews
<1>3. ShellInv /\ [ShellNext]_shellVars => ShellInv'
  BY Inductive, DaemonAssumption DEF ShellAssumptions
<1> QED
  BY <1>1, <1>2, <1>3, PTL DEF Services

\* So does the change feed.
LEMMA FeedThroughout == Services => []FeedInv
<1>1. ServicesInit => FeedInv
  BY FeedInitInv, DaemonAssumption DEF ServicesInit, FeedAssumptions
<1>2. [ServicesNext]_services => [FeedNext]_feedVars
  BY DEF ServicesNext, services, daemonVars, Notifications, ShellTerminals, Launches,
         ChangeFeed, Nudging, Merging, Previews, BrowserCommands, TerminalViews
<1>3. FeedInv /\ [FeedNext]_feedVars => FeedInv'
  BY FeedStepInv, DaemonAssumption DEF FeedAssumptions
<1> QED
  BY <1>1, <1>2, <1>3, PTL DEF Services

\* So do the reactions.
LEMMA NudgingThroughout == Services => []ReactionInv
<1>1. ServicesInit => ReactionInv
  BY ReactionInitInv, DaemonAssumption DEF ServicesInit, ReactionAssumptions
<1>2. [ServicesNext]_services => [ReactionNext]_reactionVars
  BY DEF ServicesNext, services, daemonVars, Notifications, ShellTerminals, Launches,
         ChangeFeed, Nudging, Merging, Previews, BrowserCommands, TerminalViews
<1>3. ReactionInv /\ [ReactionNext]_reactionVars => ReactionInv'
  BY ReactionStepInv, DaemonAssumption DEF ReactionAssumptions
<1> QED
  BY <1>1, <1>2, <1>3, PTL DEF Services

\* The part of a behaviour is one of the nine and stays what it is.
LEMMA PartStays ==
    Services => [](part \in {"notifications", "shells", "launches", "feed", "reactions", "train",
                             "preview", "browser", "mux"})
<1> DEFINE Part == part \in {"notifications", "shells", "launches", "feed", "reactions", "train",
                             "preview", "browser", "mux"}
<1>1. ServicesInit => Part
  BY DEF ServicesInit
<1>2. Part /\ [ServicesNext]_services => Part'
  BY DEF ServicesNext, services, Notifications, ShellTerminals, Launches, ChangeFeed, Nudging,
         Merging, Previews, BrowserCommands, TerminalViews
<1> QED
  BY <1>1, <1>2, PTL DEF Services

\* The types that the invariants carry are the ones the run checks.
LEMMA LaunchesTyped == LaunchInv => Launch!TypeOK
<1> SUFFICES ASSUME LaunchInv PROVE Launch!TypeOK
  OBVIOUS
<1>1. LaunchTypes /\ discarded \subseteq 1..last
  BY DEF LaunchInv, Discarding
<1>2. row.state \in {"active", "idle", "exited"} /\ row.term \in BOOLEAN /\ row.launch \in 0..last
  BY <1>1, ServicesAssumption DEF LaunchTypes, LaunchRow
<1>3. discarded \subseteq Launch!Launches
  BY <1>1, ServicesAssumption DEF LaunchTypes, Launch!Launches
<1> QED
  BY <1>1, <1>2, <1>3 DEF LaunchTypes, Told, Launch!TypeOK

\* The line of the train is a sequence without repetition of the cards that have
\* an admission.
LEMMA TrainTyped == TrainInv => Train!TrainTypeOK
<1> SUFFICES ASSUME TrainInv PROVE Train!TrainTypeOK
  OBVIOUS
<1>1. TrainTypes /\ Lined
  BY DEF TrainInv
<1>2. DOMAIN line = 1..Len(line) /\ \A i \in 1..Len(line) : line[i] \in Cards
  BY <1>1 DEF Lined
<1>3. Train!IsInjective(line)
  BY <1>1, <1>2 DEF Lined, Train!IsInjective
<1>4. Train!ToSet(line) = {c \in Cards : card[c].adm # "none"}
  BY <1>1, <1>2 DEF Lined, Train!ToSet
<1>5. \A c \in Cards : arb[c].status \in Train!Busy \cup {"none", "hold", "human_gate", "failed", "succeeded"}
  BY <1>1 DEF TrainTypes, ArbRecord, Statuses
<1> QED
  BY <1>1, <1>3, <1>4, <1>5 DEF TrainTypes, CardRecord, EngineRecord, Train!TrainTypeOK

\* The frames of a connection are frames.
LEMMA BrowserTyped == BrokerInv => Browser!BrokerTypeOK
<1> SUFFICES ASSUME BrokerInv PROVE Browser!BrokerTypeOK
  OBVIOUS
<1>1. BrokerTypes
  BY DEF BrokerInv
<1>2. ASSUME NEW k \in Browser!Sockets
      PROVE  /\ Browser!ToSet(outgoing[k]) \subseteq [type : {"command", "cancel", "torn"}, of : Requests]
             /\ replies[k] \subseteq Requests
  <2>1. outgoing[k] \in Seq(Frame) /\ replies[k] \in SUBSET Requests
    BY <1>1 DEF BrokerTypes
  <2>2. \A i \in DOMAIN outgoing[k] : outgoing[k][i] \in Frame
    BY <2>1
  <2> QED
    BY <2>1, <2>2 DEF Frame, Browser!ToSet
<1> QED
  BY <1>1, <1>2 DEF BrokerTypes, Browser!BrokerTypeOK

\* The keys of a stream stand in four places.
LEMMA ViewsTyped == MuxInv => Mux!MuxTypeOK
<1> SUFFICES ASSUME MuxInv PROVE Mux!MuxTypeOK
  OBVIOUS
<1>1. MuxTypes
  BY DEF MuxInv
<1>2. \A a \in Mux!Taps : DOMAIN input[a] = {"taken", "pending", "batch", "delivered"}
  BY <1>1 DEF MuxTypes, Keys
<1> QED
  BY <1>1, <1>2 DEF MuxTypes, MemberRecord, TapRecord, Places, Mux!MuxTypeOK

\* Every value of every part has its type, whichever part a behaviour is of.
THEOREM EveryPartTyped == Services => []ServicesTypeOK
<1> DEFINE Part == part \in {"notifications", "shells", "launches", "feed", "reactions", "train",
                             "preview", "browser", "mux"}
<1>1. PreviewInv => Preview!PreviewTypeOK
  BY DEF PreviewInv, PreviewTypes, VisitRecord, ServerRecord, Preview!PreviewTypeOK
<1>2. NeedsInputInv => TypeOK
  BY DEF NeedsInputInv
<1>3. ShellInv => ShellTypeOK
  BY DEF ShellInv
<1>4. FeedInv => FeedTypeOK
  BY DEF FeedInv
<1>5. ReactionInv => ReactionTypeOK
  BY DEF ReactionInv
<1>6. Part /\ TypeOK /\ ShellTypeOK /\ Launch!TypeOK /\ FeedTypeOK /\ ReactionTypeOK
        /\ Train!TrainTypeOK /\ Preview!PreviewTypeOK /\ Browser!BrokerTypeOK /\ Mux!MuxTypeOK
        => ServicesTypeOK
  BY DEF ServicesTypeOK
<1> QED
  BY <1>1, <1>2, <1>3, <1>4, <1>5, <1>6, PartStays, LaunchesTyped, TrainTyped, BrowserTyped,
     ViewsTyped, NeedsInputInvariant, ShellsThroughout, LaunchInvariant, FeedThroughout,
     NudgingThroughout, TrainInvariant, PreviewInvariant, BrokerInvariant, MuxInvariant, PTL
=============================================================================
