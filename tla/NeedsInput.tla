----------------------------- MODULE NeedsInput -----------------------------
(***************************************************************************)
(* The needs-input notifications of one session.  The reducer decides them *)
(* under its mutex, but the notification store is written after the mutex  *)
(* is released, by whichever handler took the step: the writes of two      *)
(* handlers can pass each other, fail, or be cut off by a crash.  A row is *)
(* seen (read) and settled (resolved) independently; at boot Reconcile     *)
(* settles what was left open by a session that no longer waits.           *)
(***************************************************************************)
EXTENDS Integers, FiniteSets, Sequences

CONSTANTS
    MaxPauses,   \* bound: transitions into the needs-input family
    MaxDropped   \* bound: failed writes and crashes

ASSUME NeedsInputAssumption == MaxPauses \in Nat /\ MaxDropped \in Nat

VARIABLES
    state, term,  \* the session row: Activity.State and IsTerminated
    calls,        \* notification writes on their way, as [at, kind]
    clock,        \* handlers that have left the mutex with a write to make
    pauses, dropped,
    rows,         \* the notification rows, as [read, resolved]
    raced,        \* a write passed an older one
    lost,         \* a write failed or died with the daemon
    muted         \* a notification was folded into a row already resolved

vars == <<state, term, calls, clock, pauses, dropped, rows, raced, lost, muted>>

States == {"active", "idle", "waiting_input", "blocked", "exited"}
Waits(s) == s \in {"waiting_input", "blocked"}

Waiting == Waits(state) /\ ~term
Open(r) == ~r.read \/ ~r.resolved

Init ==
    /\ state = "idle" /\ term = FALSE
    /\ calls = {} /\ clock = 0 /\ pauses = 0 /\ dropped = 0
    /\ rows = <<>>
    /\ raced = FALSE /\ lost = FALSE /\ muted = FALSE

-----------------------------------------------------------------------------
(* The reducer                                                             *)

\* Seeded fault: a session that ends keeps its notification.
ResolutionsOfAnswer(next, ended) ==
    IF Waits(state) /\ ~Waits(next) /\ ~ended THEN {"resolve"} ELSE {}

\* What a write of the row owes the notification store: a ping on entering
\* the family, a resolution on leaving it or ending.
Resolutions(next, ended) ==
    IF Waits(state) /\ ~(Waits(next) /\ ~ended) THEN {"resolve"} ELSE {}

\* Seeded fault: only a turn that was running is announced.
IntentsFromActive(next) == IF state = "active" /\ Waits(next) THEN {"notify"} ELSE {}

Intents(next) == IF ~Waits(state) /\ Waits(next) THEN {"notify"} ELSE {}

Write(next, ended, kinds) ==
    /\ state' = next /\ term' = ended
    /\ calls' = calls \cup {[at |-> clock, kind |-> k] : k \in kinds}
    /\ clock' = clock + Cardinality(kinds)
    /\ UNCHANGED <<dropped, rows, raced, lost, muted>>

ApplyActivitySignal(next) ==
    /\ ~term /\ next # state
    /\ state = "exited" => next \in {"active", "idle"}
    /\ pauses' = IF Waits(next) /\ ~Waits(state) THEN pauses + 1 ELSE pauses
    /\ pauses' <= MaxPauses
    /\ Write(next, FALSE, Resolutions(next, FALSE) \cup Intents(next))

\* Seeded fault: the activity of a terminated session is kept.
MarkTerminatedActive ==
    /\ ~term
    /\ Write(state, TRUE, Resolutions("exited", TRUE))
    /\ UNCHANGED pauses

MarkTerminated ==
    /\ ~term
    /\ Write("exited", TRUE, Resolutions("exited", TRUE))
    /\ UNCHANGED pauses

\* A restore emits nothing.
MarkSpawned ==
    /\ term
    /\ Write("idle", FALSE, {})
    /\ UNCHANGED pauses

-----------------------------------------------------------------------------
(* The notification store                                                  *)

\* Seeded fault: rows are deduplicated by their read flag alone.
UnreadRows == {i \in DOMAIN rows : ~rows[i].read}

OpenRows == {i \in DOMAIN rows : Open(rows[i])}
Unresolved == {i \in DOMAIN rows : ~rows[i].resolved}

Settle(mine) == [i \in DOMAIN rows |-> IF i \in mine THEN [rows[i] EXCEPT !.resolved = TRUE]
                                                 ELSE rows[i]]

Taken(c) ==
    /\ calls' = calls \ {c}
    /\ raced' = (raced \/ \E older \in calls : older.at < c.at)
    /\ UNCHANGED <<state, term, clock, pauses, dropped, lost>>

Notify(c) ==
    /\ c.kind = "notify" /\ Taken(c)
    /\ IF OpenRows = {}
         THEN rows' = Append(rows, [read |-> FALSE, resolved |-> FALSE]) /\ muted' = FALSE
         ELSE rows' = rows /\ muted' = (OpenRows \cap Unresolved = {})

Resolve(c) ==
    /\ c.kind = "resolve" /\ Taken(c)
    /\ rows' = Settle(Unresolved) /\ muted' = muted

\* A failed write is logged and forgotten.
Fail(c) ==
    /\ dropped < MaxDropped
    /\ calls' = calls \ {c} /\ dropped' = dropped + 1 /\ lost' = TRUE
    /\ UNCHANGED <<state, term, clock, pauses, rows, raced, muted>>

MarkNotificationRead(i) ==
    /\ ~rows[i].read
    /\ rows' = [rows EXCEPT ![i].read = TRUE]
    /\ UNCHANGED <<state, term, calls, clock, pauses, dropped, raced, lost, muted>>

-----------------------------------------------------------------------------
\* ReconcileResolvedNotifications
Reconciled == IF ~Waiting THEN Settle(Unresolved) ELSE rows

\* The daemon dies with the writes it had not made; it serves nothing before
\* Reconcile has run.
Restart ==
    /\ dropped < MaxDropped
    /\ dropped' = dropped + 1
    /\ calls' = {} /\ rows' = Reconciled
    /\ lost' = (Waiting /\ (lost \/ calls # {})) /\ raced' = (Waiting /\ raced)
    /\ UNCHANGED <<state, term, clock, pauses, muted>>

Next ==
    \/ \E s \in States : ApplyActivitySignal(s)
    \/ MarkTerminated \/ MarkSpawned
    \/ \E c \in calls : Notify(c) \/ Resolve(c) \/ Fail(c)
    \/ \E i \in DOMAIN rows : MarkNotificationRead(i)
    \/ Restart

Spec == Init /\ [][Next]_vars

-----------------------------------------------------------------------------
TypeOK ==
    /\ state \in States /\ term \in BOOLEAN
    /\ calls \subseteq [at : 0..clock, kind : {"notify", "resolve"}]
    /\ clock \in Nat /\ pauses \in 0..MaxPauses /\ dropped \in 0..MaxDropped
    /\ term => state = "exited"
    /\ rows \in Seq([read : BOOLEAN, resolved : BOOLEAN])
    /\ raced \in BOOLEAN /\ lost \in BOOLEAN /\ muted \in BOOLEAN

\* However its handlers interleave, a session has at most one row the user has
\* still to see or to settle: the panel never shows the same pause twice.
OneOpenRow == \A i, j \in DOMAIN rows : Open(rows[i]) /\ Open(rows[j]) => i = j

\* Once the writes have landed, the unresolved list tells whether the session
\* waits.  One that no longer does (answered, ended, or reconciled at boot)
\* leaves nothing in it, unless a ping was overtaken by its own resolution or a
\* resolution was lost; one that waits is in it, unless writes passed each
\* other, one was lost, or the ping was folded into a row that is resolved but
\* not read.
ListTellsThePause ==
    calls = {} /\ ~raced /\ ~lost =>
        IF Waiting THEN muted \/ Unresolved # {} ELSE Unresolved = {}

\* "Dedupe is keyed on the issue being open ... only resolving it reopens
\* dedupe": a pause that follows a resolved one is listed, read or unread.
ResolvingReopensDedupe == calls = {} /\ Waiting /\ ~raced /\ ~lost => Unresolved # {}
=============================================================================
