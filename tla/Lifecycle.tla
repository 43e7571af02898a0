----------------------------- MODULE Lifecycle -----------------------------
(***************************************************************************)
(* The lifecycle reducer: how one observation turns the durable session    *)
(* row and the in-memory tool flight into the next row and flight.  Every  *)
(* operator is one critical section of lifecycle.Manager (its mutex is     *)
(* held from the read of the row to its write), so the modules that embed  *)
(* the reducer take each of them as one atomic step.                       *)
(*                                                                         *)
(* A row keeps the facts the reducer reads and writes:                     *)
(*   state   Activity.State            at     Activity.LastActivityAt      *)
(*   term    IsTerminated              first  FirstSignalAt is set         *)
(*   launch  Metadata.RuntimeLaunchID  agent  Metadata.AgentSessionID      *)
(* A signal is [valid, state, event, tool, name, launch, agent, at, probe, *)
(* stale]: probe says that ExpectedUpdatedAt is set, stale that it differs *)
(* from the row's UpdatedAt.  A missing entry of m.flights and an empty    *)
(* toolFlight behave alike in the code and are one value here,             *)
(* EmptyFlight.                                                            *)
(***************************************************************************)
EXTENDS Integers, FiniteSets

CONSTANTS
    Tools,        \* tool-use ids
    Names,        \* tool names
    NoTool,       \* the empty tool-use id
    NoName,       \* the empty tool name
    NoLaunch,     \* the empty launch id
    NoAgent,      \* the empty native agent session id
    MaxInflight,  \* maxInflightTools
    Window        \* the recent-activity window

ASSUME ReducerAssumption ==
    /\ NoTool \notin Tools
    /\ NoName \notin Names
    /\ MaxInflight \in Nat \ {0}
    /\ Window \in Nat

ActivityStates == {"active", "idle", "waiting_input", "blocked", "exited"}

NeedsInput(state) == state \in {"waiting_input", "blocked"}

Flights == [inflight : [Tools -> Names \cup {NoName}],
            candidate : Tools \cup {NoTool}]

EmptyFlight == [inflight |-> [t \in Tools |-> NoName], candidate |-> NoTool]

InFlight(fl) == {t \in Tools : fl.inflight[t] # NoName}

\* Seeded fault: the end of a turn is not taken for one.
TurnBoundaryWithoutStop == {"user-prompt-submit", "session-end", "process-exited"}

ToolEvents == {"pre-tool-use", "post-tool-use", "post-tool-use-failure"}
PostEvents == {"post-tool-use", "post-tool-use-failure"}
TurnBoundaryEvents == {"user-prompt-submit", "stop", "session-end", "process-exited"}

-----------------------------------------------------------------------------
(* applyToolPrecedenceLocked                                               *)

\* The tracking side effects: a pre opens the tool's entry (after emptying a
\* map that reached its cap), a post closes it.
Tracked(fl, s) ==
    IF s.event = "pre-tool-use" /\ s.tool # NoTool
      THEN LET kept == IF Cardinality(InFlight(fl)) >= MaxInflight
                         THEN EmptyFlight.inflight ELSE fl.inflight
           IN  [fl EXCEPT !.inflight = [kept EXCEPT ![s.tool] = s.name]]
    ELSE IF s.event \in PostEvents /\ s.tool # NoTool
      THEN [fl EXCEPT !.inflight[s.tool] = NoName]
    ELSE fl

\* Seeded fault: the first tool use of the dialog's name is taken for its own.
CandidateFirst(fl, name) ==
    LET same == {t \in Tools : fl.inflight[t] = name}
    IN  IF same = {} THEN NoTool ELSE CHOOSE t \in same : TRUE

\* The dialog's tool: the one in-flight tool that bears the dialog's name,
\* none when no tool or more than one does.
Candidate(fl, name) ==
    LET same == {t \in Tools : fl.inflight[t] = name}
    IN  IF \E t \in same : same = {t} THEN CHOOSE t \in same : TRUE ELSE NoTool

\* Seeded fault: the duplicate that names no tool wipes the snapshot.
SnapshotWiped(fl, s) ==
    [fl EXCEPT !.candidate = IF s.name = NoName THEN NoTool ELSE Candidate(fl, s.name)]

\* Seeded fault: the snapshot keeps the tool's name in place of its id.
SnapshotByName(fl, s) ==
    IF s.name = NoName THEN fl ELSE [fl EXCEPT !.candidate = s.name]

\* A dialog appeared: a payload that names its tool recomputes the snapshot,
\* one that does not keeps it.
Snapshot(fl, s) ==
    IF s.name = NoName THEN fl
    ELSE [fl EXCEPT !.candidate = Candidate(fl, s.name)]

Correlated(fl, s) ==
    s.event \in PostEvents /\ fl.candidate # NoTool /\ s.tool = fl.candidate

\* What the rule makes of a signal: the flight after it and whether the
\* state write may proceed.
ApplyToolPrecedence(fl, state, s) ==
    LET f == Tracked(fl, s)
        boundary == s.event \in TurnBoundaryEvents
    IN  IF s.event = "" THEN [flight |-> fl, pass |-> TRUE]
        ELSE IF s.state = "blocked"
          THEN [flight |-> Snapshot(f, s), pass |-> TRUE]
        ELSE IF boundary
          THEN [flight |-> EmptyFlight, pass |-> TRUE]
        ELSE IF state = "blocked"
          THEN IF Correlated(f, s)
                 THEN [flight |-> [f EXCEPT !.candidate = NoTool], pass |-> TRUE]
                 ELSE [flight |-> f, pass |-> FALSE]
        ELSE [flight |-> f,
              pass |-> ~(state = "waiting_input" /\ s.event \in ToolEvents)]

-----------------------------------------------------------------------------
(* ApplyActivitySignal                                                     *)

SuccessfulProcessExit(row, s) ==
    /\ s.event = "process-exited" /\ s.state = "idle"
    /\ s.launch # NoLaunch /\ s.launch = row.launch

\* Signals of another generation, and terminal observations the row has
\* moved past, are dropped.
Fenced(row, s) ==
    \/ s.launch # NoLaunch /\ s.launch # row.launch
    \/ s.probe /\ (row.state # "active" \/ s.stale)

\* A delayed callback of an agent that already exited: only the submission
\* of a prompt, another exit or the clean end of the process gets through.
AfterExit(row, s) ==
    /\ row.state = "exited" /\ s.state # "exited"
    /\ ~(s.state = "active" /\ s.event = "user-prompt-submit")
    /\ ~SuccessfulProcessExit(row, s)

MetadataChanged(row, s) == s.agent # NoAgent /\ s.agent # row.agent

WithAgent(row, s) == IF MetadataChanged(row, s) THEN [row EXCEPT !.agent = s.agent] ELSE row

\* Same-state repeats are not written, unless they are the first signal of
\* this spawn.
Repeats(row, s) == row.state = s.state /\ row.first

\* Seeded fault: a success leaves the launch in the row.
RecordedSupervised(row, s) == [row EXCEPT !.state = s.state, !.at = s.at, !.first = TRUE]

\* The row after a signal that passed the rule.
Recorded(row, s) ==
    [row EXCEPT !.state = s.state, !.at = s.at, !.first = TRUE,
                !.launch = IF SuccessfulProcessExit(row, s) THEN NoLaunch ELSE @]

\* A reduction: the row and the flight after it, and whether UpdatedAt moved.
Outcome(row, fl, wrote) == [row |-> row, flight |-> fl, wrote |-> wrote]

ApplyActivitySignal(row, fl, s) ==
    LET rule == ApplyToolPrecedence(fl, row.state, s)
        named == WithAgent(row, s)
    IN  IF ~s.valid /\ s.agent = NoAgent THEN Outcome(row, fl, FALSE)
        ELSE IF row.term THEN Outcome(row, EmptyFlight, FALSE)
        ELSE IF Fenced(row, s) THEN Outcome(row, fl, FALSE)
        ELSE IF SuccessfulProcessExit(row, s) /\ NeedsInput(row.state)
          THEN Outcome([row EXCEPT !.launch = NoLaunch], fl, TRUE)
        ELSE IF s.valid /\ AfterExit(row, s) THEN Outcome(row, fl, FALSE)
        ELSE IF ~s.valid THEN Outcome(named, fl, MetadataChanged(row, s))
        ELSE IF ~rule.pass THEN Outcome(named, rule.flight, MetadataChanged(row, s))
        ELSE IF Repeats(row, s)
          THEN Outcome(named, rule.flight,
                       MetadataChanged(row, s) \/ s.event = "user-prompt-submit")
        ELSE Outcome(Recorded(named, s),
                     IF s.state = "exited" THEN EmptyFlight ELSE rule.flight, TRUE)

-----------------------------------------------------------------------------
(* ApplyRuntimeObservation, MarkSpawned, MarkTerminated                    *)

HasRecentActivity(row, observedAt) ==
    /\ row.state # "exited"
    /\ NeedsInput(row.state) \/ observedAt - row.at <= Window

\* Seeded fault: the launch that was probed is not compared.
ObservationFencedByTerm(row, f) == row.term

ObservationFenced(row, f) ==
    row.term \/ (row.launch # NoLaunch /\ f.launch # row.launch)

\* The supervised agent is gone while its terminal lives on.
WorkloadDead(row, f) ==
    row.launch # NoLaunch /\ f.runtime = "alive" /\ f.workload = "dead"

RuntimeClearlyDead(row, f) ==
    f.runtime = "dead" /\ ~HasRecentActivity(row, f.at)

ApplyRuntimeObservation(row, fl, f) ==
    IF ObservationFenced(row, f) THEN Outcome(row, fl, FALSE)
    ELSE IF WorkloadDead(row, f)
      THEN IF row.state = "exited" THEN Outcome(row, fl, FALSE)
           ELSE Outcome([row EXCEPT !.state = "exited", !.at = f.at], EmptyFlight, TRUE)
    ELSE IF RuntimeClearlyDead(row, f)
      THEN Outcome([row EXCEPT !.term = TRUE, !.state = "exited", !.at = f.at],
                   EmptyFlight, TRUE)
    ELSE Outcome(row, fl, FALSE)

MarkSpawned(row, launch, now) ==
    [row EXCEPT !.term = FALSE, !.state = "idle", !.at = now, !.first = FALSE,
                !.launch = launch]

MarkTerminated(row, fl, now) ==
    IF row.term THEN Outcome(row, fl, FALSE)
    ELSE Outcome([row EXCEPT !.term = TRUE, !.state = "exited", !.at = now],
                 EmptyFlight, TRUE)
=============================================================================
