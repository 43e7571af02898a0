-------------------------- MODULE ToolFlightProofs --------------------------
(***************************************************************************)
(* NoSpuriousClear for any number of tool uses and names, any cap, lossy   *)
(* or reliable hooks and any number of restarts.                           *)
(*                                                                         *)
(* The invariant is not inductive: it says nothing of the flight, and a    *)
(* post lifts the block when its tool is the candidate.  What has to be    *)
(* carried is that the candidate of a reported dialog is the dialog's own  *)
(* tool use, or one whose post hook will never run (Candidacy); that an    *)
(* entry of the map bears its tool use's name and was opened by it         *)
(* (Entries); and that as long as nothing was missed every tool use that   *)
(* can ask still has its entry, so that a sibling makes it ambiguous       *)
(* (Complete).                                                             *)
(*                                                                         *)
(* That the post of the tool lifts the block (PostLiftsBlock) needs the    *)
(* converse: as long as the row is blocked and the tool of the dialog that *)
(* was reported last has its post to come, it is the candidate (Awaited).  *)
(* It became one because the entry of a tool use is closed by its post     *)
(* (Closed): what bears the dialog's name in the map is open, and alone.   *)
(***************************************************************************)
EXTENDS ToolFlight, TLAPS

\* A tool use whose post hook cannot run any more.
Spent == {u \in Tools : phase[u] \in {"done", "denied"}}

Entries ==
    \A u \in Tools : flight.inflight[u] # NoName =>
        flight.inflight[u] = NameOf[u] /\ phase[u] # "unused"

Complete ==
    ~missed /\ ~row.term => \A u \in Tools :
        phase[u] \in {"requested", "asking"} => flight.inflight[u] = NameOf[u]

Dialog ==
    /\ \A u \in Tools : phase[u] = "asking" <=> u = dialog
    /\ row.state = "exited" => row.term \/ turn = "gone"
    /\ turn = "gone" => dialog = NoTool /\ \A u \in Tools : phase[u] # "requested"

Candidacy ==
    dialog # NoTool /\ reported /\ (alone \/ ~missed) =>
        /\ StillBlocked
        /\ flight.candidate \in {NoTool, dialog} \cup Spent

Inv == TypeOK /\ Entries /\ Complete /\ Dialog /\ Candidacy
-----------------------------------------------------------------------------
(* What the reducer does with the hooks of this agent                      *)

Events == {"pre-tool-use", "post-tool-use", "post-tool-use-failure", "permission-request",
           "notification", "user-prompt-submit", "stop", "terminal-idle"}

Hooks == [valid : {TRUE}, state : {"active", "idle", "waiting_input", "blocked"},
          event : Events, tool : Tools \cup {NoTool}, name : Names \cup {NoName},
          launch : {NoLaunch}, agent : {NoAgent}, at : {0}, probe : BOOLEAN, stale : BOOLEAN]

LEMMA SpawnedType == Spawned \in Rows /\ EmptyFlight \in Flights
BY ToolFlightAssumption, ReducerAssumption
   DEF Spawned, MarkSpawned, Rows, ActivityStates, EmptyFlight, Flights

LEMMA EmptyEntries == \A u \in Tools : EmptyFlight.inflight[u] = NoName
BY DEF EmptyFlight

\* The rule: a flight stays a flight.
LEMMA RuleType ==
    ASSUME NEW fl \in Flights, NEW s \in Hooks, NEW state \in ActivityStates
    PROVE  /\ ApplyToolPrecedence(fl, state, s).flight \in Flights
           /\ ApplyToolPrecedence(fl, state, s).pass \in BOOLEAN
<1> USE ReducerAssumption DEF Flights, Hooks
<1>1. Tracked(fl, s) \in Flights
  BY DEF Tracked, EmptyFlight
<1>2. ASSUME NEW f \in Flights PROVE Snapshot(f, s) \in Flights
  BY <1>2 DEF Snapshot, Candidate
<1>3. EmptyFlight \in Flights
  BY DEF EmptyFlight
<1> QED
  BY <1>1, <1>2, <1>3 DEF ApplyToolPrecedence, Correlated

\* The cases of ApplyActivitySignal for these hooks: the session ended, the
\* signal is fenced off, the rule suppresses it, or the row takes its state.
LEMMA Applied ==
    ASSUME NEW r \in Rows, NEW fl \in Flights, NEW s \in Hooks,
           r.state = "exited" => r.term \/ s.probe
    PROVE  LET out == ApplyActivitySignal(r, fl, s)
               rule == ApplyToolPrecedence(fl, r.state, s)
           IN  \/ r.term /\ out.row = r /\ out.flight = EmptyFlight
               \/ ~r.term /\ s.probe /\ out.row = r /\ out.flight = fl
               \/ ~r.term /\ ~rule.pass /\ out.row = r /\ out.flight = rule.flight
               \/ /\ ~r.term /\ rule.pass /\ (s.probe => r.state = "active")
                  /\ out.row \in Rows /\ ~out.row.term /\ out.row.state = s.state
                  /\ out.flight = rule.flight
<1> DEFINE rule == ApplyToolPrecedence(fl, r.state, s)
<1> USE DEF Rows, Hooks, ActivityStates
<1>1. ~SuccessfulProcessExit(r, s) /\ ~MetadataChanged(r, s) /\ WithAgent(r, s) = r
  BY DEF SuccessfulProcessExit, MetadataChanged, WithAgent
<1>2. Recorded(r, s) \in Rows /\ Recorded(r, s).state = s.state /\ Recorded(r, s).term = r.term
  BY <1>1 DEF Recorded
<1>3. CASE r.term
  BY <1>3 DEF ApplyActivitySignal, Outcome
<1>4. CASE ~r.term /\ Fenced(r, s)
  <2>1. s.probe
    BY <1>4 DEF Fenced
  <2> QED
    BY <1>4, <2>1 DEF ApplyActivitySignal, Outcome
<1>5. CASE ~r.term /\ ~Fenced(r, s)
  <2>1. ~AfterExit(r, s)
    BY <1>5 DEF AfterExit, Fenced
  <2>2. s.probe => r.state = "active"
    BY <1>5 DEF Fenced
  <2>3. CASE ~rule.pass
    BY <1>1, <1>5, <2>1, <2>3 DEF ApplyActivitySignal, Outcome
  <2>4. CASE rule.pass /\ Repeats(r, s)
    BY <1>1, <1>5, <2>1, <2>2, <2>4 DEF ApplyActivitySignal, Outcome, Repeats
  <2>5. CASE rule.pass /\ ~Repeats(r, s)
    BY <1>1, <1>2, <1>5, <2>1, <2>2, <2>5 DEF ApplyActivitySignal, Outcome
  <2> QED
    BY <2>3, <2>4, <2>5
<1> QED
  BY <1>3, <1>4, <1>5

LEMMA SignalType ==
    ASSUME NEW event \in Events, NEW state \in {"active", "idle", "waiting_input", "blocked"},
           NEW tool \in Tools \cup {NoTool}, NEW name \in Names \cup {NoName}
    PROVE  LET s == Signal(event, state, tool, name)
           IN  /\ s \in Hooks /\ s.event = event /\ s.state = state /\ s.tool = tool
               /\ s.name = name /\ ~s.probe
BY DEF Signal, Hooks

\* What a hook that is not a turn boundary makes of a row and its flight.
Within(r, fl, s, out) ==
    /\ out.row \in Rows /\ out.flight \in Flights
    /\ out.row.term = r.term
    /\ r.term => out.flight = EmptyFlight
    /\ ~r.term => out.flight.inflight = Tracked(fl, s).inflight
    /\ ~r.term /\ s.state = "blocked" =>
         out.row.state = "blocked" /\ out.flight = Snapshot(Tracked(fl, s), s)
    /\ ~r.term /\ s.state # "blocked" /\ r.state = "blocked"
         /\ ~(s.event \in PostEvents /\ s.tool = fl.candidate) =>
         out.row = r /\ out.flight.candidate = fl.candidate

\* A hook that is not a turn boundary: it tracks its tool, it never clears a
\* block unless it is the candidate's post, and a dialog snapshots its tool.
LEMMA WithinTurn ==
    ASSUME NEW r \in Rows, NEW fl \in Flights, NEW s \in Hooks,
           r.state = "exited" => r.term \/ s.probe,
           s.event \notin TurnBoundaryEvents \cup {""},
           s.probe => s.event \notin ToolEvents /\ s.state # "blocked"
    PROVE  Within(r, fl, s, ApplyActivitySignal(r, fl, s))
<1> DEFINE out == ApplyActivitySignal(r, fl, s)
           rule == ApplyToolPrecedence(fl, r.state, s)
<1>1. r.state \in ActivityStates
  BY DEF Rows
<1>2. rule.flight \in Flights /\ rule.pass \in BOOLEAN
  BY <1>1, RuleType
<1>3. Tracked(fl, s) \in Flights /\ Tracked(fl, s).candidate = fl.candidate
  BY ReducerAssumption DEF Tracked, Flights, Hooks, EmptyFlight
<1>4. s.probe => Tracked(fl, s) = fl
  BY DEF Tracked, ToolEvents, PostEvents
<1>5. rule.flight.inflight = Tracked(fl, s).inflight
  BY <1>3 DEF ApplyToolPrecedence, Snapshot, Flights
<1>6. s.state = "blocked" => rule.pass /\ rule.flight = Snapshot(Tracked(fl, s), s)
  BY DEF ApplyToolPrecedence
<1>7. r.state = "blocked" /\ s.state # "blocked"
        /\ ~(s.event \in PostEvents /\ s.tool = fl.candidate)
        => ~rule.pass /\ rule.flight = Tracked(fl, s)
  BY <1>3 DEF ApplyToolPrecedence, Correlated
<1>8. EmptyFlight \in Flights
  BY SpawnedType
<1>9. \/ r.term /\ out.row = r /\ out.flight = EmptyFlight
      \/ ~r.term /\ s.probe /\ out.row = r /\ out.flight = fl
      \/ ~r.term /\ ~rule.pass /\ out.row = r /\ out.flight = rule.flight
      \/ /\ ~r.term /\ rule.pass /\ (s.probe => r.state = "active")
         /\ out.row \in Rows /\ ~out.row.term /\ out.row.state = s.state
         /\ out.flight = rule.flight
  BY Applied
<1> HIDE DEF out, rule
<1> QED
  BY <1>2, <1>3, <1>4, <1>5, <1>6, <1>7, <1>8, <1>9 DEF out, Rows, Within

\* A turn boundary empties the flight.
LEMMA AtTurnBoundary ==
    ASSUME NEW r \in Rows, NEW fl \in Flights, NEW s \in Hooks,
           r.state = "exited" => r.term,
           s.event \in TurnBoundaryEvents, s.state # "blocked", ~s.probe
    PROVE  LET out == ApplyActivitySignal(r, fl, s)
           IN  /\ out.row \in Rows /\ out.flight = EmptyFlight
               /\ out.row.term = r.term /\ (out.row.state = "exited" => out.row.term)
<1> DEFINE out == ApplyActivitySignal(r, fl, s)
           rule == ApplyToolPrecedence(fl, r.state, s)
<1>1. rule.pass /\ rule.flight = EmptyFlight
  BY DEF ApplyToolPrecedence, TurnBoundaryEvents
<1>2. \/ r.term /\ out.row = r /\ out.flight = EmptyFlight
      \/ ~r.term /\ s.probe /\ out.row = r /\ out.flight = fl
      \/ ~r.term /\ ~rule.pass /\ out.row = r /\ out.flight = rule.flight
      \/ /\ ~r.term /\ rule.pass /\ (s.probe => r.state = "active")
         /\ out.row \in Rows /\ ~out.row.term /\ out.row.state = s.state
         /\ out.flight = rule.flight
  BY Applied
<1>3. s.state # "exited"
  BY DEF Hooks
<1> HIDE DEF out, rule
<1> QED
  BY <1>1, <1>2, <1>3 DEF out, Rows

\* The probes of the reaper end a session, or leave it as it is; they never
\* end one that is blocked.
LEMMA Observed ==
    ASSUME NEW r \in Rows, NEW fl \in Flights, NEW runtime, NEW at \in {0, Window + 1}
    PROVE  LET out == ApplyRuntimeObservation(r, fl,
                        [runtime |-> runtime, workload |-> "unknown", launch |-> NoLaunch, at |-> at])
           IN  \/ out.row = r /\ out.flight = fl
               \/ /\ r.state # "blocked" /\ out.row \in Rows /\ out.row.term
                  /\ out.flight = EmptyFlight
BY DEF ApplyRuntimeObservation, ObservationFenced, WorkloadDead, RuntimeClearlyDead,
       HasRecentActivity, NeedsInput, Outcome, Rows, ActivityStates
-----------------------------------------------------------------------------
(* The inductive invariant                                                 *)

\* What the delivery of a hook within a turn does to the state.
LEMMA Delivered ==
    ASSUME Inv, NEW s \in Hooks, s.event \notin TurnBoundaryEvents \cup {""},
           s.probe => s.event \notin ToolEvents /\ s.state # "blocked",
           s.probe \/ turn # "gone", Deliver(s)
    PROVE  /\ row' \in Rows /\ flight' \in Flights
           /\ row'.term = row.term /\ (row'.state = "exited" => row'.term \/ turn = "gone")
           /\ row.term => flight' = EmptyFlight
           /\ ~row.term => flight'.inflight = Tracked(flight, s).inflight
           /\ ~row.term /\ s.state = "blocked" =>
                row'.state = "blocked" /\ flight' = Snapshot(Tracked(flight, s), s)
           /\ ~row.term /\ s.state # "blocked" /\ row.state = "blocked"
                /\ ~(s.event \in PostEvents /\ s.tool = flight.candidate) =>
                row' = row /\ flight'.candidate = flight.candidate
<1>1. row \in Rows /\ flight \in Flights /\ (row.state = "exited" => row.term \/ s.probe)
  BY DEF Inv, TypeOK, Dialog
<1> DEFINE out == ApplyActivitySignal(row, flight, s)
<1>2. row' = out.row /\ flight' = out.flight
  BY DEF Deliver
<1>3. Within(row, flight, s, out)
  BY <1>1, WithinTurn
<1>4. out.row.state = "exited" => out.row.term \/ turn = "gone"
  <2>1. CASE turn = "gone"
    BY <2>1
  <2>2. CASE turn # "gone"
    <3>1. row.state = "exited" => row.term
      BY <2>2 DEF Inv, Dialog
    <3>2. \/ out.row = row
          \/ out.row.state = s.state
      BY <1>1, Applied
    <3>3. s.state # "exited"
      BY DEF Hooks
    <3> HIDE DEF out
    <3> QED
      BY <1>3, <3>1, <3>2, <3>3 DEF Within
  <2> QED
    BY <2>1, <2>2
<1> HIDE DEF out
<1> QED
  BY <1>2, <1>3, <1>4 DEF Within

\* A hook that is no tool's and shows no dialog disturbs nothing.
LEMMA Quiet ==
    ASSUME Inv, NEW s \in Hooks, s.event \notin TurnBoundaryEvents \cup ToolEvents \cup {""},
           s.state # "blocked", s.probe \/ turn # "gone", Deliver(s), missed' = missed,
           UNCHANGED <<agentVars, dialogVars, restarts>>
    PROVE  Inv'
<1>1. Tracked(flight, s) = flight /\ s.event \notin PostEvents
  BY DEF Tracked, ToolEvents, PostEvents
<1>2. /\ row' \in Rows /\ flight' \in Flights
      /\ row'.term = row.term /\ (row'.state = "exited" => row'.term \/ turn = "gone")
      /\ row.term => flight' = EmptyFlight
      /\ ~row.term => flight'.inflight = flight.inflight
      /\ ~row.term /\ row.state = "blocked" =>
           row' = row /\ flight'.candidate = flight.candidate
  BY <1>1, Delivered
<1>3. TypeOK'
  BY <1>2 DEF Inv, TypeOK, agentVars, dialogVars
<1>4. Entries' /\ Complete'
  <2>1. \A u \in Tools : row.term => flight'.inflight[u] = NoName
    BY <1>2, EmptyEntries
  <2>2. phase' = phase /\ row.term \in BOOLEAN
    BY DEF agentVars, Inv, TypeOK, Rows
  <2> QED
    BY <1>2, <2>1, <2>2 DEF Inv, Entries, Complete
<1>5. Dialog'
  BY <1>2 DEF Inv, Dialog, agentVars
<1>6. Candidacy'
  BY <1>2 DEF Inv, Candidacy, StillBlocked, Spent, agentVars, dialogVars
<1> QED
  BY <1>3, <1>4, <1>5, <1>6 DEF Inv

\* A hook that is lost disturbs nothing but what rests on no hook being lost.
LEMMA Lost ==
    ASSUME Inv, missed' = TRUE, UNCHANGED <<row, flight, agentVars, dialogVars, restarts>>
    PROVE  Inv'
BY DEF Inv, TypeOK, Entries, Complete, Dialog, Candidacy, StillBlocked, Spent, agentVars, dialogVars

LEMMA InitInv == Init => Inv
<1> SUFFICES ASSUME Init PROVE Inv
  OBVIOUS
<1>1. TypeOK
  <2>1. restarts \in 0..MaxRestarts
    BY ToolFlightAssumption DEF Init
  <2>2. row \in Rows /\ flight \in Flights
    BY SpawnedType DEF Init
  <2> QED
    BY <2>1, <2>2 DEF Init, TypeOK, Phases
<1>2. Entries /\ Complete
  BY DEF Init, Entries, Complete, EmptyFlight
<1>3. row.state = "idle" /\ ~row.term
  BY DEF Init, Spawned, MarkSpawned
<1>4. Dialog /\ Candidacy
  BY <1>3, ReducerAssumption DEF Init, Dialog, Candidacy
<1> QED
  BY <1>1, <1>2, <1>4 DEF Inv

LEMMA PreToolUseInv == ASSUME Inv, NEW t \in Tools, PreToolUse(t) PROVE Inv'
<1>0. NameOf[t] \in Names
  BY ToolFlightAssumption
<1> DEFINE s == Signal("pre-tool-use", "active", t, NameOf[t])
<1>1. /\ s \in Hooks /\ s.event = "pre-tool-use" /\ s.tool = t /\ s.name = NameOf[t]
      /\ s.state = "active" /\ ~s.probe
  <2>1. "pre-tool-use" \in Events
    BY DEF Events
  <2> QED
    BY <2>1, <1>0, SignalType
<1>2. /\ phase[t] = "unused" /\ phase' = [phase EXCEPT ![t] = "requested"] /\ turn # "gone"
      /\ UNCHANGED <<dialog, turn, dialogVars, restarts>>
  BY DEF PreToolUse
<1>3. NameOf[t] \in Names /\ t # NoTool /\ NameOf[t] # NoName
  BY ToolFlightAssumption, ReducerAssumption
<1>4. CASE Deliver(s) /\ missed' = (missed \/ Forgets(s))
  <2>1. /\ row' \in Rows /\ flight' \in Flights
        /\ row'.term = row.term /\ (row'.state = "exited" => row'.term \/ turn = "gone")
        /\ row.term => flight' = EmptyFlight
        /\ ~row.term => flight'.inflight = Tracked(flight, s).inflight
        /\ ~row.term /\ row.state = "blocked" =>
             row' = row /\ flight'.candidate = flight.candidate
    BY <1>1, <1>2, <1>4, Delivered DEF TurnBoundaryEvents, PostEvents
  <2>2. Tracked(flight, s).inflight =
          [(IF Forgets(s) THEN EmptyFlight.inflight ELSE flight.inflight) EXCEPT ![t] = NameOf[t]]
    BY <1>1, <1>3 DEF Tracked, Forgets, Flights, Inv, TypeOK
  <2> HIDE DEF s
  <2>3. \A u \in Tools : ~row.term => flight'.inflight[u] =
          IF u = t THEN NameOf[t] ELSE IF Forgets(s) THEN NoName ELSE flight.inflight[u]
    BY <2>1, <2>2 DEF EmptyFlight, Inv, TypeOK, Flights
  <2>4. TypeOK'
    BY <1>2, <1>4, <2>1 DEF Inv, TypeOK, Phases, dialogVars
  <2>5. \A u \in Tools : phase'[u] = IF u = t THEN "requested" ELSE phase[u]
    BY <1>2 DEF Inv, TypeOK
  <2>6. \A u \in Tools : row.term => flight'.inflight[u] = NoName
    BY <2>1, EmptyEntries
  <2>7. Entries'
    BY <2>1, <2>3, <2>5, <2>6 DEF Inv, TypeOK, Rows, Entries
  <2>8. Complete'
    BY <1>4, <2>1, <2>3, <2>5 DEF Inv, Complete
  <2>9. Dialog'
    BY <1>2, <2>1, <2>5 DEF Inv, Dialog
  <2>10. Candidacy'
    BY <1>2, <1>4, <2>1, <2>5 DEF Inv, Candidacy, StillBlocked, Spent, dialogVars
  <2> QED
    BY <2>4, <2>7, <2>8, <2>9, <2>10 DEF Inv
<1>5. CASE missed' = TRUE /\ UNCHANGED <<row, flight>>
  BY <1>2, <1>5 DEF Inv, TypeOK, Phases, Entries, Complete, Dialog, Candidacy, StillBlocked, Spent,
                    dialogVars
<1> QED
  BY <1>4, <1>5 DEF PreToolUse, Hook
LEMMA AutoApproveInv == ASSUME Inv, NEW t \in Tools, AutoApprove(t) PROVE Inv'
<1>1. /\ phase[t] = "requested" /\ \A u \in Tools : phase'[u] = IF u = t THEN "running" ELSE phase[u]
      /\ UNCHANGED <<row, flight, dialog, turn, dialogVars, missed, restarts>>
  BY DEF AutoApprove, Inv, TypeOK
<1>2. phase' \in [Tools -> Phases]
  BY DEF AutoApprove, Inv, TypeOK, Phases
<1> QED
  BY <1>1, <1>2 DEF Inv, TypeOK, Entries, Complete, Dialog, Candidacy, StillBlocked, Spent, dialogVars

\* The snapshot of a new dialog: the dialog's own entry, when there is one and
\* it is the only one of its name, or else an entry of a spent tool use.
LEMMA SnapshotIsOwn ==
    ASSUME Inv, NEW t \in Tools, ~row.term, phase[t] = "requested",
           alone' \/ ~missed,
           alone' = (\A u \in Open : NameOf[u] = NameOf[t] => u = t)
    PROVE  Candidate(flight, NameOf[t]) \in {NoTool, t} \cup Spent
<1> DEFINE same == {u \in Tools : flight.inflight[u] = NameOf[t]}
<1>1. NameOf[t] # NoName /\ \A u \in same : NameOf[u] = NameOf[t] /\ phase[u] # "unused"
  BY ToolFlightAssumption, ReducerAssumption DEF Inv, Entries
<1>2. \A u \in Tools : phase[u] \in Phases
  BY DEF Inv, TypeOK
<1>3. CASE alone'
  <2>1. \A u \in same : u = t \/ u \in Spent
    BY <1>1, <1>2, <1>3 DEF Open, Spent, Phases
  <2> QED
    BY <2>1 DEF Candidate
<1>4. CASE ~missed
  <2>1. t \in same
    BY <1>4 DEF Inv, Complete
  <2> QED
    BY <2>1 DEF Candidate
<1> QED
  BY <1>3, <1>4

LEMMA PermissionRequestInv == ASSUME Inv, NEW t \in Tools, PermissionRequest(t) PROVE Inv'
<1>0. NameOf[t] \in Names /\ t # NoTool /\ NameOf[t] # NoName
  BY ToolFlightAssumption, ReducerAssumption
<1> DEFINE s == Signal("permission-request", "blocked", NoTool, NameOf[t])
<1>1. /\ s \in Hooks /\ s.event = "permission-request" /\ s.name = NameOf[t]
      /\ s.state = "blocked" /\ ~s.probe
  <2>1. "permission-request" \in Events
    BY DEF Events
  <2> QED
    BY <2>1, <1>0, SignalType
<1>2. /\ phase[t] = "requested" /\ dialog = NoTool /\ dialog' = t
      /\ phase' = [phase EXCEPT ![t] = "asking"] /\ turn # "gone"
      /\ UNCHANGED <<turn, restarts>>
  BY DEF PermissionRequest, Inv, Dialog
<1>3. /\ \A u \in Tools : phase'[u] = IF u = t THEN "asking" ELSE phase[u]
      /\ phase' \in [Tools -> Phases]
  BY <1>2 DEF Inv, TypeOK, Phases
<1>4. CASE /\ Deliver(s) /\ reported' = (row'.state = "blocked" /\ ~row'.term) /\ asked' = t
           /\ alone' = (\A u \in Open : NameOf[u] = NameOf[t] => u = t) /\ missed' = missed
  <2>1. Tracked(flight, s) = flight
    BY <1>1 DEF Tracked, PostEvents
  <2>2. /\ row' \in Rows /\ flight' \in Flights
        /\ row'.term = row.term /\ (row'.state = "exited" => row'.term \/ turn = "gone")
        /\ row.term => flight' = EmptyFlight
        /\ ~row.term => flight'.inflight = flight.inflight
        /\ ~row.term => row'.state = "blocked" /\ flight' = Snapshot(flight, s)
    BY <1>1, <1>2, <1>4, <2>1, Delivered DEF TurnBoundaryEvents
  <2> HIDE DEF s
  <2>3. ~row.term => flight'.candidate = Candidate(flight, NameOf[t])
    BY <1>0, <1>1, <2>2 DEF Snapshot, Inv, TypeOK, Flights
  <2>4. TypeOK'
    BY <1>0, <1>2, <1>3, <1>4, <2>2 DEF Inv, TypeOK
  <2>5. \A u \in Tools : row.term => flight'.inflight[u] = NoName
    BY <2>2, EmptyEntries
  <2>6. Entries' /\ Complete'
    BY <1>2, <1>3, <1>4, <2>2, <2>5 DEF Inv, TypeOK, Rows, Entries, Complete
  <2>7. Dialog'
    <3>1. \A u \in Tools : phase[u] # "asking"
      BY <1>2, ReducerAssumption DEF Inv, Dialog
    <3> QED
      BY <1>2, <1>3, <2>2, <3>1 DEF Inv, Dialog
  <2>8. Candidacy'
    <3>1. SUFFICES ASSUME reported', alone' \/ ~missed'
                   PROVE  StillBlocked' /\ flight'.candidate \in {NoTool, t} \cup Spent'
      BY <1>2 DEF Candidacy
    <3>2. StillBlocked' /\ ~row.term
      BY <1>4, <2>2, <3>1 DEF StillBlocked
    <3>3. Candidate(flight, NameOf[t]) \in {NoTool, t} \cup Spent
      BY <1>2, <1>4, <3>1, <3>2, SnapshotIsOwn
    <3> QED
      BY <1>2, <1>3, <2>3, <3>2, <3>3 DEF Spent
  <2> QED
    BY <2>4, <2>6, <2>7, <2>8 DEF Inv
<1>5. CASE reported' = FALSE /\ missed' = TRUE /\ UNCHANGED <<row, flight, asked, alone>>
  <2>1. \A u \in Tools : phase[u] # "asking"
    BY <1>2, ReducerAssumption DEF Inv, Dialog
  <2> QED
    BY <1>0, <1>2, <1>3, <1>5, <2>1 DEF Inv, TypeOK, Entries, Complete, Dialog, Candidacy
<1> QED
  BY <1>4, <1>5 DEF PermissionRequest

LEMMA PermissionPromptInv == ASSUME Inv, PermissionPrompt PROVE Inv'
<1> DEFINE s == Signal("notification", "blocked", NoTool, NoName)
<1>1. /\ s \in Hooks /\ s.event = "notification" /\ s.name = NoName
      /\ s.state = "blocked" /\ ~s.probe
  <2>1. "notification" \in Events
    BY DEF Events
  <2> QED
    BY <2>1, SignalType
<1>2. UNCHANGED <<agentVars, dialogVars, restarts>> /\ turn # "gone"
  BY DEF PermissionPrompt, Inv, Dialog
<1>3. CASE Deliver(s) /\ missed' = (missed \/ Forgets(s))
  <2>1. Tracked(flight, s) = flight /\ Snapshot(flight, s) = flight /\ ~Forgets(s)
    BY <1>1 DEF Tracked, Snapshot, PostEvents, Forgets
  <2>2. /\ row' \in Rows /\ flight' \in Flights
        /\ row'.term = row.term /\ (row'.state = "exited" => row'.term \/ turn = "gone")
        /\ row.term => flight' = EmptyFlight
        /\ ~row.term => row'.state = "blocked" /\ flight' = flight
    BY <1>1, <1>2, <1>3, <2>1, Delivered DEF TurnBoundaryEvents
  <2>3. \A u \in Tools : row.term => flight'.inflight[u] = NoName
    BY <2>2, EmptyEntries
  <2>4. missed' = missed /\ missed \in BOOLEAN /\ row.term \in BOOLEAN
    BY <1>3, <2>1 DEF Inv, TypeOK, Rows
  <2>5. TypeOK'
    BY <1>2, <2>2, <2>4 DEF Inv, TypeOK, agentVars, dialogVars
  <2>6. Entries' /\ Complete'
    BY <1>2, <2>2, <2>3, <2>4 DEF Inv, Entries, Complete, agentVars
  <2>7. Dialog'
    BY <1>2, <2>2 DEF Inv, Dialog, agentVars
  <2>8. Candidacy'
    BY <1>2, <2>2, <2>4 DEF Inv, Candidacy, StillBlocked, Spent, agentVars, dialogVars
  <2> QED
    BY <2>5, <2>6, <2>7, <2>8 DEF Inv
<1>4. CASE missed' = TRUE /\ UNCHANGED <<row, flight>>
  BY <1>2, <1>4, Lost
<1> QED
  BY <1>3, <1>4 DEF PermissionPrompt, Hook

LEMMA AnswerInv == ASSUME Inv, NEW allow \in BOOLEAN, Answer(allow) PROVE Inv'
<1>1. dialog \in Tools /\ phase[dialog] = "asking"
  BY DEF Answer, Inv, TypeOK, Dialog
<1>2. /\ \A u \in Tools : phase'[u] = IF u = dialog THEN IF allow THEN "running" ELSE "denied"
                                      ELSE phase[u]
      /\ phase' \in [Tools -> Phases]
      /\ dialog' = NoTool /\ reported' = FALSE
      /\ UNCHANGED <<row, flight, turn, asked, alone, missed, restarts>>
  BY <1>1 DEF Answer, Inv, TypeOK, Phases
<1>3. TypeOK' /\ Entries' /\ Complete' /\ Candidacy'
  BY <1>1, <1>2 DEF Inv, TypeOK, Entries, Complete, Candidacy
<1>4. Dialog'
  BY <1>1, <1>2, ReducerAssumption DEF Inv, Dialog
<1> QED
  BY <1>3, <1>4 DEF Inv

\* A post hook runs for a tool that is neither on screen nor spent, so it is
\* not the candidate of a dialog.
LEMMA PostToolUseInv ==
    ASSUME Inv, NEW t \in Tools, NEW event \in PostEvents, PostToolUse(t, event) PROVE Inv'
<1>0. event \in Events /\ NameOf[t] \in Names /\ t # NoTool
  BY ToolFlightAssumption, ReducerAssumption DEF PostEvents, Events
<1> DEFINE s == Signal(event, "active", t, NameOf[t])
<1>1. /\ s \in Hooks /\ s.event = event /\ s.tool = t /\ s.state = "active" /\ ~s.probe
  BY <1>0, SignalType
<1>2. /\ phase[t] = "running" /\ phase' = [phase EXCEPT ![t] = "done"] /\ turn # "gone"
      /\ UNCHANGED <<dialog, turn, dialogVars, restarts>>
  BY DEF PostToolUse
<1>3. /\ \A u \in Tools : phase'[u] = IF u = t THEN "done" ELSE phase[u]
      /\ phase' \in [Tools -> Phases]
  BY <1>2 DEF Inv, TypeOK, Phases
<1>4. CASE Deliver(s) /\ missed' = (missed \/ Forgets(s))
  <2>1. ~Forgets(s) /\ Tracked(flight, s).inflight = [flight.inflight EXCEPT ![t] = NoName]
    BY <1>0, <1>1 DEF Forgets, Tracked, PostEvents, Inv, TypeOK, Flights
  <2>2. /\ row' \in Rows /\ flight' \in Flights
        /\ row'.term = row.term /\ (row'.state = "exited" => row'.term \/ turn = "gone")
        /\ row.term => flight' = EmptyFlight
        /\ ~row.term => flight'.inflight = [flight.inflight EXCEPT ![t] = NoName]
        /\ ~row.term /\ row.state = "blocked" /\ t # flight.candidate =>
             row' = row /\ flight'.candidate = flight.candidate
    BY <1>1, <1>2, <1>4, <2>1, Delivered DEF TurnBoundaryEvents, PostEvents
  <2> HIDE DEF s
  <2>3. \A u \in Tools : ~row.term => flight'.inflight[u] =
          IF u = t THEN NoName ELSE flight.inflight[u]
    BY <2>2 DEF Inv, TypeOK, Flights
  <2>4. \A u \in Tools : row.term => flight'.inflight[u] = NoName
    BY <2>2, EmptyEntries
  <2>5. missed' = missed /\ missed \in BOOLEAN /\ row.term \in BOOLEAN
    BY <1>4, <2>1 DEF Inv, TypeOK, Rows
  <2>6. TypeOK'
    BY <1>2, <1>3, <2>2, <2>5 DEF Inv, TypeOK, dialogVars
  <2>7. Entries' /\ Complete'
    BY <1>3, <2>2, <2>3, <2>4, <2>5 DEF Inv, Entries, Complete
  <2>8. Dialog'
    BY <1>2, <1>3, <2>2 DEF Inv, Dialog
  <2>9. Candidacy'
    <3>1. SUFFICES ASSUME dialog # NoTool, reported, alone \/ ~missed
                   PROVE  StillBlocked' /\ flight'.candidate \in {NoTool, dialog} \cup Spent'
      BY <1>2, <2>5 DEF Candidacy, dialogVars
    <3>2. StillBlocked /\ flight.candidate \in {NoTool, dialog} \cup Spent
      BY <3>1 DEF Inv, Candidacy
    <3>3. t # flight.candidate
      BY <1>0, <1>2, <3>2 DEF Spent, Inv, Dialog
    <3> QED
      BY <1>3, <2>2, <3>2, <3>3 DEF StillBlocked, Spent
  <2> QED
    BY <2>6, <2>7, <2>8, <2>9 DEF Inv
<1>5. CASE missed' = TRUE /\ UNCHANGED <<row, flight>>
  BY <1>2, <1>3, <1>5 DEF Inv, TypeOK, Entries, Complete, Dialog, Candidacy, StillBlocked, Spent,
                          dialogVars
<1> QED
  BY <1>4, <1>5 DEF PostToolUse, Hook

\* At a turn boundary no tool use can ask any more and no dialog is up, so an
\* empty flight says all there is to say.
LEMMA TurnBoundaryInv ==
    ASSUME Inv, Composed, NEW s \in Hooks, s.event \in TurnBoundaryEvents, s.state # "blocked",
           ~s.probe, Hook(s), turn # "gone", turn' \in {"busy", "ended"},
           UNCHANGED <<phase, dialog, dialogVars, restarts>>
    PROVE  Inv'
<1>1. CASE Deliver(s) /\ missed' = (missed \/ Forgets(s))
  <2>1. row \in Rows /\ flight \in Flights /\ (row.state = "exited" => row.term)
    BY DEF Inv, TypeOK, Dialog
  <2>2. /\ row' \in Rows /\ flight' = EmptyFlight
        /\ row'.term = row.term /\ (row'.state = "exited" => row'.term)
    BY <1>1, <2>1, AtTurnBoundary DEF Deliver
  <2>3. \A u \in Tools : flight'.inflight[u] = NoName
    BY <2>2, EmptyEntries
  <2>4. \A u \in Tools : phase[u] \notin {"requested", "asking"}
    BY ReducerAssumption DEF Composed, Inv, Dialog
  <2>5. missed' = missed
    BY <1>1 DEF Forgets, TurnBoundaryEvents, Inv, TypeOK
  <2>6. TypeOK'
    BY <2>2, <2>5, SpawnedType DEF Inv, TypeOK, dialogVars
  <2>7. Entries' /\ Complete' /\ Dialog' /\ Candidacy'
    BY <2>2, <2>3, <2>4 DEF Inv, Entries, Complete, Dialog, Candidacy, Composed
  <2> QED
    BY <2>6, <2>7 DEF Inv
<1>2. CASE missed' = TRUE /\ UNCHANGED <<row, flight>>
  BY <1>2 DEF Inv, TypeOK, Entries, Complete, Dialog, Candidacy, Composed, dialogVars
<1> QED
  BY <1>1, <1>2 DEF Hook

LEMMA UserPromptSubmitInv == ASSUME Inv, UserPromptSubmit PROVE Inv'
<1> DEFINE s == Signal("user-prompt-submit", "active", NoTool, NoName)
<1>1. s \in Hooks /\ s.event \in TurnBoundaryEvents /\ s.state # "blocked" /\ ~s.probe
  BY SignalType DEF Events, TurnBoundaryEvents
<1>2. /\ Hook(s) /\ Composed /\ turn # "gone" /\ turn' = "busy"
      /\ UNCHANGED <<phase, dialog, dialogVars, restarts>>
  BY DEF UserPromptSubmit
<1> QED
  BY <1>1, <1>2, TurnBoundaryInv

LEMMA StopInv == ASSUME Inv, Stop PROVE Inv'
<1> DEFINE s == Signal("stop", "idle", NoTool, NoName)
<1>1. s \in Hooks /\ s.event \in TurnBoundaryEvents /\ s.state # "blocked" /\ ~s.probe
  BY SignalType DEF Events, TurnBoundaryEvents
<1>2. /\ Hook(s) /\ Composed /\ turn # "gone" /\ turn' = "ended"
      /\ UNCHANGED <<phase, dialog, dialogVars, restarts>>
  BY DEF Stop
<1> QED
  BY <1>1, <1>2, TurnBoundaryInv

\* The end of the agent: the session is exited, unless it had ended before,
\* and nothing is in flight.
LEMMA SessionEnds ==
    ASSUME Inv, SessionEnd
    PROVE  /\ turn' = "gone" /\ dialog = NoTool /\ \A u \in Tools : phase[u] # "requested"
           /\ UNCHANGED <<phase, dialog, dialogVars, restarts>>
           /\ \/ missed' = TRUE /\ UNCHANGED <<row, flight>>
              \/ /\ missed' = missed /\ flight' = EmptyFlight /\ row' \in Rows
                 /\ row'.term = row.term /\ (row' = row \/ row'.state = "exited")
                 /\ ~row.term => row'.state = "exited"
<1> DEFINE s == Signal("session-end", "exited", NoTool, NoName)
           out == ApplyActivitySignal(row, flight, s)
<1>1. /\ s.event = "session-end" /\ s.state = "exited" /\ s.valid /\ ~s.probe /\ s.at = 0
      /\ s.launch = NoLaunch /\ s.agent = NoAgent
  BY DEF Signal
<1>2. /\ Hook(s) /\ Composed /\ turn' = "gone"
      /\ UNCHANGED <<phase, dialog, dialogVars, restarts>>
  BY DEF SessionEnd
<1>3. row \in Rows /\ missed \in BOOLEAN
  BY DEF Inv, TypeOK
<1> HIDE DEF s
<1>4. CASE Deliver(s) /\ missed' = (missed \/ Forgets(s))
  <2>1. /\ ApplyToolPrecedence(flight, row.state, s).flight = EmptyFlight
        /\ ApplyToolPrecedence(flight, row.state, s).pass
    BY <1>1 DEF ApplyToolPrecedence, TurnBoundaryEvents
  <2>2. /\ ~SuccessfulProcessExit(row, s) /\ ~MetadataChanged(row, s) /\ WithAgent(row, s) = row
        /\ ~Fenced(row, s) /\ ~AfterExit(row, s) /\ ~Forgets(s)
    BY <1>1 DEF SuccessfulProcessExit, MetadataChanged, WithAgent, Fenced, AfterExit, Forgets
  <2>3. /\ Recorded(row, s) \in Rows /\ Recorded(row, s).state = "exited"
        /\ Recorded(row, s).term = row.term
    BY <1>1, <1>3, <2>2 DEF Recorded, Rows, ActivityStates
  <2>4. /\ out.flight = EmptyFlight
        /\ \/ out.row = row /\ (row.term \/ row.state = "exited")
           \/ out.row = Recorded(row, s)
    <3>1. CASE row.term
      BY <1>1, <3>1 DEF ApplyActivitySignal, Outcome
    <3>2. CASE ~row.term /\ Repeats(row, s)
      BY <1>1, <2>1, <2>2, <3>2 DEF ApplyActivitySignal, Outcome, Repeats
    <3>3. CASE ~row.term /\ ~Repeats(row, s)
      BY <1>1, <2>1, <2>2, <3>3 DEF ApplyActivitySignal, Outcome
    <3> QED
      BY <3>1, <3>2, <3>3
  <2>5. row' = out.row /\ flight' = out.flight /\ missed' = missed
    BY <1>3, <1>4, <2>2 DEF Deliver
  <2> HIDE DEF out
  <2> QED
    BY <1>2, <1>3, <2>3, <2>4, <2>5 DEF Composed
<1>5. CASE missed' = TRUE /\ UNCHANGED <<row, flight>>
  BY <1>2, <1>5 DEF Composed
<1> QED
  BY <1>2, <1>4, <1>5 DEF Hook

LEMMA SessionEndInv == ASSUME Inv, SessionEnd PROVE Inv'
<1>1. /\ turn' = "gone" /\ dialog = NoTool /\ \A u \in Tools : phase[u] # "requested"
      /\ UNCHANGED <<phase, dialog, dialogVars, restarts>>
      /\ \/ missed' = TRUE /\ UNCHANGED <<row, flight>>
         \/ /\ missed' = missed /\ flight' = EmptyFlight /\ row' \in Rows
            /\ row'.term = row.term
  BY SessionEnds
<1>2. \A u \in Tools : EmptyFlight.inflight[u] = NoName
  BY EmptyEntries
<1>3. TypeOK'
  BY <1>1, SpawnedType DEF Inv, TypeOK, dialogVars
<1>4. Entries'
  BY <1>1, <1>2 DEF Inv, Entries
<1>5. Complete'
  <2>1. \A u \in Tools : phase[u] \notin {"requested", "asking"}
    BY <1>1, ReducerAssumption DEF Inv, Dialog
  <2> QED
    BY <1>1, <2>1 DEF Complete
<1>6. Dialog' /\ Candidacy'
  BY <1>1 DEF Inv, Dialog, Candidacy
<1> QED
  BY <1>3, <1>4, <1>5, <1>6 DEF Inv

LEMMA NotificationInv ==
    ASSUME Inv, NEW state \in {"idle", "waiting_input"}, Notification(state) PROVE Inv'
<1> DEFINE s == Signal("notification", state, NoTool, NoName)
<1>1. /\ s \in Hooks /\ s.event \notin TurnBoundaryEvents \cup ToolEvents \cup {""}
      /\ s.state # "blocked" /\ s.event # "pre-tool-use"
  <2>1. s \in Hooks /\ s.event = "notification" /\ s.state = state
    BY SignalType DEF Events
  <2> QED
    BY <2>1 DEF TurnBoundaryEvents, ToolEvents
<1>2. UNCHANGED <<agentVars, dialogVars, restarts>> /\ turn # "gone"
  BY DEF Notification
<1>3. CASE Deliver(s) /\ missed' = (missed \/ Forgets(s))
  <2>1. missed' = missed
    BY <1>1, <1>3 DEF Forgets, Inv, TypeOK
  <2> QED
    BY <1>1, <1>2, <1>3, <2>1, Quiet
<1>4. CASE missed' = TRUE /\ UNCHANGED <<row, flight>>
  BY <1>2, <1>4, Lost
<1> QED
  BY <1>3, <1>4 DEF Notification, Hook

LEMMA TerminalIdleInv == ASSUME Inv, NEW stale \in BOOLEAN, TerminalIdle(stale) PROVE Inv'
<1> DEFINE s == [Signal("terminal-idle", "idle", NoTool, NoName) EXCEPT
                   !.probe = TRUE, !.stale = stale]
<1>1. /\ s \in Hooks /\ s.event = "terminal-idle" /\ s.state # "blocked" /\ s.probe
  BY DEF Signal, Hooks, Events
<1>2. s.event \notin TurnBoundaryEvents \cup ToolEvents \cup {""}
  BY <1>1 DEF TurnBoundaryEvents, ToolEvents
<1> QED
  BY <1>1, <1>2, Quiet DEF TerminalIdle

LEMMA ObserveInv ==
    ASSUME Inv, NEW runtime, NEW at \in {0, Window + 1}, Observe(runtime, at) PROVE Inv'
<1>1. row \in Rows /\ flight \in Flights
  BY DEF Inv, TypeOK
<1>2. \/ row' = row /\ flight' = flight
      \/ /\ row.state # "blocked" /\ row' \in Rows /\ row'.term /\ flight' = EmptyFlight
  <2> DEFINE out == ApplyRuntimeObservation(row, flight,
                      [runtime |-> runtime, workload |-> "unknown", launch |-> NoLaunch, at |-> at])
  <2>1. \/ out.row = row /\ out.flight = flight
        \/ /\ row.state # "blocked" /\ out.row \in Rows /\ out.row.term
           /\ out.flight = EmptyFlight
    BY <1>1, Observed
  <2>2. row' = out.row /\ flight' = out.flight
    BY DEF Observe
  <2> HIDE DEF out
  <2> QED
    BY <2>1, <2>2
<1>3. UNCHANGED <<agentVars, dialogVars, missed, restarts>>
  BY DEF Observe
<1>4. CASE row' = row /\ flight' = flight
  BY <1>3, <1>4 DEF Inv, TypeOK, Entries, Complete, Dialog, Candidacy, StillBlocked, Spent,
                    agentVars, dialogVars
<1>5. CASE row.state # "blocked" /\ row' \in Rows /\ row'.term /\ flight' = EmptyFlight
  <2>1. \A u \in Tools : flight'.inflight[u] = NoName
    BY <1>5, EmptyEntries
  <2>2. TypeOK'
    BY <1>3, <1>5, SpawnedType DEF Inv, TypeOK, agentVars, dialogVars
  <2> QED
    BY <1>3, <1>5, <2>1, <2>2 DEF Inv, Entries, Complete, Dialog, Candidacy, StillBlocked,
                                  agentVars, dialogVars
<1> QED
  BY <1>2, <1>4, <1>5

LEMMA RestartInv == ASSUME Inv, Restart PROVE Inv'
<1>1. /\ restarts' \in 0..MaxRestarts /\ flight' = EmptyFlight /\ missed' = TRUE
      /\ UNCHANGED <<row, agentVars, dialogVars>>
  BY ToolFlightAssumption DEF Restart, Inv, TypeOK
<1>2. flight'.candidate = NoTool /\ \A u \in Tools : flight'.inflight[u] = NoName
  BY <1>1 DEF EmptyFlight
<1> QED
  BY <1>1, <1>2, SpawnedType DEF Inv, TypeOK, Entries, Complete, Dialog, Candidacy, StillBlocked,
                                 agentVars, dialogVars

LEMMA NextInv == Inv /\ [Next]_vars => Inv'
<1>1. CASE UNCHANGED vars
  BY <1>1 DEF vars, Inv, TypeOK, Entries, Complete, Dialog, Candidacy, StillBlocked, Spent
<1>2. ASSUME Inv, NEW t \in Tools, UseTool(t) PROVE Inv'
  BY <1>2, PreToolUseInv, AutoApproveInv, PermissionRequestInv, PostToolUseInv DEF UseTool
<1> QED
  BY <1>1, <1>2, AnswerInv, PermissionPromptInv, UserPromptSubmitInv, StopInv, SessionEndInv,
     NotificationInv, TerminalIdleInv, ObserveInv, RestartInv DEF Next

-----------------------------------------------------------------------------
(* The post that lifts the block                                           *)

\* A session that ended shows no dialog.
Ended == row.term => row.state = "exited"

\* A post closes the entry of its tool use.
Closed == ~missed => \A u \in Tools : flight.inflight[u] # NoName => phase[u] # "done"

\* A dialog on screen is the one the reducer was told of last.
Heard == dialog # NoTool /\ ~missed /\ ~row.term => reported /\ asked = dialog

\* As long as the row is blocked and the tool of the dialog that was reported
\* last has its post to come, it is the candidate, if it was the only one of
\* its name.
Pending(t) == alone /\ ~missed /\ phase[t] \in {"asking", "running"} /\ row.state = "blocked"
Awaited == \A t \in Tools : asked = t /\ Pending(t) => flight.candidate = t

Answering == Ended /\ Closed /\ Heard /\ Awaited

\* A tool use whose dialog was reported is past its request.
Told == \A t \in Tools : asked = t => phase[t] \notin {"unused", "requested"}

\* A hook is taken in one of two ways: the row stays as it is, or it lives and
\* takes the state of the hook; it takes it when nothing suppresses the hook.
LEMMA Taken ==
    ASSUME Inv, NEW s \in Hooks, s.probe \/ turn # "gone", Deliver(s)
    PROVE  /\ row' = row \/ (~row.term /\ ~row'.term /\ row'.state = s.state)
           /\ ~row.term /\ ~s.probe /\ ApplyToolPrecedence(flight, row.state, s).pass =>
                row'.state = s.state
<1> DEFINE out == ApplyActivitySignal(row, flight, s)
           rule == ApplyToolPrecedence(flight, row.state, s)
<1>1. row \in Rows /\ flight \in Flights /\ (row.state = "exited" => row.term \/ s.probe)
  BY DEF Inv, TypeOK, Dialog
<1>2. \/ row.term /\ out.row = row /\ out.flight = EmptyFlight
      \/ ~row.term /\ s.probe /\ out.row = row /\ out.flight = flight
      \/ ~row.term /\ ~rule.pass /\ out.row = row /\ out.flight = rule.flight
      \/ /\ ~row.term /\ rule.pass /\ (s.probe => row.state = "active")
         /\ out.row \in Rows /\ ~out.row.term /\ out.row.state = s.state
         /\ out.flight = rule.flight
  BY <1>1, Applied
<1>3. row' = out.row
  BY DEF Deliver
<1> HIDE DEF out
<1> QED
  BY <1>2, <1>3

\* What the steps that show no dialog and are no turn boundary have in common.
\* A block that was there stays with its candidate, or is lifted.
LEMMA StillAwaited ==
    ASSUME Inv, Answering, NEW s \in Hooks,
           s.event \notin TurnBoundaryEvents \cup {""}, s.state # "blocked",
           s.probe => s.event \notin ToolEvents, s.probe \/ turn # "gone", Deliver(s),
           s.event \in PostEvents => phase'[s.tool] = "done",
           \A u \in Tools : phase'[u] \in {"asking", "running"} => phase[u] \in {"asking", "running"},
           UNCHANGED dialogVars, missed' \/ ~missed
    PROVE  Ended' /\ Awaited'
<1>1. /\ row'.term = row.term
      /\ ~row.term /\ row.state = "blocked" /\ ~(s.event \in PostEvents /\ s.tool = flight.candidate) =>
           row' = row /\ flight'.candidate = flight.candidate
  BY Delivered
<1>2. row' = row \/ (~row.term /\ ~row'.term /\ row'.state = s.state)
  BY Taken
<1>3. Ended'
  BY <1>2 DEF Answering, Ended
<1>4. Awaited'
  <2> SUFFICES ASSUME NEW t \in Tools, asked' = t, Pending(t)' PROVE flight'.candidate = t
    BY DEF Awaited
  <2>1. row.state = "blocked" /\ ~row.term
    BY <1>2, <1>3 DEF Pending, Ended, Answering
  <2>2. asked = t /\ alone /\ ~missed /\ phase[t] \in {"asking", "running"}
    BY DEF Pending, dialogVars
  <2>3. flight.candidate = t
    BY <2>1, <2>2 DEF Answering, Awaited, Pending
  <2>4. ~(s.event \in PostEvents /\ s.tool = flight.candidate)
    BY <2>3 DEF Pending
  <2> QED
    BY <1>1, <2>1, <2>3, <2>4
<1> QED
  BY <1>3, <1>4

\* A hook that is lost, or a daemon that restarts, leaves nothing to say but of
\* the row.
LEMMA LostAnswering ==
    ASSUME Answering, missed', row' = row PROVE Answering'
BY DEF Answering, Ended, Closed, Heard, Awaited, Pending

\* Nothing was asked yet.
LEMMA InitAnswering == Init => Answering
<1> SUFFICES ASSUME Init PROVE Answering
  OBVIOUS
<1>1. row.state = "idle" /\ ~row.term
  BY DEF Init, Spawned, MarkSpawned
<1>2. \A u \in Tools : flight.inflight[u] = NoName
  BY EmptyEntries DEF Init
<1> QED
  BY <1>1, <1>2 DEF Init, Answering, Ended, Closed, Heard, Awaited, Pending

\* The pre hook of a tool use opens its entry and moves no candidate.
LEMMA PreToolUseAnswering ==
    ASSUME Inv, Answering, NEW t \in Tools, PreToolUse(t) PROVE Answering'
<1>0. NameOf[t] \in Names /\ t # NoTool /\ missed \in BOOLEAN
  BY ToolFlightAssumption, ReducerAssumption DEF Inv, TypeOK
<1> DEFINE s == Signal("pre-tool-use", "active", t, NameOf[t])
<1>1. /\ s \in Hooks /\ s.event = "pre-tool-use" /\ s.tool = t /\ s.name = NameOf[t]
      /\ s.state = "active" /\ ~s.probe
  <2>1. "pre-tool-use" \in Events
    BY DEF Events
  <2> QED
    BY <2>1, <1>0, SignalType
<1>2. /\ phase[t] = "unused" /\ phase' = [phase EXCEPT ![t] = "requested"] /\ turn # "gone"
      /\ UNCHANGED <<dialog, turn, dialogVars, restarts>>
  BY DEF PreToolUse
<1>3. \A u \in Tools : phase'[u] = IF u = t THEN "requested" ELSE phase[u]
  BY <1>2 DEF Inv, TypeOK
<1>4. CASE Deliver(s) /\ missed' = (missed \/ Forgets(s))
  <2>1. /\ row'.term = row.term
        /\ row.term => flight' = EmptyFlight
        /\ ~row.term => flight'.inflight = Tracked(flight, s).inflight
    BY <1>1, <1>2, <1>4, Delivered DEF TurnBoundaryEvents, PostEvents
  <2>2. Tracked(flight, s).inflight =
          [(IF Forgets(s) THEN EmptyFlight.inflight ELSE flight.inflight) EXCEPT ![t] = NameOf[t]]
    BY <1>0, <1>1 DEF Tracked, Forgets, Flights, Inv, TypeOK
  <2>5. Ended' /\ Awaited'
    <3>1. s.event \notin TurnBoundaryEvents \cup {""} /\ s.event \notin PostEvents /\ s.state # "blocked"
      BY <1>1 DEF TurnBoundaryEvents, PostEvents
    <3>2. /\ \A u \in Tools : phase'[u] \in {"asking", "running"} => phase[u] \in {"asking", "running"}
          /\ UNCHANGED dialogVars
      BY <1>2, <1>3
    <3>3. missed' \/ ~missed
      BY <1>0, <1>4
    <3>4. s.probe => s.event \notin ToolEvents
      BY <1>1
    <3> QED
      BY <1>1, <1>2, <1>4, <3>1, <3>2, <3>3, <3>4, StillAwaited
  <2> HIDE DEF s
  <2>3. \A u \in Tools : u # t /\ ~row.term /\ ~Forgets(s) => flight'.inflight[u] = flight.inflight[u]
    BY <2>1, <2>2 DEF Inv, TypeOK, Flights
  <2>4. \A u \in Tools : row.term => flight'.inflight[u] = NoName
    BY <2>1, EmptyEntries
  <2>6. Closed'
    BY <1>3, <1>4, <2>3, <2>4 DEF Answering, Closed
  <2>7. Heard'
    BY <1>2, <1>4, <2>1 DEF Answering, Heard, dialogVars
  <2> QED
    BY <2>5, <2>6, <2>7 DEF Answering
<1>5. CASE missed' = TRUE /\ UNCHANGED <<row, flight>>
  BY <1>5, LostAnswering
<1> QED
  BY <1>4, <1>5 DEF PreToolUse, Hook

\* A dialog that is reported takes its own tool use for the candidate if it
\* is the only one of its name.
LEMMA PermissionRequestAnswering ==
    ASSUME Inv, Answering, NEW t \in Tools, PermissionRequest(t) PROVE Answering'
<1>0. NameOf[t] \in Names /\ t # NoTool /\ NameOf[t] # NoName
  BY ToolFlightAssumption, ReducerAssumption
<1> DEFINE s == Signal("permission-request", "blocked", NoTool, NameOf[t])
<1>1. /\ s \in Hooks /\ s.event = "permission-request" /\ s.name = NameOf[t]
      /\ s.state = "blocked" /\ ~s.probe
  <2>1. "permission-request" \in Events
    BY DEF Events
  <2> QED
    BY <2>1, <1>0, SignalType
<1>2. /\ phase[t] = "requested" /\ dialog = NoTool /\ dialog' = t /\ turn # "gone"
      /\ \A u \in Tools : phase'[u] = IF u = t THEN "asking" ELSE phase[u]
  BY DEF PermissionRequest, Inv, TypeOK, Dialog
<1>4. CASE /\ Deliver(s) /\ reported' = (row'.state = "blocked" /\ ~row'.term) /\ asked' = t
           /\ alone' = (\A u \in Open : NameOf[u] = NameOf[t] => u = t) /\ missed' = missed
  <2>1. Tracked(flight, s) = flight
    BY <1>1 DEF Tracked, PostEvents
  <2>2. /\ row'.term = row.term
        /\ row.term => flight' = EmptyFlight
        /\ ~row.term => flight'.inflight = flight.inflight
        /\ ~row.term => row'.state = "blocked" /\ flight' = Snapshot(flight, s)
    BY <1>1, <1>2, <1>4, <2>1, Delivered DEF TurnBoundaryEvents
  <2>3. row' = row \/ (~row.term /\ ~row'.term /\ row'.state = s.state)
    BY <1>1, <1>2, <1>4, Taken
  <2> HIDE DEF s
  <2>4. \A u \in Tools : row.term => flight'.inflight[u] = NoName
    BY <2>2, EmptyEntries
  <2>5. Ended'
    BY <2>3 DEF Answering, Ended
  <2>6. Closed'
    BY <1>2, <1>4, <2>2, <2>4 DEF Answering, Closed
  <2>7. Heard'
    BY <1>2, <1>4, <2>2 DEF Heard
  <2>8. Awaited'
    <3> SUFFICES ASSUME asked' = t, Pending(t)' PROVE flight'.candidate = t
      BY <1>4 DEF Awaited
    <3>1. ~row.term /\ ~missed /\ \A u \in Open : NameOf[u] = NameOf[t] => u = t
      BY <1>4, <2>2, <2>5 DEF Pending, Ended
    <3>2. flight'.candidate = Candidate(flight, NameOf[t])
      BY <1>0, <1>1, <2>2, <3>1 DEF Snapshot, Inv, TypeOK, Flights
    <3>3. flight.inflight[t] = NameOf[t]
      BY <1>2, <3>1 DEF Inv, Complete
    <3>4. \A u \in Tools : flight.inflight[u] = NameOf[t] => u = t
      <4> SUFFICES ASSUME NEW u \in Tools, flight.inflight[u] = NameOf[t] PROVE u = t
        OBVIOUS
      <4>1. NameOf[u] = NameOf[t] /\ phase[u] \notin {"unused", "done"}
        BY <1>0, <3>1 DEF Inv, Entries, Answering, Closed
      <4> QED
        BY <3>1, <4>1 DEF Open
    <3>5. {u \in Tools : flight.inflight[u] = NameOf[t]} = {t}
      BY <3>3, <3>4
    <3> QED
      BY <3>2, <3>5 DEF Candidate
  <2> QED
    BY <2>5, <2>6, <2>7, <2>8 DEF Answering
<1>5. CASE reported' = FALSE /\ missed' = TRUE /\ UNCHANGED <<row, flight, asked, alone>>
  BY <1>5, LostAnswering
<1> QED
  BY <1>4, <1>5 DEF PermissionRequest

\* The duplicate of a request finds the row blocked, and keeps the candidate.
LEMMA PermissionPromptAnswering == ASSUME Inv, Answering, PermissionPrompt PROVE Answering'
<1> DEFINE s == Signal("notification", "blocked", NoTool, NoName)
<1>1. /\ s \in Hooks /\ s.event = "notification" /\ s.name = NoName
      /\ s.state = "blocked" /\ ~s.probe
  <2>1. "notification" \in Events
    BY DEF Events
  <2> QED
    BY <2>1, SignalType
<1>2. UNCHANGED <<agentVars, dialogVars, restarts>> /\ dialog # NoTool /\ turn # "gone"
  BY DEF PermissionPrompt, Inv, Dialog
<1>3. CASE Deliver(s) /\ missed' = (missed \/ Forgets(s))
  <2>1. Tracked(flight, s) = flight /\ Snapshot(flight, s) = flight /\ ~Forgets(s)
    BY <1>1 DEF Tracked, Snapshot, PostEvents, Forgets
  <2>2. /\ row'.term = row.term
        /\ row.term => flight' = EmptyFlight
        /\ ~row.term => row'.state = "blocked" /\ flight' = flight
    BY <1>1, <1>2, <1>3, <2>1, Delivered DEF TurnBoundaryEvents
  <2>3. row' = row \/ (~row.term /\ ~row'.term /\ row'.state = s.state)
    BY <1>1, <1>2, <1>3, Taken
  <2> HIDE DEF s
  <2>4. \A u \in Tools : row.term => flight'.inflight[u] = NoName
    BY <2>2, EmptyEntries
  <2>5. missed' = missed
    BY <1>3, <2>1 DEF Inv, TypeOK
  <2>6. Ended' /\ Closed' /\ Heard'
    BY <1>2, <2>2, <2>3, <2>4, <2>5 DEF Answering, Ended, Closed, Heard, agentVars, dialogVars
  <2>7. Awaited'
    <3> SUFFICES ASSUME NEW t \in Tools, asked' = t, Pending(t)' PROVE flight'.candidate = t
      BY DEF Awaited
    <3>1. ~row.term
      BY <2>2, <2>6 DEF Pending, Ended
    <3>2. asked = t /\ alone /\ ~missed /\ phase[t] \in {"asking", "running"}
      BY <1>2, <2>5 DEF Pending, agentVars, dialogVars
    <3>3. reported
      BY <1>2, <3>1, <3>2 DEF Answering, Heard
    <3>4. row.state = "blocked"
      BY <1>2, <3>2, <3>3 DEF Inv, Candidacy, StillBlocked
    <3> QED
      BY <2>2, <3>1, <3>2, <3>4 DEF Answering, Awaited, Pending
  <2> QED
    BY <2>6, <2>7 DEF Answering
<1>4. CASE missed' = TRUE /\ UNCHANGED <<row, flight>>
  BY <1>4, LostAnswering
<1> QED
  BY <1>3, <1>4 DEF PermissionPrompt, Hook

\* A post closes the entry of its tool use, which has none to come after it.
LEMMA PostToolUseAnswering ==
    ASSUME Inv, Answering, NEW t \in Tools, NEW event \in PostEvents, PostToolUse(t, event)
    PROVE  Answering'
<1>0. event \in Events /\ NameOf[t] \in Names /\ t # NoTool
  BY ToolFlightAssumption, ReducerAssumption DEF PostEvents, Events
<1> DEFINE s == Signal(event, "active", t, NameOf[t])
<1>1. /\ s \in Hooks /\ s.event = event /\ s.tool = t /\ s.state = "active" /\ ~s.probe
  BY <1>0, SignalType
<1>2. /\ \A u \in Tools : phase'[u] = IF u = t THEN "done" ELSE phase[u]
      /\ phase[t] = "running" /\ turn # "gone"
      /\ UNCHANGED <<dialog, turn, dialogVars, restarts>>
  BY DEF PostToolUse, Inv, TypeOK
<1>4. CASE Deliver(s) /\ missed' = (missed \/ Forgets(s))
  <2>1. ~Forgets(s) /\ Tracked(flight, s).inflight = [flight.inflight EXCEPT ![t] = NoName]
    BY <1>0, <1>1 DEF Forgets, Tracked, PostEvents, Inv, TypeOK, Flights
  <2>2. /\ row'.term = row.term
        /\ row.term => flight' = EmptyFlight
        /\ ~row.term => flight'.inflight = [flight.inflight EXCEPT ![t] = NoName]
    BY <1>1, <1>2, <1>4, <2>1, Delivered DEF TurnBoundaryEvents, PostEvents
  <2>3. event \notin TurnBoundaryEvents \cup {""}
    BY DEF TurnBoundaryEvents, PostEvents
  <2>4. missed' = missed
    BY <1>4, <2>1 DEF Inv, TypeOK
  <2>5. Ended' /\ Awaited'
    BY <1>1, <1>2, <1>4, <2>3, <2>4, StillAwaited
  <2> HIDE DEF s
  <2>6. \A u \in Tools : ~row.term => flight'.inflight[u] =
          IF u = t THEN NoName ELSE flight.inflight[u]
    BY <2>2 DEF Inv, TypeOK, Flights
  <2>7. \A u \in Tools : row.term => flight'.inflight[u] = NoName
    BY <2>2, EmptyEntries
  <2>8. Closed'
    BY <1>2, <2>4, <2>6, <2>7 DEF Answering, Closed
  <2>9. Heard'
    BY <1>2, <2>2, <2>4 DEF Answering, Heard, dialogVars
  <2> QED
    BY <2>5, <2>8, <2>9 DEF Answering
<1>5. CASE missed' = TRUE /\ UNCHANGED <<row, flight>>
  BY <1>5, LostAnswering
<1> QED
  BY <1>4, <1>5 DEF PostToolUse, Hook

\* Neither the approval of a tool nor the answer of the user moves the flight.
LEMMA AgentAnswering ==
    ASSUME Inv, Answering, Told,
           (\E t \in Tools : AutoApprove(t)) \/ (\E allow \in BOOLEAN : Answer(allow))
    PROVE  Answering'
<1>1. UNCHANGED <<row, flight, asked, alone, missed>>
  BY DEF AutoApprove, Answer, dialogVars
<1>2. ASSUME NEW t \in Tools, AutoApprove(t) PROVE Answering'
  <2>1. /\ \A u \in Tools : phase'[u] = IF u = t THEN "running" ELSE phase[u]
        /\ phase[t] = "requested" /\ UNCHANGED <<dialog, reported>>
    BY <1>2 DEF AutoApprove, Inv, TypeOK, dialogVars
  <2>2. Ended' /\ Closed' /\ Heard'
    BY <1>1, <2>1 DEF Answering, Ended, Closed, Heard
  <2>3. asked # t
    BY <2>1 DEF Told
  <2> QED
    BY <1>1, <2>1, <2>2, <2>3 DEF Answering, Awaited, Pending
<1>3. ASSUME NEW allow \in BOOLEAN, Answer(allow) PROVE Answering'
  <2>1. dialog \in Tools /\ phase[dialog] = "asking"
    BY <1>3 DEF Answer, Inv, TypeOK, Dialog
  <2>2. /\ \A u \in Tools : phase'[u] = IF u = dialog THEN IF allow THEN "running" ELSE "denied"
                                        ELSE phase[u]
        /\ dialog' = NoTool
    BY <1>3, <2>1 DEF Answer, Inv, TypeOK
  <2>3. Ended' /\ Closed' /\ Heard'
    BY <1>1, <2>1, <2>2 DEF Answering, Ended, Closed, Heard
  <2> QED
    BY <1>1, <2>1, <2>2, <2>3 DEF Answering, Awaited, Pending
<1> QED
  BY <1>2, <1>3

\* A turn boundary is told by a row that is not blocked any more.
LEMMA TurnBoundaryAnswering ==
    ASSUME Inv, Answering, Composed, NEW s \in Hooks, s.event \in TurnBoundaryEvents,
           s.state # "blocked", ~s.probe, turn # "gone", Hook(s),
           UNCHANGED <<phase, dialog, dialogVars, restarts>>
    PROVE  Answering'
<1>1. CASE Deliver(s) /\ missed' = (missed \/ Forgets(s))
  <2>1. row \in Rows /\ flight \in Flights /\ (row.state = "exited" => row.term)
    BY DEF Inv, TypeOK, Dialog
  <2>2. flight' = EmptyFlight /\ row'.term = row.term
    BY <1>1, <2>1, AtTurnBoundary DEF Deliver
  <2>3. \A u \in Tools : flight'.inflight[u] = NoName
    BY <2>2, EmptyEntries
  <2>4. /\ row' = row \/ (~row.term /\ ~row'.term /\ row'.state = s.state)
        /\ ~row.term => row'.state = s.state
    <3>1. ApplyToolPrecedence(flight, row.state, s).pass
      BY DEF ApplyToolPrecedence, TurnBoundaryEvents
    <3> QED
      BY <1>1, <3>1, Taken
  <2>5. Ended' /\ Closed' /\ Heard'
    BY <2>2, <2>3, <2>4 DEF Answering, Ended, Closed, Heard, Composed
  <2>6. row'.state # "blocked"
    BY <2>4 DEF Answering, Ended
  <2> QED
    BY <2>5, <2>6 DEF Answering, Awaited, Pending
<1>2. CASE missed' = TRUE /\ UNCHANGED <<row, flight>>
  BY <1>2, LostAnswering
<1> QED
  BY <1>1, <1>2 DEF Hook

\* The turn boundaries of this agent.
LEMMA TurnAnswering ==
    ASSUME Inv, Answering, UserPromptSubmit \/ Stop \/ SessionEnd PROVE Answering'
<1>1. ASSUME UserPromptSubmit PROVE Answering'
  <2> DEFINE s == Signal("user-prompt-submit", "active", NoTool, NoName)
  <2>1. s \in Hooks /\ s.event \in TurnBoundaryEvents /\ s.state # "blocked" /\ ~s.probe
    BY SignalType DEF Events, TurnBoundaryEvents
  <2>2. /\ Hook(s) /\ Composed /\ turn # "gone"
        /\ UNCHANGED <<phase, dialog, dialogVars, restarts>>
    BY <1>1 DEF UserPromptSubmit
  <2> QED
    BY <2>1, <2>2, TurnBoundaryAnswering
<1>2. ASSUME Stop PROVE Answering'
  <2> DEFINE s == Signal("stop", "idle", NoTool, NoName)
  <2>1. s \in Hooks /\ s.event \in TurnBoundaryEvents /\ s.state # "blocked" /\ ~s.probe
    BY SignalType DEF Events, TurnBoundaryEvents
  <2>2. /\ Hook(s) /\ Composed /\ turn # "gone"
        /\ UNCHANGED <<phase, dialog, dialogVars, restarts>>
    BY <1>2 DEF Stop
  <2> QED
    BY <2>1, <2>2, TurnBoundaryAnswering
<1>3. ASSUME SessionEnd PROVE Answering'
  <2>1. \A u \in Tools : EmptyFlight.inflight[u] = NoName
    BY EmptyEntries
  <2>2. /\ dialog' = NoTool
        /\ \/ missed' = TRUE /\ row' = row
           \/ /\ flight' = EmptyFlight /\ row'.term = row.term
              /\ row' = row \/ row'.state = "exited"
              /\ ~row.term => row'.state = "exited"
    BY <1>3, SessionEnds
  <2>3. CASE missed' = TRUE /\ row' = row
    BY <2>3, LostAnswering
  <2>4. CASE /\ flight' = EmptyFlight /\ row'.term = row.term
             /\ row' = row \/ row'.state = "exited"
             /\ ~row.term => row'.state = "exited"
    <3>1. row'.state = "exited"
      BY <2>4 DEF Answering, Ended
    <3>2. Ended' /\ Closed' /\ Heard'
      BY <2>1, <2>2, <2>4, <3>1 DEF Ended, Closed, Heard
    <3>3. Awaited'
      BY <3>1 DEF Awaited, Pending
    <3> QED
      BY <3>2, <3>3 DEF Answering
  <2> QED
    BY <2>2, <2>3, <2>4
<1> QED
  BY <1>1, <1>2, <1>3

\* A hook that is no tool's, or a look at the terminal, lifts a block or leaves
\* it with its candidate.
LEMMA QuietAnswering ==
    ASSUME Inv, Answering, NEW s \in Hooks,
           s.event \notin TurnBoundaryEvents \cup ToolEvents \cup {""},
           s.state # "blocked", s.probe \/ turn # "gone", Deliver(s), missed' = missed,
           UNCHANGED <<agentVars, dialogVars, restarts>>
    PROVE  Answering'
<1>1. Tracked(flight, s) = flight /\ s.event \notin PostEvents
  BY DEF Tracked, ToolEvents, PostEvents
<1>2. /\ row'.term = row.term
      /\ row.term => flight' = EmptyFlight
      /\ ~row.term => flight'.inflight = flight.inflight
  BY <1>1, Delivered
<1>3. \A u \in Tools : row.term => flight'.inflight[u] = NoName
  BY <1>2, EmptyEntries
<1>4. Closed' /\ Heard'
  BY <1>2, <1>3 DEF Answering, Closed, Heard, agentVars, dialogVars
<1>5. Ended' /\ Awaited'
  <2>1. phase' = phase /\ UNCHANGED dialogVars
    BY DEF agentVars
  <2>2. s.probe => s.event \notin ToolEvents
    OBVIOUS
  <2>3. missed' \/ ~missed
    BY DEF Inv, TypeOK
  <2> QED
    BY <1>1, <2>1, <2>2, <2>3, StillAwaited
<1> QED
  BY <1>4, <1>5 DEF Answering

\* Notifications and the activity observer are such.
LEMMA IdleAnswering ==
    ASSUME Inv, Answering,
           \/ \E state \in {"idle", "waiting_input"} : Notification(state)
           \/ \E stale \in BOOLEAN : TerminalIdle(stale)
    PROVE  Answering'
<1>1. ASSUME NEW state \in {"idle", "waiting_input"}, Notification(state) PROVE Answering'
  <2> DEFINE s == Signal("notification", state, NoTool, NoName)
  <2>1. /\ s \in Hooks /\ s.event \notin TurnBoundaryEvents \cup ToolEvents \cup {""}
        /\ s.state # "blocked" /\ s.event # "pre-tool-use"
    <3>1. s \in Hooks /\ s.event = "notification" /\ s.state = state
      BY SignalType DEF Events
    <3> QED
      BY <3>1 DEF TurnBoundaryEvents, ToolEvents
  <2>2. CASE Deliver(s) /\ missed' = (missed \/ Forgets(s))
    <3>1. missed' = missed
      BY <2>1, <2>2 DEF Forgets, Inv, TypeOK
    <3> QED
      BY <1>1, <2>1, <2>2, <3>1, QuietAnswering DEF Notification
  <2>3. CASE missed' = TRUE /\ UNCHANGED <<row, flight>>
    BY <2>3, LostAnswering
  <2> QED
    BY <1>1, <2>2, <2>3 DEF Notification, Hook
<1>2. ASSUME NEW stale \in BOOLEAN, TerminalIdle(stale) PROVE Answering'
  <2> DEFINE s == [Signal("terminal-idle", "idle", NoTool, NoName) EXCEPT
                     !.probe = TRUE, !.stale = stale]
  <2>1. /\ s \in Hooks /\ s.event = "terminal-idle" /\ s.state # "blocked" /\ s.probe
    BY DEF Signal, Hooks, Events
  <2>2. s.event \notin TurnBoundaryEvents \cup ToolEvents \cup {""}
    BY <2>1 DEF TurnBoundaryEvents, ToolEvents
  <2> QED
    BY <1>2, <2>1, <2>2, QuietAnswering DEF TerminalIdle
<1> QED
  BY <1>1, <1>2

\* The reaper ends no session that is blocked, and one that it ends is exited.
LEMMA ObserveAnswering ==
    ASSUME Inv, Answering, NEW runtime, NEW at \in {0, Window + 1}, Observe(runtime, at)
    PROVE  Answering'
<1> DEFINE out == ApplyRuntimeObservation(row, flight,
                    [runtime |-> runtime, workload |-> "unknown", launch |-> NoLaunch, at |-> at])
<1>1. row' = out.row /\ flight' = out.flight /\ UNCHANGED <<agentVars, dialogVars, missed, restarts>>
  BY DEF Observe
<1>2. \/ out.row = row /\ out.flight = flight
      \/ out.row.term /\ out.row.state = "exited" /\ out.flight = EmptyFlight
  BY DEF ApplyRuntimeObservation, ObservationFenced, WorkloadDead, RuntimeClearlyDead, Outcome,
         Inv, TypeOK, Rows
<1> HIDE DEF out
<1>3. CASE row' = row /\ flight' = flight
  BY <1>1, <1>3 DEF Answering, Ended, Closed, Heard, Awaited, Pending, agentVars, dialogVars
<1>4. CASE row'.term /\ row'.state = "exited" /\ flight' = EmptyFlight
  <2>1. \A u \in Tools : flight'.inflight[u] = NoName
    BY <1>4, EmptyEntries
  <2> QED
    BY <1>4, <2>1 DEF Answering, Ended, Closed, Heard, Awaited, Pending
<1> QED
  BY <1>1, <1>2, <1>3, <1>4

\* No tool use returns to where it has not asked.
LEMMA ToldNext == Inv /\ Told /\ [Next]_vars => Told'
<1> SUFFICES ASSUME Inv, Told, [Next]_vars PROVE Told'
  OBVIOUS
<1> USE DEF Told
<1>1. ASSUME NEW t \in Tools, UseTool(t) PROVE Told'
  <2>1. CASE PreToolUse(t)
    BY <2>1 DEF PreToolUse, dialogVars, Inv, TypeOK
  <2>2. CASE AutoApprove(t)
    BY <2>2 DEF AutoApprove, dialogVars, Inv, TypeOK
  <2>3. CASE PermissionRequest(t)
    BY <2>3 DEF PermissionRequest, Inv, TypeOK
  <2>4. CASE \E event \in PostEvents : PostToolUse(t, event)
    BY <2>4 DEF PostToolUse, dialogVars, Inv, TypeOK
  <2> QED
    BY <1>1, <2>1, <2>2, <2>3, <2>4 DEF UseTool
<1>2. CASE \E allow \in BOOLEAN : Answer(allow)
  BY <1>2 DEF Answer, Inv, TypeOK
<1>3. CASE phase' = phase /\ asked' = asked
  BY <1>3
<1> QED
  BY <1>1, <1>2, <1>3 DEF Next, PermissionPrompt, UserPromptSubmit, Stop, SessionEnd, Notification,
                          TerminalIdle, Observe, Restart, agentVars, dialogVars, vars

\* Every step keeps what is known of the dialog that was reported last.
LEMMA AnsweringNext == Inv /\ Answering /\ Told /\ [Next]_vars => Answering'
<1> SUFFICES ASSUME Inv, Answering, Told, [Next]_vars PROVE Answering'
  OBVIOUS
<1>1. CASE UNCHANGED vars
  BY <1>1 DEF vars, Answering, Ended, Closed, Heard, Awaited, Pending
<1>2. ASSUME NEW t \in Tools, UseTool(t) PROVE Answering'
  BY <1>2, PreToolUseAnswering, AgentAnswering, PermissionRequestAnswering, PostToolUseAnswering
     DEF UseTool
<1>3. ASSUME Restart PROVE Answering'
  BY <1>3, LostAnswering DEF Restart
<1> QED
  BY <1>1, <1>2, <1>3, AgentAnswering, PermissionPromptAnswering, TurnAnswering, IdleAnswering,
     ObserveAnswering DEF Next

\* The post of the tool whose dialog was reported is the candidate's, and lifts
\* the block.
LEMMA PostLifts ==
    ASSUME Inv, Answering, NEW t \in Tools, NEW event \in PostEvents, PostToolUse(t, event),
           asked = t, alone, ~missed'
    PROVE  row'.state # "blocked"
<1>0. event \in Events /\ NameOf[t] \in Names /\ t # NoTool
  BY ToolFlightAssumption, ReducerAssumption DEF PostEvents, Events
<1> DEFINE s == Signal(event, "active", t, NameOf[t])
<1>1. /\ s \in Hooks /\ s.event = event /\ s.tool = t /\ s.state = "active" /\ ~s.probe
  BY <1>0, SignalType
<1>2. Deliver(s) /\ ~missed /\ phase[t] = "running" /\ turn # "gone"
  BY DEF PostToolUse, Hook
<1> HIDE DEF s
<1>3. row' = row \/ (~row.term /\ ~row'.term /\ row'.state = s.state)
  BY <1>1, <1>2, Taken
<1>4. CASE row.state # "blocked"
  BY <1>1, <1>3, <1>4
<1>5. CASE row.state = "blocked"
  <2>1. ~row.term
    BY <1>5 DEF Answering, Ended
  <2>2. flight.candidate = t
    BY <1>2, <1>5 DEF Answering, Awaited, Pending
  <2>3. Tracked(flight, s).candidate = t
    BY <2>2, <1>1 DEF Tracked, PostEvents, Inv, TypeOK, Flights
  <2>4. event \notin TurnBoundaryEvents \cup {""}
    BY DEF TurnBoundaryEvents, PostEvents
  <2>5. ApplyToolPrecedence(flight, row.state, s).pass
    BY <1>0, <1>1, <1>5, <2>3, <2>4 DEF ApplyToolPrecedence, Correlated
  <2> QED
    BY <1>1, <1>2, <2>1, <2>5, Taken
<1> QED
  BY <1>4, <1>5

-----------------------------------------------------------------------------
\* Every variable keeps its type, for every value of the constants.
THEOREM TypeCorrect == Spec => []TypeOK
<1>1. Inv => TypeOK
  BY DEF Inv
<1> QED
  BY <1>1, InitInv, NextInv, PTL DEF Spec

\* NoSpuriousClear holds with any number of tool uses, names and restarts, any
\* cap, and hooks that may be lost: a dialog the reducer was told of keeps the
\* session blocked if no other open tool use had its name or nothing was missed.
THEOREM DialogKeepsBlock == Spec => []NoSpuriousClear
<1>1. Inv => NoSpuriousClear
  BY DEF Inv, Candidacy, NoSpuriousClear
<1> QED
  BY <1>1, InitInv, NextInv, PTL DEF Spec

\* For any number of tool uses and names, any cap, lossy hooks and restarts: the
\* post of the tool that was approved lifts the block if no other open tool use
\* had its name when the dialog came up and nothing was missed until then.
THEOREM PostAnswers == Spec => PostLiftsBlock
<1> DEFINE Whole == Inv /\ Answering /\ Told
           Lifts == \A t \in Tools, event \in PostEvents :
                      PostToolUse(t, event) /\ asked = t /\ alone /\ ~missed'
                        => row'.state # "blocked"
<1>1. Init => Whole
  BY InitInv, InitAnswering, ReducerAssumption DEF Init, Told
<1>2. Whole /\ [Next]_vars => Whole'
  BY NextInv, ToldNext, AnsweringNext
<1>3. Whole /\ [Next]_vars => [Lifts]_vars
  BY PostLifts
<1> QED
  BY <1>1, <1>2, <1>3, PTL DEF Spec, PostLiftsBlock
=============================================================================
