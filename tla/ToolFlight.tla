----------------------------- MODULE ToolFlight -----------------------------
(***************************************************************************)
(* One session whose agent asks the user for permissions.  The agent runs  *)
(* tools, several at a time (subagents), and shows at most one permission  *)
(* dialog; its hooks reach the lifecycle reducer, which must keep the row  *)
(* "blocked" for as long as a dialog it was told of is on screen: automated *)
(* senders type into every session that is not blocked, and a stray Enter  *)
(* would answer the dialog for the user.                                   *)
(*                                                                         *)
(* The reducer is Lifecycle; this module adds the agent (external: what    *)
(* adapters/agent/claudecode says of it), the delivery of its hooks by     *)
(* `ao hooks` (best effort: a hook that cannot reach the daemon is         *)
(* dropped), the two pollers and the restarts of the daemon, which lose    *)
(* the flight and keep the row.                                            *)
(***************************************************************************)
EXTENDS Lifecycle

CONSTANTS
    NameOf,       \* the tool name of every tool-use id
    LossyHooks,   \* whether a hook can fail to reach the daemon
    MaxRestarts   \* bound: restarts of the daemon

ASSUME ToolFlightAssumption ==
    /\ NameOf \in [Tools -> Names]
    /\ LossyHooks \in BOOLEAN
    /\ MaxRestarts \in Nat

VARIABLES
    row,       \* the durable session row
    flight,    \* m.flights[id]
    phase,     \* what the agent has done with each tool use
    dialog,    \* the tool use whose permission dialog is on screen
    reported,  \* the reducer took that dialog's permission-request
    asked,     \* the tool use of the last permission-request taken
    alone,     \* no other tool use of its name was open at that moment
    turn,      \* whether the agent is inside a turn, or gone
    missed,    \* a hook was lost, or the reducer forgot what hooks told it
    restarts

vars == <<row, flight, phase, dialog, reported, asked, alone, turn, missed, restarts>>

agentVars == <<phase, dialog, turn>>
dialogVars == <<reported, asked, alone>>

Phases == {"unused", "requested", "asking", "denied", "running", "done"}

Rows == [state : ActivityStates, term : BOOLEAN, launch : {NoLaunch}, first : BOOLEAN,
         at : {0, Window + 1}, agent : {NoAgent}]

\* An event-tagged hook of an unsupervised agent.
Signal(event, state, tool, name) ==
    [valid |-> TRUE, state |-> state, event |-> event, tool |-> tool, name |-> name,
     launch |-> NoLaunch, agent |-> NoAgent, at |-> 0, probe |-> FALSE, stale |-> FALSE]

Deliver(s) ==
    LET out == ApplyActivitySignal(row, flight, s)
    IN  row' = out.row /\ flight' = out.flight

\* A pre hook that finds the map at its cap empties it.
Forgets(s) == s.event = "pre-tool-use" /\ Cardinality(InFlight(flight)) >= MaxInflight

\* `ao hooks` reports, and exits 0 when it could not.
Hook(s) ==
    \/ Deliver(s) /\ missed' = (missed \/ Forgets(s))
    \/ LossyHooks /\ missed' = TRUE /\ UNCHANGED <<row, flight>>

Spawned == MarkSpawned([state |-> "idle", term |-> FALSE, launch |-> NoLaunch, first |-> FALSE,
                        at |-> 0, agent |-> NoAgent], NoLaunch, 0)

Init ==
    /\ row = Spawned /\ flight = EmptyFlight
    /\ phase = [t \in Tools |-> "unused"]
    /\ dialog = NoTool /\ reported = FALSE /\ asked = NoTool /\ alone = FALSE
    /\ turn = "ended" /\ missed = FALSE /\ restarts = 0

-----------------------------------------------------------------------------
(* The agent and its hooks                                                 *)

\* Tool uses whose pre hook ran and whose post hook did not: a denied tool
\* never runs one.
Open == {t \in Tools : phase[t] \notin {"unused", "done"}}

PreToolUse(t) ==
    /\ turn = "busy" /\ phase[t] = "unused"
    /\ Hook(Signal("pre-tool-use", "active", t, NameOf[t]))
    /\ phase' = [phase EXCEPT ![t] = "requested"]
    /\ UNCHANGED <<dialog, turn, dialogVars, restarts>>

AutoApprove(t) ==
    /\ phase[t] = "requested"
    /\ phase' = [phase EXCEPT ![t] = "running"]
    /\ UNCHANGED <<row, flight, dialog, turn, dialogVars, missed, restarts>>

\* The dialog appears with its permission-request, which names the tool and
\* not the tool use.
PermissionRequest(t) ==
    /\ phase[t] = "requested" /\ dialog = NoTool
    /\ phase' = [phase EXCEPT ![t] = "asking"]
    /\ dialog' = t
    /\ \/ /\ Deliver(Signal("permission-request", "blocked", NoTool, NameOf[t]))
          /\ reported' = (row'.state = "blocked" /\ ~row'.term)
          /\ asked' = t
          /\ alone' = (\A u \in Open : NameOf[u] = NameOf[t] => u = t)
          /\ missed' = missed
       \/ /\ LossyHooks
          /\ reported' = FALSE /\ missed' = TRUE
          /\ UNCHANGED <<row, flight, asked, alone>>
    /\ UNCHANGED <<turn, restarts>>

\* The duplicate of the permission-request: it names no tool.
PermissionPrompt ==
    /\ dialog # NoTool
    /\ Hook(Signal("notification", "blocked", NoTool, NoName))
    /\ UNCHANGED <<agentVars, dialogVars, restarts>>

\* The user answers; no hook tells.
Answer(allow) ==
    /\ dialog # NoTool
    /\ phase' = [phase EXCEPT ![dialog] = IF allow THEN "running" ELSE "denied"]
    /\ dialog' = NoTool /\ reported' = FALSE
    /\ UNCHANGED <<row, flight, turn, asked, alone, missed, restarts>>

PostToolUse(t, event) ==
    /\ phase[t] = "running" /\ turn # "gone"
    /\ Hook(Signal(event, "active", t, NameOf[t]))
    /\ phase' = [phase EXCEPT ![t] = "done"]
    /\ UNCHANGED <<dialog, turn, dialogVars, restarts>>

\* A dialog holds the composer: no prompt is submitted and no turn ends with
\* one on screen or on its way.  Tools may run on in the background.
Composed == dialog = NoTool /\ \A t \in Tools : phase[t] # "requested"

UserPromptSubmit ==
    /\ Composed /\ turn # "gone"
    /\ Hook(Signal("user-prompt-submit", "active", NoTool, NoName))
    /\ turn' = "busy"
    /\ UNCHANGED <<phase, dialog, dialogVars, restarts>>

Stop ==
    /\ Composed /\ turn = "busy"
    /\ Hook(Signal("stop", "idle", NoTool, NoName))
    /\ turn' = "ended"
    /\ UNCHANGED <<phase, dialog, dialogVars, restarts>>

\* The agent ends, for a reason that clear and resume are not: a session does
\* not exit with a dialog on screen either.
SessionEnd ==
    /\ Composed /\ turn # "gone"
    /\ Hook(Signal("session-end", "exited", NoTool, NoName))
    /\ turn' = "gone"
    /\ UNCHANGED <<phase, dialog, dialogVars, restarts>>

\* idle_prompt and agent_completed (of a background session) map to idle,
\* agent_needs_input to waiting_input; any of them can come beside a dialog.
Notification(state) ==
    /\ turn # "gone"
    /\ Hook(Signal("notification", state, NoTool, NoName))
    /\ UNCHANGED <<agentVars, dialogVars, restarts>>

-----------------------------------------------------------------------------
(* The pollers and the daemon                                              *)

\* observe/activity saw an idle terminal in a snapshot of the row.
TerminalIdle(stale) ==
    /\ Deliver([Signal("terminal-idle", "idle", NoTool, NoName) EXCEPT
                  !.probe = TRUE, !.stale = stale])
    /\ UNCHANGED <<agentVars, dialogVars, missed, restarts>>

\* observe/reaper probed the runtime, truly or not.
Observe(runtime, at) ==
    /\ LET out == ApplyRuntimeObservation(row, flight,
                    [runtime |-> runtime, workload |-> "unknown", launch |-> NoLaunch, at |-> at])
       IN  row' = out.row /\ flight' = out.flight
    /\ UNCHANGED <<agentVars, dialogVars, missed, restarts>>

\* The daemon stops and starts: the flight is in memory, the row is not.
Restart ==
    /\ restarts < MaxRestarts
    /\ restarts' = restarts + 1
    /\ flight' = EmptyFlight
    /\ missed' = TRUE
    /\ UNCHANGED <<row, agentVars, dialogVars>>

UseTool(t) ==
    \/ PreToolUse(t) \/ AutoApprove(t) \/ PermissionRequest(t)
    \/ \E event \in PostEvents : PostToolUse(t, event)

Next ==
    \/ \E t \in Tools : UseTool(t)
    \/ \E allow \in BOOLEAN : Answer(allow)
    \/ PermissionPrompt \/ UserPromptSubmit \/ Stop \/ SessionEnd
    \/ \E state \in {"idle", "waiting_input"} : Notification(state)
    \/ \E stale \in BOOLEAN : TerminalIdle(stale)
    \/ \E runtime \in {"alive", "dead", "failed"}, at \in {0, Window + 1} : Observe(runtime, at)
    \/ Restart

Spec == Init /\ [][Next]_vars

\* The agent gets on with what it has begun and the user answers.
LiveSpec ==
    /\ Spec
    /\ \A t \in Tools : WF_vars(UseTool(t) /\ phase[t] # "unused")
    /\ WF_vars(\E allow \in BOOLEAN : Answer(allow))
    /\ WF_vars(Stop)

-----------------------------------------------------------------------------
(* Properties                                                              *)

TypeOK ==
    /\ row \in Rows /\ flight \in Flights
    /\ phase \in [Tools -> Phases]
    /\ dialog \in Tools \cup {NoTool} /\ asked \in Tools \cup {NoTool}
    /\ reported \in BOOLEAN /\ alone \in BOOLEAN /\ missed \in BOOLEAN
    /\ turn \in {"busy", "ended", "gone"}
    /\ restarts \in 0..MaxRestarts

StillBlocked == row.state = "blocked" /\ ~row.term

\* While a dialog the reducer was told of is on screen the row stays blocked
\* and live, whatever siblings, notifications, terminal observations and
\* false probes come in between: always when the reducer heard every hook,
\* and in spite of losses when no other open tool use bore the dialog's name.
NoSpuriousClear == dialog # NoTool /\ reported /\ (alone \/ ~missed) => StillBlocked

\* The same without its condition, as the comment on toolFlight has it: "a
\* daemon restart loses it ... never a spurious clear".
NeverASpuriousClear == dialog # NoTool /\ reported => StillBlocked

\* The post of the approved tool is the earliest proof that the dialog was
\* answered: when its name was unambiguous that post lifts the block, and a
\* Notification duplicate in between does not make the reducer forget it.
PostLiftsBlock ==
    [][\A t \in Tools, event \in PostEvents :
         PostToolUse(t, event) /\ asked = t /\ alone /\ ~missed'
           => row'.state # "blocked"]_vars

\* A block whose dialog was answered does not stay: the post of the tool, or
\* the end of the turn at the latest, lifts it or another dialog comes up.
BlockLifts ==
    row.state = "blocked" /\ dialog = NoTool ~>
        row.state # "blocked" \/ dialog # NoTool \/ missed
=============================================================================
