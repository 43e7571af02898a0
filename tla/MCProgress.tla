----------------------------- MODULE MCProgress -----------------------------
(***************************************************************************)
(* What must happen in the end, of three parts side by side: the block of  *)
(* an answered dialog is lifted, the end of a launch is noticed, and a     *)
(* client of the change feed catches up.  A behaviour is one of the part   *)
(* it chooses at its start, and the other parts rest.                      *)
(***************************************************************************)
EXTENDS MCToolFlight

CONSTANTS MaxLaunches, MaxLaunchFaults, Batch, Buffer, MaxEvents, MaxFeedFaults

VARIABLES
    part,  \* the part this behaviour is of
    launched, pending, last, started, proc, reports, seen, faults, discarded, served,
    log, head, cursor, polled, stream, cut, live, hand, sent, wire, received, mishaps

Launch == INSTANCE SupervisedLaunch WITH row <- launched

Changes == INSTANCE Feed WITH phase <- stream

launchVars ==
    <<launched, pending, last, started, proc, reports, seen, faults, discarded, served>>
feedVars ==
    <<log, head, cursor, polled, stream, cut, live, hand, sent, wire, received, mishaps>>
progress == <<part, vars, launchVars, feedVars>>

ProgressInit ==
    /\ part \in {"hooks", "launches", "feed"}
    /\ Init /\ Launch!Init /\ Changes!FeedInit

Hooks == part = "hooks" /\ UNCHANGED <<part, launchVars, feedVars>> /\ Next

Launches == part = "launches" /\ UNCHANGED <<part, vars, feedVars>> /\ Launch!Next

ChangeFeed == part = "feed" /\ UNCHANGED <<part, vars, launchVars>> /\ Changes!FeedNext

ProgressNext == Hooks \/ Launches \/ ChangeFeed

\* Every part brings the fairness its module states.
Progress ==
    /\ ProgressInit /\ [][ProgressNext]_progress
    /\ \A t \in Tools : WF_vars(part = "hooks" /\ UseTool(t) /\ phase[t] # "unused")
    /\ WF_vars(part = "hooks" /\ \E allow \in BOOLEAN : Answer(allow))
    /\ WF_vars(part = "hooks" /\ Stop)
    /\ WF_launchVars(part = "launches" /\ Launch!Reaper)
    /\ WF_feedVars(part = "feed" /\ Changes!Poller)
    /\ WF_feedVars(part = "feed" /\ Changes!Stream)
    /\ WF_feedVars(part = "feed" /\ Changes!Receive)

-----------------------------------------------------------------------------
\* A launch that ended is noted as over, and the client of the feed has read
\* everything, time and again: as their modules state it.
EndIsNoticed == Launch!EndIsNoticed
CatchesUp == Changes!CatchesUp
=============================================================================
