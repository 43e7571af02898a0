----------------------------- MODULE MCServices -----------------------------
(***************************************************************************)
(* The daemon's services that share no state with each other, checked      *)
(* side by side: a behaviour is one of the part it chooses at its start,   *)
(* and the other parts rest.  The parts that share names with others are   *)
(* instances.  What must happen in the end is checked in MCProgress.       *)
(***************************************************************************)
EXTENDS NeedsInput, ShellGate, Feed, Reactions

CONSTANTS
    MaxLaunches, MaxLaunchFaults, Cards, MaxTrainChanges, MaxTrainFaults,
    Visitors, Nobody, MaxRuns, MaxSetbacks,
    Requests, MaxSockets, MaxCuts,
    Clients, MaxGrid, MaxTaps, MaxFrames

\* The bounds are numbers, and a lock that nobody holds is no caller's.
ASSUME ServicesAssumption ==
    /\ MaxLaunches \in Nat /\ MaxLaunchFaults \in Nat
    /\ MaxTrainChanges \in Nat /\ MaxTrainFaults \in Nat
    /\ Nobody \notin Visitors /\ MaxRuns \in Nat /\ MaxSetbacks \in Nat
    /\ MaxSockets \in Nat /\ MaxCuts \in Nat
    /\ Clients # {} /\ MaxGrid \in Nat /\ MaxTaps \in Nat /\ MaxFrames \in Nat

\* So are those of the parts whose modules are extended, and no call of the
\* shell terminals goes by the name of none.
ASSUME DaemonAssumption ==
    /\ Batch \in Nat /\ MaxEvents \in Nat /\ MaxFeedFaults \in Nat
    /\ MaxVersions \in Nat /\ MaxChanges \in Nat /\ MaxReactionFaults \in Nat
    /\ NoCall \notin Calls /\ MaxCrashes \in Nat

VARIABLES
    part,  \* the part this behaviour is of
    row, pending, last, started, proc, reports, seen, faults, discarded, served,
    card, line, facts, main, related, engine, arb, child, result, moved, troubles,
    asked, unheard, called,
    visit, operation, current, server, root, piped, grace, registry, unsaved, setbacks,
    booting, stray,
    request, target, awaited, answered, link, socket, reading, outgoing, replies, command,
    aborted, garbled, cuts,
    opened, frames, member, authority, tap, screen, replay, input, stale, evicted

launchVars == <<row, pending, last, started, proc, reports, seen, faults, discarded, served>>
trainVars ==
    <<card, line, facts, main, related, engine, arb, child, result, moved, troubles,
      asked, unheard, called>>
previewVars ==
    <<visit, operation, current, server, root, piped, grace, registry, unsaved, setbacks, booting,
      stray>>
brokerVars ==
    <<request, target, awaited, answered, link, socket, reading, outgoing, replies, command,
      aborted, garbled, cuts>>
muxVars == <<opened, frames, member, authority, tap, screen, replay, input, stale, evicted>>
desktopVars == <<previewVars, brokerVars, muxVars>>

Launch == INSTANCE SupervisedLaunch

Train == INSTANCE AdmissionTrain

Preview == INSTANCE PreviewServer

Browser == INSTANCE BrowserBroker

Mux == INSTANCE TerminalMux

daemonVars == <<vars, shellVars, launchVars, feedVars, reactionVars, trainVars>>
services == <<part, daemonVars, desktopVars>>

ServicesInit ==
    /\ part \in {"notifications", "shells", "launches", "feed", "reactions", "train",
                "preview", "browser", "mux"}
    /\ Init /\ ShellInit /\ Launch!Init /\ FeedInit /\ ReactionInit
    /\ Train!TrainInit /\ Preview!PreviewInit /\ Browser!BrokerInit /\ Mux!MuxInit
    /\ stacked => part = "reactions"
    /\ related => part = "train"

\* A step of a part leaves all of the others as they are.
Notifications ==
    /\ part = "notifications"
    /\ UNCHANGED <<part, desktopVars, shellVars, launchVars, feedVars, reactionVars, trainVars>>
    /\ Next

ShellTerminals ==
    /\ part = "shells"
    /\ UNCHANGED <<part, desktopVars, vars, launchVars, feedVars, reactionVars, trainVars>>
    /\ ShellNext

Launches ==
    /\ part = "launches"
    /\ UNCHANGED <<part, desktopVars, vars, shellVars, feedVars, reactionVars, trainVars>>
    /\ Launch!Next

ChangeFeed ==
    /\ part = "feed"
    /\ UNCHANGED <<part, desktopVars, vars, shellVars, launchVars, reactionVars, trainVars>>
    /\ FeedNext

Nudging ==
    /\ part = "reactions"
    /\ UNCHANGED <<part, desktopVars, vars, shellVars, launchVars, feedVars, trainVars>>
    /\ ReactionNext

Merging ==
    /\ part = "train"
    /\ UNCHANGED <<part, desktopVars, vars, shellVars, launchVars, feedVars, reactionVars>>
    /\ Train!TrainNext

Previews ==
    /\ part = "preview"
    /\ UNCHANGED <<part, daemonVars, brokerVars, muxVars>>
    /\ Preview!PreviewNext

BrowserCommands ==
    /\ part = "browser"
    /\ UNCHANGED <<part, daemonVars, previewVars, muxVars>>
    /\ Browser!BrokerNext

TerminalViews ==
    /\ part = "mux"
    /\ UNCHANGED <<part, daemonVars, previewVars, brokerVars>>
    /\ Mux!MuxNext

ServicesNext ==
    \/ Notifications \/ ShellTerminals \/ Launches \/ ChangeFeed \/ Nudging \/ Merging
    \/ Previews \/ BrowserCommands \/ TerminalViews

Services == ServicesInit /\ [][ServicesNext]_services

-----------------------------------------------------------------------------
\* Every part keeps its types.
ServicesTypeOK ==
    CASE part = "notifications" -> TypeOK
      [] part = "shells" -> ShellTypeOK
      [] part = "launches" -> Launch!TypeOK
      [] part = "feed" -> FeedTypeOK
      [] part = "reactions" -> ReactionTypeOK
      [] part = "train" -> Train!TrainTypeOK
      [] part = "preview" -> Preview!PreviewTypeOK
      [] part = "browser" -> Browser!BrokerTypeOK
      [] part = "mux" -> Mux!MuxTypeOK

\* The properties of the launches, stated in their module.
NeverDiscarded == Launch!NeverDiscarded
RowTellsTheEnd == Launch!RowTellsTheEnd

\* The properties of the merge train, stated in its module.
OnceOnly == Train!OnceOnly
InTurn == Train!InTurn

\* What the desktop is promised by the previews, the browser commands and the
\* terminal streams, stated in their modules.
OneServer == Preview!OneServer
BothEnds == Browser!BothEnds
GridArbitrated == Mux!GridArbitrated
KeysInOrder == Mux!KeysInOrder
=============================================================================
