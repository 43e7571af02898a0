-------------------------- MODULE SupervisedLaunch --------------------------
(***************************************************************************)
(* The supervised launches of one session.  A supervisor runs the agent in *)
(* the session's pane and reports its start and its end under the launch   *)
(* id it was given; the row names that launch only once MarkSpawned has    *)
(* run, so a launch is registered before its process starts and reports    *)
(* that come early wait for the mark.  Reports may be lost or handled out  *)
(* of order; the reaper probes the launch the row named a moment before.   *)
(* What a report or an observation does to the row is the reducer's.       *)
(***************************************************************************)
EXTENDS Integers

CONSTANTS
    MaxLaunches,     \* bound: launches of the session
    MaxLaunchFaults  \* bound: lost reports and crashes of the daemon

VARIABLES
    row,        \* the session row, as the reducer keeps it
    pending,    \* pendingLaunches: the registered launch, 0 when none
    last,       \* launch ids handed out
    started,    \* the pending launch's process has been started
    proc,       \* per launch: "none", "running", "succeeded", "failed"
    reports,    \* reports the daemon has still to handle
    seen,       \* the observation the reaper is about to apply, a set of at most one
    faults,
    discarded,  \* launches a report of which was dropped as another generation's
    served      \* the launch whose success the row took last

vars == <<row, pending, last, started, proc, reports, seen, faults, discarded, served>>

Reducer == INSTANCE Lifecycle WITH
    Tools <- {}, Names <- {}, NoTool <- "none", NoName <- "none",
    NoLaunch <- 0, NoAgent <- "none", MaxInflight <- 1, Window <- 0

Launches == 1..MaxLaunches
Ended(l) == proc[l] \in {"succeeded", "failed"}

Init ==
    /\ row = [state |-> "idle", term |-> FALSE, launch |-> 0, first |-> FALSE,
              at |-> 0, agent |-> "none"]
    /\ pending = 0 /\ last = 0 /\ started = FALSE
    /\ proc = [l \in Launches |-> "none"]
    /\ reports = {} /\ seen = {} /\ faults = 0 /\ discarded = {} /\ served = 0

-----------------------------------------------------------------------------
(* Launching                                                               *)

\* A spawn or a repair turn starts from an idle row without a launch, a
\* resume from an exited one, a restore from a terminated one.
MayLaunch == row.term \/ row.state = "exited" \/ (row.state = "idle" /\ row.launch = 0)

PrepareLaunch ==
    /\ pending = 0 /\ last < MaxLaunches /\ MayLaunch
    /\ last' = last + 1 /\ pending' = last + 1 /\ started' = FALSE
    /\ UNCHANGED <<row, proc, reports, seen, faults, discarded, served>>

\* The pane is created or restarted: what ran in it is killed, supervisor
\* and all, and reports nothing.
Replaced(p) == IF p = "running" THEN "failed" ELSE p

Start ==
    /\ pending # 0 /\ ~started
    /\ started' = TRUE
    /\ proc' = [l \in Launches |-> IF l = pending THEN "running" ELSE Replaced(proc[l])]
    /\ reports' = reports \cup
           {[launch |-> pending, event |-> "process-started", state |-> "active"]}
    /\ UNCHANGED <<row, pending, last, seen, faults, discarded, served>>

\* The runtime cannot start it, or cannot tell: the launch is cancelled.
CancelLaunch ==
    /\ pending # 0
    /\ pending' = 0
    /\ UNCHANGED <<row, last, started, proc, reports, seen, faults, discarded, served>>

MarkSpawned ==
    /\ pending # 0 /\ started
    /\ row' = Reducer!MarkSpawned(row, pending, 0)
    /\ pending' = 0 /\ served' = 0
    /\ UNCHANGED <<last, started, proc, reports, seen, faults, discarded>>

\* The row cannot be written: the process is destroyed, or survives that too.
MarkSpawnedFails(destroyed, terminated) ==
    /\ pending # 0 /\ started
    /\ pending' = 0
    /\ proc' = IF destroyed THEN [proc EXCEPT ![pending] = Replaced(@)] ELSE proc
    /\ row' = IF terminated THEN Reducer!MarkTerminated(row, Reducer!EmptyFlight, 0).row ELSE row
    /\ UNCHANGED <<last, started, reports, seen, faults, discarded, served>>

-----------------------------------------------------------------------------
(* The supervisor and its reports                                          *)

Exit(l, result) ==
    /\ proc[l] = "running"
    /\ proc' = [proc EXCEPT ![l] = result]
    /\ reports' = reports \cup
           {[launch |-> l, event |-> "process-exited",
             state |-> IF result = "succeeded" THEN "idle" ELSE "exited"]}
    /\ UNCHANGED <<row, pending, last, started, seen, faults, discarded, served>>

Signal(r) ==
    [valid |-> TRUE, state |-> r.state, event |-> r.event, tool |-> "none", name |-> "none",
     launch |-> r.launch, agent |-> "none", at |-> 0, probe |-> FALSE, stale |-> FALSE]

\* Seeded fault: only the end of a registered launch waits for its mark.
AwaitsMarkAtExit(r) == pending = r.launch /\ r.event = "process-exited"

\* A signal of the registered launch waits until it is marked or cancelled.
AwaitsMark(r) == pending = r.launch

Report(r) ==
    /\ r \in reports /\ ~AwaitsMark(r)
    /\ reports' = reports \ {r}
    /\ row' = Reducer!ApplyActivitySignal(row, Reducer!EmptyFlight, Signal(r)).row
    /\ discarded' = IF ~row.term /\ Reducer!Fenced(row, Signal(r))
                      THEN discarded \cup {r.launch} ELSE discarded
    /\ served' = IF ~row.term /\ Reducer!SuccessfulProcessExit(row, Signal(r))
                   THEN r.launch ELSE served
    /\ UNCHANGED <<pending, last, started, proc, seen, faults>>

\* No answer within five seconds: it is not repeated.
LoseReport(r) ==
    /\ r \in reports /\ faults < MaxLaunchFaults
    /\ reports' = reports \ {r} /\ faults' = faults + 1
    /\ UNCHANGED <<row, pending, last, started, proc, seen, discarded, served>>

-----------------------------------------------------------------------------
(* The reaper                                                              *)

\* Seeded fault: only the workload of an active row is probed.
WorkloadOfActive ==
    IF row.launch = 0 \/ row.state # "active" THEN "failed"
    ELSE IF proc[row.launch] = "running" THEN "alive" ELSE "dead"

\* The pane itself lives on when its agent ends.
Workload ==
    IF row.launch = 0 THEN "failed"
    ELSE IF proc[row.launch] = "running" THEN "alive" ELSE "dead"

Probe ==
    /\ seen = {} /\ ~row.term
    /\ seen' = {[launch |-> row.launch, runtime |-> "alive", workload |-> Workload, at |-> 0]}
    /\ UNCHANGED <<row, pending, last, started, proc, reports, faults, discarded, served>>

\* Between the two phases of the pass, anything may have happened.
Observe(f) ==
    /\ f \in seen /\ seen' = {}
    /\ row' = Reducer!ApplyRuntimeObservation(row, Reducer!EmptyFlight, f).row
    /\ UNCHANGED <<pending, last, started, proc, reports, faults, discarded, served>>

-----------------------------------------------------------------------------
(* The end of the session and of the daemon                                *)

Kill ==
    /\ ~row.term
    /\ proc' = [l \in Launches |-> Replaced(proc[l])]
    /\ row' = Reducer!MarkTerminated(row, Reducer!EmptyFlight, 0).row
    /\ UNCHANGED <<pending, last, started, reports, seen, faults, discarded, served>>

\* The registered launch dies with the daemon, and so do the handlers that
\* waited for it and the reaper's pass.  The pane lives on.
Crash ==
    /\ faults < MaxLaunchFaults /\ faults' = faults + 1
    /\ pending' = 0 /\ reports' = {} /\ seen' = {}
    /\ UNCHANGED <<row, last, started, proc, discarded, served>>

Next ==
    \/ PrepareLaunch \/ Start \/ CancelLaunch \/ MarkSpawned
    \/ \E destroyed, terminated \in BOOLEAN : MarkSpawnedFails(destroyed, terminated)
    \/ \E l \in Launches, result \in {"succeeded", "failed"} : Exit(l, result)
    \/ \E r \in reports : Report(r) \/ LoseReport(r)
    \/ Probe \/ \E f \in seen : Observe(f)
    \/ Kill \/ Crash

\* The reaper's ticker goes on for the daemon's life.
Reaper == Probe \/ \E f \in seen : Observe(f)

Fairness == WF_vars(Reaper)

Spec == Init /\ [][Next]_vars /\ Fairness

-----------------------------------------------------------------------------
Observations == [launch : 0..MaxLaunches, runtime : {"alive"},
                 workload : {"alive", "dead", "failed"}, at : {0}]

TypeOK ==
    /\ row.state \in {"active", "idle", "exited"} /\ row.term \in BOOLEAN
    /\ row.launch \in 0..last
    /\ pending \in {0, last} /\ last \in 0..MaxLaunches /\ started \in BOOLEAN
    /\ proc \in [Launches -> {"none", "running", "succeeded", "failed"}]
    /\ reports \subseteq [launch : 1..last, event : {"process-started", "process-exited"},
                          state : {"active", "idle", "exited"}]
    /\ seen \in {{}} \cup {{f} : f \in Observations}
    /\ faults \in 0..MaxLaunchFaults /\ discarded \subseteq Launches /\ served \in 0..last

\* A report of the launch the row names, now or later, is never taken for
\* another generation's: one that comes before the mark waits for it.
NeverDiscarded == row.launch # 0 => row.launch \notin discarded

\* The row tells how the launch ended.  A success that reached the daemon is
\* never shown as a failure: whatever the reaper had seen, and in whatever
\* order the reports are handled, the session does not end up exited before it
\* is launched again.  And an exited session, which may be resumed by a restart
\* of its pane, names a launch that is over.
RowTellsTheEnd ==
    ~row.term /\ row.state = "exited" =>
        served = 0 /\ (row.launch # 0 => Ended(row.launch))

\* An agent that ended is not shown at work for ever, whatever reports are
\* lost: time and again the launch the row names runs or is noted as over.
EndIsNoticed ==
    []<>(row.launch = 0 \/ row.term \/ row.state = "exited" \/ ~Ended(row.launch))
=============================================================================
