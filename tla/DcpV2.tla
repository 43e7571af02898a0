------------------------------- MODULE DcpV2 -------------------------------
(***************************************************************************)
(* The durable command queue of a DCP v2 task and the twin that executes   *)
(* it.  The task has one active command; a handler claims it under a       *)
(* lease, writes a fence before an external effect, and a transition ends  *)
(* it and names the next.  The requests of the API (Submit, the two wakes, *)
(* the exit report of a model) run through the queue without a lock of     *)
(* their own, and Startup takes up what the daemon left when it died.      *)
(* Digests and receipts that bind rows to one another are equal by         *)
(* construction here; a fault stands for any of their checks failing.      *)
(***************************************************************************)
EXTENDS Integers, FiniteSets

CONSTANTS
    Handlers, Boot,   \* API requests served at a time; the boot of the daemon
    MaxReadmissions, MaxRecoveries,   \* the budgets of a task and of a lease
    MaxRuns,          \* bound: check runs that report on a revision
    MaxCrashes,       \* bound: deaths of the daemon
    MaxFaults         \* bound: calls to git, GitHub or the model runner that fail

ASSUME DcpV2Assumption ==
    /\ Boot \notin Handlers
    /\ {MaxReadmissions, MaxRecoveries, MaxRuns, MaxCrashes, MaxFaults} \subseteq Nat

VARIABLES
    task, cmd, action, adm,   \* the task; its active command, model action and admission
    events, applied,          \* provider events: retained, and consumed by a transition
    branch, tree,             \* the head on GitHub, and the head of the worktree
    sent, run,                \* releases ordered per admission, and the run of each
    op,                       \* what each handler is at
    passed, approved, shipped,   \* revisions reported as passed, approved, sent to release
    excuse,                   \* a call failed or a report was lost since the task moved
    crashes, faults

db == <<task, cmd, action, adm, events, applied>>
world == <<branch, tree, sent, run>>
evidence == <<passed, approved, shipped>>
vars == <<db, world, op, evidence, excuse, crashes, faults>>

Procs == Handlers \cup {Boot}
Admissions == 1..(MaxReadmissions + 1)

Models == {"worker", "review", "repair"}
Wakes == {"checks", "merge"}
Effects == {"publication", "admission", "release", "readmission"}

NoCmd == [id |-> 0, kind |-> "none", rev |-> 0, status |-> "none",
          fenced |-> FALSE, lease |-> "none", gen |-> 0]
NoAction == [id |-> 0, status |-> "none", proc |-> "none", verdict |-> "none",
             reported |-> FALSE, launches |-> 0]
NoEvent == [kind |-> "none", rev |-> 0, n |-> 0]
Idle == [call |-> "none", at |-> "idle", via |-> "drain", next |-> "return",
         cmd |-> NoCmd, out |-> "none", ev |-> NoEvent]

StalePending(id, kind, rev) ==
    [NoCmd EXCEPT !.id = id, !.kind = kind, !.rev = rev - 1, !.status = "pending"]
Pending(id, kind, rev) == [NoCmd EXCEPT !.id = id, !.kind = kind, !.rev = rev, !.status = "pending"]
Queued(id) == [NoAction EXCEPT !.id = id, !.status = "queued"]

Init ==
    /\ task = [state |-> "absent", id |-> 0, rev |-> 0, head |-> 0,
               repairs |-> 0, readmissions |-> 0, cause |-> "none"]
    /\ cmd = NoCmd /\ action = NoAction /\ adm = [n |-> 0, rev |-> 0, status |-> "none", fenced |-> FALSE]
    /\ events = {} /\ applied = {}
    /\ branch = 0 /\ tree = 1
    /\ sent = [n \in Admissions |-> 0] /\ run = [n \in Admissions |-> "none"]
    /\ op = [p \in Procs |-> Idle]
    /\ passed = {} /\ approved = {} /\ shipped = {}
    /\ excuse = FALSE /\ crashes = 0 /\ faults = 0

-----------------------------------------------------------------------------
(* Transitions of the task. *)

\* The state an outcome leads to, and the command that state requires.
Outcome == [
    produced   |-> [state |-> "checks_waiting", kind |-> "publication"],
    published  |-> [state |-> "checks_waiting", kind |-> "checks"],
    checked    |-> [state |-> "review_queued", kind |-> "review"],
    approved   |-> [state |-> "admission_waiting", kind |-> "admission"],
    rejected   |-> [state |-> "repair_queued", kind |-> "repair"],
    admitted   |-> [state |-> "release_waiting", kind |-> "release"],
    dispatched |-> [state |-> "merge_observing", kind |-> "merge"],
    moved      |-> [state |-> "readmission", kind |-> "readmission"],
    rebased    |-> [state |-> "checks_waiting", kind |-> "checks"],
    released   |-> [state |-> "deployment_waiting", kind |-> "deployment"],
    observed   |-> [state |-> "deployment_observe", kind |-> "verify"],
    verified   |-> [state |-> "deployed", kind |-> "none"]]

NewHead == {"produced", "rebased"}
NewRevision == NewHead \cup {"published"}
Pauses == {"published", "dispatched", "rebased"}   \* PauseDrain

Holds(c) == cmd.status = "leased" /\ cmd.id = c.id /\ cmd.lease = c.lease

\* The admission after an outcome: enqueued by "admitted", completed by the release.
Admission(out) ==
    CASE out = "admitted" -> [n |-> task.readmissions + 1, rev |-> task.rev,
                              status |-> "waiting", fenced |-> FALSE]
      [] out = "released" -> [adm EXCEPT !.status = "succeeded"]
      [] out = "moved" -> [adm EXCEPT !.status = "readmission_required"]
      [] OTHER -> adm

\* One transaction: the command ends, the event is consumed, the task moves,
\* and the next command is there with its action.
Advance(out, ev) ==
    LET o == Outcome[out]
        rev == IF out \in NewRevision THEN task.rev + 1 ELSE task.rev
    IN
    /\ task' = [task EXCEPT
                  !.state = o.state, !.id = @ + 1, !.rev = rev,
                  !.head = IF out \in NewHead THEN rev ELSE @,
                  !.repairs = IF out = "rejected" THEN @ + 1 ELSE @,
                  !.readmissions = IF out = "moved" THEN @ + 1 ELSE @]
    /\ cmd' = IF o.kind = "none" THEN NoCmd ELSE Pending(task.id + 1, o.kind, rev)
    /\ action' = IF o.kind \in Models THEN Queued(task.id + 1) ELSE NoAction
    /\ adm' = Admission(out)
    /\ events' = events \ {ev} /\ applied' = applied \cup (events \cap {ev})
    /\ passed' = passed \cup (IF out = "checked" THEN {ev.rev} ELSE {})
    /\ approved' = approved \cup (IF out = "approved" THEN {task.rev} ELSE {})
    /\ excuse' = FALSE /\ UNCHANGED shipped

FailTask(cause) ==
    /\ task' = [task EXCEPT !.state = "failed", !.id = @ + 1, !.cause = cause]
    /\ cmd' = NoCmd /\ action' = NoAction
    /\ UNCHANGED <<adm, events, applied, evidence>>

-----------------------------------------------------------------------------
(* The steps of a handler. *)

At(p, at) == op[p].at = at

\* Between commands a call keeps nothing of the one it is done with.
Go(p, at) ==
    op' = [op EXCEPT ![p] =
             CASE at = "return" -> Idle
               [] at \in {"drain", "models", "drive"} ->
                     [Idle EXCEPT !.call = op[p].call, !.at = at, !.next = op[p].next]
               [] OTHER -> [@ EXCEPT !.at = at]]

\* The call returns an error.
Err(p) == op' = [op EXCEPT ![p] = Idle] /\ excuse' = TRUE

\* Bound: a second check run reports only where no call fails and no base moves.
SecondRun ==
    \E e \in events \cup applied \cup {op[p].ev : p \in Procs} : e.kind = "checks" /\ e.n > 1
Untroubled == faults = 0 /\ task.readmissions = 0 /\ \A n \in Admissions : run[n] # "moved"

Faulty == ~SecondRun /\ faults < MaxFaults /\ faults' = faults + 1

\* Where a call goes on when its Drain has returned, and when a command was
\* processed or reconciled: a pause ends the Drain, and the listing of Startup.
AfterDrain(o) == IF o.call = "release" THEN "return" ELSE "drive"
Continue(o, pause) ==
    CASE o.via = "drain" -> IF pause THEN AfterDrain(o) ELSE "drain"
      [] o.via # "drain" /\ o.call # "startup" -> "models"
      [] o.via = "list" /\ o.call = "startup" /\ pause -> "drive"
      [] OTHER -> "drain"

Serving(p) == p \in Handlers /\ At(p, "idle") /\ At(Boot, "idle")
Serve(p, call, at, c, ev) ==
    op' = [op EXCEPT ![p] = [Idle EXCEPT !.call = call, !.at = at, !.cmd = c, !.ev = ev]]

Submit(p) ==
    /\ Serving(p) /\ task.state = "absent"
    /\ task' = [task EXCEPT !.state = "worker_queued", !.id = 1, !.rev = 1, !.head = 1]
    /\ cmd' = Pending(1, "worker", 1) /\ action' = Queued(1)
    /\ Serve(p, "submit", "drain", NoCmd, NoEvent)
    /\ UNCHANGED <<adm, events, applied, world, evidence, excuse, crashes, faults>>

\* A check run of the current head reports; a report may come again.
WakeChecks(p, n) ==
    /\ Serving(p) /\ task.state = "checks_waiting" /\ cmd.kind = "checks"
    /\ Serve(p, "checks", "record", NoCmd, [kind |-> "checks", rev |-> task.rev, n |-> n])
    /\ UNCHANGED <<db, world, evidence, excuse, crashes, faults>>

\* The release workflow of the admission reports when it is through.
WakeRelease(p) ==
    /\ Serving(p) /\ task.state \in {"merge_observing", "release_waiting"}
    /\ cmd.kind = "merge" \/ (cmd.kind = "release" /\ cmd.status = "leased" /\ cmd.fenced)
    /\ run[adm.n] \in {"merged", "moved"}
    /\ Serve(p, "release", "record", NoCmd, [kind |-> "merge", rev |-> task.rev, n |-> adm.n])
    /\ UNCHANGED <<db, world, evidence, excuse, crashes, faults>>

\* The supervisor of a model reports its exit, in one attempt.
ReportExit(p) ==
    /\ Serving(p) /\ action.proc = "ended" /\ ~action.reported
    /\ action' = [action EXCEPT !.reported = TRUE]
    /\ Serve(p, "exit", "complete", [NoCmd EXCEPT !.id = action.id], NoEvent)
    /\ UNCHANGED <<task, cmd, adm, events, applied, world, evidence, excuse, crashes, faults>>

ReportLost ==
    /\ action.proc = "ended" /\ ~action.reported
    /\ At(Boot, "idle") => Faulty
    /\ ~At(Boot, "idle") => UNCHANGED faults
    /\ action' = [action EXCEPT !.reported = TRUE] /\ excuse' = TRUE
    /\ UNCHANGED <<task, cmd, adm, events, applied, world, op, evidence, crashes>>

RecordEvent(p) ==
    /\ At(p, "record")
    /\ events' = events \cup ({op[p].ev} \ applied)
    /\ Go(p, "list")
    /\ UNCHANGED <<task, cmd, action, adm, applied, world, evidence, excuse, crashes, faults>>

ListedOnce(call) ==
    CASE cmd.status = "leased" /\ cmd.kind \notin Models /\ cmd.fenced -> "reconcile"
      [] OTHER -> IF call = "startup" THEN "drain" ELSE "models"

\* ListLeasedDCPV2Commands, and what Startup and Event do with what it returns.
Listed(call) ==
    CASE cmd.status # "leased" -> IF call = "startup" THEN "drain" ELSE "models"
      [] cmd.status = "leased" /\ cmd.kind \in Models ->
            IF call = "startup" /\ ~cmd.fenced THEN "recover" ELSE "models"
      [] cmd.status = "leased" /\ cmd.kind \notin Models /\ cmd.fenced -> "reconcile"
      [] OTHER -> IF call = "startup" \/ cmd.kind \in Wakes THEN "recover" ELSE "models"

List(p) ==
    LET at == Listed(op[p].call) IN
    /\ At(p, "list")
    /\ op' = [op EXCEPT ![p] =
                 CASE at \in {"drain", "models"} -> [Idle EXCEPT !.call = op[p].call, !.at = at]
                   [] at = "recover" -> [Idle EXCEPT !.call = op[p].call, !.at = at, !.via = "list", !.cmd = cmd]
                   [] at = "reconcile" -> [@ EXCEPT !.at = at, !.via = at, !.next = "return", !.cmd = cmd]]
    /\ UNCHANGED <<db, world, evidence, excuse, crashes, faults>>

RecoverCommandLease(p) ==
    LET won == Holds(op[p].cmd) /\ cmd.gen = op[p].cmd.gen /\ ~cmd.fenced /\ cmd.gen < MaxRecoveries
    IN
    /\ At(p, "recover")
    /\ \/ /\ won
          /\ cmd' = [cmd EXCEPT !.lease = "recovery", !.gen = @ + 1]
          /\ op' = [op EXCEPT ![p].cmd = cmd',
                              ![p].at = IF cmd.kind \in Models THEN "models" ELSE "process"]
          /\ UNCHANGED excuse
       \/ ~won /\ Err(p) /\ UNCHANGED cmd
    /\ UNCHANGED <<task, action, adm, events, applied, world, evidence, crashes, faults>>

\* A model that is launching or running pauses the call, a queued one is for
\* the drive at its end.
ReconcileModelCommands(p) ==
    LET busy == cmd.status = "leased" /\ cmd.kind \in Models /\ action.status # "queued" IN
    /\ At(p, "models")
    /\ Go(p, IF busy THEN AfterDrain(op[p]) ELSE "drain")
    /\ UNCHANGED <<db, world, evidence, excuse, crashes, faults>>

\* Drain claims the command, under a lease that tells its claimant; the claim
\* of a model's command is all it does.
ClaimNextCommand(p) ==
    /\ At(p, "drain")
    /\ \/ cmd.status # "pending" /\ Go(p, AfterDrain(op[p])) /\ UNCHANGED cmd
       \/ /\ cmd.status = "pending"
          /\ cmd' = [cmd EXCEPT !.status = "leased", !.lease = op[p].call]
          /\ op' = IF cmd.kind \in Models THEN op
                   ELSE [op EXCEPT ![p].at = "process", ![p].via = "drain", ![p].cmd = cmd']
    /\ UNCHANGED <<task, action, adm, events, applied, world, evidence, excuse, crashes, faults>>

-----------------------------------------------------------------------------
(* The processor, by the kind of command. *)

Process(p, kind) == At(p, "process") /\ op[p].cmd.kind = kind

MatchedAny(c) == {e \in events : e.kind = c.kind}

\* Retained events that answer the command on the task's current revision.
Matched(c) == {e \in events : e.kind = c.kind /\ e.rev = c.rev /\ e.rev = task.rev}

\* The exact wake: none retained yet pauses, more than one is refused.
Unanswered(p, kind) ==
    /\ Process(p, kind) /\ Matched(op[p].cmd) = {}
    /\ Go(p, Continue(op[p], TRUE))

AmbiguousWaits(p, kind) ==
    /\ Process(p, kind) /\ Cardinality(Matched(op[p].cmd)) > 1
    /\ Go(p, Continue(op[p], TRUE))

Ambiguous(p, kind) ==
    /\ Process(p, kind) /\ Cardinality(Matched(op[p].cmd)) > 1
    /\ Go(p, "fail")

Conclude(p, out, ev) == op' = [op EXCEPT ![p].at = "apply", ![p].out = out, ![p].ev = ev]

CompleteChecksUnasked(p) ==
    /\ Process(p, "checks") /\ Conclude(p, "checked", NoEvent)
    /\ UNCHANGED <<db, world, evidence, excuse, crashes, faults>>

CompleteChecks(p) ==
    /\ \/ Unanswered(p, "checks") \/ Ambiguous(p, "checks")
       \/ /\ Process(p, "checks") /\ Cardinality(Matched(op[p].cmd)) = 1
          /\ Conclude(p, "checked", CHOOSE e \in Matched(op[p].cmd) : TRUE)
    /\ UNCHANGED <<db, world, evidence, excuse, crashes, faults>>

ObserveAnyRelease(p) ==
    /\ \/ Unanswered(p, "merge")
       \/ /\ Process(p, "merge") /\ Matched(op[p].cmd) # {}
          /\ Conclude(p, "released", CHOOSE e \in Matched(op[p].cmd) : TRUE)
    /\ UNCHANGED <<db, world, evidence, excuse, crashes, faults>>

ObserveRelease(p) ==
    /\ \/ Unanswered(p, "merge")
       \/ /\ Process(p, "merge") /\ Cardinality(Matched(op[p].cmd)) = 1
          /\ IF adm.status = "dispatched"
             THEN Conclude(p, IF run[adm.n] = "moved" THEN "moved" ELSE "released",
                           CHOOSE e \in Matched(op[p].cmd) : TRUE)
             ELSE Go(p, "fail")
    /\ UNCHANGED <<db, world, evidence, excuse, crashes, faults>>

ObserveDeployment(p) ==
    /\ Process(p, "deployment") /\ Conclude(p, "observed", NoEvent)
    /\ UNCHANGED <<db, world, evidence, excuse, crashes, faults>>

VerifyTerminal(p) ==
    /\ Process(p, "verify") /\ Conclude(p, "verified", NoEvent)
    /\ UNCHANGED <<db, world, evidence, excuse, crashes, faults>>

\* What has to be read before the fence: the payload of a publication, the
\* check and review of an admission, the worktree of a readmission.
PrepareEffect(p) ==
    /\ \E kind \in {"publication", "admission", "readmission"} : Process(p, kind)
    /\ Go(p, IF op[p].cmd.kind = "readmission" /\ tree # task.head THEN "fail" ELSE "fence")
    /\ UNCHANGED <<db, world, evidence, excuse, crashes, faults>>

\* A release leases the admission and fences its dispatch first.
DispatchRelease(p) ==
    /\ Process(p, "release")
    /\ IF adm.status \in {"waiting", "leased"}
       THEN adm' = [adm EXCEPT !.status = "leased"] /\ Go(p, "admfence")
       ELSE Go(p, "fail") /\ UNCHANGED adm
    /\ UNCHANGED <<task, cmd, action, events, applied, world, evidence, excuse, crashes, faults>>

FenceAdmissionDispatch(p) ==
    /\ At(p, "admfence") /\ adm' = [adm EXCEPT !.fenced = TRUE]
    /\ Go(p, "fence")
    /\ UNCHANGED <<task, cmd, action, events, applied, world, evidence, excuse, crashes, faults>>

\* What the processor reads outside the daemon is not what the rows say.
Drifts(p) ==
    /\ \/ \E kind \in {"publication", "admission", "readmission", "deployment"} : Process(p, kind)
       \/ \E kind \in Wakes : Process(p, kind) /\ Cardinality(Matched(op[p].cmd)) = 1
    /\ Faulty /\ Go(p, "fail")
    /\ UNCHANGED <<db, world, evidence, excuse, crashes>>

FenceCommandEffect(p) ==
    /\ At(p, "fence") /\ Holds(op[p].cmd) /\ ~cmd.fenced
    /\ cmd' = [cmd EXCEPT !.fenced = TRUE]
    /\ op' = [op EXCEPT ![p].at = "effect", ![p].cmd = cmd']
    /\ UNCHANGED <<task, action, adm, events, applied, world, evidence, excuse, crashes, faults>>

\* A push expects the branch at the old head or already at the new one.  Heads
\* are numbered as they are published, so a branch elsewhere is past the new one.
\* A worker's output is pushed from a worktree that is still at it.
NewHeadOf(c) == IF c.kind = "readmission" THEN c.rev + 1 ELSE c.rev
Refused(c) ==
    \/ c.kind \in {"publication", "readmission"} /\ branch > NewHeadOf(c)
    \/ c.kind = "publication" /\ tree # c.rev

Push(c) == branch' = NewHeadOf(c) /\ UNCHANGED <<tree, sent, run, shipped>>

\* Ordering a release starts its run.
Order ==
    /\ sent' = [sent EXCEPT ![adm.n] = @ + 1] /\ run' = [run EXCEPT ![adm.n] = "running"]
    /\ shipped' = shipped \cup {task.rev} /\ UNCHANGED <<branch, tree>>

Lands(c) ==
    CASE c.kind \in {"publication", "readmission"} -> Push(c)
      [] c.kind = "release" -> Order
      [] c.kind = "admission" -> UNCHANGED <<world, shipped>>   \* a review, adopted

AfterEffect == [publication |-> "published", admission |-> "admitted",
                release |-> "dispatched", readmission |-> "rebased"]

Effect(p) ==
    LET c == op[p].cmd IN
    /\ At(p, "effect") /\ ~Refused(c) /\ Lands(c)
    /\ op' = [op EXCEPT ![p].out = AfterEffect[c.kind], ![p].ev = NoEvent,
                        ![p].at = CASE c.kind = "release" -> "settle"
                                    [] c.kind = "readmission" -> "adopt"
                                    [] OTHER -> "apply"]
    /\ UNCHANGED <<db, passed, approved, excuse, crashes, faults>>

\* The worktree is reset to the published successor.
AdoptSuccessor(p) ==
    /\ At(p, "adopt") /\ tree' = op[p].cmd.rev + 1 /\ Go(p, "apply")
    /\ UNCHANGED <<db, branch, sent, run, evidence, excuse, crashes, faults>>

\* A fenced effect whose execution failed stays fenced; the failure of its
\* reconciliation fails the task.
Unsettled(o) == IF o.via = "reconcile" THEN "fail" ELSE Continue(o, FALSE)

EffectRefused(p) ==
    /\ At(p, "effect") /\ Refused(op[p].cmd) /\ Go(p, Unsettled(op[p]))
    /\ UNCHANGED <<db, world, evidence, excuse, crashes, faults>>

\* The error of an effect says nothing of whether it landed.
EffectFails(p) ==
    /\ At(p, "adopt") \/ (At(p, "effect") /\ ~Refused(op[p].cmd))
    /\ Faulty /\ Go(p, Unsettled(op[p]))
    /\ UNCHANGED <<world, shipped>> \/ (At(p, "effect") /\ Lands(op[p].cmd))
    /\ UNCHANGED <<db, passed, approved, excuse, crashes>>

\* The admission is settled once: it has to be leased and fenced still.
DispatchAdmission(p) ==
    LET open == adm.rev = op[p].cmd.rev /\ adm.status = "leased" /\ adm.fenced IN
    /\ At(p, "settle")
    /\ \/ /\ open /\ adm' = [adm EXCEPT !.status = "dispatched"]
          /\ op' = [op EXCEPT ![p].at = "apply", ![p].out = "dispatched", ![p].ev = NoEvent]
       \/ ~open /\ Go(p, Unsettled(op[p])) /\ UNCHANGED adm
    /\ UNCHANGED <<task, cmd, action, events, applied, world, evidence, excuse, crashes, faults>>

\* The transition needs the lease; a readmission beyond the budget is refused
\* by the store and fails the task.
ApplyOutcome(p) ==
    LET o == op[p]
        spent == o.out = "moved" /\ task.readmissions = MaxReadmissions
    IN
    /\ At(p, "apply")
    /\ \/ /\ Holds(o.cmd) /\ ~spent
          /\ Advance(o.out, o.ev) /\ Go(p, Continue(o, o.out \in Pauses))
       \/ Holds(o.cmd) /\ spent /\ FailTask("transition_failed") /\ Err(p)
       \/ ~Holds(o.cmd) /\ Err(p) /\ UNCHANGED <<db, evidence>>
    /\ UNCHANGED <<world, crashes, faults>>

FailClosed(p) ==
    LET o == op[p] IN
    /\ At(p, "fail")
    /\ \/ /\ Holds(o.cmd) /\ Go(p, Continue(o, FALSE)) /\ UNCHANGED excuse
          /\ FailTask(IF o.via = "reconcile" THEN "effect_reconciliation_failed"
                      ELSE "processor_failed")
       \/ ~Holds(o.cmd) /\ Err(p) /\ UNCHANGED <<db, evidence>>
    /\ UNCHANGED <<world, crashes, faults>>

-----------------------------------------------------------------------------
(* Reconciliation of a fenced effect from what is found outside. *)

Reconciles(p, kind) == At(p, "reconcile") /\ op[p].cmd.kind = kind
Drifted(o) == task.rev # o.cmd.rev

ReconcileRevision(p) ==
    /\ At(p, "reconcile") /\ Drifted(op[p]) /\ Go(p, "fail")
    /\ UNCHANGED <<db, world, evidence, excuse, crashes, faults>>

ReconcilePublication(p) ==
    /\ Reconciles(p, "publication") /\ ~Drifted(op[p])
    /\ CASE tree # op[p].cmd.rev -> Go(p, "fail")
         [] branch = op[p].cmd.rev /\ tree = branch -> Conclude(p, "published", NoEvent)
         [] OTHER -> Go(p, Continue(op[p], FALSE))
    /\ UNCHANGED <<db, world, evidence, excuse, crashes, faults>>

\* The review is published or adopted; the admission must not exist yet.
ReconcileAdmission(p) ==
    /\ Reconciles(p, "admission") /\ ~Drifted(op[p])
    /\ IF adm.n = task.readmissions THEN Conclude(p, "admitted", NoEvent) ELSE Go(p, "fail")
    /\ UNCHANGED <<db, world, evidence, excuse, crashes, faults>>

ReorderRelease(p) ==
    /\ Reconciles(p, "release") /\ ~Drifted(op[p]) /\ Go(p, "effect")
    /\ UNCHANGED <<db, world, evidence, excuse, crashes, faults>>

\* Only the release's own completion proves that it was ordered.
ReconcileRelease(p) ==
    LET o == op[p] IN
    /\ Reconciles(p, "release") /\ ~Drifted(o)
    /\ IF o.ev.kind = "merge" /\ o.ev.rev = task.rev
       THEN CASE adm.status = "leased" -> Go(p, "settle")
              [] adm.status = "dispatched" -> Conclude(p, "dispatched", NoEvent)
              [] OTHER -> Go(p, "fail")
       ELSE Go(p, Continue(o, FALSE))
    /\ UNCHANGED <<db, world, evidence, excuse, crashes, faults>>

\* The worktree must still be at the old head; then the successor is published.
ReconcileReadmission(p) ==
    /\ Reconciles(p, "readmission") /\ ~Drifted(op[p])
    /\ Go(p, IF tree = task.head THEN "effect" ELSE "fail")
    /\ UNCHANGED <<db, world, evidence, excuse, crashes, faults>>

ReconcileFails(p) ==
    /\ At(p, "reconcile") /\ ~Drifted(op[p])
    /\ op[p].cmd.kind = "release" => op[p].ev.kind = "merge" /\ op[p].ev.rev = task.rev
    /\ Faulty /\ Go(p, "fail")
    /\ UNCHANGED <<db, world, evidence, excuse, crashes>>

-----------------------------------------------------------------------------
(* The models. *)

\* driveDirectModels; a reviewer and a repairer need the lineage's worktree.
\* At the end of a completion that Startup found, Startup goes on to its list.
DriveModels(p) ==
    LET c == op[p].cmd
        ready == action.id = cmd.id /\ cmd.status = "leased" /\ ~cmd.fenced
    IN
    /\ At(p, "drive")
    /\ \/ action.status # "queued" /\ Go(p, op[p].next) /\ UNCHANGED excuse
       \/ /\ action.status = "queued" /\ ready /\ (cmd.kind # "worker" => tree = task.head)
          /\ op' = [op EXCEPT ![p].at = "reserve", ![p].cmd = cmd] /\ UNCHANGED excuse
       \/ /\ action.status = "queued" /\ ~(ready /\ (cmd.kind # "worker" => tree = task.head))
          /\ Err(p)
    /\ UNCHANGED <<db, world, evidence, crashes, faults>>

ReserveAnyLaunch(p) ==
    /\ At(p, "reserve") /\ cmd' = [cmd EXCEPT !.fenced = TRUE]
    /\ action' = [action EXCEPT !.status = "launching"] /\ Go(p, "launch")
    /\ UNCHANGED <<task, adm, events, applied, world, evidence, excuse, crashes, faults>>

\* One transaction fences the command and moves the action to launching.
ReserveModelLaunch(p) ==
    LET own == action.id = op[p].cmd.id /\ action.status = "queued" IN
    /\ At(p, "reserve")
    /\ \/ /\ own /\ cmd' = [cmd EXCEPT !.fenced = TRUE]
          /\ action' = [action EXCEPT !.status = "launching"] /\ Go(p, "launch")
       \/ ~own /\ Go(p, op[p].next) /\ UNCHANGED <<cmd, action>>
    /\ UNCHANGED <<task, adm, events, applied, world, evidence, excuse, crashes, faults>>

Launch(p) ==
    /\ At(p, "launch")
    /\ action' = [action EXCEPT !.proc = "alive", !.launches = @ + 1] /\ Go(p, "start")
    /\ UNCHANGED <<task, cmd, adm, events, applied, world, evidence, excuse, crashes, faults>>

LaunchFails(p) ==
    /\ (At(p, "drive") /\ action.status = "queued") \/ At(p, "launch")
    /\ Faulty /\ Err(p)
    /\ UNCHANGED <<db, world, evidence, crashes>>

StartModelRuntime(p) ==
    /\ At(p, "start") /\ action' = [action EXCEPT !.status = "running"] /\ Go(p, "terminal")
    /\ UNCHANGED <<task, cmd, adm, events, applied, world, evidence, excuse, crashes, faults>>

\* The child may already have written its artifact.
ImmediateTerminal(p) ==
    /\ At(p, "terminal")
    /\ Go(p, IF action.id # op[p].cmd.id \/ action.proc = "ended" THEN "complete" ELSE op[p].next)
    /\ UNCHANGED <<db, world, evidence, excuse, crashes, faults>>

Verdicts == [worker |-> {"produced", "failed"}, repair |-> {"produced", "failed"},
             review |-> {"approved", "rejected", "malformed", "failed"}]

\* An output the processor cannot use is refused and changes nothing.
Unusable == action.verdict = "malformed" \/ (action.verdict = "rejected" /\ task.repairs # 0)

CompleteDirectModel(p) ==
    LET replay == action.id # op[p].cmd.id
        usable == action.status = "running" /\ ~Unusable
    IN
    /\ At(p, "complete")
    /\ \/ replay /\ Go(p, IF op[p].call = "exit" THEN "return" ELSE op[p].next)
          /\ UNCHANGED <<db, evidence, excuse>>
       \/ /\ ~replay /\ usable /\ action.verdict # "failed"
          /\ Advance(action.verdict, NoEvent)
          /\ Go(p, "drain")
       \/ /\ ~replay /\ usable /\ action.verdict = "failed"
          /\ FailTask("model_failed") /\ UNCHANGED excuse
          /\ Go(p, "drain")
       \/ ~replay /\ ~usable /\ Err(p) /\ UNCHANGED <<db, evidence>>
    /\ UNCHANGED <<world, crashes, faults>>

\* Boot, first step: every active action needs a live process or its artifact.
ReconcileDirectModels ==
    LET none == action.status \in {"none", "queued"}
        running == action.status = "running"
    IN
    /\ At(Boot, "recon")
    /\ \/ (none \/ (running /\ action.proc = "alive")) /\ Go(Boot, "list") /\ UNCHANGED excuse
       \/ /\ running /\ action.proc = "ended" /\ UNCHANGED excuse
          /\ op' = [op EXCEPT ![Boot].at = "complete", ![Boot].next = "list", ![Boot].cmd = cmd]
       \/ /\ action.status = "launching" \/ (running /\ action.proc = "gone")
          /\ Err(Boot)
    /\ UNCHANGED <<db, world, evidence, crashes, faults>>

-----------------------------------------------------------------------------
(* What happens outside the daemon. *)

ModelEnds ==
    /\ action.proc = "alive"
    /\ \E v \in Verdicts[cmd.kind] :
         /\ action' = [action EXCEPT !.proc = "ended", !.verdict = v]
         /\ tree' = IF v = "produced" THEN task.rev + 1 ELSE tree
    /\ UNCHANGED <<task, cmd, adm, events, applied, branch, sent, run, op, evidence, excuse, crashes, faults>>

ModelDies ==
    /\ action.proc = "alive" /\ Faulty
    /\ action' = [action EXCEPT !.proc = "gone"]
    /\ UNCHANGED <<task, cmd, adm, events, applied, world, op, evidence, excuse, crashes>>

\* The workflow merges and releases, or finds that the base has moved.
ReleaseEnds(n, end) ==
    /\ run[n] = "running" /\ run' = [run EXCEPT ![n] = end]
    /\ SecondRun => end = "merged"
    /\ UNCHANGED <<db, branch, tree, sent, op, evidence, excuse, crashes, faults>>

\* The daemon dies with every call it serves; models may die with the host.
Crash ==
    /\ crashes < MaxCrashes /\ crashes' = crashes + 1
    /\ op' = [p \in Procs |-> IF p = Boot THEN [Idle EXCEPT !.call = "startup", !.at = "recon"] ELSE Idle]
    /\ action' \in {action, [action EXCEPT !.proc = IF @ = "alive" THEN "gone" ELSE @]}
    /\ excuse' = FALSE
    /\ UNCHANGED <<task, cmd, adm, events, applied, world, evidence, faults>>

Call(p) ==
    \/ Submit(p) \/ (\E n \in 1..MaxRuns : (n > 1 => Untroubled) /\ WakeChecks(p, n)) \/ WakeRelease(p) \/ ReportExit(p)

Step(p) ==
    \/ RecordEvent(p) \/ List(p) \/ RecoverCommandLease(p) \/ ReconcileModelCommands(p)
    \/ ClaimNextCommand(p)
    \/ CompleteChecks(p) \/ ObserveRelease(p) \/ ObserveDeployment(p) \/ VerifyTerminal(p)
    \/ PrepareEffect(p) \/ DispatchRelease(p) \/ FenceAdmissionDispatch(p) \/ Drifts(p)
    \/ FenceCommandEffect(p) \/ Effect(p) \/ EffectRefused(p) \/ AdoptSuccessor(p) \/ EffectFails(p)
    \/ DispatchAdmission(p) \/ ApplyOutcome(p) \/ FailClosed(p)
    \/ ReconcileRevision(p) \/ ReconcilePublication(p) \/ ReconcileAdmission(p)
    \/ ReconcileRelease(p) \/ ReconcileReadmission(p) \/ ReconcileFails(p)
    \/ DriveModels(p) \/ ReserveModelLaunch(p) \/ Launch(p) \/ LaunchFails(p)
    \/ StartModelRuntime(p) \/ ImmediateTerminal(p) \/ CompleteDirectModel(p)

Outside ==
    \/ ModelEnds \/ ModelDies \/ ReportLost \/ Crash
    \/ \E n \in Admissions, end \in {"merged", "moved"} : ReleaseEnds(n, end)

Next ==
    \/ \E p \in Handlers : Call(p)
    \/ \E p \in Procs : Step(p)
    \/ ReconcileDirectModels \/ Outside

Spec == Init /\ [][Next]_vars

-----------------------------------------------------------------------------
Quiet == \A p \in Procs : At(p, "idle")

Calls == {"submit", "checks", "release", "exit", "startup"}
Kinds == Models \cup Wakes \cup Effects \cup {"none", "deployment", "verify"}

\* Rows keep their types, and the active command and its model action are those
\* of the task's current revision.
TypeOK ==
    /\ task.state \in {"absent", "failed", "worker_queued"} \cup {Outcome[o].state : o \in DOMAIN Outcome}
    /\ task.id \in Nat /\ task.rev \in Nat /\ task.head \in 0..task.rev
    /\ task.repairs \in 0..1 /\ task.readmissions \in 0..MaxReadmissions
    /\ cmd.kind \in Kinds /\ cmd.status \in {"none", "pending", "leased"}
    /\ cmd.fenced \in BOOLEAN /\ cmd.lease \in Calls \cup {"none", "recovery"}
    /\ cmd.gen \in 0..MaxRecoveries
    /\ cmd.kind # "none" => cmd.id = task.id /\ cmd.rev = task.rev
    /\ action.status \in {"none", "queued", "launching", "running"}
    /\ action.status # "none" => action.id = cmd.id /\ cmd.kind \in Models
    /\ action.proc \in {"none", "alive", "ended", "gone"}
    /\ adm.n \in 0..(MaxReadmissions + 1) /\ adm.rev \in 0..task.rev /\ adm.fenced \in BOOLEAN
    /\ adm.status \in {"none", "waiting", "leased", "dispatched", "readmission_required", "succeeded"}
    /\ \A e \in events \cup applied : e.kind \in Wakes /\ e.rev \in 1..task.rev
    /\ sent \in [Admissions -> Nat] /\ run \in [Admissions -> {"none", "running", "merged", "moved"}]
    /\ \A p \in Procs :
         /\ op[p].call \in Calls \cup {"none"}
         /\ op[p].via \in {"drain", "list", "reconcile"} /\ op[p].next \in {"return", "list"}
         /\ op[p].cmd.kind \in Kinds /\ op[p].out \in {"none"} \cup DOMAIN Outcome
    /\ excuse \in BOOLEAN /\ crashes \in 0..MaxCrashes /\ faults \in 0..MaxFaults

\* Whichever calls drive the models at once, and wherever the daemon dies, a model
\* action starts one process: ReserveModelLaunch lets one of them through.
LaunchedOnce == action.launches <= 1

\* What was sent to release was reported as checked, and was reviewed, at that
\* very revision, whatever was repaired, rebased or recovered on the way; and a
\* deployed task merged the head of its last admission, whose release was
\* ordered once, and the events it went by are spent.
DeployedAsChecked ==
    /\ shipped \subseteq passed \cap approved
    /\ task.state \in {"deployment_waiting", "deployment_observe", "deployed"} =>
        /\ adm.n = task.readmissions + 1 /\ sent[adm.n] = 1 /\ run[adm.n] = "merged"
        /\ task.rev \in shipped /\ branch = task.head
        /\ [kind |-> "merge", rev |-> task.rev, n |-> adm.n] \in applied \ events

\* When all calls have returned, a task that moved without an error waits for
\* something outside the daemon: a check or a release that has not reported,
\* a model, or an effect that was cut off or refused behind its fence.  One case
\* is left open: a release wake drives no model, and may claim the command of one.
NothingLeftBehind ==
    Quiet /\ ~excuse =>
        \/ task.state \in {"absent", "deployed", "failed"}
        \/ cmd.kind \in Wakes /\ Matched(cmd) = {}
        \/ cmd.kind \in Effects /\ cmd.fenced /\ (crashes + faults > 0 \/ Refused(cmd))
        \/ action.status = "queued" /\ cmd.lease = "release"
        \/ action.proc \in {"alive", "gone"} \/ (action.proc = "ended" /\ ~action.reported)

Flow == INSTANCE TaskFlow WITH
    state <- task.state, repairs <- task.repairs, readmissions <- task.readmissions, ships <- sent

\* The queue implements the task its submitter sees, whatever its handlers and
\* Startup do to one command: the law of the states and the budgets are kept, and
\* the release of an admission is ordered at most once.
Implements == Flow!Spec

\* "A restart adopts the exact already-published head": a task does not fail
\* in the reconciliation of a readmission whose successor is on the branch.
PublishedHeadAdopted ==
    task.cause = "effect_reconciliation_failed" /\ adm.status = "readmission_required"
        => branch = task.head
=============================================================================
