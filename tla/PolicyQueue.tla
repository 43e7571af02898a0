---------------------------- MODULE PolicyQueue ----------------------------
(***************************************************************************)
(* The model actions of DCP policy tasks.  A task runs a worker, a review  *)
(* of the head the worker pushed, at most one repair and its review; each  *)
(* of them is a row of one global FIFO queue and holds one of a few slots  *)
(* while it runs.  The queue is drained by whoever submits, ends or        *)
(* reviews something; workers and reviewers are processes of their own     *)
(* that outlive the daemon and report to it over HTTP.                     *)
(* Model: worker-1 pushes head 1 and worker-2 head 2 (or leaves 1); a run  *)
(* is named by its head, a launch by its action; a task's revision by its  *)
(* value, which no two revisions share.                                    *)
(***************************************************************************)
EXTENDS Integers, Sequences, FiniteSets

CONSTANTS
    Tasks,        \* submitted task ids
    Slots,        \* slots of the queue, 1..3 in the code
    MaxCrashes,   \* bound: deaths of the daemon
    MaxFaults     \* bound: failing calls, lost reports, reviewers that die at once

ASSUME PolicyQueueAssumption ==
    /\ Slots \subseteq Nat \ {0} /\ Slots # {}
    /\ MaxCrashes \in Nat /\ MaxFaults \in Nat

VARIABLES
    task, act, queue,     \* the store: tasks, model actions, and the queued ones in order
    row,                  \* session rows: the supervised launch and the activity
    run, handle,          \* review runs per head; the review row names a reviewer
    proc, rproc, pr,      \* the world: live worker, live reviewer, head of the PR
    drain, wanted,        \* the drain that holds policyMu, and whether another waits for it
    trig,                 \* the review trigger that holds a worker's lock
    exit, report,         \* handlers of a worker's exit and of a reviewer's result
    boot, todo,           \* the stage of startup, and the tasks it has not looked at
    crashes, faults

store == <<task, act, queue>>
reviews == <<run, handle>>
world == <<proc, rproc, pr>>
handlers == <<drain, wanted, trig, exit, report>>
budget == <<crashes, faults>>
vars == <<store, row, reviews, world, handlers, boot, todo, budget>>

Heads == 1..2
Workers == {"worker-1", "worker-2"}
Reviewers == {"review-1", "review-2"}
Kinds == Workers \cup Reviewers
Reviewer == <<"review-1", "review-2">>     \* the action that reviews a head

QueuedState == [k \in Kinds |-> CASE k = "worker-1" -> "worker_queued"
                                  [] k = "worker-2" -> "repair_queued"
                                  [] OTHER -> "review_queued"]
RunningState == [k \in Kinds |-> CASE k = "worker-1" -> "worker_running"
                                   [] k = "worker-2" -> "repair_running"
                                   [] OTHER -> "review_running"]
Queueds == {"worker_queued", "review_queued", "repair_queued"}
Runnings == {"worker_running", "review_running", "repair_running"}
Ends == {"failed", "incident"}             \* rows the schema lets nobody update again
States == Queueds \cup Runnings \cup Ends
            \cup {"absent", "reserved", "ci_waiting", "admission_waiting"}

NoAct == [st |-> "none", slot |-> 0]
Active(t, k) == act[t][k].st \in {"claimed", "running"}
Owned(t) == {k \in Kinds : act[t][k].st \in {"queued", "claimed", "running"}}
\* Mutant: a claimed action does not count as holding its slot.
FreeSlotsRunning == {s \in Slots : \A t \in Tasks, k \in Kinds :
                       act[t][k].st = "running" => act[t][k].slot # s}

FreeSlots == {s \in Slots : \A t \in Tasks, k \in Kinds : Active(t, k) => act[t][k].slot # s}

NoTask == [st |-> "absent", repair |-> 0, head |-> 0, run |-> 0]
NoDrain == [at |-> "idle", t |-> "none", k |-> "worker-1",
            snap |-> NoTask, res |-> "none"]
Claiming == [NoDrain EXCEPT !.at = "claim"]
NoTrig == [at |-> "idle", by |-> "event"]
NoExit == [at |-> "none", ok |-> FALSE, snap |-> NoTask]
NoReport == [at |-> "none", head |-> 0]

Init ==
    /\ task = [t \in Tasks |-> NoTask]
    /\ act = [t \in Tasks |-> [k \in Kinds |-> NoAct]] /\ queue = <<>>
    /\ row = [t \in Tasks |-> [launch |-> "", act |-> "idle"]]
    /\ run = [t \in Tasks |-> [h \in Heads |-> "none"]] /\ handle = [t \in Tasks |-> FALSE]
    /\ proc = [t \in Tasks |-> ""] /\ rproc = [t \in Tasks |-> 0] /\ pr = [t \in Tasks |-> 0]
    /\ drain = NoDrain /\ wanted = FALSE /\ trig = [t \in Tasks |-> NoTrig]
    /\ exit = [t \in Tasks |-> NoExit] /\ report = [t \in Tasks |-> NoReport]
    /\ boot = "up" /\ todo = {} /\ crashes = 0 /\ faults = 0

Fault == faults < MaxFaults /\ faults' = faults + 1 /\ UNCHANGED crashes

-----------------------------------------------------------------------------
(* The store: one transaction each.                                        *)

SetAct(t, k, st, slot) == act' = [act EXCEPT ![t][k] = [st |-> st, slot |-> slot]]

\* StartDCPModelAction, of an action that is claimed.
Start(t, k) == SetAct(t, k, "running", act[t][k].slot)

\* What FinishDCPModelAction needs: the action is active, the caller saw the
\* task as it is, and the row is not one that the schema has closed.
Finishable(t, k, snap) == Active(t, k) /\ task[t] = snap /\ task[t].st \notin Ends

\* Mutant: the task moves on in a transaction of its own, before the slot is free.
FinishTaskFirst(t, k, st, state) ==
    /\ task' = [task EXCEPT ![t].st = state]
    /\ UNCHANGED <<act, queue>>

\* FinishDCPModelAction: the slot is free and the task moves on, or neither.
Finish(t, k, st, state) ==
    /\ SetAct(t, k, st, 0)
    /\ task' = [task EXCEPT ![t].st = state]
    /\ UNCHANGED queue

\* QueueDCPModelAction, whose task changes are the caller's.
Enqueue(t, k) ==
    /\ SetAct(t, k, "queued", 0)
    /\ queue' = Append(queue, <<t, k>>)

\* failPolicyTask with a packet: the action of the task is left as it is.
Incident(t) ==
    /\ task' = IF task[t].st \in Ends THEN task ELSE [task EXCEPT ![t].st = "incident"]
    /\ UNCHANGED <<act, queue>>

\* ReserveDCPReviewLabPolicyTask: the worker's action is queued at once.
Submit(t) ==
    /\ boot = "up" /\ task[t].st = "absent"
    /\ task' = [task EXCEPT ![t].st = "reserved"]
    /\ Enqueue(t, "worker-1")
    /\ UNCHANGED <<row, reviews, world, handlers, boot, todo, budget>>

\* The rest of SubmitPolicy, or of a repeated one: provision the card, queue
\* the task, drain.
Provision(t) ==
    /\ boot = "up" /\ task[t].st = "reserved"
    /\ task' = [task EXCEPT ![t].st = "worker_queued"]
    /\ wanted' = TRUE
    /\ UNCHANGED <<act, queue, row, reviews, world, drain, trig, exit, report, boot, todo, budget>>

-----------------------------------------------------------------------------
(* DrainModelActions.  Callers wait for policyMu; those who wait together  *)
(* are served together.                                                    *)

DrainStart ==
    /\ wanted /\ drain.at = "idle"
    /\ wanted' = FALSE /\ drain' = Claiming
    /\ UNCHANGED <<store, row, reviews, world, trig, exit, report, boot, todo, budget>>

Claimable(t, k) == act[t][k].st = "queued" /\ task[t].st = QueuedState[k]

HeadClaimable == queue # <<>> /\ Claimable(Head(queue)[1], Head(queue)[2])

\* No free slot, no queued action, or a head whose task is not queued for it.
DrainEnds ==
    /\ drain.at = "claim"
    /\ FreeSlots = {} \/ ~HeadClaimable
    /\ drain' = NoDrain
    /\ UNCHANGED <<store, row, reviews, world, wanted, trig, exit, report, boot, todo, budget>>

LowestFree(s) == s \in FreeSlots /\ \A r \in FreeSlots : s <= r

\* ClaimNextDCPModelAction: only the head of the queue, in the lowest slot.
DrainClaims ==
    /\ drain.at = "claim" /\ FreeSlots # {} /\ HeadClaimable
    /\ \E t \in Tasks, k \in Kinds, s \in Slots :
         /\ Head(queue) = <<t, k>> /\ LowestFree(s)
         /\ SetAct(t, k, "claimed", s)
         /\ task' = [task EXCEPT ![t].st = RunningState[k]]
         /\ queue' = Tail(queue)
         /\ drain' = [drain EXCEPT !.at = IF k \in Workers THEN "validate" ELSE "trigger",
                                   !.t = t, !.k = k, !.snap = task'[t]]
    /\ UNCHANGED <<row, reviews, world, wanted, trig, exit, report, boot, todo, budget>>

\* failClaimedAction with the task read after the claim; its error ends the drain.
FailClaimed ==
    IF Finishable(drain.t, drain.k, drain.snap)
      THEN /\ Finish(drain.t, drain.k, "failed", "failed")
           /\ drain' = Claiming
      ELSE drain' = NoDrain /\ UNCHANGED store

LaunchReady(t) == row[t].act = "idle" /\ row[t].launch = ""

\* The target, the prompt or the launch is refused before a process exists.
DrainRefuses ==
    /\ drain.at = "validate"
    /\ IF LaunchReady(drain.t) THEN Fault ELSE UNCHANGED budget
    /\ FailClaimed
    /\ UNCHANGED <<row, reviews, world, wanted, trig, exit, report, boot, todo>>

\* LaunchDCPReviewLabPolicyAction: the process first ...
DrainCreates ==
    /\ drain.at = "validate" /\ LaunchReady(drain.t)
    /\ proc' = [proc EXCEPT ![drain.t] = drain.k]
    /\ drain' = [drain EXCEPT !.at = "mark"]
    /\ UNCHANGED <<store, row, reviews, rproc, pr, wanted, trig, exit, report, boot, todo, budget>>

\* ... then MarkSpawned, which lets the reports of the launch through.
DrainMarks ==
    /\ drain.at = "mark"
    /\ row' = [row EXCEPT ![drain.t] = [launch |-> drain.k, act |-> "idle"]]
    /\ drain' = [drain EXCEPT !.at = "read"]
    /\ UNCHANGED <<store, reviews, world, wanted, trig, exit, report, boot, todo, budget>>

\* Mutant: the process of a launch that was not recorded is left running.
DrainUnmarkedKeeps ==
    /\ drain.at = "mark" /\ Fault
    /\ FailClaimed
    /\ UNCHANGED <<row, reviews, world, wanted, trig, exit, report, boot, todo>>

\* MarkSpawned fails: the process is destroyed and the action fails.
DrainUnmarked ==
    /\ drain.at = "mark" /\ Fault
    /\ proc' = [proc EXCEPT ![drain.t] = ""]
    /\ exit' = [exit EXCEPT ![drain.t] = NoExit]
    /\ FailClaimed
    /\ UNCHANGED <<row, reviews, rproc, pr, wanted, trig, report, boot, todo>>

\* The launched row is read back; a worker that is through already ends the drain.
DrainReads ==
    /\ drain.at = "read"
    /\ drain' = IF row[drain.t].launch = "" \/ row[drain.t].act = "exited" THEN NoDrain
                ELSE [drain EXCEPT !.at = "look"]
    /\ UNCHANGED <<store, row, reviews, world, wanted, trig, exit, report, boot, todo, budget>>

\* What the drain sees of the action it launched: none active, when the exit
\* handler was first, or the status that says who is to bind it.
DrainLooks ==
    /\ drain.at = "look"
    /\ LET st == act[drain.t][drain.k].st
           quiet == \A u \in Tasks, j \in Kinds : ~Active(u, j)
       IN \/ quiet /\ drain' = NoDrain
          \/ drain' = IF st = "claimed" THEN [drain EXCEPT !.at = "bind"]
                      ELSE IF st = "failed" THEN NoDrain ELSE Claiming
    /\ UNCHANGED <<store, row, reviews, world, wanted, trig, exit, report, boot, todo, budget>>

\* Mutant: the launch is bound although the exit handler was first.
DrainBindsAnyway ==
    /\ drain.at = "bind"
    /\ Start(drain.t, drain.k) /\ drain' = Claiming
    /\ UNCHANGED <<task, queue, row, reviews, world, wanted, trig, exit, report, boot, todo, budget>>

\* StartDCPModelAction; if the exit handler was first its error ends the drain.
DrainBinds ==
    /\ drain.at = "bind"
    /\ IF act[drain.t][drain.k].st = "claimed"
         THEN Start(drain.t, drain.k) /\ drain' = Claiming
         ELSE drain' = NoDrain /\ UNCHANGED act
    /\ UNCHANGED <<task, queue, row, reviews, world, wanted, trig, exit, report, boot, todo, budget>>

\* The request the drain runs under is given up: by a supervisor after five
\* seconds, or by the client of a submit.  What it had begun stays.
DrainCancelled ==
    /\ drain.at \in {"validate", "mark", "read", "look", "bind"} /\ Fault
    /\ drain' = NoDrain
    /\ UNCHANGED <<store, row, reviews, world, wanted, trig, exit, report, boot, todo>>

\* What the trigger says of a claimed reviewer.
DrainReviews ==
    /\ drain.at = "triggered"
    /\ LET a == act[drain.t][drain.k].st IN
         \/ /\ drain.res = "created" /\ a = "running"
            /\ drain' = Claiming /\ UNCHANGED store
         \/ /\ drain.res = "error" /\ a \notin {"claimed", "running"}
            /\ drain' = Claiming /\ UNCHANGED store
         \/ /\ drain.res = "error" /\ a = "running"
            /\ drain' = NoDrain /\ UNCHANGED store
         \/ /\ \/ drain.res = "error" /\ a = "claimed"
               \/ drain.res = "none"
               \/ drain.res = "created" /\ a # "running"
            /\ FailClaimed
    /\ UNCHANGED <<row, reviews, world, wanted, trig, exit, report, boot, todo, budget>>

-----------------------------------------------------------------------------
(* The review engine: one trigger at a time per worker.                    *)

\* An idle worker, and a head no run has ever looked at.
Eligible(t) == LaunchReady(t) /\ pr[t] # 0 /\ run[t][pr[t]] = "none"

\* Mutant: an eligibility handler that does not drain.
DoneSilently(t, res) ==
    /\ trig' = [trig EXCEPT ![t] = NoTrig]
    /\ drain' = IF trig[t].by = "drain" THEN [drain EXCEPT !.at = "triggered", !.res = res]
                ELSE drain
    /\ UNCHANGED wanted

\* The trigger returns to the drain, to an eligibility handler, which drains,
\* or to the startup.
Done(t, res) ==
    /\ trig' = [trig EXCEPT ![t] = NoTrig]
    /\ drain' = IF trig[t].by = "drain" THEN [drain EXCEPT !.at = "triggered", !.res = res]
                ELSE drain
    /\ wanted' = (wanted \/ trig[t].by = "event")

DrainTriggers ==
    /\ drain.at = "trigger" /\ trig[drain.t].at = "idle"
    /\ IF Eligible(drain.t)
         THEN /\ trig' = [trig EXCEPT ![drain.t] = [at |-> "authorize", by |-> "drain"]]
              /\ drain' = [drain EXCEPT !.at = "wait"]
         ELSE /\ drain' = [drain EXCEPT !.at = "triggered", !.res = "none"]
              /\ UNCHANGED trig
    /\ UNCHANGED <<store, row, reviews, world, wanted, exit, report, boot, todo, budget>>

\* signalReviewEligibility: a worker went idle or its PR changed.
Nudge(t) ==
    /\ trig[t].at = "idle" /\ pr[t] # 0
    /\ IF Eligible(t) THEN trig' = [trig EXCEPT ![t].at = "authorize"] /\ UNCHANGED wanted
       ELSE wanted' = TRUE /\ UNCHANGED trig
    /\ UNCHANGED <<store, row, reviews, world, drain, exit, report, boot, todo, budget>>

\* AuthorizePolicyReview queues the review of a checked head ...
AuthorizeQueues(t) ==
    /\ trig[t].at = "authorize" /\ task[t].st = "ci_waiting" /\ Owned(t) = {}
    /\ (task[t].repair = 0 /\ task[t].head = 0) \/ (task[t].repair = 1 /\ task[t].head \notin {0, pr[t]})
    /\ task' = [task EXCEPT ![t] = [st |-> "review_queued", repair |-> task[t].repair,
                                    head |-> pr[t], run |-> 0]]
    /\ Enqueue(t, Reviewer[pr[t]])
    /\ Done(t, "none")
    /\ UNCHANGED <<row, reviews, world, exit, report, boot, todo, budget>>

\* ... gives a task up whose checks failed or whose repair changed nothing ...
AuthorizeRejects(t) ==
    /\ trig[t].at = "authorize" /\ task[t].st = "ci_waiting" /\ Owned(t) = {}
    /\ Incident(t) /\ Done(t, "error")
    /\ UNCHANGED <<row, reviews, world, exit, report, boot, todo, budget>>

\* ... or whose target or PR no longer matches, in whatever state it is ...
AuthorizeDrifts(t) ==
    /\ trig[t].at = "authorize" /\ Fault
    /\ LET k == Reviewer[pr[t]] IN
         IF task[t].st = "review_running" /\ act[t][k].st = "claimed"
           THEN Finish(t, k, "failed", "failed")
           ELSE Incident(t)
    /\ Done(t, "error")
    /\ UNCHANGED <<row, reviews, world, exit, report, boot, todo>>

\* ... and lets the launch of a claimed reviewer through; anything else waits.
AuthorizeAnswers(t) ==
    /\ trig[t].at = "authorize"
    /\ LET k == Reviewer[pr[t]] IN
         IF task[t].st = "review_running" /\ act[t][k].st = "claimed"
           THEN /\ trig' = [trig EXCEPT ![t].at = "insert"]
                /\ UNCHANGED <<drain, wanted>>
           ELSE Done(t, IF task[t].st = "review_running" THEN "error" ELSE "none")
    /\ UNCHANGED <<store, row, reviews, world, exit, report, boot, todo, budget>>

InsertRun(t) ==
    /\ trig[t].at = "insert"
    /\ run' = [run EXCEPT ![t][pr[t]] = "running"]
    /\ trig' = [trig EXCEPT ![t].at = "spawn"]
    /\ UNCHANGED <<store, row, handle, world, drain, wanted, exit, report, boot, todo, budget>>

SpawnReviewer(t) ==
    /\ trig[t].at = "spawn"
    /\ rproc' = [rproc EXCEPT ![t] = pr[t]]
    /\ trig' = [trig EXCEPT ![t].at = "start"]
    /\ UNCHANGED <<store, row, reviews, proc, pr, drain, wanted, exit, report, boot, todo, budget>>

\* FailPolicyReviewLaunch, and failRuns after it.
ReviewerUnlaunched(t) ==
    /\ trig[t].at = "spawn" /\ Fault
    /\ LET k == Reviewer[pr[t]] IN
         IF Finishable(t, k, task[t]) THEN Finish(t, k, "failed", "failed") ELSE UNCHANGED store
    /\ trig' = [trig EXCEPT ![t].at = "failrun"]
    /\ UNCHANGED <<row, reviews, world, drain, wanted, exit, report, boot, todo>>

FailRun(t) ==
    /\ trig[t].at = "failrun"
    /\ run' = [run EXCEPT ![t][pr[t]] = "failed"]
    /\ Done(t, "error")
    /\ UNCHANGED <<store, row, handle, world, exit, report, boot, todo, budget>>

\* MarkPolicyReviewStarted: the action first ...
MarkAction(t) ==
    /\ trig[t].at = "start"
    /\ LET k == Reviewer[pr[t]] IN
         IF act[t][k].st = "claimed"
           THEN Start(t, k) /\ trig' = [trig EXCEPT ![t].at = "bind"] /\ UNCHANGED <<drain, wanted>>
           ELSE Done(t, "error") /\ UNCHANGED act
    /\ UNCHANGED <<task, queue, row, reviews, world, exit, report, boot, todo, budget>>

\* ... then the run of the task ...
MarkTask(t) ==
    /\ trig[t].at = "bind"
    /\ IF task[t].st = "review_running" /\ task[t].head = pr[t]
         THEN /\ task' = [task EXCEPT ![t].run = pr[t]]
              /\ trig' = [trig EXCEPT ![t].at = "name"]
              /\ UNCHANGED <<drain, wanted>>
         ELSE Done(t, "error") /\ UNCHANGED task
    /\ UNCHANGED <<act, queue, row, reviews, world, exit, report, boot, todo, budget>>

\* ... and upsertReview: only now the review row names the reviewer.
NameReviewer(t) ==
    /\ trig[t].at = "name"
    /\ handle' = [handle EXCEPT ![t] = TRUE]
    /\ Done(t, "created")
    /\ UNCHANGED <<store, row, run, world, exit, report, boot, todo, budget>>

-----------------------------------------------------------------------------
(* Workers: the supervisor reports the exit and lives until it has.        *)

\* A worker ends; one that succeeded has pushed a head, or, as a repair,
\* perhaps none.
WorkerExits(t) ==
    /\ proc[t] # "" /\ exit[t].at = "none"
    /\ \E ok \in BOOLEAN, head \in Heads \cup {0} :
         /\ IF ok THEN head >= 1 /\ head \in {pr[t], IF proc[t] = "worker-1" THEN 1 ELSE 2}
            ELSE head = pr[t]
         /\ pr' = [pr EXCEPT ![t] = head]
         /\ exit' = [exit EXCEPT ![t] = [NoExit EXCEPT !.at = "report", !.ok = ok]]
    /\ UNCHANGED <<store, row, reviews, proc, rproc, drain, wanted, trig, report, boot, todo, budget>>

Launching(t) == drain.at = "mark" /\ drain.t = t

\* ApplyActivitySignal of a process exit: success clears the launch, failure
\* leaves an exited row, another generation is dropped.
ExitReported(t) ==
    /\ exit[t].at = "report" /\ boot = "up" /\ ~Launching(t)
    /\ LET mine == row[t].launch = proc[t] IN
         /\ row' = IF ~mine THEN row
                   ELSE IF exit[t].ok THEN [row EXCEPT ![t] = [launch |-> "", act |-> "idle"]]
                   ELSE [row EXCEPT ![t].act = "exited"]
         /\ exit' = [exit EXCEPT ![t] = IF mine THEN [@ EXCEPT !.at = "read"] ELSE NoExit]
    /\ proc' = [proc EXCEPT ![t] = ""]
    /\ UNCHANGED <<store, reviews, rproc, pr, drain, wanted, trig, report, boot, todo, budget>>

\* Nobody takes the report: a daemon that is not serving, or a slow one.
ExitUnreported(t) ==
    /\ exit[t].at = "report"
    /\ IF boot = "up" THEN Fault ELSE UNCHANGED budget
    /\ exit' = [exit EXCEPT ![t] = NoExit] /\ proc' = [proc EXCEPT ![t] = ""]
    /\ UNCHANGED <<store, row, reviews, rproc, pr, drain, wanted, trig, report, boot, todo>>

\* HandleWorkerProcessExit reads the task and its active action ...
ExitReads(t) ==
    /\ exit[t].at = "read"
    /\ exit' = [exit EXCEPT ![t] =
                  IF \E k \in Workers : Active(t, k)
                    THEN [@ EXCEPT !.at = IF \E k \in Workers : act[t][k].st = "claimed"
                                          THEN "bind" ELSE "finish",
                                   !.snap = task[t]]
                    ELSE NoExit]
    /\ UNCHANGED <<store, row, reviews, world, drain, wanted, trig, report, boot, todo, budget>>

\* ... binds the launch if the drain had not, which may have done so since: the
\* handler then returns an error that is only logged, and nobody ends the action ...
ExitBinds(t) ==
    /\ exit[t].at = "bind"
    /\ \/ \E k \in Workers :
            /\ act[t][k].st = "claimed" /\ Start(t, k)
            /\ exit' = [exit EXCEPT ![t].at = "finish"]
       \/ /\ \A k \in Workers : act[t][k].st # "claimed"
          /\ exit' = [exit EXCEPT ![t].at = "overtaken"]
          /\ UNCHANGED act
    /\ UNCHANGED <<task, queue, row, reviews, world, drain, wanted, trig, report, boot, todo, budget>>

WorkerOutcome(ok) == IF ok THEN "ci_waiting" ELSE "failed"
ActionOutcome(ok) == IF ok THEN "succeeded" ELSE "failed"

\* ... ends its action and drains; a task that moved meanwhile keeps the action.
ExitFinishes(t) ==
    /\ exit[t].at = "finish"
    /\ IF \E k \in Workers : Finishable(t, k, exit[t].snap)
         THEN /\ \E k \in Workers :
                   /\ Active(t, k)
                   /\ Finish(t, k, ActionOutcome(exit[t].ok), WorkerOutcome(exit[t].ok))
              /\ wanted' = TRUE
         ELSE UNCHANGED <<store, wanted>>
    /\ exit' = [exit EXCEPT ![t] = NoExit]
    /\ UNCHANGED <<row, reviews, world, drain, trig, report, boot, todo, budget>>

\* The reaper sees a launch without a process: the row has exited, and no
\* handler hears of it.
Reap(t) ==
    /\ row[t].launch # "" /\ proc[t] = "" /\ row[t].act # "exited"
    /\ row' = [row EXCEPT ![t].act = "exited"]
    /\ UNCHANGED <<store, reviews, world, handlers, boot, todo, budget>>

-----------------------------------------------------------------------------
(* Reviewers: the supervisor submits one result, or reports that there is  *)
(* none.                                                                   *)

\* A reviewer rarely ends before its launch is recorded: that counts as a fault.
Bound(t) == task[t].run = rproc[t]

\* SubmitStructured: the update needs the running run and the named reviewer.
ReviewerSubmits(t, verdict) ==
    /\ boot = "up" /\ rproc[t] # 0 /\ report[t].at = "none"
    /\ handle[t] /\ run[t][rproc[t]] = "running"
    /\ IF Bound(t) THEN UNCHANGED budget ELSE Fault
    /\ run' = [run EXCEPT ![t][rproc[t]] = verdict]
    /\ report' = [report EXCEPT ![t] = [at |-> "result", head |-> rproc[t]]]
    /\ rproc' = [rproc EXCEPT ![t] = 0]
    /\ UNCHANGED <<store, row, handle, proc, pr, drain, wanted, trig, exit, boot, todo>>

\* Service.ProcessExit of a reviewer without a result.
ReviewerFails(t) ==
    /\ boot = "up" /\ rproc[t] # 0 /\ report[t].at = "none"
    /\ IF Bound(t) THEN UNCHANGED budget ELSE Fault
    /\ IF run[t][rproc[t]] = "running"
         THEN /\ run' = [run EXCEPT ![t][rproc[t]] = "failed"]
              /\ report' = [report EXCEPT ![t] = [at |-> "failure", head |-> rproc[t]]]
         ELSE UNCHANGED <<run, report>>
    /\ rproc' = [rproc EXCEPT ![t] = 0]
    /\ UNCHANGED <<store, row, handle, proc, pr, drain, wanted, trig, exit, boot, todo>>

\* A reviewer that ends while nobody serves it.
ReviewerUnreported(t) ==
    /\ boot # "up" /\ rproc[t] # 0
    /\ rproc' = [rproc EXCEPT ![t] = 0]
    /\ UNCHANGED <<store, row, reviews, proc, pr, handlers, boot, todo, budget>>

\* HandleStructuredPolicyReview: the result must own the running action and
\* the task.
Accepts(t, h) ==
    /\ act[t][Reviewer[h]].st = "running"
    /\ task[t].st = "review_running" /\ task[t].run = h /\ task[t].head = h

\* Mutant: findings are repaired however often they come.
ConcludeAgain(t, h) ==
    LET verdict == run[t][h]
        repairs == verdict = "changes"
        state == IF verdict = "approved" THEN "admission_waiting"
                 ELSE IF repairs THEN "repair_queued" ELSE "failed"
    IN /\ task' = [task EXCEPT ![t] =
                     [st |-> state, repair |-> task[t].repair + IF repairs THEN 1 ELSE 0,
                      head |-> h, run |-> h]]
       /\ queue' = IF repairs THEN Append(queue, <<t, "worker-2">>) ELSE queue
       /\ act' = [act EXCEPT ![t] = [k \in Kinds |->
                     IF k = Reviewer[h] THEN [st |-> "succeeded", slot |-> 0]
                     ELSE IF repairs /\ k = "worker-2" THEN [st |-> "queued", slot |-> 0]
                     ELSE @[k]]]

\* Mutant: what needs no repair goes to admission.
ConcludeOtherwise(t, h) ==
    LET verdict == run[t][h]
        repairs == verdict = "changes" /\ task[t].repair = 0
        state == IF repairs THEN "repair_queued" ELSE "admission_waiting"
    IN /\ task' = [task EXCEPT ![t] =
                     [st |-> state, repair |-> task[t].repair + IF repairs THEN 1 ELSE 0,
                      head |-> h, run |-> h]]
       /\ queue' = IF repairs THEN Append(queue, <<t, "worker-2">>) ELSE queue
       /\ act' = [act EXCEPT ![t] = [k \in Kinds |->
                     IF k = Reviewer[h] THEN [st |-> "succeeded", slot |-> 0]
                     ELSE IF repairs /\ k = "worker-2" THEN [st |-> "queued", slot |-> 0]
                     ELSE @[k]]]

\* Approval waits for admission, the first findings queue the repair in the
\* same transaction, the second ones end the task.
Conclude(t, h) ==
    LET verdict == run[t][h]
        repairs == verdict = "changes" /\ task[t].repair = 0
        state == IF verdict = "approved" THEN "admission_waiting"
                 ELSE IF repairs THEN "repair_queued" ELSE "failed"
    IN /\ task' = [task EXCEPT ![t] =
                     [st |-> state, repair |-> task[t].repair + IF repairs THEN 1 ELSE 0,
                      head |-> h, run |-> h]]
       /\ queue' = IF repairs THEN Append(queue, <<t, "worker-2">>) ELSE queue
       /\ act' = [act EXCEPT ![t] = [k \in Kinds |->
                     IF k = Reviewer[h] THEN [st |-> "succeeded", slot |-> 0]
                     ELSE IF repairs /\ k = "worker-2" THEN [st |-> "queued", slot |-> 0]
                     ELSE @[k]]]

\* HandlePolicyReviewProcessFailure: the run must be bound to the action.
FailReview(t, h) == Finish(t, Reviewer[h], "failed", "failed")
ReviewFailable(t, h) ==
    act[t][Reviewer[h]].st = "running" /\ Finishable(t, Reviewer[h], task[t])

ResultHandled(t) ==
    /\ report[t].at = "result"
    /\ IF Accepts(t, report[t].head) THEN Conclude(t, report[t].head) /\ wanted' = TRUE
       ELSE UNCHANGED <<store, wanted>>
    /\ report' = [report EXCEPT ![t] = NoReport]
    /\ UNCHANGED <<row, reviews, world, drain, trig, exit, boot, todo, budget>>

FailureHandled(t) ==
    /\ report[t].at = "failure"
    /\ IF ReviewFailable(t, report[t].head) THEN FailReview(t, report[t].head) /\ wanted' = TRUE
       ELSE UNCHANGED <<store, wanted>>
    /\ report' = [report EXCEPT ![t] = NoReport]
    /\ UNCHANGED <<row, reviews, world, drain, trig, exit, boot, todo, budget>>

-----------------------------------------------------------------------------
(* A restart of the daemon.  Observers run while it boots, the API does    *)
(* not.                                                                    *)

\* Handlers die with it; processes and their reports do not.
Crash ==
    /\ crashes < MaxCrashes
    /\ crashes' = crashes + 1 /\ boot' = "runtime" /\ todo' = {}
    /\ drain' = NoDrain /\ wanted' = FALSE
    /\ trig' = [t \in Tasks |-> NoTrig] /\ report' = [t \in Tasks |-> NoReport]
    /\ exit' = [t \in Tasks |-> IF exit[t].at = "report" THEN exit[t] ELSE NoExit]
    /\ UNCHANGED <<store, row, reviews, world, faults>>

\* ReconcileRuntime: one pass of the reaper, some of whose probes may fail.
BootRuntime ==
    /\ boot = "runtime"
    /\ LET dead == {t \in Tasks : row[t].launch # "" /\ proc[t] = ""} IN
       \E unseen \in SUBSET dead :
         /\ IF unseen = {} THEN UNCHANGED budget ELSE Fault
         /\ row' = [t \in Tasks |-> IF t \in dead \ unseen THEN [row[t] EXCEPT !.act = "exited"]
                                    ELSE row[t]]
    /\ boot' = "reviews" /\ todo' = Tasks
    /\ UNCHANGED <<store, reviews, world, handlers>>

\* ReconcileStartup of the review engine: a running run whose reviewer is not
\* named or not alive fails; a session without one is triggered.
BootReview(t) ==
    /\ boot = "reviews" /\ t \in todo /\ trig[t].at = "idle"
    /\ LET gone == {h \in Heads : run[t][h] = "running" /\ ~(handle[t] /\ rproc[t] = h)} IN
         /\ run' = [run EXCEPT ![t] = [h \in Heads |-> IF h \in gone THEN "failed" ELSE @[h]]]
         /\ trig' = IF Eligible(t) /\ \A h \in Heads : run[t][h] # "running"
                    THEN [trig EXCEPT ![t] = [at |-> "authorize", by |-> "boot"]] ELSE trig
    /\ todo' = todo \ {t}
    /\ UNCHANGED <<store, row, handle, world, drain, wanted, exit, report, boot, budget>>

BootReviewed ==
    /\ boot = "reviews" /\ todo = {}
    /\ \A t \in Tasks : ~(trig[t].at # "idle" /\ trig[t].by = "boot")
    /\ boot' = "tasks" /\ todo' = Tasks
    /\ UNCHANGED <<store, row, reviews, world, handlers, budget>>

\* ReconcilePolicyStartup looks at one task after the other; the first one
\* that is not as it expects ends it, before the drain.
BootTask(t) == boot = "tasks" /\ t \in todo /\ UNCHANGED <<row, reviews, world, drain, trig, exit, report>>
Folded(t) == todo' = todo \ {t} /\ UNCHANGED boot
Aborted == boot' = "up" /\ todo' = {} /\ UNCHANGED <<store, wanted>>

\* What the rows of a task that no process runs for may say.
AtRest(t) ==
    /\ LaunchReady(t)
    /\ IF task[t].st \in Queueds THEN \E k \in Owned(t) : Claimable(t, k) ELSE Owned(t) = {}

BootProvisions(t) ==
    /\ BootTask(t) /\ task[t].st = "reserved"
    /\ task' = [task EXCEPT ![t].st = "worker_queued"]
    /\ Folded(t) /\ UNCHANGED <<act, queue, wanted, budget>>

BootPasses(t) ==
    /\ BootTask(t) /\ task[t].st \notin Runnings \cup {"reserved"}
    /\ task[t].st = "absent" \/ AtRest(t)
    /\ Folded(t) /\ UNCHANGED <<store, wanted, budget>>

BootAborts(t) ==
    /\ BootTask(t) /\ task[t].st \notin {"absent", "reserved"}
    /\ IF task[t].st \in Runnings THEN row[t].act = "exited" ELSE ~AtRest(t)
    /\ Aborted /\ UNCHANGED budget

\* A task whose action is active and whose row is a live session's.
BootRunning(t, ks) ==
    /\ BootTask(t) /\ task[t].st \in Runnings /\ row[t].act # "exited"
    /\ \E k \in ks : Active(t, k)

\* A reviewer: its run is bound, and what it has reported is taken.
BootReviewer(t) ==
    /\ BootRunning(t, Reviewers)
    /\ LET h == task[t].head  a == act[t][Reviewer[h]].st IN
         IF a = "claimed" /\ ~(run[t][h] # "none" /\ handle[t])
           THEN Incident(t) /\ UNCHANGED wanted
         ELSE IF run[t][h] = "running"
           THEN /\ task' = [task EXCEPT ![t].run = h]
                /\ IF a = "claimed" THEN Start(t, Reviewer[h]) ELSE UNCHANGED act
                /\ UNCHANGED <<queue, wanted>>
         ELSE /\ IF run[t][h] = "failed" THEN FailReview(t, h) ELSE Conclude(t, h)
              /\ wanted' = TRUE
    /\ Folded(t) /\ UNCHANGED budget

\* A worker whose row still names its launch: alive, dead, or not to be asked.
BootWorker(t) ==
    /\ BootRunning(t, Workers) /\ row[t].launch # ""
    /\ LET k == CHOOSE k \in Workers : Active(t, k) IN
         IF proc[t] = "" THEN Finish(t, k, "failed", "failed") /\ wanted' = TRUE
         ELSE /\ IF act[t][k].st = "claimed" THEN Start(t, k) ELSE UNCHANGED act
              /\ UNCHANGED <<task, queue, wanted>>
    /\ Folded(t) /\ UNCHANGED budget

BootUninspected(t) ==
    /\ BootRunning(t, Workers) /\ row[t].launch # "" /\ Fault
    /\ Incident(t) /\ Folded(t) /\ UNCHANGED wanted

\* A worker whose launch was never recorded, or was cleared by its exit.
BootUnnamed(t) ==
    /\ BootRunning(t, Workers) /\ row[t].launch = ""
    /\ LET k == CHOOSE k \in Workers : Active(t, k) IN
         IF act[t][k].st = "claimed" THEN Incident(t) /\ UNCHANGED wanted
         ELSE Finish(t, k, "succeeded", "ci_waiting") /\ wanted' = TRUE
    /\ Folded(t) /\ UNCHANGED budget

BootDrains ==
    /\ boot = "tasks" /\ todo = {}
    /\ boot' = "up" /\ wanted' = TRUE
    /\ UNCHANGED <<store, row, reviews, world, drain, trig, exit, report, todo, budget>>

-----------------------------------------------------------------------------
DrainSteps ==
    \/ DrainStart \/ DrainEnds \/ DrainClaims \/ DrainCreates \/ DrainMarks
    \/ DrainReads \/ DrainLooks \/ DrainBinds \/ DrainTriggers \/ DrainReviews

TriggerSteps(t) ==
    \/ AuthorizeQueues(t) \/ AuthorizeAnswers(t) \/ InsertRun(t) \/ SpawnReviewer(t)
    \/ FailRun(t) \/ MarkAction(t) \/ MarkTask(t) \/ NameReviewer(t)

HandlerSteps(t) ==
    \/ ExitReported(t) \/ ExitReads(t) \/ ExitBinds(t) \/ ExitFinishes(t)
    \/ ResultHandled(t) \/ FailureHandled(t)

ProcessSteps(t) ==
    \/ WorkerExits(t) \/ ReviewerFails(t)
    \/ \E verdict \in {"approved", "changes"} : ReviewerSubmits(t, verdict)

BootSteps ==
    \/ BootRuntime \/ BootReviewed \/ BootDrains
    \/ \E t \in Tasks :
         \/ BootReview(t) \/ BootProvisions(t) \/ BootPasses(t) \/ BootAborts(t) \/ BootReviewer(t)
         \/ BootWorker(t) \/ BootUninspected(t) \/ BootUnnamed(t)

Failures(t) ==
    AuthorizeRejects(t) \/ AuthorizeDrifts(t) \/ ReviewerUnlaunched(t) \/ ExitUnreported(t)
        \/ ReviewerUnreported(t)

Next ==
    \/ DrainSteps \/ DrainRefuses \/ DrainUnmarked \/ DrainCancelled \/ Crash \/ BootSteps
    \/ \E t \in Tasks :
         \/ Submit(t) \/ Provision(t) \/ Nudge(t) \/ Reap(t)
         \/ TriggerSteps(t) \/ HandlerSteps(t) \/ ProcessSteps(t) \/ Failures(t)

Spec == Init /\ [][Next]_vars

-----------------------------------------------------------------------------
(* Properties.                                                             *)

TaskRows == [st : States, repair : 0..1, head : 0..2, run : 0..2]
ActRows == [st : {"none", "queued", "claimed", "running", "succeeded", "failed"}, slot : Slots \cup {0}]
Rows == [launch : Workers \cup {""}, act : {"idle", "exited"}]
RunStates == {"none", "running", "approved", "changes", "failed"}
Drains == [at : {"idle", "claim", "validate", "mark", "read", "look", "bind", "trigger", "wait", "triggered"},
           t : Tasks \cup {"none"}, k : Kinds, snap : TaskRows, res : {"none", "created", "error"}]
Trigs == [at : {"idle", "authorize", "insert", "spawn", "failrun", "start", "bind", "name"},
          by : {"event", "drain", "boot"}]
Exits == [at : {"none", "report", "read", "bind", "finish", "overtaken"}, ok : BOOLEAN, snap : TaskRows]
Reports == [at : {"none", "result", "failure"}, head : 0..2]

\* The values of the rows, and the slots: at most three in the code, one per
\* active action (the index the migration puts on them).
TypeOK ==
    /\ task \in [Tasks -> TaskRows] /\ act \in [Tasks -> [Kinds -> ActRows]]
    /\ queue \in Seq(Tasks \X Kinds)
    /\ row \in [Tasks -> Rows] /\ run \in [Tasks -> [Heads -> RunStates]]
    /\ handle \in [Tasks -> BOOLEAN]
    /\ proc \in [Tasks -> Workers \cup {""}] /\ rproc \in [Tasks -> 0..2] /\ pr \in [Tasks -> 0..2]
    /\ drain \in Drains /\ wanted \in BOOLEAN /\ trig \in [Tasks -> Trigs]
    /\ exit \in [Tasks -> Exits] /\ report \in [Tasks -> Reports]
    /\ boot \in {"up", "runtime", "reviews", "tasks"} /\ todo \subseteq Tasks
    /\ crashes \in 0..MaxCrashes /\ faults \in 0..MaxFaults

\* No slot is held twice, and only an active action holds one.
SlotsExclusive ==
    /\ \A t, u \in Tasks, j, k \in Kinds :
         Active(t, j) /\ Active(u, k) /\ act[t][j].slot = act[u][k].slot => t = u /\ j = k
    /\ \A t \in Tasks, k \in Kinds : Active(t, k) <=> act[t][k].slot \in Slots

\* A task's state and its actions: a queued task has its action queued, a
\* running one active, and a task that waits or is done has none.
Consistent(t) ==
    /\ \A j, k \in Owned(t) : j = k
    /\ task[t].st \in Queueds => \E k \in Owned(t) : Claimable(t, k)
    /\ task[t].st \in Runnings => \E k \in Owned(t) : Active(t, k) /\ task[t].st = RunningState[k]
    /\ task[t].st \in {"absent", "ci_waiting", "admission_waiting", "failed"} => Owned(t) = {}

\* A task and its actions always tell the same story: only a task that was
\* given up may still have the action it had.
PhaseOwnsAction == \A t \in Tasks : Consistent(t)

\* The cap on models that run at a time is real: a worker that lives, and a
\* reviewer whose run is open, is one whose action holds a slot.
LiveHoldsSlot ==
    \A t \in Tasks :
      /\ proc[t] # "" => Active(t, proc[t])
      /\ rproc[t] # 0 /\ run[t][rproc[t]] = "running" => Active(t, Reviewer[rproc[t]])

\* A task waits for admission only with an approval of the very head of its
\* PR, by the run its row names.
AdmittedWasReviewed ==
    \A t \in Tasks : task[t].st = "admission_waiting" =>
      /\ task[t].head = pr[t] /\ task[t].run = task[t].head
      /\ run[t][task[t].head] = "approved"
      /\ task[t].repair = 1 => run[t][1] = "changes" /\ task[t].head = 2

\* The queue keeps its promise: no action runs a second time, whatever fails
\* and whenever the daemon dies, and none before the one it follows succeeded.
Promise == INSTANCE ModelActions
Implements == Promise!Spec

\* The exit handler of a worker lost the race to bind its launch to the drain
\* that launched it.
Overtaken(t) == exit[t].at = "overtaken"
AtWork(t) ==
    \/ proc[t] # "" \/ rproc[t] # 0 \/ report[t].at # "none" \/ trig[t].at # "idle"
    \/ exit[t].at # "none" /\ ~Overtaken(t)
Resting == boot = "up" /\ drain.at = "idle" /\ ~wanted /\ \A t \in Tasks : ~AtWork(t)

\* No wakeup is lost: as long as nothing failed, a system with nothing left to
\* do has drained its queue, and holds no slot but those of the workers whose
\* exit handler the drain has overtaken between its read and its update; each
\* of these holds the one slot its running action has, until the next start.
NothingWaits ==
    Resting /\ crashes = 0 /\ faults = 0 =>
      /\ HeadClaimable => FreeSlots = {}
      /\ \A t \in Tasks, k \in Kinds :
           Active(t, k) => Overtaken(t) /\ k \in Workers /\ act[t][k].st = "running"

\* Startup "folds missed terminal facts": once it is over, and every call it
\* made was answered, a running worker action has a process or a report
\* underway.
StartupFolds ==
    boot = "up" /\ faults = 0 => \A t \in Tasks, k \in Workers :
      Active(t, k) => proc[t] = k \/ exit[t].at # "none" \/ (drain.at # "idle" /\ drain.t = t)
=============================================================================
