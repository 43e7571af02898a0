----------------------------- MODULE DcpV2Proofs -----------------------------
(***************************************************************************)
(* Proofs about DcpV2, for every number of requests, readmissions, check   *)
(* runs, recoveries, failures and deaths of the daemon.  DcpInv is         *)
(* inductive; three invariants of the run and the refinement of TaskFlow   *)
(* follow from it, and a fourth with what Firm and Attended add to it.     *)
(***************************************************************************)
EXTENDS DcpV2, FiniteSetTheorems, TLAPS

States == {"absent", "failed", "worker_queued", "checks_waiting", "review_queued", "repair_queued",
           "admission_waiting", "release_waiting", "merge_observing", "readmission",
           "deployment_waiting", "deployment_observe", "deployed"}

Outcomes == {"produced", "published", "checked", "approved", "rejected", "admitted", "dispatched",
             "moved", "rebased", "released", "observed", "verified"}

\* The commands a state may require.
Stage == [absent |-> {"none"}, failed |-> {"none"}, deployed |-> {"none"},
          worker_queued |-> {"worker"}, checks_waiting |-> {"publication", "checks"},
          review_queued |-> {"review"}, repair_queued |-> {"repair"},
          admission_waiting |-> {"admission"}, release_waiting |-> {"release"},
          merge_observing |-> {"merge"}, readmission |-> {"readmission"},
          deployment_waiting |-> {"deployment"}, deployment_observe |-> {"verify"}]

TaskRecord == [state : States, id : Nat, rev : Nat, head : Nat, repairs : 0..1,
               readmissions : 0..MaxReadmissions,
               cause : {"none", "transition_failed", "model_failed", "processor_failed",
                        "effect_reconciliation_failed"}]
CmdRecord == [id : Nat, kind : Kinds, rev : Nat, status : {"none", "pending", "leased"},
              fenced : BOOLEAN, lease : Calls \cup {"none", "recovery"}, gen : 0..MaxRecoveries]
ActionRecord == [id : Nat, status : {"none", "queued", "launching", "running"},
                 proc : {"none", "alive", "ended", "gone"},
                 verdict : {"none", "produced", "failed", "approved", "rejected", "malformed"},
                 reported : BOOLEAN, launches : 0..1]
AdmRecord == [n : 0..(MaxReadmissions + 1), rev : Nat,
              status : {"none", "waiting", "leased", "dispatched", "readmission_required", "succeeded"},
              fenced : BOOLEAN]
EventRecord == [kind : Wakes \cup {"none"}, rev : Nat, n : Nat]
Places == {"idle", "record", "list", "recover", "models", "drain", "drive", "reserve", "launch",
           "start", "terminal", "complete", "recon", "process", "admfence", "fence", "effect",
           "adopt", "settle", "apply", "fail", "reconcile"}
OpRecord == [call : Calls \cup {"none"}, at : Places, via : {"drain", "list", "reconcile"},
             next : {"return", "list"}, cmd : CmdRecord, out : Outcomes \cup {"none"},
             ev : EventRecord]

DcpTypes ==
    /\ task \in TaskRecord /\ cmd \in CmdRecord /\ action \in ActionRecord /\ adm \in AdmRecord
    /\ events \subseteq EventRecord /\ applied \subseteq EventRecord
    /\ branch \in Nat /\ tree \in Nat
    /\ sent \in [Admissions -> 0..1]
    /\ run \in [Admissions -> {"none", "running", "merged", "moved"}]
    /\ op \in [Procs -> OpRecord]
    /\ excuse \in BOOLEAN /\ crashes \in 0..MaxCrashes /\ faults \in 0..MaxFaults

\* The active command is the one the state requires, of the current revision,
\* and a model's command owns the action, of which one process was started.
Queue ==
    /\ task.head <= task.rev
    /\ task.state = "absent" => task.id = 0
    /\ cmd.kind \in Stage[task.state]
    /\ cmd.kind = "none" => cmd = NoCmd
    /\ cmd.kind # "none" =>
         cmd.id = task.id /\ cmd.rev = task.rev /\ cmd.status # "none" /\ task.id > 0 /\ task.rev > 0
    /\ cmd.status = "pending" => ~cmd.fenced
    /\ cmd.kind \notin Models => action = NoAction
    /\ cmd.kind \in Models =>
         /\ action.id = cmd.id /\ action.status # "none"
         /\ action.status \in {"queued", "launching"} /\ action.launches = 0 => action.proc = "none"
         /\ action.status = "queued" => action.launches = 0
         /\ action.status = "running" => action.proc # "none"
         /\ action.proc = "ended" => action.verdict \in Verdicts[cmd.kind]

Early == {"worker_queued", "checks_waiting", "review_queued", "repair_queued", "admission_waiting"}
Merging == {"merge_observing", "deployment_waiting", "deployment_observe", "deployed"}
Released == {"deployment_waiting", "deployment_observe", "deployed"}

\* An event of a merge is of an admission, and of the last one if it has its revision.
Answers(e) ==
    /\ e.kind # "none" => e.rev \in 1..task.rev
    /\ e.kind = "merge" =>
         e.rev <= adm.rev /\ (e.rev = adm.rev => adm.n > 0 /\ e.n = adm.n /\ run[adm.n] \in {"merged", "moved"})

\* What the rows say of the admissions and the releases ordered for them.
Train ==
    /\ adm.rev <= task.rev
    /\ task.state = "absent" => adm.n = 0 /\ task.readmissions = 0 /\ task.rev = 0
    /\ task.state \in Early => adm.n = task.readmissions /\ adm.rev < task.rev
    /\ task.state = "readmission" => adm.n = task.readmissions /\ adm.rev = task.rev
    /\ task.state \in Merging \cup {"release_waiting"} => adm.n = task.readmissions + 1 /\ adm.rev = task.rev
    /\ task.state \in Merging => sent[adm.n] = 1
    /\ \A n \in Admissions : (n > adm.n => sent[n] = 0) /\ (sent[n] = 0 <=> run[n] = "none")
    /\ cmd.kind = "release" /\ ~cmd.fenced => sent[adm.n] = 0
    /\ adm.n > 0 /\ sent[adm.n] = 1 => adm.rev \in shipped
    /\ \A e \in events \cup applied : e.kind # "none" /\ Answers(e)
    /\ task.state \in Released =>
         /\ run[adm.n] = "merged"
         /\ [kind |-> "merge", rev |-> task.rev, n |-> adm.n] \in applied \ events

\* What was sent was checked and reviewed.
Evidence ==
    /\ shipped \subseteq passed \cap approved
    /\ task.state \in {"review_queued", "admission_waiting", "release_waiting"} => task.rev \in passed
    /\ task.state \in {"admission_waiting", "release_waiting"} => task.rev \in approved

\* The branch is at the task's head, but around the two pushes.
Branch ==
    /\ task.state = "absent" => branch = 0
    /\ task.state = "worker_queued" => branch <= task.head
    /\ cmd.kind = "publication" => branch <= task.head /\ task.head = task.rev
    /\ cmd.kind = "readmission" => branch \in {task.head, task.rev + 1}
    /\ task.state \notin {"absent", "failed", "worker_queued"} /\ cmd.kind \notin {"publication", "readmission"} =>
         branch = task.head

Executing == {"process", "admfence", "fence", "effect", "adopt", "settle", "apply", "fail"}
Current(o) == o.cmd.id = task.id

\* The command a handler serves was the active one; while no other is, it still is.
Serves(o) ==
    /\ o.at \in Executing \cup {"recover", "reconcile", "reserve", "launch", "start", "terminal", "complete"} =>
         o.cmd.id \in 1..task.id
    /\ o.at \in Executing \cup {"recover", "reconcile", "reserve"} /\ Current(o) =>
         cmd.kind = o.cmd.kind /\ cmd.rev = o.cmd.rev /\ cmd.status = "leased"
    /\ o.at \in Executing \cup {"reconcile"} => o.cmd.kind \notin Models \cup {"none"}
    /\ o.at \in {"fence", "effect"} => o.cmd.kind \in Effects
    /\ o.at = "adopt" => o.cmd.kind = "readmission"
    /\ o.at \in {"admfence", "settle"} => o.cmd.kind = "release"
    /\ o.at \in {"recover", "process", "admfence", "fence"} => o.via # "reconcile"
    /\ o.at = "effect" /\ o.cmd.kind = "release" => o.via # "reconcile"
    /\ o.at = "reconcile" => o.via = "reconcile"

\* A model is launched by the one handler that reserved its action.
Launches(o) ==
    /\ o.at \in {"launch", "start"} => action.id = o.cmd.id /\ action.status = "launching"
    /\ o.at = "launch" => action.launches = 0
    /\ o.at = "start" => action.proc # "none"
    /\ o.at = "complete" /\ action.id = o.cmd.id => action.proc = "ended"

\* What a handler knows of the release of the current command.
Orders(o) ==
    o.cmd.kind = "release" =>
      /\ o.at = "effect" => Current(o) /\ cmd.fenced /\ sent[adm.n] = 0
      /\ Current(o) /\ o.at \in {"settle", "apply"} => sent[adm.n] = 1
      /\ Current(o) /\ o.at = "fail" /\ o.via = "reconcile" => sent[adm.n] = 1

Pushing(o) ==
    o.at \in Executing \cup {"reconcile"} /\ o.cmd.kind \in {"publication", "readmission"}

\* What a handler knows of the head it has pushed, or was about to.
Pushes(o) ==
    /\ ~Current(o) /\ Pushing(o) /\ task.state # "failed" =>
         /\ NewHeadOf(o.cmd) <= task.head
         /\ cmd.kind = "publication" => NewHeadOf(o.cmd) < task.head
    /\ Current(o) /\ o.at = "apply" /\ o.cmd.kind = "publication" => branch = task.rev
    /\ Current(o) /\ o.at \in {"adopt", "apply"} /\ o.cmd.kind = "readmission" => branch = task.rev + 1

OutcomeOf == [publication |-> {"published"}, checks |-> {"checked"}, admission |-> {"admitted"},
              release |-> {"dispatched"}, merge |-> {"released", "moved"},
              readmission |-> {"rebased"}, deployment |-> {"observed"}, verify |-> {"verified"}]

\* The outcome a handler is about to apply is one of its command, with the event
\* that answers it.
Concludes(o) ==
    /\ Answers(o.ev)
    /\ o.at = "record" => o.ev.kind # "none"
    /\ o.at = "adopt" => o.out = "rebased"
    /\ o.at = "apply" =>
      /\ o.out \in OutcomeOf[o.cmd.kind]
      /\ o.cmd.kind = "checks" => o.ev.rev = o.cmd.rev
      /\ Current(o) /\ o.cmd.kind = "merge" =>
           /\ o.ev \in events /\ o.ev.kind = "merge" /\ o.ev.rev = task.rev
           /\ o.out = "released" => run[adm.n] = "merged"

\* Requests are served once Startup is over.
Booting ==
    /\ \A p \in Procs : op[p].call = "startup" => p = Boot
    /\ op[Boot].at # "idle" => op[Boot].call = "startup" /\ \A h \in Handlers : op[h].at = "idle"

\* One handler runs the command, unless an event of the world ends it; what
\* reconciles it beside is told by its via.
Runs(p) ==
    /\ op[p].at \in Executing /\ op[p].via # "reconcile"
    /\ Current(op[p]) /\ op[p].cmd.kind \notin Wakes

Alone ==
    /\ \A p, q \in Procs : Runs(p) /\ Runs(q) => p = q
    /\ \A p, q \in Procs : op[p].at \in {"launch", "start"} /\ op[q].at \in {"launch", "start"} => p = q
    /\ \A p \in Procs : op[p].at = "recover" /\ Current(op[p]) /\ op[p].cmd.kind \notin Wakes => p = Boot

DcpInv ==
    /\ DcpTypes /\ Queue /\ Train /\ Evidence /\ Branch /\ Booting /\ Alone
    /\ \A p \in Procs : Serves(op[p])
    /\ \A p \in Procs : Launches(op[p])
    /\ \A p \in Procs : Orders(op[p])
    /\ \A p \in Procs : Pushes(op[p])
    /\ \A p \in Procs : Concludes(op[p])

-----------------------------------------------------------------------------
\* The rows, the world and the evidence stay as they are; what counts counts.
Still ==
    UNCHANGED <<task, cmd, action, adm, events, applied, branch, tree, sent, run, passed, approved,
                shipped>>

Counts == excuse' \in BOOLEAN /\ crashes' \in 0..MaxCrashes /\ faults' \in 0..MaxFaults

\* One handler takes a step: it rests between commands or is over, or goes on
\* with what it has, or has an outcome.
Others(p) == op' \in [Procs -> OpRecord] /\ \A q \in Procs \ {p} : op'[q] = op[q]

Rests(p) ==
    /\ Others(p) /\ op'[p].at \in {"idle", "drain", "models", "drive"} /\ op'[p].ev = NoEvent
    /\ op'[p].call = IF op'[p].at = "idle" THEN "none" ELSE op[p].call

Turns(p, at) ==
    /\ Others(p) /\ op'[p].at = at
    /\ op'[p].call = op[p].call /\ op'[p].via = op[p].via /\ op'[p].cmd = op[p].cmd
    /\ op'[p].out = op[p].out /\ op'[p].ev = op[p].ev

Has(p, out, ev) ==
    /\ Others(p) /\ op'[p].at = "apply" /\ op'[p].out = out /\ op'[p].ev = ev
    /\ op'[p].call = op[p].call /\ op'[p].via = op[p].via /\ op'[p].cmd = op[p].cmd

\* A handler that has nothing is one of the records.
LEMMA IdleIs == Idle \in OpRecord /\ NoCmd \in CmdRecord /\ NoEvent \in EventRecord
<1>1. NoEvent \in EventRecord
  BY DEF NoEvent, EventRecord
<1>2. NoCmd \in CmdRecord
  BY DcpV2Assumption DEF NoCmd, CmdRecord, Kinds, Models
<1> QED
  BY <1>1, <1>2 DEF Idle, OpRecord, Places, Outcomes

\* Where a step of a handler leaves it.
LEMMA HandlerMoves ==
    ASSUME DcpTypes, NEW p \in Procs
    PROVE  /\ \A at \in {"return", "drain", "models", "drive"} : Go(p, at) => Rests(p)
           /\ \A at \in Places \ {"idle", "drain", "models", "drive"} : Go(p, at) => Turns(p, at)
           /\ Err(p) => Rests(p)
           /\ \A out \in Outcomes : \A ev \in EventRecord : Conclude(p, out, ev) => Has(p, out, ev)
<1> DEFINE Put(o) == op' = [op EXCEPT ![p] = o]
<1>0. op \in [Procs -> OpRecord] /\ op[p] \in OpRecord
  BY DEF DcpTypes
<1>1. ASSUME NEW o \in OpRecord, Put(o)
      PROVE  Others(p) /\ op'[p] = o
  BY <1>0, <1>1 DEF Others
<1>2. ASSUME NEW at \in {"return", "drain", "models", "drive"}, Go(p, at)
      PROVE  Rests(p)
  <2> DEFINE o == IF at = "return" THEN Idle
                  ELSE [Idle EXCEPT !.call = op[p].call, !.at = at, !.next = op[p].next]
  <2>1. Put(o)
    BY <1>2 DEF Go
  <2>2. o \in OpRecord
    <3>1. CASE at = "return"
      BY <3>1, IdleIs
    <3>2. CASE at # "return"
      <4>1. /\ op[p].call \in Calls \cup {"none"} /\ op[p].next \in {"return", "list"}
            /\ at \in Places /\ Idle \in OpRecord
        BY <1>0, <3>2, IdleIs DEF OpRecord, Places
      <4> QED
        BY <3>2, <4>1 DEF OpRecord
    <3> QED
      BY <3>1, <3>2
  <2>3. /\ o.at \in {"idle", "drain", "models", "drive"} /\ o.ev = NoEvent
        /\ o.call = IF o.at = "idle" THEN "none" ELSE op[p].call
    BY DEF Idle
  <2> HIDE DEF o, Put
  <2> QED
    BY <1>1, <2>1, <2>2, <2>3 DEF Rests
<1>3. ASSUME NEW at \in Places \ {"idle", "drain", "models", "drive"}, Go(p, at)
      PROVE  Turns(p, at)
  <2> DEFINE o == [op[p] EXCEPT !.at = at]
  <2>1. Put(o)
    BY <1>3 DEF Go, Places
  <2>2. o \in OpRecord
    BY <1>0 DEF OpRecord
  <2>3. /\ o.at = at /\ o.call = op[p].call /\ o.via = op[p].via /\ o.cmd = op[p].cmd
        /\ o.out = op[p].out /\ o.ev = op[p].ev
    BY <1>0 DEF OpRecord
  <2> HIDE DEF o, Put
  <2> QED
    BY <1>1, <2>1, <2>2, <2>3 DEF Turns
<1>4. Err(p) => Rests(p)
  <2>1. Idle.at = "idle" /\ Idle.ev = NoEvent /\ Idle.call = "none"
    BY DEF Idle
  <2> HIDE DEF Put
  <2> QED
    BY <1>1, <2>1, IdleIs DEF Rests, Err, Put
<1>5. ASSUME NEW out \in Outcomes, NEW ev \in EventRecord, Conclude(p, out, ev)
      PROVE  Has(p, out, ev)
  <2> DEFINE o == [op[p] EXCEPT !.at = "apply", !.out = out, !.ev = ev]
  <2>1. Put(o)
    BY <1>0, <1>5 DEF Conclude
  <2>2. o \in OpRecord
    BY <1>0 DEF OpRecord, Places
  <2>3. /\ o.at = "apply" /\ o.call = op[p].call /\ o.via = op[p].via /\ o.cmd = op[p].cmd
        /\ o.out = out /\ o.ev = ev
    BY <1>0 DEF OpRecord
  <2> HIDE DEF o, Put
  <2> QED
    BY <1>1, <2>1, <2>2, <2>3 DEF Has
<1> QED
  BY <1>2, <1>3, <1>4, <1>5

\* A handler that rests, or is over, owes nothing to the command it served.
LEMMA RestStep ==
    ASSUME DcpInv, NEW p \in Procs, op[p].at # "idle", Still, Counts, Rests(p)
    PROVE  DcpInv'
<1> USE DEF DcpInv, Still, Rests, Others
<1>1. DcpTypes'
  BY DEF DcpTypes, Counts
<1>2. Queue' /\ Evidence' /\ Branch'
  BY DEF Queue, Evidence, Branch
<1>3. Train'
  BY DEF Train, Answers
<1>4. Booting'
  BY DEF Booting, Procs
<1>5. Alone'
  BY DEF Alone, Runs, Current, Executing
<1>6. \A q \in Procs : Serves(op[q])'
  BY DEF Serves, Current, Executing
<1>7. \A q \in Procs : Launches(op[q])'
  BY DEF Launches
<1>8. \A q \in Procs : Orders(op[q])'
  BY DEF Orders, Current
<1>9. \A q \in Procs : Pushes(op[q])'
  BY DEF Pushes, Pushing, Current, NewHeadOf, Executing
<1>10. \A q \in Procs : Concludes(op[q])'
  BY DEF Concludes, Current, Answers, NoEvent
<1> QED
  BY <1>1, <1>2, <1>3, <1>4, <1>5, <1>6, <1>7, <1>8, <1>9, <1>10

\* A command that is pending, an action that is queued.
LEMMA PendingIs ==
    ASSUME NEW id \in Nat, NEW kind \in Kinds, NEW rev \in Nat
    PROVE  /\ Pending(id, kind, rev) \in CmdRecord
           /\ Pending(id, kind, rev).id = id /\ Pending(id, kind, rev).kind = kind
           /\ Pending(id, kind, rev).rev = rev /\ Pending(id, kind, rev).status = "pending"
           /\ ~Pending(id, kind, rev).fenced
<1>1. NoCmd \in CmdRecord /\ NoCmd.fenced = FALSE
  BY IdleIs DEF NoCmd
<1> QED
  BY <1>1 DEF Pending, CmdRecord

\* The same of an action that is queued.
LEMMA QueuedIs ==
    ASSUME NEW id \in Nat
    PROVE  /\ Queued(id) \in ActionRecord /\ NoAction \in ActionRecord
           /\ Queued(id).id = id /\ Queued(id).status = "queued"
           /\ Queued(id).launches = 0 /\ Queued(id).proc = "none"
<1>1. NoAction \in ActionRecord /\ NoAction.launches = 0 /\ NoAction.proc = "none"
  BY DEF NoAction, ActionRecord
<1> QED
  BY <1>1 DEF Queued, ActionRecord

\* A handler goes on with what it has, within the service of its command.
LEMMA TurnStep ==
    ASSUME DcpInv, NEW p \in Procs, NEW at \in {"fence", "effect", "settle", "fail"},
           op[p].at \in Executing \cup {"reconcile"}, Still, Counts, Turns(p, at),
           at = "fence" => op[p].at \in {"process", "admfence"} /\ op[p].cmd.kind \in Effects,
           at = "effect" => op[p].cmd.kind = "readmission",
           at = "settle" => op[p].cmd.kind = "release",
           at \in {"settle", "fail"} /\ op[p].cmd.kind = "release" /\ Current(op[p])
             /\ op[p].via = "reconcile" => sent[adm.n] = 1,
           at = "settle" => op[p].via = "reconcile"
    PROVE  DcpInv'
<1> USE DEF DcpInv, Still, Turns, Others
<1>1. DcpTypes'
  BY DEF DcpTypes, Counts
<1>2. Queue' /\ Evidence' /\ Branch'
  BY DEF Queue, Evidence, Branch
<1>3. Train'
  BY DEF Train, Answers
<1>4. Booting'
  BY DEF Booting, Procs, Executing
<1>5. Alone'
  BY DEF Alone, Runs, Current, Executing, Serves
<1>6. \A q \in Procs : Serves(op[q])'
  BY DEF Serves, Current, Executing, Effects
<1>7. \A q \in Procs : Launches(op[q])'
  BY DEF Launches
<1>8. \A q \in Procs : Orders(op[q])'
  BY DEF Orders, Current
<1>9. \A q \in Procs : Pushes(op[q])'
  BY DEF Pushes, Pushing, Current, NewHeadOf, Executing
<1>10. \A q \in Procs : Concludes(op[q])'
  BY DEF Concludes, Current, Answers
<1> QED
  BY <1>1, <1>2, <1>3, <1>4, <1>5, <1>6, <1>7, <1>8, <1>9, <1>10

\* A handler goes on to the list or to the completion of its model.
LEMMA OnwardStep ==
    ASSUME DcpInv, NEW p \in Procs, NEW at \in {"list", "complete"},
           op[p].at # "idle", Still, Counts, Turns(p, at),
           at = "complete" => op[p].cmd.id \in 1..task.id
                              /\ (action.id = op[p].cmd.id => action.proc = "ended")
    PROVE  DcpInv'
<1> USE DEF DcpInv, Still, Turns, Others
<1>1. DcpTypes'
  BY DEF DcpTypes, Counts
<1>2. Queue' /\ Evidence' /\ Branch'
  BY DEF Queue, Evidence, Branch
<1>3. Train'
  BY DEF Train, Answers
<1>4. Booting'
  BY DEF Booting, Procs
<1>5. Alone'
  BY DEF Alone, Runs, Current, Executing
<1>6. \A q \in Procs : Serves(op[q])'
  BY DEF Serves, Current, Executing
<1>7. \A q \in Procs : Launches(op[q])'
  BY DEF Launches
<1>8. \A q \in Procs : Orders(op[q])'
  BY DEF Orders, Current
<1>9. \A q \in Procs : Pushes(op[q])'
  BY DEF Pushes, Pushing, Current, NewHeadOf, Executing
<1>10. \A q \in Procs : Concludes(op[q])'
  BY DEF Concludes, Current, Answers
<1> QED
  BY <1>1, <1>2, <1>3, <1>4, <1>5, <1>6, <1>7, <1>8, <1>9, <1>10

\* A handler has an outcome, which is one of its command and is right while that
\* is current.
LEMMA OutcomeStep ==
    ASSUME DcpInv, NEW p \in Procs, NEW out \in Outcomes, NEW ev \in EventRecord,
           op[p].at \in {"process", "reconcile", "effect"}, Still, Counts, Has(p, out, ev),
           out \in OutcomeOf[op[p].cmd.kind], Answers(ev),
           out = "checked" => ev.rev = op[p].cmd.rev,
           out = "dispatched" /\ Current(op[p]) => sent[adm.n] = 1,
           out = "published" /\ Current(op[p]) => branch = task.rev,
           out # "rebased",
           out \in {"released", "moved"} /\ Current(op[p]) =>
             ev \in events /\ ev.kind = "merge" /\ ev.rev = task.rev,
           out = "released" /\ Current(op[p]) => run[adm.n] = "merged"
    PROVE  DcpInv'
<1> USE DEF DcpInv, Still, Has, Others
<1>0. /\ op[p] \in OpRecord /\ op[p].cmd.kind \in Kinds \ (Models \cup {"none"})
      /\ op[p].cmd.kind = "release" => out = "dispatched"
      /\ op[p].cmd.kind = "publication" => out = "published"
      /\ op[p].cmd.kind = "readmission" => out = "rebased"
      /\ op[p].cmd.kind = "checks" => out = "checked"
      /\ op[p].cmd.kind = "merge" => out \in {"released", "moved"}
  BY DEF DcpTypes, OpRecord, CmdRecord, Serves, Executing, OutcomeOf, Kinds, Models, Wakes, Effects
<1>1. DcpTypes'
  BY DEF DcpTypes, Counts
<1>2. Queue' /\ Evidence' /\ Branch'
  BY DEF Queue, Evidence, Branch
<1>3. Train'
  BY DEF Train, Answers
<1>4. Booting'
  BY DEF Booting, Procs
<1>5. Alone'
  BY DEF Alone, Runs, Current, Executing, Serves
<1>6. \A q \in Procs : Serves(op[q])'
  BY DEF Serves, Current, Executing
<1>7. \A q \in Procs : Launches(op[q])'
  BY DEF Launches
<1>8. \A q \in Procs : Orders(op[q])'
  BY <1>0 DEF Orders, Current
<1>9. \A q \in Procs : Pushes(op[q])'
  BY <1>0 DEF Pushes, Pushing, Current, NewHeadOf, Executing
<1>10. \A q \in Procs : Concludes(op[q])'
  BY <1>0 DEF Concludes, Current, Answers
<1> QED
  BY <1>1, <1>2, <1>3, <1>4, <1>5, <1>6, <1>7, <1>8, <1>9, <1>10

\* A request is served: it starts with the event that it reports, or with the
\* model it reports the exit of.
LEMMA BeginStep ==
    ASSUME DcpInv, NEW p \in Handlers, Serving(p), Still, Counts, Others(p),
           op'[p].call \in Calls \ {"startup"}, op'[p].at = "record",
           op'[p].ev.kind # "none", Answers(op'[p].ev)
    PROVE  DcpInv'
<1> USE DEF DcpInv, Still, Others, Serving, At
<1>0. p \in Procs /\ p # Boot
  BY DcpV2Assumption DEF Procs
<1>1. DcpTypes'
  BY DEF DcpTypes, Counts
<1>2. Queue' /\ Evidence' /\ Branch'
  BY DEF Queue, Evidence, Branch
<1>3. Train'
  BY DEF Train, Answers
<1>4. Booting'
  BY <1>0 DEF Booting, Procs
<1>5. Alone'
  BY <1>0 DEF Alone, Runs, Current, Executing
<1>6. \A q \in Procs : Serves(op[q])'
  BY <1>0 DEF Serves, Current, Executing
<1>7. \A q \in Procs : Launches(op[q])'
  BY <1>0 DEF Launches
<1>8. \A q \in Procs : Orders(op[q])'
  BY <1>0 DEF Orders, Current
<1>9. \A q \in Procs : Pushes(op[q])'
  BY <1>0 DEF Pushes, Pushing, Current, NewHeadOf, Executing
<1>10. \A q \in Procs : Concludes(op[q])'
  BY <1>0 DEF Concludes, Current, Answers
<1> QED
  BY <1>1, <1>2, <1>3, <1>4, <1>5, <1>6, <1>7, <1>8, <1>9, <1>10

\* Where a call goes on is between two commands, or back to its caller.
LEMMA Continues ==
    ASSUME NEW p \in Procs, NEW pause \in BOOLEAN, op[p].via \in {"drain", "list", "reconcile"}
    PROVE  Continue(op[p], pause) \in {"return", "drain", "models", "drive"}
  BY DEF Continue, AfterDrain

\* A failure that is injected is counted.
LEMMA Counting ==
    ASSUME DcpTypes
    PROVE  Faulty => faults' \in 0..MaxFaults
  BY DcpV2Assumption DEF DcpTypes, Faulty

\* The event that answers a command.
LEMMA Matches ==
    ASSUME DcpInv, NEW p \in Procs, op[p].cmd.kind \in Wakes, NEW e \in Matched(op[p].cmd)
    PROVE  /\ e \in EventRecord /\ e \in events /\ Answers(e)
           /\ e.kind = op[p].cmd.kind /\ e.rev = op[p].cmd.rev /\ e.rev = task.rev
  BY DEF DcpInv, DcpTypes, Train, Matched

\* What the handler's places tell of it.
LEMMA Typed ==
    ASSUME DcpTypes, NEW p \in Procs
    PROVE  /\ op[p] \in OpRecord /\ op[p].via \in {"drain", "list", "reconcile"} /\ op[p].at \in Places
           /\ op[p].ev \in EventRecord /\ op[p].cmd \in CmdRecord
           /\ NoEvent \in EventRecord
  BY IdleIs DEF DcpTypes, OpRecord

\* A check run reports.
LEMMA WakeChecksStep ==
    ASSUME DcpInv, NEW p \in Handlers, NEW n \in 1..MaxRuns, WakeChecks(p, n)
    PROVE  DcpInv'
<1> DEFINE ev == [kind |-> "checks", rev |-> task.rev, n |-> n]
           o == [Idle EXCEPT !.call = "checks", !.at = "record", !.cmd = NoCmd, !.ev = ev]
<1>1. DcpTypes /\ p \in Procs /\ Serving(p) /\ task.rev \in Nat /\ task.rev > 0
  BY DcpV2Assumption DEF DcpInv, WakeChecks, Procs, DcpTypes, TaskRecord, Queue
<1>2. ev \in EventRecord /\ ev.kind = "checks" /\ ev.rev = task.rev
  BY <1>1, DcpV2Assumption DEF EventRecord, Wakes
<1>3. o \in OpRecord /\ o.call = "checks" /\ o.at = "record" /\ o.ev = ev
  <2> HIDE DEF ev
  <2> QED
    BY <1>2, IdleIs DEF OpRecord, Places, Calls
<1>4. op' = [op EXCEPT ![p] = o]
  BY DEF WakeChecks, Serve
<1> HIDE DEF ev, o
<1>5. Others(p) /\ op'[p] = o
  BY <1>1, <1>3, <1>4 DEF Others, DcpTypes
<1>6. Still /\ Counts
  BY <1>1 DEF WakeChecks, db, world, evidence, Still, Counts, DcpTypes
<1>7. Answers(ev)
  BY <1>1, <1>2 DEF Answers
<1> QED
  BY <1>1, <1>2, <1>3, <1>5, <1>6, <1>7, BeginStep DEF Calls

\* The release of the last admission reports that it is through.
LEMMA WakeReleaseStep ==
    ASSUME DcpInv, NEW p \in Handlers, WakeRelease(p)
    PROVE  DcpInv'
<1> DEFINE ev == [kind |-> "merge", rev |-> task.rev, n |-> adm.n]
           o == [Idle EXCEPT !.call = "release", !.at = "record", !.cmd = NoCmd, !.ev = ev]
<1>1. /\ DcpTypes /\ p \in Procs /\ Serving(p) /\ task.rev \in Nat /\ task.rev > 0 /\ adm.n \in Nat
      /\ adm.n > 0 /\ adm.rev = task.rev /\ run[adm.n] \in {"merged", "moved"}
  BY DcpV2Assumption DEF DcpInv, WakeRelease, Procs, DcpTypes, TaskRecord, AdmRecord, Queue, Train,
     Merging
<1>2. ev \in EventRecord /\ ev.kind = "merge" /\ ev.rev = task.rev /\ ev.n = adm.n
  BY <1>1 DEF EventRecord, Wakes
<1>3. o \in OpRecord /\ o.call = "release" /\ o.at = "record" /\ o.ev = ev
  <2> HIDE DEF ev
  <2> QED
    BY <1>2, IdleIs DEF OpRecord, Places, Calls
<1>4. op' = [op EXCEPT ![p] = o]
  BY DEF WakeRelease, Serve
<1> HIDE DEF ev, o
<1>5. Others(p) /\ op'[p] = o
  BY <1>1, <1>3, <1>4 DEF Others, DcpTypes
<1>6. Still /\ Counts
  BY <1>1 DEF WakeRelease, db, world, evidence, Still, Counts, DcpTypes
<1>7. Answers(ev)
  BY <1>1, <1>2 DEF Answers
<1> QED
  BY <1>1, <1>2, <1>3, <1>5, <1>6, <1>7, BeginStep DEF Calls

\* The command of a handler that works is the active one, or is not current.
LEMMA InService ==
    ASSUME DcpInv, NEW p \in Procs, op[p].at \in {"process", "reconcile"}
    PROVE  /\ op[p].at # "idle" /\ op[p].at \in Executing \cup {"reconcile"}
           /\ op[p].cmd.kind \in Kinds \ (Models \cup {"none"})
           /\ op[p].at = "process" => op[p].via # "reconcile"
           /\ op[p].at = "reconcile" => op[p].via = "reconcile"
           /\ Current(op[p]) => cmd.kind = op[p].cmd.kind /\ cmd.rev = op[p].cmd.rev
                                /\ task.rev = op[p].cmd.rev /\ cmd.kind \in Stage[task.state]
  BY DEF DcpInv, DcpTypes, OpRecord, CmdRecord, Serves, Executing, Queue

\* The wake of a check completes the checks, is not there yet, or is one of several.
LEMMA CompleteChecksStep ==
    ASSUME DcpInv, NEW p \in Procs, CompleteChecks(p)
    PROVE  DcpInv'
<1>1. DcpTypes /\ Still /\ Counts
  BY DEF DcpInv, CompleteChecks, db, world, evidence, Still, Counts, DcpTypes
<1>2. op[p].at = "process" /\ op[p].cmd.kind = "checks"
  BY DEF CompleteChecks, Unanswered, Ambiguous, Process, At
<1>3. CASE Unanswered(p, "checks")
  BY <1>1, <1>2, <1>3, Typed, Continues, HandlerMoves, RestStep DEF Unanswered
<1>4. CASE Ambiguous(p, "checks")
  <2>1. Turns(p, "fail")
    BY <1>1, <1>4, HandlerMoves DEF Ambiguous, Places
  <2> QED
    BY <1>1, <1>2, <2>1, InService, TurnStep
<1>5. CASE /\ Cardinality(Matched(op[p].cmd)) = 1
           /\ Conclude(p, "checked", CHOOSE e \in Matched(op[p].cmd) : TRUE)
  <2> DEFINE ev == CHOOSE e \in Matched(op[p].cmd) : TRUE
  <2>1. Matched(op[p].cmd) # {}
    BY <1>5, FS_EmptySet
  <2>2. ev \in Matched(op[p].cmd)
    BY <2>1
  <2> HIDE DEF ev
  <2>3. ev \in EventRecord /\ Answers(ev) /\ ev.rev = op[p].cmd.rev
    BY <1>2, <2>2, Matches DEF Wakes
  <2>4. Has(p, "checked", ev)
    BY <1>1, <1>5, <2>3, HandlerMoves DEF ev, Outcomes
  <2> QED
    BY <1>1, <1>2, <2>3, <2>4, OutcomeStep DEF OutcomeOf, Outcomes
<1> QED
  BY <1>3, <1>4, <1>5 DEF CompleteChecks

\* The wake of a release ends or moves it, is not there yet, or is one of several.
LEMMA ObserveReleaseStep ==
    ASSUME DcpInv, NEW p \in Procs, ObserveRelease(p)
    PROVE  DcpInv'
<1>1. DcpTypes /\ Still /\ Counts
  BY DEF DcpInv, ObserveRelease, db, world, evidence, Still, Counts, DcpTypes
<1>2. op[p].at = "process" /\ op[p].cmd.kind = "merge"
  BY DEF ObserveRelease, Unanswered, Process, At
<1>3. CASE Unanswered(p, "merge")
  BY <1>1, <1>2, <1>3, Typed, Continues, HandlerMoves, RestStep DEF Unanswered
<1>4. CASE Go(p, "fail")
  <2>1. Turns(p, "fail")
    BY <1>1, <1>4, HandlerMoves DEF Places
  <2> QED
    BY <1>1, <1>2, <2>1, InService, TurnStep
<1>5. CASE /\ Cardinality(Matched(op[p].cmd)) = 1
           /\ Conclude(p, IF run[adm.n] = "moved" THEN "moved" ELSE "released",
                       CHOOSE e \in Matched(op[p].cmd) : TRUE)
  <2> DEFINE ev == CHOOSE e \in Matched(op[p].cmd) : TRUE
             out == IF run[adm.n] = "moved" THEN "moved" ELSE "released"
  <2>1. Matched(op[p].cmd) # {}
    BY <1>5, FS_EmptySet
  <2>2. ev \in Matched(op[p].cmd)
    BY <2>1
  <2>3. out \in {"moved", "released"} /\ (out = "released" => run[adm.n] # "moved")
    OBVIOUS
  <2> HIDE DEF ev, out
  <2>4. /\ ev \in EventRecord /\ Answers(ev) /\ ev \in events /\ ev.kind = "merge"
        /\ ev.rev = op[p].cmd.rev /\ ev.rev = task.rev
    BY <1>2, <2>2, Matches DEF Wakes
  <2>5. Has(p, out, ev)
    BY <1>1, <1>5, <2>3, <2>4, HandlerMoves DEF ev, out, Outcomes
  <2>6. ASSUME Current(op[p]) PROVE run[adm.n] \in {"merged", "moved"}
    <3>1. task.state = "merge_observing"
      BY <1>1, <1>2, <2>6, InService DEF DcpTypes, TaskRecord, States, Stage
    <3>2. adm.rev = task.rev
      BY <3>1 DEF DcpInv, Train, Merging
    <3> QED
      BY <2>4, <3>2 DEF Answers
  <2> QED
    BY <1>1, <1>2, <2>3, <2>4, <2>5, <2>6, OutcomeStep DEF OutcomeOf, Outcomes
<1> QED
  BY <1>3, <1>4, <1>5 DEF ObserveRelease

\* The deployment is observed.
LEMMA ObserveDeploymentStep ==
    ASSUME DcpInv, NEW p \in Procs, ObserveDeployment(p)
    PROVE  DcpInv'
<1>1. DcpTypes /\ Still /\ Counts /\ op[p].at = "process" /\ op[p].cmd.kind = "deployment"
  BY DEF DcpInv, ObserveDeployment, Process, At, db, world, evidence, Still, Counts, DcpTypes
<1>2. Has(p, "observed", NoEvent) /\ NoEvent \in EventRecord
  BY <1>1, HandlerMoves, IdleIs DEF ObserveDeployment, Outcomes
<1>3. Answers(NoEvent)
  BY DEF Answers, NoEvent
<1> QED
  BY <1>1, <1>2, <1>3, OutcomeStep DEF OutcomeOf, Outcomes

\* The deployment is verified.
LEMMA VerifyTerminalStep ==
    ASSUME DcpInv, NEW p \in Procs, VerifyTerminal(p)
    PROVE  DcpInv'
<1>1. DcpTypes /\ Still /\ Counts /\ op[p].at = "process" /\ op[p].cmd.kind = "verify"
  BY DEF DcpInv, VerifyTerminal, Process, At, db, world, evidence, Still, Counts, DcpTypes
<1>2. Has(p, "verified", NoEvent) /\ NoEvent \in EventRecord
  BY <1>1, HandlerMoves, IdleIs DEF VerifyTerminal, Outcomes
<1>3. Answers(NoEvent)
  BY DEF Answers, NoEvent
<1> QED
  BY <1>1, <1>2, <1>3, OutcomeStep DEF OutcomeOf, Outcomes

\* An effect is prepared, and fenced next, or its worktree is elsewhere.
LEMMA PrepareEffectStep ==
    ASSUME DcpInv, NEW p \in Procs, PrepareEffect(p)
    PROVE  DcpInv'
<1>1. /\ DcpTypes /\ Still /\ Counts /\ op[p].at = "process"
      /\ op[p].cmd.kind \in {"publication", "admission", "readmission"}
  BY DEF DcpInv, PrepareEffect, Process, At, db, world, evidence, Still, Counts, DcpTypes
<1>2. Turns(p, "fail") \/ Turns(p, "fence")
  BY <1>1, HandlerMoves DEF PrepareEffect, Places
<1> QED
  BY <1>1, <1>2, InService, TurnStep DEF Effects

\* What is read outside is not what the rows say: the command will fail.
LEMMA DriftsStep ==
    ASSUME DcpInv, NEW p \in Procs, Drifts(p)
    PROVE  DcpInv'
<1>1. DcpTypes /\ Still /\ op[p].at = "process" /\ faults' \in 0..MaxFaults
  BY Counting DEF DcpInv, Drifts, Process, At, db, world, evidence, Still
<1>2. Counts
  BY <1>1 DEF Drifts, Counts, DcpTypes
<1>3. Turns(p, "fail")
  BY <1>1, HandlerMoves DEF Drifts, Places
<1> QED
  BY <1>1, <1>2, <1>3, InService, TurnStep

\* The boot completes the model of the active command.
LEMMA CompletesStep ==
    ASSUME DcpInv, NEW p \in Procs, op[p].at # "idle", Still, Counts, Others(p),
           op'[p].at = "complete", op'[p].call = op[p].call, op'[p].cmd = cmd,
           op'[p].ev = op[p].ev, cmd.id \in 1..task.id, action.proc = "ended"
    PROVE  DcpInv'
<1> USE DEF DcpInv, Still, Others
<1>1. DcpTypes'
  BY DEF DcpTypes, Counts
<1>2. Queue' /\ Evidence' /\ Branch'
  BY DEF Queue, Evidence, Branch
<1>3. Train'
  BY DEF Train, Answers
<1>4. Booting'
  BY DEF Booting, Procs
<1>5. Alone'
  BY DEF Alone, Runs, Current, Executing
<1>6. \A q \in Procs : Serves(op[q])'
  BY DEF Serves, Current, Executing
<1>7. \A q \in Procs : Launches(op[q])'
  BY DEF Launches
<1>8. \A q \in Procs : Orders(op[q])'
  BY DEF Orders, Current
<1>9. \A q \in Procs : Pushes(op[q])'
  BY DEF Pushes, Pushing, Current, NewHeadOf, Executing
<1>10. \A q \in Procs : Concludes(op[q])'
  BY DEF Concludes, Current, Answers
<1> QED
  BY <1>1, <1>2, <1>3, <1>4, <1>5, <1>6, <1>7, <1>8, <1>9, <1>10

\* A handler that was woken by the release of the current revision knows that it
\* was ordered.
LEMMA Answered ==
    ASSUME DcpInv, NEW p \in Procs, op[p].ev.kind = "merge", op[p].ev.rev = task.rev
    PROVE  sent[adm.n] = 1
<1>1. /\ adm.n \in Nat /\ adm.n > 0 /\ adm.rev \in Nat /\ task.rev \in Nat /\ adm.n \in Admissions
      /\ sent[adm.n] \in 0..1
  <2>1. /\ adm \in AdmRecord /\ task \in TaskRecord /\ MaxReadmissions \in Nat
        /\ sent \in [Admissions -> 0..1] /\ op[p].ev \in EventRecord
    BY DcpV2Assumption, Typed DEF DcpInv, DcpTypes
  <2>2. Answers(op[p].ev) /\ adm.rev <= task.rev
    BY DEF DcpInv, Concludes, Train
  <2> QED
    BY <2>1, <2>2 DEF Answers, AdmRecord, TaskRecord, Admissions
<1>2. adm.rev = task.rev /\ run[adm.n] \in {"merged", "moved"}
  <2>1. Answers(op[p].ev) /\ adm.rev <= task.rev
    BY DEF DcpInv, Concludes, Train
  <2> QED
    BY <1>1, <2>1 DEF Answers
<1> QED
  BY <1>1, <1>2 DEF DcpInv, Train

\* The task moved on from the revision of the command.
LEMMA ReconcileRevisionStep ==
    ASSUME DcpInv, NEW p \in Procs, ReconcileRevision(p)
    PROVE  DcpInv'
<1>1. DcpTypes /\ Still /\ Counts /\ op[p].at = "reconcile" /\ Drifted(op[p])
  BY DEF DcpInv, ReconcileRevision, At, db, world, evidence, Still, Counts, DcpTypes
<1>2. Turns(p, "fail")
  BY <1>1, HandlerMoves DEF ReconcileRevision, Places
<1> QED
  BY <1>1, <1>2, InService, TurnStep DEF Drifted

\* A fenced push is found on the branch, not yet, or nowhere.
LEMMA ReconcilePublicationStep ==
    ASSUME DcpInv, NEW p \in Procs, ReconcilePublication(p)
    PROVE  DcpInv'
<1>1. /\ DcpTypes /\ Still /\ Counts /\ op[p].at = "reconcile" /\ op[p].cmd.kind = "publication"
      /\ task.rev = op[p].cmd.rev
  BY DEF DcpInv, ReconcilePublication, Reconciles, Drifted, At, db, world, evidence, Still, Counts,
     DcpTypes
<1>2. CASE Go(p, "fail")
  <2>1. Turns(p, "fail")
    BY <1>1, <1>2, HandlerMoves DEF Places
  <2> QED
    BY <1>1, <2>1, InService, TurnStep
<1>3. CASE branch = op[p].cmd.rev /\ Conclude(p, "published", NoEvent)
  <2>1. Has(p, "published", NoEvent) /\ NoEvent \in EventRecord /\ Answers(NoEvent)
    BY <1>1, <1>3, HandlerMoves, IdleIs DEF Outcomes, Answers, NoEvent
  <2> QED
    BY <1>1, <1>3, <2>1, OutcomeStep DEF OutcomeOf, Outcomes
<1>4. CASE Go(p, Continue(op[p], FALSE))
  BY <1>1, <1>4, Typed, Continues, HandlerMoves, RestStep
<1> QED
  BY <1>2, <1>3, <1>4 DEF ReconcilePublication

\* The admission is found, or there is one already.
LEMMA ReconcileAdmissionStep ==
    ASSUME DcpInv, NEW p \in Procs, ReconcileAdmission(p)
    PROVE  DcpInv'
<1>1. DcpTypes /\ Still /\ Counts /\ op[p].at = "reconcile" /\ op[p].cmd.kind = "admission"
  BY DEF DcpInv, ReconcileAdmission, Reconciles, At, db, world, evidence, Still, Counts, DcpTypes
<1>2. CASE Go(p, "fail")
  <2>1. Turns(p, "fail")
    BY <1>1, <1>2, HandlerMoves DEF Places
  <2> QED
    BY <1>1, <2>1, InService, TurnStep
<1>3. CASE Conclude(p, "admitted", NoEvent)
  <2>1. Has(p, "admitted", NoEvent) /\ NoEvent \in EventRecord /\ Answers(NoEvent)
    BY <1>1, <1>3, HandlerMoves, IdleIs DEF Outcomes, Answers, NoEvent
  <2> QED
    BY <1>1, <2>1, OutcomeStep DEF OutcomeOf, Outcomes
<1> QED
  BY <1>2, <1>3 DEF ReconcileAdmission

\* A release is proved by its own completion.
LEMMA ReconcileReleaseStep ==
    ASSUME DcpInv, NEW p \in Procs, ReconcileRelease(p)
    PROVE  DcpInv'
<1>1. DcpTypes /\ Still /\ Counts /\ op[p].at = "reconcile" /\ op[p].cmd.kind = "release"
  BY DEF DcpInv, ReconcileRelease, Reconciles, At, db, world, evidence, Still, Counts, DcpTypes
<1>2. CASE ~(op[p].ev.kind = "merge" /\ op[p].ev.rev = task.rev)
  BY <1>1, <1>2, Typed, Continues, HandlerMoves, RestStep DEF ReconcileRelease
<1>3. CASE op[p].ev.kind = "merge" /\ op[p].ev.rev = task.rev
  <2>1. sent[adm.n] = 1
    BY <1>3, Answered
  <2>2. ASSUME NEW at \in {"settle", "fail"}, Go(p, at)
        PROVE  DcpInv'
    <3>1. Turns(p, at)
      BY <1>1, <2>2, HandlerMoves DEF Places
    <3> QED
      BY <1>1, <2>1, <3>1, InService, TurnStep
  <2>3. CASE Conclude(p, "dispatched", NoEvent)
    <3>1. Has(p, "dispatched", NoEvent) /\ NoEvent \in EventRecord /\ Answers(NoEvent)
      BY <1>1, <2>3, HandlerMoves, IdleIs DEF Outcomes, Answers, NoEvent
    <3> QED
      BY <1>1, <2>1, <3>1, OutcomeStep DEF OutcomeOf, Outcomes
  <2> QED
    BY <1>3, <2>2, <2>3 DEF ReconcileRelease
<1> QED
  BY <1>2, <1>3

\* A readmission publishes its successor from a worktree at the old head.
LEMMA ReconcileReadmissionStep ==
    ASSUME DcpInv, NEW p \in Procs, ReconcileReadmission(p)
    PROVE  DcpInv'
<1>1. DcpTypes /\ Still /\ Counts /\ op[p].at = "reconcile" /\ op[p].cmd.kind = "readmission"
  BY DEF DcpInv, ReconcileReadmission, Reconciles, At, db, world, evidence, Still, Counts, DcpTypes
<1>2. Turns(p, "effect") \/ Turns(p, "fail")
  BY <1>1, HandlerMoves DEF ReconcileReadmission, Places
<1> QED
  BY <1>1, <1>2, InService, TurnStep

\* What the reconciliation reads outside fails.
LEMMA ReconcileFailsStep ==
    ASSUME DcpInv, NEW p \in Procs, ReconcileFails(p)
    PROVE  DcpInv'
<1>1. DcpTypes /\ Still /\ op[p].at = "reconcile" /\ faults' \in 0..MaxFaults
  BY Counting DEF DcpInv, ReconcileFails, At, db, world, evidence, Still
<1>2. Counts
  BY <1>1 DEF ReconcileFails, Counts, DcpTypes
<1>3. Turns(p, "fail")
  BY <1>1, HandlerMoves DEF ReconcileFails, Places
<1>4. op[p].cmd.kind = "release" => sent[adm.n] = 1
  BY Answered DEF ReconcileFails
<1> QED
  BY <1>1, <1>2, <1>3, <1>4, InService, TurnStep

\* A push finds the branch, or the worktree, elsewhere.
LEMMA EffectRefusedStep ==
    ASSUME DcpInv, NEW p \in Procs, EffectRefused(p)
    PROVE  DcpInv'
<1>1. DcpTypes /\ Still /\ Counts /\ op[p].at = "effect"
  BY DEF DcpInv, EffectRefused, At, db, world, evidence, Still, Counts, DcpTypes
<1>2. CASE op[p].via = "reconcile"
  <2>1. Turns(p, "fail")
    BY <1>1, <1>2, HandlerMoves DEF EffectRefused, Unsettled, Places
  <2>2. op[p].cmd.kind # "release"
    BY <1>1, <1>2 DEF DcpInv, Serves
  <2> QED
    BY <1>1, <2>1, <2>2, TurnStep DEF Executing
<1>3. CASE op[p].via # "reconcile"
  BY <1>1, <1>3, Typed, Continues, HandlerMoves, RestStep DEF EffectRefused, Unsettled
<1> QED
  BY <1>2, <1>3

\* The model commands are looked at: the call goes on, or pauses.
LEMMA ReconcileModelCommandsStep ==
    ASSUME DcpInv, NEW p \in Procs, ReconcileModelCommands(p)
    PROVE  DcpInv'
<1>1. DcpTypes /\ Still /\ Counts /\ op[p].at = "models"
  BY DEF DcpInv, ReconcileModelCommands, At, db, world, evidence, Still, Counts, DcpTypes
<1>2. Rests(p)
  BY <1>1, HandlerMoves DEF ReconcileModelCommands, AfterDrain
<1> QED
  BY <1>1, <1>2, RestStep

\* A handler reads the active command: to launch its model, to recover its lease
\* or to reconcile it.
LEMMA TakesStep ==
    ASSUME DcpInv, NEW p \in Procs, op[p].at # "idle", Still, Counts, Others(p),
           NEW at \in {"reserve", "recover", "reconcile"}, op'[p].at = at,
           op'[p].call = op[p].call, op'[p].cmd = cmd, Answers(op'[p].ev), cmd.status = "leased",
           at = "recover" => op'[p].via # "reconcile"
                             /\ (op[p].call = "startup" \/ cmd.kind \in Wakes),
           at = "reconcile" => cmd.kind \notin Models /\ op'[p].via = "reconcile"
    PROVE  DcpInv'
<1> USE DEF DcpInv, Still, Others
<1>0. cmd.kind # "none" /\ cmd.id = task.id /\ task.id > 0 /\ cmd.rev = task.rev /\ task.id \in Nat
  BY DEF Queue, NoCmd, DcpTypes, TaskRecord
<1>1. DcpTypes'
  BY DEF DcpTypes, Counts
<1>2. Queue' /\ Evidence' /\ Branch'
  BY DEF Queue, Evidence, Branch
<1>3. Train'
  BY DEF Train, Answers
<1>4. Booting'
  BY DEF Booting, Procs
<1>5. Alone'
  BY DEF Alone, Booting, Runs, Current, Executing
<1>6. \A q \in Procs : Serves(op[q])'
  BY <1>0 DEF Serves, Current, Executing
<1>7. \A q \in Procs : Launches(op[q])'
  BY DEF Launches
<1>8. \A q \in Procs : Orders(op[q])'
  BY DEF Orders, Current
<1>9. \A q \in Procs : Pushes(op[q])'
  BY <1>0 DEF Pushes, Pushing, Current, NewHeadOf, Executing
<1>10. \A q \in Procs : Concludes(op[q])'
  BY DEF Concludes, Current, Answers
<1> QED
  BY <1>1, <1>2, <1>3, <1>4, <1>5, <1>6, <1>7, <1>8, <1>9, <1>10

\* A handler that lists the leased commands.
LEMMA ListStep ==
    ASSUME DcpInv, NEW p \in Procs, List(p)
    PROVE  DcpInv'
<1>1. DcpTypes /\ Still /\ Counts /\ op[p].at = "list" /\ op[p] \in OpRecord /\ cmd \in CmdRecord
  BY Typed DEF DcpInv, List, At, db, world, evidence, Still, Counts, DcpTypes
<1> DEFINE at == Listed(op[p].call)
<1>2. /\ at \in {"drain", "models", "recover", "reconcile"}
      /\ at \in {"recover", "reconcile"} => cmd.status = "leased"
      /\ at = "recover" => op[p].call = "startup" \/ cmd.kind \in Wakes
      /\ at = "reconcile" => cmd.kind \notin Models
  BY <1>1 DEF Listed, CmdRecord
<1>3. ASSUME NEW o \in OpRecord, op' = [op EXCEPT ![p] = o]
      PROVE  Others(p) /\ op'[p] = o
  BY <1>1, <1>3 DEF Others, DcpTypes
<1>4. CASE at \in {"drain", "models"}
  <2> DEFINE o == [Idle EXCEPT !.call = op[p].call, !.at = at]
  <2>1. op' = [op EXCEPT ![p] = o]
    BY <1>4 DEF List
  <2> HIDE DEF at
  <2>2. o \in OpRecord /\ o.at = at /\ o.ev = NoEvent /\ o.call = op[p].call
    BY <1>1, <1>4, IdleIs DEF OpRecord, Places, Idle
  <2> HIDE DEF o
  <2>3. Rests(p)
    BY <1>3, <1>4, <2>1, <2>2 DEF Rests
  <2> QED
    BY <1>1, <2>3, RestStep
<1>5. CASE at = "recover"
  <2> DEFINE o == [Idle EXCEPT !.call = op[p].call, !.at = at, !.via = "list", !.cmd = cmd]
  <2>1. op' = [op EXCEPT ![p] = o]
    BY <1>5 DEF List
  <2> HIDE DEF at
  <2>2. /\ o \in OpRecord /\ o.at = "recover" /\ o.ev = NoEvent /\ o.call = op[p].call
        /\ o.cmd = cmd /\ o.via = "list"
    BY <1>1, <1>5, IdleIs DEF OpRecord, Places, Idle
  <2> HIDE DEF o
  <2>3. Answers(NoEvent)
    BY DEF Answers, NoEvent
  <2> QED
    BY <1>1, <1>2, <1>3, <1>5, <2>1, <2>2, <2>3, TakesStep
<1>6. CASE at = "reconcile"
  <2> DEFINE o == [op[p] EXCEPT !.at = at, !.via = at, !.next = "return", !.cmd = cmd]
  <2>1. op' = [op EXCEPT ![p] = o]
    BY <1>6 DEF List
  <2> HIDE DEF at
  <2>2. /\ o \in OpRecord /\ o.at = "reconcile" /\ o.via = "reconcile" /\ o.ev = op[p].ev
        /\ o.call = op[p].call /\ o.cmd = cmd
    BY <1>1, <1>6 DEF OpRecord, Places
  <2> HIDE DEF o
  <2>3. Answers(op[p].ev)
    BY DEF DcpInv, Concludes
  <2> QED
    BY <1>1, <1>2, <1>3, <1>6, <2>1, <2>2, <2>3, TakesStep
<1> QED
  BY <1>2, <1>4, <1>5, <1>6

\* The end of a call drives the model of the active command.
LEMMA DriveModelsStep ==
    ASSUME DcpInv, NEW p \in Procs, DriveModels(p)
    PROVE  DcpInv'
<1>1. DcpTypes /\ Still /\ op[p].at = "drive" /\ op[p] \in OpRecord /\ cmd \in CmdRecord
  BY Typed DEF DcpInv, DriveModels, At, db, world, evidence, Still, DcpTypes
<1>2. Counts
  BY <1>1 DEF DriveModels, Err, Counts, DcpTypes
<1>3. CASE Go(p, op[p].next)
  <2>1. op[p].next \in {"return", "list"}
    BY <1>1 DEF OpRecord
  <2>2. Rests(p) \/ Turns(p, "list")
    BY <1>1, <1>3, <2>1, HandlerMoves DEF Places
  <2> QED
    BY <1>1, <1>2, <2>2, RestStep, OnwardStep
<1>4. CASE Err(p)
  BY <1>1, <1>2, <1>4, HandlerMoves, RestStep
<1>5. CASE cmd.status = "leased" /\ op' = [op EXCEPT ![p].at = "reserve", ![p].cmd = cmd]
  <2>1. /\ Others(p) /\ op'[p].at = "reserve" /\ op'[p].call = op[p].call /\ op'[p].cmd = cmd
        /\ op'[p].ev = op[p].ev
    BY <1>1, <1>5 DEF Others, DcpTypes, OpRecord, Places
  <2>2. Answers(op[p].ev)
    BY DEF DcpInv, Concludes
  <2> QED
    BY <1>1, <1>2, <1>5, <2>1, <2>2, TakesStep
<1> QED
  BY <1>3, <1>4, <1>5 DEF DriveModels

\* A launch fails: nobody knows whether it was made.
LEMMA LaunchFailsStep ==
    ASSUME DcpInv, NEW p \in Procs, LaunchFails(p)
    PROVE  DcpInv'
<1>1. DcpTypes /\ Still /\ op[p].at # "idle" /\ faults' \in 0..MaxFaults
  BY Counting DEF DcpInv, LaunchFails, At, db, world, evidence, Still
<1>2. Counts
  BY <1>1 DEF LaunchFails, Err, Counts, DcpTypes
<1> QED
  BY <1>1, <1>2, HandlerMoves, RestStep DEF LaunchFails

\* A model that was launched may be over already.
LEMMA ImmediateTerminalStep ==
    ASSUME DcpInv, NEW p \in Procs, ImmediateTerminal(p)
    PROVE  DcpInv'
<1>1. DcpTypes /\ Still /\ Counts /\ op[p].at = "terminal" /\ op[p].next \in {"return", "list"}
  BY Typed DEF DcpInv, ImmediateTerminal, At, db, world, evidence, Still, Counts, DcpTypes, OpRecord
<1>2. \/ Rests(p) \/ Turns(p, "list")
      \/ Turns(p, "complete") /\ (action.id = op[p].cmd.id => action.proc = "ended")
  BY <1>1, HandlerMoves DEF ImmediateTerminal, Places
<1>3. op[p].cmd.id \in 1..task.id
  BY <1>1 DEF DcpInv, Serves
<1> QED
  BY <1>1, <1>2, <1>3, RestStep, OnwardStep

\* Startup looks at the action that was left active.
LEMMA ReconcileDirectModelsStep ==
    ASSUME DcpInv, ReconcileDirectModels
    PROVE  DcpInv'
<1>1. DcpTypes /\ Still /\ op[Boot].at = "recon" /\ Boot \in Procs /\ op[Boot] \in OpRecord
  BY Typed DEF DcpInv, ReconcileDirectModels, At, db, world, evidence, Still, DcpTypes, Procs
<1>2. Counts
  BY <1>1 DEF ReconcileDirectModels, Err, Counts, DcpTypes
<1>3. CASE Go(Boot, "list")
  BY <1>1, <1>2, <1>3, HandlerMoves, OnwardStep DEF Places
<1>4. CASE Err(Boot)
  BY <1>1, <1>2, <1>4, HandlerMoves, RestStep
<1>5. CASE action.status = "running" /\ action.proc = "ended"
           /\ op' = [op EXCEPT ![Boot].at = "complete", ![Boot].next = "list", ![Boot].cmd = cmd]
  <2>1. cmd \in CmdRecord /\ cmd.id \in 1..task.id
    <3>1. cmd.kind \in Models
      BY <1>5 DEF DcpInv, Queue, NoAction
    <3>2. cmd \in CmdRecord /\ cmd.id = task.id /\ task.id > 0 /\ task.id \in Nat
      BY <1>1, <3>1 DEF DcpInv, Queue, DcpTypes, TaskRecord, Models
    <3> QED
      BY <3>2
  <2>2. /\ Others(Boot) /\ op'[Boot].at = "complete" /\ op'[Boot].call = op[Boot].call
        /\ op'[Boot].cmd = cmd /\ op'[Boot].ev = op[Boot].ev
    BY <1>1, <1>5, <2>1 DEF Others, DcpTypes, OpRecord, Places
  <2>3. op[Boot].at # "idle" /\ action.proc = "ended"
    BY <1>1, <1>5
  <2> QED
    BY <1>1, <1>2, <2>1, <2>2, <2>3, CompletesStep
<1> QED
  BY <1>3, <1>4, <1>5 DEF ReconcileDirectModels

\* What a transition makes of the rows.
Advanced(out) ==
    /\ task' \in TaskRecord /\ cmd' \in CmdRecord /\ action' \in ActionRecord /\ adm' \in AdmRecord
    /\ task'.id = task.id + 1
    /\ task'.rev = IF out \in {"produced", "rebased", "published"} THEN task.rev + 1 ELSE task.rev
    /\ task'.head = IF out \in {"produced", "rebased"} THEN task.rev + 1 ELSE task.head
    /\ task'.repairs = IF out = "rejected" THEN task.repairs + 1 ELSE task.repairs
    /\ task'.readmissions = IF out = "moved" THEN task.readmissions + 1 ELSE task.readmissions
    /\ cmd'.kind = "none" => cmd' = NoCmd
    /\ cmd'.kind # "none" =>
         cmd'.id = task.id + 1 /\ cmd'.rev = task'.rev /\ cmd'.status = "pending" /\ ~cmd'.fenced
    /\ cmd'.kind \notin Models => action' = NoAction
    /\ cmd'.kind \in Models =>
         /\ action'.id = task.id + 1 /\ action'.status = "queued" /\ action'.launches = 0
         /\ action'.proc = "none"
    /\ adm'.n = IF out = "admitted" THEN task.readmissions + 1 ELSE adm.n
    /\ adm'.rev = IF out = "admitted" THEN task.rev ELSE adm.rev
    /\ out = "produced" => task'.state = "checks_waiting" /\ cmd'.kind = "publication"
    /\ out = "published" => task'.state = "checks_waiting" /\ cmd'.kind = "checks"
    /\ out = "checked" => task'.state = "review_queued" /\ cmd'.kind = "review"
    /\ out = "approved" => task'.state = "admission_waiting" /\ cmd'.kind = "admission"
    /\ out = "rejected" => task'.state = "repair_queued" /\ cmd'.kind = "repair"
    /\ out = "admitted" => task'.state = "release_waiting" /\ cmd'.kind = "release"
    /\ out = "dispatched" => task'.state = "merge_observing" /\ cmd'.kind = "merge"
    /\ out = "moved" => task'.state = "readmission" /\ cmd'.kind = "readmission"
    /\ out = "rebased" => task'.state = "checks_waiting" /\ cmd'.kind = "checks"
    /\ out = "released" => task'.state = "deployment_waiting" /\ cmd'.kind = "deployment"
    /\ out = "observed" => task'.state = "deployment_observe" /\ cmd'.kind = "verify"
    /\ out = "verified" => task'.state = "deployed" /\ cmd'.kind = "none"

\* The commands an outcome can be of.
Ends == [worker |-> {"produced"}, repair |-> {"produced"}, review |-> {"approved", "rejected"},
         publication |-> {"published"}, checks |-> {"checked"}, admission |-> {"admitted"},
         release |-> {"dispatched"}, merge |-> {"released", "moved"},
         readmission |-> {"rebased"}, deployment |-> {"observed"}, verify |-> {"verified"}]

\* A transition writes what its outcome says.
LEMMA AdvanceRows ==
    ASSUME DcpTypes, NEW out \in Outcomes, NEW ev, Advance(out, ev),
           out = "rejected" => task.repairs = 0,
           out = "moved" => task.readmissions < MaxReadmissions
    PROVE  Advanced(out)
<1> DEFINE rev == IF out \in NewRevision THEN task.rev + 1 ELSE task.rev
           kind == Outcome[out].kind
<1>0. /\ task \in TaskRecord /\ adm \in AdmRecord /\ MaxReadmissions \in Nat
      /\ MaxRecoveries \in Nat
      /\ task.id \in Nat /\ task.rev \in Nat /\ task.head \in Nat /\ task.repairs \in 0..1
      /\ task.readmissions \in 0..MaxReadmissions
  BY DcpV2Assumption DEF DcpTypes, TaskRecord
<1>1. /\ kind \in Kinds /\ Outcome[out].state \in States
      /\ out = "produced" => Outcome[out].state = "checks_waiting" /\ kind = "publication"
      /\ out = "published" => Outcome[out].state = "checks_waiting" /\ kind = "checks"
      /\ out = "checked" => Outcome[out].state = "review_queued" /\ kind = "review"
      /\ out = "approved" => Outcome[out].state = "admission_waiting" /\ kind = "admission"
      /\ out = "rejected" => Outcome[out].state = "repair_queued" /\ kind = "repair"
      /\ out = "admitted" => Outcome[out].state = "release_waiting" /\ kind = "release"
      /\ out = "dispatched" => Outcome[out].state = "merge_observing" /\ kind = "merge"
      /\ out = "moved" => Outcome[out].state = "readmission" /\ kind = "readmission"
      /\ out = "rebased" => Outcome[out].state = "checks_waiting" /\ kind = "checks"
      /\ out = "released" => Outcome[out].state = "deployment_waiting" /\ kind = "deployment"
      /\ out = "observed" => Outcome[out].state = "deployment_observe" /\ kind = "verify"
      /\ out = "verified" => Outcome[out].state = "deployed" /\ kind = "none"
  BY DEF Outcomes, Outcome, States, Kinds, Models, Wakes, Effects
<1>2. /\ rev \in Nat
      /\ rev = IF out \in {"produced", "rebased", "published"} THEN task.rev + 1 ELSE task.rev
  BY <1>0 DEF NewRevision, NewHead
<1>3. /\ task' \in TaskRecord /\ task'.id = task.id + 1 /\ task'.state = Outcome[out].state
      /\ task'.rev = rev
      /\ task'.head = IF out \in {"produced", "rebased"} THEN task.rev + 1 ELSE task.head
      /\ task'.repairs = IF out = "rejected" THEN task.repairs + 1 ELSE task.repairs
      /\ task'.readmissions = IF out = "moved" THEN task.readmissions + 1 ELSE task.readmissions
  <2> DEFINE state == Outcome[out].state
             head == IF out \in NewHead THEN rev ELSE task.head
             repairs == IF out = "rejected" THEN task.repairs + 1 ELSE task.repairs
             readmissions == IF out = "moved" THEN task.readmissions + 1 ELSE task.readmissions
  <2>1. task' = [task EXCEPT !.state = state, !.id = task.id + 1, !.rev = rev, !.head = head,
                             !.repairs = repairs, !.readmissions = readmissions]
    BY <1>0 DEF Advance, TaskRecord
  <2>2. /\ state \in States /\ repairs \in 0..1 /\ readmissions \in 0..MaxReadmissions
        /\ head \in Nat
        /\ head = IF out \in {"produced", "rebased"} THEN task.rev + 1 ELSE task.head
    BY <1>0, <1>1, <1>2 DEF NewHead
  <2> HIDE DEF state, head, repairs, readmissions, rev
  <2>3. /\ task' \in TaskRecord /\ task'.id = task.id + 1 /\ task'.state = state /\ task'.rev = rev
        /\ task'.head = head /\ task'.repairs = repairs /\ task'.readmissions = readmissions
    <3> DEFINE s == [task EXCEPT !.state = state, !.id = task.id + 1, !.rev = rev]
    <3>0. task \in TaskRecord /\ state \in States /\ rev \in Nat /\ task.id + 1 \in Nat
      BY <1>0, <1>2, <2>2
    <3>1. s \in TaskRecord /\ s.id = task.id + 1 /\ s.state = state /\ s.rev = rev
      BY <3>0 DEF TaskRecord
    <3>2. task' = [s EXCEPT !.head = head, !.repairs = repairs, !.readmissions = readmissions]
      BY <2>1
    <3> HIDE DEF s
    <3> QED
      BY <2>2, <3>1, <3>2 DEF TaskRecord
  <2> QED
    BY <2>2, <2>3 DEF state, repairs, readmissions
<1>4. cmd' = IF kind = "none" THEN NoCmd ELSE Pending(task.id + 1, kind, rev)
  BY DEF Advance
<1>5. action' = IF kind \in Models THEN Queued(task.id + 1) ELSE NoAction
  BY DEF Advance
<1>6. adm' = Admission(out)
  BY DEF Advance
<1> HIDE DEF rev, kind
<1>7. /\ cmd' \in CmdRecord /\ cmd'.kind = kind /\ (kind = "none" => cmd' = NoCmd)
      /\ kind # "none" =>
           cmd'.id = task.id + 1 /\ cmd'.rev = rev /\ cmd'.status = "pending" /\ ~cmd'.fenced
  <2>1. CASE kind = "none"
    BY <1>4, <2>1, IdleIs DEF NoCmd
  <2>2. CASE kind # "none"
    BY <1>0, <1>1, <1>2, <1>4, <2>2, PendingIs
  <2> QED
    BY <2>1, <2>2
<1>8. /\ action' \in ActionRecord /\ (kind \notin Models => action' = NoAction)
      /\ kind \in Models => /\ action'.id = task.id + 1 /\ action'.status = "queued"
                            /\ action'.launches = 0 /\ action'.proc = "none"
  <2>1. CASE kind \notin Models
    BY <1>0, <1>5, <2>1, QueuedIs
  <2>2. CASE kind \in Models
    BY <1>0, <1>5, <2>2, QueuedIs
  <2> QED
    BY <2>1, <2>2
<1>9. /\ adm' \in AdmRecord
      /\ adm'.n = IF out = "admitted" THEN task.readmissions + 1 ELSE adm.n
      /\ adm'.rev = IF out = "admitted" THEN task.rev ELSE adm.rev
  <2>1. CASE out = "admitted"
    BY <1>0, <1>6, <2>1 DEF Admission, AdmRecord
  <2>2. CASE out = "released"
    BY <1>0, <1>6, <2>2 DEF Admission, AdmRecord
  <2>3. CASE out = "moved"
    BY <1>0, <1>6, <2>3 DEF Admission, AdmRecord
  <2>4. CASE out \notin {"admitted", "released", "moved"}
    BY <1>0, <1>6, <2>4 DEF Admission, AdmRecord
  <2> QED
    BY <2>1, <2>2, <2>3, <2>4
<1> QED
  BY <1>1, <1>2, <1>3, <1>7, <1>8, <1>9 DEF Advanced

\* Nobody orders the release or launches the model of the active command.
Calm ==
    \A q \in Procs :
        /\ ~(op[q].at = "effect" /\ op[q].cmd.kind = "release")
        /\ op[q].at \notin {"launch", "start"}

\* A handler that ends its command is alone with it.
LEMMA CalmAtTheEnd ==
    ASSUME DcpInv, NEW p \in Procs, op[p].at \in {"apply", "fail"}, Holds(op[p].cmd)
    PROVE  /\ Calm /\ Current(op[p]) /\ cmd.kind = op[p].cmd.kind /\ cmd.rev = op[p].cmd.rev
           /\ cmd.kind \notin Models \cup {"none"} /\ cmd.status = "leased" /\ task.rev = cmd.rev
<1> USE DEF DcpInv
<1>1. cmd.status = "leased" /\ cmd.id = op[p].cmd.id /\ cmd.kind # "none" /\ Current(op[p])
  BY DEF Holds, Queue, NoCmd, Current
<1>2. /\ cmd.kind = op[p].cmd.kind /\ cmd.rev = op[p].cmd.rev /\ cmd.kind \notin Models
      /\ task.rev = cmd.rev
  BY <1>1 DEF Serves, Executing, Queue
<1>3. ASSUME NEW q \in Procs, op[q].at = "effect", op[q].cmd.kind = "release"
      PROVE  FALSE
  <2>1. /\ Current(op[q]) /\ op[q].via # "reconcile" /\ cmd.kind = "release" /\ sent[adm.n] = 0
    BY <1>3 DEF Orders, Serves, Executing
  <2>2. Runs(q)
    BY <1>3, <2>1 DEF Runs, Executing, Wakes
  <2>3. op[p].via = "reconcile"
    BY <1>1, <1>2, <1>3, <2>1, <2>2 DEF Alone, Runs, Executing, Wakes
  <2>4. sent[adm.n] = 1
    <3>1. Orders(op[p]) /\ op[p].cmd.kind = "release"
      BY <1>2, <2>1
    <3> QED
      BY <1>1, <2>3, <3>1 DEF Orders
  <2> QED
    BY <2>1, <2>4
<1>4. ASSUME NEW q \in Procs, op[q].at \in {"launch", "start"}
      PROVE  FALSE
  BY <1>2, <1>4 DEF Launches, Queue, NoAction
<1> QED
  BY <1>1, <1>2, <1>3, <1>4 DEF Calm

\* So is the one that completes a model that runs.
LEMMA CalmAfterRunning ==
    ASSUME DcpInv, action.status = "running"
    PROVE  Calm /\ cmd.kind \in Models
<1> USE DEF DcpInv
<1>1. cmd.kind \in Models
  BY DEF Queue, NoAction
<1> QED
  BY <1>1 DEF Calm, Launches, Orders, Serves, Executing, Models

\* What holds of the rows and of the world when a command ends by an outcome.
Proper(out, ev) ==
    /\ out \in Outcomes /\ ev \in EventRecord
    /\ cmd.kind # "none" /\ out \in Ends[cmd.kind]
    /\ out = "published" => branch = task.rev
    /\ out = "rebased" => branch = task.rev + 1
    /\ out = "dispatched" => sent[adm.n] = 1
    /\ out = "moved" => task.readmissions < MaxReadmissions
    /\ out = "rejected" => task.repairs = 0
    /\ out = "checked" => ev.rev = task.rev
    /\ out = "released" =>
         run[adm.n] = "merged" /\ ev \in events /\ ev.kind = "merge" /\ ev.rev = task.rev

\* The state a command ends in.
LEMMA Endings ==
    ASSUME DcpInv, NEW out, NEW ev, Proper(out, ev)
    PROVE  /\ out = "produced" =>
                task.state \in {"worker_queued", "repair_queued"} /\ cmd.kind \in {"worker", "repair"}
           /\ out = "published" => task.state = "checks_waiting" /\ cmd.kind = "publication"
           /\ out = "checked" => task.state = "checks_waiting" /\ cmd.kind = "checks"
           /\ out \in {"approved", "rejected"} => task.state = "review_queued" /\ cmd.kind = "review"
           /\ out = "admitted" => task.state = "admission_waiting" /\ cmd.kind = "admission"
           /\ out = "dispatched" => task.state = "release_waiting" /\ cmd.kind = "release"
           /\ out \in {"moved", "released"} => task.state = "merge_observing" /\ cmd.kind = "merge"
           /\ out = "rebased" => task.state = "readmission" /\ cmd.kind = "readmission"
           /\ out = "observed" => task.state = "deployment_waiting" /\ cmd.kind = "deployment"
           /\ out = "verified" => task.state = "deployment_observe" /\ cmd.kind = "verify"
<1>1. /\ task.state \in States /\ cmd.kind \in Kinds /\ cmd.kind \in Stage[task.state]
      /\ cmd.kind # "none" /\ out \in Ends[cmd.kind]
  BY DEF DcpInv, DcpTypes, TaskRecord, CmdRecord, Queue, Proper
<1> QED
  BY <1>1 DEF Stage, States, Ends, Kinds, Models, Wakes, Effects

\* A command ends by an outcome that holds of the rows and of the world; the
\* command that follows has a number no handler has, so that each of them finds
\* its own to be over.
LEMMA AdvanceStep ==
    ASSUME DcpInv, NEW p \in Procs, op[p].at # "idle", Rests(p), Calm,
           NEW out, NEW ev, Proper(out, ev), Advance(out, ev),
           UNCHANGED <<branch, tree, sent, run, crashes, faults>>
    PROVE  DcpInv'
<1> USE DEF DcpInv, Rests, Others
<1>0. /\ out \in Outcomes /\ ev \in EventRecord
      /\ cmd.kind # "none" /\ out \in Ends[cmd.kind]
      /\ out = "published" => branch = task.rev
      /\ out = "rebased" => branch = task.rev + 1
      /\ out = "dispatched" => sent[adm.n] = 1
      /\ out = "moved" => task.readmissions < MaxReadmissions
      /\ out = "rejected" => task.repairs = 0
      /\ out = "checked" => ev.rev = task.rev
      /\ out = "released" =>
           run[adm.n] = "merged" /\ ev \in events /\ ev.kind = "merge" /\ ev.rev = task.rev
  BY DEF Proper
<1>1. Advanced(out)
  BY <1>0, AdvanceRows
<1>2. /\ task \in TaskRecord /\ cmd \in CmdRecord /\ adm \in AdmRecord /\ MaxReadmissions \in Nat
      /\ task.id \in Nat /\ task.rev \in Nat /\ task.head \in Nat /\ task.head <= task.rev
      /\ task.id > 0 /\ task.rev > 0 /\ adm.n \in Nat /\ adm.rev \in Nat /\ adm.rev <= task.rev
      /\ task.readmissions \in Nat /\ branch \in Nat
      /\ cmd.id = task.id /\ cmd.rev = task.rev
  BY <1>0, DcpV2Assumption DEF DcpTypes, TaskRecord, CmdRecord, AdmRecord, Queue, Train
<1>3. /\ out = "produced" => task.state \in {"worker_queued", "repair_queued"}
      /\ out = "published" => task.state = "checks_waiting" /\ cmd.kind = "publication"
      /\ out = "checked" => task.state = "checks_waiting" /\ cmd.kind = "checks"
      /\ out \in {"approved", "rejected"} => task.state = "review_queued" /\ cmd.kind = "review"
      /\ out = "admitted" => task.state = "admission_waiting" /\ cmd.kind = "admission"
      /\ out = "dispatched" => task.state = "release_waiting" /\ cmd.kind = "release"
      /\ out \in {"moved", "released"} => task.state = "merge_observing" /\ cmd.kind = "merge"
      /\ out = "rebased" => task.state = "readmission" /\ cmd.kind = "readmission"
      /\ out = "observed" => task.state = "deployment_waiting" /\ cmd.kind = "deployment"
      /\ out = "verified" => task.state = "deployment_observe" /\ cmd.kind = "verify"
      /\ out = "produced" => cmd.kind \in {"worker", "repair"}
  BY Endings
<1>4. /\ task'.id = task.id + 1 /\ task'.rev >= task.rev /\ task'.head >= task.head
      /\ task'.rev \in Nat /\ task'.head \in Nat /\ task'.head <= task'.rev
      /\ adm'.rev >= adm.rev /\ adm'.rev <= task'.rev
      /\ cmd'.kind = "publication" => out = "produced"
      /\ out = "produced" => task'.head = task.rev + 1
  BY <1>0, <1>1, <1>2, <1>3 DEF Advanced, Outcomes
<1>5. /\ events' = events \ {ev} /\ applied' = applied \cup (events \cap {ev})
      /\ passed' = passed \cup (IF out = "checked" THEN {ev.rev} ELSE {})
      /\ approved' = approved \cup (IF out = "approved" THEN {task.rev} ELSE {})
      /\ excuse' = FALSE /\ shipped' = shipped
  BY DEF Advance
<1>6. ASSUME NEW q \in Procs,
             op'[q].at \in Executing \cup {"recover", "reconcile", "reserve", "launch", "start",
                                           "terminal", "complete"}
      PROVE  /\ q # p /\ op'[q] = op[q] /\ op[q].cmd.id \in 1..task.id
             /\ op[q].cmd.id # task'.id /\ op[q].cmd.id # action'.id
  <2>1. q # p /\ op'[q] = op[q] /\ op[q].cmd.id \in 1..task.id
    BY <1>6 DEF Serves, Executing
  <2>2. action'.id \in {0, task.id + 1}
    BY <1>1 DEF Advanced, NoAction
  <2> QED
    BY <1>2, <1>4, <2>1, <2>2
<1>7. ASSUME NEW e, Answers(e), e \in EventRecord
      PROVE  Answers(e)'
  <2>1. e.rev \in Nat /\ e.n \in Nat
    BY <1>7 DEF EventRecord
  <2>2. CASE out = "admitted"
    <3>1. adm'.rev = task.rev /\ adm.rev < task.rev
      BY <1>1, <1>3, <2>2 DEF Advanced, Train, Early
    <3> QED
      BY <1>2, <1>4, <1>7, <2>1, <3>1 DEF Answers
  <2>3. CASE out # "admitted"
    <3>1. adm'.rev = adm.rev /\ adm'.n = adm.n
      BY <1>1, <2>3 DEF Advanced
    <3> QED
      BY <1>2, <1>4, <1>7, <2>1, <3>1 DEF Answers
  <2> QED
    BY <2>2, <2>3
<1> USE <1>0, <1>1, <1>2, <1>3, <1>4, <1>5
<1>11. DcpTypes'
  BY DEF DcpTypes, Advanced
<1>12. Queue'
  BY DEF Queue, Advanced, Stage, Outcomes, States, Models, NoCmd
<1>13. Train'
  <2>1. /\ adm'.rev <= task'.rev /\ task'.state # "absent"
        /\ task'.state \in Early => adm'.n = task'.readmissions /\ adm'.rev < task'.rev
        /\ task'.state = "readmission" => adm'.n = task'.readmissions /\ adm'.rev = task'.rev
        /\ task'.state \in Merging \cup {"release_waiting"} =>
             adm'.n = task'.readmissions + 1 /\ adm'.rev = task'.rev
    BY DEF Advanced, Train, Early, Merging, Outcomes
  <2>2. /\ task'.state \in Merging => sent[adm'.n] = 1
        /\ out = "admitted" => adm'.n = adm.n + 1 /\ adm'.n \in Admissions
        /\ out # "admitted" => adm'.n = adm.n
    BY DEF Advanced, Train, Early, Merging, Outcomes, Admissions, AdmRecord
  <2>3. \A n \in Admissions : (n > adm'.n => sent[n] = 0) /\ (sent[n] = 0 <=> run[n] = "none")
    BY <2>2 DEF Train, Admissions
  <2>4. adm'.n > 0 /\ sent[adm'.n] = 1 => adm'.rev \in shipped
    <3>1. CASE out = "admitted"
      BY <2>2, <3>1 DEF Train
    <3>2. CASE out # "admitted"
      BY <3>2 DEF Train, Advanced
    <3> QED
      BY <3>1, <3>2
  <2>7. cmd'.kind = "release" /\ ~cmd'.fenced => sent[adm'.n] = 0
    BY <2>2 DEF Train, Advanced, Outcomes
  <2>5. \A e \in events' \cup applied' : e.kind # "none" /\ Answers(e)'
    BY <1>7 DEF Train, DcpTypes
  <2>6. task'.state \in Released =>
          /\ run[adm'.n] = "merged"
          /\ [kind |-> "merge", rev |-> task'.rev, n |-> adm'.n] \in applied' \ events'
    <3>1. CASE out = "released"
      <4>1. Answers(ev) /\ adm.rev = task.rev
        BY <3>1 DEF Train, Merging
      <4>2. ev.n = adm.n /\ adm'.n = adm.n /\ task'.rev = task.rev
        BY <3>1, <4>1 DEF Answers, Advanced
      <4>3. ev = [kind |-> "merge", rev |-> task'.rev, n |-> adm'.n]
        BY <3>1, <4>2 DEF EventRecord
      <4> QED
        BY <3>1, <4>2, <4>3
    <3>2. CASE out \in {"observed", "verified"}
      <4>1. adm'.n = adm.n /\ task'.rev = task.rev /\ task.state \in Released
        BY <3>2 DEF Advanced, Released
      <4> QED
        BY <4>1 DEF Train
    <3>3. CASE out \notin {"released", "observed", "verified"}
      BY <3>3 DEF Advanced, Released, Outcomes
    <3> QED
      BY <3>1, <3>2, <3>3
  <2> QED
    BY <2>1, <2>2, <2>3, <2>4, <2>5, <2>6, <2>7 DEF Train
<1>14. Evidence'
  BY DEF Evidence, Advanced, Outcomes
<1>15. Branch'
  BY DEF Branch, Advanced, Outcomes
<1>16. Booting'
  BY DEF Booting, Procs
<1>17. Alone'
  BY <1>6 DEF Alone, Runs, Current, Calm
<1>18. \A q \in Procs : Serves(op[q])'
  BY <1>6 DEF Serves, Current, Executing
<1>19. \A q \in Procs : Launches(op[q])'
  BY <1>6 DEF Launches, Calm
<1>20. \A q \in Procs : Orders(op[q])'
  BY <1>6 DEF Orders, Current, Calm, Executing
<1>21. \A q \in Procs : Pushes(op[q])'
  <2>1. SUFFICES ASSUME NEW q \in Procs, Pushing(op'[q])
                 PROVE  /\ q # p /\ op'[q] = op[q] /\ op[q].cmd.id # task'.id
                        /\ NewHeadOf(op[q].cmd) <= task'.head
                        /\ cmd'.kind = "publication" => NewHeadOf(op[q].cmd) < task'.head
    BY <1>6 DEF Pushes, Pushing, Current, NewHeadOf, Executing
  <2>2. /\ q # p /\ op'[q] = op[q] /\ op[q].cmd.id # task'.id /\ Pushing(op[q])
        /\ NewHeadOf(op[q].cmd) \in Nat
    BY <1>6, <2>1 DEF Pushing, DcpTypes, OpRecord, CmdRecord, NewHeadOf
  <2>3. CASE ~Current(op[q])
    <3>1. task.state # "failed"
      BY DEF Queue, Stage
    <3> QED
      BY <2>2, <2>3, <3>1 DEF Pushes
  <2>4. CASE Current(op[q])
    <3>1. cmd.kind = op[q].cmd.kind /\ cmd.rev = op[q].cmd.rev
      BY <2>2, <2>4 DEF Serves, Pushing
    <3>2. cmd.kind \in {"publication", "readmission"}
      BY <2>2, <3>1 DEF Pushing
    <3>3. /\ cmd.kind = "publication" => out = "published" /\ task.head = task.rev
          /\ cmd.kind = "readmission" => out = "rebased" /\ task'.head = task.rev + 1
      BY DEF Ends, Branch, Advanced
    <3> QED
      BY <2>2, <3>1, <3>2, <3>3 DEF NewHeadOf
  <2> QED
    BY <2>2, <2>3, <2>4
<1>22. \A q \in Procs : Concludes(op[q])'
  <2>1. ASSUME NEW q \in Procs
        PROVE  Answers(op[q].ev)' /\ (op'[q].at = "record" => op'[q].ev.kind # "none")
    <3>1. CASE q = p
      BY <3>1 DEF Answers, NoEvent
    <3>2. CASE q # p
      <4>1. op'[q] = op[q] /\ op[q].ev \in EventRecord /\ Concludes(op[q])
        BY <3>2 DEF DcpTypes, OpRecord
      <4> QED
        BY <1>7, <4>1 DEF Concludes
    <3> QED
      BY <3>1, <3>2
  <2>2. ASSUME NEW q \in Procs, op'[q].at = "apply"
        PROVE  op'[q] = op[q] /\ op[q].cmd.id # task'.id /\ Concludes(op[q])
    BY <1>6, <2>2 DEF Executing
  <2> HIDE <1>0, <1>1, <1>2, <1>3, <1>4, <1>5
  <2> QED
    BY <2>1, <2>2 DEF Concludes, Current
<1> QED
  BY <1>11, <1>12, <1>13, <1>14, <1>15, <1>16, <1>17, <1>18, <1>19, <1>20, <1>21, <1>22

\* A task fails: nothing of it is asked of the branch or the train any more.
LEMMA FailStep ==
    ASSUME DcpInv, NEW p \in Procs, op[p].at # "idle", Rests(p), Calm,
           NEW cause \in {"transition_failed", "model_failed", "processor_failed",
                          "effect_reconciliation_failed"},
           FailTask(cause), excuse' \in BOOLEAN,
           UNCHANGED <<branch, tree, sent, run, crashes, faults>>
    PROVE  DcpInv'
<1> USE DEF DcpInv, Rests, Others
<1>1. /\ task' = [task EXCEPT !.state = "failed", !.id = task.id + 1, !.cause = cause]
      /\ cmd' = NoCmd /\ action' = NoAction /\ adm' = adm /\ events' = events /\ applied' = applied
      /\ passed' = passed /\ approved' = approved /\ shipped' = shipped
      /\ task \in TaskRecord /\ task.id \in Nat
  BY DEF FailTask, evidence, DcpTypes, TaskRecord
<1>2. /\ task' \in TaskRecord /\ task'.state = "failed" /\ task'.id = task.id + 1
      /\ task'.rev = task.rev /\ task'.head = task.head /\ task'.readmissions = task.readmissions
  <2>1. "failed" \in States /\ task.id + 1 \in Nat
    BY <1>1 DEF States
  <2> QED
    BY <1>1, <2>1 DEF TaskRecord
<1>3. /\ NoCmd \in CmdRecord /\ NoAction \in ActionRecord /\ NoCmd.kind = "none"
      /\ NoCmd.status = "none" /\ NoCmd.id = 0 /\ NoAction.id = 0
  BY IdleIs, QueuedIs DEF NoCmd, NoAction
<1>4. ASSUME NEW q \in Procs,
             op'[q].at \in Executing \cup {"recover", "reconcile", "reserve", "launch", "start",
                                           "terminal", "complete"}
      PROVE  /\ q # p /\ op'[q] = op[q] /\ op[q].cmd.id \in 1..task.id
             /\ op[q].cmd.id # task'.id /\ op[q].cmd.id # action'.id
  <2>1. q # p /\ op'[q] = op[q] /\ op[q].cmd.id \in 1..task.id
    BY <1>4 DEF Serves, Executing
  <2> QED
    BY <1>1, <1>2, <1>3, <2>1
<1>5. ASSUME NEW e
      PROVE  Answers(e)' <=> Answers(e)
  BY <1>1, <1>2 DEF Answers
<1>11. DcpTypes'
  BY <1>1, <1>2, <1>3 DEF DcpTypes
<1>12. Queue'
  BY <1>1, <1>2, <1>3 DEF Queue, Stage, Models
<1>13. Train'
  BY <1>1, <1>2, <1>3, <1>5 DEF Train, Early, Merging, Released
<1>14. Evidence' /\ Branch'
  BY <1>1, <1>2, <1>3 DEF Evidence, Branch
<1>16. Booting'
  BY DEF Booting, Procs
<1>17. Alone'
  BY <1>4 DEF Alone, Runs, Current, Calm
<1>18. \A q \in Procs : Serves(op[q])'
  BY <1>1, <1>2, <1>4 DEF Serves, Current, Executing, DcpTypes, OpRecord, CmdRecord
<1>19. \A q \in Procs : Launches(op[q])'
  BY <1>4 DEF Launches, Calm
<1>20. \A q \in Procs : Orders(op[q])'
  BY <1>4 DEF Orders, Current, Calm, Executing
<1>21. \A q \in Procs : Pushes(op[q])'
  BY <1>2, <1>4 DEF Pushes, Pushing, Current, Executing
<1>22. \A q \in Procs : Concludes(op[q])'
  <2>1. ASSUME NEW q \in Procs
        PROVE  Answers(op[q].ev)' /\ (op'[q].at = "record" => op'[q].ev.kind # "none")
    <3>1. CASE q = p
      BY <3>1 DEF Answers, NoEvent
    <3>2. CASE q # p
      <4>1. op'[q] = op[q] /\ Concludes(op[q])
        BY <3>2
      <4>2. Answers(op'[q].ev)
        BY <4>1 DEF Concludes
      <4>3. Answers(op[q].ev)'
        BY <1>1, <1>2, <4>2 DEF Answers
      <4> QED
        BY <4>1, <4>3 DEF Concludes
    <3> QED
      BY <3>1, <3>2
  <2>2. ASSUME NEW q \in Procs, op'[q].at = "apply"
        PROVE  op'[q] = op[q] /\ op[q].cmd.id # task'.id /\ Concludes(op[q])
    BY <1>4, <2>2 DEF Executing
  <2> QED
    BY <2>1, <2>2 DEF Concludes, Current
<1> QED
  BY <1>11, <1>12, <1>13, <1>14, <1>16, <1>17, <1>18, <1>19, <1>20, <1>21, <1>22

\* The outcome a handler applies holds, while it has the lease and the budget.
LEMMA OutcomeHolds ==
    ASSUME DcpInv, NEW p \in Procs, op[p].at = "apply", Holds(op[p].cmd),
           ~(op[p].out = "moved" /\ task.readmissions = MaxReadmissions)
    PROVE  Calm /\ Proper(op[p].out, op[p].ev)
<1>1. DcpTypes /\ op[p] \in OpRecord
  BY Typed DEF DcpInv
<1>2. /\ Calm /\ Current(op[p]) /\ cmd.kind = op[p].cmd.kind /\ cmd.rev = op[p].cmd.rev
      /\ cmd.kind \notin Models \cup {"none"} /\ task.rev = cmd.rev
  BY CalmAtTheEnd
<1>3. Concludes(op[p]) /\ Pushes(op[p]) /\ Orders(op[p])
  BY DEF DcpInv
<1>4. /\ op[p].out \in OutcomeOf[cmd.kind] /\ op[p].ev \in EventRecord
      /\ cmd.kind \in Kinds \ (Models \cup {"none"}) /\ task.readmissions \in 0..MaxReadmissions
      /\ MaxReadmissions \in Nat
  BY <1>1, <1>2, <1>3, DcpV2Assumption DEF Concludes, OpRecord, DcpTypes, CmdRecord, TaskRecord
<1>5. /\ op[p].out \in Ends[cmd.kind] /\ op[p].out \in Outcomes
      /\ op[p].out \notin {"rejected", "produced"}
  BY <1>4 DEF OutcomeOf, Ends, Kinds, Models, Wakes, Effects, Outcomes
<1>6. /\ op[p].out = "published" => cmd.kind = "publication"
      /\ op[p].out = "rebased" => cmd.kind = "readmission"
      /\ op[p].out = "dispatched" => cmd.kind = "release"
      /\ op[p].out = "checked" => cmd.kind = "checks"
      /\ op[p].out = "released" => cmd.kind = "merge"
  BY <1>4 DEF OutcomeOf, Kinds, Models, Wakes, Effects
<1>7. /\ op[p].out = "published" => branch = task.rev
      /\ op[p].out = "rebased" => branch = task.rev + 1
      /\ op[p].out = "dispatched" => sent[adm.n] = 1
      /\ op[p].out = "checked" => op[p].ev.rev = task.rev
      /\ op[p].out = "moved" => task.readmissions < MaxReadmissions
      /\ op[p].out = "released" => /\ run[adm.n] = "merged" /\ op[p].ev \in events
                                   /\ op[p].ev.kind = "merge" /\ op[p].ev.rev = task.rev
  BY <1>2, <1>3, <1>4, <1>6 DEF Concludes, Pushes, Orders
<1> QED
  BY <1>2, <1>4, <1>5, <1>7 DEF Proper

\* The verdict of a model that has ended holds, if it can be used.
LEMMA VerdictHolds ==
    ASSUME DcpInv, action.status = "running", action.proc = "ended", ~Unusable,
           action.verdict # "failed"
    PROVE  Proper(action.verdict, NoEvent)
<1>1. cmd.kind \in Models /\ action.verdict \in Verdicts[cmd.kind]
  BY CalmAfterRunning DEF DcpInv, Queue
<1>2. /\ action.verdict \in Ends[cmd.kind] /\ cmd.kind # "none" /\ action.verdict \in Outcomes
      /\ action.verdict \in {"produced", "approved", "rejected"}
  BY <1>1 DEF Verdicts, Models, Ends, Outcomes, Unusable
<1>3. action.verdict = "rejected" => task.repairs = 0
  BY DEF Unusable
<1> QED
  BY <1>2, <1>3, IdleIs DEF Proper

\* A handler applies its outcome, fails the task or finds its lease lost.
LEMMA ApplyOutcomeStep ==
    ASSUME DcpInv, NEW p \in Procs, ApplyOutcome(p)
    PROVE  DcpInv'
<1> DEFINE o == op[p]
<1>1. /\ DcpTypes /\ op[p].at = "apply" /\ op[p] \in OpRecord
      /\ op[p].via \in {"drain", "list", "reconcile"}
      /\ UNCHANGED <<branch, tree, sent, run, crashes, faults>>
  BY Typed DEF DcpInv, ApplyOutcome, At, world
<1>2. CASE ~Holds(o.cmd) /\ Err(p) /\ UNCHANGED <<db, evidence>>
  <2>1. Still /\ Counts
    BY <1>1, <1>2 DEF Still, Counts, db, evidence, Err, DcpTypes
  <2> QED
    BY <1>1, <1>2, <2>1, HandlerMoves, RestStep
<1>3. CASE Holds(o.cmd) /\ FailTask("transition_failed") /\ Err(p)
  <2>1. Rests(p) /\ excuse' \in BOOLEAN
    BY <1>1, <1>3, HandlerMoves DEF Err
  <2>2. Calm
    BY <1>1, <1>3, CalmAtTheEnd
  <2> QED
    BY <1>1, <1>3, <2>1, <2>2, FailStep
<1>4. CASE /\ Holds(o.cmd) /\ ~(o.out = "moved" /\ task.readmissions = MaxReadmissions)
           /\ Advance(o.out, o.ev) /\ Go(p, Continue(o, o.out \in Pauses))
  <2> DEFINE pause == o.out \in Pauses
  <2>1. pause \in BOOLEAN /\ Go(p, Continue(op[p], pause))
    BY <1>4
  <2> HIDE DEF pause
  <2>2. Rests(p)
    BY <1>1, <2>1, Continues, HandlerMoves
  <2>3. Calm /\ Proper(op[p].out, op[p].ev)
    BY <1>1, <1>4, OutcomeHolds
  <2> QED
    BY <1>1, <1>4, <2>2, <2>3, AdvanceStep
<1> QED
  BY <1>2, <1>3, <1>4 DEF ApplyOutcome

\* A handler whose command failed fails the task, or finds its lease lost.
LEMMA FailClosedStep ==
    ASSUME DcpInv, NEW p \in Procs, FailClosed(p)
    PROVE  DcpInv'
<1> DEFINE o == op[p]
<1>1. /\ DcpTypes /\ op[p].at = "fail" /\ op[p].via \in {"drain", "list", "reconcile"}
      /\ UNCHANGED <<branch, tree, sent, run, crashes, faults>>
  BY Typed DEF DcpInv, FailClosed, At, world
<1>2. CASE ~Holds(o.cmd) /\ Err(p) /\ UNCHANGED <<db, evidence>>
  <2>1. Still /\ Counts
    BY <1>1, <1>2 DEF Still, Counts, db, evidence, Err, DcpTypes
  <2> QED
    BY <1>1, <1>2, <2>1, HandlerMoves, RestStep
<1>3. ASSUME NEW cause \in {"effect_reconciliation_failed", "processor_failed"},
             Holds(o.cmd), FailTask(cause), Go(p, Continue(o, FALSE)), UNCHANGED excuse
      PROVE  DcpInv'
  <2>1. Rests(p) /\ excuse' \in BOOLEAN
    BY <1>1, <1>3, Continues, HandlerMoves DEF DcpTypes
  <2>2. Calm
    BY <1>1, <1>3, CalmAtTheEnd
  <2> QED
    BY <1>1, <1>3, <2>1, <2>2, FailStep
<1> QED
  BY <1>2, <1>3 DEF FailClosed

\* The artifact of a model is processed: once, and only if it can be used.
LEMMA CompleteDirectModelStep ==
    ASSUME DcpInv, NEW p \in Procs, CompleteDirectModel(p)
    PROVE  DcpInv'
<1>1. /\ DcpTypes /\ op[p].at = "complete" /\ op[p].next \in {"return", "list"}
      /\ UNCHANGED <<branch, tree, sent, run, crashes, faults>>
  BY Typed DEF DcpInv, CompleteDirectModel, At, world, OpRecord
<1>2. CASE /\ Go(p, IF op[p].call = "exit" THEN "return" ELSE op[p].next)
           /\ UNCHANGED <<db, evidence, excuse>>
  <2>1. Still /\ Counts
    BY <1>1, <1>2 DEF Still, Counts, db, evidence, DcpTypes
  <2>2. Rests(p) \/ Turns(p, "list")
    BY <1>1, <1>2, HandlerMoves DEF Places
  <2> QED
    BY <1>1, <2>1, <2>2, RestStep, OnwardStep
<1>3. CASE Err(p) /\ UNCHANGED <<db, evidence>>
  <2>1. Still /\ Counts
    BY <1>1, <1>3 DEF Still, Counts, db, evidence, Err, DcpTypes
  <2> QED
    BY <1>1, <1>3, <2>1, HandlerMoves, RestStep
<1>4. CASE action.id = op[p].cmd.id /\ action.status = "running" /\ ~Unusable /\ Go(p, "drain")
  <2>1. Rests(p)
    BY <1>1, <1>4, HandlerMoves
  <2>2. Calm /\ cmd.kind \in Models /\ action.proc = "ended"
    BY <1>1, <1>4, CalmAfterRunning DEF DcpInv, Launches
  <2>3. CASE action.verdict = "failed" /\ FailTask("model_failed") /\ UNCHANGED excuse
    <3>1. excuse' \in BOOLEAN
      BY <1>1, <2>3 DEF DcpTypes
    <3> QED
      BY <1>1, <2>1, <2>2, <2>3, <3>1, FailStep
  <2>4. CASE action.verdict # "failed" /\ Advance(action.verdict, NoEvent)
    <3>1. Proper(action.verdict, NoEvent)
      BY <1>4, <2>2, <2>4, VerdictHolds
    <3> QED
      BY <1>1, <2>1, <2>2, <2>4, <3>1, AdvanceStep
  <2> QED
    BY <1>4, <2>3, <2>4 DEF CompleteDirectModel
<1> QED
  BY <1>2, <1>3, <1>4 DEF CompleteDirectModel

\* A task is submitted.
LEMMA SubmitStep ==
    ASSUME DcpInv, NEW p \in Handlers, Submit(p)
    PROVE  DcpInv'
<1> USE DEF DcpInv
<1>0. /\ p \in Procs /\ p # Boot /\ op[p].at = "idle" /\ op[Boot].at = "idle"
      /\ op' = [op EXCEPT ![p] = [Idle EXCEPT !.call = "submit", !.at = "drain", !.cmd = NoCmd, !.ev = NoEvent]]
      /\ task.state = "absent" /\ task.id = 0 /\ task.rev = 0 /\ adm.n = 0 /\ task.readmissions = 0
      /\ adm.rev = 0 /\ branch = 0 /\ task \in TaskRecord
      /\ task' = [task EXCEPT !.state = "worker_queued", !.id = 1, !.rev = 1, !.head = 1]
      /\ cmd' = Pending(1, "worker", 1) /\ action' = Queued(1)
      /\ adm' = adm /\ events' = events /\ applied' = applied /\ branch' = branch /\ tree' = tree
      /\ sent' = sent /\ run' = run /\ passed' = passed /\ approved' = approved
      /\ shipped' = shipped
      /\ excuse' = excuse /\ crashes' = crashes /\ faults' = faults
  <2>1. /\ p \in Procs /\ p # Boot /\ op[p].at = "idle" /\ op[Boot].at = "idle"
        /\ task.state = "absent"
    BY DcpV2Assumption DEF Submit, Serving, At, Procs
  <2>2. /\ task \in TaskRecord /\ adm \in AdmRecord /\ adm.rev \in Nat
    BY DEF DcpTypes, AdmRecord
  <2>3. /\ task.id = 0 /\ task.rev = 0 /\ adm.n = 0 /\ task.readmissions = 0 /\ adm.rev = 0
        /\ branch = 0
    BY <2>1, <2>2 DEF Queue, Train, Branch
  <2> QED
    BY <2>1, <2>2, <2>3 DEF Submit, Serve, world, evidence
<1> DEFINE i == [Idle EXCEPT !.call = "submit", !.at = "drain", !.cmd = NoCmd, !.ev = NoEvent]
<1>a. i \in OpRecord /\ i.at = "drain" /\ i.call = "submit" /\ i.ev = NoEvent
  BY IdleIs DEF Idle, OpRecord, Places, Calls
<1>b. op' = [op EXCEPT ![p] = i]
  BY <1>0
<1> HIDE DEF i
<1>c. op' \in [Procs -> OpRecord] /\ op'[p] = i /\ \A q \in Procs \ {p} : op'[q] = op[q]
  BY <1>0, <1>a, <1>b DEF DcpTypes
<1>d. /\ task' \in TaskRecord /\ task'.state = "worker_queued" /\ task'.id = 1 /\ task'.rev = 1
      /\ task'.head = 1 /\ task'.readmissions = 0
  BY <1>0 DEF TaskRecord, States
<1>e. /\ cmd' \in CmdRecord /\ cmd'.id = 1 /\ cmd'.kind = "worker" /\ cmd'.rev = 1
      /\ cmd'.status = "pending" /\ ~cmd'.fenced
  BY <1>0, PendingIs DEF Kinds, Models
<1>f. /\ action' \in ActionRecord /\ action'.id = 1 /\ action'.status = "queued"
      /\ action'.launches = 0 /\ action'.proc = "none"
  BY <1>0, QueuedIs
<1>g. ASSUME NEW q \in Procs
      PROVE  /\ op'[q].at \notin Executing \cup {"recover", "reconcile", "reserve", "launch", "start",
                                                 "terminal", "complete", "record"}
             /\ Answers(op[q].ev) /\ op'[q].ev.kind = "none"
  <2>1. Serves(op[q]) /\ Concludes(op[q])
    OBVIOUS
  <2>2. op[q].ev.kind = "none"
    BY <1>0, <2>1, Typed DEF Concludes, Answers, EventRecord
  <2> QED
    BY <1>0, <1>a, <1>c, <2>1, <2>2 DEF Serves, Concludes, Executing, NoEvent
<1>h. events = {} /\ applied = {}
  BY <1>0 DEF Train, Answers, DcpTypes, EventRecord
<1>1. DcpTypes'
  BY <1>0, <1>c, <1>d, <1>e, <1>f DEF DcpTypes
<1>2. Queue' /\ Evidence' /\ Branch'
  BY <1>0, <1>d, <1>e, <1>f DEF Queue, Evidence, Branch, Stage, Models
<1>3. Train'
  BY <1>0, <1>d, <1>e, <1>h DEF Train, Early, Merging, Released, Admissions
<1>4. Booting'
  BY <1>0, <1>a, <1>c DEF Booting, Procs
<1>5. Alone'
  BY <1>g DEF Alone, Runs, Executing
<1>6. \A q \in Procs : Serves(op[q])'
  BY <1>g DEF Serves, Executing
<1>7. \A q \in Procs : Launches(op[q])'
  BY <1>g DEF Launches
<1>8. \A q \in Procs : Orders(op[q])'
  BY <1>g DEF Orders, Executing
<1>9. \A q \in Procs : Pushes(op[q])'
  BY <1>g DEF Pushes, Pushing, Executing
<1>10. \A q \in Procs : Concludes(op[q])'
  BY <1>g DEF Concludes, Answers, Executing
<1> QED
  BY <1>1, <1>2, <1>3, <1>4, <1>5, <1>6, <1>7, <1>8, <1>9, <1>10

\* The supervisor of a model reports its exit.
LEMMA ReportExitStep ==
    ASSUME DcpInv, NEW p \in Handlers, ReportExit(p)
    PROVE  DcpInv'
<1> USE DEF DcpInv
<1>0. /\ p \in Procs /\ p # Boot /\ op[p].at = "idle" /\ op[Boot].at = "idle"
      /\ op[p] \in OpRecord /\ action \in ActionRecord /\ action.proc = "ended"
      /\ action' = [action EXCEPT !.reported = TRUE]
      /\ op' = [op EXCEPT ![p] = [Idle EXCEPT !.call = "exit", !.at = "complete",
                                              !.cmd = [NoCmd EXCEPT !.id = action.id], !.ev = NoEvent]]
      /\ UNCHANGED <<task, cmd, adm, events, applied, branch, tree, sent, run, passed, approved, shipped,
                     excuse, crashes, faults>>
  BY DcpV2Assumption DEF ReportExit, Serving, Serve, At, Procs, world, evidence, DcpTypes
<1> DEFINE c == [NoCmd EXCEPT !.id = action.id]
           i == [Idle EXCEPT !.call = "exit", !.at = "complete", !.cmd = c, !.ev = NoEvent]
<1>a. c \in CmdRecord /\ c.id = action.id
  BY <1>0, IdleIs DEF CmdRecord, ActionRecord
<1>b. op' = [op EXCEPT ![p] = i]
  BY <1>0
<1> HIDE DEF c
<1>c. i \in OpRecord /\ i.at = "complete" /\ i.call = "exit" /\ i.ev = NoEvent /\ i.cmd = c
  BY <1>a, IdleIs DEF Idle, OpRecord, Places, Calls
<1> HIDE DEF i
<1>d. op' \in [Procs -> OpRecord] /\ op'[p] = i /\ \A q \in Procs \ {p} : op'[q] = op[q]
  BY <1>0, <1>b, <1>c DEF DcpTypes
<1>e. /\ action' \in ActionRecord /\ action'.id = action.id /\ action'.status = action.status
      /\ action'.proc = action.proc /\ action'.verdict = action.verdict
      /\ action'.launches = action.launches
  BY <1>0 DEF ActionRecord
<1>f. /\ cmd.kind \in Models /\ action.id = cmd.id /\ cmd.id = task.id /\ task.id > 0
      /\ task.id \in Nat
  BY <1>0 DEF Queue, NoAction, Models, DcpTypes, TaskRecord
<1>1. DcpTypes'
  BY <1>0, <1>d, <1>e DEF DcpTypes
<1>2. Queue' /\ Evidence' /\ Branch'
  BY <1>0, <1>e, <1>f DEF Queue, Evidence, Branch
<1>3. Train'
  BY <1>0 DEF Train, Answers
<1>4. Booting'
  BY <1>0, <1>c, <1>d DEF Booting, Procs
<1>5. Alone'
  BY <1>0, <1>c, <1>d DEF Alone, Runs, Current, Executing
<1>6. \A q \in Procs : Serves(op[q])'
  BY <1>0, <1>a, <1>c, <1>d, <1>f DEF Serves, Current, Executing
<1>7. \A q \in Procs : Launches(op[q])'
  BY <1>0, <1>c, <1>d, <1>e DEF Launches
<1>8. \A q \in Procs : Orders(op[q])'
  BY <1>0, <1>c, <1>d DEF Orders, Current
<1>9. \A q \in Procs : Pushes(op[q])'
  BY <1>0, <1>c, <1>d DEF Pushes, Pushing, Current, NewHeadOf, Executing
<1>10. \A q \in Procs : Concludes(op[q])'
  BY <1>0, <1>c, <1>d DEF Concludes, Current, Answers, NoEvent
<1> QED
  BY <1>1, <1>2, <1>3, <1>4, <1>5, <1>6, <1>7, <1>8, <1>9, <1>10

\* The report of an exit is lost.
LEMMA ReportLostStep ==
    ASSUME DcpInv, ReportLost
    PROVE  DcpInv'
<1> USE DEF DcpInv
<1>0. /\ action \in ActionRecord /\ action.proc = "ended" /\ op' = op /\ excuse' = TRUE
      /\ action' = [action EXCEPT !.reported = TRUE]
      /\ UNCHANGED <<task, cmd, adm, events, applied, branch, tree, sent, run, passed, approved, shipped,
                     crashes>>
  BY DEF ReportLost, world, evidence, DcpTypes
<1>a. faults' \in 0..MaxFaults
  BY Counting DEF ReportLost, DcpTypes
<1>e. /\ action' \in ActionRecord /\ action'.id = action.id /\ action'.status = action.status
      /\ action'.proc = action.proc /\ action'.verdict = action.verdict
      /\ action'.launches = action.launches
  BY <1>0 DEF ActionRecord
<1>f. cmd.kind \in Models
  BY <1>0 DEF Queue, NoAction
<1>1. DcpTypes'
  BY <1>0, <1>a, <1>e DEF DcpTypes
<1>2. Queue' /\ Evidence' /\ Branch'
  BY <1>0, <1>e, <1>f DEF Queue, Evidence, Branch
<1>3. Train'
  BY <1>0 DEF Train, Answers
<1>4. Booting'
  BY <1>0 DEF Booting, Procs
<1>5. Alone'
  BY <1>0 DEF Alone, Runs, Current, Executing
<1>6. \A q \in Procs : Serves(op[q])'
  BY <1>0 DEF Serves, Current, Executing
<1>7. \A q \in Procs : Launches(op[q])'
  BY <1>0, <1>e DEF Launches
<1>8. \A q \in Procs : Orders(op[q])'
  BY <1>0 DEF Orders, Current
<1>9. \A q \in Procs : Pushes(op[q])'
  BY <1>0 DEF Pushes, Pushing, Current, NewHeadOf, Executing
<1>10. \A q \in Procs : Concludes(op[q])'
  BY <1>0 DEF Concludes, Current, Answers
<1> QED
  BY <1>1, <1>2, <1>3, <1>4, <1>5, <1>6, <1>7, <1>8, <1>9, <1>10

\* An event that is not spent is retained.
LEMMA RecordEventStep ==
    ASSUME DcpInv, NEW p \in Procs, RecordEvent(p)
    PROVE  DcpInv'
<1> USE DEF DcpInv
<1>0. /\ op[p].at = "record" /\ op[p] \in OpRecord /\ op[p].ev \in EventRecord
      /\ events' = events \cup ({op[p].ev} \ applied) /\ Turns(p, "list")
      /\ UNCHANGED <<task, cmd, action, adm, applied, branch, tree, sent, run, passed, approved, shipped,
                     excuse, crashes, faults>>
  BY Typed, HandlerMoves DEF RecordEvent, At, world, evidence, Places
<1>a. op[p].ev.kind # "none" /\ Answers(op[p].ev)
  BY <1>0 DEF Concludes
<1> USE DEF Turns, Others
<1>1. DcpTypes'
  BY <1>0 DEF DcpTypes
<1>2. Queue' /\ Evidence' /\ Branch'
  BY <1>0 DEF Queue, Evidence, Branch
<1>3. Train'
  BY <1>0, <1>a DEF Train, Answers
<1>4. Booting'
  BY <1>0 DEF Booting, Procs
<1>5. Alone'
  BY <1>0 DEF Alone, Runs, Current, Executing
<1>6. \A q \in Procs : Serves(op[q])'
  BY <1>0 DEF Serves, Current, Executing
<1>7. \A q \in Procs : Launches(op[q])'
  BY <1>0 DEF Launches
<1>8. \A q \in Procs : Orders(op[q])'
  BY <1>0 DEF Orders, Current
<1>9. \A q \in Procs : Pushes(op[q])'
  BY <1>0 DEF Pushes, Pushing, Current, NewHeadOf, Executing
<1>10. \A q \in Procs : Concludes(op[q])'
  BY <1>0 DEF Concludes, Current, Answers
<1> QED
  BY <1>1, <1>2, <1>3, <1>4, <1>5, <1>6, <1>7, <1>8, <1>9, <1>10

\* The lease of a command that has no fence is taken over.
LEMMA RecoverCommandLeaseStep ==
    ASSUME DcpInv, NEW p \in Procs, RecoverCommandLease(p)
    PROVE  DcpInv'
<1> USE DEF DcpInv
<1>0. /\ DcpTypes /\ op[p].at = "recover" /\ op[p] \in OpRecord /\ cmd \in CmdRecord
      /\ UNCHANGED <<task, action, adm, events, applied, branch, tree, sent, run, passed, approved, shipped,
                     crashes, faults>>
  BY Typed DEF RecoverCommandLease, At, world, evidence, DcpTypes
<1>a. CASE Err(p) /\ UNCHANGED cmd
  <2>1. Still /\ Counts
    BY <1>0, <1>a DEF Still, Counts, Err, DcpTypes
  <2> QED
    BY <1>0, <1>a, <2>1, HandlerMoves, RestStep
<1>b. CASE /\ Holds(op[p].cmd) /\ ~cmd.fenced /\ cmd.gen < MaxRecoveries
           /\ cmd' = [cmd EXCEPT !.lease = "recovery", !.gen = @ + 1]
           /\ op' = [op EXCEPT ![p].cmd = cmd',
                               ![p].at = IF cmd.kind \in Models THEN "models" ELSE "process"]
           /\ UNCHANGED excuse
  <2>1. /\ cmd' \in CmdRecord /\ cmd'.id = cmd.id /\ cmd'.kind = cmd.kind /\ cmd'.rev = cmd.rev
        /\ cmd'.status = cmd.status /\ cmd'.fenced = cmd.fenced
    <3>1. cmd.gen + 1 \in 0..MaxRecoveries /\ cmd.gen \in Nat
      BY <1>0, <1>b, DcpV2Assumption DEF CmdRecord
    <3>2. cmd' = [cmd EXCEPT !.lease = "recovery", !.gen = cmd.gen + 1]
      BY <1>b
    <3> QED
      BY <1>0, <3>1, <3>2 DEF CmdRecord
  <2>2. /\ Others(p) /\ op'[p].at = (IF cmd.kind \in Models THEN "models" ELSE "process")
        /\ op'[p].cmd = cmd' /\ op'[p].call = op[p].call /\ op'[p].via = op[p].via
        /\ op'[p].ev = op[p].ev
    BY <1>0, <1>b, <2>1 DEF DcpTypes, OpRecord, Places, Others
  <2>3. /\ cmd.status = "leased" /\ cmd.kind # "none" /\ cmd.id = task.id /\ cmd.rev = task.rev
        /\ task.id > 0 /\ task.id \in Nat /\ Current(op[p]) /\ op[p].via # "reconcile"
        /\ op[p].cmd.kind = cmd.kind
    BY <1>0, <1>b DEF Holds, Queue, NoCmd, DcpTypes, TaskRecord, Current, Serves
  <2>4. cmd.kind \notin Wakes => p = Boot
    BY <1>0, <1>b, <2>3 DEF Alone
  <2> USE <1>0, <2>1, <2>2, <2>3 DEF Others
  <2>11. DcpTypes'
    BY <1>b DEF DcpTypes
  <2>12. Queue' /\ Evidence' /\ Branch'
    BY DEF Queue, Evidence, Branch, NoCmd
  <2>13. Train'
    BY DEF Train, Answers
  <2>14. Booting'
    BY DEF Booting, Procs
  <2>15. Alone'
    BY <2>4 DEF Alone, Runs, Current, Executing, Booting, Procs
  <2>16. \A q \in Procs : Serves(op[q])'
    BY DEF Serves, Current, Executing, Models
  <2>17. \A q \in Procs : Launches(op[q])'
    BY DEF Launches
  <2>18. \A q \in Procs : Orders(op[q])'
    BY <1>b DEF Orders, Current
  <2>19. \A q \in Procs : Pushes(op[q])'
    BY DEF Pushes, Pushing, Current, NewHeadOf, Executing
  <2>20. \A q \in Procs : Concludes(op[q])'
    BY DEF Concludes, Current, Answers
  <2> QED
    BY <2>11, <2>12, <2>13, <2>14, <2>15, <2>16, <2>17, <2>18, <2>19, <2>20
<1> QED
  BY <1>a, <1>b DEF RecoverCommandLease

\* A handler claims the command that is pending, or has nothing to claim.
LEMMA ClaimNextCommandStep ==
    ASSUME DcpInv, NEW p \in Procs, ClaimNextCommand(p)
    PROVE  DcpInv'
<1> USE DEF DcpInv
<1>0. /\ DcpTypes /\ op[p].at = "drain" /\ op[p] \in OpRecord /\ cmd \in CmdRecord
      /\ UNCHANGED <<task, action, adm, events, applied, branch, tree, sent, run, passed, approved, shipped,
                     excuse, crashes, faults>>
  BY Typed DEF ClaimNextCommand, At, world, evidence, DcpTypes
<1>a. CASE Go(p, AfterDrain(op[p])) /\ UNCHANGED cmd
  <2>1. Still /\ Counts
    BY <1>0, <1>a DEF Still, Counts, DcpTypes
  <2>2. Rests(p)
    BY <1>0, <1>a, HandlerMoves DEF AfterDrain
  <2> QED
    BY <1>0, <2>1, <2>2, RestStep
<1>b. CASE /\ cmd.status = "pending"
           /\ cmd' = [cmd EXCEPT !.status = "leased", !.lease = op[p].call]
           /\ op' = IF cmd.kind \in Models THEN op
                    ELSE [op EXCEPT ![p].at = "process", ![p].via = "drain", ![p].cmd = cmd']
  <2>1. /\ cmd' \in CmdRecord /\ cmd'.id = cmd.id /\ cmd'.kind = cmd.kind /\ cmd'.rev = cmd.rev
        /\ cmd'.status = "leased" /\ cmd'.fenced = cmd.fenced
    BY <1>0, <1>b DEF CmdRecord, OpRecord
  <2>2. /\ Others(p) /\ op'[p].call = op[p].call /\ op'[p].ev = op[p].ev
        /\ cmd.kind \in Models => op' = op
        /\ cmd.kind \notin Models =>
             op'[p].at = "process" /\ op'[p].via = "drain" /\ op'[p].cmd = cmd'
    BY <1>0, <1>b, <2>1 DEF DcpTypes, OpRecord, Places, Others
  <2>3. /\ cmd.kind # "none" /\ cmd.id = task.id /\ cmd.rev = task.rev
        /\ task.id > 0 /\ task.id \in Nat
    BY <1>0, <1>b DEF Queue, NoCmd, DcpTypes, TaskRecord
  <2>4. \A q \in Procs : op[q].at \in Executing \cup {"recover", "reconcile", "reserve"} => ~Current(op[q])
    BY <1>0, <1>b DEF Serves, Executing
  <2> USE <1>0, <2>1, <2>2, <2>3 DEF Others
  <2>11. DcpTypes'
    BY DEF DcpTypes
  <2>12. Queue' /\ Evidence' /\ Branch'
    BY <1>b DEF Queue, Evidence, Branch, NoCmd
  <2>13. Train'
    BY DEF Train, Answers
  <2>14. Booting'
    BY DEF Booting, Procs
  <2>15. Alone'
    BY <2>4 DEF Alone, Runs, Current, Executing
  <2>16. \A q \in Procs : Serves(op[q])'
    BY <2>4 DEF Serves, Current, Executing, Models
  <2>17. \A q \in Procs : Launches(op[q])'
    BY DEF Launches
  <2>18. \A q \in Procs : Orders(op[q])'
    BY DEF Orders, Current
  <2>19. \A q \in Procs : Pushes(op[q])'
    BY DEF Pushes, Pushing, Current, NewHeadOf, Executing
  <2>20. \A q \in Procs : Concludes(op[q])'
    BY DEF Concludes, Current, Answers
  <2> QED
    BY <2>11, <2>12, <2>13, <2>14, <2>15, <2>16, <2>17, <2>18, <2>19, <2>20
<1> QED
  BY <1>a, <1>b DEF ClaimNextCommand

\* An admission changes its status or its fence, and nobody's obligations do.
LEMMA AdmissionStep ==
    ASSUME DcpInv, NEW p \in Procs, op[p].at \in Executing, Others(p),
           op'[p].at \in {"admfence", "fence", "apply"}, op[p].cmd.kind = "release",
           op[p].at = "settle" \/ (op[p].via # "reconcile" /\ op'[p].at # "apply"),
           op'[p].cmd = op[p].cmd, op'[p].call = op[p].call, op'[p].via = op[p].via,
           op'[p].at = "apply" => op[p].at = "settle" /\ op'[p].out = "dispatched",
           op[p].at = "settle" => op'[p].at = "apply",
           Answers(op'[p].ev), adm' \in AdmRecord, adm'.n = adm.n, adm'.rev = adm.rev,
           UNCHANGED <<task, cmd, action, events, applied, branch, tree, sent, run, passed, approved,
                       shipped, excuse, crashes, faults>>
    PROVE  DcpInv'
<1> USE DEF DcpInv, Others
<1>1. DcpTypes'
  BY DEF DcpTypes
<1>2. Queue' /\ Evidence' /\ Branch'
  BY DEF Queue, Evidence, Branch
<1>3. Train'
  BY DEF Train, Answers
<1>4. Booting'
  BY DEF Booting, Procs, Executing
<1>5. Alone'
  BY DEF Alone, Runs, Current, Executing
<1>6. \A q \in Procs : Serves(op[q])'
  BY DEF Serves, Current, Executing, Effects
<1>7. \A q \in Procs : Launches(op[q])'
  BY DEF Launches
<1>8. \A q \in Procs : Orders(op[q])'
  BY DEF Orders, Current
<1>9. \A q \in Procs : Pushes(op[q])'
  BY DEF Pushes, Pushing, Current, NewHeadOf, Executing
<1>10. \A q \in Procs : Concludes(op[q])'
  BY DEF Concludes, Current, Answers, OutcomeOf
<1> QED
  BY <1>1, <1>2, <1>3, <1>4, <1>5, <1>6, <1>7, <1>8, <1>9, <1>10

\* The admission is leased for its dispatch.
LEMMA DispatchReleaseStep ==
    ASSUME DcpInv, NEW p \in Procs, DispatchRelease(p)
    PROVE  DcpInv'
<1>1. /\ DcpTypes /\ op[p].at = "process" /\ op[p].cmd.kind = "release" /\ adm \in AdmRecord
      /\ UNCHANGED <<task, cmd, action, events, applied, branch, tree, sent, run, passed, approved,
                     shipped, excuse, crashes, faults>>
  BY DEF DcpInv, DispatchRelease, Process, At, world, evidence, DcpTypes
<1>2. CASE adm' = [adm EXCEPT !.status = "leased"] /\ Go(p, "admfence")
  <2>1. Turns(p, "admfence")
    BY <1>1, <1>2, HandlerMoves DEF Places
  <2>2. adm' \in AdmRecord /\ adm'.n = adm.n /\ adm'.rev = adm.rev
    BY <1>1, <1>2 DEF AdmRecord
  <2>3. Answers(op[p].ev) /\ op[p].via # "reconcile"
    BY <1>1 DEF DcpInv, Concludes, Serves
  <2> QED
    BY <1>1, <2>1, <2>2, <2>3, AdmissionStep DEF Turns, Executing
<1>3. CASE Go(p, "fail") /\ UNCHANGED adm
  <2>1. Turns(p, "fail") /\ Still /\ Counts
    BY <1>1, <1>3, HandlerMoves DEF Places, Still, Counts, DcpTypes
  <2> QED
    BY <1>1, <2>1, InService, TurnStep
<1> QED
  BY <1>2, <1>3 DEF DispatchRelease

\* The dispatch of the admission is fenced.
LEMMA FenceAdmissionDispatchStep ==
    ASSUME DcpInv, NEW p \in Procs, FenceAdmissionDispatch(p)
    PROVE  DcpInv'
<1>1. /\ DcpTypes /\ op[p].at = "admfence" /\ adm \in AdmRecord
      /\ adm' = [adm EXCEPT !.fenced = TRUE] /\ Go(p, "fence")
      /\ UNCHANGED <<task, cmd, action, events, applied, branch, tree, sent, run, passed, approved,
                     shipped, excuse, crashes, faults>>
  BY DEF DcpInv, FenceAdmissionDispatch, At, world, evidence, DcpTypes
<1>2. Turns(p, "fence")
  BY <1>1, HandlerMoves DEF Places
<1>3. adm' \in AdmRecord /\ adm'.n = adm.n /\ adm'.rev = adm.rev
  BY <1>1 DEF AdmRecord
<1>4. Answers(op[p].ev) /\ op[p].via # "reconcile" /\ op[p].cmd.kind = "release"
  BY <1>1 DEF DcpInv, Concludes, Serves
<1> QED
  BY <1>1, <1>2, <1>3, <1>4, AdmissionStep DEF Turns, Executing

\* The admission is settled, once.
LEMMA DispatchAdmissionStep ==
    ASSUME DcpInv, NEW p \in Procs, DispatchAdmission(p)
    PROVE  DcpInv'
<1>1. /\ DcpTypes /\ op[p].at = "settle" /\ adm \in AdmRecord /\ op[p] \in OpRecord
      /\ op[p].cmd.kind = "release" /\ op[p].via \in {"drain", "list", "reconcile"}
      /\ UNCHANGED <<task, cmd, action, events, applied, branch, tree, sent, run, passed, approved,
                     shipped, excuse, crashes, faults>>
  BY Typed DEF DcpInv, DispatchAdmission, At, world, evidence, DcpTypes, Serves
<1>2. CASE /\ adm' = [adm EXCEPT !.status = "dispatched"]
           /\ op' = [op EXCEPT ![p].at = "apply", ![p].out = "dispatched", ![p].ev = NoEvent]
  <2>1. /\ Others(p) /\ op'[p].at = "apply" /\ op'[p].out = "dispatched" /\ op'[p].ev = NoEvent
        /\ op'[p].cmd = op[p].cmd /\ op'[p].call = op[p].call /\ op'[p].via = op[p].via
    BY <1>1, <1>2, IdleIs DEF DcpTypes, OpRecord, Places, Outcomes, Others
  <2>2. adm' \in AdmRecord /\ adm'.n = adm.n /\ adm'.rev = adm.rev
    BY <1>1, <1>2 DEF AdmRecord
  <2>3. Answers(NoEvent)
    BY DEF Answers, NoEvent
  <2> QED
    BY <1>1, <2>1, <2>2, <2>3, AdmissionStep DEF Executing
<1>3. CASE Go(p, Unsettled(op[p])) /\ UNCHANGED adm
  <2>1. Still /\ Counts
    BY <1>1, <1>3 DEF Still, Counts, DcpTypes
  <2>2. CASE op[p].via = "reconcile"
    <3>1. Turns(p, "fail")
      BY <1>1, <1>3, <2>2, HandlerMoves DEF Unsettled, Places
    <3>2. op[p].cmd.kind = "release" /\ Current(op[p]) => sent[adm.n] = 1
      BY <1>1 DEF DcpInv, Orders
    <3> QED
      BY <1>1, <2>1, <3>1, <3>2, TurnStep DEF Executing
  <2>3. CASE op[p].via # "reconcile"
    <3>1. Rests(p)
      BY <1>1, <1>3, <2>3, Continues, HandlerMoves DEF Unsettled
    <3> QED
      BY <1>1, <2>1, <3>1, RestStep
  <2> QED
    BY <2>2, <2>3
<1> QED
  BY <1>2, <1>3 DEF DispatchAdmission

\* The command is fenced: what is ordered from here on is told by the fence.
LEMMA FenceCommandEffectStep ==
    ASSUME DcpInv, NEW p \in Procs, FenceCommandEffect(p)
    PROVE  DcpInv'
<1> USE DEF DcpInv
<1>1. /\ op[p].at = "fence" /\ op[p] \in OpRecord /\ cmd \in CmdRecord /\ ~cmd.fenced
      /\ cmd' = [cmd EXCEPT !.fenced = TRUE] /\ Holds(op[p].cmd)
      /\ op' = [op EXCEPT ![p].at = "effect", ![p].cmd = cmd']
      /\ UNCHANGED <<task, action, adm, events, applied, branch, tree, sent, run, passed, approved,
                     shipped, excuse, crashes, faults>>
  BY Typed DEF FenceCommandEffect, At, world, evidence, DcpTypes
<1>2. /\ cmd' \in CmdRecord /\ cmd'.id = cmd.id /\ cmd'.kind = cmd.kind /\ cmd'.rev = cmd.rev
      /\ cmd'.status = cmd.status /\ cmd'.fenced = TRUE
  BY <1>1 DEF CmdRecord
<1>3. /\ Others(p) /\ op'[p].at = "effect" /\ op'[p].cmd = cmd' /\ op'[p].ev = op[p].ev
      /\ op'[p].call = op[p].call /\ op'[p].via = op[p].via
  BY <1>1, <1>2 DEF DcpTypes, OpRecord, Places, Others
<1>4. /\ cmd.status = "leased" /\ cmd.kind # "none" /\ cmd.id = task.id /\ cmd.rev = task.rev
      /\ task.id > 0 /\ task.id \in Nat /\ Current(op[p]) /\ op[p].via # "reconcile"
      /\ op[p].cmd.kind = cmd.kind /\ cmd.kind \in Effects /\ cmd.kind \notin Wakes
      /\ cmd.kind \notin Models
  BY <1>1 DEF Holds, Queue, NoCmd, DcpTypes, TaskRecord, Current, Serves, Effects, Wakes, Models,
     Executing
<1>5. Runs(p) /\ (cmd.kind = "release" => sent[adm.n] = 0)
  BY <1>1, <1>4 DEF Runs, Executing, Train
<1> USE <1>2, <1>3, <1>4 DEF Others
<1>11. DcpTypes'
  BY <1>1 DEF DcpTypes
<1>12. Queue' /\ Evidence' /\ Branch'
  BY <1>1 DEF Queue, Evidence, Branch, NoCmd
<1>13. Train'
  BY <1>1 DEF Train, Answers
<1>14. Booting'
  BY <1>1 DEF Booting, Procs
<1>15. Alone'
  BY <1>1, <1>5 DEF Alone, Runs, Current, Executing
<1>16. \A q \in Procs : Serves(op[q])'
  BY <1>1 DEF Serves, Current, Executing
<1>17. \A q \in Procs : Launches(op[q])'
  BY <1>1 DEF Launches
<1>18. \A q \in Procs : Orders(op[q])'
  BY <1>1, <1>5 DEF Orders, Current
<1>19. \A q \in Procs : Pushes(op[q])'
  BY <1>1 DEF Pushes, Pushing, Current, NewHeadOf, Executing
<1>20. \A q \in Procs : Concludes(op[q])'
  BY <1>1 DEF Concludes, Current, Answers
<1> QED
  BY <1>11, <1>12, <1>13, <1>14, <1>15, <1>16, <1>17, <1>18, <1>19, <1>20

\* The worktree is at the successor.
LEMMA AdoptSuccessorStep ==
    ASSUME DcpInv, NEW p \in Procs, AdoptSuccessor(p)
    PROVE  DcpInv'
<1> USE DEF DcpInv
<1>1. /\ DcpTypes /\ op[p].at = "adopt" /\ op[p] \in OpRecord /\ Turns(p, "apply")
      /\ tree' = op[p].cmd.rev + 1 /\ op[p].cmd \in CmdRecord
      /\ UNCHANGED <<task, cmd, action, adm, events, applied, branch, sent, run, passed, approved,
                     shipped, excuse, crashes, faults>>
  BY Typed, HandlerMoves DEF AdoptSuccessor, At, db, evidence, Places
<1>2. /\ op[p].out = "rebased" /\ op[p].cmd.kind = "readmission" /\ tree' \in Nat
  BY <1>1 DEF Serves, Concludes, CmdRecord
<1> USE DEF Turns, Others
<1>11. DcpTypes'
  BY <1>1, <1>2 DEF DcpTypes
<1>12. Queue' /\ Evidence' /\ Branch'
  BY <1>1, <1>2 DEF Queue, Evidence, Branch
<1>13. Train'
  BY <1>1, <1>2 DEF Train, Answers
<1>14. Booting'
  BY <1>1, <1>2 DEF Booting, Procs
<1>15. Alone'
  BY <1>1, <1>2 DEF Alone, Runs, Current, Executing
<1>16. \A q \in Procs : Serves(op[q])'
  BY <1>1, <1>2 DEF Serves, Current, Executing
<1>17. \A q \in Procs : Launches(op[q])'
  BY <1>1, <1>2 DEF Launches
<1>18. \A q \in Procs : Orders(op[q])'
  BY <1>1, <1>2 DEF Orders, Current
<1>19. \A q \in Procs : Pushes(op[q])'
  BY <1>1, <1>2 DEF Pushes, Pushing, Current, NewHeadOf, Executing
<1>20. \A q \in Procs : Concludes(op[q])'
  BY <1>1, <1>2 DEF Concludes, Current, Answers, OutcomeOf
<1> QED
  BY <1>11, <1>12, <1>13, <1>14, <1>15, <1>16, <1>17, <1>18, <1>19, <1>20

\* Where a handler is after an effect: it has what the effect gives, or the effect
\* failed, and it rests or fails the task.
Gains(p, at, out) ==
    /\ Others(p) /\ op'[p].at = at /\ op'[p].out = out /\ op'[p].ev = NoEvent
    /\ op'[p].call = op[p].call /\ op'[p].via = op[p].via /\ op'[p].cmd = op[p].cmd

\* A head is pushed.  A handler whose command is over pushes a head that the branch
\* has passed, or is at.
LEMMA PushStep ==
    ASSUME DcpInv, NEW p \in Procs, op[p].at = "effect", Counts,
           op[p].cmd.kind \in {"publication", "readmission"}, ~Refused(op[p].cmd), Push(op[p].cmd),
           \/ Rests(p)
           \/ Turns(p, "fail")
           \/ op[p].cmd.kind = "publication" /\ Gains(p, "apply", "published")
           \/ op[p].cmd.kind = "readmission" /\ Gains(p, "adopt", "rebased"),
           UNCHANGED <<task, cmd, action, adm, events, applied, passed, approved>>
    PROVE  DcpInv'
<1> USE DEF DcpInv
<1>1. /\ op[p] \in OpRecord /\ op[p].cmd \in CmdRecord /\ NewHeadOf(op[p].cmd) \in Nat
      /\ branch \in Nat /\ task \in TaskRecord /\ task.rev \in Nat /\ task.head \in Nat
      /\ task.head <= task.rev /\ task.id \in Nat
  BY Typed DEF DcpTypes, NewHeadOf, CmdRecord, TaskRecord, Queue
<1>2. /\ branch' = NewHeadOf(op[p].cmd) /\ branch <= branch' /\ branch' \in Nat
      /\ tree' = tree /\ sent' = sent /\ run' = run /\ shipped' = shipped
  BY <1>1 DEF Push, Refused
<1>3. /\ Others(p)
      /\ op'[p].at \in {"idle", "drain", "models", "drive"}
           \/ (op'[p].at \in {"fail", "apply", "adopt"} /\ op'[p].cmd = op[p].cmd /\ op'[p].via = op[p].via)
      /\ op'[p].call = IF op'[p].at = "idle" THEN "none" ELSE op[p].call
      /\ Answers(op'[p].ev)
      /\ op'[p].at = "adopt" => op'[p].out = "rebased" /\ op[p].cmd.kind = "readmission"
      /\ op'[p].at = "apply" => op'[p].out = "published" /\ op[p].cmd.kind = "publication"
  BY DEF Rests, Turns, Gains, Concludes, Answers, NoEvent
<1>4. op[p].cmd.id \in 1..task.id /\ task.state # "absent"
  BY <1>1 DEF Serves, Executing, Queue
<1>5. ASSUME Current(op[p])
      PROVE  Branch' /\ \A q \in Procs : Pushes(op[q])'
  <2>1. /\ cmd.kind = op[p].cmd.kind /\ cmd.rev = op[p].cmd.rev /\ cmd.rev = task.rev
        /\ cmd.kind \in {"publication", "readmission"}
    BY <1>5 DEF Serves, Executing, Queue
  <2>2. /\ branch' = IF cmd.kind = "publication" THEN task.rev ELSE task.rev + 1
        /\ cmd.kind = "publication" => task.head = task.rev /\ task.state = "checks_waiting"
        /\ cmd.kind = "readmission" => task.state = "readmission"
    BY <1>1, <1>2, <2>1 DEF NewHeadOf, Branch, Queue, Stage, States, TaskRecord
  <2>3. Branch'
    BY <1>1, <1>2, <2>1, <2>2 DEF Branch
  <2>4. \A q \in Procs : Pushes(op[q])'
    <3>1. ASSUME NEW q \in Procs, Current(op[q]), op[q].at \in {"adopt", "apply"}
          PROVE  op[q].cmd.kind = cmd.kind
      BY <3>1 DEF Serves, Executing
    <3> QED
      BY <1>1, <1>2, <1>3, <1>5, <2>1, <2>2, <3>1
      DEF Pushes, Pushing, Current, NewHeadOf, Executing, Others
  <2> QED
    BY <2>3, <2>4
<1>6. ASSUME ~Current(op[p])
      PROVE  Branch' /\ \A q \in Procs : Pushes(op[q])'
  <2>1. task.state # "failed" =>
          branch' <= task.head /\ (cmd.kind = "publication" => branch' < task.head)
    BY <1>2, <1>6 DEF Pushes, Pushing, Executing
  <2>2. task.state = "failed" => cmd.kind = "none"
    BY DEF Queue, Stage
  <2>3. Branch'
    BY <1>1, <1>2, <1>4, <2>1, <2>2 DEF Branch
  <2>4. ASSUME NEW q \in Procs, Current(op[q]), op[q].at \in {"adopt", "apply"},
               op[q].cmd.kind \in {"publication", "readmission"}
        PROVE  cmd.kind = op[q].cmd.kind /\ q # p /\ op'[q] = op[q]
    BY <1>3, <1>6, <2>4 DEF Serves, Executing, Others
  <2>5. ASSUME NEW q \in Procs, Current(op[q]), op[q].at \in {"adopt", "apply"},
               op[q].cmd.kind \in {"publication", "readmission"}
        PROVE  FALSE
    <3>1. cmd.kind = op[q].cmd.kind /\ task.state # "failed" /\ Pushes(op[q])
      BY <2>2, <2>4, <2>5
    <3>2. cmd.kind = "publication" => branch = task.rev
      BY <2>5, <3>1 DEF Pushes, Serves
    <3>3. cmd.kind = "readmission" => branch = task.rev + 1
      BY <2>5, <3>1 DEF Pushes
    <3>4. cmd.kind = "publication" => task.head = task.rev
      BY DEF Branch
    <3> QED
      BY <1>1, <1>2, <2>1, <2>5, <3>1, <3>2, <3>3, <3>4
  <2>6. \A q \in Procs : Pushes(op[q])'
    BY <1>2, <1>3, <1>6, <2>5 DEF Pushes, Pushing, Current, NewHeadOf, Executing, Others
  <2> QED
    BY <2>3, <2>6
<1>7. Branch' /\ \A q \in Procs : Pushes(op[q])'
  BY <1>5, <1>6
<1> USE <1>1, <1>2, <1>3 DEF Others
<1>11. DcpTypes'
  BY DEF DcpTypes, Counts
<1>12. Queue' /\ Evidence'
  BY DEF Queue, Evidence
<1>13. Train'
  BY DEF Train, Answers
<1>14. Booting'
  BY DEF Booting, Procs
<1>15. Alone'
  BY DEF Alone, Runs, Current, Executing
<1>16. \A q \in Procs : Serves(op[q])'
  BY DEF Serves, Current, Executing
<1>17. \A q \in Procs : Launches(op[q])'
  BY DEF Launches
<1>18. \A q \in Procs : Orders(op[q])'
  BY DEF Orders, Current
<1>19. \A q \in Procs : Concludes(op[q])'
  BY <1>4 DEF Concludes, Current, Answers, OutcomeOf
<1> QED
  BY <1>7, <1>11, <1>12, <1>13, <1>14, <1>15, <1>16, <1>17, <1>18, <1>19

\* The release of an admission is ordered, by the only handler that may.
LEMMA OrderStep ==
    ASSUME DcpInv, NEW p \in Procs, op[p].at = "effect", Counts, op[p].cmd.kind = "release", Order,
           Rests(p) \/ Gains(p, "settle", "dispatched"),
           UNCHANGED <<task, cmd, action, adm, events, applied, passed, approved>>
    PROVE  DcpInv'
<1> USE DEF DcpInv
<1>1. /\ Current(op[p]) /\ cmd.fenced /\ sent[adm.n] = 0 /\ op[p].via # "reconcile"
      /\ cmd.kind = "release" /\ task.rev = cmd.rev
  BY DEF Orders, Serves, Executing, Queue
<1>2. /\ task.state = "release_waiting" /\ task \in TaskRecord /\ task.rev \in Nat
      /\ task.readmissions \in 0..MaxReadmissions /\ MaxReadmissions \in Nat
  BY <1>1, DcpV2Assumption DEF Queue, Stage, States, DcpTypes, TaskRecord
<1>3. /\ adm.n \in Admissions /\ adm.rev = task.rev /\ adm.n > 0 /\ adm.n \in Nat
  BY <1>2 DEF Train, Merging, Admissions
<1>4. /\ sent' = [sent EXCEPT ![adm.n] = 1] /\ run' = [run EXCEPT ![adm.n] = "running"]
      /\ sent \in [Admissions -> 0..1]
      /\ run \in [Admissions -> {"none", "running", "merged", "moved"}]
      /\ shipped' = shipped \cup {task.rev} /\ branch' = branch /\ tree' = tree
  BY <1>1 DEF Order, DcpTypes
<1>5. /\ sent' \in [Admissions -> 0..1] /\ sent'[adm.n] = 1 /\ run'[adm.n] = "running"
      /\ run' \in [Admissions -> {"none", "running", "merged", "moved"}]
      /\ run[adm.n] = "none"
      /\ \A n \in Admissions \ {adm.n} : sent'[n] = sent[n] /\ run'[n] = run[n]
  BY <1>1, <1>3, <1>4 DEF Train
<1>6. /\ Others(p)
      /\ op'[p].at \in {"idle", "drain", "models", "drive"}
           \/ (op'[p].at = "settle" /\ op'[p].cmd = op[p].cmd /\ op'[p].via = op[p].via)
      /\ op'[p].call = IF op'[p].at = "idle" THEN "none" ELSE op[p].call
      /\ op'[p].ev = NoEvent
  BY DEF Rests, Gains
<1>7. ASSUME NEW e, Answers(e)
      PROVE  Answers(e)'
  BY <1>3, <1>5, <1>7 DEF Answers
<1>8. ASSUME NEW q \in Procs, op[q].at = "effect", op[q].cmd.kind = "release"
      PROVE  q = p
  <2>1. Runs(q) /\ Runs(p)
    BY <1>1, <1>8 DEF Orders, Serves, Runs, Executing, Wakes
  <2> QED
    BY <2>1 DEF Alone
<1> USE <1>6 DEF Others
<1>11. DcpTypes'
  BY <1>4, <1>5 DEF DcpTypes, Counts
<1>12. Queue' /\ Evidence' /\ Branch'
  BY <1>2, <1>4 DEF Queue, Evidence, Branch
<1>13. Train'
  BY <1>1, <1>2, <1>3, <1>4, <1>5, <1>7 DEF Train, Early, Merging, Released, Admissions
<1>14. Booting'
  BY DEF Booting, Procs
<1>15. Alone'
  BY DEF Alone, Runs, Current, Executing
<1>16. \A q \in Procs : Serves(op[q])'
  BY DEF Serves, Current, Executing
<1>17. \A q \in Procs : Launches(op[q])'
  BY DEF Launches
<1>18. \A q \in Procs : Orders(op[q])'
  BY <1>5, <1>8 DEF Orders, Current
<1>19. \A q \in Procs : Pushes(op[q])'
  BY <1>4 DEF Pushes, Pushing, Current, NewHeadOf, Executing
<1>20. \A q \in Procs : Concludes(op[q])'
  <2>1. ASSUME NEW q \in Procs
        PROVE  Answers(op[q].ev)'
    BY <1>7 DEF Concludes, Answers, NoEvent
  <2>2. ASSUME NEW q \in Procs, op'[q].at \in {"record", "adopt", "apply"}
        PROVE  q # p /\ op'[q] = op[q]
    BY <2>2
  <2>3. ASSUME NEW q \in Procs, op'[q].at = "apply", Current(op[q])
        PROVE  op[q].cmd.kind # "merge"
    BY <1>1, <2>2, <2>3 DEF Serves, Executing
  <2> QED
    BY <2>1, <2>2, <2>3 DEF Concludes, Current
<1> QED
  BY <1>11, <1>12, <1>13, <1>14, <1>15, <1>16, <1>17, <1>18, <1>19, <1>20

\* What an effect that lands does, by its kind.
LEMMA Landing ==
    ASSUME NEW c, c.kind \in Effects, Lands(c)
    PROVE  \/ c.kind \in {"publication", "readmission"} /\ Push(c)
           \/ c.kind = "release" /\ Order
           \/ c.kind = "admission" /\ UNCHANGED <<world, shipped>>
  BY DEF Effects, Lands

\* An effect lands and its handler goes on with what it gives.
LEMMA EffectStep ==
    ASSUME DcpInv, NEW p \in Procs, Effect(p)
    PROVE  DcpInv'
<1>1. /\ DcpTypes /\ op[p].at = "effect" /\ ~Refused(op[p].cmd) /\ Lands(op[p].cmd) /\ Counts
      /\ UNCHANGED <<task, cmd, action, adm, events, applied, passed, approved>>
      /\ op[p] \in OpRecord /\ op[p].cmd.kind \in Effects
  BY Typed DEF DcpInv, Effect, At, db, DcpTypes, Counts, Serves
<1> DEFINE kind == op[p].cmd.kind
           out == AfterEffect[kind]
           at == CASE kind = "release" -> "settle" [] kind = "readmission" -> "adopt" [] OTHER -> "apply"
<1>2. op' = [op EXCEPT ![p].out = out, ![p].ev = NoEvent, ![p].at = at]
  BY DEF Effect
<1>3. /\ out \in Outcomes /\ at \in Places
      /\ kind = "publication" => at = "apply" /\ out = "published"
      /\ kind = "readmission" => at = "adopt" /\ out = "rebased"
      /\ kind = "release" => at = "settle" /\ out = "dispatched"
      /\ kind = "admission" => at = "apply" /\ out = "admitted"
  BY <1>1 DEF Effects, AfterEffect, Outcomes, Places
<1> HIDE DEF out, at
<1>4. Gains(p, at, out)
  BY <1>1, <1>2, <1>3, IdleIs DEF Gains, Others, DcpTypes, OpRecord
<1>5. CASE kind \in {"publication", "readmission"} /\ Push(op[p].cmd)
  BY <1>1, <1>3, <1>4, <1>5, PushStep
<1>6. CASE kind = "release" /\ Order
  BY <1>1, <1>3, <1>4, <1>6, OrderStep
<1>7. CASE kind = "admission" /\ UNCHANGED <<world, shipped>>
  <2>1. Still /\ Has(p, "admitted", NoEvent)
    BY <1>1, <1>3, <1>4, <1>7 DEF Still, Gains, Has, world
  <2>2. Answers(NoEvent) /\ NoEvent \in EventRecord
    BY IdleIs DEF Answers, NoEvent
  <2> QED
    BY <1>1, <1>7, <2>1, <2>2, OutcomeStep DEF OutcomeOf, Outcomes
<1> QED
  BY <1>1, <1>5, <1>6, <1>7, Landing

\* An effect fails, whether or not it landed.
LEMMA EffectFailsStep ==
    ASSUME DcpInv, NEW p \in Procs, EffectFails(p)
    PROVE  DcpInv'
<1>1. /\ DcpTypes /\ op[p].at \in {"effect", "adopt"} /\ faults' \in 0..MaxFaults
      /\ UNCHANGED <<task, cmd, action, adm, events, applied, passed, approved, excuse, crashes>>
      /\ op[p].cmd.kind \in Effects /\ op[p].via \in {"drain", "list", "reconcile"}
  BY Counting, Typed DEF DcpInv, EffectFails, At, db, Serves, Effects
<1>2. Counts
  BY <1>1 DEF Counts, DcpTypes
<1>3. Rests(p) \/ (Turns(p, "fail") /\ op[p].via = "reconcile")
  BY <1>1, Continues, HandlerMoves DEF EffectFails, Unsettled, Places
<1>4. Turns(p, "fail") => op[p].cmd.kind # "release" \/ op[p].via # "reconcile"
  BY <1>1 DEF DcpInv, Serves
<1>5. CASE UNCHANGED <<world, shipped>>
  <2>1. Still
    BY <1>1, <1>5 DEF Still, world
  <2> QED
    BY <1>1, <1>2, <1>3, <1>4, <2>1, RestStep, TurnStep DEF Executing
<1>6. CASE op[p].at = "effect" /\ Lands(op[p].cmd)
  <2>1. ~Refused(op[p].cmd)
    BY <1>6 DEF EffectFails, At
  <2>2. CASE op[p].cmd.kind \in {"publication", "readmission"} /\ Push(op[p].cmd)
    BY <1>1, <1>2, <1>3, <1>6, <2>1, <2>2, PushStep
  <2>3. CASE op[p].cmd.kind = "release" /\ Order
    <3>1. Rests(p)
      BY <1>3, <1>6, <2>3 DEF DcpInv, Serves
    <3> QED
      BY <1>1, <1>2, <1>6, <2>3, <3>1, OrderStep
  <2>4. CASE op[p].cmd.kind = "admission" /\ UNCHANGED <<world, shipped>>
    BY <1>5, <2>4
  <2> QED
    BY <1>1, <1>6, <2>2, <2>3, <2>4, Landing
<1> QED
  BY <1>5, <1>6 DEF EffectFails, At

\* The model of the active command is reserved by one handler.
LEMMA ReserveModelLaunchStep ==
    ASSUME DcpInv, NEW p \in Procs, ReserveModelLaunch(p)
    PROVE  DcpInv'
<1> USE DEF DcpInv
<1>1. /\ DcpTypes /\ op[p].at = "reserve" /\ op[p] \in OpRecord /\ cmd \in CmdRecord
      /\ action \in ActionRecord /\ op[p].next \in {"return", "list"}
      /\ UNCHANGED <<task, adm, events, applied, branch, tree, sent, run, passed, approved, shipped,
                     excuse, crashes, faults>>
  BY Typed DEF ReserveModelLaunch, At, world, evidence, DcpTypes, OpRecord
<1>2. CASE Go(p, op[p].next) /\ UNCHANGED <<cmd, action>>
  <2>1. Still /\ Counts
    BY <1>1, <1>2 DEF Still, Counts, DcpTypes
  <2>2. Rests(p) \/ Turns(p, "list")
    BY <1>1, <1>2, HandlerMoves DEF Places
  <2> QED
    BY <1>1, <2>1, <2>2, RestStep, OnwardStep
<1>3. CASE /\ action.id = op[p].cmd.id /\ action.status = "queued"
           /\ cmd' = [cmd EXCEPT !.fenced = TRUE]
           /\ action' = [action EXCEPT !.status = "launching"]
           /\ Go(p, "launch")
  <2>1. Turns(p, "launch")
    BY <1>1, <1>3, HandlerMoves DEF Places
  <2>2. /\ cmd' \in CmdRecord /\ cmd'.id = cmd.id /\ cmd'.kind = cmd.kind /\ cmd'.rev = cmd.rev
        /\ cmd'.status = cmd.status /\ cmd'.fenced = TRUE
    BY <1>1, <1>3 DEF CmdRecord
  <2>3. /\ action' \in ActionRecord /\ action'.id = action.id /\ action'.status = "launching"
        /\ action'.proc = action.proc /\ action'.launches = action.launches
    BY <1>1, <1>3 DEF ActionRecord
  <2>4. /\ cmd.kind \in Models /\ action.id = cmd.id /\ cmd.id = task.id /\ Current(op[p])
        /\ action.launches = 0 /\ action.proc = "none" /\ cmd.status = "leased"
        /\ cmd.kind # "release"
    BY <1>1, <1>3 DEF Queue, NoAction, Models, Serves, Current
  <2> USE <1>1, <2>1, <2>2, <2>3, <2>4 DEF Turns, Others
  <2>11. DcpTypes'
    BY DEF DcpTypes
  <2>12. Queue' /\ Evidence' /\ Branch'
    BY DEF Queue, Evidence, Branch, Models
  <2>13. Train'
    BY DEF Train, Answers
  <2>14. Booting'
    BY DEF Booting, Procs
  <2>15. Alone'
    BY <1>3 DEF Alone, Runs, Current, Executing, Launches
  <2>16. \A q \in Procs : Serves(op[q])'
    BY DEF Serves, Current, Executing
  <2>17. \A q \in Procs : Launches(op[q])'
    BY <1>3 DEF Launches
  <2>18. \A q \in Procs : Orders(op[q])'
    BY DEF Orders, Current
  <2>19. \A q \in Procs : Pushes(op[q])'
    BY DEF Pushes, Pushing, Current, NewHeadOf, Executing
  <2>20. \A q \in Procs : Concludes(op[q])'
    BY DEF Concludes, Current, Answers
  <2> QED
    BY <2>11, <2>12, <2>13, <2>14, <2>15, <2>16, <2>17, <2>18, <2>19, <2>20
<1> QED
  BY <1>2, <1>3 DEF ReserveModelLaunch

\* The process of the model is started.
LEMMA LaunchStep ==
    ASSUME DcpInv, NEW p \in Procs, Launch(p)
    PROVE  DcpInv'
<1> USE DEF DcpInv
<1>1. /\ op[p].at = "launch" /\ action \in ActionRecord /\ Turns(p, "start")
      /\ action' = [action EXCEPT !.proc = "alive", !.launches = @ + 1]
      /\ UNCHANGED <<task, cmd, adm, events, applied, branch, tree, sent, run, passed, approved, shipped,
                     excuse, crashes, faults>>
  BY HandlerMoves DEF Launch, At, world, evidence, DcpTypes, Places
<1>2. /\ cmd.kind \in Models /\ action.id = cmd.id /\ action.id = op[p].cmd.id
      /\ op[p].cmd.id \in 1..task.id
      /\ action.status = "launching" /\ action.launches = 0 /\ action.proc = "none"
  BY <1>1 DEF Launches, Queue, NoAction, Serves
<1>3. /\ action' \in ActionRecord /\ action'.id = action.id /\ action'.status = "launching"
      /\ action'.proc = "alive" /\ action'.launches = 1
  <2>1. action' = [action EXCEPT !.proc = "alive", !.launches = 1]
    BY <1>1, <1>2
  <2>2. action \in ActionRecord /\ action.status = "launching"
    BY <1>1, <1>2
  <2> DEFINE s == [action EXCEPT !.proc = "alive"]
  <2>3. /\ s \in ActionRecord /\ s.id = action.id /\ s.status = action.status /\ s.proc = "alive"
    BY <2>2 DEF ActionRecord
  <2>4. action' = [s EXCEPT !.launches = 1]
    BY <2>1
  <2> HIDE DEF s
  <2> QED
    BY <2>2, <2>3, <2>4 DEF ActionRecord
<1> USE <1>1, <1>2, <1>3 DEF Turns, Others
<1>11. DcpTypes'
  BY DEF DcpTypes
<1>12. Queue' /\ Evidence' /\ Branch'
  BY DEF Queue, Evidence, Branch
<1>13. Train'
  BY DEF Train, Answers
<1>14. Booting'
  BY DEF Booting, Procs
<1>15. Alone'
  BY DEF Alone, Runs, Current, Executing
<1>16. \A q \in Procs : Serves(op[q])'
  BY DEF Serves, Current, Executing
<1>17. \A q \in Procs : Launches(op[q])'
  BY DEF Launches, Alone
<1>18. \A q \in Procs : Orders(op[q])'
  BY DEF Orders, Current
<1>19. \A q \in Procs : Pushes(op[q])'
  BY DEF Pushes, Pushing, Current, NewHeadOf, Executing
<1>20. \A q \in Procs : Concludes(op[q])'
  BY DEF Concludes, Current, Answers
<1> QED
  BY <1>11, <1>12, <1>13, <1>14, <1>15, <1>16, <1>17, <1>18, <1>19, <1>20

\* The action of the model runs.
LEMMA StartModelRuntimeStep ==
    ASSUME DcpInv, NEW p \in Procs, StartModelRuntime(p)
    PROVE  DcpInv'
<1> USE DEF DcpInv
<1>1. /\ op[p].at = "start" /\ action \in ActionRecord /\ Turns(p, "terminal")
      /\ action' = [action EXCEPT !.status = "running"]
      /\ UNCHANGED <<task, cmd, adm, events, applied, branch, tree, sent, run, passed, approved, shipped,
                     excuse, crashes, faults>>
  BY HandlerMoves DEF StartModelRuntime, At, world, evidence, DcpTypes, Places
<1>2. /\ cmd.kind \in Models /\ action.id = cmd.id /\ action.id = op[p].cmd.id
      /\ op[p].cmd.id \in 1..task.id
      /\ action.status = "launching" /\ action.proc # "none"
  BY <1>1 DEF Launches, Queue, NoAction, Serves
<1>3. /\ action' \in ActionRecord /\ action'.id = action.id /\ action'.status = "running"
      /\ action'.proc = action.proc /\ action'.launches = action.launches
      /\ action'.verdict = action.verdict
  BY <1>1, <1>2 DEF ActionRecord
<1> USE <1>1, <1>2, <1>3 DEF Turns, Others
<1>11. DcpTypes'
  BY DEF DcpTypes
<1>12. Queue' /\ Evidence' /\ Branch'
  BY DEF Queue, Evidence, Branch
<1>13. Train'
  BY DEF Train, Answers
<1>14. Booting'
  BY DEF Booting, Procs
<1>15. Alone'
  BY DEF Alone, Runs, Current, Executing
<1>16. \A q \in Procs : Serves(op[q])'
  BY DEF Serves, Current, Executing
<1>17. \A q \in Procs : Launches(op[q])'
  BY DEF Launches, Alone
<1>18. \A q \in Procs : Orders(op[q])'
  BY DEF Orders, Current
<1>19. \A q \in Procs : Pushes(op[q])'
  BY DEF Pushes, Pushing, Current, NewHeadOf, Executing
<1>20. \A q \in Procs : Concludes(op[q])'
  BY DEF Concludes, Current, Answers
<1> QED
  BY <1>11, <1>12, <1>13, <1>14, <1>15, <1>16, <1>17, <1>18, <1>19, <1>20

\* A model ends with a verdict of its kind.
LEMMA ModelEndsStep ==
    ASSUME DcpInv, ModelEnds
    PROVE  DcpInv'
<1> USE DEF DcpInv
<1>1. /\ action.proc = "alive" /\ action \in ActionRecord /\ task \in TaskRecord /\ op' = op
      /\ UNCHANGED <<task, cmd, adm, events, applied, branch, sent, run, passed, approved, shipped,
                     excuse, crashes, faults>>
  BY DEF ModelEnds, evidence, DcpTypes
<1>2. PICK v \in Verdicts[cmd.kind] :
        /\ action' = [action EXCEPT !.proc = "ended", !.verdict = v]
        /\ tree' = IF v = "produced" THEN task.rev + 1 ELSE tree
  BY DEF ModelEnds
<1>3. cmd.kind \in Models
  BY <1>1 DEF Queue, NoAction
<1>4. v \in {"produced", "failed", "approved", "rejected", "malformed"}
  BY <1>2, <1>3 DEF Verdicts, Models
<1>5. /\ action' \in ActionRecord /\ action'.id = action.id /\ action'.status = action.status
      /\ action'.proc = "ended" /\ action'.launches = action.launches /\ action'.verdict = v
  BY <1>1, <1>2, <1>4 DEF ActionRecord
<1>6. tree' \in Nat
  BY <1>1, <1>2 DEF DcpTypes, TaskRecord
<1> USE <1>1, <1>3, <1>5, <1>6
<1>11. DcpTypes'
  BY DEF DcpTypes
<1>12. Queue' /\ Evidence' /\ Branch'
  BY <1>2 DEF Queue, Evidence, Branch
<1>13. Train'
  BY DEF Train, Answers
<1>14. Booting'
  BY DEF Booting, Procs
<1>15. Alone'
  BY DEF Alone, Runs, Current, Executing
<1>16. \A q \in Procs : Serves(op[q])'
  BY DEF Serves, Current, Executing
<1>17. \A q \in Procs : Launches(op[q])'
  BY DEF Launches
<1>18. \A q \in Procs : Orders(op[q])'
  BY DEF Orders, Current
<1>19. \A q \in Procs : Pushes(op[q])'
  BY DEF Pushes, Pushing, Current, NewHeadOf, Executing
<1>20. \A q \in Procs : Concludes(op[q])'
  BY DEF Concludes, Current, Answers
<1> QED
  BY <1>11, <1>12, <1>13, <1>14, <1>15, <1>16, <1>17, <1>18, <1>19, <1>20

\* A model dies and leaves no artifact.
LEMMA ModelDiesStep ==
    ASSUME DcpInv, ModelDies
    PROVE  DcpInv'
<1> USE DEF DcpInv
<1>1. /\ action.proc = "alive" /\ action \in ActionRecord /\ op' = op /\ faults' \in 0..MaxFaults
      /\ action' = [action EXCEPT !.proc = "gone"]
      /\ UNCHANGED <<task, cmd, adm, events, applied, branch, tree, sent, run, passed, approved, shipped,
                     excuse, crashes>>
  BY Counting DEF ModelDies, evidence, world, DcpTypes
<1>3. cmd.kind \in Models
  BY <1>1 DEF Queue, NoAction
<1>5. /\ action' \in ActionRecord /\ action'.id = action.id /\ action'.status = action.status
      /\ action'.proc = "gone" /\ action'.launches = action.launches
  BY <1>1 DEF ActionRecord
<1> USE <1>1, <1>3, <1>5
<1>11. DcpTypes'
  BY DEF DcpTypes
<1>12. Queue' /\ Evidence' /\ Branch'
  BY DEF Queue, Evidence, Branch
<1>13. Train'
  BY DEF Train, Answers
<1>14. Booting'
  BY DEF Booting, Procs
<1>15. Alone'
  BY DEF Alone, Runs, Current, Executing
<1>16. \A q \in Procs : Serves(op[q])'
  BY DEF Serves, Current, Executing
<1>17. \A q \in Procs : Launches(op[q])'
  BY DEF Launches
<1>18. \A q \in Procs : Orders(op[q])'
  BY DEF Orders, Current
<1>19. \A q \in Procs : Pushes(op[q])'
  BY DEF Pushes, Pushing, Current, NewHeadOf, Executing
<1>20. \A q \in Procs : Concludes(op[q])'
  BY DEF Concludes, Current, Answers
<1> QED
  BY <1>11, <1>12, <1>13, <1>14, <1>15, <1>16, <1>17, <1>18, <1>19, <1>20

\* A release merges, or finds its base moved.
LEMMA ReleaseEndsStep ==
    ASSUME DcpInv, NEW n \in Admissions, NEW end \in {"merged", "moved"}, ReleaseEnds(n, end)
    PROVE  DcpInv'
<1> USE DEF DcpInv
<1>1. /\ run[n] = "running" /\ run' = [run EXCEPT ![n] = end] /\ op' = op
      /\ run \in [Admissions -> {"none", "running", "merged", "moved"}]
      /\ UNCHANGED <<task, cmd, action, adm, events, applied, branch, tree, sent, passed, approved, shipped,
                     excuse, crashes, faults>>
  BY DEF ReleaseEnds, evidence, db, DcpTypes
<1>2. /\ run' \in [Admissions -> {"none", "running", "merged", "moved"}] /\ run'[n] = end
      /\ \A m \in Admissions \ {n} : run'[m] = run[m]
  BY <1>1
<1>3. /\ task \in TaskRecord /\ adm \in AdmRecord /\ task.readmissions \in 0..MaxReadmissions
      /\ adm.n \in 0..(MaxReadmissions + 1) /\ MaxReadmissions \in Nat
      /\ adm.n > 0 => adm.n \in Admissions
      /\ task.state \in Merging => adm.n \in Admissions
  BY DcpV2Assumption DEF DcpTypes, TaskRecord, AdmRecord, Admissions, Train
<1>4. /\ adm.n \in Admissions /\ run[adm.n] \in {"merged", "moved"} => run'[adm.n] = run[adm.n]
      /\ adm.n \in Admissions => (run'[adm.n] = "none" <=> run[adm.n] = "none")
  BY <1>1, <1>2
<1>5. ASSUME NEW e, Answers(e)
      PROVE  Answers(e)'
  BY <1>1, <1>3, <1>4, <1>5 DEF Answers
<1>6. ASSUME NEW q \in Procs, op[q].at = "apply", Current(op[q]), op[q].cmd.kind = "merge"
      PROVE  adm.n \in Admissions
  <2>1. cmd.kind = "merge"
    BY <1>6 DEF Serves, Executing
  <2> QED
    BY <1>3, <2>1 DEF Queue, Stage, States, TaskRecord, Merging
<1> USE <1>1
<1>11. DcpTypes'
  BY <1>2 DEF DcpTypes
<1>12. Queue' /\ Evidence' /\ Branch'
  BY DEF Queue, Evidence, Branch
<1>13. Train'
  BY <1>2, <1>3, <1>4, <1>5 DEF Train, Merging, Released
<1>14. Booting'
  BY DEF Booting, Procs
<1>15. Alone'
  BY DEF Alone, Runs, Current, Executing
<1>16. \A q \in Procs : Serves(op[q])'
  BY DEF Serves, Current, Executing
<1>17. \A q \in Procs : Launches(op[q])'
  BY DEF Launches
<1>18. \A q \in Procs : Orders(op[q])'
  BY DEF Orders, Current
<1>19. \A q \in Procs : Pushes(op[q])'
  BY DEF Pushes, Pushing, Current, NewHeadOf, Executing
<1>20. \A q \in Procs : Concludes(op[q])'
  BY <1>4, <1>5, <1>6 DEF Concludes, Current
<1> QED
  BY <1>11, <1>12, <1>13, <1>14, <1>15, <1>16, <1>17, <1>18, <1>19, <1>20

\* The daemon dies with every call it serves, and the models perhaps with it.
LEMMA CrashStep ==
    ASSUME DcpInv, Crash
    PROVE  DcpInv'
<1> USE DEF DcpInv
<1>1. /\ action \in ActionRecord /\ Boot \in Procs /\ MaxCrashes \in Nat
      /\ crashes \in 0..MaxCrashes
      /\ crashes' \in 0..MaxCrashes /\ excuse' = FALSE
      /\ action' \in {action, [action EXCEPT !.proc = IF @ = "alive" THEN "gone" ELSE @]}
      /\ UNCHANGED <<task, cmd, adm, events, applied, branch, tree, sent, run, passed, approved, shipped,
                     faults>>
  BY DcpV2Assumption DEF Crash, evidence, world, DcpTypes, Procs
<1> DEFINE s == [Idle EXCEPT !.call = "startup", !.at = "recon"]
<1>2. op' = [p \in Procs |-> IF p = Boot THEN s ELSE Idle]
  BY DEF Crash
<1>3. /\ s \in OpRecord /\ s.at = "recon" /\ s.call = "startup" /\ s.ev = NoEvent
      /\ Idle \in OpRecord /\ Idle.at = "idle" /\ Idle.call = "none" /\ Idle.ev = NoEvent
      /\ NoEvent.kind = "none"
  BY IdleIs DEF Idle, OpRecord, Places, Calls, NoEvent
<1> HIDE DEF s
<1>4. /\ op' \in [Procs -> OpRecord]
      /\ \A p \in Procs : /\ op'[p].at = IF p = Boot THEN "recon" ELSE "idle"
                          /\ op'[p].call = IF p = Boot THEN "startup" ELSE "none"
                          /\ op'[p].ev.kind = "none"
  BY <1>2, <1>3
<1>5. /\ action' \in ActionRecord /\ action'.id = action.id /\ action'.status = action.status
      /\ action'.launches = action.launches /\ action'.verdict = action.verdict
      /\ action'.proc = action.proc \/ (action.proc = "alive" /\ action'.proc = "gone")
      /\ action = NoAction => action' = NoAction
  <2>1. CASE action' = action
    BY <1>1, <2>1
  <2>2. CASE action' = [action EXCEPT !.proc = IF @ = "alive" THEN "gone" ELSE @]
    <3>1. CASE action.proc = "alive"
      <4>1. action # NoAction /\ action' = [action EXCEPT !.proc = "gone"]
        BY <2>2, <3>1 DEF NoAction
      <4> QED
        BY <1>1, <3>1, <4>1 DEF ActionRecord
    <3>2. CASE action.proc # "alive"
      <4>1. action' = [action EXCEPT !.proc = action.proc]
        BY <2>2, <3>2
      <4>2. action' = action
        BY <1>1, <4>1 DEF ActionRecord
      <4> QED
        BY <1>1, <4>2
    <3> QED
      BY <3>1, <3>2
  <2> QED
    BY <1>1, <2>1, <2>2
<1> USE <1>1, <1>4
<1>11. DcpTypes'
  BY <1>5 DEF DcpTypes
<1>12. Queue' /\ Evidence' /\ Branch'
  BY <1>5 DEF Queue, Evidence, Branch
<1>13. Train'
  BY DEF Train, Answers
<1>14. Booting'
  BY DcpV2Assumption DEF Booting, Procs
<1>15. Alone'
  BY DEF Alone, Runs, Current, Executing
<1>16. \A q \in Procs : Serves(op[q])'
  BY DEF Serves, Current, Executing
<1>17. \A q \in Procs : Launches(op[q])'
  BY DEF Launches
<1>18. \A q \in Procs : Orders(op[q])'
  BY DEF Orders, Current
<1>19. \A q \in Procs : Pushes(op[q])'
  BY DEF Pushes, Pushing, Current, NewHeadOf, Executing
<1>20. \A q \in Procs : Concludes(op[q])'
  BY DEF Concludes, Answers, Executing
<1> QED
  BY <1>11, <1>12, <1>13, <1>14, <1>15, <1>16, <1>17, <1>18, <1>19, <1>20

-----------------------------------------------------------------------------
\* The initial state.
LEMMA DcpInvInit == Init => DcpInv
<1> SUFFICES ASSUME Init PROVE DcpInv
  OBVIOUS
<1> USE DEF Init
<1>0. /\ Boot \in Procs /\ MaxReadmissions \in Nat /\ MaxRecoveries \in Nat /\ MaxCrashes \in Nat
      /\ MaxFaults \in Nat
  BY DcpV2Assumption DEF Procs
<1>1. /\ \A p \in Procs : op[p] = Idle
      /\ Idle.at = "idle" /\ Idle.call = "none" /\ Idle.ev = NoEvent /\ NoEvent.kind = "none"
      /\ NoCmd.kind = "none" /\ NoCmd.status = "none" /\ NoCmd.id = 0
  BY DEF Idle, NoEvent, NoCmd
<1>2. DcpTypes
  <2>1. task \in TaskRecord
    BY <1>0 DEF TaskRecord, States
  <2>2. adm \in AdmRecord
    BY <1>0 DEF AdmRecord
  <2>3. cmd \in CmdRecord /\ action \in ActionRecord
    BY <1>0, IdleIs, QueuedIs
  <2>4. op \in [Procs -> OpRecord]
    BY IdleIs
  <2>5. /\ sent \in [Admissions -> 0..1]
        /\ run \in [Admissions -> {"none", "running", "merged", "moved"}]
    OBVIOUS
  <2>6. /\ events \subseteq EventRecord /\ applied \subseteq EventRecord /\ branch \in Nat
        /\ tree \in Nat
        /\ excuse \in BOOLEAN
    OBVIOUS
  <2>7. crashes \in 0..MaxCrashes /\ faults \in 0..MaxFaults
    BY <1>0
  <2> HIDE DEF Init
  <2> QED
    BY <2>1, <2>2, <2>3, <2>4, <2>5, <2>6, <2>7 DEF DcpTypes
<1>3. Queue
  BY <1>1 DEF Queue, Stage, Models
<1>4. Train /\ Evidence
  BY <1>1 DEF Train, Evidence, Early, Merging, Released
<1>5. Branch
  BY <1>1 DEF Branch
<1>6. Booting /\ Alone
  BY <1>0, <1>1 DEF Booting, Alone, Runs, Executing, Procs
<1>7. \A p \in Procs : Serves(op[p]) /\ Launches(op[p]) /\ Orders(op[p]) /\ Pushes(op[p])
  BY <1>1 DEF Serves, Launches, Orders, Pushes, Pushing, Executing
<1>8. \A p \in Procs : Concludes(op[p])
  BY <1>1 DEF Concludes, Answers
<1> QED
  BY <1>2, <1>3, <1>4, <1>5, <1>6, <1>7, <1>8 DEF DcpInv

\* A step that changes nothing.
LEMMA DcpInvStutters ==
    ASSUME DcpInv, UNCHANGED vars
    PROVE  DcpInv'
<1> USE DEF DcpInv, vars, db, world, evidence
<1>1. DcpTypes'
  BY DEF DcpTypes
<1>2. Queue' /\ Evidence' /\ Branch'
  BY DEF Queue, Evidence, Branch
<1>3. Train'
  BY DEF Train, Answers
<1>4. Booting'
  BY DEF Booting
<1>5. Alone'
  BY DEF Alone, Runs, Current
<1>6. \A q \in Procs : Serves(op[q])'
  BY DEF Serves, Current
<1>7. \A q \in Procs : Launches(op[q])'
  BY DEF Launches
<1>8. \A q \in Procs : Orders(op[q])'
  BY DEF Orders, Current
<1>9. \A q \in Procs : Pushes(op[q])'
  BY DEF Pushes, Pushing, Current, NewHeadOf
<1>10. \A q \in Procs : Concludes(op[q])'
  BY DEF Concludes, Current, Answers
<1> QED
  BY <1>1, <1>2, <1>3, <1>4, <1>5, <1>6, <1>7, <1>8, <1>9, <1>10

\* Every step keeps the invariant.
LEMMA DcpInvStep == DcpInv /\ [Next]_vars => DcpInv'
<1> SUFFICES ASSUME DcpInv, [Next]_vars
             PROVE  DcpInv'
  OBVIOUS
<1>1. ASSUME NEW p \in Handlers, Call(p)
      PROVE  DcpInv'
  BY <1>1, SubmitStep, WakeChecksStep, WakeReleaseStep, ReportExitStep DEF Call
<1>2. ASSUME NEW p \in Procs, Step(p)
      PROVE  DcpInv'
  <2>1. CASE RecordEvent(p) \/ List(p) \/ RecoverCommandLease(p) \/ ReconcileModelCommands(p)
             \/ ClaimNextCommand(p)
    BY <2>1, RecordEventStep, ListStep, RecoverCommandLeaseStep, ReconcileModelCommandsStep,
       ClaimNextCommandStep
  <2>2. CASE CompleteChecks(p) \/ ObserveRelease(p) \/ ObserveDeployment(p) \/ VerifyTerminal(p)
             \/ PrepareEffect(p) \/ DispatchRelease(p) \/ FenceAdmissionDispatch(p) \/ Drifts(p)
    BY <2>2, CompleteChecksStep, ObserveReleaseStep, ObserveDeploymentStep, VerifyTerminalStep,
       PrepareEffectStep, DispatchReleaseStep, FenceAdmissionDispatchStep, DriftsStep
  <2>3. CASE FenceCommandEffect(p) \/ Effect(p) \/ EffectRefused(p) \/ AdoptSuccessor(p) \/ EffectFails(p)
             \/ DispatchAdmission(p) \/ ApplyOutcome(p) \/ FailClosed(p)
    BY <2>3, FenceCommandEffectStep, EffectStep, EffectRefusedStep, AdoptSuccessorStep,
       EffectFailsStep, DispatchAdmissionStep, ApplyOutcomeStep, FailClosedStep
  <2>4. CASE ReconcileRevision(p) \/ ReconcilePublication(p) \/ ReconcileAdmission(p)
             \/ ReconcileRelease(p) \/ ReconcileReadmission(p) \/ ReconcileFails(p)
    BY <2>4, ReconcileRevisionStep, ReconcilePublicationStep, ReconcileAdmissionStep,
       ReconcileReleaseStep, ReconcileReadmissionStep, ReconcileFailsStep
  <2>5. CASE DriveModels(p) \/ ReserveModelLaunch(p) \/ Launch(p) \/ LaunchFails(p)
             \/ StartModelRuntime(p) \/ ImmediateTerminal(p) \/ CompleteDirectModel(p)
    BY <2>5, DriveModelsStep, ReserveModelLaunchStep, LaunchStep, LaunchFailsStep,
       StartModelRuntimeStep, ImmediateTerminalStep, CompleteDirectModelStep
  <2> QED
    BY <1>2, <2>1, <2>2, <2>3, <2>4, <2>5 DEF Step
<1>3. CASE Outside
  BY <1>3, ModelEndsStep, ModelDiesStep, ReportLostStep, CrashStep, ReleaseEndsStep DEF Outside
<1> QED
  BY <1>1, <1>2, <1>3, ReconcileDirectModelsStep, DcpInvStutters DEF Next

\* DcpInv holds of every reachable state.
LEMMA DcpInvHolds == Spec => []DcpInv
<1> QED
  BY DcpInvInit, DcpInvStep, PTL DEF Spec

\* The rows of a task keep their types, and the active command and its model action
\* are those of the current revision, whatever handlers and Startup do at once.
THEOREM DcpTypeCorrect == Spec => []TypeOK
<1>1. DcpInv => TypeOK
  <2> SUFFICES ASSUME DcpInv PROVE TypeOK
    OBVIOUS
  <2>1. /\ task \in TaskRecord /\ cmd \in CmdRecord /\ action \in ActionRecord /\ adm \in AdmRecord
        /\ Queue /\ Train /\ task.rev \in Nat /\ task.head \in Nat
    BY DEF DcpInv, DcpTypes, TaskRecord
  <2>2. /\ Outcome["produced"].state = "checks_waiting"
        /\ Outcome["checked"].state = "review_queued"
        /\ Outcome["approved"].state = "admission_waiting"
        /\ Outcome["rejected"].state = "repair_queued"
        /\ Outcome["admitted"].state = "release_waiting"
        /\ Outcome["dispatched"].state = "merge_observing"
        /\ Outcome["moved"].state = "readmission"
        /\ Outcome["released"].state = "deployment_waiting"
        /\ Outcome["observed"].state = "deployment_observe"
        /\ Outcome["verified"].state = "deployed"
        /\ DOMAIN Outcome = Outcomes
    BY DEF Outcome, Outcomes
  <2>3. /\ task.state \in {"absent", "failed", "worker_queued"} \cup {Outcome[o].state : o \in DOMAIN Outcome}
        /\ task.id \in Nat /\ task.rev \in Nat /\ task.head \in 0..task.rev
        /\ task.repairs \in 0..1 /\ task.readmissions \in 0..MaxReadmissions
    <3>1. task.state \in States
      BY <2>1 DEF TaskRecord
    <3>2. ASSUME NEW s \in States \ {"absent", "failed", "worker_queued"}
          PROVE  \E o \in Outcomes : Outcome[o].state = s
      BY <2>2 DEF States, Outcomes
    <3> QED
      BY <2>1, <2>2, <3>1, <3>2 DEF TaskRecord, Queue
  <2>4. /\ cmd.kind \in Kinds /\ cmd.status \in {"none", "pending", "leased"}
        /\ cmd.fenced \in BOOLEAN /\ cmd.lease \in Calls \cup {"none", "recovery"}
        /\ cmd.gen \in 0..MaxRecoveries /\ (cmd.kind # "none" => cmd.id = task.id /\ cmd.rev = task.rev)
    BY <2>1 DEF CmdRecord, Queue
  <2>5. /\ action.status \in {"none", "queued", "launching", "running"}
        /\ action.status # "none" => action.id = cmd.id /\ cmd.kind \in Models
        /\ action.proc \in {"none", "alive", "ended", "gone"}
    BY <2>1 DEF ActionRecord, Queue, NoAction
  <2>6. /\ adm.n \in 0..(MaxReadmissions + 1) /\ adm.rev \in 0..task.rev /\ adm.fenced \in BOOLEAN
        /\ adm.status \in {"none", "waiting", "leased", "dispatched", "readmission_required", "succeeded"}
    BY <2>1 DEF AdmRecord, Train
  <2>7. \A e \in events \cup applied : e.kind \in Wakes /\ e.rev \in 1..task.rev
    BY <2>1 DEF DcpInv, DcpTypes, EventRecord, Train, Answers
  <2>8. /\ sent \in [Admissions -> Nat]
        /\ run \in [Admissions -> {"none", "running", "merged", "moved"}]
    BY DEF DcpInv, DcpTypes
  <2>9. \A p \in Procs :
          /\ op[p].call \in Calls \cup {"none"}
          /\ op[p].via \in {"drain", "list", "reconcile"} /\ op[p].next \in {"return", "list"}
          /\ op[p].cmd.kind \in Kinds /\ op[p].out \in {"none"} \cup DOMAIN Outcome
    BY <2>2 DEF DcpInv, DcpTypes, OpRecord, CmdRecord
  <2>10. excuse \in BOOLEAN /\ crashes \in 0..MaxCrashes /\ faults \in 0..MaxFaults
    BY DEF DcpInv, DcpTypes
  <2> QED
    BY <2>3, <2>4, <2>5, <2>6, <2>7, <2>8, <2>9, <2>10 DEF TypeOK
<1> QED
  BY <1>1, DcpInvHolds, PTL

\* Of the handlers that drive a model at once, and the daemons that come and go, one
\* starts its process, for the reservation lets one of them through.
THEOREM ModelLaunchedOnce == Spec => []LaunchedOnce
<1>1. DcpInv => LaunchedOnce
  BY DEF DcpInv, DcpTypes, ActionRecord, LaunchedOnce
<1> QED
  BY <1>1, DcpInvHolds, PTL

\* What was sent to release was checked and reviewed at that revision, and a deployed
\* task merged the head of its last admission, whose release was ordered once.
THEOREM DeploysWhatWasChecked == Spec => []DeployedAsChecked
<1>1. DcpInv => DeployedAsChecked
  <2> SUFFICES ASSUME DcpInv PROVE DeployedAsChecked
    OBVIOUS
  <2>1. Train /\ Evidence /\ Branch /\ Queue /\ task \in TaskRecord /\ MaxReadmissions \in Nat
    BY DcpV2Assumption DEF DcpInv, DcpTypes
  <2>2. ASSUME task.state \in Released
        PROVE  /\ adm.n = task.readmissions + 1 /\ sent[adm.n] = 1 /\ run[adm.n] = "merged"
               /\ task.rev \in shipped
               /\ [kind |-> "merge", rev |-> task.rev, n |-> adm.n] \in applied \ events
    BY <2>1, <2>2 DEF Train, Merging, Released, TaskRecord
  <2>3. task.state \in Released => branch = task.head
    BY <2>1 DEF Branch, Released, Queue, Stage
  <2> QED
    BY <2>1, <2>2, <2>3 DEF DeployedAsChecked, Released, Evidence
<1> QED
  BY <1>1, DcpInvHolds, PTL

-----------------------------------------------------------------------------
\* A step that leaves the task and the orders leaves what the submitter sees.
LEMMA FlowStutters ==
    ASSUME task' = task, sent' = sent
    PROVE  UNCHANGED Flow!vars
  BY DEF Flow!vars

\* A transition of the queue is one of the law, or spends what it may spend.
LEMMA FlowAdvances ==
    ASSUME DcpInv, NEW out, NEW ev, Proper(out, ev), Advance(out, ev), sent' = sent
    PROVE  Flow!Next
<1>1. /\ out \in Outcomes /\ (out = "moved" => task.readmissions < MaxReadmissions)
      /\ out = "rejected" => task.repairs = 0
      /\ out = "dispatched" => sent[adm.n] = 1
  BY DEF Proper
<1>2. Advanced(out)
  BY <1>1, AdvanceRows DEF DcpInv
<1>3. /\ task.repairs \in 0..1 /\ task.readmissions \in Nat /\ Train
  BY DcpV2Assumption DEF DcpInv, DcpTypes, TaskRecord
<1>4. CASE out \in {"produced", "published", "checked", "approved", "admitted", "rebased", "observed",
                    "verified"}
  <2>1. <<task.state, task'.state>> \in Flow!Law
    BY <1>2, <1>4, Endings DEF Advanced, Flow!Law
  <2>2. task'.repairs = task.repairs /\ task'.readmissions = task.readmissions
    BY <1>2, <1>4 DEF Advanced
  <2>3. \E step \in Flow!Law : Flow!Move(step[1], step[2])
    BY <2>1 DEF Flow!Move
  <2> QED
    BY <2>2, <2>3 DEF Flow!Next, Flow!Advance
<1>5. CASE out = "rejected"
  BY <1>1, <1>2, <1>3, <1>5, Endings DEF Advanced, Flow!Next, Flow!Reject, Flow!Move
<1>6. CASE out = "moved"
  BY <1>1, <1>2, <1>3, <1>6, Endings DEF Advanced, Flow!Next, Flow!Readmit, Flow!Move
<1>7. CASE out \in {"dispatched", "released"}
  <2>1. sent[task.readmissions + 1] = 1
    BY <1>1, <1>3, <1>7, Endings DEF Train, Merging
  <2> QED
    BY <1>2, <1>7, <2>1, Endings DEF Advanced, Flow!Next, Flow!Observe, Flow!Move, Flow!Current
<1> QED
  BY <1>1, <1>4, <1>5, <1>6, <1>7 DEF Outcomes

\* A task that fails was under way.
LEMMA FlowFails ==
    ASSUME DcpInv, cmd.kind # "none", NEW cause, FailTask(cause), sent' = sent
    PROVE  Flow!Next
<1>1. task.state \notin {"absent", "deployed", "failed"} /\ task \in TaskRecord
  BY DEF DcpInv, DcpTypes, Queue, Stage
<1>2. /\ task'.state = "failed" /\ task'.repairs = task.repairs
      /\ task'.readmissions = task.readmissions
  BY <1>1 DEF FailTask, TaskRecord
<1> QED
  BY <1>1, <1>2 DEF Flow!Next, Flow!Fail

\* An order is the only one of its admission.
LEMMA FlowShips ==
    ASSUME DcpInv, NEW p \in Procs, op[p].at = "effect", op[p].cmd.kind = "release", Order, task' = task
    PROVE  Flow!Next
<1>1. cmd.kind = "release" /\ sent[adm.n] = 0
  BY DEF DcpInv, Orders, Serves, Executing
<1>2. task.state = "release_waiting" /\ adm.n = task.readmissions + 1
  BY <1>1 DEF DcpInv, DcpTypes, TaskRecord, Queue, Stage, States, Train, Merging
<1>3. sent' = [sent EXCEPT ![task.readmissions + 1] = 1]
  BY <1>1, <1>2 DEF Order
<1> QED
  BY <1>1, <1>2, <1>3 DEF Flow!Next, Flow!Ship, Flow!Current

\* An effect that lands orders a release, or moves nothing the submitter sees.
LEMMA FlowLands ==
    ASSUME DcpInv, NEW p \in Procs, op[p].at = "effect", Lands(op[p].cmd), task' = task
    PROVE  Flow!Next \/ UNCHANGED Flow!vars
<1>1. op[p].cmd.kind \in Effects
  BY DEF DcpInv, Serves
<1>2. CASE op[p].cmd.kind = "release" /\ Order
  BY <1>2, FlowShips
<1>3. CASE Push(op[p].cmd) \/ UNCHANGED <<world, shipped>>
  BY <1>3, FlowStutters DEF Push, world
<1> QED
  BY <1>1, <1>2, <1>3, Landing

\* A step of a handler maps to a step of the task or to none.
LEMMA FlowStep ==
    ASSUME DcpInv, NEW p \in Procs, Step(p)
    PROVE  Flow!Next \/ UNCHANGED Flow!vars
<1>1. CASE RecordEvent(p) \/ List(p) \/ RecoverCommandLease(p) \/ ReconcileModelCommands(p)
           \/ ClaimNextCommand(p)
  BY <1>1, FlowStutters DEF RecordEvent, List, RecoverCommandLease, ReconcileModelCommands,
     ClaimNextCommand, db, world
<1>2. CASE CompleteChecks(p) \/ ObserveRelease(p) \/ ObserveDeployment(p) \/ VerifyTerminal(p)
           \/ PrepareEffect(p) \/ DispatchRelease(p) \/ FenceAdmissionDispatch(p) \/ Drifts(p)
  BY <1>2, FlowStutters DEF CompleteChecks, ObserveRelease, ObserveDeployment, VerifyTerminal,
     PrepareEffect, DispatchRelease, FenceAdmissionDispatch, Drifts, db, world
<1>3. CASE FenceCommandEffect(p) \/ EffectRefused(p) \/ AdoptSuccessor(p) \/ DispatchAdmission(p)
  BY <1>3, FlowStutters DEF FenceCommandEffect, EffectRefused, AdoptSuccessor, DispatchAdmission,
     db, world
<1>4. CASE Effect(p)
  BY <1>4, FlowLands DEF Effect, At, db
<1>5. CASE EffectFails(p)
  <2>1. CASE UNCHANGED <<world, shipped>>
    BY <1>5, <2>1, FlowStutters DEF EffectFails, db, world
  <2>2. CASE At(p, "effect") /\ Lands(op[p].cmd)
    BY <1>5, <2>2, FlowLands DEF EffectFails, At, db
  <2> QED
    BY <1>5, <2>1, <2>2 DEF EffectFails
<1>6. CASE ApplyOutcome(p)
  <2>1. op[p].at = "apply" /\ sent' = sent
    BY <1>6 DEF ApplyOutcome, At, world
  <2>2. CASE /\ Holds(op[p].cmd) /\ ~(op[p].out = "moved" /\ task.readmissions = MaxReadmissions)
             /\ Advance(op[p].out, op[p].ev)
    BY <2>1, <2>2, OutcomeHolds, FlowAdvances
  <2>3. CASE Holds(op[p].cmd) /\ FailTask("transition_failed")
    BY <2>1, <2>3, CalmAtTheEnd, FlowFails
  <2>4. CASE UNCHANGED <<db, evidence>>
    BY <2>1, <2>4, FlowStutters DEF db
  <2> QED
    BY <1>6, <2>2, <2>3, <2>4 DEF ApplyOutcome
<1>7. CASE FailClosed(p)
  <2>1. op[p].at = "fail" /\ sent' = sent
    BY <1>7 DEF FailClosed, At, world
  <2>2. ASSUME NEW cause, Holds(op[p].cmd), FailTask(cause)
        PROVE  Flow!Next
    BY <2>1, <2>2, CalmAtTheEnd, FlowFails
  <2>3. CASE UNCHANGED <<db, evidence>>
    BY <2>1, <2>3, FlowStutters DEF db
  <2> QED
    BY <1>7, <2>2, <2>3 DEF FailClosed
<1>8. CASE ReconcileRevision(p) \/ ReconcilePublication(p) \/ ReconcileAdmission(p)
           \/ ReconcileRelease(p) \/ ReconcileReadmission(p) \/ ReconcileFails(p)
  BY <1>8, FlowStutters DEF ReconcileRevision, ReconcilePublication, ReconcileAdmission,
     ReconcileRelease, ReconcileReadmission, ReconcileFails, db, world
<1>9. CASE DriveModels(p) \/ ReserveModelLaunch(p) \/ Launch(p) \/ LaunchFails(p)
           \/ StartModelRuntime(p) \/ ImmediateTerminal(p)
  BY <1>9, FlowStutters DEF DriveModels, ReserveModelLaunch, Launch, LaunchFails,
     StartModelRuntime, ImmediateTerminal, db, world
<1>10. CASE CompleteDirectModel(p)
  <2>1. op[p].at = "complete" /\ sent' = sent
    BY <1>10 DEF CompleteDirectModel, At, world
  <2>2. CASE /\ action.id = op[p].cmd.id /\ action.status = "running" /\ ~Unusable
             /\ action.verdict # "failed" /\ Advance(action.verdict, NoEvent)
    <3>1. action.proc = "ended"
      BY <2>1, <2>2 DEF DcpInv, Launches
    <3> QED
      BY <2>1, <2>2, <3>1, VerdictHolds, FlowAdvances
  <2>3. CASE action.status = "running" /\ FailTask("model_failed")
    <3>1. cmd.kind # "none"
      BY <2>3, CalmAfterRunning DEF Models
    <3> QED
      BY <2>1, <2>3, <3>1, FlowFails
  <2>4. CASE UNCHANGED <<db, evidence>>
    BY <2>1, <2>4, FlowStutters DEF db
  <2> QED
    BY <1>10, <2>2, <2>3, <2>4 DEF CompleteDirectModel
<1> QED
  BY <1>1, <1>2, <1>3, <1>4, <1>5, <1>6, <1>7, <1>8, <1>9, <1>10 DEF Step

\* The queue, its handlers, Startup and the deaths of the daemon implement the task
\* its submitter sees: the law of its states, its budgets, and one order to an admission.
THEOREM QueueImplementsFlow == Spec => Implements
<1>1. Init => Flow!Init
  BY DEF Init, Flow!Init, Flow!Admissions, Admissions
<1>2. DcpInv /\ [Next]_vars => [Flow!Next]_(Flow!vars)
  <2> SUFFICES ASSUME DcpInv, [Next]_vars
               PROVE  Flow!Next \/ UNCHANGED Flow!vars
    OBVIOUS
  <2>1. ASSUME NEW p \in Handlers, Submit(p)
        PROVE  Flow!Next
    <3>1. /\ task \in TaskRecord /\ task.state = "absent"
          /\ task' = [task EXCEPT !.state = "worker_queued", !.id = 1, !.rev = 1, !.head = 1]
          /\ sent' = sent
      BY <2>1 DEF Submit, DcpInv, DcpTypes, world
    <3>2. /\ task'.state = "worker_queued" /\ task'.repairs = task.repairs
          /\ task'.readmissions = task.readmissions
      BY <3>1 DEF TaskRecord
    <3>3. <<task.state, task'.state>> \in Flow!Law
      BY <3>1, <3>2 DEF Flow!Law
    <3>4. \E step \in Flow!Law : Flow!Move(step[1], step[2])
      BY <3>3 DEF Flow!Move
    <3> QED
      BY <3>1, <3>2, <3>4 DEF Flow!Next, Flow!Advance
  <2>2. ASSUME NEW p \in Handlers, Call(p), ~Submit(p)
        PROVE  UNCHANGED Flow!vars
    BY <2>2, FlowStutters DEF Call, WakeChecks, WakeRelease, ReportExit, db, world
  <2>3. CASE ReconcileDirectModels
    BY <2>3, FlowStutters DEF ReconcileDirectModels, db, world
  <2>4. CASE Outside
    BY <2>4, FlowStutters DEF Outside, ModelEnds, ModelDies, ReportLost, Crash, ReleaseEnds, db,
       world
  <2>5. CASE UNCHANGED vars
    BY <2>5, FlowStutters DEF vars, db, world
  <2> QED
    BY <2>1, <2>2, <2>3, <2>4, <2>5, FlowStep DEF Next
<1> QED
  BY <1>1, <1>2, DcpInvHolds, PTL DEF Spec, Implements, Flow!Spec

-----------------------------------------------------------------------------
(* Nothing is left behind.  Attended says that, as long as no call has     *)
(* failed since the task moved, its command waits for something outside or *)
(* has a handler on duty; OnDuty lists who that can be, at each place.     *)
(* Firm is what a handler on duty relies on: the fence, the admission and  *)
(* the reconciled command stay as it read them, whatever others do.        *)

\* What a handler reconciles is the fenced command itself, which does not change
\* any more until it ends.
Reads(p) ==
    op[p].via = "reconcile" /\ Current(op[p]) /\ op[p].at \in Executing \cup {"reconcile"} =>
      op[p].cmd = cmd /\ cmd.fenced

\* Nobody but the handler that runs a command fences it.
Unfenced(p) == Current(op[p]) /\ op[p].at \in {"process", "admfence", "fence"} => ~cmd.fenced

\* The boot starts with a death of the daemon.
Booted(p) == op[p].at = "recon" => crashes > 0

\* The admission of a release is leased and fenced before the command is, and
\* settled once; a handler whose release is over finds it settled.
Settles(p) ==
    op[p].cmd.kind = "release" =>
      /\ Current(op[p]) /\ op[p].at = "admfence" => adm.status = "leased"
      /\ Current(op[p]) /\ op[p].at \in {"fence", "effect"} => adm.status = "leased" /\ adm.fenced
      /\ Current(op[p]) /\ op[p].at = "apply" => adm.status = "dispatched"
      /\ op[p].at \in Executing \cup {"reconcile"} => op[p].cmd.rev <= adm.rev
      /\ ~Current(op[p]) /\ op[p].at \in Executing \cup {"reconcile"} =>
           (op[p].cmd.rev = adm.rev /\ task.state # "failed" => adm.status \notin {"waiting", "leased"})

\* What is fenced has an effect or a process, and nothing reports before it ends.
Fencing ==
    /\ cmd.fenced => cmd.kind \in Models \cup Effects
    /\ cmd.kind \in Models => (cmd.fenced <=> action.status # "queued")
    /\ action.proc \in {"none", "alive"} => ~action.reported
    /\ cmd.kind = "release" /\ cmd.fenced => adm.status \in {"leased", "dispatched"} /\ adm.fenced

\* A release that has reported before its order was recorded has a handler that
\* will find the merge to be observed, or records the order itself.
ThisMerge(e) == e.kind = "merge" /\ e.rev = task.rev
Recorder(p) ==
    \/ op[p].at = "list" /\ ThisMerge(op[p].ev)
    \/ /\ Current(op[p]) /\ op[p].via = "reconcile"
       /\ op[p].at \in {"settle", "apply", "fail"} \/ (op[p].at = "reconcile" /\ ThisMerge(op[p].ev))
Ordered(p) == Current(op[p]) /\ op[p].at \in {"settle", "apply"} /\ op[p].via # "reconcile"
Heard ==
    cmd.kind = "release" /\ (\E e \in events : ThisMerge(e)) /\ (\E p \in Procs : Ordered(p)) =>
      \E q \in Procs : Recorder(q)

Firm ==
    /\ Fencing /\ Heard
    /\ \A p \in Procs : Reads(p) /\ Unfenced(p) /\ Booted(p) /\ Settles(p)

\* A handler whose command is over, and that will return with an error for it.
Doomed(p) ==
    /\ ~Current(op[p])
    /\ \/ op[p].at \in {"apply", "fail"}
       \/ op[p].at = "settle" /\ op[p].via = "reconcile"
       \/ /\ op[p].at = "reconcile" /\ op[p].cmd.kind = "release"
          /\ op[p].ev.kind = "merge" /\ op[p].ev.rev = op[p].cmd.rev

\* Who takes the active command up, or carries it on, by what it is at.
Collects(p) == cmd.status = "pending" /\ op[p].at \in {"drain", "models", "list"}
Answering(p) ==
    /\ cmd.kind \in Wakes /\ cmd.status = "leased"
    /\ op[p].at = "list" \/ (Current(op[p]) /\ op[p].at \in {"recover", "process", "apply", "fail"})
Carries(p) ==
    /\ cmd.kind \in Effects \cup {"deployment", "verify"} /\ cmd.status = "leased" /\ ~cmd.fenced
    /\ \/ op[p].at = "list" /\ op[p].call = "startup"
       \/ Current(op[p]) /\ op[p].at \in {"recover", "process", "admfence", "fence", "apply", "fail"}
Concluding(p) ==
    /\ cmd.kind \in Effects /\ cmd.fenced /\ Current(op[p])
    /\ op[p].at \in {"effect", "adopt", "apply", "fail"} \/ (op[p].at = "settle" /\ adm.status = "leased")
Drives(p) ==
    /\ action.status = "queued" /\ cmd.status = "leased"
    /\ \/ op[p].at = "list" /\ op[p].call = "startup"
       \/ op[p].at \in {"models", "drain", "drive"} /\ op[p].call # "release"
       \/ op[p].at \in {"reserve", "recover"} /\ Current(op[p])
Completes(p) == action.proc = "ended" /\ op[p].at = "complete" /\ Current(op[p])
Starts(p) == action.status = "launching" /\ action.proc = "none" /\ op[p].at = "launch"

OnDuty(p) ==
    \/ op[p].at = "recon" \/ Doomed(p) \/ Collects(p) \/ Answering(p) \/ Carries(p) \/ Concluding(p)
    \/ Drives(p) \/ Completes(p) \/ Starts(p)

\* What waits for something outside, or for the next restart.
Waits ==
    \/ task.state \in {"absent", "deployed", "failed"}
    \/ cmd.kind \in Wakes /\ Matched(cmd) = {}
    \/ /\ cmd.kind \in Effects /\ cmd.fenced
       /\ crashes + faults > 0 \/ (cmd.kind = "publication" /\ tree # cmd.rev)
    \/ action.status = "queued" /\ cmd.status = "leased" /\ cmd.lease = "release"
    \/ action.proc \in {"alive", "gone"} \/ (action.proc = "ended" /\ ~action.reported)

\* As long as no call has failed since the task moved, its command waits for
\* something outside, or has a handler on it.
Attended == ~excuse => Waits \/ \E p \in Procs : OnDuty(p)

\* A step of a handler counts no death of the daemon.
Tallied == crashes' = crashes /\ (faults' = faults \/ Faulty)

-----------------------------------------------------------------------------
\* A handler that takes no step keeps what it is at, while the task does not move.
LEMMA OthersKeep ==
    ASSUME NEW p \in Procs, Others(p), task' = task, NEW q \in Procs \ {p}
    PROVE  /\ op'[q] = op[q] /\ (Current(op[q])' <=> Current(op[q]))
           /\ (Recorder(q)' <=> Recorder(q)) /\ (Ordered(q)' <=> Ordered(q)) /\ (Doomed(q)' <=> Doomed(q))
<1>1. op'[q] = op[q]
  BY DEF Others
<1> QED
  BY <1>1 DEF Recorder, Ordered, ThisMerge, Current, Doomed

\* Who records the order goes on to, or nobody orders.
LEMMA HeardOn ==
    ASSUME Firm, NEW p \in Procs, Others(p), UNCHANGED <<task, events>>, cmd'.kind = cmd.kind,
           cmd.kind = "release" /\ Recorder(p) => Recorder(p)',
           cmd.kind = "release" /\ (\E e \in events : ThisMerge(e)) /\ Ordered(p)' => Ordered(p)
    PROVE  Heard'
<1>1. \A q \in Procs \ {p} : (Recorder(q)' <=> Recorder(q)) /\ (Ordered(q)' <=> Ordered(q))
  BY OthersKeep
<1>2. SUFFICES ASSUME cmd.kind = "release", \E e \in events : ThisMerge(e),
                      NEW q \in Procs, Ordered(q)'
               PROVE  \E r \in Procs : Recorder(r)'
  BY DEF Heard, ThisMerge
<1>3. Ordered(q)
  BY <1>1, <1>2
<1>4. PICK r \in Procs : Recorder(r)
  BY <1>2, <1>3 DEF Firm, Heard
<1> QED
  BY <1>1, <1>2, <1>4

Rows == UNCHANGED <<task, cmd, action, adm, events>>

\* A step that leaves the rows alone keeps all of it, if the handler that takes it
\* keeps its own, and stays on duty or leaves the command to what waits.
LEMMA PassRows ==
    ASSUME DcpInv, Firm, Attended, NEW p \in Procs, Others(p), Rows, Tallied, ~excuse' => ~excuse,
           Reads(p)', Unfenced(p)', Settles(p)', op'[p].at # "recon",
           cmd.kind = "release" /\ Recorder(p) => Recorder(p)',
           cmd.kind = "release" /\ (\E e \in events : ThisMerge(e)) /\ Ordered(p)' => Ordered(p),
           Waits => Waits', ~excuse' /\ OnDuty(p) /\ ~Waits /\ ~Waits' => OnDuty(p)'
    PROVE  Firm' /\ Attended'
<1>1. Fencing'
  BY DEF Firm, Fencing, Rows
<1>2. \A q \in Procs : Reads(q)' /\ Unfenced(q)' /\ Settles(q)'
  BY DEF Firm, Reads, Unfenced, Settles, Current, Rows, Others
<1>3. \A q \in Procs : Booted(q)'
  BY DEF Firm, Booted, Others, Tallied
<1>4. Heard'
  BY HeardOn DEF Rows
<1>5. \A q \in Procs \ {p} : OnDuty(q) => OnDuty(q)'
  BY OthersKeep DEF Rows, OnDuty, Collects, Answering, Carries, Concluding, Drives, Completes, Starts
<1>6. Attended'
  <2>1. SUFFICES ASSUME ~excuse', ~Waits, ~Waits'
                 PROVE  \E q \in Procs : OnDuty(q)'
    BY DEF Attended
  <2>2. PICK q \in Procs : OnDuty(q)
    BY <2>1 DEF Attended
  <2> QED
    BY <1>5, <2>1, <2>2
<1> QED
  BY <1>1, <1>2, <1>3, <1>4, <1>6 DEF Firm

\* What waits still waits when nothing moves.
LEMMA WaitsOn ==
    ASSUME DcpInv, Rows, Tallied, cmd.kind = "publication" => tree' = tree
    PROVE  Waits => Waits'
<1>1. crashes + faults > 0 => crashes' + faults' > 0
  BY DEF Tallied, Faulty, DcpInv, DcpTypes
<1> QED
  BY <1>1 DEF Waits, Matched, Rows

\* The same of a step that leaves the world alone as well.
LEMMA PassOn ==
    ASSUME DcpInv, Firm, Attended, NEW p \in Procs, Others(p), Still, Tallied, ~excuse' => ~excuse,
           Reads(p)', Unfenced(p)', Settles(p)', op'[p].at # "recon",
           cmd.kind = "release" /\ Recorder(p) => Recorder(p)',
           cmd.kind = "release" /\ Ordered(p)' => Ordered(p),
           ~excuse' /\ OnDuty(p) /\ ~Waits /\ ~Waits' => OnDuty(p)'
    PROVE  Firm' /\ Attended'
<1>1. Rows /\ tree' = tree
  BY DEF Still, Rows
<1> QED
  BY <1>1, WaitsOn, PassRows

\* A handler that rests owes nothing, unless it was on duty.
LEMMA RestsWith ==
    ASSUME DcpInv, Firm, Attended, NEW p \in Procs, Rests(p), Rows, Tallied, ~excuse' => ~excuse, Waits => Waits',
           cmd.kind = "release" => ~Recorder(p),
           ~excuse' /\ OnDuty(p) /\ ~Waits /\ ~Waits' => OnDuty(p)'
    PROVE  Firm' /\ Attended'
<1>1. Others(p) /\ op'[p].at \in {"idle", "drain", "models", "drive"}
  BY DEF Rests
<1>2. Reads(p)' /\ Unfenced(p)' /\ Settles(p)' /\ ~Ordered(p)'
  BY <1>1 DEF Reads, Unfenced, Settles, Ordered, Executing
<1> QED
  BY <1>1, <1>2, PassRows

\* A handler that goes on with its command, or fails it, stays on duty.
LEMMA TurnsWith ==
    ASSUME DcpInv, Firm, Attended, NEW p \in Procs, NEW at \in {"fence", "effect", "settle", "fail"},
           Turns(p, at), Rows, Tallied, ~excuse' => ~excuse, Waits => Waits',
           op[p].at \in {"process", "reconcile", "effect", "adopt", "settle"},
           at = "fence" => op[p].at = "process" /\ op[p].cmd.kind \in Effects \ {"release"},
           at = "effect" => op[p].at = "reconcile" /\ op[p].cmd.kind = "readmission",
           at = "settle" => op[p].at = "reconcile"
    PROVE  Firm' /\ Attended'
<1>1. /\ Others(p) /\ op'[p].at = at /\ op'[p].via = op[p].via /\ op'[p].cmd = op[p].cmd
      /\ op'[p].ev = op[p].ev
  BY DEF Turns
<1>2. /\ op[p].at = "reconcile" => op[p].via = "reconcile"
      /\ Current(op[p]) => cmd.kind = op[p].cmd.kind
  BY DEF DcpInv, Serves, Executing
<1>3. Reads(p) /\ Unfenced(p) /\ Settles(p)
  BY DEF Firm
<1>4. Reads(p)' /\ Unfenced(p)' /\ Settles(p)'
  BY <1>1, <1>2, <1>3 DEF Reads, Unfenced, Settles, Current, Executing, Rows
<1>5. cmd.kind = "release" /\ Recorder(p) => Recorder(p)'
  BY <1>1, <1>2 DEF Recorder, Current, ThisMerge, Rows
<1>6. cmd.kind = "release" /\ Ordered(p)' => Ordered(p)
  BY <1>1, <1>2 DEF Ordered, Current, Rows
<1>7. OnDuty(p) => OnDuty(p)'
  <2>1. OnDuty(p) => Doomed(p) \/ Answering(p) \/ Carries(p) \/ Concluding(p)
    BY DEF OnDuty, Collects, Drives, Completes, Starts
  <2>2. Doomed(p) => Doomed(p)'
    BY <1>1, <1>2 DEF Doomed, Current, Rows
  <2>3. Answering(p) => Answering(p)'
    BY <1>1, <1>2 DEF Answering, Current, Rows, Wakes, Effects
  <2>4. Carries(p) => Carries(p)'
    BY <1>1, <1>2 DEF Carries, Current, Rows
  <2>5. Concluding(p) => Concluding(p)'
    BY <1>1, <1>2 DEF Concluding, Current, Rows
  <2> QED
    BY <2>1, <2>2, <2>3, <2>4, <2>5 DEF OnDuty
<1> QED
  BY <1>1, <1>4, <1>5, <1>6, <1>7, PassRows

\* The first of a step that leaves the world alone.
LEMMA RestsOn ==
    ASSUME DcpInv, Firm, Attended, NEW p \in Procs, Rests(p), Still, Tallied, ~excuse' => ~excuse,
           cmd.kind = "release" => ~Recorder(p),
           ~excuse' /\ OnDuty(p) /\ ~Waits /\ ~Waits' => OnDuty(p)'
    PROVE  Firm' /\ Attended'
<1>1. Rows /\ tree' = tree
  BY DEF Still, Rows
<1> QED
  BY <1>1, WaitsOn, RestsWith

\* The same of one that goes on, where the world is left alone.
LEMMA TurnsOn ==
    ASSUME DcpInv, Firm, Attended, NEW p \in Procs, NEW at \in {"fence", "effect", "settle", "fail"},
           Turns(p, at), Still, Tallied, ~excuse' => ~excuse,
           op[p].at \in {"process", "reconcile", "effect", "adopt", "settle"},
           at = "fence" => op[p].at = "process" /\ op[p].cmd.kind \in Effects \ {"release"},
           at = "effect" => op[p].at = "reconcile" /\ op[p].cmd.kind = "readmission",
           at = "settle" => op[p].at = "reconcile"
    PROVE  Firm' /\ Attended'
<1>1. Rows /\ tree' = tree
  BY DEF Still, Rows
<1> QED
  BY <1>1, WaitsOn, TurnsWith

\* A handler that has an outcome stays on duty.
LEMMA HasOn ==
    ASSUME DcpInv, Firm, Attended, NEW p \in Procs, NEW out, NEW ev, Has(p, out, ev),
           Still, Tallied, ~excuse' => ~excuse, op[p].at \in {"process", "reconcile"},
           op[p].at = "process" => op[p].cmd.kind # "release",
           op[p].cmd.kind = "release" /\ Current(op[p]) => adm.status = "dispatched"
    PROVE  Firm' /\ Attended'
<1>1. Others(p) /\ op'[p].at = "apply" /\ op'[p].via = op[p].via /\ op'[p].cmd = op[p].cmd
  BY DEF Has
<1>2. /\ op[p].at = "reconcile" => op[p].via = "reconcile"
      /\ Current(op[p]) => cmd.kind = op[p].cmd.kind
  BY DEF DcpInv, Serves, Executing
<1>3. Reads(p) /\ Unfenced(p) /\ Settles(p)
  BY DEF Firm
<1>4. Reads(p)' /\ Unfenced(p)' /\ Settles(p)'
  BY <1>1, <1>2, <1>3 DEF Reads, Unfenced, Settles, Current, Executing, Still
<1>5. cmd.kind = "release" /\ Recorder(p) => Recorder(p)'
  BY <1>1, <1>2 DEF Recorder, Current, ThisMerge, Still
<1>6. cmd.kind = "release" /\ Ordered(p)' => Ordered(p)
  BY <1>1, <1>2 DEF Ordered, Current, Still
<1>7. OnDuty(p) => OnDuty(p)'
  BY <1>1, <1>2 DEF OnDuty, Doomed, Collects, Answering, Carries, Concluding, Drives, Completes,
     Starts, Current, Still, Wakes, Effects
<1> QED
  BY <1>1, <1>4, <1>5, <1>6, <1>7, PassOn

\* A request that begins, or a handler between commands, has nothing to keep yet.
LEMMA BeginsOn ==
    ASSUME DcpInv, Firm, Attended, NEW p \in Procs, Others(p), Still, Tallied, ~excuse' => ~excuse,
           op[p].at \in {"idle", "drive", "terminal", "complete", "reserve"},
           op'[p].at \in {"record", "list", "complete", "reserve"},
           ~excuse' /\ OnDuty(p) /\ ~Waits /\ ~Waits' => OnDuty(p)'
    PROVE  Firm' /\ Attended'
<1>1. /\ Reads(p)' /\ Unfenced(p)' /\ Settles(p)' /\ ~Recorder(p) /\ ~Ordered(p)'
      /\ op'[p].at # "recon"
  BY DEF Reads, Unfenced, Settles, Recorder, Ordered, Executing
<1> QED
  BY <1>1, PassOn

\* A step that puts the record of one handler is a step of that one.
LEMMA Puts ==
    ASSUME DcpInv, DcpInv', NEW p \in Procs, NEW o, op' = [op EXCEPT ![p] = o]
    PROVE  Others(p) /\ op'[p] = o
  BY DEF Others, DcpInv, DcpTypes

\* A wake begins.
LEMMA WakesAttend ==
    ASSUME DcpInv, DcpInv', Firm, Attended, NEW p \in Handlers,
           WakeRelease(p) \/ \E n \in 1..MaxRuns : WakeChecks(p, n)
    PROVE  Firm' /\ Attended'
<1>1. /\ p \in Procs /\ Still /\ Tallied /\ excuse' = excuse /\ op[p].at = "idle"
  BY DEF WakeRelease, WakeChecks, Serving, At, Procs, db, world, evidence, Still, Tallied
<1>2. \E call, c, ev : Serve(p, call, "record", c, ev)
  BY DEF WakeRelease, WakeChecks
<1>3. Others(p) /\ op'[p].at = "record"
  <2>1. PICK call, c, ev : Serve(p, call, "record", c, ev)
    BY <1>2
  <2> DEFINE o == [Idle EXCEPT !.call = call, !.at = "record", !.cmd = c, !.ev = ev]
  <2>2. op' = [op EXCEPT ![p] = o] /\ o.at = "record"
    BY <2>1 DEF Serve, Idle
  <2> HIDE DEF o
  <2> QED
    BY <1>1, <2>2, Puts
<1>4. ~OnDuty(p)
  BY <1>1 DEF OnDuty, Doomed, Collects, Answering, Carries, Concluding, Drives, Completes, Starts
<1> QED
  BY <1>1, <1>3, <1>4, BeginsOn

\* What an event of the current release tells of its command.
LEMMA Ordering ==
    ASSUME DcpInv, NEW p \in Procs, ThisMerge(op[p].ev), cmd.kind = "release"
    PROVE  cmd.fenced /\ cmd.status = "leased"
<1>1. sent[adm.n] = 1
  BY Answered DEF ThisMerge
<1> QED
  BY <1>1 DEF DcpInv, DcpTypes, CmdRecord, Queue, Train

\* What the rows tell of the active command.
LEMMA Command ==
    ASSUME DcpInv, Firm
    PROVE  /\ cmd.kind = "none" => task.state \in {"absent", "failed", "deployed"}
           /\ cmd.kind # "none" => cmd.id = task.id /\ cmd.rev = task.rev /\ cmd.status \in {"pending", "leased"}
           /\ cmd.kind \in Models \cup Wakes \cup Effects \cup {"none", "deployment", "verify"}
           /\ cmd.status = "pending" => ~cmd.fenced
           /\ cmd.fenced => cmd.kind \in Models \cup Effects /\ cmd.status = "leased"
           /\ cmd.kind \in Models => action.id = task.id /\ action.status \in {"queued", "launching", "running"}
           /\ cmd.kind \notin Models => action.status = "none" /\ action.proc = "none"
           /\ action.status = "queued" => action.proc = "none" /\ cmd.kind \in Models /\ ~cmd.fenced
           /\ cmd.kind = "release" => adm.rev = task.rev
<1>1. /\ task \in TaskRecord /\ cmd \in CmdRecord /\ action \in ActionRecord /\ Queue /\ Fencing /\ Train
  BY DEF DcpInv, DcpTypes, Firm
<1>2. cmd.kind \in Kinds /\ task.state \in States
  BY <1>1 DEF CmdRecord, TaskRecord
<1>3. /\ cmd.kind = "none" => task.state \in {"absent", "failed", "deployed"}
      /\ cmd.kind = "release" => task.state = "release_waiting"
  BY <1>1, <1>2 DEF Queue, Stage, States
<1>4. cmd.kind # "none" => cmd.id = task.id /\ cmd.rev = task.rev /\ cmd.status \in {"pending", "leased"}
  BY <1>1 DEF Queue, CmdRecord
<1>5. cmd.fenced => cmd.kind \in Models \cup Effects /\ cmd.status = "leased"
  BY <1>1, <1>4 DEF Queue, Fencing, Models, Effects
<1>6. cmd.kind \in Models => action.id = task.id /\ action.status \in {"queued", "launching", "running"}
  BY <1>1, <1>4 DEF Queue, ActionRecord, Models
<1>7. cmd.kind \notin Models => action.status = "none" /\ action.proc = "none"
  BY <1>1 DEF Queue, NoAction
<1>8. action.status = "queued" => action.proc = "none" /\ cmd.kind \in Models /\ ~cmd.fenced
  BY <1>1, <1>7 DEF Queue, Fencing
<1>9. cmd.kind = "release" => adm.rev = task.rev
  BY <1>1, <1>3 DEF Train
<1> QED
  BY <1>1, <1>2, <1>3, <1>4, <1>5, <1>6, <1>7, <1>8, <1>9 DEF Queue, Kinds

\* A handler that lists the leased commands: what it finds it goes on with.
LEMMA ListAttends ==
    ASSUME DcpInv, DcpInv', Firm, Attended, NEW p \in Procs, List(p)
    PROVE  Firm' /\ Attended'
<1>1. /\ Still /\ Tallied /\ excuse' = excuse /\ op[p].at = "list" /\ op[p] \in OpRecord
  BY Typed DEF DcpInv, List, At, db, world, evidence, Still, Tallied
<1> DEFINE at == Listed(op[p].call)
<1>2. /\ at \in {"drain", "models", "recover", "reconcile"}
      /\ at = "recover" => cmd.status = "leased" /\ cmd.kind # "none"
      /\ at = "reconcile" => cmd.status = "leased" /\ cmd.kind \in Effects /\ cmd.fenced
      /\ cmd.status = "leased" /\ cmd.fenced /\ cmd.kind \notin Models => at = "reconcile"
      /\ at \in {"drain", "models"} => ~Answering(p) /\ ~Carries(p) /\ ~Drives(p)
  BY <1>1, Command DEF Listed, Answering, Carries, Drives, Wakes, Models, Effects, DcpInv, Queue, NoCmd
<1>3. cmd.kind = "release" /\ ThisMerge(op[p].ev) => at = "reconcile"
  BY <1>2, Ordering DEF Models
<1>4. OnDuty(p) => Collects(p) \/ Answering(p) \/ Carries(p) \/ Drives(p)
  BY <1>1 DEF OnDuty, Doomed, Concluding, Completes, Starts
<1>5. Recorder(p) => ThisMerge(op[p].ev)
  BY <1>1 DEF Recorder
<1>6. CASE at \in {"drain", "models"}
  <2> DEFINE o == [Idle EXCEPT !.call = op[p].call, !.at = at]
  <2>1. op' = [op EXCEPT ![p] = o]
    BY <1>6 DEF List
  <2>2. o.at = at /\ o.ev = NoEvent /\ o.call = op[p].call
    BY DEF Idle
  <2> HIDE DEF at, o
  <2>3. Rests(p) /\ op'[p].at = at
    BY <1>6, <2>1, <2>2, Puts DEF Rests
  <2>4. OnDuty(p) => OnDuty(p)'
    BY <1>1, <1>2, <1>4, <1>6, <2>3 DEF OnDuty, Collects, Still
  <2> QED
    BY <1>1, <1>3, <1>5, <1>6, <2>3, <2>4, RestsOn
<1>7. CASE at = "recover"
  <2> DEFINE o == [Idle EXCEPT !.call = op[p].call, !.at = at, !.via = "list", !.cmd = cmd]
  <2>1. op' = [op EXCEPT ![p] = o]
    BY <1>7 DEF List
  <2>2. o.at = at /\ o.cmd = cmd /\ o.via = "list"
    BY DEF Idle
  <2> HIDE DEF at, o
  <2>3. Others(p) /\ op'[p].at = "recover" /\ op'[p].cmd = cmd /\ op'[p].via = "list"
    BY <1>7, <2>1, <2>2, Puts
  <2>4. Current(op[p])'
    BY <1>1, <1>2, <1>7, <2>3, Command DEF Current, Still
  <2>5. OnDuty(p) => OnDuty(p)'
    BY <1>1, <1>2, <1>4, <1>7, <2>3, <2>4 DEF OnDuty, Collects, Answering, Carries, Drives, Still
  <2>6. Reads(p)' /\ Unfenced(p)' /\ Settles(p)' /\ ~Ordered(p)'
    BY <2>3 DEF Reads, Unfenced, Settles, Ordered, Executing
  <2> QED
    BY <1>1, <1>3, <1>5, <1>7, <2>3, <2>5, <2>6, PassOn
<1>8. CASE at = "reconcile"
  <2> DEFINE o == [op[p] EXCEPT !.at = at, !.via = at, !.next = "return", !.cmd = cmd]
  <2>1. op' = [op EXCEPT ![p] = o]
    BY <1>8 DEF List
  <2>2. o.at = at /\ o.cmd = cmd /\ o.via = at /\ o.ev = op[p].ev
    BY <1>1 DEF OpRecord
  <2> HIDE DEF at, o
  <2>3. /\ Others(p) /\ op'[p].at = "reconcile" /\ op'[p].cmd = cmd /\ op'[p].via = "reconcile"
        /\ op'[p].ev = op[p].ev
    BY <1>8, <2>1, <2>2, Puts
  <2>4. Current(op[p])' /\ cmd.rev = task.rev /\ (cmd.kind = "release" => adm.rev = task.rev)
        /\ cmd.fenced /\ task.rev \in Nat
    BY <1>1, <1>2, <1>8, <2>3, Command DEF Current, Still, Effects, DcpInv, DcpTypes, TaskRecord
  <2>5. ~OnDuty(p)
    BY <1>2, <1>4, <1>8, Command DEF Collects, Answering, Carries, Drives, Wakes, Effects, Models
  <2>6. Reads(p)' /\ Unfenced(p)' /\ Settles(p)' /\ ~Ordered(p)'
    BY <1>1, <2>3, <2>4 DEF Reads, Unfenced, Settles, Ordered, Executing, Still
  <2>7. Recorder(p) => Recorder(p)'
    BY <1>1, <1>5, <2>3, <2>4 DEF Recorder, ThisMerge, Still
  <2> QED
    BY <1>1, <2>3, <2>5, <2>6, <2>7, PassOn
<1> QED
  BY <1>2, <1>6, <1>7, <1>8

\* A call that returns with an error leaves the task excused.
LEMMA ErrAttends ==
    ASSUME DcpInv, Firm, Attended, NEW p \in Procs, Err(p), Still, Tallied,
           cmd.kind = "release" => ~Recorder(p)
    PROVE  Firm' /\ Attended'
<1>1. Rests(p) /\ excuse' = TRUE
  BY HandlerMoves DEF Err, DcpInv
<1> QED
  BY <1>1, RestsOn

\* The models that run are left alone, the queued one is for the drive.
LEMMA ReconcileModelCommandsAttends ==
    ASSUME DcpInv, Firm, Attended, NEW p \in Procs, ReconcileModelCommands(p)
    PROVE  Firm' /\ Attended'
<1>1. /\ Still /\ Tallied /\ excuse' = excuse /\ op[p].at = "models" /\ DcpTypes
  BY DEF DcpInv, ReconcileModelCommands, At, db, world, evidence, Still, Tallied
<1> DEFINE busy == cmd.status = "leased" /\ cmd.kind \in Models /\ action.status # "queued"
<1>2. Go(p, "drain") \/ busy
  BY DEF ReconcileModelCommands
<1>3. Rests(p) /\ (Go(p, "drain") => op'[p].at = "drain")
  <2>1. Rests(p)
    BY <1>1, HandlerMoves DEF ReconcileModelCommands, AfterDrain
  <2> QED
    BY <1>1, <2>1 DEF Go, Idle, DcpTypes
<1>4. OnDuty(p) => Collects(p) \/ Drives(p)
  BY <1>1 DEF OnDuty, Doomed, Concluding, Completes, Starts, Answering, Carries
<1>5. CASE Go(p, "drain")
  <2>1. Collects(p) => Collects(p)'
    BY <1>1, <1>3, <1>5 DEF Collects, Still
  <2>2. Drives(p) => Drives(p)'
    BY <1>1, <1>3, <1>5 DEF Drives, Still, Rests
  <2> QED
    BY <1>1, <1>3, <1>4, <2>1, <2>2, RestsOn DEF OnDuty, Recorder
<1>6. CASE busy
  BY <1>1, <1>3, <1>4, <1>6, RestsOn DEF Collects, Drives, Recorder
<1> QED
  BY <1>2, <1>5, <1>6

\* A Drain that finds nothing pending goes on with the models.
LEMMA DrainEndsAttends ==
    ASSUME DcpInv, Firm, Attended, NEW p \in Procs, ClaimNextCommand(p), cmd.status # "pending"
    PROVE  Firm' /\ Attended'
<1>1. /\ Still /\ Tallied /\ excuse' = excuse /\ op[p].at = "drain" /\ DcpTypes
      /\ Go(p, AfterDrain(op[p]))
  BY DEF DcpInv, ClaimNextCommand, At, db, world, evidence, Still, Tallied
<1>3. Rests(p) /\ (op[p].call # "release" => op'[p].at = "drive")
  <2>1. Rests(p)
    BY <1>1, HandlerMoves DEF AfterDrain
  <2> QED
    BY <1>1, <2>1 DEF Go, Idle, DcpTypes, AfterDrain
<1>4. OnDuty(p) => Drives(p)
  BY <1>1 DEF OnDuty, Doomed, Concluding, Completes, Starts, Answering, Carries, Collects
<1>5. Drives(p) => Drives(p)'
  BY <1>1, <1>3 DEF Drives, Still, Rests
<1> QED
  BY <1>1, <1>3, <1>4, <1>5, RestsOn DEF OnDuty, Recorder

\* The answer of a command that is current would answer the active one.
LEMMA Unanswering ==
    ASSUME DcpInv, Firm, Attended, NEW p \in Procs, op[p].at = "process", op[p].cmd.kind \in Wakes,
           Matched(op[p].cmd) = {}, Go(p, Continue(op[p], TRUE)), Still, Tallied, excuse' = excuse
    PROVE  Firm' /\ Attended'
<1>1. Rests(p)
  BY Typed, Continues, HandlerMoves DEF DcpInv
<1>2. Current(op[p]) => Waits
  BY InService DEF Waits, Matched
<1>3. OnDuty(p) => Current(op[p])
  BY DEF OnDuty, Doomed, Concluding, Completes, Starts, Answering, Carries, Collects, Drives
<1> QED
  BY <1>1, <1>2, <1>3, RestsOn DEF Recorder

\* The checks are completed, or not yet.
LEMMA CompleteChecksAttends ==
    ASSUME DcpInv, Firm, Attended, NEW p \in Procs, CompleteChecks(p)
    PROVE  Firm' /\ Attended'
<1>1. DcpTypes /\ Still /\ Tallied /\ excuse' = excuse
  BY DEF DcpInv, CompleteChecks, db, world, evidence, Still, Tallied
<1>2. op[p].at = "process" /\ op[p].cmd.kind = "checks"
  BY DEF CompleteChecks, Unanswered, Ambiguous, Process, At
<1>3. CASE Unanswered(p, "checks")
  BY <1>1, <1>2, <1>3, Unanswering DEF Unanswered, Wakes
<1>4. CASE Ambiguous(p, "checks")
  <2>1. Turns(p, "fail")
    BY <1>1, <1>4, HandlerMoves DEF Ambiguous, Places
  <2> QED
    BY <1>1, <1>2, <2>1, TurnsOn
<1>5. CASE /\ Cardinality(Matched(op[p].cmd)) = 1
           /\ Conclude(p, "checked", CHOOSE e \in Matched(op[p].cmd) : TRUE)
  <2> DEFINE ev == CHOOSE e \in Matched(op[p].cmd) : TRUE
  <2>1. Matched(op[p].cmd) # {}
    BY <1>5, FS_EmptySet
  <2>2. ev \in Matched(op[p].cmd)
    BY <2>1
  <2> HIDE DEF ev
  <2>3. ev \in EventRecord
    BY <1>2, <2>2, Matches DEF Wakes
  <2>4. Has(p, "checked", ev)
    BY <1>1, <1>5, <2>3, HandlerMoves DEF ev, Outcomes
  <2> QED
    BY <1>1, <1>2, <2>4, HasOn
<1> QED
  BY <1>3, <1>4, <1>5 DEF CompleteChecks

\* The release is observed, or not yet.
LEMMA ObserveReleaseAttends ==
    ASSUME DcpInv, Firm, Attended, NEW p \in Procs, ObserveRelease(p)
    PROVE  Firm' /\ Attended'
<1>1. DcpTypes /\ Still /\ Tallied /\ excuse' = excuse
  BY DEF DcpInv, ObserveRelease, db, world, evidence, Still, Tallied
<1>2. op[p].at = "process" /\ op[p].cmd.kind = "merge"
  BY DEF ObserveRelease, Unanswered, Process, At
<1>3. CASE Unanswered(p, "merge")
  BY <1>1, <1>2, <1>3, Unanswering DEF Unanswered, Wakes
<1>4. CASE Go(p, "fail")
  <2>1. Turns(p, "fail")
    BY <1>1, <1>4, HandlerMoves DEF Places
  <2> QED
    BY <1>1, <1>2, <2>1, TurnsOn
<1>5. CASE /\ Cardinality(Matched(op[p].cmd)) = 1
           /\ Conclude(p, IF run[adm.n] = "moved" THEN "moved" ELSE "released",
                       CHOOSE e \in Matched(op[p].cmd) : TRUE)
  <2> DEFINE ev == CHOOSE e \in Matched(op[p].cmd) : TRUE
             out == IF run[adm.n] = "moved" THEN "moved" ELSE "released"
  <2>1. Matched(op[p].cmd) # {}
    BY <1>5, FS_EmptySet
  <2>2. ev \in Matched(op[p].cmd) /\ out \in Outcomes
    BY <2>1 DEF Outcomes
  <2> HIDE DEF ev, out
  <2>3. ev \in EventRecord
    BY <1>2, <2>2, Matches DEF Wakes
  <2>4. Has(p, out, ev)
    BY <1>1, <1>5, <2>2, <2>3, HandlerMoves DEF ev, out
  <2> QED
    BY <1>1, <1>2, <2>4, HasOn
<1> QED
  BY <1>3, <1>4, <1>5 DEF ObserveRelease

\* The deployment is observed, or verified.
LEMMA DeploymentAttends ==
    ASSUME DcpInv, Firm, Attended, NEW p \in Procs, ObserveDeployment(p) \/ VerifyTerminal(p)
    PROVE  Firm' /\ Attended'
<1>1. /\ DcpTypes /\ Still /\ Tallied /\ excuse' = excuse /\ op[p].at = "process"
      /\ op[p].cmd.kind \in {"deployment", "verify"}
  BY DEF DcpInv, ObserveDeployment, VerifyTerminal, Process, At, db, world, evidence, Still, Tallied
<1>2. \E out \in Outcomes : Has(p, out, NoEvent)
  BY <1>1, HandlerMoves, IdleIs DEF ObserveDeployment, VerifyTerminal, Outcomes
<1> QED
  BY <1>1, <1>2, HasOn

\* An effect is prepared, or what is read outside is not what the rows say.
LEMMA PrepareAttends ==
    ASSUME DcpInv, Firm, Attended, NEW p \in Procs, PrepareEffect(p) \/ Drifts(p)
    PROVE  Firm' /\ Attended'
<1>1. DcpTypes /\ Still /\ Tallied /\ excuse' = excuse /\ op[p].at = "process"
  BY DEF DcpInv, PrepareEffect, Drifts, Process, At, db, world, evidence, Still, Tallied
<1>2. Turns(p, "fail") \/ (Turns(p, "fence") /\ op[p].cmd.kind \in Effects \ {"release"})
  BY <1>1, HandlerMoves DEF PrepareEffect, Drifts, Process, Places, Effects
<1> QED
  BY <1>1, <1>2, TurnsOn

\* What a current effect is refused for waits for a restart.
LEMMA RefusedWaits ==
    ASSUME DcpInv, Firm, NEW p \in Procs, op[p].at = "effect", Current(op[p]), cmd.fenced, Refused(op[p].cmd)
    PROVE  Waits
<1>1. /\ cmd.kind = op[p].cmd.kind /\ cmd.rev = op[p].cmd.rev /\ cmd.kind \in Effects
      /\ branch \in Nat /\ task \in TaskRecord
  BY DEF DcpInv, Serves, Executing, DcpTypes
<1>2. cmd.rev = task.rev
  BY <1>1, Command DEF Effects
<1>3. ~(cmd.kind \in {"publication", "readmission"} /\ branch > NewHeadOf(op[p].cmd))
  <2>1. cmd.kind = "publication" => branch <= task.head /\ task.head = task.rev
    BY DEF DcpInv, Branch
  <2>2. cmd.kind = "readmission" => branch \in {task.head, task.rev + 1} /\ task.head <= task.rev
    BY DEF DcpInv, Branch, Queue
  <2> QED
    BY <1>1, <1>2, <2>1, <2>2 DEF NewHeadOf, TaskRecord
<1> QED
  BY <1>1, <1>3 DEF Refused, Waits

\* An effect that is refused ends its handler, or the task.
LEMMA EffectRefusedAttends ==
    ASSUME DcpInv, Firm, Attended, NEW p \in Procs, EffectRefused(p)
    PROVE  Firm' /\ Attended'
<1>1. DcpTypes /\ Still /\ Tallied /\ excuse' = excuse /\ op[p].at = "effect" /\ Refused(op[p].cmd)
  BY DEF DcpInv, EffectRefused, At, db, world, evidence, Still, Tallied
<1>2. CASE op[p].via = "reconcile"
  <2>1. Turns(p, "fail")
    BY <1>1, <1>2, HandlerMoves DEF EffectRefused, Unsettled, Places
  <2> QED
    BY <1>1, <2>1, TurnsOn
<1>3. CASE op[p].via # "reconcile"
  <2>1. Rests(p)
    BY <1>1, <1>3, Typed, Continues, HandlerMoves DEF EffectRefused, Unsettled
  <2>2. OnDuty(p) => Waits
    <3>1. OnDuty(p) => Concluding(p)
      BY <1>1 DEF OnDuty, Doomed, Completes, Starts, Answering, Carries, Collects, Drives
    <3> QED
      BY <1>1, <3>1, RefusedWaits DEF Concluding
  <2> QED
    BY <1>1, <1>3, <2>1, <2>2, RestsOn DEF Recorder
<1> QED
  BY <1>2, <1>3

\* A handler reconciles: what it finds fails the task or concludes the command, or
\* tells it nothing, which no command waits for.
LEMMA ReconcilesAttend ==
    ASSUME DcpInv, Firm, Attended, NEW p \in Procs, op[p].at = "reconcile", Still, Tallied,
           excuse' = excuse,
           \/ Go(p, "fail")
           \/ op[p].cmd.kind = "release" /\ Go(p, "settle")
           \/ op[p].cmd.kind = "readmission" /\ Go(p, "effect")
           \/ op[p].cmd.kind # "release" /\ \E out \in Outcomes : Conclude(p, out, NoEvent)
           \/ op[p].cmd.kind = "release" /\ adm.status = "dispatched" /\ Conclude(p, "dispatched", NoEvent)
           \/ /\ Go(p, Continue(op[p], FALSE))
              /\ op[p].cmd.kind = "release" => ~(op[p].ev.kind = "merge" /\ op[p].ev.rev = task.rev)
              /\ task.rev = op[p].cmd.rev
    PROVE  Firm' /\ Attended'
<1>0. DcpTypes /\ NoEvent \in EventRecord
  BY IdleIs DEF DcpInv
<1>1. CASE \/ Go(p, "fail")
           \/ op[p].cmd.kind = "release" /\ Go(p, "settle")
           \/ op[p].cmd.kind = "readmission" /\ Go(p, "effect")
  <2>1. \/ Turns(p, "fail")
        \/ op[p].cmd.kind = "release" /\ Turns(p, "settle")
        \/ op[p].cmd.kind = "readmission" /\ Turns(p, "effect")
    BY <1>0, <1>1, HandlerMoves DEF Places
  <2> QED
    BY <2>1, TurnsOn
<1>2. CASE \/ op[p].cmd.kind # "release" /\ \E out \in Outcomes : Conclude(p, out, NoEvent)
           \/ op[p].cmd.kind = "release" /\ adm.status = "dispatched" /\ Conclude(p, "dispatched", NoEvent)
  <2>1. \E out \in Outcomes : Has(p, out, NoEvent)
    BY <1>0, <1>2, HandlerMoves DEF Outcomes
  <2> QED
    BY <1>2, <2>1, HasOn
<1>3. CASE /\ Go(p, Continue(op[p], FALSE))
           /\ op[p].cmd.kind = "release" => ~(op[p].ev.kind = "merge" /\ op[p].ev.rev = task.rev)
           /\ task.rev = op[p].cmd.rev
  <2>1. Rests(p)
    BY <1>0, <1>3, Typed, Continues, HandlerMoves
  <2>2. ~OnDuty(p)
    BY <1>3 DEF OnDuty, Doomed, Completes, Starts, Answering, Carries, Collects, Drives, Concluding
  <2>3. cmd.kind = "release" => ~Recorder(p)
    BY <1>3, InService DEF Recorder, ThisMerge
  <2> QED
    BY <2>1, <2>2, <2>3, RestsOn
<1> QED
  BY <1>1, <1>2, <1>3

\* The reconciliations of the five effects.
LEMMA ReconcileAttends ==
    ASSUME DcpInv, Firm, Attended, NEW p \in Procs,
           \/ ReconcileRevision(p) \/ ReconcilePublication(p) \/ ReconcileAdmission(p)
           \/ ReconcileRelease(p) \/ ReconcileReadmission(p) \/ ReconcileFails(p)
    PROVE  Firm' /\ Attended'
<1>1. Still /\ Tallied /\ excuse' = excuse /\ op[p].at = "reconcile"
  BY DEF ReconcileRevision, ReconcilePublication, ReconcileAdmission, ReconcileRelease,
     ReconcileReadmission, ReconcileFails, Reconciles, At, db, world, evidence, Still, Tallied
<1>2. CASE ReconcileRevision(p) \/ ReconcileFails(p)
  BY <1>1, <1>2, ReconcilesAttend DEF ReconcileRevision, ReconcileFails
<1>3. CASE ReconcilePublication(p)
  <2>1. op[p].cmd.kind = "publication" /\ task.rev = op[p].cmd.rev
    BY <1>3 DEF ReconcilePublication, Reconciles, Drifted
  <2>2. Go(p, "fail") \/ Conclude(p, "published", NoEvent) \/ Go(p, Continue(op[p], FALSE))
    BY <1>3 DEF ReconcilePublication
  <2> QED
    BY <1>1, <2>1, <2>2, ReconcilesAttend DEF Outcomes
<1>4. CASE ReconcileAdmission(p)
  <2>1. op[p].cmd.kind = "admission" /\ (Go(p, "fail") \/ Conclude(p, "admitted", NoEvent))
    BY <1>4 DEF ReconcileAdmission, Reconciles
  <2> QED
    BY <1>1, <2>1, ReconcilesAttend DEF Outcomes
<1>5. CASE ReconcileRelease(p)
  <2>1. op[p].cmd.kind = "release" /\ task.rev = op[p].cmd.rev
    BY <1>5 DEF ReconcileRelease, Reconciles, Drifted
  <2>2. \/ Go(p, "settle") \/ Go(p, "fail")
        \/ adm.status = "dispatched" /\ Conclude(p, "dispatched", NoEvent)
        \/ Go(p, Continue(op[p], FALSE)) /\ ~(op[p].ev.kind = "merge" /\ op[p].ev.rev = task.rev)
    BY <1>5 DEF ReconcileRelease
  <2> QED
    BY <1>1, <2>1, <2>2, ReconcilesAttend
<1>6. CASE ReconcileReadmission(p)
  <2>1. op[p].cmd.kind = "readmission" /\ (Go(p, "effect") \/ Go(p, "fail"))
    BY <1>6 DEF ReconcileReadmission, Reconciles
  <2> QED
    BY <1>1, <2>1, ReconcilesAttend
<1> QED
  BY <1>2, <1>3, <1>4, <1>5, <1>6

\* At the end of a call it drives the models, and may list the commands after it.
LEMMA MovesOn ==
    ASSUME DcpInv, Firm, Attended, NEW p \in Procs,
           op[p].at \in {"drive", "terminal", "complete", "reserve"}, Go(p, op[p].next),
           Still, Tallied, excuse' = excuse, ~OnDuty(p)
    PROVE  Firm' /\ Attended'
<1>1. DcpTypes /\ op[p].next \in {"return", "list"}
  BY Typed DEF DcpInv, OpRecord
<1>2. Rests(p) \/ Turns(p, "list")
  BY <1>1, HandlerMoves DEF Places
<1>3. CASE Rests(p)
  BY <1>3, RestsOn DEF Recorder
<1>4. CASE Turns(p, "list")
  BY <1>4, BeginsOn DEF Turns
<1> QED
  BY <1>2, <1>3, <1>4

\* A call drives the queued model, or moves on.
LEMMA DriveModelsAttends ==
    ASSUME DcpInv, DcpInv', Firm, Attended, NEW p \in Procs, DriveModels(p)
    PROVE  Firm' /\ Attended'
<1>1. /\ DcpTypes /\ Still /\ Tallied /\ op[p].at = "drive" /\ op[p] \in OpRecord
      /\ excuse' = excuse \/ Err(p)
  BY Typed DEF DcpInv, DriveModels, At, db, world, evidence, Still, Tallied
<1>2. OnDuty(p) => Drives(p)
  BY <1>1 DEF OnDuty, Doomed, Concluding, Completes, Starts, Answering, Carries, Collects
<1>3. CASE action.status # "queued" /\ Go(p, op[p].next) /\ excuse' = excuse
  BY <1>1, <1>2, <1>3, MovesOn DEF Drives
<1>4. CASE Err(p)
  BY <1>1, <1>4, ErrAttends DEF Recorder
<1>5. CASE /\ action.status = "queued" /\ op' = [op EXCEPT ![p].at = "reserve", ![p].cmd = cmd]
           /\ excuse' = excuse
  <2>1. Others(p) /\ op'[p].at = "reserve" /\ op'[p].cmd = cmd
    BY <1>1, <1>5 DEF Others, DcpInv, DcpTypes, OpRecord
  <2>2. Drives(p) => Drives(p)'
    BY <1>1, <2>1, Command DEF Drives, Current, Still, Models
  <2> QED
    BY <1>1, <1>2, <1>5, <2>1, <2>2, BeginsOn DEF OnDuty
<1> QED
  BY <1>3, <1>4, <1>5 DEF DriveModels

\* A launch fails, and its call with it.
LEMMA LaunchFailsAttends ==
    ASSUME DcpInv, Firm, Attended, NEW p \in Procs, LaunchFails(p)
    PROVE  Firm' /\ Attended'
<1>1. Still /\ Tallied /\ Err(p) /\ ~Recorder(p)
  BY DEF LaunchFails, At, db, world, evidence, Still, Tallied, Recorder
<1> QED
  BY <1>1, ErrAttends

\* A model that was launched runs, or is over already.
LEMMA ImmediateTerminalAttends ==
    ASSUME DcpInv, Firm, Attended, NEW p \in Procs, ImmediateTerminal(p)
    PROVE  Firm' /\ Attended'
<1>1. DcpTypes /\ Still /\ Tallied /\ excuse' = excuse /\ op[p].at = "terminal"
  BY DEF DcpInv, ImmediateTerminal, At, db, world, evidence, Still, Tallied
<1>2. ~OnDuty(p)
  BY <1>1 DEF OnDuty, Doomed, Concluding, Completes, Starts, Answering, Carries, Collects, Drives
<1>3. CASE Go(p, op[p].next)
  BY <1>1, <1>2, <1>3, MovesOn
<1>4. CASE Go(p, "complete")
  <2>1. Turns(p, "complete")
    BY <1>1, <1>4, HandlerMoves DEF Places
  <2> QED
    BY <1>1, <1>2, <2>1, BeginsOn DEF Turns
<1> QED
  BY <1>3, <1>4 DEF ImmediateTerminal

\* The boot finds the models as the daemon left them, and lists the commands next.
LEMMA ReconcileDirectModelsAttends ==
    ASSUME DcpInv, DcpInv', Firm, Attended, ReconcileDirectModels
    PROVE  Firm' /\ Attended'
<1>1. /\ DcpTypes /\ Still /\ Tallied /\ op[Boot].at = "recon" /\ Boot \in Procs /\ op[Boot] \in OpRecord
      /\ excuse' = excuse \/ Err(Boot)
  BY Typed DEF DcpInv, ReconcileDirectModels, At, db, world, evidence, Still, Tallied, DcpTypes, Procs
<1>2. op[Boot].call = "startup" /\ crashes > 0 /\ ~Recorder(Boot)
  BY <1>1 DEF DcpInv, Booting, Firm, Booted, Recorder
<1>3. CASE Err(Boot)
  BY <1>1, <1>2, <1>3, ErrAttends
<1>4. CASE /\ action.status \in {"none", "queued"} \/ (action.status = "running" /\ action.proc = "alive")
           /\ Go(Boot, "list") /\ excuse' = excuse
  <2>1. Turns(Boot, "list")
    BY <1>1, <1>4, HandlerMoves DEF Places
  <2>2. Others(Boot) /\ op'[Boot].at = "list" /\ op'[Boot].call = "startup"
    BY <1>2, <2>1 DEF Turns
  <2>3. Waits \/ OnDuty(Boot)'
    <3>1. CASE cmd.kind = "none" \/ action.proc = "alive"
      BY <3>1, Command DEF Waits
    <3>2. CASE cmd.kind # "none" /\ cmd.status = "pending"
      BY <1>1, <2>2, <3>2 DEF OnDuty, Collects, Still
    <3>3. CASE cmd.status = "leased" /\ cmd.kind \in Wakes
      BY <1>1, <2>2, <3>3 DEF OnDuty, Answering, Still
    <3>4. CASE cmd.status = "leased" /\ cmd.kind \in Effects /\ cmd.fenced
      BY <1>1, <1>2, <3>4 DEF Waits, DcpTypes
    <3>5. CASE cmd.status = "leased" /\ cmd.kind \in Effects \cup {"deployment", "verify"} /\ ~cmd.fenced
      BY <1>1, <2>2, <3>5 DEF OnDuty, Carries, Still
    <3>6. CASE cmd.status = "leased" /\ cmd.kind \in Models
      BY <1>1, <1>4, <2>2, <3>1, <3>6, Command DEF OnDuty, Drives, Still
    <3> QED
      BY <3>1, <3>2, <3>3, <3>4, <3>5, <3>6, Command DEF Effects, Models
  <2>4. /\ Reads(Boot)' /\ Unfenced(Boot)' /\ Settles(Boot)' /\ ~Ordered(Boot)'
        /\ op'[Boot].at # "recon"
    BY <2>2 DEF Reads, Unfenced, Settles, Ordered, Executing
  <2> QED
    BY <1>1, <1>2, <1>4, <2>2, <2>3, <2>4, PassOn
<1>5. CASE /\ action.status = "running" /\ action.proc = "ended" /\ excuse' = excuse
           /\ op' = [op EXCEPT ![Boot].at = "complete", ![Boot].next = "list", ![Boot].cmd = cmd]
  <2>1. Others(Boot) /\ op'[Boot].at = "complete" /\ op'[Boot].cmd = cmd
    BY <1>1, <1>5 DEF Others, DcpInv, DcpTypes, OpRecord
  <2>2. OnDuty(Boot)'
    BY <1>1, <1>5, <2>1, Command DEF OnDuty, Completes, Current, Still, Models
  <2>3. /\ Reads(Boot)' /\ Unfenced(Boot)' /\ Settles(Boot)' /\ ~Ordered(Boot)'
        /\ op'[Boot].at # "recon"
    BY <2>1 DEF Reads, Unfenced, Settles, Ordered, Executing
  <2> QED
    BY <1>1, <1>2, <1>5, <2>1, <2>2, <2>3, PassOn
<1> QED
  BY <1>3, <1>4, <1>5 DEF ReconcileDirectModels

\* A launch that another call has reserved is left to it.
LEMMA ReservedAttends ==
    ASSUME DcpInv, Firm, Attended, NEW p \in Procs, ReserveModelLaunch(p),
           ~(action.id = op[p].cmd.id /\ action.status = "queued")
    PROVE  Firm' /\ Attended'
<1>1. Still /\ Tallied /\ excuse' = excuse /\ op[p].at = "reserve" /\ Go(p, op[p].next)
  BY DEF ReserveModelLaunch, At, db, world, evidence, Still, Tallied
<1>2. ~OnDuty(p)
  BY <1>1, Command DEF OnDuty, Doomed, Concluding, Completes, Starts, Answering, Carries, Collects,
     Drives, Current
<1> QED
  BY <1>1, <1>2, MovesOn

\* A completion that was made already, or whose output is refused, ends its call.
LEMMA CompletedAttends ==
    ASSUME DcpInv, Firm, Attended, NEW p \in Procs, op[p].at = "complete", Still, Tallied,
           \/ /\ action.id # op[p].cmd.id /\ excuse' = excuse
              /\ Go(p, IF op[p].call = "exit" THEN "return" ELSE op[p].next)
           \/ Err(p)
    PROVE  Firm' /\ Attended'
<1>1. CASE Err(p)
  BY <1>1, ErrAttends DEF Recorder
<1>2. CASE /\ action.id # op[p].cmd.id /\ excuse' = excuse
           /\ Go(p, IF op[p].call = "exit" THEN "return" ELSE op[p].next)
  <2>1. ~OnDuty(p)
    BY <1>2, Command DEF OnDuty, Doomed, Concluding, Completes, Starts, Answering, Carries, Collects,
       Drives, Current
  <2>2. CASE Go(p, "return")
    BY <1>2, <2>1, <2>2, HandlerMoves, RestsOn DEF DcpInv, Recorder
  <2> QED
    BY <1>2, <2>1, <2>2, MovesOn
<1> QED
  BY <1>1, <1>2

\* A recovery that is lost ends its call.
LEMMA LeaseLostAttends ==
    ASSUME DcpInv, Firm, Attended, NEW p \in Procs, RecoverCommandLease(p), Err(p), cmd' = cmd
    PROVE  Firm' /\ Attended'
<1>1. Still /\ Tallied /\ ~Recorder(p)
  BY DEF RecoverCommandLease, At, world, evidence, Still, Tallied, Recorder
<1> QED
  BY <1>1, ErrAttends

\* Who reconciles the active command holds it.
LEMMA ReconcilerHolds ==
    ASSUME DcpInv, Firm, NEW p \in Procs, op[p].at \in {"apply", "fail", "settle"}, Recorder(p)
    PROVE  Holds(op[p].cmd)
<1>1. Current(op[p]) /\ op[p].via = "reconcile" /\ op[p].at \in Executing
  BY DEF Recorder, Executing
<1>2. op[p].cmd = cmd /\ cmd.status = "leased"
  BY <1>1 DEF Firm, Reads, DcpInv, Serves
<1> QED
  BY <1>2 DEF Holds

\* A transition without the lease ends its call.
LEMMA LeaseGoneAttends ==
    ASSUME DcpInv, Firm, Attended, NEW p \in Procs, ApplyOutcome(p) \/ FailClosed(p), ~Holds(op[p].cmd)
    PROVE  Firm' /\ Attended'
<1>1. Still /\ Tallied /\ Err(p) /\ op[p].at \in {"apply", "fail"}
  BY DEF ApplyOutcome, FailClosed, At, db, world, evidence, Still, Tallied
<1> QED
  BY <1>1, ReconcilerHolds, ErrAttends

\* What a fenced release that is current says of its admission.
LEMMA Open ==
    ASSUME DcpInv, Firm, NEW p \in Procs, op[p].at = "settle", Current(op[p]), cmd.fenced, adm.status = "leased"
    PROVE  adm.rev = op[p].cmd.rev /\ adm.fenced
<1>1. cmd.kind = "release" /\ cmd.rev = op[p].cmd.rev
  BY DEF DcpInv, Serves, Executing
<1> QED
  BY <1>1, Command DEF Firm, Fencing

\* An admission that was settled already leaves the command to who settled it.
LEMMA SettledAttends ==
    ASSUME DcpInv, Firm, Attended, NEW p \in Procs, DispatchAdmission(p),
           ~(adm.rev = op[p].cmd.rev /\ adm.status = "leased" /\ adm.fenced)
    PROVE  Firm' /\ Attended'
<1>1. /\ DcpTypes /\ Still /\ Tallied /\ excuse' = excuse /\ op[p].at = "settle"
      /\ Go(p, Unsettled(op[p]))
  BY DEF DcpInv, DispatchAdmission, At, world, evidence, Still, Tallied
<1>2. CASE op[p].via = "reconcile"
  <2>1. Turns(p, "fail")
    BY <1>1, <1>2, HandlerMoves DEF Unsettled, Places
  <2> QED
    BY <1>1, <2>1, TurnsOn
<1>3. CASE op[p].via # "reconcile"
  <2>1. Rests(p)
    BY <1>1, <1>3, Typed, Continues, HandlerMoves DEF Unsettled
  <2>2. ~OnDuty(p)
    BY <1>1, <1>3, Open DEF OnDuty, Doomed, Completes, Starts, Answering, Carries, Collects, Drives, Concluding
  <2> QED
    BY <1>1, <1>3, <2>1, <2>2, RestsOn DEF Recorder
<1> QED
  BY <1>2, <1>3

\* A call outside that fails, whether or not it landed, leaves a fenced command for
\* the next restart.
LEMMA EffectFailsAttends ==
    ASSUME DcpInv, Firm, Attended, NEW p \in Procs, EffectFails(p)
    PROVE  Firm' /\ Attended'
<1>1. /\ DcpTypes /\ Rows /\ Tallied /\ excuse' = excuse /\ op[p].at \in {"effect", "adopt"}
      /\ Go(p, Unsettled(op[p])) /\ Faulty /\ crashes' = crashes
  BY DEF DcpInv, EffectFails, At, db, evidence, Rows, Tallied
<1>2. tree' = tree
  <2>1. op[p].cmd.kind \in Effects
    BY <1>1 DEF DcpInv, Serves, Effects
  <2> QED
    BY <2>1, Landing DEF EffectFails, world, Push, Order
<1>3. Waits => Waits'
  BY <1>1, <1>2, WaitsOn
<1>4. CASE op[p].via = "reconcile"
  <2>1. Turns(p, "fail")
    BY <1>1, <1>4, HandlerMoves DEF Unsettled, Places
  <2> QED
    BY <1>1, <1>3, <2>1, TurnsWith
<1>5. CASE op[p].via # "reconcile"
  <2>1. Rests(p)
    BY <1>1, <1>5, Typed, Continues, HandlerMoves DEF Unsettled
  <2>2. OnDuty(p) => Waits'
    <3>1. OnDuty(p) => Concluding(p)
      BY <1>1 DEF OnDuty, Doomed, Completes, Starts, Answering, Carries, Collects, Drives
    <3>2. crashes' + faults' > 0
      BY <1>1 DEF Faulty, DcpTypes
    <3> QED
      BY <1>1, <3>1, <3>2 DEF Concluding, Waits, Rows
  <2> QED
    BY <1>1, <1>3, <1>5, <2>1, <2>2, RestsWith DEF Recorder
<1> QED
  BY <1>4, <1>5

\* An effect lands: the handler concludes it, and no release has reported that is
\* ordered only now.
LEMMA EffectAttends ==
    ASSUME DcpInv, Firm, Attended, NEW p \in Procs, Effect(p)
    PROVE  Firm' /\ Attended'
<1>1. /\ DcpTypes /\ Rows /\ Tallied /\ excuse' = excuse /\ op[p].at = "effect" /\ Lands(op[p].cmd)
      /\ op[p] \in OpRecord /\ op[p].cmd.kind \in Effects
  BY Typed DEF DcpInv, Effect, At, db, Rows, Tallied, Serves
<1> DEFINE kind == op[p].cmd.kind
           out == AfterEffect[kind]
           at == CASE kind = "release" -> "settle" [] kind = "readmission" -> "adopt" [] OTHER -> "apply"
<1>2. op' = [op EXCEPT ![p].out = out, ![p].ev = NoEvent, ![p].at = at]
  BY DEF Effect
<1>3. /\ out \in Outcomes /\ at \in Places /\ at \in {"settle", "adopt", "apply"}
      /\ kind = "release" <=> at = "settle"
  BY <1>1 DEF Effects, AfterEffect, Outcomes, Places
<1> HIDE DEF out, at
<1>4. Gains(p, at, out)
  BY <1>1, <1>2, <1>3, IdleIs DEF Gains, Others, DcpTypes, OpRecord
<1>5. /\ Others(p) /\ op'[p].at = at /\ op'[p].via = op[p].via /\ op'[p].cmd = op[p].cmd
  BY <1>4 DEF Gains
<1>6. Waits => Waits'
  <2>1. tree' = tree
    BY <1>1, Landing DEF world, Push, Order
  <2> QED
    BY <1>1, <2>1, WaitsOn
<1>7. Reads(p) /\ Settles(p) /\ (Current(op[p]) => cmd.kind = kind) /\ ~Recorder(p)
  BY <1>1 DEF Firm, DcpInv, Serves, Executing, Recorder
<1>8. Reads(p)' /\ Unfenced(p)' /\ Settles(p)' /\ op'[p].at # "recon"
  BY <1>1, <1>3, <1>5, <1>7 DEF Reads, Unfenced, Settles, Current, Executing, Rows
<1>9. cmd.kind = "release" /\ Ordered(p)' => ~\E e \in events : ThisMerge(e)
  <2>1. SUFFICES ASSUME cmd.kind = "release", Ordered(p)', NEW e \in events, ThisMerge(e)
                 PROVE  FALSE
    OBVIOUS
  <2>2. Current(op[p]) /\ kind = "release"
    BY <1>1, <1>5, <1>7, <2>1 DEF Ordered, Current, Rows
  <2>3. sent[adm.n] = 0
    BY <1>1, <2>2 DEF DcpInv, Orders
  <2>4. adm.rev = task.rev
    BY <2>1, Command
  <2>5. adm.n > 0 /\ run[adm.n] \in {"merged", "moved"}
    BY <2>1, <2>4 DEF DcpInv, Train, Answers, ThisMerge
  <2>6. adm.n \in Admissions
    BY <1>1, <2>5, DcpV2Assumption DEF DcpTypes, AdmRecord, Admissions
  <2> QED
    BY <2>3, <2>5, <2>6 DEF DcpInv, Train
<1>10. OnDuty(p) => OnDuty(p)'
  <2>1. OnDuty(p) => Concluding(p)
    BY <1>1 DEF OnDuty, Doomed, Completes, Starts, Answering, Carries, Collects, Drives
  <2>2. Concluding(p) => Concluding(p)'
    BY <1>1, <1>3, <1>5, <1>7 DEF Concluding, Current, Settles, Rows
  <2> QED
    BY <2>1, <2>2 DEF OnDuty
<1> QED
  BY <1>1, <1>5, <1>6, <1>7, <1>8, <1>9, <1>10, PassRows

\* The successor is adopted: no publication of the active command is at that worktree.
LEMMA AdoptSuccessorAttends ==
    ASSUME DcpInv, Firm, Attended, NEW p \in Procs, AdoptSuccessor(p)
    PROVE  Firm' /\ Attended'
<1>1. /\ DcpTypes /\ op[p].at = "adopt" /\ Turns(p, "apply") /\ tree' = op[p].cmd.rev + 1
      /\ Rows /\ Tallied /\ excuse' = excuse
  BY HandlerMoves DEF DcpInv, AdoptSuccessor, At, db, evidence, Places, Rows, Tallied
<1>2. /\ Others(p) /\ op'[p].at = "apply" /\ op'[p].via = op[p].via /\ op'[p].cmd = op[p].cmd
  BY <1>1 DEF Turns
<1>3. op[p].cmd.kind = "readmission" /\ (Current(op[p]) => cmd.kind = "readmission") /\ op[p].cmd.rev \in Nat
  BY <1>1, Typed DEF DcpInv, Serves, Executing, CmdRecord
<1>4. Waits => Waits'
  <2>1. CASE cmd.kind # "publication" \/ task.state = "failed"
    <3>1. CASE task.state = "failed"
      BY <1>1, <3>1 DEF Waits, Rows
    <3>2. CASE cmd.kind # "publication"
      BY <1>1, <3>2, WaitsOn
    <3> QED
      BY <2>1, <3>1, <3>2
  <2>2. CASE cmd.kind = "publication" /\ task.state # "failed"
    <3>1. cmd.rev = task.head /\ cmd.rev \in Nat /\ ~Current(op[p])
      BY <1>3, <2>2, Command DEF DcpInv, Branch, DcpTypes, CmdRecord
    <3>2. op[p].cmd.rev + 1 < task.head
      BY <1>1, <1>3, <2>2, <3>1 DEF DcpInv, Pushes, Pushing, Executing, NewHeadOf
    <3>3. tree' # cmd.rev
      BY <1>1, <1>3, <3>1, <3>2
    <3>4. crashes + faults > 0 => crashes' + faults' > 0
      BY <1>1 DEF Tallied, Faulty, DcpTypes
    <3> QED
      BY <1>1, <2>2, <3>3 DEF Waits, Rows, Effects, Wakes, Matched
  <2> QED
    BY <2>1, <2>2
<1>5. Reads(p) /\ Settles(p) /\ ~Recorder(p)
  BY <1>1 DEF Firm, Recorder
<1>6. Reads(p)' /\ Unfenced(p)' /\ Settles(p)' /\ op'[p].at # "recon"
  BY <1>1, <1>2, <1>3, <1>5 DEF Reads, Unfenced, Settles, Current, Executing, Rows
<1>7. cmd.kind = "release" => ~Ordered(p)'
  BY <1>1, <1>2, <1>3 DEF Ordered, Current, Rows
<1>8. OnDuty(p) => OnDuty(p)'
  <2>1. OnDuty(p) => Concluding(p)
    BY <1>1 DEF OnDuty, Doomed, Completes, Starts, Answering, Carries, Collects, Drives
  <2>2. Concluding(p) => Concluding(p)'
    BY <1>1, <1>2 DEF Concluding, Current, Rows
  <2> QED
    BY <2>1, <2>2 DEF OnDuty
<1> QED
  BY <1>1, <1>2, <1>4, <1>5, <1>6, <1>7, <1>8, PassRows

\* A step that moves nothing but the admission, and keeps it settled once it is.
LEMMA AdmissionOn ==
    ASSUME DcpInv, Firm, Attended, NEW p \in Procs, NEW at \in {"admfence", "fence"}, Turns(p, at),
           UNCHANGED <<task, cmd, action, events, tree, excuse>>, Tallied, adm'.rev = adm.rev,
           adm'.status = adm.status \/ (adm.status = "waiting" /\ adm'.status = "leased"),
           adm.fenced => adm'.fenced,
           op[p].at \in {"process", "admfence"}, op[p].cmd.kind = "release",
           at = "admfence" => adm'.status = "leased",
           at = "fence" => op[p].at = "admfence" /\ adm'.fenced
    PROVE  Firm' /\ Attended'
<1>1. Others(p) /\ op'[p].at = at /\ op'[p].via = op[p].via /\ op'[p].cmd = op[p].cmd
  BY DEF Turns
<1>2. /\ op[p].via # "reconcile" /\ (Current(op[p]) => cmd.kind = op[p].cmd.kind)
      /\ ~Recorder(p) /\ ~Ordered(p)'
  BY <1>1 DEF DcpInv, Serves, Executing, Recorder, Ordered
<1>3. Fencing'
  BY DEF Firm, Fencing
<1>4. Heard'
  BY <1>1, <1>2, HeardOn
<1>5. \A q \in Procs \ {p} : Reads(q)' /\ Unfenced(q)' /\ Settles(q)'
  <2>1. SUFFICES ASSUME NEW q \in Procs \ {p}
                 PROVE  Reads(q)' /\ Unfenced(q)' /\ Settles(q)'
    OBVIOUS
  <2>2. op'[q] = op[q] /\ (Current(op[q])' <=> Current(op[q]))
    BY <1>1, <2>1, OthersKeep
  <2> QED
    BY <2>2 DEF Firm, Reads, Unfenced, Settles
<1>6. Reads(p)' /\ Unfenced(p)' /\ Settles(p)'
  BY <1>1, <1>2 DEF Firm, Reads, Unfenced, Settles, Current, Executing
<1>7. \A q \in Procs : Booted(q)'
  BY <1>1 DEF Firm, Booted, Others, Tallied
<1>8. Waits => Waits'
  <2>1. crashes + faults > 0 => crashes' + faults' > 0
    BY DEF Tallied, Faulty, DcpInv, DcpTypes
  <2> QED
    BY <2>1 DEF Waits, Matched
<1>9. \A q \in Procs \ {p} : OnDuty(q) => OnDuty(q)'
  BY <1>1, OthersKeep DEF OnDuty, Collects, Answering, Carries, Concluding, Drives, Completes, Starts
<1>10. OnDuty(p) => OnDuty(p)'
  <2>1. OnDuty(p) => Carries(p)
    BY <1>2 DEF OnDuty, Doomed, Completes, Starts, Answering, Concluding, Collects, Drives, Wakes
  <2>2. Carries(p) => Carries(p)'
    BY <1>1 DEF Carries, Current
  <2> QED
    BY <2>1, <2>2 DEF OnDuty
<1> QED
  BY <1>3, <1>4, <1>5, <1>6, <1>7, <1>8, <1>9, <1>10 DEF Firm, Attended

\* The dispatch of a release is fenced in its admission first.
LEMMA FenceAdmissionAttends ==
    ASSUME DcpInv, Firm, Attended, NEW p \in Procs, FenceAdmissionDispatch(p)
    PROVE  Firm' /\ Attended'
<1>1. /\ DcpTypes /\ op[p].at = "admfence" /\ UNCHANGED <<task, cmd, action, events, tree, excuse>>
      /\ Tallied /\ adm' = [adm EXCEPT !.fenced = TRUE] /\ adm \in AdmRecord
  BY DEF DcpInv, FenceAdmissionDispatch, At, world, Tallied, DcpTypes
<1>2. op[p].cmd.kind = "release" /\ Turns(p, "fence")
  BY <1>1, HandlerMoves DEF FenceAdmissionDispatch, DcpInv, Serves, Places
<1>3. adm'.status = adm.status /\ adm'.rev = adm.rev /\ adm'.fenced
  BY <1>1 DEF AdmRecord
<1> QED
  BY <1>1, <1>2, <1>3, AdmissionOn

\* A release leases its admission, or finds it settled.
LEMMA DispatchReleaseAttends ==
    ASSUME DcpInv, Firm, Attended, NEW p \in Procs, DispatchRelease(p)
    PROVE  Firm' /\ Attended'
<1>1. /\ DcpTypes /\ op[p].at = "process" /\ op[p].cmd.kind = "release" /\ adm \in AdmRecord
      /\ UNCHANGED <<task, cmd, action, events, applied, world, evidence, excuse, crashes, faults>>
  BY DEF DcpInv, DispatchRelease, Process, At, DcpTypes
<1>2. CASE /\ adm.status \in {"waiting", "leased"}
           /\ adm' = [adm EXCEPT !.status = "leased"] /\ Go(p, "admfence")
  <2>1. Turns(p, "admfence")
    BY <1>1, <1>2, HandlerMoves DEF Places
  <2>2. adm'.status = "leased" /\ adm'.rev = adm.rev /\ adm'.fenced = adm.fenced
    BY <1>1, <1>2 DEF AdmRecord
  <2> QED
    BY <1>1, <1>2, <2>1, <2>2, AdmissionOn DEF Tallied, world
<1>3. CASE Go(p, "fail") /\ UNCHANGED adm
  <2>1. Turns(p, "fail") /\ Still /\ Tallied
    BY <1>1, <1>3, HandlerMoves DEF Places, Still, Tallied, world, evidence
  <2> QED
    BY <1>1, <2>1, TurnsOn
<1> QED
  BY <1>2, <1>3 DEF DispatchRelease

\* The admission is settled: by the one handler that runs the release or by one
\* that reconciles it, and nobody is on its way to order it any more.
LEMMA DispatchAdmissionAttends ==
    ASSUME DcpInv, Firm, Attended, NEW p \in Procs, DispatchAdmission(p),
           adm.rev = op[p].cmd.rev, adm.status = "leased", adm.fenced
    PROVE  Firm' /\ Attended'
<1>1. /\ DcpTypes /\ op[p].at = "settle" /\ op[p].cmd.kind = "release" /\ adm \in AdmRecord
      /\ adm' = [adm EXCEPT !.status = "dispatched"] /\ op[p] \in OpRecord
      /\ op' = [op EXCEPT ![p].at = "apply", ![p].out = "dispatched", ![p].ev = NoEvent]
      /\ UNCHANGED <<task, cmd, action, events, tree, excuse, crashes, faults>>
  BY Typed DEF DcpInv, DispatchAdmission, At, world, Serves, DcpTypes
<1>2. /\ Others(p) /\ op'[p].at = "apply" /\ op'[p].cmd = op[p].cmd /\ op'[p].via = op[p].via
  BY <1>1, IdleIs DEF DcpTypes, OpRecord, Places, Outcomes, Others
<1>3. adm'.status = "dispatched" /\ adm'.rev = adm.rev /\ adm'.fenced
  BY <1>1 DEF AdmRecord
<1>4. \A q \in Procs \ {p} :
        /\ op'[q] = op[q] /\ (Current(op[q])' <=> Current(op[q])) /\ (Doomed(q)' <=> Doomed(q))
  BY <1>1, <1>2, OthersKeep
<1>5. Current(op[p]) \/ task.state = "failed"
  BY <1>1 DEF Firm, Settles, Executing
<1>6. Current(op[p]) => cmd.kind = "release" /\ sent[adm.n] = 1
  BY <1>1 DEF DcpInv, Serves, Orders, Executing
<1>7. task.state = "failed" => \A q \in Procs : op[q].at \in Executing => ~Current(op[q])
  <2>1. task.state = "failed" => cmd.kind = "none"
    BY DEF DcpInv, Queue, Stage
  <2> QED
    BY <2>1 DEF DcpInv, Serves
<1>8. ASSUME NEW q \in Procs \ {p}, Current(op[q]), op[q].cmd.kind = "release",
             op[q].at \in {"admfence", "fence", "effect"}
      PROVE  FALSE
  <2>1. Current(op[p]) /\ op[q].at \in Executing /\ op[q].via # "reconcile"
    BY <1>5, <1>7, <1>8 DEF Executing, DcpInv, Serves
  <2>2. CASE op[p].via # "reconcile"
    <3>1. Runs(p) /\ Runs(q)
      BY <1>1, <1>8, <2>1, <2>2 DEF Runs, Executing, Wakes
    <3> QED
      BY <1>8, <3>1 DEF DcpInv, Alone
  <2>3. CASE op[p].via = "reconcile"
    <3>1. cmd.fenced
      BY <1>1, <2>1, <2>3 DEF Firm, Reads, Executing
    <3>2. op[q].at = "effect"
      BY <1>8, <3>1 DEF Firm, Unfenced
    <3> QED
      BY <1>6, <1>8, <2>1, <3>2 DEF DcpInv, Orders
  <2> QED
    BY <2>2, <2>3
<1>9. Fencing'
  BY <1>1, <1>3 DEF Firm, Fencing
<1>10. Heard'
  <2>1. Recorder(p) => Recorder(p)'
    BY <1>1, <1>2 DEF Recorder, Current
  <2>2. Ordered(p)' => Ordered(p)
    BY <1>1, <1>2 DEF Ordered, Current
  <2> QED
    BY <1>1, <1>2, <2>1, <2>2, HeardOn
<1>11. \A q \in Procs \ {p} : Reads(q)' /\ Unfenced(q)' /\ Settles(q)'
  <2>1. SUFFICES ASSUME NEW q \in Procs \ {p}
                 PROVE  Reads(q)' /\ Unfenced(q)' /\ Settles(q)'
    OBVIOUS
  <2>2. op'[q] = op[q] /\ (Current(op[q])' <=> Current(op[q]))
    BY <1>4, <2>1
  <2>3. Reads(q)' /\ Unfenced(q)'
    BY <1>1, <2>2 DEF Firm, Reads, Unfenced
  <2>4. Settles(q)'
    BY <1>1, <1>3, <1>8, <2>2 DEF Firm, Settles
  <2> QED
    BY <2>3, <2>4
<1>12. Reads(p)' /\ Unfenced(p)' /\ Settles(p)'
  BY <1>1, <1>2, <1>3 DEF Firm, Reads, Unfenced, Settles, Current, Executing
<1>13. \A q \in Procs : Booted(q)'
  BY <1>1, <1>2 DEF Firm, Booted, Others
<1>14. Waits => Waits'
  BY <1>1 DEF Waits, Matched
<1>15. Attended'
  <2>1. CASE task.state = "failed"
    BY <1>1, <2>1 DEF Attended, Waits
  <2>2. CASE Current(op[p])
    <3>1. cmd.fenced => OnDuty(p)'
      BY <1>1, <1>2, <1>6, <2>2 DEF OnDuty, Concluding, Current, Effects
    <3>2. \A q \in Procs \ {p} : OnDuty(q) /\ ~cmd.fenced => OnDuty(q)'
      BY <1>1, <1>4 DEF OnDuty, Collects, Answering, Carries, Concluding, Drives, Completes, Starts
    <3>3. OnDuty(p) => cmd.fenced
      BY <1>1, <2>2 DEF OnDuty, Doomed, Collects, Answering, Carries, Concluding, Drives, Completes, Starts
    <3> QED
      BY <1>1, <1>14, <3>1, <3>2, <3>3 DEF Attended
  <2> QED
    BY <1>5, <2>1, <2>2
<1> QED
  BY <1>9, <1>10, <1>11, <1>12, <1>13, <1>15 DEF Firm

\* A handler takes the command up, or leaves it to the drive: nobody reconciles what
\* is not fenced.
LEMMA TakesUp ==
    ASSUME DcpInv, Firm, NEW p \in Procs, op[p].at \in {"recover", "drain"}, Others(p),
           UNCHANGED <<task, action, adm, events, crashes>>,
           cmd'.id = cmd.id, cmd'.kind = cmd.kind, cmd'.rev = cmd.rev, cmd'.fenced = cmd.fenced,
           ~cmd.fenced, cmd.kind # "none", op'[p].at \in {"process", "models", "drain"},
           op'[p].at = "process" => op'[p].cmd = cmd' /\ op'[p].via # "reconcile",
           Waits' \/ OnDuty(p)'
    PROVE  Firm' /\ Attended'
<1>1. Fencing'
  BY DEF Firm, Fencing
<1>2. Heard'
  BY HeardOn DEF Recorder, Ordered
<1>3. \A q \in Procs \ {p} : Reads(q)' /\ Unfenced(q)' /\ Settles(q)'
  <2>1. SUFFICES ASSUME NEW q \in Procs \ {p}
                 PROVE  Reads(q)' /\ Unfenced(q)' /\ Settles(q)'
    OBVIOUS
  <2>2. op'[q] = op[q] /\ (Current(op[q])' <=> Current(op[q]))
    BY <2>1, OthersKeep
  <2> QED
    BY <2>2 DEF Firm, Reads, Unfenced, Settles
<1>4. Reads(p)' /\ Unfenced(p)' /\ Settles(p)'
  <2>1. cmd.id = task.id /\ cmd.rev = task.rev /\ (cmd.kind = "release" => adm.rev = task.rev)
        /\ task.rev \in Nat
    BY Command DEF DcpInv, DcpTypes, TaskRecord
  <2> QED
    BY <2>1 DEF Reads, Unfenced, Settles, Current, Executing
<1>5. \A q \in Procs : Booted(q)'
  BY DEF Firm, Booted, Others
<1> QED
  BY <1>1, <1>2, <1>3, <1>4, <1>5 DEF Firm, Attended


\* The lease of a command is recovered: its handler works on it, or the boot drives it.
LEMMA LeaseWonAttends ==
    ASSUME DcpInv, Firm, Attended, NEW p \in Procs, op[p].at = "recover",
           Holds(op[p].cmd), ~cmd.fenced,
           cmd' = [cmd EXCEPT !.lease = "recovery", !.gen = @ + 1],
           op' = [op EXCEPT ![p].cmd = cmd', ![p].at = IF cmd.kind \in Models THEN "models" ELSE "process"],
           DcpTypes', UNCHANGED <<task, action, adm, events, crashes>>
    PROVE  Firm' /\ Attended'
<1>0. cmd \in CmdRecord /\ op[p] \in OpRecord
  BY Typed DEF DcpInv, DcpTypes
<1>1. /\ cmd'.id = cmd.id /\ cmd'.kind = cmd.kind /\ cmd'.rev = cmd.rev /\ cmd'.status = "leased"
      /\ cmd'.fenced = cmd.fenced
  BY <1>0 DEF CmdRecord, Holds
<1>2. /\ op'[p].at = (IF cmd.kind \in Models THEN "models" ELSE "process")
      /\ op'[p].cmd = cmd' /\ op'[p].call = op[p].call /\ op'[p].via = op[p].via
      /\ \A q \in Procs \ {p} : op'[q] = op[q]
  BY <1>0 DEF DcpInv, DcpTypes, OpRecord
<1>3. /\ cmd.kind # "none" /\ cmd.id = task.id /\ Current(op[p]) /\ op[p].via # "reconcile"
      /\ op[p].cmd.kind = cmd.kind
  BY <1>0 DEF Holds, DcpInv, Queue, NoCmd, Current, Serves
<1>4. OnDuty(p)'
  <2>1. CASE cmd.kind \in Models
    <3>1. p = Boot
      BY <1>3, <2>1 DEF DcpInv, Alone, Models, Wakes
    <3>2. op[p].call = "startup"
      BY <3>1 DEF DcpInv, Booting
    <3>3. action.status = "queued"
      BY <2>1 DEF Firm, Fencing
    <3> QED
      BY <1>1, <1>2, <2>1, <3>2, <3>3 DEF OnDuty, Drives
  <2>2. CASE cmd.kind \notin Models
    <3>1. cmd.kind \in Wakes \cup Effects \cup {"deployment", "verify"}
      BY <1>3, <2>2, Command
    <3> QED
      BY <1>1, <1>2, <1>3, <2>2, <3>1 DEF OnDuty, Answering, Carries, Current
  <2> QED
    BY <2>1, <2>2
<1>5. Others(p)
  BY <1>2 DEF Others, DcpTypes
<1> QED
  BY <1>1, <1>2, <1>3, <1>4, <1>5, TakesUp

\* The pending command is claimed: by a handler that works on it, or for the drive
\* of a call that drives the models.
LEMMA ClaimAttends ==
    ASSUME DcpInv, DcpInv', Firm, Attended, NEW p \in Procs, ClaimNextCommand(p), cmd.status = "pending"
    PROVE  Firm' /\ Attended'
<1>0. /\ cmd \in CmdRecord /\ op[p] \in OpRecord /\ op[p].at = "drain"
      /\ cmd' = [cmd EXCEPT !.status = "leased", !.lease = op[p].call]
      /\ op' = IF cmd.kind \in Models THEN op
               ELSE [op EXCEPT ![p].at = "process", ![p].via = "drain", ![p].cmd = cmd']
      /\ UNCHANGED <<task, action, adm, events, crashes>>
  BY Typed DEF DcpInv, DcpTypes, ClaimNextCommand, At
<1>1. /\ cmd'.id = cmd.id /\ cmd'.kind = cmd.kind /\ cmd'.rev = cmd.rev /\ cmd'.status = "leased"
      /\ cmd'.fenced = cmd.fenced /\ cmd'.lease = op[p].call
  BY <1>0 DEF CmdRecord
<1>2. /\ cmd.kind \in Models => op' = op
      /\ cmd.kind \notin Models => op'[p].at = "process" /\ op'[p].via = "drain" /\ op'[p].cmd = cmd'
      /\ \A q \in Procs \ {p} : op'[q] = op[q]
  BY <1>0 DEF DcpInv, DcpTypes, OpRecord
<1>3. cmd.kind # "none" /\ cmd.id = task.id /\ ~cmd.fenced
  BY DEF DcpInv, Queue, NoCmd
<1>4. Waits' \/ OnDuty(p)'
  <2>1. CASE cmd.kind \in Models
    <3>1. action.status = "queued"
      BY <1>3, <2>1 DEF Firm, Fencing
    <3> QED
      BY <1>0, <1>1, <1>2, <2>1, <3>1 DEF OnDuty, Drives, Waits
  <2>2. CASE cmd.kind \notin Models
    <3>1. cmd.kind \in Wakes \cup Effects \cup {"deployment", "verify"}
      BY <1>3, <2>2, Command
    <3> QED
      BY <1>0, <1>1, <1>2, <1>3, <2>2, <3>1 DEF OnDuty, Answering, Carries, Current
  <2> QED
    BY <2>1, <2>2
<1>5. Others(p)
  BY <1>2 DEF Others, DcpInv, DcpTypes
<1> QED
  BY <1>0, <1>1, <1>2, <1>3, <1>4, <1>5, TakesUp

\* The command is fenced: its one handler concludes it from here.
LEMMA FenceCommandAttends ==
    ASSUME DcpInv, DcpInv', Firm, Attended, NEW p \in Procs, FenceCommandEffect(p)
    PROVE  Firm' /\ Attended'
<1>1. /\ op[p].at = "fence" /\ op[p] \in OpRecord /\ cmd \in CmdRecord /\ ~cmd.fenced
      /\ cmd' = [cmd EXCEPT !.fenced = TRUE] /\ Holds(op[p].cmd)
      /\ op' = [op EXCEPT ![p].at = "effect", ![p].cmd = cmd']
      /\ UNCHANGED <<task, action, adm, events, crashes>>
  BY Typed DEF DcpInv, DcpTypes, FenceCommandEffect, At
<1>2. /\ cmd'.id = cmd.id /\ cmd'.kind = cmd.kind /\ cmd'.rev = cmd.rev
      /\ cmd'.status = cmd.status /\ cmd'.fenced
  BY <1>1 DEF CmdRecord
<1>3. /\ Others(p) /\ op'[p].at = "effect" /\ op'[p].cmd = cmd' /\ op'[p].via = op[p].via
  BY <1>1 DEF DcpInv, DcpTypes, OpRecord, Others
<1>4. /\ cmd.kind # "none" /\ cmd.id = task.id /\ cmd.rev = task.rev
      /\ Current(op[p]) /\ op[p].via # "reconcile"
      /\ op[p].cmd.kind = cmd.kind /\ cmd.kind \in Effects /\ Runs(p)
  BY <1>1 DEF Holds, DcpInv, Queue, NoCmd, Current, Serves, Effects, Wakes, Executing, Runs
<1>5. Fencing'
  BY <1>1, <1>2, <1>4 DEF Firm, Fencing, Settles, Effects, Models
<1>6. Heard'
  BY <1>1, <1>2, <1>3, HeardOn DEF Recorder, Ordered
<1>7. \A q \in Procs \ {p} : Reads(q)' /\ Unfenced(q)' /\ Settles(q)'
  <2>1. SUFFICES ASSUME NEW q \in Procs \ {p}
                 PROVE  Reads(q)' /\ Unfenced(q)' /\ Settles(q)'
    OBVIOUS
  <2>2. op'[q] = op[q] /\ (Current(op[q])' <=> Current(op[q])) /\ q # p
    BY <1>1, <1>3, <2>1, OthersKeep
  <2>3. Reads(q)'
    BY <1>1, <2>2 DEF Firm, Reads
  <2>4. ~(Current(op[q]) /\ op[q].at \in {"process", "admfence", "fence"})
    <3>1. SUFFICES ASSUME Current(op[q]), op[q].at \in {"process", "admfence", "fence"}
                   PROVE  Runs(q)
      BY <1>4, <2>2 DEF DcpInv, Alone
    <3> QED
      BY <1>4, <3>1 DEF Runs, DcpInv, Serves, Executing, Effects, Wakes
  <2>5. Settles(q)'
    BY <1>1, <2>2 DEF Firm, Settles
  <2> QED
    BY <2>2, <2>3, <2>4, <2>5 DEF Unfenced
<1>8. Reads(p)' /\ Unfenced(p)' /\ Settles(p)'
  <2>1. cmd.kind = "release" => adm.rev = task.rev
    BY Command
  <2> QED
    BY <1>1, <1>2, <1>3, <1>4, <2>1
       DEF Firm, Reads, Unfenced, Settles, Current, Executing, DcpInv, DcpTypes, TaskRecord
<1>9. \A q \in Procs : Booted(q)'
  BY <1>1, <1>3 DEF Firm, Booted, Others
<1>10. OnDuty(p)'
  BY <1>1, <1>2, <1>3, <1>4 DEF OnDuty, Concluding, Current
<1> QED
  BY <1>5, <1>6, <1>7, <1>8, <1>9, <1>10 DEF Firm, Attended

-----------------------------------------------------------------------------
\* A step of a model: nobody executes or reconciles a model's command.
LEMMA ModelOn ==
    ASSUME DcpInv, Firm, NEW p \in Procs, Others(p), UNCHANGED <<task, adm, events>>, crashes' = crashes,
           cmd.kind \in Models, cmd'.kind = cmd.kind, Fencing',
           op'[p] = op[p] \/ op'[p].at \in {"launch", "start", "terminal", "complete"}
    PROVE  Firm'
<1>1. Heard'
  BY DEF Heard, Models
<1>2. \A q \in Procs : op'[q] = op[q] \/ op'[q].at \in {"launch", "start", "terminal", "complete"}
  BY DEF Others
<1>3. \A q \in Procs : Reads(q)' /\ Unfenced(q)' /\ Settles(q)' /\ Booted(q)'
  <2>1. SUFFICES ASSUME NEW q \in Procs
                 PROVE  Reads(q)' /\ Unfenced(q)' /\ Settles(q)' /\ Booted(q)'
    OBVIOUS
  <2>2. CASE op'[q].at \in {"launch", "start", "terminal", "complete"}
    BY <2>2 DEF Reads, Unfenced, Settles, Booted, Executing
  <2>3. CASE op'[q] = op[q]
    <3>1. op[q].at \in Executing \cup {"reconcile"} => ~Current(op[q])
      BY DEF DcpInv, Serves, Executing
    <3>2. Reads(q)' /\ Unfenced(q)' /\ Settles(q)'
      BY <2>3, <3>1 DEF Firm, Reads, Unfenced, Settles, Executing, Current
    <3>3. Booted(q)'
      BY <2>3 DEF Firm, Booted
    <3> QED
      BY <3>2, <3>3
  <2> QED
    BY <1>2, <2>2, <2>3
<1> QED
  BY <1>1, <1>3 DEF Firm

\* What the action of a model's command tells.
LEMMA ModelIs ==
    ASSUME DcpInv, Firm, action.proc # "none" \/ action.status # "none"
    PROVE  cmd.kind \in Models /\ action.id = task.id /\ action \in ActionRecord
  BY Command DEF DcpInv, DcpTypes

\* The exit of a model is reported: its call completes it.
LEMMA ReportExitAttends ==
    ASSUME DcpInv, DcpInv', Firm, Attended, NEW p \in Handlers, ReportExit(p)
    PROVE  Firm' /\ Attended'
<1> DEFINE c == [NoCmd EXCEPT !.id = action.id]
           i == [Idle EXCEPT !.call = "exit", !.at = "complete", !.cmd = c, !.ev = NoEvent]
<1>1. /\ p \in Procs /\ action.proc = "ended" /\ action' = [action EXCEPT !.reported = TRUE]
      /\ op' = [op EXCEPT ![p] = i] /\ UNCHANGED <<task, cmd, adm, events, crashes>>
  BY DEF ReportExit, Serving, Serve, At, Procs
<1>2. i.at = "complete" /\ i.cmd.id = action.id
  BY DEF Idle, NoCmd
<1> HIDE DEF i, c
<1>3. Others(p) /\ op'[p].at = "complete" /\ op'[p].cmd.id = action.id
  BY <1>1, <1>2, Puts
<1>4. cmd.kind \in Models /\ action.id = task.id /\ action \in ActionRecord
  BY <1>1, ModelIs
<1>5. action'.proc = "ended" /\ action'.status = action.status
  BY <1>1, <1>4 DEF ActionRecord
<1>6. Fencing'
  BY <1>1, <1>4, <1>5 DEF Firm, Fencing
<1>7. OnDuty(p)'
  BY <1>1, <1>3, <1>4, <1>5 DEF OnDuty, Completes, Current
<1>8. crashes' = crashes
  BY <1>1 DEF DcpInv, DcpTypes
<1> QED
  BY <1>1, <1>3, <1>4, <1>6, <1>7, <1>8, ModelOn DEF Attended

\* What happens to a model outside: it ends and has not been reported yet, or is gone;
\* its report is lost, which excuses the task.
LEMMA ModelOutside ==
    ASSUME DcpInv, DcpInv', Firm, Attended, ReportLost \/ ModelEnds \/ ModelDies
    PROVE  Firm' /\ Attended'
<1>1. /\ Boot \in Procs /\ op' = op /\ UNCHANGED <<task, cmd, adm, events, crashes>>
      /\ action.proc # "none"
  BY DEF ReportLost, ModelEnds, ModelDies, Procs
<1>2. cmd.kind \in Models /\ action \in ActionRecord
  BY <1>1, ModelIs
<1>3. /\ action'.status = action.status /\ action'.proc \in {"ended", "gone"}
      /\ excuse' \/ Waits'
  <2>1. CASE ReportLost
    BY <1>2, <2>1 DEF ReportLost, ActionRecord
  <2>2. CASE ModelDies
    BY <1>2, <2>2 DEF ModelDies, ActionRecord, Waits
  <2>3. CASE ModelEnds
    <3>1. PICK v \in Verdicts[cmd.kind] : action' = [action EXCEPT !.proc = "ended", !.verdict = v]
      BY <2>3 DEF ModelEnds
    <3>2. ~action.reported
      BY <2>3 DEF ModelEnds, Firm, Fencing
    <3> QED
      BY <1>2, <3>1, <3>2 DEF ActionRecord, Waits
  <2> QED
    BY <2>1, <2>2, <2>3
<1>4. Fencing'
  BY <1>1, <1>2, <1>3 DEF Firm, Fencing, Models
<1>5. Others(Boot) /\ crashes' = crashes
  BY <1>1 DEF Others, DcpInv, DcpTypes
<1> QED
  BY <1>1, <1>2, <1>3, <1>4, <1>5, ModelOn DEF Attended

\* The launch of the model is reserved: its handler starts it.
LEMMA ReserveAttends ==
    ASSUME DcpInv, Firm, Attended, NEW p \in Procs, ReserveModelLaunch(p), action.id = op[p].cmd.id,
           action.status = "queued"
    PROVE  Firm' /\ Attended'
<1>1. /\ DcpTypes /\ op[p].at = "reserve" /\ Go(p, "launch") /\ UNCHANGED <<task, adm, events, crashes>>
      /\ cmd' = [cmd EXCEPT !.fenced = TRUE] /\ action' = [action EXCEPT !.status = "launching"]
  BY DEF DcpInv, ReserveModelLaunch, At
<1>2. Turns(p, "launch")
  BY <1>1, HandlerMoves DEF Places
<1>3. Others(p) /\ op'[p].at = "launch"
  BY <1>2 DEF Turns
<1>4. cmd.kind \in Models /\ action \in ActionRecord /\ cmd \in CmdRecord /\ action.proc = "none"
  BY <1>1, ModelIs, Command DEF DcpTypes
<1>5. /\ cmd'.kind = cmd.kind /\ cmd'.fenced /\ action'.status = "launching" /\ action'.proc = "none"
      /\ action'.reported = action.reported
  BY <1>1, <1>4 DEF ActionRecord, CmdRecord
<1>6. Fencing'
  BY <1>1, <1>4, <1>5 DEF Firm, Fencing, Models
<1>7. OnDuty(p)'
  BY <1>3, <1>5 DEF OnDuty, Starts
<1>8. crashes' = crashes
  BY <1>1 DEF DcpTypes
<1> QED
  BY <1>1, <1>3, <1>4, <1>5, <1>6, <1>7, <1>8, ModelOn DEF Attended

\* The process is there.
LEMMA LaunchAttends ==
    ASSUME DcpInv, Firm, Attended, NEW p \in Procs, Launch(p)
    PROVE  Firm' /\ Attended'
<1>1. /\ DcpTypes /\ op[p].at = "launch" /\ Go(p, "start") /\ UNCHANGED <<task, cmd, adm, events, crashes>>
      /\ action' = [action EXCEPT !.proc = "alive", !.launches = @ + 1]
  BY DEF DcpInv, Launch, At
<1>2. Turns(p, "start")
  BY <1>1, HandlerMoves DEF Places
<1>3. Others(p) /\ op'[p].at = "start"
  BY <1>2 DEF Turns
<1>4. action.status = "launching" /\ action.launches = 0
  BY <1>1 DEF DcpInv, Launches
<1>5. cmd.kind \in Models /\ action \in ActionRecord
  BY <1>4, ModelIs
<1>6. ~action.reported
  <2>1. action.proc = "none"
    BY <1>4, <1>5 DEF DcpInv, Queue
  <2> QED
    BY <2>1 DEF Firm, Fencing
<1>7. action'.status = "launching" /\ action'.proc = "alive" /\ action'.reported = action.reported
  BY <1>1, <1>4, <1>5 DEF ActionRecord
<1>8. Fencing'
  BY <1>1, <1>4, <1>5, <1>6, <1>7 DEF Firm, Fencing, Models
<1>9. Waits' /\ crashes' = crashes
  BY <1>1, <1>7 DEF Waits, DcpTypes
<1> QED
  BY <1>1, <1>3, <1>5, <1>8, <1>9, ModelOn DEF Attended

\* The action runs, which it does or has done.
LEMMA StartAttends ==
    ASSUME DcpInv, Firm, Attended, NEW p \in Procs, StartModelRuntime(p)
    PROVE  Firm' /\ Attended'
<1>1. /\ DcpTypes /\ op[p].at = "start" /\ Go(p, "terminal")
      /\ UNCHANGED <<task, cmd, adm, events, excuse, crashes, faults, tree>>
      /\ action' = [action EXCEPT !.status = "running"]
  BY DEF DcpInv, StartModelRuntime, At, world
<1>2. Turns(p, "terminal")
  BY <1>1, HandlerMoves DEF Places
<1>3. Others(p) /\ op'[p].at = "terminal"
  BY <1>2 DEF Turns
<1>4. action.status = "launching" /\ action.proc # "none"
  BY <1>1 DEF DcpInv, Launches
<1>5. cmd.kind \in Models /\ action \in ActionRecord
  BY <1>4, ModelIs
<1>6. action'.status = "running" /\ action'.proc = action.proc /\ action'.reported = action.reported
  BY <1>1, <1>5 DEF ActionRecord
<1>7. Fencing'
  BY <1>1, <1>4, <1>5, <1>6 DEF Firm, Fencing, Models
<1>8. Firm' /\ (Waits => Waits')
  <2>1. Waits => Waits'
    BY <1>1, <1>4, <1>6 DEF Waits, Matched
  <2>2. crashes' = crashes
    BY <1>1 DEF DcpTypes
  <2> QED
    BY <1>1, <1>3, <1>5, <1>7, <2>1, <2>2, ModelOn
<1>9. \A q \in Procs : OnDuty(q) => OnDuty(q)'
  <2>1. ~OnDuty(p)
    BY <1>1 DEF OnDuty, Doomed, Collects, Answering, Carries, Concluding, Drives, Completes, Starts
  <2>2. ASSUME NEW q \in Procs \ {p}, OnDuty(q) PROVE OnDuty(q)'
    <3>1. op'[q] = op[q] /\ (Current(op[q])' <=> Current(op[q])) /\ (Doomed(q)' <=> Doomed(q))
      BY <1>1, <1>3, OthersKeep
    <3> QED
      BY <1>1, <1>4, <1>6, <2>2, <3>1 DEF OnDuty, Collects, Answering, Carries, Concluding, Drives, Completes, Starts
  <2> QED
    BY <2>1, <2>2
<1> QED
  BY <1>1, <1>8, <1>9 DEF Attended

-----------------------------------------------------------------------------
\* An action that is queued has not reported anything.
LEMMA Unreported ==
    ASSUME NEW id
    PROVE  ~Queued(id).reported /\ ~NoAction.reported
  BY DEF Queued, NoAction

\* A task is submitted: its command is there for the call to claim.
LEMMA SubmitAttends ==
    ASSUME DcpInv, DcpInv', Firm, NEW p \in Handlers, Submit(p)
    PROVE  Firm' /\ Attended'
<1> DEFINE i == [Idle EXCEPT !.call = "submit", !.at = "drain", !.cmd = NoCmd, !.ev = NoEvent]
<1>1. /\ p \in Procs /\ op' = [op EXCEPT ![p] = i] /\ task.state = "absent" /\ task \in TaskRecord
      /\ cmd' = Pending(1, "worker", 1) /\ action' = Queued(1) /\ crashes' = crashes
  BY DEF Submit, Serving, Serve, Procs, DcpInv, DcpTypes
<1>2. i.at = "drain"
  BY DEF Idle
<1> HIDE DEF i
<1>3. Others(p) /\ op'[p].at = "drain"
  BY <1>1, <1>2, Puts
<1>4. /\ cmd'.kind = "worker" /\ cmd'.status = "pending" /\ ~cmd'.fenced
      /\ action'.status = "queued" /\ ~action'.reported
  BY <1>1, PendingIs, QueuedIs, Unreported DEF Kinds, Models
<1>5. Fencing'
  BY <1>4 DEF Fencing, Models, Effects
<1>6. Heard'
  BY <1>4 DEF Heard
<1>7. ASSUME NEW q \in Procs
      PROVE  Reads(q)' /\ Unfenced(q)' /\ Settles(q)' /\ Booted(q)'
  <2>1. op[q].at \notin Executing \cup {"recover", "reconcile"}
    BY <1>1 DEF DcpInv, Queue, Serves
  <2>2. op'[q].at \notin Executing \cup {"reconcile"}
    BY <1>3, <2>1 DEF Others, Executing
  <2>3. Booted(q)'
    BY <1>1, <1>3 DEF Firm, Booted, Others
  <2> QED
    BY <2>2, <2>3 DEF Reads, Unfenced, Settles, Executing
<1>8. OnDuty(p)'
  BY <1>3, <1>4 DEF OnDuty, Collects
<1> QED
  BY <1>1, <1>5, <1>6, <1>7, <1>8 DEF Firm, Attended

\* An event is retained: the call that brings it lists the commands next, and finds
\* the one that waits for it.
LEMMA RecordEventAttends ==
    ASSUME DcpInv, Firm, Attended, NEW p \in Procs, RecordEvent(p)
    PROVE  Firm' /\ Attended'
<1>1. /\ DcpTypes /\ op[p].at = "record" /\ Go(p, "list")
      /\ events' = events \cup ({op[p].ev} \ applied)
      /\ UNCHANGED <<task, cmd, action, adm, tree, excuse, crashes, faults>>
  BY DEF DcpInv, RecordEvent, At, world
<1>2. Turns(p, "list")
  BY <1>1, HandlerMoves DEF Places
<1>3. Others(p) /\ op'[p].at = "list" /\ op'[p].ev = op[p].ev
  BY <1>2 DEF Turns
<1>4. ASSUME NEW q \in Procs \ {p}
      PROVE  /\ op'[q] = op[q] /\ (Current(op[q])' <=> Current(op[q]))
             /\ (Recorder(q)' <=> Recorder(q)) /\ (Ordered(q)' <=> Ordered(q))
             /\ (Doomed(q)' <=> Doomed(q))
  BY <1>1, <1>3, <1>4, OthersKeep
<1>5. Fencing'
  BY <1>1 DEF Firm, Fencing
<1>6. \A q \in Procs : Reads(q)' /\ Unfenced(q)' /\ Settles(q)' /\ Booted(q)'
  <2>1. Reads(p)' /\ Unfenced(p)' /\ Settles(p)' /\ Booted(p)'
    BY <1>3 DEF Reads, Unfenced, Settles, Booted, Executing
  <2>2. ASSUME NEW q \in Procs \ {p}
        PROVE  Reads(q)' /\ Unfenced(q)' /\ Settles(q)' /\ Booted(q)'
    BY <1>1, <1>4, <2>2 DEF Firm, Reads, Unfenced, Settles, Booted
  <2> QED
    BY <2>1, <2>2
<1>7. Heard'
  <2>1. SUFFICES ASSUME cmd.kind = "release", NEW e \in events', ThisMerge(e)', NEW q \in Procs, Ordered(q)'
                 PROVE  \E r \in Procs : Recorder(r)'
    BY <1>1 DEF Heard
  <2>2. CASE e = op[p].ev
    BY <1>3, <2>1, <2>2 DEF Recorder, ThisMerge
  <2>3. CASE e \in events
    <3>1. ThisMerge(e)
      BY <1>1, <2>1 DEF ThisMerge
    <3>2. q # p /\ Ordered(q)
      BY <1>3, <1>4, <2>1 DEF Ordered
    <3>3. PICK r \in Procs : Recorder(r)
      BY <2>1, <2>3, <3>1, <3>2 DEF Firm, Heard
    <3>4. r # p
      BY <1>1, <3>3 DEF Recorder
    <3> QED
      BY <1>4, <3>3, <3>4
  <2> QED
    BY <1>1, <2>1, <2>2, <2>3
<1>8. Attended'
  <2>1. CASE cmd.kind \in Wakes
    <3>1. cmd.status \in {"pending", "leased"}
      BY <2>1, Command DEF Wakes
    <3>2. OnDuty(p)'
      BY <1>1, <1>3, <2>1, <3>1 DEF OnDuty, Collects, Answering
    <3> QED
      BY <3>2 DEF Attended
  <2>2. CASE cmd.kind \notin Wakes
    <3>1. Waits => Waits'
      BY <1>1, <2>2 DEF Waits
    <3>2. ~OnDuty(p)
      BY <1>1 DEF OnDuty, Doomed, Collects, Answering, Carries, Concluding, Drives, Completes, Starts
    <3>3. ASSUME NEW q \in Procs \ {p}, OnDuty(q)
          PROVE  OnDuty(q)'
      BY <1>1, <1>4, <3>3 DEF OnDuty, Collects, Answering, Carries, Concluding, Drives, Completes, Starts
    <3> QED
      BY <1>1, <3>1, <3>2, <3>3 DEF Attended
  <2> QED
    BY <2>1, <2>2
<1> QED
  BY <1>5, <1>6, <1>7, <1>8 DEF Firm

\* A task that has failed waits for nothing, and no handler has its command.
LEMMA FailsAttend ==
    ASSUME DcpInv, Firm, NEW p \in Procs, Rests(p), NEW cause, FailTask(cause), crashes' = crashes
    PROVE  Firm' /\ Attended'
<1>1. /\ task' = [task EXCEPT !.state = "failed", !.id = task.id + 1, !.cause = cause]
      /\ cmd' = NoCmd /\ action' = NoAction /\ adm' = adm
      /\ task \in TaskRecord /\ task.id \in Nat
  BY DEF FailTask, DcpInv, DcpTypes, TaskRecord
<1>2. task'.state = "failed" /\ task'.id = task.id + 1
  BY <1>1 DEF TaskRecord
<1>3. Fencing' /\ Heard'
  <2>1. cmd'.kind = "none" /\ ~cmd'.fenced
    BY <1>1 DEF NoCmd
  <2> QED
    BY <1>1, <2>1, Unreported DEF Fencing, Heard, Models
<1>4. ASSUME NEW q \in Procs
      PROVE  Reads(q)' /\ Unfenced(q)' /\ Settles(q)' /\ Booted(q)'
  <2>1. CASE q = p
    BY <2>1 DEF Rests, Reads, Unfenced, Settles, Booted, Executing
  <2>2. CASE op'[q] = op[q]
    <3>1. op[q].at \in Executing \cup {"reconcile"} => op[q].cmd.id \in 1..task.id
      BY DEF DcpInv, Serves
    <3>2. op'[q].at \in Executing \cup {"reconcile"} => ~Current(op[q])'
      BY <1>1, <1>2, <2>2, <3>1 DEF Current
    <3>3. Reads(q)' /\ Unfenced(q)' /\ Booted(q)'
      BY <2>2, <3>2 DEF Firm, Reads, Unfenced, Booted, Executing
    <3>4. Settles(q)'
      BY <1>1, <1>2, <2>2, <3>2 DEF Firm, Settles, Executing
    <3> QED
      BY <3>3, <3>4
  <2> QED
    BY <2>1, <2>2 DEF Rests, Others
<1> QED
  BY <1>2, <1>3, <1>4 DEF Firm, Attended, Waits

\* A command ends and the next is there: the handler goes on to claim it, or leaves
\* it to an event that has not come, or to a handler that brings it.
LEMMA AdvanceAttends ==
    ASSUME DcpInv, Firm, NEW p \in Procs, Rests(p), NEW out, NEW ev, Proper(out, ev), Advance(out, ev),
           crashes' = crashes,
           out = "dispatched" => adm.status = "dispatched",
           op'[p].at \in {"drain", "models"} \/ out \in Pauses,
           out = "dispatched" => op'[p].at \in {"drain", "models"} \/ Ordered(p)
    PROVE  Firm' /\ Attended'
<1>1. Advanced(out)
  BY AdvanceRows DEF Proper, DcpInv
<1>2. /\ task \in TaskRecord /\ adm \in AdmRecord /\ task.id \in Nat /\ task.rev \in Nat /\ adm.rev \in Nat
      /\ adm.rev <= task.rev /\ (task.state \in Early => adm.rev < task.rev)
      /\ cmd.rev = task.rev /\ task.state # "failed" /\ out \in Outcomes
  <2>1. task \in TaskRecord /\ adm \in AdmRecord /\ Train /\ Queue /\ cmd.kind # "none" /\ out \in Outcomes
    BY DEF DcpInv, DcpTypes, Proper
  <2>2. task.state # "failed"
    BY <2>1 DEF Queue, Stage
  <2> QED
    BY <2>1, <2>2 DEF Train, Queue, TaskRecord, AdmRecord
<1>3. /\ task'.id = task.id + 1
      /\ adm' = Admission(out) /\ adm'.rev = (IF out = "admitted" THEN task.rev ELSE adm.rev)
      /\ action' = NoAction \/ action' = Queued(task.id + 1)
      /\ events' \subseteq events /\ excuse' = FALSE
  BY <1>1 DEF Advanced, Advance
<1>4. Others(p) /\ op'[p].at \in {"idle", "drain", "models", "drive"}
  BY DEF Rests
<1>5. ASSUME NEW q \in Procs, op'[q].at \in Executing \cup {"reconcile"}
      PROVE  op'[q] = op[q] /\ q # p /\ op[q].cmd.id \in 1..task.id /\ ~Current(op[q])'
  <2>1. op'[q] = op[q] /\ q # p
    BY <1>4, <1>5 DEF Others, Executing
  <2>2. op[q].cmd.id \in 1..task.id
    BY <1>5, <2>1 DEF DcpInv, Serves
  <2> QED
    BY <1>2, <1>3, <2>1, <2>2 DEF Current
<1>6. /\ ~cmd'.fenced
      /\ out # "verified" => cmd'.status = "pending"
      /\ cmd'.kind \in Models => action'.status = "queued"
      /\ ~action'.reported
  <2>1. ~cmd'.fenced
    BY <1>1 DEF Advanced, NoCmd
  <2>2. ~action'.reported
    BY <1>3, Unreported
  <2>3. out # "verified" => cmd'.kind # "none"
    BY <1>1, <1>2 DEF Advanced, Outcomes
  <2>4. cmd'.kind # "none" => cmd'.status = "pending"
    BY <1>1 DEF Advanced
  <2> QED
    BY <1>1, <2>1, <2>2, <2>3, <2>4 DEF Advanced
<1>7. Fencing'
  BY <1>6 DEF Fencing
<1>8. Heard'
  BY <1>5 DEF Heard, Ordered, Executing
<1>9. ASSUME NEW q \in Procs
      PROVE  Reads(q)' /\ Unfenced(q)' /\ Booted(q)'
  BY <1>4, <1>5 DEF Reads, Unfenced, Booted, Executing, Firm, Others
<1>10. ASSUME NEW q \in Procs
       PROVE  Settles(q)'
  <2>1. SUFFICES ASSUME op'[q].at \in Executing \cup {"reconcile"}, op'[q].cmd.kind = "release"
                 PROVE  /\ op[q].cmd.rev <= adm'.rev
                        /\ op[q].cmd.rev = adm'.rev => adm'.status \notin {"waiting", "leased"}
    BY <1>5 DEF Settles, Executing
  <2>2. op'[q] = op[q] /\ op[q].cmd.rev <= adm.rev /\ op[q].cmd.rev \in Nat /\ op[q].cmd.kind = "release"
    <3>1. op'[q] = op[q] /\ op[q].cmd \in CmdRecord
      BY <1>5, <2>1, Typed DEF DcpInv
    <3> QED
      BY <2>1, <3>1 DEF Firm, Settles, CmdRecord
  <2>3. CASE out = "admitted"
    <3>1. adm.rev < task.rev
      BY <1>2, <2>3, Endings DEF Early
    <3> QED
      BY <1>2, <1>3, <2>2, <2>3, <3>1
  <2>4. CASE out \in {"released", "moved"}
    <3>1. adm'.status \in {"succeeded", "readmission_required"}
      BY <1>2, <1>3, <2>4 DEF Admission, AdmRecord
    <3> QED
      BY <1>3, <2>2, <2>4, <3>1
  <2>5. CASE out \notin {"admitted", "released", "moved"}
    <3>1. adm' = adm
      BY <1>3, <2>5 DEF Admission
    <3>2. CASE Current(op[q])
      <4>1. cmd.kind = "release"
        BY <2>1, <2>2, <3>2 DEF DcpInv, Serves
      <4>2. out = "dispatched"
        BY <4>1 DEF Proper, Ends
      <4> QED
        BY <2>2, <3>1, <4>2
    <3>3. CASE ~Current(op[q])
      BY <1>2, <2>1, <2>2, <3>1, <3>3 DEF Firm, Settles
    <3> QED
      BY <3>2, <3>3
  <2> QED
    BY <1>2, <2>3, <2>4, <2>5
<1>11. Waits' \/ \E q \in Procs : OnDuty(q)'
  <2>1. CASE out = "verified"
    <3>1. task'.state = "deployed"
      BY <1>1, <2>1 DEF Advanced
    <3> QED
      BY <3>1 DEF Waits
  <2>2. CASE out # "verified" /\ op'[p].at \in {"drain", "models"}
    <3>1. cmd'.status = "pending"
      BY <1>6, <2>2
    <3> QED
      BY <2>2, <3>1 DEF OnDuty, Collects
  <2>3. CASE out \in {"published", "rebased"}
    <3>1. /\ cmd'.kind = "checks" /\ cmd'.rev = task.rev + 1
      BY <1>1, <2>3 DEF Advanced
    <3>2. \A e \in events : e.rev \in 1..task.rev
      BY DEF DcpInv, Train, Answers
    <3>3. Matched(cmd)' = {}
      BY <1>2, <1>3, <3>1, <3>2 DEF Matched
    <3> QED
      BY <3>1, <3>3 DEF Waits, Wakes
  <2>4. CASE out = "dispatched" /\ Ordered(p)
    <3>1. /\ cmd'.kind = "merge" /\ cmd'.status = "pending" /\ cmd'.rev = task.rev /\ task'.rev = task.rev
          /\ cmd.kind = "release"
      BY <1>1, <2>4, Endings DEF Advanced
    <3>2. CASE Matched(cmd)' = {}
      BY <3>1, <3>2 DEF Waits, Wakes
    <3>3. CASE Matched(cmd)' # {}
      <4>1. PICK e \in events : ThisMerge(e)
        BY <1>3, <3>1, <3>3 DEF Matched, ThisMerge
      <4>2. PICK q \in Procs : Recorder(q)
        BY <2>4, <3>1, <4>1 DEF Firm, Heard
      <4>3. q # p /\ op'[q] = op[q]
        BY <1>4, <2>4, <4>2 DEF Ordered, Recorder, Others
      <4>4. CASE op[q].at = "list"
        BY <3>1, <4>3, <4>4 DEF OnDuty, Collects
      <4>5. CASE op[q].at # "list"
        <5>1. ~Current(op[q])'
          BY <1>5, <4>2, <4>3, <4>5 DEF Recorder, Executing
        <5>2. op[q].at = "reconcile" => op[q].cmd.kind = "release" /\ op[q].cmd.rev = task.rev
          BY <1>2, <3>1, <4>2 DEF Recorder, DcpInv, Serves
        <5>3. Doomed(q)'
          BY <4>2, <4>3, <4>5, <5>1, <5>2 DEF Doomed, Recorder, ThisMerge
        <5> QED
          BY <5>3 DEF OnDuty
      <4> QED
        BY <4>4, <4>5
    <3> QED
      BY <3>2, <3>3
  <2> QED
    BY <2>1, <2>2, <2>3, <2>4 DEF Pauses
<1> QED
  BY <1>7, <1>8, <1>9, <1>10, <1>11 DEF Firm, Attended

\* Where a handler goes on to, when it does not pause.
LEMMA GoesOn ==
    ASSUME DcpInv, NEW p \in Procs, NEW at \in {"drain", "models"}, Go(p, at)
    PROVE  Rests(p) /\ op'[p].at = at
<1>1. Rests(p)
  BY HandlerMoves DEF DcpInv
<1> DEFINE o == [Idle EXCEPT !.call = op[p].call, !.at = at, !.next = op[p].next]
<1>2. op' = [op EXCEPT ![p] = o] /\ o.at = at
  BY DEF Go, Idle
<1> HIDE DEF o
<1> QED
  BY <1>1, <1>2 DEF DcpInv, DcpTypes

\* A handler applies its outcome, fails the task, or finds that its lease is gone.
LEMMA ApplyOutcomeAttends ==
    ASSUME DcpInv, Firm, Attended, NEW p \in Procs, ApplyOutcome(p)
    PROVE  Firm' /\ Attended'
<1> DEFINE o == op[p]
           pause == o.out \in Pauses
<1>1. /\ DcpTypes /\ op[p].at = "apply" /\ op[p].via \in {"drain", "list", "reconcile"}
      /\ crashes' = crashes
  BY Typed DEF DcpInv, ApplyOutcome, At
<1>2. CASE ~Holds(o.cmd)
  BY <1>2, LeaseGoneAttends
<1>3. CASE FailTask("transition_failed") /\ Err(p)
  BY <1>1, <1>3, HandlerMoves, FailsAttend
<1>4. CASE /\ Holds(o.cmd) /\ ~(o.out = "moved" /\ task.readmissions = MaxReadmissions)
           /\ Advance(o.out, o.ev) /\ Go(p, Continue(o, pause))
  <2>1. Proper(op[p].out, op[p].ev) /\ Current(op[p]) /\ cmd.kind = op[p].cmd.kind
    BY <1>1, <1>4, OutcomeHolds, CalmAtTheEnd
  <2>2. op[p].out = "dispatched" => adm.status = "dispatched"
    <3>1. op[p].out = "dispatched" => cmd.kind = "release"
      BY <2>1, Endings
    <3> QED
      BY <1>1, <2>1, <3>1 DEF Firm, Settles
  <2>3. op[p].via = "reconcile" \/ ~pause => Continue(op[p], pause) \in {"drain", "models"}
    BY <1>1 DEF Continue
  <2>4. Rests(p)
    <3>1. pause \in BOOLEAN
      OBVIOUS
    <3> HIDE DEF pause
    <3> QED
      BY <1>1, <1>4, <3>1, Continues, HandlerMoves
  <2>5. op[p].via = "reconcile" \/ ~pause => op'[p].at \in {"drain", "models"}
    BY <1>4, <2>3, GoesOn
  <2>6. op[p].out = "dispatched" => op'[p].at \in {"drain", "models"} \/ Ordered(p)
    BY <1>1, <2>1, <2>5 DEF Ordered
  <2> QED
    BY <1>1, <1>4, <2>1, <2>2, <2>4, <2>5, <2>6, AdvanceAttends
<1> QED
  BY <1>2, <1>3, <1>4 DEF ApplyOutcome

\* A handler whose command failed fails the task, or finds that its lease is gone.
LEMMA FailClosedAttends ==
    ASSUME DcpInv, Firm, Attended, NEW p \in Procs, FailClosed(p)
    PROVE  Firm' /\ Attended'
<1>1. DcpTypes /\ op[p].via \in {"drain", "list", "reconcile"} /\ crashes' = crashes
  BY Typed DEF DcpInv, FailClosed
<1>2. CASE ~Holds(op[p].cmd)
  BY <1>2, LeaseGoneAttends
<1>3. ASSUME NEW cause, FailTask(cause), Go(p, Continue(op[p], FALSE))
      PROVE  Firm' /\ Attended'
  BY <1>1, <1>3, Continues, HandlerMoves, FailsAttend
<1> QED
  BY <1>2, <1>3 DEF FailClosed

\* The verdict of a model moves the task or fails it, or cannot be used.
LEMMA CompleteDirectModelAttends ==
    ASSUME DcpInv, Firm, Attended, NEW p \in Procs, CompleteDirectModel(p)
    PROVE  Firm' /\ Attended'
<1>1. op[p].at = "complete" /\ crashes' = crashes
  BY DEF CompleteDirectModel, At
<1>2. CASE /\ \/ /\ action.id # op[p].cmd.id /\ excuse' = excuse
                 /\ Go(p, IF op[p].call = "exit" THEN "return" ELSE op[p].next)
              \/ Err(p)
           /\ UNCHANGED <<db, evidence>>
  <2>1. Still /\ Tallied
    BY <1>2 DEF CompleteDirectModel, Still, Tallied, db, evidence, world
  <2> QED
    BY <1>1, <1>2, <2>1, CompletedAttends
<1>3. CASE action.id = op[p].cmd.id /\ action.status = "running" /\ ~Unusable /\ Go(p, "drain")
  <2>1. Rests(p) /\ op'[p].at = "drain"
    BY <1>3, GoesOn
  <2>2. action.proc = "ended"
    BY <1>1, <1>3 DEF DcpInv, Launches
  <2>3. CASE FailTask("model_failed")
    BY <1>1, <2>1, <2>3, FailsAttend
  <2>4. CASE action.verdict # "failed" /\ Advance(action.verdict, NoEvent)
    <3>1. Proper(action.verdict, NoEvent)
      BY <1>3, <2>2, <2>4, VerdictHolds
    <3>2. action.verdict # "dispatched"
      <4>1. cmd.kind \in Models
        BY <1>3, CalmAfterRunning
      <4> QED
        BY <3>1, <4>1, Endings DEF Models
    <3> QED
      BY <1>1, <2>1, <2>4, <3>1, <3>2, AdvanceAttends
  <2> QED
    BY <1>3, <2>3, <2>4 DEF CompleteDirectModel
<1> QED
  BY <1>2, <1>3 DEF CompleteDirectModel

-----------------------------------------------------------------------------
\* A release ends outside, which its wake has still to report.
LEMMA ReleaseEndsAttends ==
    ASSUME DcpInv, Firm, Attended, NEW n \in Admissions, NEW end \in {"merged", "moved"}, ReleaseEnds(n, end)
    PROVE  Firm' /\ Attended'
<1>1. UNCHANGED <<task, cmd, action, adm, events, applied, tree, op, excuse, crashes, faults>>
  BY DEF ReleaseEnds, db
<1>2. Firm'
  <2>1. Fencing' /\ Heard'
    BY <1>1 DEF Firm, Fencing, Heard, ThisMerge, Ordered, Recorder, Current
  <2>2. \A q \in Procs : Reads(q)' /\ Unfenced(q)' /\ Settles(q)' /\ Booted(q)'
    BY <1>1 DEF Firm, Reads, Unfenced, Settles, Booted, Current
  <2> QED
    BY <2>1, <2>2 DEF Firm
<1>3. Attended'
  <2>1. Waits => Waits'
    BY <1>1 DEF Waits, Matched
  <2>2. \A q \in Procs : OnDuty(q) => OnDuty(q)'
    BY <1>1 DEF OnDuty, Doomed, Collects, Answering, Carries, Concluding, Drives, Completes, Starts, Current
  <2> QED
    BY <1>1, <2>1, <2>2 DEF Attended
<1> QED
  BY <1>2, <1>3

\* The daemon dies: no handler is left, and its boot has everything to take up.
LEMMA CrashAttends ==
    ASSUME DcpInv, Firm, Crash
    PROVE  Firm' /\ Attended'
<1> DEFINE s == [Idle EXCEPT !.call = "startup", !.at = "recon"]
<1>1. /\ Boot \in Procs /\ crashes' = crashes + 1 /\ crashes \in Nat /\ action \in ActionRecord
      /\ op' = [p \in Procs |-> IF p = Boot THEN s ELSE Idle]
      /\ action' \in {action, [action EXCEPT !.proc = IF @ = "alive" THEN "gone" ELSE @]}
      /\ UNCHANGED <<task, cmd, adm, events>>
  BY DcpV2Assumption DEF Crash, Procs, DcpInv, DcpTypes
<1>2. s.at = "recon" /\ Idle.at = "idle"
  BY DEF Idle
<1> HIDE DEF s
<1>3. op'[Boot].at = "recon" /\ \A q \in Procs : op'[q].at \in {"recon", "idle"}
  BY <1>1, <1>2
<1>4. /\ action'.status = action.status /\ action'.reported = action.reported
      /\ action'.proc \in {"none", "alive"} => action'.proc = action.proc
  <2>1. CASE action' = action
    BY <2>1
  <2>2. CASE action' = [action EXCEPT !.proc = IF @ = "alive" THEN "gone" ELSE @]
    <3>1. action'.proc = (IF action.proc = "alive" THEN "gone" ELSE action.proc)
      BY <1>1, <2>2 DEF ActionRecord
    <3>2. action'.status = action.status /\ action'.reported = action.reported
      BY <1>1, <2>2 DEF ActionRecord
    <3> QED
      BY <3>1, <3>2
  <2> QED
    BY <1>1, <2>1, <2>2
<1>5. Fencing' /\ Heard'
  BY <1>1, <1>3, <1>4 DEF Firm, Fencing, Heard, Ordered
<1>6. \A q \in Procs : Reads(q)' /\ Unfenced(q)' /\ Settles(q)' /\ Booted(q)'
  BY <1>1, <1>3 DEF Reads, Unfenced, Settles, Booted, Executing
<1> QED
  BY <1>1, <1>3, <1>5, <1>6 DEF Firm, Attended, OnDuty

-----------------------------------------------------------------------------
\* The initial state.
LEMMA AttendedInit == Init => Firm /\ Attended
<1> SUFFICES ASSUME Init PROVE Firm /\ Attended
  OBVIOUS
<1>1. /\ task.state = "absent" /\ cmd = NoCmd /\ action = NoAction
      /\ \A p \in Procs : op[p] = Idle
      /\ Idle.at = "idle" /\ NoCmd.kind = "none" /\ ~NoCmd.fenced /\ ~NoAction.reported
  BY DEF Init, Idle, NoCmd, NoAction
<1>2. Fencing /\ Heard
  BY <1>1 DEF Fencing, Heard, Models
<1>3. \A p \in Procs : Reads(p) /\ Unfenced(p) /\ Settles(p) /\ Booted(p)
  BY <1>1 DEF Reads, Unfenced, Settles, Booted, Executing
<1> QED
  BY <1>1, <1>2, <1>3 DEF Firm, Attended, Waits

\* A step that changes nothing.
LEMMA AttendedStutters ==
    ASSUME Firm, Attended, UNCHANGED vars
    PROVE  Firm' /\ Attended'
<1>1. UNCHANGED <<task, cmd, action, adm, events, tree, op, excuse, crashes, faults>>
  BY DEF vars, db, world
<1>2. Firm'
  <2>1. Fencing' /\ Heard'
    BY <1>1 DEF Firm, Fencing, Heard, ThisMerge, Ordered, Recorder, Current
  <2>2. \A q \in Procs : Reads(q)' /\ Unfenced(q)' /\ Settles(q)' /\ Booted(q)'
    BY <1>1 DEF Firm, Reads, Unfenced, Settles, Booted, Current
  <2> QED
    BY <2>1, <2>2 DEF Firm
<1>3. Attended'
  <2>1. Waits => Waits'
    BY <1>1 DEF Waits, Matched
  <2>2. \A q \in Procs : OnDuty(q) => OnDuty(q)'
    BY <1>1 DEF OnDuty, Doomed, Collects, Answering, Carries, Concluding, Drives, Completes, Starts, Current
  <2> QED
    BY <1>1, <2>1, <2>2 DEF Attended
<1> QED
  BY <1>2, <1>3

\* Every step of a handler keeps the task attended.
LEMMA HandlerAttends ==
    ASSUME DcpInv, DcpInv', Firm, Attended, NEW p \in Procs, Step(p)
    PROVE  Firm' /\ Attended'
<1>1. ASSUME RecoverCommandLease(p) PROVE Firm' /\ Attended'
  <2>1. DcpTypes'
    BY DEF DcpInv
  <2>2. CASE Err(p) /\ cmd' = cmd
    BY <1>1, <2>2, LeaseLostAttends
  <2>3. CASE /\ Holds(op[p].cmd) /\ ~cmd.fenced
             /\ cmd' = [cmd EXCEPT !.lease = "recovery", !.gen = @ + 1]
             /\ op' = [op EXCEPT ![p].cmd = cmd', ![p].at = IF cmd.kind \in Models THEN "models" ELSE "process"]
    <3>1. op[p].at = "recover" /\ UNCHANGED <<task, action, adm, events, crashes>>
      BY <1>1 DEF RecoverCommandLease, At
    <3> QED
      BY <2>1, <2>3, <3>1, LeaseWonAttends
  <2> QED
    BY <1>1, <2>2, <2>3 DEF RecoverCommandLease
<1>2. ASSUME ReserveModelLaunch(p) PROVE Firm' /\ Attended'
  BY <1>2, ReserveAttends, ReservedAttends
<1>3. ASSUME DispatchAdmission(p) PROVE Firm' /\ Attended'
  BY <1>3, SettledAttends, DispatchAdmissionAttends
<1>4. CASE RecordEvent(p) \/ List(p) \/ ReconcileModelCommands(p) \/ ClaimNextCommand(p)
  BY <1>4, RecordEventAttends, ListAttends, ReconcileModelCommandsAttends, DrainEndsAttends, ClaimAttends
<1>5. CASE CompleteChecks(p) \/ ObserveRelease(p) \/ ObserveDeployment(p) \/ VerifyTerminal(p)
           \/ PrepareEffect(p) \/ DispatchRelease(p) \/ FenceAdmissionDispatch(p) \/ Drifts(p)
  BY <1>5, CompleteChecksAttends, ObserveReleaseAttends, DeploymentAttends, PrepareAttends,
     DispatchReleaseAttends, FenceAdmissionAttends
<1>6. CASE FenceCommandEffect(p) \/ Effect(p) \/ EffectRefused(p) \/ AdoptSuccessor(p) \/ EffectFails(p)
           \/ ApplyOutcome(p) \/ FailClosed(p)
  BY <1>6, FenceCommandAttends, EffectAttends, EffectRefusedAttends, AdoptSuccessorAttends,
     EffectFailsAttends, ApplyOutcomeAttends, FailClosedAttends
<1>7. CASE ReconcileRevision(p) \/ ReconcilePublication(p) \/ ReconcileAdmission(p)
           \/ ReconcileRelease(p) \/ ReconcileReadmission(p) \/ ReconcileFails(p)
  BY <1>7, ReconcileAttends
<1>8. CASE DriveModels(p) \/ Launch(p) \/ LaunchFails(p) \/ StartModelRuntime(p) \/ ImmediateTerminal(p)
           \/ CompleteDirectModel(p)
  BY <1>8, DriveModelsAttends, LaunchAttends, LaunchFailsAttends, StartAttends,
     ImmediateTerminalAttends, CompleteDirectModelAttends
<1> QED
  BY <1>1, <1>2, <1>3, <1>4, <1>5, <1>6, <1>7, <1>8 DEF Step

\* Every step does.
LEMMA AttendedStep == DcpInv /\ Firm /\ Attended /\ [Next]_vars => Firm' /\ Attended'
<1> SUFFICES ASSUME DcpInv, Firm, Attended, [Next]_vars
             PROVE  Firm' /\ Attended'
  OBVIOUS
<1>1. DcpInv'
  BY DcpInvStep
<1>2. ASSUME NEW p \in Handlers, Call(p)
      PROVE  Firm' /\ Attended'
  BY <1>1, <1>2, SubmitAttends, WakesAttend, ReportExitAttends DEF Call
<1>3. ASSUME NEW p \in Procs, Step(p)
      PROVE  Firm' /\ Attended'
  BY <1>1, <1>3, HandlerAttends
<1>4. CASE Outside
  BY <1>1, <1>4, ModelOutside, CrashAttends, ReleaseEndsAttends DEF Outside
<1> QED
  BY <1>1, <1>2, <1>3, <1>4, ReconcileDirectModelsAttends, AttendedStutters DEF Next

\* When all calls have returned, a task that moved without an error waits for something
\* outside the daemon, or behind the fence of an effect for the next restart: whatever
\* order the wakes and the handlers took, no command and no event was dropped between two.
THEOREM NothingIsLeftBehind == Spec => []NothingLeftBehind
<1>1. DcpInv /\ Firm /\ Attended => NothingLeftBehind
  <2> SUFFICES ASSUME DcpInv, Firm, Attended, Quiet, ~excuse
               PROVE  \/ task.state \in {"absent", "deployed", "failed"}
                      \/ cmd.kind \in Wakes /\ Matched(cmd) = {}
                      \/ cmd.kind \in Effects /\ cmd.fenced /\ (crashes + faults > 0 \/ Refused(cmd))
                      \/ action.status = "queued" /\ cmd.lease = "release"
                      \/ action.proc \in {"alive", "gone"} \/ (action.proc = "ended" /\ ~action.reported)
    BY DEF NothingLeftBehind
  <2>1. \A p \in Procs : ~OnDuty(p)
    BY DEF Quiet, At, OnDuty, Doomed, Collects, Answering, Carries, Concluding, Drives, Completes, Starts
  <2>2. Waits
    BY <2>1 DEF Attended
  <2>3. cmd.kind = "publication" /\ tree # cmd.rev => Refused(cmd)
    BY DEF Refused
  <2> QED
    BY <2>2, <2>3 DEF Waits
<1> QED
  BY <1>1, DcpInvHolds, AttendedInit, AttendedStep, PTL DEF Spec
=============================================================================
