------------------------- MODULE PolicyQueueProofs -------------------------
(***************************************************************************)
(* The slots, the actions and the reviews of the policy queue, for any     *)
(* tasks, slots, deaths of the daemon and failures.                        *)
(*                                                                         *)
(* PhaseOwnsAction is not inductive: a reserved task must already have its *)
(* worker's action queued, a task under review must own the review of the  *)
(* head its row names, and a trigger that is underway must have a head.    *)
(* Each transaction of the store preserves these whatever the caller is    *)
(* at, so that they hold under every interleaving of the callers.          *)
(*                                                                         *)
(* That nothing runs twice, that what lives holds a slot and that what is  *)
(* admitted was reviewed need each other.  Whole adds to Inv how far a     *)
(* task has come, that a worker lives only as long as its action, that a   *)
(* head stays while it is reviewed, and what a drain may rely on while the *)
(* trigger it started is on its way.                                       *)
(*                                                                         *)
(* That nothing waits is about a daemon that nothing failed in yet.  What  *)
(* it is owed is Attended: whoever holds an action has a process, a        *)
(* handler or a drain that will end it, and whoever could be claimed has a *)
(* drain to come or an active action before it.                            *)
(***************************************************************************)
EXTENDS PolicyQueue, SequenceTheorems, TLAPS

StoreType ==
    /\ task \in [Tasks -> TaskRows]
    /\ act \in [Tasks -> [Kinds -> ActRows]]
    /\ queue \in Seq(Tasks \X Kinds)

\* A reserved task has its action queued, an absent one has had none.
Fresh ==
    \A t \in Tasks :
      /\ task[t].st = "reserved" => act[t]["worker-1"].st = "queued"
      /\ task[t].st = "absent" => \A k \in Kinds : act[t][k].st = "none"

\* A task under review owns the review of the head its row names.
Reviewing ==
    \A t \in Tasks : task[t].st \in {"review_queued", "review_running"} =>
      /\ task[t].head \in Heads
      /\ Owned(t) = {Reviewer[task[t].head]}

Store == StoreType /\ SlotsExclusive /\ PhaseOwnsAction /\ Fresh /\ Reviewing

\* A trigger that is underway has a head to review, and the drain waits for
\* the one it started; a drain past its claim has a task.
Triggered ==
    \A t \in Tasks :
      /\ trig[t].at # "idle" => pr[t] \in Heads
      /\ trig[t].by = "drain" => drain.at = "wait" /\ drain.t = t
Draining ==
    /\ drain.at \notin {"idle", "claim"} => drain.t \in Tasks
    /\ drain.at \in {"validate", "mark", "read", "look", "bind"} => drain.k \in Workers

Reported == \A t \in Tasks : report[t].at # "none" => report[t].head \in Heads

\* The rest of TypeOK.
WorldType ==
    /\ row \in [Tasks -> Rows] /\ run \in [Tasks -> [Heads -> RunStates]]
    /\ handle \in [Tasks -> BOOLEAN]
    /\ proc \in [Tasks -> Workers \cup {""}] /\ rproc \in [Tasks -> 0..2] /\ pr \in [Tasks -> 0..2]
HandlersType ==
    /\ drain \in Drains /\ wanted \in BOOLEAN /\ trig \in [Tasks -> Trigs]
    /\ exit \in [Tasks -> Exits] /\ report \in [Tasks -> Reports]
BootType ==
    /\ boot \in {"up", "runtime", "reviews", "tasks"} /\ todo \subseteq Tasks
    /\ crashes \in 0..MaxCrashes /\ faults \in 0..MaxFaults

Inv == TypeOK /\ Store /\ Triggered /\ Draining /\ Reported
-----------------------------------------------------------------------------
\* The kinds of the actions and the states of their tasks.
LEMMA KindFacts ==
    /\ Kinds = {"worker-1", "worker-2", "review-1", "review-2"}
    /\ \A k \in Kinds : QueuedState[k] \in Queueds /\ RunningState[k] \in Runnings
    /\ \A h \in Heads : Reviewer[h] \in Reviewers /\ QueuedState[Reviewer[h]] = "review_queued"
                        /\ RunningState[Reviewer[h]] = "review_running"
    /\ \A k \in Kinds : QueuedState[k] = "review_queued" => k \in Reviewers
    /\ \A k \in Kinds : RunningState[k] = "review_running" => k \in Reviewers
    /\ QueuedState["worker-1"] = "worker_queued" /\ QueuedState["worker-2"] = "repair_queued"
    /\ 0 \notin Slots
BY PolicyQueueAssumption
   DEF Kinds, Workers, Reviewers, Heads, Reviewer, QueuedState, RunningState, Queueds, Runnings

\* A transaction that leaves the actions alone and no task in another state.
LEMMA Bystander ==
    ASSUME Store, UNCHANGED <<act, queue>>, task' \in [Tasks -> TaskRows],
           \A t \in Tasks : task'[t].st = task[t].st /\ task'[t].head = task[t].head
    PROVE  Store'
<1>1. \A t \in Tasks : Owned(t)' = Owned(t)
                       /\ \A k \in Kinds : /\ (Claimable(t, k)' <=> Claimable(t, k))
                                           /\ (Active(t, k)' <=> Active(t, k))
  BY DEF Owned, Claimable, Active
<1>2. SlotsExclusive'
  BY <1>1 DEF Store, SlotsExclusive
<1>3. ASSUME NEW t \in Tasks PROVE Consistent(t)'
  BY <1>1 DEF Store, PhaseOwnsAction, Consistent, Owned
<1>4. Fresh' /\ Reviewing'
  BY <1>1 DEF Store, Fresh, Reviewing
<1> QED
  BY <1>2, <1>3, <1>4 DEF Store, StoreType, PhaseOwnsAction

\* What setting one action does to the rows of the actions.
LEMMA SetActType ==
    ASSUME StoreType, NEW t \in Tasks, NEW k \in Kinds,
           NEW st \in {"none", "queued", "claimed", "running", "succeeded", "failed"},
           NEW slot \in Slots \cup {0}, SetAct(t, k, st, slot)
    PROVE  /\ act' \in [Tasks -> [Kinds -> ActRows]]
           /\ act'[t][k].st = st /\ act'[t][k].slot = slot
           /\ \A u \in Tasks, j \in Kinds : u # t \/ j # k => act'[u][j] = act[u][j]
BY DEF StoreType, SetAct, ActRows

\* A task that a transaction does not touch stays as it was.
LEMMA Unmoved ==
    ASSUME Store, NEW u \in Tasks, task'[u].st = task[u].st,
           \A k \in Kinds : act'[u][k] = act[u][k]
    PROVE  /\ Consistent(u)' /\ Owned(u)' = Owned(u)
           /\ \A k \in Kinds : Active(u, k)' <=> Active(u, k)
<1>1. Owned(u)' = Owned(u) /\ Owned(u) \subseteq Kinds
  BY DEF Owned
<1>2. \A k \in Kinds : (Claimable(u, k)' <=> Claimable(u, k)) /\ (Active(u, k)' <=> Active(u, k))
  BY DEF Claimable, Active
<1>3. Consistent(u)
  BY DEF Store, PhaseOwnsAction
<1>4. Consistent(u)'
  BY <1>1, <1>2, <1>3 DEF Consistent
<1> QED
  BY <1>1, <1>2, <1>4

\* The start of a claimed action keeps the store as it must be.
LEMMA StartStep ==
    ASSUME Store, NEW t \in Tasks, NEW k \in Kinds, act[t][k].st = "claimed", Start(t, k),
           UNCHANGED queue, task' \in [Tasks -> TaskRows],
           \A u \in Tasks : task'[u].st = task[u].st /\ task'[u].head = task[u].head
    PROVE  Store'
<1>1. act[t][k].slot \in Slots \cup {0}
  BY DEF Store, StoreType, ActRows
<1>2. /\ act' \in [Tasks -> [Kinds -> ActRows]]
      /\ act'[t][k].st = "running" /\ act'[t][k].slot = act[t][k].slot
      /\ \A u \in Tasks, j \in Kinds : u # t \/ j # k => act'[u][j] = act[u][j]
  BY <1>1, SetActType DEF Store, Start
<1>3. \A u \in Tasks, j \in Kinds : /\ act'[u][j].slot = act[u][j].slot
                                   /\ (Active(u, j)' <=> Active(u, j))
                                   /\ (act'[u][j].st = "queued" <=> act[u][j].st = "queued")
                                   /\ (act'[u][j].st = "none" <=> act[u][j].st = "none")
  BY <1>2, KindFacts DEF Active
<1>4. \A u \in Tasks : Owned(u)' = Owned(u)
  BY <1>3 DEF Owned, Active
<1>5. \A u \in Tasks, j \in Kinds : (Claimable(u, j)' <=> Claimable(u, j))
  BY <1>3 DEF Claimable
<1>6. SlotsExclusive'
  BY <1>3 DEF Store, SlotsExclusive
<1>7. ASSUME NEW u \in Tasks PROVE Consistent(u)'
  BY <1>3, <1>4, <1>5 DEF Store, PhaseOwnsAction, Consistent, Owned
<1>8. Fresh' /\ Reviewing'
  BY <1>3, <1>4, KindFacts DEF Store, Fresh, Reviewing
<1> QED
  BY <1>2, <1>6, <1>7, <1>8 DEF Store, StoreType, PhaseOwnsAction

\* The end of an active action frees its slot and moves its task.
LEMMA FinishStep ==
    ASSUME Store, NEW t \in Tasks, NEW k \in Kinds, Active(t, k),
           NEW st \in {"succeeded", "failed"}, NEW state \in {"ci_waiting", "failed"},
           Finish(t, k, st, state)
    PROVE  Store'
<1>1. /\ act' \in [Tasks -> [Kinds -> ActRows]]
      /\ act'[t][k].st = st /\ act'[t][k].slot = 0
      /\ \A u \in Tasks, j \in Kinds : u # t \/ j # k => act'[u][j] = act[u][j]
  BY SetActType DEF Store, Finish
<1>2. /\ task' \in [Tasks -> TaskRows] /\ task'[t].st = state
      /\ \A u \in Tasks : u # t => task'[u] = task[u]
  BY DEF Store, StoreType, Finish, TaskRows, States, Queueds, Runnings, Ends
<1>3. Owned(t) = {k}
  BY DEF Store, PhaseOwnsAction, Consistent, Owned, Active
<1>4. Owned(t)' = {}
  BY <1>1, <1>3 DEF Owned
<1>5. \A u \in Tasks : u # t => Owned(u)' = Owned(u)
                                /\ \A j \in Kinds : (Claimable(u, j)' <=> Claimable(u, j))
                                                    /\ (Active(u, j)' <=> Active(u, j))
  BY <1>1, <1>2 DEF Owned, Claimable, Active
<1>6. SlotsExclusive'
  BY <1>1, KindFacts DEF Store, SlotsExclusive, Active
<1>7. ASSUME NEW u \in Tasks PROVE Consistent(u)'
  <2>1. CASE u = t
    BY <1>2, <1>4, <2>1 DEF Consistent, Queueds, Runnings
  <2>2. CASE u # t
    BY <1>1, <1>2, <2>2, Unmoved
  <2> QED
    BY <2>1, <2>2
<1>8. Fresh' /\ Reviewing'
  BY <1>1, <1>2, <1>5, KindFacts DEF Store, Fresh, Reviewing
<1> QED
  BY <1>1, <1>2, <1>6, <1>7, <1>8 DEF Store, StoreType, PhaseOwnsAction, Finish

\* Queueing an action for a task that owns none.
LEMMA EnqueueStep ==
    ASSUME Store, NEW t \in Tasks, NEW k \in Kinds, Owned(t) = {}, Enqueue(t, k),
           NEW r \in TaskRows, task' = [task EXCEPT ![t] = r],
           r.st = QueuedState[k] \/ (r.st = "reserved" /\ k = "worker-1"),
           k \in Reviewers => r.head \in Heads /\ k = Reviewer[r.head]
    PROVE  Store'
<1>1. /\ act' \in [Tasks -> [Kinds -> ActRows]]
      /\ act'[t][k].st = "queued" /\ act'[t][k].slot = 0
      /\ \A u \in Tasks, j \in Kinds : u # t \/ j # k => act'[u][j] = act[u][j]
  BY SetActType DEF Store, Enqueue
<1>2. /\ task' \in [Tasks -> TaskRows] /\ task'[t] = r
      /\ \A u \in Tasks : u # t => task'[u] = task[u]
  BY DEF Store, StoreType
<1>3. queue' \in Seq(Tasks \X Kinds)
  BY AppendProperties DEF Store, StoreType, Enqueue
<1>4. Owned(t)' = {k}
  BY <1>1 DEF Owned
<1>5. \A u \in Tasks : u # t => Owned(u)' = Owned(u)
                                /\ \A j \in Kinds : (Claimable(u, j)' <=> Claimable(u, j))
                                                    /\ (Active(u, j)' <=> Active(u, j))
  BY <1>1, <1>2 DEF Owned, Claimable, Active
<1>6. SlotsExclusive'
  BY <1>1, KindFacts DEF Store, SlotsExclusive, Active
<1>7. ASSUME NEW u \in Tasks PROVE Consistent(u)'
  <2>1. CASE u = t
    <3>1. r.st \in Queueds => Claimable(t, k)'
      BY <1>1, <1>2, KindFacts DEF Claimable, Queueds
    <3>2. task'[t].st \notin Runnings \cup {"absent", "ci_waiting", "admission_waiting", "failed"}
      BY <1>2, KindFacts DEF Queueds, Runnings
    <3> QED
      BY <1>2, <1>4, <2>1, <3>1, <3>2 DEF Consistent
  <2>2. CASE u # t
    BY <1>1, <1>2, <2>2, Unmoved
  <2> QED
    BY <2>1, <2>2
<1>8. Fresh'
  <2>1. r.st # "absent" /\ (r.st = "reserved" => k = "worker-1")
    BY KindFacts DEF Queueds
  <2> QED
    BY <1>1, <1>2, <2>1, KindFacts DEF Store, Fresh
<1>9. Reviewing'
  <2>1. r.st # "review_running" /\ (r.st = "review_queued" => k \in Reviewers)
    BY KindFacts DEF Queueds
  <2> QED
    BY <1>2, <1>4, <1>5, <2>1 DEF Store, Reviewing
<1> QED
  BY <1>1, <1>2, <1>3, <1>6, <1>7, <1>8, <1>9 DEF Store, StoreType, PhaseOwnsAction

\* A claim gives the action at the head of the queue a free slot.
LEMMA ClaimStep ==
    ASSUME Store, NEW t \in Tasks, NEW k \in Kinds, NEW s \in FreeSlots, Claimable(t, k),
           SetAct(t, k, "claimed", s), NEW r \in TaskRows, task' = [task EXCEPT ![t] = r],
           r.st = RunningState[k], r.head = task[t].head,
           queue # <<>>, queue' = Tail(queue)
    PROVE  Store'
<1>1. /\ act' \in [Tasks -> [Kinds -> ActRows]]
      /\ act'[t][k].st = "claimed" /\ act'[t][k].slot = s
      /\ \A u \in Tasks, j \in Kinds : u # t \/ j # k => act'[u][j] = act[u][j]
  BY SetActType DEF Store, FreeSlots
<1>2. /\ task' \in [Tasks -> TaskRows] /\ task'[t].st = RunningState[k]
      /\ task'[t].head = task[t].head
      /\ \A u \in Tasks : u # t => task'[u] = task[u]
  BY KindFacts DEF Store, StoreType, TaskRows, States
<1>3. queue' \in Seq(Tasks \X Kinds)
  BY HeadTailProperties DEF Store, StoreType
<1>4. k \in Owned(t) /\ Owned(t)' = Owned(t)
  BY <1>1 DEF Owned, Claimable
<1>5. \A u \in Tasks : u # t => Owned(u)' = Owned(u)
                                /\ \A j \in Kinds : (Claimable(u, j)' <=> Claimable(u, j))
                                                    /\ (Active(u, j)' <=> Active(u, j))
  BY <1>1, <1>2 DEF Owned, Claimable, Active
<1>6. SlotsExclusive'
  <2>1. s \in Slots /\ \A u \in Tasks, j \in Kinds : Active(u, j) => act[u][j].slot # s
    BY DEF FreeSlots
  <2>2. \A u \in Tasks, j \in Kinds :
          \/ u = t /\ j = k /\ Active(u, j)' /\ act'[u][j].slot = s
          \/ act'[u][j].slot = act[u][j].slot /\ (Active(u, j)' <=> Active(u, j))
    BY <1>1 DEF Active
  <2>3. \A u \in Tasks, j \in Kinds : Active(u, j)' <=> act'[u][j].slot \in Slots
    BY <2>1, <2>2 DEF Store, SlotsExclusive
  <2> QED
    BY <2>1, <2>2, <2>3 DEF Store, SlotsExclusive
<1>7. ASSUME NEW u \in Tasks PROVE Consistent(u)'
  <2>1. CASE u = t
    <3>1. Active(t, k)' /\ task'[t].st \in Runnings
      BY <1>1, <1>2, KindFacts DEF Active
    <3> QED
      BY <1>2, <1>4, <2>1, <3>1 DEF Store, PhaseOwnsAction, Consistent, Queueds, Runnings, Owned
  <2>2. CASE u # t
    BY <1>1, <1>2, <2>2, Unmoved
  <2> QED
    BY <2>1, <2>2
<1>8. Fresh'
  <2>1. task'[t].st \notin {"reserved", "absent"}
    BY <1>2, KindFacts DEF Runnings
  <2> QED
    BY <1>1, <1>2, <2>1, KindFacts DEF Store, Fresh
<1>9. Reviewing'
  <2>1. task'[t].st = "review_running" => task[t].st = "review_queued"
    BY <1>2, KindFacts DEF Claimable, Kinds, Workers, Reviewers, QueuedState, RunningState
  <2>2. task'[t].st # "review_queued"
    BY <1>2, KindFacts DEF Runnings
  <2> QED
    BY <1>2, <1>4, <1>5, <2>1, <2>2 DEF Store, Reviewing
<1> QED
  BY <1>1, <1>2, <1>3, <1>6, <1>7, <1>8, <1>9 DEF Store, StoreType, PhaseOwnsAction

\* The verdict of a review.
LEMMA ConcludeStep ==
    ASSUME Store, NEW t \in Tasks, NEW h \in Heads, Active(t, Reviewer[h]),
           task[t].st = "review_running", task[t].head = h, Conclude(t, h)
    PROVE  Store'
<1> DEFINE repairs == run[t][h] = "changes" /\ task[t].repair = 0
           state == IF run[t][h] = "approved" THEN "admission_waiting"
                    ELSE IF repairs THEN "repair_queued" ELSE "failed"
           k == Reviewer[h]
<1>0. Owned(t) = {k} /\ k \in Reviewers /\ k \in Kinds
  BY KindFacts DEF Store, Reviewing, Kinds
<1>1. /\ act' \in [Tasks -> [Kinds -> ActRows]]
      /\ act'[t][k].st = "succeeded" /\ act'[t][k].slot = 0
      /\ repairs => act'[t]["worker-2"].st = "queued" /\ act'[t]["worker-2"].slot = 0
      /\ \A u \in Tasks, j \in Kinds :
           u # t \/ (j # k /\ (~repairs \/ j # "worker-2")) => act'[u][j] = act[u][j]
  <2>1. act' = [act EXCEPT ![t] = [j \in Kinds |->
                   IF j = k THEN [st |-> "succeeded", slot |-> 0]
                   ELSE IF repairs /\ j = "worker-2" THEN [st |-> "queued", slot |-> 0]
                   ELSE act[t][j]]]
    BY DEF Conclude, Store, StoreType
  <2>2. k # "worker-2" /\ "worker-2" \in Kinds
    BY <1>0, KindFacts DEF Reviewers
  <2> HIDE DEF repairs, k
  <2> QED
    BY <1>0, <2>1, <2>2 DEF Store, StoreType, ActRows
<1>2. /\ task' \in [Tasks -> TaskRows] /\ task'[t].st = state
      /\ \A u \in Tasks : u # t => task'[u] = task[u]
  <2>1. task' = [task EXCEPT ![t] =
                   [st |-> state, repair |-> task[t].repair + IF repairs THEN 1 ELSE 0,
                    head |-> h, run |-> h]]
    BY DEF Conclude
  <2>2. state \in States /\ task[t].repair + (IF repairs THEN 1 ELSE 0) \in 0..1
    BY DEF Store, StoreType, TaskRows, States, Queueds, Ends
  <2> HIDE DEF state, repairs
  <2> QED
    BY <2>1, <2>2 DEF Store, StoreType, TaskRows, Heads
<1>3. queue' \in Seq(Tasks \X Kinds)
  BY AppendProperties, KindFacts DEF Store, StoreType, Conclude
<1>4. Owned(t)' = IF repairs THEN {"worker-2"} ELSE {}
  BY <1>0, <1>1, KindFacts DEF Owned, Reviewers
<1>5. \A u \in Tasks : u # t => Owned(u)' = Owned(u)
                                /\ \A j \in Kinds : (Claimable(u, j)' <=> Claimable(u, j))
                                                    /\ (Active(u, j)' <=> Active(u, j))
  BY <1>1, <1>2 DEF Owned, Claimable, Active
<1>6. SlotsExclusive'
  <2>1. \A u \in Tasks, j \in Kinds : \/ act'[u][j] = act[u][j]
                                      \/ act'[u][j].slot = 0 /\ act'[u][j].st \in {"queued", "succeeded"}
    <3> HIDE DEF repairs, k
    <3> QED
      BY <1>0, <1>1 DEF Active
  <2> QED
    <3>1. \A u \in Tasks, j \in Kinds :
            /\ Active(u, j)' => Active(u, j) /\ act'[u][j] = act[u][j]
            /\ ~Active(u, j)' => act'[u][j].slot \notin Slots
      BY <2>1, KindFacts DEF Store, SlotsExclusive, Active
    <3>2. \A u \in Tasks, j \in Kinds : Active(u, j)' <=> act'[u][j].slot \in Slots
      BY <3>1 DEF Store, SlotsExclusive
    <3> QED
      BY <3>1, <3>2 DEF Store, SlotsExclusive
<1>7. ASSUME NEW u \in Tasks PROVE Consistent(u)'
  <2>1. CASE u = t
    <3>1. repairs => Claimable(t, "worker-2")'
      BY <1>1, <1>2, KindFacts DEF Claimable
    <3> QED
      BY <1>2, <1>4, <2>1, <3>1 DEF Consistent, Queueds, Runnings
  <2>2. CASE u # t
    BY <1>1, <1>2, <2>2, Unmoved
  <2> QED
    BY <2>1, <2>2
<1>8. Fresh' /\ Reviewing'
  BY <1>1, <1>2, <1>5, KindFacts DEF Store, Fresh, Reviewing
<1> QED
  BY <1>1, <1>2, <1>3, <1>6, <1>7, <1>8 DEF Store, StoreType, PhaseOwnsAction

\* A task that is given up keeps its action.
LEMMA IncidentStep ==
    ASSUME Store, NEW t \in Tasks, Incident(t)
    PROVE  Store'
<1>1. /\ task' \in [Tasks -> TaskRows] /\ task'[t].st \in Ends
      /\ task'[t].st = "failed" => task[t].st = "failed"
      /\ \A u \in Tasks : u # t => task'[u] = task[u]
  BY DEF Store, StoreType, Incident, TaskRows, States, Ends
<1>2. \A u \in Tasks : Owned(u)' = Owned(u)
                       /\ \A k \in Kinds : Active(u, k)' <=> Active(u, k)
  BY DEF Incident, Owned, Active
<1>3. \A u \in Tasks, k \in Kinds : u # t => (Claimable(u, k)' <=> Claimable(u, k))
  BY <1>1 DEF Incident, Claimable
<1>4. SlotsExclusive'
  BY <1>2 DEF Incident, Store, SlotsExclusive
<1>5. ASSUME NEW u \in Tasks PROVE Consistent(u)'
  BY <1>1, <1>2, <1>3 DEF Store, PhaseOwnsAction, Consistent, Ends, Queueds, Runnings, Owned
<1>6. Fresh' /\ Reviewing'
  BY <1>1, <1>2 DEF Incident, Store, Fresh, Reviewing, Ends
<1> QED
  BY <1>1, <1>4, <1>5, <1>6 DEF Store, StoreType, PhaseOwnsAction, Incident

\* A reserved task is queued.
LEMMA ProvisionStep ==
    ASSUME Store, NEW t \in Tasks, task[t].st = "reserved",
           task' = [task EXCEPT ![t].st = "worker_queued"], UNCHANGED <<act, queue>>
    PROVE  Store'
<1>1. /\ task' \in [Tasks -> TaskRows] /\ task'[t].st = "worker_queued"
      /\ \A u \in Tasks : u # t => task'[u] = task[u]
  BY DEF Store, StoreType, TaskRows, States, Queueds
<1>2. \A u \in Tasks : Owned(u)' = Owned(u)
                       /\ \A k \in Kinds : Active(u, k)' <=> Active(u, k)
  BY DEF Owned, Active
<1>3. \A u \in Tasks, k \in Kinds : u # t => (Claimable(u, k)' <=> Claimable(u, k))
  BY <1>1 DEF Claimable
<1>4. SlotsExclusive'
  BY <1>2 DEF Store, SlotsExclusive
<1>5. ASSUME NEW u \in Tasks PROVE Consistent(u)'
  <2>1. "worker-1" \in Owned(t) /\ Claimable(t, "worker-1")'
    BY <1>1, KindFacts DEF Store, Fresh, Owned, Claimable
  <2> QED
    BY <1>1, <1>2, <1>3, <2>1 DEF Store, PhaseOwnsAction, Consistent, Queueds, Runnings, Owned
<1>6. Fresh' /\ Reviewing'
  BY <1>1, <1>2 DEF Store, Fresh, Reviewing
<1> QED
  BY <1>1, <1>4, <1>5, <1>6 DEF Store, StoreType, PhaseOwnsAction
-----------------------------------------------------------------------------
(* The actions, by what they do to the store.                              *)

\* A step that leaves the store alone.
LEMMA StoreUnchanged == Store /\ UNCHANGED store => Store'
<1> SUFFICES ASSUME Store, UNCHANGED store PROVE Store'
  OBVIOUS
<1>1. UNCHANGED <<act, queue>> /\ task' = task
  BY DEF store
<1>2. task' \in [Tasks -> TaskRows]
  BY <1>1 DEF Store, StoreType
<1> QED
  BY <1>1, <1>2, Bystander

\* The drain gives up the action it claimed.
LEMMA FailClaimedStep ==
    ASSUME Inv, drain.at \notin {"idle", "claim"}, FailClaimed
    PROVE  Store'
<1>1. drain.t \in Tasks /\ drain.k \in Kinds
  BY DEF Inv, TypeOK, Draining, Drains
<1>2. CASE Finishable(drain.t, drain.k, drain.snap)
  BY <1>1, <1>2, FinishStep DEF Inv, FailClaimed, Finishable
<1>3. CASE ~Finishable(drain.t, drain.k, drain.snap)
  BY <1>3, StoreUnchanged DEF Inv, FailClaimed
<1> QED
  BY <1>2, <1>3

\* The drain keeps the store.
LEMMA DrainStore ==
    ASSUME Inv, DrainSteps \/ DrainRefuses \/ DrainUnmarked \/ DrainCancelled
    PROVE  Store'
<1>1. CASE \/ DrainStart \/ DrainEnds \/ DrainCreates \/ DrainMarks \/ DrainReads
           \/ DrainLooks \/ DrainTriggers \/ DrainCancelled
  <2>1. UNCHANGED store
    BY <1>1 DEF DrainStart, DrainEnds, DrainCreates, DrainMarks, DrainReads, DrainLooks, DrainTriggers,
                DrainCancelled, store
  <2> QED
    BY <2>1, StoreUnchanged DEF Inv
<1>2. CASE DrainClaims
  <2>1. PICK t \in Tasks, k \in Kinds, s \in Slots :
          /\ Head(queue) = <<t, k>> /\ LowestFree(s)
          /\ SetAct(t, k, "claimed", s)
          /\ task' = [task EXCEPT ![t].st = RunningState[k]]
          /\ queue' = Tail(queue)
    BY <1>2 DEF DrainClaims
  <2>2. Claimable(t, k) /\ queue # <<>> /\ s \in FreeSlots
    BY <1>2, <2>1 DEF DrainClaims, HeadClaimable, LowestFree
  <2> DEFINE r == [task[t] EXCEPT !.st = RunningState[k]]
  <2>3. r \in TaskRows /\ r.st = RunningState[k] /\ r.head = task[t].head
    BY KindFacts DEF Inv, Store, StoreType, TaskRows, States
  <2>4. task' = [task EXCEPT ![t] = r]
    BY <2>1 DEF Inv, Store, StoreType
  <2> HIDE DEF r
  <2> QED
    BY <2>1, <2>2, <2>3, <2>4, ClaimStep DEF Inv
<1>3. CASE DrainRefuses \/ DrainUnmarked
  <2>1. FailClaimed /\ drain.at \notin {"idle", "claim"}
    BY <1>3 DEF DrainRefuses, DrainUnmarked
  <2> QED
    BY <2>1, FailClaimedStep
<1>4. CASE DrainBinds
  <2>1. drain.t \in Tasks /\ drain.k \in Kinds /\ UNCHANGED <<task, queue>>
    BY <1>4 DEF DrainBinds, Inv, TypeOK, Draining, Drains
  <2>2. CASE act[drain.t][drain.k].st = "claimed"
    BY <1>4, <2>1, <2>2, StartStep DEF DrainBinds, Inv, Store, StoreType
  <2>3. CASE act[drain.t][drain.k].st # "claimed"
    BY <1>4, <2>1, <2>3, StoreUnchanged DEF DrainBinds, Inv, store
  <2> QED
    BY <2>2, <2>3
<1>5. CASE DrainReviews
  <2>1. drain.at = "triggered" /\ (UNCHANGED store \/ FailClaimed)
    BY <1>5 DEF DrainReviews
  <2> QED
    BY <2>1, StoreUnchanged, FailClaimedStep DEF Inv
<1> QED
  BY <1>1, <1>2, <1>3, <1>4, <1>5 DEF DrainSteps

\* The review trigger keeps the store.
LEMMA TriggerStore ==
    ASSUME Inv, NEW t \in Tasks,
           TriggerSteps(t) \/ AuthorizeRejects(t) \/ AuthorizeDrifts(t) \/ ReviewerUnlaunched(t)
    PROVE  Store'
<1> DEFINE k == Reviewer[pr[t]]
<1>0. trig[t].at # "idle" => k \in Kinds /\ k \in Reviewers /\ pr[t] \in Heads
  BY KindFacts DEF Inv, Triggered, Kinds
<1>1. CASE \/ AuthorizeAnswers(t) \/ InsertRun(t) \/ SpawnReviewer(t) \/ FailRun(t)
           \/ NameReviewer(t)
  <2>1. UNCHANGED store
    BY <1>1 DEF AuthorizeAnswers, InsertRun, SpawnReviewer, FailRun, NameReviewer, store
  <2> QED
    BY <2>1, StoreUnchanged DEF Inv
<1>2. CASE AuthorizeQueues(t)
  <2> DEFINE r == [st |-> "review_queued", repair |-> task[t].repair, head |-> pr[t], run |-> 0]
  <2>1. Owned(t) = {} /\ Enqueue(t, k) /\ k \in Kinds /\ k \in Reviewers /\ pr[t] \in Heads
    BY <1>0, <1>2 DEF AuthorizeQueues
  <2>2. r \in TaskRows /\ r.st = QueuedState[k] /\ r.head = pr[t]
    <3>1. QueuedState[k] = "review_queued"
      BY <2>1, KindFacts
    <3>2. task[t] \in TaskRows /\ pr[t] \in 0..2 /\ "review_queued" \in States
      BY DEF Inv, TypeOK, States, Queueds
    <3> HIDE DEF k
    <3> QED
      BY <3>1, <3>2 DEF TaskRows
  <2>3. task' = [task EXCEPT ![t] = r]
    BY <1>2 DEF AuthorizeQueues, Inv, Store, StoreType, TaskRows
  <2> HIDE DEF r, k
  <2>4. k = Reviewer[r.head]
    BY <2>2 DEF k
  <2> QED
    BY <2>1, <2>2, <2>3, <2>4, EnqueueStep DEF Inv
<1>3. CASE AuthorizeRejects(t)
  BY <1>3, IncidentStep DEF AuthorizeRejects, Inv
<1>4. CASE AuthorizeDrifts(t)
  <2>1. k \in Kinds
    BY <1>0, <1>4 DEF AuthorizeDrifts
  <2>3. CASE task[t].st = "review_running" /\ act[t][k].st = "claimed"
    BY <1>4, <2>1, <2>3, FinishStep DEF AuthorizeDrifts, Inv, Active
  <2>4. CASE ~(task[t].st = "review_running" /\ act[t][k].st = "claimed")
    BY <1>4, <2>4, IncidentStep DEF AuthorizeDrifts, Inv
  <2> QED
    BY <2>3, <2>4
<1>5. CASE ReviewerUnlaunched(t)
  <2>1. k \in Kinds
    BY <1>0, <1>5 DEF ReviewerUnlaunched
  <2>2. CASE Finishable(t, k, task[t])
    BY <1>5, <2>1, <2>2, FinishStep DEF ReviewerUnlaunched, Inv, Finishable
  <2>3. CASE ~Finishable(t, k, task[t])
    BY <1>5, <2>3, StoreUnchanged DEF ReviewerUnlaunched, Inv
  <2> QED
    BY <2>2, <2>3
<1>6. CASE MarkAction(t)
  <2>1. k \in Kinds /\ UNCHANGED <<task, queue>>
    BY <1>0, <1>6 DEF MarkAction
  <2>2. CASE act[t][k].st = "claimed"
    BY <1>6, <2>1, <2>2, StartStep DEF MarkAction, Inv, Store, StoreType
  <2>3. CASE act[t][k].st # "claimed"
    BY <1>6, <2>1, <2>3, StoreUnchanged DEF MarkAction, Inv, store
  <2> QED
    BY <2>2, <2>3
<1>7. CASE MarkTask(t)
  <2>1. UNCHANGED <<act, queue>>
    BY <1>7 DEF MarkTask
  <2>2. /\ task' \in [Tasks -> TaskRows]
        /\ \A u \in Tasks : task'[u].st = task[u].st /\ task'[u].head = task[u].head
    BY <1>0, <1>7 DEF MarkTask, Inv, Store, StoreType, TaskRows, Heads
  <2> QED
    BY <2>1, <2>2, Bystander DEF Inv
<1> QED
  BY <1>1, <1>2, <1>3, <1>4, <1>5, <1>6, <1>7 DEF TriggerSteps

\* The handlers, the requests and the processes keep the store.
LEMMA HandlerStore ==
    ASSUME Inv, NEW t \in Tasks,
           \/ HandlerSteps(t) \/ ProcessSteps(t) \/ ExitUnreported(t) \/ ReviewerUnreported(t)
           \/ Submit(t) \/ Provision(t) \/ Nudge(t) \/ Reap(t)
    PROVE  Store'
<1>1. CASE \/ ExitReported(t) \/ ExitReads(t) \/ ProcessSteps(t) \/ ExitUnreported(t) \/ ReviewerUnreported(t)
           \/ Nudge(t) \/ Reap(t)
  <2>1. UNCHANGED store
    BY <1>1 DEF ExitReported, ExitReads, ProcessSteps, WorkerExits, ReviewerFails, ReviewerSubmits,
                ExitUnreported, ReviewerUnreported, Nudge, Reap, store
  <2> QED
    BY <2>1, StoreUnchanged DEF Inv
<1>2. CASE ExitBinds(t)
  <2>1. UNCHANGED <<task, queue>>
    BY <1>2 DEF ExitBinds
  <2>2. CASE UNCHANGED act
    BY <2>1, <2>2, StoreUnchanged DEF Inv, store
  <2>3. CASE ~UNCHANGED act
    <3>1. PICK k \in Workers : act[t][k].st = "claimed" /\ Start(t, k)
      BY <1>2, <2>3 DEF ExitBinds
    <3>2. k \in Kinds
      BY DEF Kinds
    <3> QED
      BY <2>1, <3>1, <3>2, StartStep DEF Inv, Store, StoreType
  <2> QED
    BY <2>2, <2>3
<1>3. CASE ExitFinishes(t)
  <2>1. CASE UNCHANGED store
    BY <2>1, StoreUnchanged DEF Inv
  <2>2. CASE ~UNCHANGED store
    <3>1. PICK k \in Workers :
            /\ Active(t, k)
            /\ Finish(t, k, ActionOutcome(exit[t].ok), WorkerOutcome(exit[t].ok))
      BY <1>3, <2>2 DEF ExitFinishes
    <3>2. /\ k \in Kinds
          /\ ActionOutcome(exit[t].ok) \in {"succeeded", "failed"}
          /\ WorkerOutcome(exit[t].ok) \in {"ci_waiting", "failed"}
      BY DEF Kinds, ActionOutcome, WorkerOutcome
    <3> QED
      BY <3>1, <3>2, FinishStep DEF Inv
  <2> QED
    BY <2>1, <2>2
<1>4. CASE ResultHandled(t)
  <2> DEFINE h == report[t].head
  <2>1. CASE Accepts(t, h)
    <3>1. h \in Heads /\ Active(t, Reviewer[h]) /\ task[t].st = "review_running" /\ task[t].head = h
      BY <1>4, <2>1 DEF ResultHandled, Accepts, Active, Inv, Reported
    <3> QED
      BY <1>4, <2>1, <3>1, ConcludeStep DEF ResultHandled, Inv
  <2>2. CASE ~Accepts(t, h)
    BY <1>4, <2>2, StoreUnchanged DEF ResultHandled, Inv
  <2> QED
    BY <2>1, <2>2
<1>5. CASE FailureHandled(t)
  <2> DEFINE h == report[t].head
  <2>1. CASE ReviewFailable(t, h)
    <3>1. Reviewer[h] \in Kinds /\ Active(t, Reviewer[h])
      BY <1>5, <2>1, KindFacts DEF FailureHandled, ReviewFailable, Active, Inv, Reported, Kinds
    <3> QED
      BY <1>5, <2>1, <3>1, FinishStep DEF FailureHandled, FailReview, Inv
  <2>2. CASE ~ReviewFailable(t, h)
    BY <1>5, <2>2, StoreUnchanged DEF FailureHandled, Inv
  <2> QED
    BY <2>1, <2>2
<1>6. CASE Submit(t)
  <2> DEFINE r == [task[t] EXCEPT !.st = "reserved"]
  <2>1. task[t] \in TaskRows /\ "reserved" \in States
    BY DEF Inv, TypeOK, States
  <2>2. r \in TaskRows /\ r.st = "reserved"
    BY <2>1 DEF TaskRows
  <2>3. task' = [task EXCEPT ![t] = r] /\ Enqueue(t, "worker-1")
    BY <1>6 DEF Submit, Inv, Store, StoreType, TaskRows
  <2>4. Owned(t) = {}
    BY <1>6 DEF Submit, Inv, Store, PhaseOwnsAction, Consistent
  <2> HIDE DEF r
  <2>5. "worker-1" \in Kinds /\ "worker-1" \notin Reviewers
    BY DEF Kinds, Workers, Reviewers
  <2> QED
    BY <2>2, <2>3, <2>4, <2>5, EnqueueStep DEF Inv
<1>7. CASE Provision(t)
  BY <1>7, ProvisionStep DEF Provision, Inv
<1> QED
  BY <1>1, <1>2, <1>3, <1>4, <1>5, <1>6, <1>7 DEF HandlerSteps

\* A task that runs has one active action, the one its state names.
LEMMA Running ==
    ASSUME Store, NEW t \in Tasks, task[t].st \in Runnings, NEW k \in Kinds, Active(t, k)
    PROVE  /\ Owned(t) = {k} /\ task[t].st = RunningState[k]
           /\ k \in Reviewers => task[t].head \in Heads /\ k = Reviewer[task[t].head]
                                 /\ task[t].st = "review_running"
<1>1. Consistent(t)
  BY DEF Store, PhaseOwnsAction
<1>2. k \in Owned(t)
  BY DEF Owned, Active
<1>3. PICK j \in Owned(t) : Active(t, j) /\ task[t].st = RunningState[j]
  BY <1>1 DEF Consistent
<1>4. Owned(t) = {k} /\ j = k
  BY <1>1, <1>2, <1>3 DEF Consistent
<1>5. k \in Reviewers => task[t].st = "review_running"
  BY <1>3, <1>4 DEF RunningState, Kinds, Workers, Reviewers
<1> QED
  BY <1>3, <1>4, <1>5, KindFacts DEF Store, Reviewing

\* The startup keeps the store.
LEMMA BootStore ==
    ASSUME Inv, BootSteps \/ Crash
    PROVE  Store'
<1>1. CASE \/ Crash \/ BootRuntime \/ BootReviewed \/ BootDrains
           \/ \E t \in Tasks : BootReview(t) \/ BootPasses(t) \/ BootAborts(t)
  <2>1. UNCHANGED store
    BY <1>1 DEF Crash, BootRuntime, BootReviewed, BootDrains, BootReview, BootPasses, BootAborts,
                Aborted, store
  <2> QED
    BY <2>1, StoreUnchanged DEF Inv
<1>2. ASSUME NEW t \in Tasks, BootProvisions(t) PROVE Store'
  BY <1>2, ProvisionStep DEF BootProvisions, Inv
<1>3. ASSUME NEW t \in Tasks, BootReviewer(t) PROVE Store'
  <2> DEFINE h == task[t].head
             k == Reviewer[h]
  <2>1. PICK j \in Reviewers : Active(t, j) /\ task[t].st \in Runnings
    BY <1>3 DEF BootReviewer, BootRunning, BootTask
  <2>2. k \in Kinds /\ Active(t, k) /\ h \in Heads /\ task[t].st = "review_running"
    BY <2>1, Running DEF Inv, Kinds
  <2>3. CASE act[t][k].st = "claimed" /\ ~(run[t][h] # "none" /\ handle[t])
    BY <1>3, <2>3, IncidentStep DEF BootReviewer, Inv
  <2>4. CASE ~(act[t][k].st = "claimed" /\ ~(run[t][h] # "none" /\ handle[t])) /\ run[t][h] = "running"
    <3>1. /\ UNCHANGED queue
          /\ IF act[t][k].st = "claimed" THEN Start(t, k) ELSE UNCHANGED act
          /\ task' = [task EXCEPT ![t].run = h]
      BY <1>3, <2>4 DEF BootReviewer
    <3>2. /\ task' \in [Tasks -> TaskRows]
          /\ \A u \in Tasks : task'[u].st = task[u].st /\ task'[u].head = task[u].head
      BY <2>2, <3>1 DEF Inv, Store, StoreType, TaskRows, Heads
    <3>3. CASE act[t][k].st = "claimed"
      BY <2>2, <3>1, <3>2, <3>3, StartStep DEF Inv
    <3>4. CASE act[t][k].st # "claimed"
      BY <3>1, <3>2, <3>4, Bystander DEF Inv
    <3> QED
      BY <3>3, <3>4
  <2>5. CASE ~(act[t][k].st = "claimed" /\ ~(run[t][h] # "none" /\ handle[t])) /\ run[t][h] # "running"
    <3>1. FailReview(t, h) \/ Conclude(t, h)
      BY <1>3, <2>5 DEF BootReviewer
    <3>2. CASE FailReview(t, h)
      BY <2>2, <3>2, FinishStep DEF FailReview, Inv
    <3>3. CASE Conclude(t, h)
      BY <2>2, <3>3, ConcludeStep DEF Inv
    <3> QED
      BY <3>1, <3>2, <3>3
  <2> QED
    BY <2>3, <2>4, <2>5
<1>4. ASSUME NEW t \in Tasks, BootWorker(t) PROVE Store'
  <2> DEFINE k == CHOOSE k \in Workers : Active(t, k)
  <2>1. k \in Kinds /\ Active(t, k)
    BY <1>4 DEF BootWorker, BootRunning, Kinds
  <2>2. CASE proc[t] = ""
    BY <1>4, <2>1, <2>2, FinishStep DEF BootWorker, Inv
  <2>3. CASE proc[t] # "" /\ act[t][k].st = "claimed"
    BY <1>4, <2>1, <2>3, StartStep DEF BootWorker, Inv, Store, StoreType
  <2>4. CASE proc[t] # "" /\ act[t][k].st # "claimed"
    BY <1>4, <2>4, StoreUnchanged DEF BootWorker, Inv, store
  <2> QED
    BY <2>2, <2>3, <2>4
<1>5. ASSUME NEW t \in Tasks, BootUninspected(t) PROVE Store'
  BY <1>5, IncidentStep DEF BootUninspected, Inv
<1>6. ASSUME NEW t \in Tasks, BootUnnamed(t) PROVE Store'
  <2> DEFINE k == CHOOSE k \in Workers : Active(t, k)
  <2>1. k \in Kinds /\ Active(t, k)
    BY <1>6 DEF BootUnnamed, BootRunning, Kinds
  <2>2. CASE act[t][k].st = "claimed"
    BY <1>6, <2>2, IncidentStep DEF BootUnnamed, Inv
  <2>3. CASE act[t][k].st # "claimed"
    BY <1>6, <2>1, <2>3, FinishStep DEF BootUnnamed, Inv
  <2> QED
    BY <2>2, <2>3
<1> QED
  BY <1>1, <1>2, <1>3, <1>4, <1>5, <1>6 DEF BootSteps
-----------------------------------------------------------------------------
(* The world and the handlers. *)

\* The parts of TypeOK.
LEMMA TypeParts == TypeOK <=> StoreType /\ WorldType /\ HandlersType /\ BootType
BY DEF TypeOK, StoreType, WorldType, HandlersType, BootType

\* The rows that a reset writes.
LEMMA RowFacts ==
    /\ NoTask \in TaskRows
    /\ NoDrain \in Drains /\ Claiming \in Drains /\ NoDrain.at = "idle" /\ Claiming.at = "claim"
    /\ NoTrig \in Trigs /\ NoTrig.at = "idle"
    /\ NoExit \in Exits /\ NoReport \in Reports /\ NoReport.at = "none"
<1>1. NoTask \in TaskRows
  BY DEF NoTask, TaskRows, States
<1>2. NoDrain \in Drains /\ Claiming \in Drains /\ NoDrain.at = "idle" /\ Claiming.at = "claim"
  BY <1>1 DEF NoDrain, Claiming, Drains, Kinds, Workers
<1> QED
  BY <1>1, <1>2 DEF NoTrig, Trigs, NoExit, Exits, NoReport, Reports

\* The heads and the reviewers.
LEMMA WorldParts == WorldType => rproc \in [Tasks -> 0..2] /\ pr \in [Tasks -> 0..2]
BY DEF WorldType

\* Setting one head.
LEMMA PutHead ==
    ASSUME NEW f \in [Tasks -> 0..2], NEW t \in Tasks, NEW h \in 0..2
    PROVE  [f EXCEPT ![t] = h] \in [Tasks -> 0..2]
OBVIOUS

\* A head that is not 0 is one of the two.
LEMMA HeadFacts ==
    ASSUME WorldType, NEW t \in Tasks
    PROVE  /\ pr[t] \in 0..2 /\ rproc[t] \in 0..2
           /\ pr[t] # 0 => pr[t] \in Heads
           /\ rproc[t] # 0 => rproc[t] \in Heads
<1>1. pr[t] \in 0..2 /\ rproc[t] \in 0..2
  BY DEF WorldType
<1> QED
  BY <1>1 DEF Heads

\* The budgets stay within their bounds.
LEMMA FaultType ==
    ASSUME BootType, Fault \/ UNCHANGED budget
    PROVE  crashes' \in 0..MaxCrashes /\ faults' \in 0..MaxFaults
BY PolicyQueueAssumption DEF BootType, Fault, budget

\* What a step does to the world, seen from the rows of one task.
LEMMA DrainWorld ==
    ASSUME Inv, DrainSteps \/ DrainRefuses \/ DrainUnmarked \/ DrainCancelled
    PROVE  WorldType' /\ pr' = pr
<1>0. WorldType /\ HandlersType
  BY TypeParts DEF Inv
<1>1. CASE DrainCreates
  BY <1>0, <1>1 DEF DrainCreates, Inv, WorldType, Draining, reviews
<1>2. CASE DrainMarks
  BY <1>0, <1>2 DEF DrainMarks, Inv, WorldType, Draining, world, reviews, Rows
<1>3. CASE DrainUnmarked
  BY <1>0, <1>3 DEF DrainUnmarked, WorldType, reviews
<1>4. CASE ~(DrainCreates \/ DrainMarks \/ DrainUnmarked)
  <2>1. UNCHANGED <<row, reviews, world>>
    BY <1>4 DEF DrainSteps, DrainStart, DrainEnds, DrainClaims, DrainReads, DrainLooks, DrainBinds, DrainTriggers,
                DrainReviews, DrainRefuses, DrainCancelled
  <2> QED
    BY <1>0, <2>1 DEF WorldType, reviews, world
<1> QED
  BY <1>1, <1>2, <1>3, <1>4

\* The drain itself, after a step that leaves it where it was.
LEMMA DrainMoved ==
    ASSUME drain \in Drains, Draining,
           \/ drain' \in {drain, NoDrain, Claiming}
           \/ \E at \in {"mark", "read", "look", "bind"} :
                drain' = [drain EXCEPT !.at = at] /\ drain.at \in {"validate", "mark", "read", "look"}
           \/ drain' = [drain EXCEPT !.at = "wait"] /\ drain.at = "trigger"
           \/ \E res \in {"none", "created", "error"} :
                drain' = [drain EXCEPT !.at = "triggered", !.res = res] /\ drain.at \in {"trigger", "wait"}
    PROVE  drain' \in Drains /\ Draining'
<1>1. CASE drain' \in {drain, NoDrain, Claiming}
  BY <1>1, RowFacts DEF Draining
<1>2. CASE ~(drain' \in {drain, NoDrain, Claiming})
  BY <1>2 DEF Draining, Drains
<1> QED
  BY <1>1, <1>2

\* The drain keeps the handlers.
LEMMA DrainHandlers ==
    ASSUME Inv, DrainSteps \/ DrainRefuses \/ DrainUnmarked \/ DrainCancelled
    PROVE  HandlersType' /\ Draining' /\ Triggered' /\ Reported'
<1> USE DEF DrainSteps, DrainStart, DrainEnds, DrainClaims, DrainReads, DrainLooks, DrainBinds, DrainTriggers,
            DrainReviews, DrainRefuses, DrainCancelled, DrainCreates, DrainMarks, DrainUnmarked
<1>0. HandlersType /\ WorldType /\ StoreType
  BY TypeParts DEF Inv
<1>1. wanted' \in BOOLEAN /\ UNCHANGED <<report, pr>>
  BY <1>0 DEF HandlersType, handlers, world
<1>2. exit' = exit \/ exit' = [exit EXCEPT ![drain.t] = NoExit]
  OBVIOUS
<1> HIDE DEF DrainSteps, DrainStart, DrainEnds, DrainClaims, DrainReads, DrainLooks, DrainBinds, DrainTriggers,
             DrainReviews, DrainRefuses, DrainCancelled, DrainCreates, DrainMarks, DrainUnmarked
<1>3. exit' \in [Tasks -> Exits]
  BY <1>0, <1>2, RowFacts DEF HandlersType
<1>4. drain' \in Drains /\ Draining'
  <2>1. CASE DrainClaims
    <3>1. PICK t \in Tasks, k \in Kinds :
            /\ task' = [task EXCEPT ![t].st = RunningState[k]]
            /\ drain' = [drain EXCEPT !.at = IF k \in Workers THEN "validate" ELSE "trigger",
                                      !.t = t, !.k = k, !.snap = task'[t]]
      BY <2>1 DEF DrainClaims
    <3>2. task'[t] \in TaskRows
      BY <1>0, <3>1, KindFacts DEF StoreType, TaskRows, States
    <3> QED
      BY <1>0, <3>1, <3>2 DEF HandlersType, Drains, Draining
  <2>2. CASE ~DrainClaims
    <3>1. \/ drain' \in {drain, NoDrain, Claiming}
          \/ \E at \in {"mark", "read", "look", "bind"} :
               drain' = [drain EXCEPT !.at = at] /\ drain.at \in {"validate", "mark", "read", "look"}
          \/ drain' = [drain EXCEPT !.at = "wait"] /\ drain.at = "trigger"
          \/ \E res \in {"none", "created", "error"} :
               drain' = [drain EXCEPT !.at = "triggered", !.res = res] /\ drain.at \in {"trigger", "wait"}
      <4>1. CASE \/ DrainStart \/ DrainEnds \/ DrainBinds \/ DrainCancelled
                 \/ DrainReviews \/ DrainRefuses \/ DrainUnmarked
        BY <4>1 DEF FailClaimed, DrainStart, DrainEnds, DrainBinds, DrainCancelled, DrainReviews,
                    DrainRefuses, DrainUnmarked
      <4>2. CASE DrainTriggers
        BY <4>2 DEF DrainTriggers
      <4>3. CASE DrainCreates \/ DrainMarks \/ DrainReads \/ DrainLooks
        BY <4>3 DEF DrainCreates, DrainMarks, DrainReads, DrainLooks
      <4> QED
        BY <2>2, <4>1, <4>2, <4>3 DEF DrainSteps
    <3> QED
      BY <1>0, <3>1, DrainMoved DEF HandlersType, Inv
  <2> QED
    BY <2>1, <2>2
<1>5. trig' \in [Tasks -> Trigs] /\ Triggered'
  <2>1. CASE DrainTriggers /\ Eligible(drain.t)
    <3>1. drain.t \in Tasks /\ pr[drain.t] \in Heads
      <4>1. drain.at = "trigger" /\ pr[drain.t] # 0
        BY <2>1 DEF DrainTriggers, Eligible
      <4>2. drain.t \in Tasks
        BY <4>1 DEF Inv, Draining
      <4> QED
        BY <1>0, <4>1, <4>2, HeadFacts
    <3>2. /\ trig' = [trig EXCEPT ![drain.t] = [at |-> "authorize", by |-> "drain"]]
          /\ drain' = [drain EXCEPT !.at = "wait"] /\ drain.at = "trigger"
      BY <2>1 DEF DrainTriggers
    <3> QED
      BY <1>0, <1>1, <3>1, <3>2 DEF HandlersType, Inv, Triggered, Trigs, Drains
  <2>2. CASE ~(DrainTriggers /\ Eligible(drain.t))
    <3>1. trig' = trig /\ drain.at # "wait"
      BY <2>2 DEF handlers, DrainSteps, DrainStart, DrainEnds, DrainClaims, DrainReads, DrainLooks, DrainBinds, DrainTriggers,
                  DrainReviews, DrainRefuses, DrainCancelled, DrainCreates, DrainMarks, DrainUnmarked
    <3> QED
      BY <1>0, <1>1, <3>1 DEF HandlersType, Inv, Triggered
  <2> QED
    BY <2>1, <2>2
<1> QED
  BY <1>0, <1>1, <1>3, <1>4, <1>5 DEF HandlersType, Inv, Reported

\* The trigger returns: to the drain that waits for it, or to nobody.
LEMMA DoneStep ==
    ASSUME Inv, NEW t \in Tasks, NEW res \in {"none", "created", "error"}, Done(t, res),
           trig[t].at # "idle", UNCHANGED pr
    PROVE  drain' \in Drains /\ wanted' \in BOOLEAN /\ trig' \in [Tasks -> Trigs] /\ Draining' /\ Triggered'
<1>0. HandlersType
  BY TypeParts DEF Inv
<1>1. trig' = [trig EXCEPT ![t] = NoTrig] /\ wanted' \in BOOLEAN
  BY <1>0 DEF Done, HandlersType
<1>2. trig' \in [Tasks -> Trigs]
  BY <1>0, <1>1, RowFacts DEF HandlersType
<1>3. CASE trig[t].by = "drain"
  <2>1. drain' = [drain EXCEPT !.at = "triggered", !.res = res] /\ drain.at = "wait" /\ drain.t = t
    BY <1>3 DEF Done, Inv, Triggered
  <2>2. drain' \in Drains /\ Draining'
    BY <1>0, <2>1, DrainMoved DEF Inv, HandlersType
  <2>3. Triggered'
    BY <1>0, <1>1, <2>1, RowFacts DEF HandlersType, Inv, Triggered, NoTrig
  <2> QED
    BY <1>1, <1>2, <2>2, <2>3
<1>4. CASE trig[t].by # "drain"
  <2>1. drain' = drain
    BY <1>4 DEF Done
  <2>2. drain' \in Drains /\ Draining'
    BY <1>0, <2>1 DEF Inv, HandlersType, Draining
  <2>3. Triggered'
    BY <1>0, <1>1, <2>1, RowFacts DEF HandlersType, Inv, Triggered, NoTrig
  <2> QED
    BY <1>1, <1>2, <2>2, <2>3
<1> QED
  BY <1>3, <1>4

\* The trigger goes on to its next step.
LEMMA TriggerMoved ==
    ASSUME Inv, NEW t \in Tasks, trig[t].at # "idle",
           NEW at \in {"insert", "spawn", "failrun", "start", "bind", "name"},
           trig' = [trig EXCEPT ![t].at = at], UNCHANGED <<drain, wanted, pr>>
    PROVE  drain' \in Drains /\ wanted' \in BOOLEAN /\ trig' \in [Tasks -> Trigs] /\ Draining' /\ Triggered'
<1>0. HandlersType
  BY TypeParts DEF Inv
<1>1. \A u \in Tasks : trig'[u] = trig[u] \/ (u = t /\ trig'[u].by = trig[u].by)
  BY <1>0 DEF HandlersType, Trigs
<1>2. trig' \in [Tasks -> Trigs]
  BY <1>0 DEF HandlersType, Trigs
<1> QED
  BY <1>0, <1>1, <1>2 DEF HandlersType, Inv, Triggered, Draining

\* The review trigger keeps the world and the handlers.
LEMMA TriggerHandlers ==
    ASSUME Inv, NEW t \in Tasks,
           TriggerSteps(t) \/ AuthorizeRejects(t) \/ AuthorizeDrifts(t) \/ ReviewerUnlaunched(t)
    PROVE  WorldType' /\ HandlersType' /\ Draining' /\ Triggered' /\ Reported'
<1>0. HandlersType /\ WorldType
  BY TypeParts DEF Inv
<1> USE DEF TriggerSteps, AuthorizeQueues, AuthorizeAnswers, InsertRun, SpawnReviewer, FailRun, MarkAction,
            MarkTask, NameReviewer, AuthorizeRejects, AuthorizeDrifts, ReviewerUnlaunched
<1>1. UNCHANGED <<row, proc, pr, exit, report>> /\ trig[t].at # "idle"
  BY DEF world, reviews
<1>2. pr[t] \in Heads
  BY <1>1 DEF Inv, Triggered
<1>3. run' = run \/ \E st \in {"running", "failed"} : run' = [run EXCEPT ![t][pr[t]] = st]
  BY DEF reviews
<1>4. /\ handle' = handle \/ handle' = [handle EXCEPT ![t] = TRUE]
      /\ rproc' = rproc \/ rproc' = [rproc EXCEPT ![t] = pr[t]]
  BY DEF reviews, world
<1>5. \/ \E res \in {"none", "created", "error"} : Done(t, res)
      \/ \E at \in {"insert", "spawn", "failrun", "start", "bind", "name"} :
           trig' = [trig EXCEPT ![t].at = at] /\ UNCHANGED <<drain, wanted>>
  OBVIOUS
<1> HIDE DEF TriggerSteps, AuthorizeQueues, AuthorizeAnswers, InsertRun, SpawnReviewer, FailRun, MarkAction,
             MarkTask, NameReviewer, AuthorizeRejects, AuthorizeDrifts, ReviewerUnlaunched
<1>6. WorldType'
  <2>1. run' \in [Tasks -> [Heads -> RunStates]]
    <3>1. CASE run' = run
      BY <1>0, <3>1 DEF WorldType
    <3>2. CASE run' # run
      <4>1. PICK st \in {"running", "failed"} : run' = [run EXCEPT ![t][pr[t]] = st]
        BY <1>3, <3>2
      <4>2. st \in RunStates
        BY DEF RunStates
      <4> QED
        BY <1>0, <1>2, <4>1, <4>2 DEF WorldType
    <3> QED
      BY <3>1, <3>2
  <2>2. rproc' \in [Tasks -> 0..2] /\ handle' \in [Tasks -> BOOLEAN]
    BY <1>0, <1>2, <1>4 DEF WorldType, Heads
  <2> QED
    BY <1>0, <1>1, <2>1, <2>2 DEF WorldType
<1>7. drain' \in Drains /\ wanted' \in BOOLEAN /\ trig' \in [Tasks -> Trigs] /\ Draining' /\ Triggered'
  BY <1>1, <1>5, DoneStep, TriggerMoved
<1> QED
  BY <1>0, <1>1, <1>6, <1>7 DEF HandlersType, Inv, Reported

\* The handlers, the requests and the processes keep the world.
LEMMA HandlerWorld ==
    ASSUME Inv, NEW t \in Tasks,
           \/ HandlerSteps(t) \/ ProcessSteps(t) \/ ExitUnreported(t) \/ ReviewerUnreported(t)
           \/ Submit(t) \/ Provision(t) \/ Nudge(t) \/ Reap(t)
    PROVE  WorldType' /\ \A u \in Tasks : pr[u] \in Heads => pr'[u] \in Heads
<1>0. WorldType /\ HandlersType
  BY TypeParts DEF Inv
<1>1. CASE WorkerExits(t)
  <2>1. UNCHANGED <<row, run, handle, proc, rproc>>
    BY <1>1 DEF WorkerExits, reviews
  <2>2. PICK ok \in BOOLEAN, head \in Heads \cup {0} :
          /\ IF ok THEN head >= 1 /\ head \in {pr[t], IF proc[t] = "worker-1" THEN 1 ELSE 2}
             ELSE head = pr[t]
          /\ pr' = [pr EXCEPT ![t] = head]
    BY <1>1 DEF WorkerExits
  <2>3. head \in 0..2 /\ (pr[t] \in Heads => head \in Heads)
    BY <2>2 DEF Heads
  <2>4. pr' \in [Tasks -> 0..2] /\ \A u \in Tasks : pr[u] \in Heads => pr'[u] \in Heads
    BY <1>0, <2>2, <2>3 DEF WorldType
  <2> QED
    BY <1>0, <2>1, <2>4 DEF WorldType
<1>2. CASE Reap(t) \/ ExitReported(t)
  <2>1. UNCHANGED <<run, handle, rproc, pr>> /\ (proc' = proc \/ proc' = [proc EXCEPT ![t] = ""])
    BY <1>2 DEF Reap, ExitReported, reviews, world
  <2>2. row[t] \in Rows /\ [launch |-> "", act |-> "idle"] \in Rows /\ [row[t] EXCEPT !.act = "exited"] \in Rows
    BY <1>0 DEF WorldType, Rows
  <2>3. \/ row' = row
        \/ row' = [row EXCEPT ![t] = [launch |-> "", act |-> "idle"]]
        \/ row' = [row EXCEPT ![t] = [row[t] EXCEPT !.act = "exited"]]
    BY <1>0, <1>2 DEF Reap, ExitReported, WorldType
  <2>4. row' \in [Tasks -> Rows]
    BY <1>0, <2>2, <2>3 DEF WorldType
  <2> QED
    BY <1>0, <2>1, <2>4 DEF WorldType
<1>3. CASE ReviewerFails(t) \/ \E verdict \in {"approved", "changes"} : ReviewerSubmits(t, verdict)
  <2>4. UNCHANGED <<row, handle, proc, pr>> /\ rproc' = [rproc EXCEPT ![t] = 0]
    BY <1>3 DEF ReviewerFails, ReviewerSubmits
  <2>1. /\ rproc[t] # 0
        /\ run' = run \/ \E st \in {"approved", "changes", "failed"} : run' = [run EXCEPT ![t][rproc[t]] = st]
    BY <1>3 DEF ReviewerFails, ReviewerSubmits
  <2>2. run' \in [Tasks -> [Heads -> RunStates]]
    <3>1. CASE run' = run
      BY <1>0, <3>1 DEF WorldType
    <3>2. CASE run' # run
      <4>1. PICK st \in {"approved", "changes", "failed"} : run' = [run EXCEPT ![t][rproc[t]] = st]
        BY <2>1, <3>2
      <4>2. st \in RunStates /\ rproc[t] \in Heads
        BY <1>0, <2>1, HeadFacts DEF RunStates
      <4> QED
        BY <1>0, <4>1, <4>2 DEF WorldType
    <3> QED
      BY <3>1, <3>2
  <2>3. rproc' \in [Tasks -> 0..2]
    BY <1>0, <2>4, WorldParts, PutHead
  <2> QED
    BY <1>0, <2>2, <2>3, <2>4 DEF WorldType
<1>4. CASE ExitUnreported(t) \/ ReviewerUnreported(t)
  <2>1. /\ UNCHANGED <<row, run, handle, pr>>
        /\ proc' = proc \/ proc' = [proc EXCEPT ![t] = ""]
        /\ rproc' = rproc \/ rproc' = [rproc EXCEPT ![t] = 0]
    BY <1>4 DEF ExitUnreported, ReviewerUnreported, reviews
  <2>2. proc' \in [Tasks -> Workers \cup {""}]
    BY <1>0, <2>1 DEF WorldType
  <2>3. rproc' \in [Tasks -> 0..2]
    <3>1. CASE rproc' = rproc
      BY <1>0, <3>1, WorldParts
    <3>2. CASE rproc' = [rproc EXCEPT ![t] = 0]
      BY <1>0, <3>2, WorldParts, PutHead
    <3> QED
      BY <2>1, <3>1, <3>2
  <2> QED
    BY <1>0, <2>1, <2>2, <2>3 DEF WorldType
<1>5. CASE \/ ExitReads(t) \/ ExitBinds(t) \/ ExitFinishes(t) \/ ResultHandled(t) \/ FailureHandled(t)
           \/ Submit(t) \/ Provision(t) \/ Nudge(t)
  <2>1. UNCHANGED <<row, reviews, world>>
    BY <1>5 DEF ExitReads, ExitBinds, ExitFinishes, ResultHandled, FailureHandled, Submit, Provision, Nudge
  <2> QED
    BY <1>0, <2>1 DEF WorldType, reviews, world
<1> QED
  BY <1>1, <1>2, <1>3, <1>4, <1>5 DEF HandlerSteps, ProcessSteps

\* The handlers, the requests and the processes keep the handlers.
LEMMA HandlerHandlers ==
    ASSUME Inv, NEW t \in Tasks,
           \/ HandlerSteps(t) \/ ProcessSteps(t) \/ ExitUnreported(t) \/ ReviewerUnreported(t)
           \/ Submit(t) \/ Provision(t) \/ Nudge(t) \/ Reap(t)
    PROVE  HandlersType' /\ Draining' /\ Triggered' /\ Reported'
<1>0. WorldType /\ HandlersType /\ WorldType' /\ StoreType
  BY TypeParts, HandlerWorld DEF Inv
<1> USE DEF HandlerSteps, ProcessSteps, ExitUnreported, ReviewerUnreported, Submit, Provision, Nudge, Reap,
            ExitReported, ExitReads, ExitBinds, ExitFinishes, ResultHandled, FailureHandled, WorkerExits, ReviewerFails,
            ReviewerSubmits
<1>1. drain' = drain /\ wanted' \in BOOLEAN
  BY <1>0 DEF handlers, HandlersType
<1>7. trig' = trig \/ (Eligible(t) /\ trig' = [trig EXCEPT ![t].at = "authorize"])
  BY DEF handlers
<1>2. \/ report' = report \/ report' = [report EXCEPT ![t] = NoReport]
      \/ \E at \in {"result", "failure"} :
            rproc[t] # 0 /\ report' = [report EXCEPT ![t] = [at |-> at, head |-> rproc[t]]]
  BY DEF handlers
<1>3. \/ exit' = exit \/ exit' = [exit EXCEPT ![t] = NoExit]
      \/ \E ok \in BOOLEAN : exit' = [exit EXCEPT ![t] = [NoExit EXCEPT !.at = "report", !.ok = ok]]
      \/ \E at \in {"read", "finish", "overtaken"} : exit' = [exit EXCEPT ![t] = [exit[t] EXCEPT !.at = at]]
      \/ \E at \in {"bind", "finish"} : exit' = [exit EXCEPT ![t] = [exit[t] EXCEPT !.at = at, !.snap = task[t]]]
  BY <1>0 DEF handlers, HandlersType
<1> HIDE DEF HandlerSteps, ProcessSteps, ExitUnreported, ReviewerUnreported, Submit, Provision, Nudge, Reap,
             ExitReported, ExitReads, ExitBinds, ExitFinishes, ResultHandled, FailureHandled, WorkerExits, ReviewerFails,
             ReviewerSubmits
<1>4. report' \in [Tasks -> Reports] /\ Reported'
  <2>1. rproc[t] # 0 => \A at \in {"result", "failure"} :
           [at |-> at, head |-> rproc[t]] \in Reports /\ rproc[t] \in Heads
    BY <1>0, HeadFacts DEF Reports
  <2>2. PICK r \in Reports : /\ r.at # "none" => r.head \in Heads
                             /\ report' = report \/ report' = [report EXCEPT ![t] = r]
    BY <1>2, <2>1, RowFacts
  <2> QED
    BY <1>0, <2>2 DEF HandlersType, Inv, Reported
<1>5. exit' \in [Tasks -> Exits]
  <2>1. task[t] \in TaskRows /\ exit[t] \in Exits /\ NoExit \in Exits
    BY <1>0, RowFacts DEF StoreType, HandlersType
  <2>2. PICK e \in Exits : exit' = exit \/ exit' = [exit EXCEPT ![t] = e]
    BY <1>3, <2>1 DEF Exits
  <2> QED
    BY <1>0, <2>2 DEF HandlersType
<1>6. trig' \in [Tasks -> Trigs] /\ Triggered'
  <2>1. \A u \in Tasks : pr[u] \in Heads => pr'[u] \in Heads
    BY HandlerWorld
  <2>2. \A u \in Tasks : /\ trig'[u].by = trig[u].by
                         /\ trig'[u].at # "idle" => trig[u].at # "idle" \/ pr[u] \in Heads
    <3>1. Eligible(t) => pr[t] \in Heads
      BY <1>0, HeadFacts DEF Eligible
    <3> QED
      BY <1>0, <1>7, <3>1 DEF HandlersType, Trigs
  <2>3. trig' \in [Tasks -> Trigs]
    BY <1>0, <1>7 DEF HandlersType, Trigs
  <2>4. Triggered
    BY DEF Inv
  <2>5. Triggered'
    <3> SUFFICES ASSUME NEW u \in Tasks
                 PROVE  /\ trig'[u].at # "idle" => pr'[u] \in Heads
                        /\ trig'[u].by = "drain" => drain'.at = "wait" /\ drain'.t = u
      BY DEF Triggered
    <3>1. trig'[u].at # "idle" => pr[u] \in Heads
      BY <2>2, <2>4 DEF Triggered
    <3> QED
      BY <1>1, <2>1, <2>2, <2>4, <3>1 DEF Triggered
  <2> QED
    BY <2>3, <2>5
<1> QED
  BY <1>0, <1>1, <1>4, <1>5, <1>6 DEF HandlersType, Inv, Draining

\* A restart and the startup keep the world.
LEMMA BootWorld ==
    ASSUME Inv, BootSteps \/ Crash
    PROVE  WorldType' /\ pr' = pr
<1>0. WorldType
  BY TypeParts DEF Inv
<1>1. CASE BootRuntime
  <2>1. UNCHANGED <<run, handle, proc, rproc, pr>>
    BY <1>1 DEF BootRuntime, reviews, world
  <2>2. PICK seen \in SUBSET Tasks :
          row' = [t \in Tasks |-> IF t \in seen THEN [row[t] EXCEPT !.act = "exited"] ELSE row[t]]
    <3> DEFINE dead == {t \in Tasks : row[t].launch # "" /\ proc[t] = ""}
    <3>1. PICK unseen \in SUBSET dead :
            row' = [t \in Tasks |-> IF t \in dead \ unseen THEN [row[t] EXCEPT !.act = "exited"]
                                     ELSE row[t]]
      BY <1>1 DEF BootRuntime
    <3>2. dead \ unseen \in SUBSET Tasks
      OBVIOUS
    <3> QED
      BY <3>1, <3>2
  <2>3. row' \in [Tasks -> Rows]
    BY <1>0, <2>2 DEF WorldType, Rows
  <2> QED
    BY <1>0, <2>1, <2>3 DEF WorldType
<1>2. ASSUME NEW t \in Tasks, BootReview(t) PROVE WorldType' /\ pr' = pr
  <2>1. UNCHANGED <<row, handle, proc, rproc, pr>>
    BY <1>2 DEF BootReview, world
  <2>2. PICK gone \in SUBSET Heads :
          run' = [run EXCEPT ![t] = [h \in Heads |-> IF h \in gone THEN "failed" ELSE run[t][h]]]
    <3> DEFINE gone == {h \in Heads : run[t][h] = "running" /\ ~(handle[t] /\ rproc[t] = h)}
    <3>1. run' = [run EXCEPT ![t] = [h \in Heads |-> IF h \in gone THEN "failed" ELSE run[t][h]]]
      BY <1>0, <1>2 DEF BootReview, WorldType
    <3> QED
      BY <3>1
  <2>3. run' \in [Tasks -> [Heads -> RunStates]]
    BY <1>0, <2>2 DEF WorldType, RunStates
  <2> QED
    BY <1>0, <2>1, <2>3 DEF WorldType
<1>3. CASE ~BootRuntime /\ ~\E t \in Tasks : BootReview(t)
  <2>1. UNCHANGED <<row, reviews, world>>
    BY <1>3 DEF BootSteps, Crash, BootReviewed, BootDrains, BootProvisions, BootPasses, BootAborts,
                BootReviewer, BootWorker, BootUninspected, BootUnnamed, BootRunning, BootTask
  <2> QED
    BY <1>0, <2>1 DEF WorldType, reviews, world
<1> QED
  BY <1>1, <1>2, <1>3

\* A restart and the startup keep the handlers.
LEMMA BootHandlers ==
    ASSUME Inv, BootSteps \/ Crash
    PROVE  HandlersType' /\ Draining' /\ Triggered' /\ Reported'
<1>0. HandlersType /\ WorldType /\ pr' = pr
  BY TypeParts, BootWorld DEF Inv
<1>1. CASE Crash
  <2>1. /\ drain' = NoDrain /\ wanted' = FALSE
        /\ trig' = [t \in Tasks |-> NoTrig] /\ report' = [t \in Tasks |-> NoReport]
        /\ exit' = [t \in Tasks |-> IF exit[t].at = "report" THEN exit[t] ELSE NoExit]
    BY <1>1 DEF Crash
  <2>2. HandlersType'
    BY <1>0, <2>1, RowFacts DEF HandlersType
  <2>3. Draining' /\ Triggered' /\ Reported'
    BY <2>1, RowFacts DEF Draining, Triggered, Reported, NoTrig
  <2> QED
    BY <2>2, <2>3
<1>2. ASSUME NEW t \in Tasks, BootReview(t) PROVE HandlersType' /\ Draining' /\ Triggered' /\ Reported'
  <2>1. UNCHANGED <<drain, wanted, exit, report>>
    BY <1>2 DEF BootReview
  <2>2. \/ trig' = trig
        \/ Eligible(t) /\ trig' = [trig EXCEPT ![t] = [at |-> "authorize", by |-> "boot"]]
    BY <1>2 DEF BootReview
  <2>3. Eligible(t) => pr[t] \in Heads
    BY <1>0, HeadFacts DEF Eligible
  <2>4. trig' \in [Tasks -> Trigs]
    BY <1>0, <2>2 DEF HandlersType, Trigs
  <2>5. Triggered'
    BY <1>0, <2>1, <2>2, <2>3 DEF HandlersType, Inv, Triggered
  <2> QED
    BY <1>0, <2>1, <2>4, <2>5 DEF HandlersType, Inv, Draining, Reported
<1>3. CASE ~Crash /\ ~\E t \in Tasks : BootReview(t)
  <2>1. UNCHANGED <<drain, trig, exit, report>> /\ wanted' \in BOOLEAN
    BY <1>0, <1>3 DEF BootSteps, BootRuntime, BootReviewed, BootDrains, BootProvisions, BootPasses,
                      BootAborts, Aborted, BootReviewer, BootWorker, BootUninspected, BootUnnamed,
                      BootRunning, BootTask, handlers, HandlersType
  <2> QED
    BY <1>0, <2>1 DEF HandlersType, Inv, Draining, Triggered, Reported
<1> QED
  BY <1>1, <1>2, <1>3

\* The stage of startup, and the bounds.
LEMMA BootKept ==
    ASSUME Inv, Next
    PROVE  BootType'
<1>0. BootType
  BY TypeParts DEF Inv
<1>1. CASE Crash
  BY <1>0, <1>1, PolicyQueueAssumption DEF Crash, BootType
<1>2. CASE BootSteps
  <2>1. boot' \in {"up", "runtime", "reviews", "tasks"} /\ todo' \subseteq Tasks
    BY <1>0, <1>2 DEF BootType, BootSteps, BootRuntime, BootReview, BootReviewed, BootDrains,
                      BootProvisions, BootPasses, BootAborts, Aborted, Folded, BootReviewer, BootWorker,
                      BootUninspected, BootUnnamed, BootRunning, BootTask
  <2>2. Fault \/ UNCHANGED budget
    BY <1>2 DEF BootSteps, BootRuntime, BootReview, BootReviewed, BootDrains, BootProvisions, BootPasses,
                BootAborts, BootReviewer, BootWorker, BootUninspected, BootUnnamed
  <2> QED
    BY <1>0, <2>1, <2>2, FaultType DEF BootType
<1>3. CASE ~Crash /\ ~BootSteps
  <2>1. UNCHANGED <<boot, todo>> /\ (Fault \/ UNCHANGED budget)
    <3>1. CASE DrainSteps \/ DrainRefuses \/ DrainUnmarked \/ DrainCancelled
      BY <3>1 DEF DrainSteps, DrainStart, DrainEnds, DrainClaims, DrainReads, DrainLooks, DrainBinds, DrainTriggers,
                  DrainReviews, DrainRefuses, DrainCancelled, DrainCreates, DrainMarks, DrainUnmarked
    <3>2. ASSUME NEW t \in Tasks, TriggerSteps(t) \/ AuthorizeRejects(t) \/ AuthorizeDrifts(t) \/ ReviewerUnlaunched(t)
          PROVE  UNCHANGED <<boot, todo>> /\ (Fault \/ UNCHANGED budget)
      BY <3>2 DEF TriggerSteps, AuthorizeQueues, AuthorizeAnswers, InsertRun, SpawnReviewer, FailRun,
                  MarkAction, MarkTask, NameReviewer, AuthorizeRejects, AuthorizeDrifts, ReviewerUnlaunched
    <3>3. ASSUME NEW t \in Tasks,
                 \/ HandlerSteps(t) \/ ProcessSteps(t) \/ ExitUnreported(t) \/ ReviewerUnreported(t)
                 \/ Submit(t) \/ Provision(t) \/ Nudge(t) \/ Reap(t)
          PROVE  UNCHANGED <<boot, todo>> /\ (Fault \/ UNCHANGED budget)
      BY <3>3 DEF HandlerSteps, ProcessSteps, ExitUnreported, ReviewerUnreported, Submit, Provision, Nudge,
                  Reap, ExitReported, ExitReads, ExitBinds, ExitFinishes, ResultHandled, FailureHandled, WorkerExits,
                  ReviewerFails, ReviewerSubmits
    <3> QED
      BY <1>3, <3>1, <3>2, <3>3 DEF Next, Failures
  <2> QED
    BY <1>0, <2>1, FaultType DEF BootType
<1> QED
  BY <1>1, <1>2, <1>3
-----------------------------------------------------------------------------
\* The queue starts with nothing submitted.
LEMMA InvInit == Init => Inv
<1> SUFFICES ASSUME Init PROVE Inv
  OBVIOUS
<1>1. StoreType /\ WorldType /\ HandlersType /\ BootType
  <2>1. NoAct \in ActRows /\ <<>> \in Seq(Tasks \X Kinds)
    BY EmptySeq DEF NoAct, ActRows
  <2>2. StoreType
    BY <2>1, RowFacts DEF Init, StoreType
  <2>3. WorldType
    <3>1. "none" \in RunStates /\ [launch |-> "", act |-> "idle"] \in Rows
      BY DEF RunStates, Rows
    <3>2. row \in [Tasks -> Rows] /\ run \in [Tasks -> [Heads -> RunStates]]
      BY <3>1 DEF Init
    <3>3. handle \in [Tasks -> BOOLEAN] /\ proc \in [Tasks -> Workers \cup {""}]
      BY DEF Init
    <3>4. rproc \in [Tasks -> 0..2] /\ pr \in [Tasks -> 0..2]
      <4>1. rproc = [t \in Tasks |-> 0] /\ pr = [t \in Tasks |-> 0]
        BY DEF Init
      <4> QED
        BY <4>1
    <3> QED
      BY <3>2, <3>3, <3>4 DEF WorldType
  <2>4. HandlersType
    BY RowFacts DEF Init, HandlersType
  <2>5. BootType
    <3>1. boot = "up" /\ todo = {} /\ crashes = 0 /\ faults = 0
      BY DEF Init
    <3> QED
      BY <3>1, PolicyQueueAssumption DEF BootType
  <2> QED
    BY <2>2, <2>3, <2>4, <2>5
<1>2. \A t \in Tasks : /\ Owned(t) = {} /\ task[t].st = "absent"
                       /\ \A k \in Kinds : act[t][k] = NoAct /\ ~Active(t, k)
  BY DEF Init, Owned, Active, NoAct, NoTask
<1>3. SlotsExclusive
  BY <1>2, KindFacts DEF SlotsExclusive, NoAct
<1>4. PhaseOwnsAction /\ Fresh /\ Reviewing
  BY <1>2 DEF PhaseOwnsAction, Consistent, Fresh, Reviewing, Queueds, Runnings, NoAct
<1>5. Triggered /\ Draining /\ Reported
  BY RowFacts DEF Init, Triggered, Draining, Reported, NoTrig
<1> QED
  BY <1>1, <1>3, <1>4, <1>5, TypeParts DEF Inv, Store

\* Every step keeps the store, the world and the handlers.
LEMMA InvNext == Inv /\ [Next]_vars => Inv'
<1> SUFFICES ASSUME Inv, [Next]_vars PROVE Inv'
  OBVIOUS
<1>1. CASE UNCHANGED vars
  <2>1. Store'
    BY <1>1, StoreUnchanged DEF Inv, vars, store
  <2>2. TypeOK'
    BY <1>1 DEF Inv, TypeOK, vars, store, reviews, world, handlers, budget
  <2> QED
    BY <1>1, <2>1, <2>2 DEF Inv, Triggered, Draining, Reported, vars, world, handlers
<1>2. CASE Next
  <2>1. BootType'
    BY <1>2, BootKept
  <2>2. Store' /\ WorldType' /\ HandlersType' /\ Draining' /\ Triggered' /\ Reported'
    <3>1. CASE DrainSteps \/ DrainRefuses \/ DrainUnmarked \/ DrainCancelled
      BY <3>1, DrainStore, DrainWorld, DrainHandlers
    <3>2. CASE BootSteps \/ Crash
      BY <3>2, BootStore, BootWorld, BootHandlers
    <3>3. ASSUME NEW t \in Tasks, TriggerSteps(t) \/ AuthorizeRejects(t) \/ AuthorizeDrifts(t) \/ ReviewerUnlaunched(t)
          PROVE  Store' /\ WorldType' /\ HandlersType' /\ Draining' /\ Triggered' /\ Reported'
      BY <3>3, TriggerStore, TriggerHandlers
    <3>4. ASSUME NEW t \in Tasks,
                 \/ HandlerSteps(t) \/ ProcessSteps(t) \/ ExitUnreported(t) \/ ReviewerUnreported(t)
                 \/ Submit(t) \/ Provision(t) \/ Nudge(t) \/ Reap(t)
          PROVE  Store' /\ WorldType' /\ HandlersType' /\ Draining' /\ Triggered' /\ Reported'
      BY <3>4, HandlerStore, HandlerWorld, HandlerHandlers
    <3> QED
      BY <1>2, <3>1, <3>2, <3>3, <3>4 DEF Next, Failures
  <2>3. TypeOK'
    <3>1. StoreType'
      BY <2>2 DEF Store
    <3> QED
      BY <2>1, <2>2, <3>1 DEF TypeOK, StoreType, WorldType, HandlersType, BootType
  <2> QED
    BY <2>2, <2>3 DEF Inv
<1> QED
  BY <1>1, <1>2
-----------------------------------------------------------------------------
(* The transactions of the store, whoever makes them.                      *)

Submitted(t) ==
    /\ task[t].st = "absent" /\ task' = [task EXCEPT ![t].st = "reserved"]
    /\ Enqueue(t, "worker-1")

Provisioned(t) ==
    /\ task[t].st = "reserved" /\ task' = [task EXCEPT ![t].st = "worker_queued"]
    /\ UNCHANGED <<act, queue>>

Claimed(t, k, s) ==
    /\ drain.at = "claim"
    /\ Claimable(t, k) /\ s \in FreeSlots /\ queue # <<>> /\ Head(queue) = <<t, k>>
    /\ SetAct(t, k, "claimed", s) /\ queue' = Tail(queue)
    /\ task' = [task EXCEPT ![t].st = RunningState[k]]

\* A reviewer is started by its trigger.
Started(t, k) ==
    /\ act[t][k].st = "claimed" /\ Start(t, k) /\ UNCHANGED <<task, queue>>
    /\ k \in Workers \/ MarkAction(t)

\* Who may give up a review.
EndsReview(t) ==
    \/ AuthorizeDrifts(t) \/ ReviewerUnlaunched(t) \/ FailureHandled(t) \/ BootReviewer(t)
    \/ DrainReviews /\ t = drain.t /\ Finishable(t, drain.k, drain.snap)

\* An action that ends well is a worker's: a review ends with its verdict.
Ended(t, k, st, state) ==
    /\ k \in Workers \/ EndsReview(t)
    /\ Active(t, k) /\ task[t].st \notin Ends /\ Finish(t, k, st, state)
    /\ \/ st = "failed" /\ state = "failed"
       \/ st = "succeeded" /\ state = "ci_waiting" /\ k \in Workers

ReviewQueued(t) ==
    /\ task[t].st = "ci_waiting" /\ Owned(t) = {} /\ pr[t] \in Heads
    /\ (task[t].repair = 0 /\ task[t].head = 0) \/ (task[t].repair = 1 /\ task[t].head \notin {0, pr[t]})
    /\ task' = [task EXCEPT ![t] = [st |-> "review_queued", repair |-> task[t].repair,
                                    head |-> pr[t], run |-> 0]]
    /\ Enqueue(t, Reviewer[pr[t]])

Concluded(t, h) ==
    /\ ResultHandled(t) \/ BootReviewer(t)
    /\ Active(t, Reviewer[h]) /\ task[t].st = "review_running" /\ task[t].head = h
    /\ Conclude(t, h)

\* The run of the review is put into the row, with the start of its action or after it.
RunBound(t, h) ==
    /\ task[t].st = "review_running" /\ task[t].head = h
    /\ task' = [task EXCEPT ![t].run = h] /\ UNCHANGED queue
    /\ \/ UNCHANGED act
       \/ run[t][h] = "running" /\ act[t][Reviewer[h]].st = "claimed" /\ Start(t, Reviewer[h])

Transaction(t) ==
    \/ Submitted(t) \/ Provisioned(t) \/ ReviewQueued(t) \/ Incident(t)
    \/ \E h \in Heads : Concluded(t, h) \/ RunBound(t, h)
    \/ \E k \in Kinds :
         \/ Started(t, k)
         \/ \E s \in Slots : Claimed(t, k, s)
         \/ \E st \in {"succeeded", "failed"}, state \in {"ci_waiting", "failed"} : Ended(t, k, st, state)

\* The drain gives up the action it claimed.
LEMMA FailClaimedMakes ==
    ASSUME Inv, drain.at \notin {"idle", "claim"}, FailClaimed, drain.k \in Workers \/ DrainReviews
    PROVE  /\ drain.t \in Tasks /\ drain.k \in Kinds
           /\ UNCHANGED store \/ Ended(drain.t, drain.k, "failed", "failed")
<1>1. drain.t \in Tasks /\ drain.k \in Kinds
  BY DEF Inv, TypeOK, Draining, Drains
<1> QED
  BY <1>1 DEF FailClaimed, Finishable, Ended, EndsReview

\* The transactions of the drain.
LEMMA DrainMakes ==
    ASSUME Inv, DrainSteps \/ DrainRefuses \/ DrainUnmarked \/ DrainCancelled
    PROVE  UNCHANGED store \/ \E t \in Tasks : Transaction(t)
<1>1. CASE \/ DrainStart \/ DrainEnds \/ DrainCreates \/ DrainMarks \/ DrainReads
           \/ DrainLooks \/ DrainTriggers \/ DrainCancelled
  BY <1>1 DEF DrainStart, DrainEnds, DrainCreates, DrainMarks, DrainReads, DrainLooks, DrainTriggers,
              DrainCancelled, store
<1>2. CASE DrainClaims
  <2>1. PICK t \in Tasks, k \in Kinds, s \in Slots :
          /\ Head(queue) = <<t, k>> /\ LowestFree(s)
          /\ SetAct(t, k, "claimed", s)
          /\ task' = [task EXCEPT ![t].st = RunningState[k]]
          /\ queue' = Tail(queue)
    BY <1>2 DEF DrainClaims
  <2>2. Claimable(t, k) /\ queue # <<>> /\ s \in FreeSlots
    BY <1>2, <2>1 DEF DrainClaims, HeadClaimable, LowestFree
  <2>3. Claimed(t, k, s)
    BY <1>2, <2>1, <2>2 DEF Claimed, DrainClaims
  <2> QED
    BY <2>3 DEF Transaction
<1>3. CASE DrainRefuses \/ DrainUnmarked \/ DrainReviews
  <2>1. UNCHANGED store \/ (FailClaimed /\ drain.at \notin {"idle", "claim"})
    BY <1>3 DEF DrainRefuses, DrainUnmarked, DrainReviews
  <2>2. drain.k \in Workers \/ DrainReviews
    BY <1>3 DEF DrainRefuses, DrainUnmarked, Inv, Draining
  <2> QED
    BY <2>1, <2>2, FailClaimedMakes DEF Transaction
<1>4. CASE DrainBinds
  <2>1. drain.t \in Tasks /\ drain.k \in Kinds /\ drain.k \in Workers
    BY <1>4 DEF DrainBinds, Inv, TypeOK, Draining, Drains
  <2>2. UNCHANGED store \/ Started(drain.t, drain.k)
    BY <1>4, <2>1 DEF DrainBinds, Started, store
  <2> QED
    BY <2>1, <2>2 DEF Transaction
<1> QED
  BY <1>1, <1>2, <1>3, <1>4 DEF DrainSteps

\* The transactions of the review trigger.
LEMMA TriggerMakes ==
    ASSUME Inv, NEW t \in Tasks,
           TriggerSteps(t) \/ AuthorizeRejects(t) \/ AuthorizeDrifts(t) \/ ReviewerUnlaunched(t)
    PROVE  UNCHANGED store \/ Transaction(t)
<1> DEFINE k == Reviewer[pr[t]]
<1>0. trig[t].at # "idle" => k \in Kinds /\ pr[t] \in Heads
  BY KindFacts DEF Inv, Triggered, Kinds
<1>1. CASE \/ AuthorizeAnswers(t) \/ InsertRun(t) \/ SpawnReviewer(t) \/ FailRun(t)
           \/ NameReviewer(t)
  BY <1>1 DEF AuthorizeAnswers, InsertRun, SpawnReviewer, FailRun, NameReviewer, store
<1>2. CASE AuthorizeQueues(t)
  BY <1>0, <1>2 DEF AuthorizeQueues, ReviewQueued, Transaction
<1>3. CASE AuthorizeRejects(t)
  BY <1>3 DEF AuthorizeRejects, Transaction
<1>4. CASE AuthorizeDrifts(t)
  <2>1. k \in Kinds
    BY <1>0, <1>4 DEF AuthorizeDrifts
  <2>2. Incident(t) \/ Ended(t, k, "failed", "failed")
    BY <1>4 DEF AuthorizeDrifts, Ended, EndsReview, Active, Ends
  <2> QED
    BY <2>1, <2>2 DEF Transaction
<1>5. CASE ReviewerUnlaunched(t)
  <2>1. k \in Kinds
    BY <1>0, <1>5 DEF ReviewerUnlaunched
  <2>2. UNCHANGED store \/ Ended(t, k, "failed", "failed")
    BY <1>5 DEF ReviewerUnlaunched, Finishable, Ended, EndsReview
  <2> QED
    BY <2>1, <2>2 DEF Transaction
<1>6. CASE MarkAction(t)
  <2>1. k \in Kinds
    BY <1>0, <1>6 DEF MarkAction
  <2>2. UNCHANGED store \/ Started(t, k)
    BY <1>6 DEF MarkAction, Started, store
  <2> QED
    BY <2>1, <2>2 DEF Transaction
<1>7. CASE MarkTask(t)
  <2>1. pr[t] \in Heads
    BY <1>0, <1>7 DEF MarkTask
  <2>2. UNCHANGED store \/ RunBound(t, pr[t])
    BY <1>7 DEF MarkTask, RunBound, store
  <2> QED
    BY <2>1, <2>2 DEF Transaction
<1> QED
  BY <1>1, <1>2, <1>3, <1>4, <1>5, <1>6, <1>7 DEF TriggerSteps

\* The transactions of the handlers, the requests and the processes.
LEMMA HandlerMakes ==
    ASSUME Inv, NEW t \in Tasks,
           \/ HandlerSteps(t) \/ ProcessSteps(t) \/ ExitUnreported(t) \/ ReviewerUnreported(t)
           \/ Submit(t) \/ Provision(t) \/ Nudge(t) \/ Reap(t)
    PROVE  UNCHANGED store \/ Transaction(t)
<1>1. CASE \/ ExitReported(t) \/ ExitReads(t) \/ ProcessSteps(t) \/ ExitUnreported(t) \/ ReviewerUnreported(t)
           \/ Nudge(t) \/ Reap(t)
  BY <1>1 DEF ExitReported, ExitReads, ProcessSteps, WorkerExits, ReviewerFails, ReviewerSubmits,
              ExitUnreported, ReviewerUnreported, Nudge, Reap
<1>2. CASE ExitBinds(t)
  <2>1. UNCHANGED <<task, queue>>
    BY <1>2 DEF ExitBinds
  <2>2. CASE UNCHANGED act
    BY <2>1, <2>2 DEF store
  <2>3. CASE ~UNCHANGED act
    <3>1. PICK k \in Workers : act[t][k].st = "claimed" /\ Start(t, k)
      BY <1>2, <2>3 DEF ExitBinds
    <3>2. k \in Kinds
      BY DEF Kinds
    <3> QED
      BY <2>1, <3>1, <3>2 DEF Started, Transaction
  <2> QED
    BY <2>2, <2>3
<1>3. CASE ExitFinishes(t)
  <2>1. CASE UNCHANGED store
    BY <2>1
  <2>2. CASE ~UNCHANGED store
    <3>1. PICK k \in Workers :
            /\ Active(t, k)
            /\ Finish(t, k, ActionOutcome(exit[t].ok), WorkerOutcome(exit[t].ok))
      BY <1>3, <2>2 DEF ExitFinishes
    <3>2. task[t].st \notin Ends
      BY <1>3, <2>2 DEF ExitFinishes, Finishable
    <3>3. Ended(t, k, ActionOutcome(exit[t].ok), WorkerOutcome(exit[t].ok))
      BY <3>1, <3>2 DEF Ended, ActionOutcome, WorkerOutcome
    <3>4. /\ k \in Kinds
          /\ ActionOutcome(exit[t].ok) \in {"succeeded", "failed"}
          /\ WorkerOutcome(exit[t].ok) \in {"ci_waiting", "failed"}
      BY DEF Kinds, ActionOutcome, WorkerOutcome
    <3> QED
      BY <3>3, <3>4 DEF Transaction
  <2> QED
    BY <2>1, <2>2
<1>4. CASE ResultHandled(t)
  <2> DEFINE h == report[t].head
  <2>1. CASE Accepts(t, h)
    <3>1. h \in Heads /\ Concluded(t, h)
      BY <1>4, <2>1 DEF ResultHandled, Accepts, Active, Inv, Reported, Concluded
    <3> QED
      BY <3>1 DEF Transaction
  <2>2. CASE ~Accepts(t, h)
    BY <1>4, <2>2 DEF ResultHandled
  <2> QED
    BY <2>1, <2>2
<1>5. CASE FailureHandled(t)
  <2> DEFINE h == report[t].head
  <2>1. CASE ReviewFailable(t, h)
    <3>1. Reviewer[h] \in Kinds /\ Ended(t, Reviewer[h], "failed", "failed")
      BY <1>5, <2>1, KindFacts DEF FailureHandled, ReviewFailable, Inv, Reported, Kinds, FailReview,
                                   Finishable, Ended, EndsReview
    <3> QED
      BY <3>1 DEF Transaction
  <2>2. CASE ~ReviewFailable(t, h)
    BY <1>5, <2>2 DEF FailureHandled
  <2> QED
    BY <2>1, <2>2
<1>6. CASE Submit(t) \/ Provision(t)
  BY <1>6 DEF Submit, Provision, Submitted, Provisioned, Transaction
<1> QED
  BY <1>1, <1>2, <1>3, <1>4, <1>5, <1>6 DEF HandlerSteps

\* The transactions of the startup.
LEMMA BootMakes ==
    ASSUME Inv, BootSteps \/ Crash
    PROVE  UNCHANGED store \/ \E t \in Tasks : Transaction(t)
<1>1. CASE \/ Crash \/ BootRuntime \/ BootReviewed \/ BootDrains
           \/ \E t \in Tasks : BootReview(t) \/ BootPasses(t) \/ BootAborts(t)
  BY <1>1 DEF Crash, BootRuntime, BootReviewed, BootDrains, BootReview, BootPasses, BootAborts,
              Aborted
<1>2. ASSUME NEW t \in Tasks, BootProvisions(t) \/ BootUninspected(t) PROVE Transaction(t)
  BY <1>2 DEF BootProvisions, BootUninspected, Provisioned, Transaction
<1>3. ASSUME NEW t \in Tasks, BootReviewer(t) PROVE Transaction(t)
  <2> DEFINE h == task[t].head
             k == Reviewer[h]
  <2>1. PICK j \in Reviewers : Active(t, j) /\ task[t].st \in Runnings
    BY <1>3 DEF BootReviewer, BootRunning, BootTask
  <2>2. k \in Kinds /\ Active(t, k) /\ h \in Heads /\ task[t].st = "review_running"
    BY <2>1, Running DEF Inv, Kinds
  <2>3. \/ Incident(t)
        \/ /\ task' = [task EXCEPT ![t].run = h] /\ UNCHANGED queue
           /\ IF act[t][k].st = "claimed" THEN Start(t, k) ELSE UNCHANGED act
           /\ run[t][h] = "running"
        \/ FailReview(t, h) \/ Conclude(t, h)
    BY <1>3 DEF BootReviewer
  <2>4. Incident(t) \/ RunBound(t, h) \/ Concluded(t, h) \/ Ended(t, k, "failed", "failed")
    BY <1>3, <2>2, <2>3 DEF RunBound, Concluded, Ended, EndsReview, FailReview, Ends
  <2> QED
    BY <2>2, <2>4 DEF Transaction
<1>4. ASSUME NEW t \in Tasks, BootWorker(t) \/ BootUnnamed(t) PROVE UNCHANGED store \/ Transaction(t)
  <2> DEFINE k == CHOOSE k \in Workers : Active(t, k)
  <2>1. k \in Kinds /\ k \in Workers /\ Active(t, k) /\ task[t].st \notin Ends
    BY <1>4 DEF BootWorker, BootUnnamed, BootRunning, BootTask, Kinds, Runnings, Ends
  <2>2. \/ UNCHANGED store \/ Incident(t) \/ Started(t, k)
        \/ Finish(t, k, "failed", "failed") \/ Finish(t, k, "succeeded", "ci_waiting")
    BY <1>4, <2>1 DEF BootWorker, BootUnnamed, Started, store
  <2>3. \/ UNCHANGED store \/ Incident(t) \/ Started(t, k)
        \/ Ended(t, k, "failed", "failed") \/ Ended(t, k, "succeeded", "ci_waiting")
    BY <2>1, <2>2 DEF Ended
  <2> QED
    BY <2>1, <2>3 DEF Transaction
<1> QED
  BY <1>1, <1>2, <1>3, <1>4 DEF BootSteps

\* Every step of the queue makes at most one transaction.
LEMMA StepMakes ==
    ASSUME Inv, Next
    PROVE  UNCHANGED store \/ \E t \in Tasks : Transaction(t)
BY DrainMakes, BootMakes, TriggerMakes, HandlerMakes DEF Next, Failures

\* How far a task has come.  It has a repair once the first review asked for
\* changes; an action is queued when the one before it has succeeded.
Unrepaired(t) ==
    /\ act[t]["worker-2"].st = "none" /\ act[t]["review-2"].st = "none"
    /\ task[t].head \in {0, 1}
    /\ task[t].head = 0 => act[t]["review-1"].st = "none"
    /\ task[t].head = 1 => act[t]["worker-1"].st = "succeeded"
    /\ task[t].st = "ci_waiting" => act[t]["worker-1"].st = "succeeded" /\ task[t].head = 0
UnderRepair(t) ==
    /\ act[t]["worker-1"].st = "succeeded" /\ act[t]["review-1"].st = "succeeded"
    /\ task[t].head \in {1, 2}
    /\ task[t].head = 1 => act[t]["review-2"].st = "none"
    /\ task[t].head = 2 => act[t]["worker-2"].st = "succeeded"
    /\ task[t].st = "ci_waiting" => act[t]["worker-2"].st = "succeeded" /\ task[t].head = 1
    /\ task[t].st \in {"review_queued", "review_running", "admission_waiting"} => task[t].head = 2
Course(t) ==
    /\ task[t].repair = 0 => Unrepaired(t)
    /\ task[t].repair = 1 => UnderRepair(t)
OnCourse == \A t \in Tasks : Course(t)

\* A head of the repair comes from the repair, and the first review asked for it.
Heading ==
    \A t \in Tasks :
      /\ task[t].repair = 0 => pr[t] \in {0, 1}
      /\ task[t].repair = 1 /\ task[t].st \notin Ends => run[t][1] = "changes"

\* The kinds and what they are called.
LEMMA KindNames ==
    /\ Reviewer[1] = "review-1" /\ Reviewer[2] = "review-2"
    /\ \A h \in Heads : h = 1 \/ h = 2
    /\ \A k \in Kinds : k \in {"worker-1", "worker-2", "review-1", "review-2"}
    /\ \A k \in Workers : k = "worker-1" \/ k = "worker-2"
    /\ {"worker-1", "worker-2", "review-1", "review-2"} \subseteq Kinds
    /\ \A h \in Heads : Reviewer[h] \in Kinds
BY DEF Reviewer, Heads, Kinds, Workers, Reviewers

\* What an active action says of its task.
LEMMA ActiveTask ==
    ASSUME Store, NEW t \in Tasks, NEW k \in Kinds, Active(t, k), task[t].st \notin Ends
    PROVE  task[t].st = RunningState[k] /\ Owned(t) = {k}
<1>1. Consistent(t) /\ k \in Owned(t)
  BY DEF Store, PhaseOwnsAction, Owned, Active
<1>2. Owned(t) = {k}
  BY <1>1 DEF Consistent
<1>3. task[t].st \notin Queueds
  BY <1>1, <1>2 DEF Consistent, Claimable, Active
<1>4. task[t].st # "reserved"
  BY <1>1, <1>2, KindNames DEF Store, Fresh, Owned, Active
<1>5. task[t].st \in States
  BY DEF Store, StoreType, TaskRows
<1>6. task[t].st \in Runnings
  BY <1>1, <1>2, <1>3, <1>4, <1>5 DEF Consistent, States, Ends
<1> QED
  BY <1>1, <1>2, <1>6 DEF Consistent

\* What a transaction leaves of the other tasks.
LEMMA OthersKept ==
    ASSUME Store, NEW t \in Tasks, Transaction(t), NEW u \in Tasks, u # t
    PROVE  task'[u] = task[u] /\ act'[u] = act[u]
<1>1. task'[u] = task[u]
  BY DEF Store, StoreType, Transaction, Submitted, Provisioned, ReviewQueued, Incident, Concluded, Conclude,
         RunBound, Started, Claimed, Ended, Finish
<1>2. act'[u] = act[u]
  BY DEF Store, StoreType, Transaction, Submitted, Provisioned, ReviewQueued, Incident, Concluded, Conclude,
         RunBound, Started, Claimed, Ended, Finish, Start, Enqueue, SetAct
<1> QED
  BY <1>1, <1>2

\* A course depends on its own rows.
LEMMA CourseKept ==
    ASSUME NEW t \in Tasks, Course(t), task'[t] = task[t], act'[t] = act[t]
    PROVE  Course(t)'
BY DEF Course, Unrepaired, UnderRepair

\* One action of a task gets a new status.
LEMMA OneAct ==
    ASSUME Store, NEW t \in Tasks, NEW k \in Kinds, NEW st, NEW slot, SetAct(t, k, st, slot)
    PROVE  /\ act'[t][k].st = st /\ act'[t][k].slot = slot
           /\ \A j \in Kinds \ {k} : act'[t][j] = act[t][j]
BY DEF Store, StoreType, SetAct

\* The end of an action leaves its task on its course.
LEMMA EndedCourse ==
    ASSUME Store, NEW t \in Tasks, Course(t), NEW k \in Kinds,
           NEW st \in {"succeeded", "failed"}, NEW state \in {"ci_waiting", "failed"}, Ended(t, k, st, state)
    PROVE  Course(t)'
<1>1. /\ act'[t][k].st = st /\ \A j \in Kinds \ {k} : act'[t][j] = act[t][j]
      /\ task'[t].st = state /\ task'[t].repair = task[t].repair /\ task'[t].head = task[t].head
  BY OneAct DEF Ended, Finish, Store, StoreType, TaskRows
<1>2. act[t][k].st \in {"claimed", "running"}
  BY DEF Ended, Active
<1>3. task[t].st = RunningState[k]
  BY ActiveTask DEF Ended
<1>4. \/ st = "failed" /\ state = "failed"
      \/ st = "succeeded" /\ state = "ci_waiting" /\ (k = "worker-1" \/ k = "worker-2")
  BY KindNames DEF Ended
<1>5. k \in {"worker-1", "worker-2", "review-1", "review-2"}
  BY KindNames
<1>6. ASSUME task[t].repair = 0 PROVE Unrepaired(t)'
  <2>1. Unrepaired(t)
    BY <1>6 DEF Course
  <2>2. k \in {"worker-1", "review-1"}
    BY <1>2, <1>5, <2>1 DEF Unrepaired
  <2> QED
    BY <1>1, <1>2, <1>4, <1>5, <2>1, <2>2, KindNames DEF Unrepaired
<1>7. ASSUME task[t].repair = 1 PROVE UnderRepair(t)'
  <2>1. UnderRepair(t)
    BY <1>7 DEF Course
  <2>2. k \in {"worker-2", "review-2"}
    BY <1>2, <1>5, <2>1 DEF UnderRepair
  <2> QED
    BY <1>1, <1>2, <1>4, <1>5, <2>1, <2>2, KindNames DEF UnderRepair
<1> QED
  BY <1>1, <1>6, <1>7 DEF Course

\* The verdict of a review leaves its task on its course.
LEMMA ConcludedCourse ==
    ASSUME Store, NEW t \in Tasks, Course(t), NEW h \in Heads, Concluded(t, h)
    PROVE  /\ Course(t)'
           /\ \/ /\ task'[t].repair = task[t].repair /\ task'[t].st # "repair_queued"
              \/ /\ task[t].repair = 0 /\ task'[t].repair = 1 /\ h = 1 /\ run[t][1] = "changes"
<1> DEFINE repairs == run[t][h] = "changes" /\ task[t].repair = 0
           state == IF run[t][h] = "approved" THEN "admission_waiting"
                    ELSE IF repairs THEN "repair_queued" ELSE "failed"
           k == Reviewer[h]
<1>1. /\ task'[t].st = state /\ task'[t].head = h
      /\ task'[t].repair = task[t].repair + IF repairs THEN 1 ELSE 0
  BY DEF Concluded, Conclude, Store, StoreType
<1>2. /\ act'[t][k].st = "succeeded"
      /\ repairs => act'[t]["worker-2"].st = "queued"
      /\ \A j \in Kinds : j # k /\ (~repairs \/ j # "worker-2") => act'[t][j] = act[t][j]
  <2>1. act' = [act EXCEPT ![t] = [j \in Kinds |->
                   IF j = k THEN [st |-> "succeeded", slot |-> 0]
                   ELSE IF repairs /\ j = "worker-2" THEN [st |-> "queued", slot |-> 0]
                   ELSE act[t][j]]]
    BY DEF Concluded, Conclude, Store, StoreType
  <2>2. k \in Kinds /\ k # "worker-2" /\ "worker-2" \in Kinds
    BY KindNames
  <2> HIDE DEF repairs, k
  <2> QED
    BY <2>1, <2>2 DEF Store, StoreType
<1>3. task[t].head = h /\ task[t].st = "review_running" /\ task[t].repair \in 0..1
  BY DEF Concluded, Store, StoreType, TaskRows
<1>4. (h = 1 /\ k = "review-1") \/ (h = 2 /\ k = "review-2")
  BY KindNames
<1> HIDE DEF k
<1>5. CASE task[t].repair = 0
  <2>1. Unrepaired(t) /\ h = 1 /\ k = "review-1"
    BY <1>3, <1>4, <1>5 DEF Course, Unrepaired
  <2>2. CASE repairs
    BY <1>1, <1>2, <1>3, <1>5, <2>1, <2>2, KindNames DEF Course, Unrepaired, UnderRepair
  <2>3. CASE ~repairs
    BY <1>1, <1>2, <1>3, <1>5, <2>1, <2>3, KindNames DEF Course, Unrepaired
  <2> QED
    BY <2>2, <2>3
<1>6. CASE task[t].repair = 1
  <2>1. UnderRepair(t) /\ h = 2 /\ k = "review-2" /\ ~repairs
    BY <1>3, <1>4, <1>6 DEF Course, UnderRepair
  <2> QED
    BY <1>1, <1>2, <1>3, <1>6, <2>1, KindNames DEF Course, UnderRepair
<1> QED
  BY <1>3, <1>5, <1>6

\* A review is queued for a head that no review was queued for.
LEMMA ReviewQueuedCourse ==
    ASSUME Store, Heading, NEW t \in Tasks, Course(t), ReviewQueued(t)
    PROVE  /\ Course(t)' /\ task'[t].repair = task[t].repair
           /\ \/ pr[t] = 1 /\ act[t]["review-1"].st = "none" /\ act[t]["worker-1"].st = "succeeded"
              \/ pr[t] = 2 /\ act[t]["review-2"].st = "none" /\ act[t]["worker-2"].st = "succeeded"
<1>1. /\ task'[t].st = "review_queued" /\ task'[t].repair = task[t].repair /\ task'[t].head = pr[t]
  BY DEF ReviewQueued, Store, StoreType
<1>2. Reviewer[pr[t]] \in Kinds /\ (pr[t] = 1 \/ pr[t] = 2)
  BY KindNames DEF ReviewQueued
<1>3. /\ act'[t][Reviewer[pr[t]]].st = "queued"
      /\ \A j \in Kinds \ {Reviewer[pr[t]]} : act'[t][j] = act[t][j]
  BY <1>2, OneAct DEF ReviewQueued, Enqueue
<1>4. CASE task[t].repair = 0
  <2>1. Unrepaired(t) /\ task[t].head = 0 /\ pr[t] = 1
    BY <1>2, <1>4 DEF Course, ReviewQueued, Heading
  <2> QED
    BY <1>1, <1>3, <1>4, <2>1, KindNames DEF Course, Unrepaired, ReviewQueued
<1>5. CASE task[t].repair = 1
  <2>1. UnderRepair(t) /\ task[t].head = 1 /\ pr[t] = 2
    BY <1>2, <1>5 DEF Course, ReviewQueued, UnderRepair
  <2> QED
    BY <1>1, <1>3, <1>5, <2>1, KindNames DEF Course, UnderRepair, ReviewQueued
<1> QED
  BY <1>4, <1>5 DEF ReviewQueued

\* Every transaction leaves the tasks on their course.
LEMMA TransactionCourse ==
    ASSUME Store, Heading, OnCourse, NEW t \in Tasks, Transaction(t)
    PROVE  /\ OnCourse'
           /\ \/ task'[t].repair = task[t].repair
              \/ task[t].repair = 0 /\ task'[t].repair = 1 /\ run[t][1] = "changes"
<1>0. Course(t)
  BY DEF OnCourse
<1>1. ASSUME NEW u \in Tasks, u # t PROVE Course(u)'
  BY <1>1, OthersKept, CourseKept DEF OnCourse
<1>2. ASSUME NEW k \in Kinds, NEW st, NEW state, Ended(t, k, st, state),
             st \in {"succeeded", "failed"}, state \in {"ci_waiting", "failed"}
      PROVE  Course(t)' /\ task'[t].repair = task[t].repair
  BY <1>0, <1>2, EndedCourse DEF Ended, Finish, Store, StoreType, TaskRows
<1>3. ASSUME NEW h \in Heads, Concluded(t, h)
      PROVE  /\ Course(t)'
             /\ \/ task'[t].repair = task[t].repair
                \/ task[t].repair = 0 /\ task'[t].repair = 1 /\ run[t][1] = "changes"
  BY <1>0, <1>3, ConcludedCourse
<1>4. ASSUME ReviewQueued(t) PROVE Course(t)' /\ task'[t].repair = task[t].repair
  BY <1>0, <1>4, ReviewQueuedCourse
<1>5. ASSUME Submitted(t) PROVE Course(t)' /\ task'[t].repair = task[t].repair
  <2>1. /\ task'[t].st = "reserved" /\ task'[t].repair = task[t].repair /\ task'[t].head = task[t].head
    BY <1>5 DEF Submitted, Store, StoreType, TaskRows
  <2>2. /\ act'[t]["worker-1"].st = "queued"
        /\ \A j \in Kinds \ {"worker-1"} : act'[t][j] = act[t][j]
    BY <1>5, OneAct, KindNames DEF Submitted, Enqueue
  <2>3. \A k \in Kinds : act[t][k].st = "none"
    BY <1>5 DEF Submitted, Store, Fresh
  <2> QED
    BY <1>0, <2>1, <2>2, <2>3, KindNames DEF Course, Unrepaired, UnderRepair
<1>6. ASSUME Provisioned(t) \/ Incident(t) PROVE Course(t)' /\ task'[t].repair = task[t].repair
  <2>1. /\ task'[t].repair = task[t].repair /\ task'[t].head = task[t].head
        /\ task'[t].st \in {task[t].st, "worker_queued", "incident"} /\ act' = act
    BY <1>6 DEF Provisioned, Incident, Store, StoreType, TaskRows
  <2> QED
    BY <1>0, <2>1 DEF Course, Unrepaired, UnderRepair
<1>7. ASSUME NEW h \in Heads, RunBound(t, h) PROVE Course(t)' /\ task'[t].repair = task[t].repair
  <2>1. /\ task'[t].repair = task[t].repair /\ task'[t].head = task[t].head
        /\ task'[t].st = task[t].st
    BY <1>7 DEF RunBound, Store, StoreType, TaskRows
  <2>2. \/ act' = act
        \/ /\ act[t][Reviewer[h]].st = "claimed" /\ act'[t][Reviewer[h]].st = "running"
           /\ \A j \in Kinds \ {Reviewer[h]} : act'[t][j] = act[t][j]
    BY <1>7, OneAct, KindNames DEF RunBound, Start
  <2>3. \A j \in Kinds : act'[t][j].st = act[t][j].st
                         \/ (act[t][j].st = "claimed" /\ act'[t][j].st = "running")
    BY <2>2, KindNames
  <2> QED
    BY <1>0, <2>1, <2>3, KindNames DEF Course, Unrepaired, UnderRepair
<1>8. ASSUME NEW k \in Kinds, Started(t, k) PROVE Course(t)' /\ task'[t].repair = task[t].repair
  <2>1. task' = task
    BY <1>8 DEF Started
  <2>2. /\ act[t][k].st = "claimed" /\ act'[t][k].st = "running"
        /\ \A j \in Kinds \ {k} : act'[t][j] = act[t][j]
    BY <1>8, OneAct DEF Started, Start
  <2>3. \A j \in Kinds : act'[t][j].st = act[t][j].st
                         \/ (act[t][j].st = "claimed" /\ act'[t][j].st = "running")
    BY <2>2
  <2> QED
    BY <1>0, <2>1, <2>3, KindNames DEF Course, Unrepaired, UnderRepair
<1>9. ASSUME NEW k \in Kinds, NEW s \in Slots, Claimed(t, k, s)
      PROVE Course(t)' /\ task'[t].repair = task[t].repair
  <2>1. /\ task'[t].repair = task[t].repair /\ task'[t].head = task[t].head
        /\ task'[t].st = RunningState[k] /\ task[t].st = QueuedState[k]
    BY <1>9 DEF Claimed, Claimable, Store, StoreType, TaskRows
  <2>2. /\ act[t][k].st = "queued" /\ act'[t][k].st = "claimed"
        /\ \A j \in Kinds \ {k} : act'[t][j] = act[t][j]
    BY <1>9, OneAct DEF Claimed, Claimable
  <2>3. \A j \in Kinds : act'[t][j].st = act[t][j].st
                         \/ (act[t][j].st = "queued" /\ act'[t][j].st = "claimed")
    BY <2>2
  <2>4. /\ task'[t].st # "ci_waiting" /\ task'[t].st \notin {"review_queued", "admission_waiting"}
        /\ task'[t].st = "review_running" => task[t].st = "review_queued"
    BY <2>1, KindNames DEF RunningState, QueuedState, Kinds, Workers, Reviewers
  <2> QED
    BY <1>0, <2>1, <2>3, <2>4, KindNames DEF Course, Unrepaired, UnderRepair
<1> QED
  BY <1>1, <1>2, <1>3, <1>4, <1>5, <1>6, <1>7, <1>8, <1>9 DEF Transaction, OnCourse
-----------------------------------------------------------------------------
(* What a step does to the world beside the store.                         *)

\* A step that makes a transaction leaves the runs, the reviewers and the
\* heads alone.
LEMMA StoreOrWorld ==
    ASSUME Inv, Next
    PROVE  UNCHANGED store \/ UNCHANGED <<run, handle, rproc, pr>>
<1> USE DEF world, reviews, store
<1>1. CASE DrainSteps \/ DrainRefuses \/ DrainUnmarked \/ DrainCancelled
  BY <1>1 DEF DrainSteps, DrainStart, DrainEnds, DrainClaims, DrainReads, DrainLooks, DrainBinds, DrainTriggers,
              DrainReviews, DrainRefuses, DrainCancelled, DrainCreates, DrainMarks, DrainUnmarked
<1>2. ASSUME NEW t \in Tasks, TriggerSteps(t) \/ AuthorizeRejects(t) \/ AuthorizeDrifts(t) \/ ReviewerUnlaunched(t)
      PROVE  UNCHANGED store \/ UNCHANGED <<run, handle, rproc, pr>>
  BY <1>2 DEF TriggerSteps, AuthorizeQueues, AuthorizeAnswers, InsertRun, SpawnReviewer, FailRun,
              MarkAction, MarkTask, NameReviewer, AuthorizeRejects, AuthorizeDrifts, ReviewerUnlaunched
<1>3. ASSUME NEW t \in Tasks,
             \/ HandlerSteps(t) \/ ProcessSteps(t) \/ ExitUnreported(t) \/ ReviewerUnreported(t)
             \/ Submit(t) \/ Provision(t) \/ Nudge(t) \/ Reap(t)
      PROVE  UNCHANGED store \/ UNCHANGED <<run, handle, rproc, pr>>
  BY <1>3 DEF HandlerSteps, ProcessSteps, ExitUnreported, ReviewerUnreported, Submit, Provision, Nudge,
              Reap, ExitReported, ExitReads, ExitBinds, ExitFinishes, ResultHandled, FailureHandled, WorkerExits,
              ReviewerFails, ReviewerSubmits
<1>4. CASE BootSteps \/ Crash
  <2>1. CASE \E t \in Tasks : BootReview(t)
    BY <2>1 DEF BootReview
  <2>2. CASE ~\E t \in Tasks : BootReview(t)
    BY <1>4, <2>2 DEF BootSteps, Crash, BootRuntime, BootReviewed, BootDrains, BootProvisions,
                BootPasses, BootAborts, BootReviewer, BootWorker, BootUninspected, BootUnnamed,
                BootRunning, BootTask
  <2> QED
    BY <2>1, <2>2
<1> QED
  BY <1>1, <1>2, <1>3, <1>4 DEF Next, Failures

\* A head is pushed by the worker that lives.
Pushed(t) ==
    \/ pr'[t] = pr[t]
    \/ proc[t] = "worker-1" /\ pr'[t] = 1 /\ exit[t].at = "none"
    \/ proc[t] = "worker-2" /\ pr'[t] = 2 /\ exit[t].at = "none"

\* A run opens once, and is closed by its result, its reviewer, the startup, or
\* the trigger that could not launch it.
RunMoved(t, h) ==
    \/ run'[t][h] = run[t][h]
    \/ /\ run[t][h] = "running" /\ run'[t][h] \in {"approved", "changes", "failed"}
       /\ rproc[t] = h \/ trig[t].at = "idle"
    \/ InsertRun(t) /\ h = pr[t] /\ run'[t][h] = "running"
    \/ FailRun(t) /\ h = pr[t] /\ run'[t][h] = "failed"

\* Only a worker that ends moves the head of its PR.
LEMMA HeadsPushed ==
    ASSUME Inv, Next, NEW t \in Tasks
    PROVE  Pushed(t)
<1>0. WorldType
  BY TypeParts DEF Inv
<1>1. CASE pr' = pr
  BY <1>1 DEF Pushed
<1>2. CASE pr' # pr
  <2>1. PICK u \in Tasks : WorkerExits(u)
    <3>1. CASE DrainSteps \/ DrainRefuses \/ DrainUnmarked \/ DrainCancelled
      BY <1>2, <3>1, DrainWorld
    <3>2. ASSUME NEW u \in Tasks, TriggerSteps(u) \/ AuthorizeRejects(u) \/ AuthorizeDrifts(u) \/ ReviewerUnlaunched(u)
          PROVE  pr' = pr
      BY <3>2 DEF TriggerSteps, AuthorizeQueues, AuthorizeAnswers, InsertRun, SpawnReviewer, FailRun,
                  MarkAction, MarkTask, NameReviewer, AuthorizeRejects, AuthorizeDrifts, ReviewerUnlaunched, world
    <3>3. ASSUME NEW u \in Tasks,
                 \/ HandlerSteps(u) \/ ProcessSteps(u) \/ ExitUnreported(u) \/ ReviewerUnreported(u)
                 \/ Submit(u) \/ Provision(u) \/ Nudge(u) \/ Reap(u)
          PROVE  pr' = pr \/ WorkerExits(u)
      BY <3>3 DEF HandlerSteps, ProcessSteps, ExitUnreported, ReviewerUnreported, Submit, Provision, Nudge,
                  Reap, ExitReported, ExitReads, ExitBinds, ExitFinishes, ResultHandled, FailureHandled,
                  ReviewerFails, ReviewerSubmits, world
    <3>4. CASE BootSteps \/ Crash
      BY <1>2, <3>4, BootWorld
    <3> QED
      BY <1>2, <3>1, <3>2, <3>3, <3>4 DEF Next, Failures
  <2>2. PICK ok \in BOOLEAN, head \in Heads \cup {0} :
          /\ IF ok THEN head >= 1 /\ head \in {pr[u], IF proc[u] = "worker-1" THEN 1 ELSE 2}
             ELSE head = pr[u]
          /\ pr' = [pr EXCEPT ![u] = head]
    BY <2>1 DEF WorkerExits
  <2>3. proc[u] \in {"worker-1", "worker-2"} /\ exit[u].at = "none"
    BY <1>0, <2>1 DEF WorkerExits, WorldType, Workers
  <2>4. /\ pr'[u] = head /\ \A v \in Tasks \ {u} : pr'[v] = pr[v]
    BY <1>0, <2>2 DEF WorldType
  <2> QED
    BY <2>2, <2>3, <2>4 DEF Pushed
<1> QED
  BY <1>1, <1>2

\* How a run moves.
LEMMA RunsMoved ==
    ASSUME Inv, Next, NEW t \in Tasks, NEW h \in Heads
    PROVE  RunMoved(t, h)
<1>0. WorldType
  BY TypeParts DEF Inv
<1>1. CASE run' = run
  BY <1>1 DEF RunMoved
<1>2. ASSUME NEW u \in Tasks, NEW g \in Heads, NEW st, run' = [run EXCEPT ![u][g] = st],
             \/ run[u][g] = "running" /\ st \in {"approved", "changes", "failed"} /\ rproc[u] = g
             \/ InsertRun(u) /\ g = pr[u] /\ st = "running"
             \/ FailRun(u) /\ g = pr[u] /\ st = "failed"
      PROVE  RunMoved(t, h)
  <2>1. run'[u][g] = st /\ \A v \in Tasks, i \in Heads : v # u \/ i # g => run'[v][i] = run[v][i]
    BY <1>0, <1>2 DEF WorldType
  <2> QED
    BY <1>2, <2>1 DEF RunMoved
<1>3. CASE DrainSteps \/ DrainRefuses \/ DrainUnmarked \/ DrainCancelled
  <2>1. run' = run
    BY <1>3 DEF DrainSteps, DrainStart, DrainEnds, DrainClaims, DrainReads, DrainLooks, DrainBinds, DrainTriggers,
                DrainReviews, DrainRefuses, DrainCancelled, DrainCreates, DrainMarks, DrainUnmarked, reviews
  <2> QED
    BY <1>1, <2>1
<1>4. ASSUME NEW u \in Tasks, TriggerSteps(u) \/ AuthorizeRejects(u) \/ AuthorizeDrifts(u) \/ ReviewerUnlaunched(u)
      PROVE  RunMoved(t, h)
  <2>1. CASE InsertRun(u) \/ FailRun(u)
    <3>1. trig[u].at # "idle"
      BY <2>1 DEF InsertRun, FailRun
    <3>2. pr[u] \in Heads
      BY <3>1 DEF Inv, Triggered
    <3> QED
      BY <1>2, <2>1, <3>2 DEF InsertRun, FailRun
  <2>2. CASE ~(InsertRun(u) \/ FailRun(u))
    BY <1>1, <1>4, <2>2 DEF TriggerSteps, AuthorizeQueues, AuthorizeAnswers, SpawnReviewer,
                MarkAction, MarkTask, NameReviewer, AuthorizeRejects, AuthorizeDrifts, ReviewerUnlaunched, reviews
  <2> QED
    BY <2>1, <2>2
<1>5. ASSUME NEW u \in Tasks,
             \/ HandlerSteps(u) \/ ProcessSteps(u) \/ ExitUnreported(u) \/ ReviewerUnreported(u)
             \/ Submit(u) \/ Provision(u) \/ Nudge(u) \/ Reap(u)
      PROVE  RunMoved(t, h)
  <2>1. CASE ReviewerFails(u) \/ \E verdict \in {"approved", "changes"} : ReviewerSubmits(u, verdict)
    <3>1. rproc[u] \in Heads
      BY <1>0, <2>1, HeadFacts DEF ReviewerFails, ReviewerSubmits
    <3> QED
      BY <1>1, <1>2, <2>1, <3>1 DEF ReviewerFails, ReviewerSubmits
  <2>2. CASE ~(ReviewerFails(u) \/ \E verdict \in {"approved", "changes"} : ReviewerSubmits(u, verdict))
    BY <1>1, <1>5, <2>2 DEF HandlerSteps, ProcessSteps, ExitUnreported, ReviewerUnreported, Submit, Provision, Nudge,
                  Reap, ExitReported, ExitReads, ExitBinds, ExitFinishes, ResultHandled, FailureHandled, WorkerExits, reviews
  <2> QED
    BY <2>1, <2>2
<1>6. CASE BootSteps \/ Crash
  <2>1. ASSUME NEW u \in Tasks, BootReview(u) PROVE RunMoved(t, h)
    <3>1. \A i \in Heads : run'[u][i] = run[u][i] \/ (run[u][i] = "running" /\ run'[u][i] = "failed")
      <4> DEFINE gone == {i \in Heads : run[u][i] = "running" /\ ~(handle[u] /\ rproc[u] = i)}
      <4>1. run' = [run EXCEPT ![u] = [i \in Heads |-> IF i \in gone THEN "failed" ELSE run[u][i]]]
        BY <1>0, <2>1 DEF BootReview, WorldType
      <4>2. \A i \in Heads : run'[u][i] = IF i \in gone THEN "failed" ELSE run[u][i]
        BY <1>0, <4>1 DEF WorldType
      <4> QED
        BY <4>2
    <3>2. \A v \in Tasks \ {u} : run'[v] = run[v]
      BY <1>0, <2>1 DEF BootReview, WorldType
    <3>3. trig[u].at = "idle"
      BY <2>1 DEF BootReview
    <3> QED
      BY <3>1, <3>2, <3>3 DEF RunMoved
  <2>2. CASE ~\E u \in Tasks : BootReview(u)
    BY <1>1, <1>6, <2>2 DEF BootSteps, Crash, BootRuntime, BootReviewed, BootDrains, BootProvisions, BootPasses,
                BootAborts, BootReviewer, BootWorker, BootUninspected, BootUnnamed, BootRunning, BootTask, reviews
  <2> QED
    BY <2>1, <2>2
<1> QED
  BY <1>3, <1>4, <1>5, <1>6 DEF Next, Failures
-----------------------------------------------------------------------------
(* The workers.                                                            *)

\* A worker lives as long as its action is active.  Before its launch is
\* recorded the action is only claimed; after its exit was reported the
\* handler finds the action as it was.
AliveTask(t) ==
    /\ proc[t] # "" => Active(t, proc[t])
    /\ proc[t] # "" /\ row[t].launch = "" => act[t][proc[t]].st = "claimed"
    /\ row[t].launch = "" => row[t].act = "idle"
    /\ exit[t].at = "report" => proc[t] # ""
    /\ exit[t].at \in {"read", "bind", "finish", "overtaken"} =>
         proc[t] = "" /\ boot = "up" /\ \E k \in Workers : Active(t, k)
Alive == \A t \in Tasks : AliveTask(t)

\* What the drain relies on between two steps of a launch.
Launched ==
    /\ drain.at = "validate" =>
         /\ proc[drain.t] = "" /\ exit[drain.t].at = "none"
         /\ act[drain.t][drain.k].st = "claimed" \/ row[drain.t].launch # ""
    /\ drain.at = "mark" =>
         /\ proc[drain.t] \in {"", drain.k} /\ exit[drain.t].at \in {"none", "report"}
         /\ act[drain.t][drain.k].st = "claimed" /\ row[drain.t].launch = ""
    /\ drain.at \in {"read", "look", "bind"} => row[drain.t].launch = drain.k \/ proc[drain.t] = ""
    /\ drain.at \in {"trigger", "wait", "triggered"} => drain.k \in Reviewers

\* No worker's action that is active changes.
WorkersKept == \A u \in Tasks, k \in Workers : Active(u, k) => act'[u][k] = act[u][k]

\* Of the actions of a task at most one is queued or active.
LEMMA SoleOwner ==
    ASSUME Store, NEW t \in Tasks, NEW j \in Owned(t), NEW k \in Owned(t)
    PROVE  j = k
BY DEF Store, PhaseOwnsAction, Consistent

\* The kinds of workers and reviewers.
LEMMA WorkerKinds ==
    /\ "" \notin Workers /\ Workers \subseteq Kinds /\ Reviewers \subseteq Kinds
    /\ Workers \cap Reviewers = {} /\ "worker-1" \in Workers /\ "worker-2" \in Workers
    /\ \A h \in Heads : Reviewer[h] \in Reviewers /\ Reviewer[h] \in Kinds
BY DEF Workers, Reviewers, Kinds, Heads, Reviewer

\* Where one action is set, the others stay.
LEMMA ActsKept ==
    ASSUME Store, NEW t \in Tasks, NEW k \in Kinds, NEW st, NEW slot, SetAct(t, k, st, slot)
    PROVE  /\ act'[t][k].st = st
           /\ \A u \in Tasks, j \in Kinds : u # t \/ j # k => act'[u][j] = act[u][j]
BY DEF Store, StoreType, SetAct

\* Transactions that concern no worker that is active.
LEMMA KeepsWorkers ==
    ASSUME Store, NEW t \in Tasks,
           \/ UNCHANGED store
           \/ Submitted(t) \/ Provisioned(t) \/ ReviewQueued(t) \/ Incident(t)
           \/ \E h \in Heads : Concluded(t, h) \/ RunBound(t, h)
           \/ \E k \in Reviewers :
                Started(t, k) \/ \E st, state : Ended(t, k, st, state)
           \/ \E k \in Kinds, s \in Slots : Claimed(t, k, s)
    PROVE  WorkersKept
<1> USE WorkerKinds
<1>1. CASE UNCHANGED act
  BY <1>1 DEF WorkersKept
<1>2. ASSUME NEW k \in Kinds, NEW st, NEW slot, SetAct(t, k, st, slot), ~(k \in Workers /\ Active(t, k))
      PROVE  WorkersKept
  <2> SUFFICES ASSUME NEW u \in Tasks, NEW j \in Workers, Active(u, j) PROVE act'[u][j] = act[u][j]
    BY DEF WorkersKept
  <2>1. j \in Kinds /\ (u # t \/ j # k)
    BY <1>2
  <2>2. act' = [act EXCEPT ![t][k] = [st |-> st, slot |-> slot]]
    BY <1>2 DEF SetAct
  <2>3. act \in [Tasks -> [Kinds -> ActRows]]
    BY DEF Store, StoreType
  <2> HIDE WorkerKinds
  <2> QED
    BY <2>1, <2>2, <2>3
<1>3. CASE UNCHANGED store \/ Provisioned(t) \/ Incident(t)
  BY <1>1, <1>3 DEF store, Provisioned, Incident
<1>4. CASE Submitted(t)
  <2>1. ~Active(t, "worker-1")
    BY <1>4, KindNames DEF Submitted, Store, Fresh, Active
  <2> QED
    BY <1>2, <1>4, <2>1 DEF Submitted, Enqueue
<1>5. CASE ReviewQueued(t)
  BY <1>2, <1>5 DEF ReviewQueued, Enqueue
<1>6. ASSUME NEW h \in Heads, Concluded(t, h) PROVE WorkersKept
  <2>1. \A j \in Kinds : j \notin {Reviewer[h], "worker-2"} => act'[t][j] = act[t][j]
    BY <1>6 DEF Concluded, Conclude, Store, StoreType
  <2>2. ~Active(t, "worker-2")
    <3>1. Reviewer[h] \in Owned(t) /\ (Active(t, "worker-2") => "worker-2" \in Owned(t))
      BY <1>6 DEF Concluded, Owned, Active
    <3> QED
      BY <3>1, SoleOwner
  <2>3. \A u \in Tasks \ {t} : act'[u] = act[u]
    BY <1>6 DEF Concluded, Conclude, Store, StoreType
  <2> QED
    BY <2>1, <2>2, <2>3 DEF WorkersKept
<1>7. ASSUME NEW h \in Heads, RunBound(t, h) PROVE WorkersKept
  BY <1>1, <1>2, <1>7 DEF RunBound, Start
<1>8. ASSUME NEW k \in Reviewers, Started(t, k) PROVE WorkersKept
  BY <1>2, <1>8 DEF Started, Start
<1>9. ASSUME NEW k \in Reviewers, NEW st, NEW state, Ended(t, k, st, state) PROVE WorkersKept
  BY <1>2, <1>9 DEF Ended, Finish
<1>10. ASSUME NEW k \in Kinds, NEW s \in Slots, Claimed(t, k, s) PROVE WorkersKept
  BY <1>2, <1>10 DEF Claimed, Claimable, Active
<1> QED
  BY <1>3, <1>4, <1>5, <1>6, <1>7, <1>8, <1>9, <1>10

\* A task whose workers are left alone, or bound after their launch, stays as it was.
LEMMA AliveKept ==
    ASSUME NEW t \in Tasks, AliveTask(t), WorldType, row'[t] = row[t], proc'[t] = proc[t],
           exit'[t] = exit[t] \/ exit'[t].at = "none",
           boot' = boot \/ boot # "up" \/ exit'[t].at \notin {"read", "bind", "finish", "overtaken"},
           \A k \in Workers : Active(t, k) =>
             \/ act'[t][k] = act[t][k]
             \/ act'[t][k].st = "running" /\ (proc[t] = "" \/ row[t].launch # "")
    PROVE  AliveTask(t)'
<1>1. proc[t] \in Workers \cup {""}
  BY DEF WorldType
<1>2. \A k \in Workers : Active(t, k) => Active(t, k)'
  BY DEF Active
<1> QED
  BY <1>1, <1>2 DEF AliveTask

\* A step that leaves the workers and their rows alone.
LEMMA AliveStays ==
    ASSUME Inv, Alive, UNCHANGED <<row, proc, exit>>, WorkersKept, boot' = boot \/ boot # "up"
    PROVE  Alive'
<1>0. WorldType
  BY TypeParts DEF Inv
<1> SUFFICES ASSUME NEW t \in Tasks PROVE AliveTask(t)'
  BY DEF Alive
<1>1. \A k \in Workers : Active(t, k) => act'[t][k] = act[t][k]
  BY DEF WorkersKept
<1>2. AliveTask(t)
  BY DEF Alive
<1>3. boot' = boot \/ exit'[t].at \notin {"read", "bind", "finish", "overtaken"}
  BY <1>2 DEF AliveTask
<1> QED
  BY <1>0, <1>1, <1>2, <1>3, AliveKept

\* How the drain moves where it changes nothing.
DrainKept ==
    \/ drain' = drain
    \/ drain'.at \in {"idle", "claim"}
    \/ drain.at \in {"read", "look"} /\ drain'.at \in {"look", "bind"} /\ drain'.t = drain.t /\ drain'.k = drain.k
    \/ drain.at \in {"trigger", "wait"} /\ drain'.at \in {"wait", "triggered"} /\ drain'.k = drain.k

\* A step that leaves the workers, their rows and the launch of the drain alone.
LEMMA WorkforceKept ==
    ASSUME Inv, Alive, Launched, UNCHANGED <<row, proc, exit>>, WorkersKept,
           boot' = boot \/ boot # "up", DrainKept
    PROVE  Alive' /\ Launched'
<1>0. WorldType /\ HandlersType
  BY TypeParts DEF Inv
<1>1. Alive'
  BY AliveStays
<1>2. Launched'
  <2>1. drain.at \in {"validate", "mark"} /\ act[drain.t][drain.k].st = "claimed"
          => act'[drain.t][drain.k].st = "claimed"
    BY DEF Inv, Draining, WorkersKept, Active
  <2>2. CASE drain' = drain
    BY <2>1, <2>2 DEF Launched
  <2>3. CASE drain'.at \in {"idle", "claim"}
    BY <2>3 DEF Launched
  <2>4. CASE drain.at \in {"read", "look"} /\ drain'.at \in {"look", "bind"} /\ drain'.t = drain.t /\ drain'.k = drain.k
    BY <2>4 DEF Launched
  <2>5. CASE drain.at \in {"trigger", "wait"} /\ drain'.at \in {"wait", "triggered"} /\ drain'.k = drain.k
    BY <2>5 DEF Launched
  <2> QED
    BY <2>2, <2>3, <2>4, <2>5 DEF DrainKept
<1> QED
  BY <1>1, <1>2
\* The rest of the tasks where a step concerns one.
OthersStay(t) ==
    \A u \in Tasks \ {t} :
      row'[u] = row[u] /\ proc'[u] = proc[u] /\ exit'[u] = exit[u] /\ act'[u] = act[u]

\* The workers of the other tasks.
LEMMA OthersAlive ==
    ASSUME Inv, Alive, NEW t \in Tasks, OthersStay(t), boot' = boot \/ boot # "up", AliveTask(t)'
    PROVE  Alive'
<1>0. WorldType
  BY TypeParts DEF Inv
<1> SUFFICES ASSUME NEW u \in Tasks, u # t PROVE AliveTask(u)'
  BY DEF Alive
<1>1. AliveTask(u)
  BY DEF Alive
<1>2. row'[u] = row[u] /\ proc'[u] = proc[u] /\ exit'[u] = exit[u] /\ act'[u] = act[u]
  BY DEF OthersStay
<1>3. boot' = boot \/ exit'[u].at \notin {"read", "bind", "finish", "overtaken"}
  BY <1>1, <1>2 DEF AliveTask
<1> QED
  BY <1>0, <1>1, <1>2, <1>3, AliveKept

\* The launch of the drain, where a step concerns another task.
LEMMA OthersLaunched ==
    ASSUME Inv, Launched, NEW t \in Tasks, OthersStay(t), drain' = drain,
           drain.t # t \/ drain.at \notin {"validate", "mark", "read", "look", "bind"}
    PROVE  Launched'
<1>1. drain.at \in {"validate", "mark", "read", "look", "bind"} => drain.t \in Tasks \ {t}
  BY DEF Inv, Draining
<1>2. CASE drain.at \in {"validate", "mark", "read", "look", "bind"}
  <2>1. /\ row'[drain.t] = row[drain.t] /\ proc'[drain.t] = proc[drain.t]
        /\ exit'[drain.t] = exit[drain.t] /\ act'[drain.t] = act[drain.t]
    BY <1>1, <1>2 DEF OthersStay
  <2> QED
    BY <1>2, <2>1 DEF Launched
<1>3. CASE drain.at \notin {"validate", "mark", "read", "look", "bind"}
  BY <1>3 DEF Launched
<1> QED
  BY <1>2, <1>3

\* Without a process and a report of its exit a task has nothing to lose.
LEMMA Vacant ==
    ASSUME NEW t \in Tasks, AliveTask(t), proc'[t] = "", exit'[t].at = "none",
           row'[t].launch = "" => row'[t] = row[t] \/ row'[t].act = "idle"
    PROVE  AliveTask(t)'
BY DEF AliveTask

\* A task whose action is queued, or which a reviewer works on, has no worker.
LEMMA NoWorker ==
    ASSUME Inv, Alive, NEW t \in Tasks, NEW k \in Owned(t), act[t][k].st = "queued" \/ k \in Reviewers
    PROVE  proc[t] = "" /\ exit[t].at = "none"
<1>0. WorldType /\ HandlersType /\ AliveTask(t)
  BY TypeParts DEF Inv, Alive
<1>1. ASSUME NEW j \in Workers, Active(t, j) PROVE FALSE
  <2>1. j \in Owned(t)
    BY <1>1, WorkerKinds DEF Owned, Active
  <2>2. j = k
    BY <2>1, SoleOwner DEF Inv
  <2> QED
    BY <1>1, <2>2, WorkerKinds DEF Active
<1>2. proc[t] = ""
  BY <1>0, <1>1 DEF AliveTask, WorldType
<1>3. exit[t].at \in {"none", "report", "read", "bind", "finish", "overtaken"}
  BY <1>0 DEF HandlersType, Exits
<1> QED
  BY <1>0, <1>1, <1>2, <1>3 DEF AliveTask

\* The claim of a worker's action finds no process of the task.
LEMMA ClaimsAlive ==
    ASSUME Inv, Alive, Launched, DrainClaims
    PROVE  Alive' /\ Launched'
<1>1. PICK t \in Tasks, k \in Kinds, s \in Slots :
        /\ Head(queue) = <<t, k>> /\ LowestFree(s)
        /\ SetAct(t, k, "claimed", s)
        /\ drain' = [drain EXCEPT !.at = IF k \in Workers THEN "validate" ELSE "trigger",
                                  !.t = t, !.k = k, !.snap = task'[t]]
        /\ task' = [task EXCEPT ![t].st = RunningState[k]]
        /\ queue' = Tail(queue)
  BY DEF DrainClaims
<1>2. Claimable(t, k) /\ Claimed(t, k, s)
  <2>1. Claimable(t, k) /\ queue # <<>> /\ s \in FreeSlots
    BY <1>1 DEF DrainClaims, HeadClaimable, LowestFree
  <2> QED
    BY <1>1, <2>1 DEF Claimed, DrainClaims
<1>3. UNCHANGED <<row, proc, exit, boot>>
  BY DEF DrainClaims, world
<1>4. WorkersKept
  BY <1>2, KeepsWorkers DEF Inv
<1>5. Alive'
  BY <1>3, <1>4, AliveStays
<1>6. act'[t][k].st = "claimed"
  BY <1>1, ActsKept DEF Inv
<1>7. proc[t] = "" /\ exit[t].at = "none"
  BY <1>2, NoWorker DEF Claimable, Owned
<1>8. /\ drain'.at = IF k \in Workers THEN "validate" ELSE "trigger"
      /\ drain'.t = t /\ drain'.k = k
  BY <1>1 DEF Inv, TypeOK, Drains
<1>9. k \in Workers \cup Reviewers
  BY DEF Kinds
<1> QED
  BY <1>3, <1>5, <1>6, <1>7, <1>8, <1>9 DEF Launched

\* The drain gives up an action whose worker, if there is one, is destroyed.
LEMMA FailClaimedAlive ==
    ASSUME Inv, Alive, FailClaimed, drain.at \in {"validate", "mark"}, UNCHANGED <<row, boot>>,
           \A u \in Tasks \ {drain.t} : proc'[u] = proc[u] /\ exit'[u] = exit[u],
           proc'[drain.t] = "", exit'[drain.t].at = "none"
    PROVE  Alive' /\ Launched'
<1>1. PICK t \in Tasks, k \in Kinds : t = drain.t /\ k = drain.k
  BY DEF Inv, TypeOK, Draining, Drains
<1>2. OthersStay(t)
  <2>1. \A u \in Tasks \ {t} : act'[u] = act[u]
    BY <1>1 DEF FailClaimed, Finish, SetAct, store, Inv, Store, StoreType
  <2> QED
    BY <1>1, <2>1 DEF OthersStay
<1>3. AliveTask(t)'
  BY <1>1, Vacant DEF Alive
<1>4. drain'.at \in {"idle", "claim"}
  <2>1. drain' = Claiming \/ drain' = NoDrain
    BY DEF FailClaimed
  <2> QED
    BY <2>1, RowFacts
<1>5. Alive'
  BY <1>2, <1>3, OthersAlive
<1> QED
  BY <1>4, <1>5 DEF Launched

\* A refused launch has no process.
LEMMA RefusesAlive ==
    ASSUME Inv, Alive, Launched, DrainRefuses
    PROVE  Alive' /\ Launched'
<1>1. UNCHANGED <<row, proc, exit, boot>> /\ drain.at = "validate" /\ FailClaimed
  BY DEF DrainRefuses, world
<1>2. proc[drain.t] = "" /\ exit[drain.t].at = "none"
  BY <1>1 DEF Launched
<1> QED
  BY <1>1, <1>2, FailClaimedAlive

\* The process of a launch that could not be recorded is destroyed.
LEMMA UnmarkedAlive ==
    ASSUME Inv, Alive, Launched, DrainUnmarked
    PROVE  Alive' /\ Launched'
<1>0. WorldType /\ HandlersType
  BY TypeParts DEF Inv
<1>1. /\ UNCHANGED <<row, boot>> /\ drain.at = "mark" /\ FailClaimed
      /\ proc' = [proc EXCEPT ![drain.t] = ""] /\ exit' = [exit EXCEPT ![drain.t] = NoExit]
  BY DEF DrainUnmarked
<1>2. drain.t \in Tasks
  BY <1>1 DEF Inv, Draining
<1>3. proc'[drain.t] = "" /\ exit'[drain.t].at = "none"
  BY <1>0, <1>1, <1>2 DEF WorldType, HandlersType, NoExit
<1>4. \A u \in Tasks \ {drain.t} : proc'[u] = proc[u] /\ exit'[u] = exit[u]
  BY <1>0, <1>1 DEF WorldType, HandlersType
<1> QED
  BY <1>1, <1>3, <1>4, FailClaimedAlive

\* The process of a launch is created for the claimed action.
LEMMA CreatesAlive ==
    ASSUME Inv, Alive, Launched, DrainCreates
    PROVE  Alive' /\ Launched'
<1>own. PICK t, k : t = drain.t /\ k = drain.k
  OBVIOUS
<1>0. WorldType /\ HandlersType
  BY TypeParts DEF Inv
<1>1. /\ UNCHANGED <<row, exit, act, boot>> /\ drain.at = "validate"
      /\ row[t].act = "idle" /\ row[t].launch = ""
      /\ proc' = [proc EXCEPT ![t] = k] /\ drain' = [drain EXCEPT !.at = "mark"]
  BY <1>own DEF DrainCreates, LaunchReady, store
<1>2. t \in Tasks /\ k \in Workers
  BY <1>own, <1>1 DEF Inv, Draining
<1>3. proc'[t] = k /\ \A u \in Tasks \ {t} : proc'[u] = proc[u]
  BY <1>own, <1>0, <1>1, <1>2 DEF WorldType
<1>4. drain'.at = "mark" /\ drain'.t = t /\ drain'.k = k
  BY <1>own, <1>0, <1>1 DEF HandlersType, Drains
<1>5. act[t][k].st = "claimed" /\ exit[t].at = "none"
  BY <1>own, <1>1 DEF Launched
<1>6. AliveTask(t)'
  BY <1>own, <1>1, <1>2, <1>3, <1>5 DEF AliveTask, Active
<1>7. OthersStay(t)
  BY <1>own, <1>1, <1>3 DEF OthersStay
<1> QED
  BY <1>own, <1>1, <1>2, <1>3, <1>4, <1>5, <1>6, <1>7, OthersAlive DEF Launched

\* The launch is recorded while the action is claimed.
LEMMA MarksAlive ==
    ASSUME Inv, Alive, Launched, DrainMarks
    PROVE  Alive' /\ Launched'
<1>own. PICK t, k : t = drain.t /\ k = drain.k
  OBVIOUS
<1>0. WorldType /\ HandlersType
  BY TypeParts DEF Inv
<1>1. /\ UNCHANGED <<exit, act, boot, proc>> /\ drain.at = "mark"
      /\ row' = [row EXCEPT ![t] = [launch |-> k, act |-> "idle"]] /\ drain' = [drain EXCEPT !.at = "read"]
  BY <1>own DEF DrainMarks, store, world
<1>2. t \in Tasks /\ k \in Workers /\ k # ""
  BY <1>own, <1>1, WorkerKinds DEF Inv, Draining
<1>3. row'[t].launch = k /\ \A u \in Tasks \ {t} : row'[u] = row[u]
  BY <1>own, <1>0, <1>1, <1>2 DEF WorldType
<1>4. drain'.at = "read" /\ drain'.t = t /\ drain'.k = k
  BY <1>own, <1>0, <1>1 DEF HandlersType, Drains
<1>5. AliveTask(t)'
  <2>1. AliveTask(t)
    BY <1>2 DEF Alive
  <2>2. \A j \in Kinds : Active(t, j)' <=> Active(t, j)
    BY <1>own, <1>1 DEF Active
  <2>3. proc[t] \in Workers \cup {""}
    BY <1>0, <1>2 DEF WorldType
  <2> QED
    BY <1>own, <1>1, <1>2, <1>3, <2>1, <2>2, <2>3, WorkerKinds DEF AliveTask
<1>6. OthersStay(t)
  BY <1>own, <1>1, <1>3 DEF OthersStay
<1> QED
  BY <1>own, <1>1, <1>2, <1>3, <1>4, <1>5, <1>6, OthersAlive DEF Launched

\* The launch is bound once it is recorded, or its process is gone.
LEMMA BindsAlive ==
    ASSUME Inv, Alive, Launched, DrainBinds
    PROVE  Alive' /\ Launched'
<1>own. PICK t, k : t = drain.t /\ k = drain.k
  OBVIOUS
<1>0. WorldType
  BY TypeParts DEF Inv
<1>1. /\ UNCHANGED <<row, proc, exit, boot>> /\ drain.at = "bind"
      /\ IF act[t][k].st = "claimed" THEN Start(t, k) ELSE UNCHANGED act
  BY <1>own DEF DrainBinds, world
<1>2. t \in Tasks /\ k \in Workers /\ k # "" /\ k \in Kinds
  BY <1>own, <1>1, WorkerKinds DEF Inv, Draining
<1>3. proc[t] = "" \/ row[t].launch # ""
  BY <1>own, <1>1, <1>2 DEF Launched
<1>4. /\ \A u \in Tasks \ {t} : act'[u] = act[u]
      /\ \A j \in Kinds : act'[t][j] = act[t][j] \/ act'[t][j].st = "running"
  <2>1. CASE UNCHANGED act
    BY <2>1
  <2>2. CASE act' = [act EXCEPT ![t][k] = [st |-> "running", slot |-> act[t][k].slot]]
    BY <1>2, <2>2 DEF Inv, Store, StoreType
  <2> QED
    BY <1>own, <1>1, <2>1, <2>2 DEF Start, SetAct
<1>5. AliveTask(t)'
  <2>1. \A j \in Workers : Active(t, j) =>
          \/ act'[t][j] = act[t][j]
          \/ act'[t][j].st = "running" /\ (proc[t] = "" \/ row[t].launch # "")
    BY <1>3, <1>4, WorkerKinds
  <2>2. AliveTask(t)
    BY <1>2 DEF Alive
  <2>3. row'[t] = row[t] /\ proc'[t] = proc[t] /\ exit'[t] = exit[t] /\ boot' = boot
    BY <1>1
  <2> QED
    BY <1>0, <1>2, <2>1, <2>2, <2>3, AliveKept
<1>6. OthersStay(t)
  BY <1>own, <1>1, <1>4 DEF OthersStay
<1>7. drain'.at \in {"idle", "claim"}
  BY <1>own DEF DrainBinds, Claiming, NoDrain
<1> QED
  BY <1>own, <1>1, <1>2, <1>5, <1>6, <1>7, OthersAlive DEF Launched

\* An active action that is started, or left alone, stays active.
LEMMA StaysActive ==
    ASSUME Store, NEW t \in Tasks, NEW k \in Kinds, Active(t, k), UNCHANGED act \/ Start(t, k)
    PROVE  Active(t, k)' /\ (act'[t][k] = act[t][k] \/ act'[t][k].st = "running")
<1>1. CASE UNCHANGED act
  BY <1>1 DEF Active
<1>2. CASE Start(t, k)
  <2>1. act'[t][k].st = "running"
    BY <1>2, OneAct DEF Start
  <2> QED
    BY <2>1 DEF Active
<1> QED
  BY <1>1, <1>2

\* A worker that ends is not one the drain is about to launch.
LEMMA ExitsAlive ==
    ASSUME Inv, Alive, Launched, NEW t \in Tasks, WorkerExits(t)
    PROVE  Alive' /\ Launched'
<1>0. WorldType /\ HandlersType
  BY TypeParts DEF Inv
<1>1. PICK ok \in BOOLEAN : exit' = [exit EXCEPT ![t] = [NoExit EXCEPT !.at = "report", !.ok = ok]]
  BY DEF WorkerExits
<1>2. /\ proc[t] # "" /\ exit[t].at = "none"
      /\ UNCHANGED <<row, act, proc, drain, boot>>
  BY DEF WorkerExits, store
<1>3. exit'[t].at = "report" /\ \A u \in Tasks \ {t} : exit'[u] = exit[u]
  BY <1>0, <1>1 DEF HandlersType, NoExit
<1>4. OthersStay(t)
  BY <1>2, <1>3 DEF OthersStay
<1>5. AliveTask(t)'
  BY <1>2, <1>3 DEF Alive, AliveTask, Active
<1>6. Alive'
  BY <1>2, <1>4, <1>5, OthersAlive
<1>7. CASE drain.t # t
  BY <1>2, <1>4, <1>6, <1>7, OthersLaunched
<1>8. CASE drain.t = t
  BY <1>2, <1>3, <1>6, <1>8 DEF Launched
<1> QED
  BY <1>6, <1>7, <1>8

\* The report of an exit is taken, or refused as another launch's.
LEMMA ReportedAlive ==
    ASSUME Inv, Alive, Launched, NEW t \in Tasks, ExitReported(t)
    PROVE  Alive' /\ Launched'
<1> DEFINE mine == row[t].launch = proc[t]
<1>0. WorldType /\ HandlersType /\ AliveTask(t)
  BY TypeParts DEF Inv, Alive
<1>1. /\ exit[t].at = "report" /\ boot = "up" /\ ~Launching(t)
      /\ row' = IF ~mine THEN row
                ELSE IF exit[t].ok THEN [row EXCEPT ![t] = [launch |-> "", act |-> "idle"]]
                ELSE [row EXCEPT ![t].act = "exited"]
      /\ exit' = [exit EXCEPT ![t] = IF mine THEN [exit[t] EXCEPT !.at = "read"] ELSE NoExit]
      /\ proc' = [proc EXCEPT ![t] = ""]
      /\ UNCHANGED <<act, drain, boot>>
  BY <1>0 DEF ExitReported, store, HandlersType
<1>2. proc[t] # "" /\ proc[t] \in Workers /\ Active(t, proc[t])
  BY <1>0, <1>1 DEF AliveTask, WorldType
<1>3. /\ row'[t] = IF ~mine THEN row[t]
                   ELSE IF exit[t].ok THEN [launch |-> "", act |-> "idle"]
                   ELSE [row[t] EXCEPT !.act = "exited"]
      /\ exit'[t] = IF mine THEN [exit[t] EXCEPT !.at = "read"] ELSE NoExit
      /\ proc'[t] = ""
  BY <1>0, <1>1 DEF HandlersType, WorldType
<1>4. OthersStay(t)
  BY <1>0, <1>1 DEF OthersStay, HandlersType, WorldType
<1>5. exit[t] \in Exits /\ row[t] \in Rows
  BY <1>0 DEF HandlersType, WorldType
<1>6. AliveTask(t)'
  <2>1. mine => row[t].launch # "" /\ exit'[t].at = "read"
    BY <1>2, <1>3, <1>5 DEF Exits
  <2>2. ASSUME ~mine PROVE exit'[t].at = "none"
    <3>1. exit'[t] = NoExit
      BY <1>3, <2>2
    <3> QED
      BY <3>1 DEF NoExit
  <2>3. ASSUME row'[t].launch = "" PROVE row'[t].act = "idle"
    <3>1. CASE row'[t] = row[t]
      BY <1>0, <2>3, <3>1 DEF AliveTask
    <3>2. CASE row'[t] = [launch |-> "", act |-> "idle"]
      <4>1. [launch |-> "", act |-> "idle"].act = "idle"
        OBVIOUS
      <4> QED
        BY <3>2, <4>1, Zenon
    <3>3. CASE mine /\ row'[t] = [row[t] EXCEPT !.act = "exited"]
      BY <1>5, <2>1, <2>3, <3>3 DEF Rows
    <3> QED
      BY <1>3, <3>1, <3>2, <3>3
  <2>4. boot' = "up" /\ \E k \in Workers : Active(t, k)'
    BY <1>1, <1>2 DEF Active
  <2> HIDE DEF mine
  <2> QED
    BY <1>3, <2>1, <2>2, <2>3, <2>4 DEF AliveTask
<1>7. Alive'
  BY <1>1, <1>4, <1>6, OthersAlive
<1>8. Launched'
  <2>1. CASE drain.t # t
    BY <1>1, <1>4, <2>1, OthersLaunched
  <2>2. CASE drain.t = t
    <3>1. drain.at # "validate" /\ drain.at # "mark"
      BY <1>1, <2>2 DEF Launched, Launching
    <3> HIDE DEF mine
    <3> QED
      BY <1>1, <1>3, <2>2, <3>1 DEF Launched
  <2> QED
    BY <2>1, <2>2
<1> QED
  BY <1>7, <1>8

\* A report that nobody takes: the process is gone and its launch still named.
LEMMA UnreportedAlive ==
    ASSUME Inv, Alive, Launched, NEW t \in Tasks, ExitUnreported(t)
    PROVE  Alive' /\ Launched'
<1>0. WorldType /\ HandlersType /\ AliveTask(t)
  BY TypeParts DEF Inv, Alive
<1>1. /\ exit[t].at = "report"
      /\ exit' = [exit EXCEPT ![t] = NoExit] /\ proc' = [proc EXCEPT ![t] = ""]
      /\ UNCHANGED <<row, act, drain, boot>>
  BY DEF ExitUnreported, store
<1>2. exit'[t].at = "none" /\ proc'[t] = ""
  BY <1>0, <1>1 DEF HandlersType, WorldType, NoExit
<1>3. OthersStay(t)
  BY <1>0, <1>1 DEF OthersStay, HandlersType, WorldType
<1>4. AliveTask(t)'
  BY <1>0, <1>1, <1>2, Vacant
<1>5. Alive'
  BY <1>1, <1>3, <1>4, OthersAlive
<1>6. CASE drain.t # t
  BY <1>1, <1>3, <1>5, <1>6, OthersLaunched
<1>7. CASE drain.t = t
  <2>1. drain.at # "validate"
    BY <1>1, <1>7 DEF Launched
  <2> QED
    BY <1>1, <1>2, <1>5, <1>7, <2>1 DEF Launched
<1> QED
  BY <1>6, <1>7

\* A handler that read its exit works on a task without a process, whose
\* launch the drain is done with.
LEMMA HandledAlive ==
    ASSUME Inv, Alive, Launched, NEW t \in Tasks, ExitReads(t) \/ ExitBinds(t) \/ ExitFinishes(t)
    PROVE  Alive' /\ Launched'
<1>0. WorldType /\ HandlersType /\ AliveTask(t)
  BY TypeParts DEF Inv, Alive
<1>1. exit[t].at \in {"read", "bind", "finish"} /\ UNCHANGED <<row, proc, drain, boot>>
  BY DEF ExitReads, ExitBinds, ExitFinishes, world
<1>2. proc[t] = "" /\ boot = "up"
  BY <1>0, <1>1 DEF AliveTask
<1>3. \A u \in Tasks \ {t} : exit'[u] = exit[u]
  BY <1>0 DEF ExitReads, ExitBinds, ExitFinishes, HandlersType
<1>4. \A u \in Tasks \ {t} : act'[u] = act[u]
  <2>1. CASE ExitBinds(t)
    BY <2>1 DEF ExitBinds, Start, SetAct, Inv, Store, StoreType
  <2>2. CASE ExitFinishes(t)
    BY <2>2 DEF ExitFinishes, Finish, SetAct, store, Inv, Store, StoreType
  <2>3. CASE ExitReads(t)
    BY <2>3 DEF ExitReads, store
  <2> QED
    BY <2>1, <2>2, <2>3
<1>5. OthersStay(t)
  BY <1>1, <1>3, <1>4 DEF OthersStay
<1>6. AliveTask(t)'
  <2>1. CASE exit' = [exit EXCEPT ![t] = NoExit]
    <3>1. exit'[t].at = "none"
      BY <1>0, <2>1 DEF HandlersType, NoExit
    <3> QED
      BY <1>0, <1>1, <1>2, <3>1, Vacant
  <2>2. CASE exit' # [exit EXCEPT ![t] = NoExit]
    <3>1. exit'[t].at \in {"bind", "finish", "overtaken"}
      <4>1. \/ \E at \in {"finish", "overtaken"} : exit' = [exit EXCEPT ![t].at = at]
            \/ \E at \in {"bind", "finish"} : exit' = [exit EXCEPT ![t] = [exit[t] EXCEPT !.at = at, !.snap = task[t]]]
        BY <2>2 DEF ExitReads, ExitBinds, ExitFinishes
      <4> QED
        BY <1>0, <4>1 DEF HandlersType, Exits
    <3>2. PICK k \in Workers : Active(t, k)
      BY <1>0, <1>1 DEF AliveTask
    <3>3. UNCHANGED act \/ \E j \in Workers : act[t][j].st = "claimed" /\ Start(t, j)
      BY <2>2 DEF ExitReads, ExitBinds, ExitFinishes, store
    <3>4. Active(t, k)'
      <4>1. CASE UNCHANGED act
        BY <3>2, <4>1 DEF Active
      <4>2. ASSUME NEW j \in Workers, act[t][j].st = "claimed", Start(t, j) PROVE Active(t, k)'
        <5>1. j = k
          BY <3>2, <4>2, SoleOwner, WorkerKinds DEF Inv, Owned, Active
        <5> QED
          BY <3>2, <4>2, <5>1, WorkerKinds, StaysActive DEF Inv
      <4> QED
        BY <3>3, <4>1, <4>2
    <3> QED
      BY <1>0, <1>1, <1>2, <3>1, <3>2, <3>4 DEF AliveTask
  <2> QED
    BY <2>1, <2>2
<1>7. Alive'
  BY <1>1, <1>5, <1>6, OthersAlive
<1>8. CASE drain.t # t
  BY <1>1, <1>5, <1>7, <1>8, OthersLaunched
<1>9. CASE drain.t = t
  <2>1. drain.at # "validate" /\ drain.at # "mark"
    BY <1>1, <1>9 DEF Launched
  <2> QED
    BY <1>1, <1>2, <1>7, <1>9, <2>1 DEF Launched
<1> QED
  BY <1>8, <1>9

\* Rows whose launch has no process are marked as exited.
LEMMA ReapsAlive ==
    ASSUME Inv, Alive, Launched, UNCHANGED <<act, proc, exit, drain>>, boot' = boot \/ boot # "up",
           \A t \in Tasks : row'[t].launch = row[t].launch
                            /\ (row[t].launch = "" => row'[t] = row[t])
    PROVE  Alive' /\ Launched'
<1>0. WorldType
  BY TypeParts DEF Inv
<1>1. ASSUME NEW t \in Tasks PROVE AliveTask(t)'
  BY <1>0 DEF Alive, AliveTask, WorldType, Active
<1>2. drain.at \in {"validate", "mark", "read", "look", "bind"} => row'[drain.t].launch = row[drain.t].launch
  BY DEF Inv, Draining
<1>3. Launched'
  BY <1>2 DEF Launched
<1> QED
  BY <1>1, <1>3 DEF Alive

\* The daemon dies: the handlers with it, but no process.
LEMMA CrashAlive ==
    ASSUME Inv, Alive, Launched, Crash
    PROVE  Alive' /\ Launched'
<1>0. WorldType /\ HandlersType
  BY TypeParts DEF Inv
<1>1. /\ UNCHANGED <<row, act, proc>> /\ drain' = NoDrain
      /\ exit' = [t \in Tasks |-> IF exit[t].at = "report" THEN exit[t] ELSE NoExit]
  BY DEF Crash, store, world
<1>2. ASSUME NEW t \in Tasks PROVE AliveTask(t)'
  <2>1. exit'[t].at = "none" \/ (exit[t].at = "report" /\ exit'[t].at = "report")
    BY <1>1 DEF NoExit
  <2>2. AliveTask(t)
    BY DEF Alive
  <2> QED
    BY <1>0, <1>1, <2>1, <2>2 DEF AliveTask, Active
<1>3. Launched'
  BY <1>1, RowFacts DEF Launched
<1> QED
  BY <1>2, <1>3 DEF Alive

\* The startup looks at a worker that is active: it is bound, or given up once
\* its process is gone.
LEMMA BootWorkerAlive ==
    ASSUME Inv, Alive, Launched, NEW t \in Tasks, BootWorker(t) \/ BootUnnamed(t)
    PROVE  Alive' /\ Launched'
<1>0. WorldType /\ HandlersType /\ AliveTask(t)
  BY TypeParts DEF Inv, Alive
<1>1. /\ UNCHANGED <<row, proc, exit, drain, boot>> /\ boot = "tasks"
      /\ \E k \in Workers : Active(t, k)
  BY DEF BootWorker, BootUnnamed, BootRunning, BootTask, world, Folded
<1>2. PICK k \in Workers : Active(t, k) /\ k = CHOOSE j \in Workers : Active(t, j)
  BY <1>1
<1>3. \/ BootWorker(t) /\ row[t].launch # "" /\ proc[t] = "" /\ Finish(t, k, "failed", "failed")
      \/ BootWorker(t) /\ row[t].launch # ""
           /\ IF act[t][k].st = "claimed" THEN Start(t, k) ELSE UNCHANGED act
      \/ BootUnnamed(t) /\ row[t].launch = "" /\ act[t][k].st = "claimed" /\ UNCHANGED act
      \/ BootUnnamed(t) /\ row[t].launch = "" /\ act[t][k].st # "claimed"
           /\ Finish(t, k, "succeeded", "ci_waiting")
  BY <1>2 DEF BootWorker, BootUnnamed, Incident
<1>4. exit[t].at \in {"none", "report"} /\ (proc[t] = "" => exit[t].at = "none")
  BY <1>0, <1>1 DEF AliveTask, HandlersType, Exits
<1>5. proc[t] \in {"", k}
  <2>1. ASSUME proc[t] # "" PROVE proc[t] = k
    <3>1. proc[t] \in Owned(t) /\ k \in Owned(t)
      BY <1>0, <1>2, <2>1, WorkerKinds DEF AliveTask, WorldType, Owned, Active
    <3> QED
      BY <3>1, SoleOwner DEF Inv
  <2> QED
    BY <2>1
<1>6. /\ \A u \in Tasks \ {t} : act'[u] = act[u]
      /\ \A j \in Workers : act'[t][j] = act[t][j] \/ j = k
  <2>1. k \in Kinds /\ Workers \subseteq Kinds
    BY WorkerKinds
  <2>2. UNCHANGED act \/ \E st, slot : act' = [act EXCEPT ![t][k] = [st |-> st, slot |-> slot]]
    BY <1>3 DEF Finish, Start, SetAct
  <2> QED
    BY <2>1, <2>2 DEF Inv, Store, StoreType
<1>7. OthersStay(t)
  BY <1>1, <1>6 DEF OthersStay
<1>8. CASE proc[t] = "" /\ row[t].launch # ""
  <2>1. AliveTask(t)'
    BY <1>0, <1>1, <1>4, <1>8, Vacant
  <2>2. Alive'
    BY <1>1, <1>7, <2>1, OthersAlive
  <2>3. CASE drain.t # t
    BY <1>1, <1>7, <2>2, <2>3, OthersLaunched
  <2>4. CASE drain.t = t
    BY <1>1, <1>8, <2>2, <2>4 DEF Launched
  <2> QED
    BY <2>3, <2>4
<1>9. CASE proc[t] # "" /\ row[t].launch # ""
  <2>1. UNCHANGED act \/ (act[t][k].st = "claimed" /\ Start(t, k))
    BY <1>3, <1>9
  <2>2. act'[t][k] = act[t][k] \/ act'[t][k].st = "running"
    BY <1>2, <2>1, WorkerKinds, StaysActive DEF Inv
  <2>3. \A j \in Workers : act'[t][j] = act[t][j] \/ act'[t][j].st = "running"
    BY <1>6, <2>2
  <2>4. row'[t] = row[t] /\ proc'[t] = proc[t] /\ exit'[t] = exit[t]
    BY <1>1
  <2>5. AliveTask(t)'
    BY <1>0, <1>1, <1>9, <2>3, <2>4, AliveKept
  <2>6. Alive'
    BY <1>1, <1>7, <2>5, OthersAlive
  <2>7. CASE drain.t # t
    BY <1>1, <1>7, <2>6, <2>7, OthersLaunched
  <2>8. CASE drain.t = t
    BY <1>1, <1>9, <2>6, <2>8 DEF Launched
  <2> QED
    BY <2>7, <2>8
<1>10. CASE row[t].launch = "" /\ act[t][k].st = "claimed"
  <2>1. UNCHANGED act
    BY <1>3, <1>10
  <2>2. WorkersKept /\ DrainKept
    BY <1>1, <2>1 DEF WorkersKept, DrainKept
  <2> QED
    BY <1>1, <2>2, WorkforceKept
<1>11. CASE row[t].launch = "" /\ act[t][k].st # "claimed"
  <2>1. proc[t] = ""
    BY <1>0, <1>5, <1>11 DEF AliveTask
  <2>2. AliveTask(t)'
    BY <1>0, <1>1, <1>4, <2>1, Vacant
  <2>3. Alive'
    BY <1>1, <1>7, <2>2, OthersAlive
  <2>4. CASE drain.t # t
    BY <1>1, <1>7, <2>3, <2>4, OthersLaunched
  <2>5. CASE drain.t = t
    <3>1. drain.at \notin {"validate", "mark"}
      <4>1. SUFFICES ASSUME drain.at \in {"validate", "mark"} PROVE FALSE
        OBVIOUS
      <4>2. act[t][drain.k].st = "claimed" /\ drain.k \in Workers
        BY <1>11, <2>5, <4>1 DEF Launched, Inv, Draining
      <4>3. drain.k = k
        BY <1>2, <4>2, WorkerKinds, SoleOwner DEF Inv, Owned, Active
      <4> QED
        BY <1>11, <4>2, <4>3
    <3> QED
      BY <1>1, <2>1, <2>3, <2>5, <3>1 DEF Launched
  <2> QED
    BY <2>4, <2>5
<1> QED
  BY <1>8, <1>9, <1>10, <1>11

\* A trigger that is done leaves the drain that waits for it with its reviewer.
LEMMA DoneKeepsDrain ==
    ASSUME Inv, NEW t \in Tasks, NEW res, Done(t, res)
    PROVE  DrainKept
<1>0. HandlersType
  BY TypeParts DEF Inv
<1>1. CASE trig[t].by = "drain"
  <2>1. drain' = [drain EXCEPT !.at = "triggered", !.res = res] /\ drain.at = "wait"
    BY <1>1 DEF Done, Inv, Triggered
  <2>2. drain'.at = "triggered" /\ drain'.k = drain.k
    BY <1>0, <2>1 DEF HandlersType, Drains
  <2> QED
    BY <2>1, <2>2 DEF DrainKept
<1>2. CASE trig[t].by # "drain"
  BY <1>2 DEF Done, DrainKept
<1> QED
  BY <1>1, <1>2

\* A trigger touches no worker.
LEMMA TriggerAlive ==
    ASSUME Inv, Alive, Launched, NEW t \in Tasks,
           TriggerSteps(t) \/ AuthorizeRejects(t) \/ AuthorizeDrifts(t) \/ ReviewerUnlaunched(t)
    PROVE  Alive' /\ Launched'
<1> DEFINE k == Reviewer[pr[t]]
<1>0. trig[t].at # "idle" => k \in Kinds /\ k \in Reviewers /\ pr[t] \in Heads
  BY WorkerKinds DEF Inv, Triggered
<1>1. UNCHANGED <<row, proc, exit, boot>>
  BY DEF TriggerSteps, AuthorizeQueues, AuthorizeAnswers, InsertRun, SpawnReviewer, FailRun, MarkAction,
         MarkTask, NameReviewer, AuthorizeRejects, AuthorizeDrifts, ReviewerUnlaunched, world
<1>2. DrainKept
  <2>1. drain' = drain \/ \E res \in {"none", "created", "error"} : Done(t, res)
    BY DEF TriggerSteps, AuthorizeQueues, AuthorizeAnswers, InsertRun, SpawnReviewer, FailRun, MarkAction,
           MarkTask, NameReviewer, AuthorizeRejects, AuthorizeDrifts, ReviewerUnlaunched
  <2> QED
    BY <2>1, DoneKeepsDrain DEF DrainKept
<1>3. WorkersKept
  <2>1. CASE AuthorizeAnswers(t) \/ InsertRun(t) \/ SpawnReviewer(t) \/ FailRun(t) \/ NameReviewer(t)
    BY <2>1 DEF AuthorizeAnswers, InsertRun, SpawnReviewer, FailRun, NameReviewer, store, WorkersKept
  <2>2. CASE AuthorizeQueues(t)
    <3>1. ReviewQueued(t)
      BY <1>0, <2>2 DEF AuthorizeQueues, ReviewQueued
    <3> QED
      BY <3>1, KeepsWorkers DEF Inv
  <2>3. CASE AuthorizeRejects(t)
    BY <2>3, KeepsWorkers DEF AuthorizeRejects, Inv
  <2>4. CASE AuthorizeDrifts(t)
    <3>1. Incident(t) \/ Ended(t, k, "failed", "failed")
      BY <2>4 DEF AuthorizeDrifts, Ended, EndsReview, Active, Ends
    <3>2. k \in Reviewers
      BY <1>0, <2>4 DEF AuthorizeDrifts
    <3> QED
      BY <3>1, <3>2, KeepsWorkers DEF Inv
  <2>5. CASE ReviewerUnlaunched(t)
    <3>1. UNCHANGED store \/ Ended(t, k, "failed", "failed")
      BY <2>5 DEF ReviewerUnlaunched, Finishable, Ended, EndsReview
    <3>2. k \in Reviewers
      BY <1>0, <2>5 DEF ReviewerUnlaunched
    <3> QED
      BY <3>1, <3>2, KeepsWorkers DEF Inv
  <2>6. CASE MarkAction(t)
    <3>1. UNCHANGED act \/ Started(t, k)
      BY <2>6 DEF MarkAction, Started
    <3>2. k \in Reviewers
      BY <1>0, <2>6 DEF MarkAction
    <3> QED
      BY <3>1, <3>2, KeepsWorkers DEF Inv, WorkersKept
  <2>7. CASE MarkTask(t)
    BY <2>7 DEF MarkTask, WorkersKept
  <2> QED
    BY <2>1, <2>2, <2>3, <2>4, <2>5, <2>6, <2>7 DEF TriggerSteps
<1> QED
  BY <1>1, <1>2, <1>3, WorkforceKept

\* The rest of the drain touches no worker.
LEMMA DrainAlive ==
    ASSUME Inv, Alive, Launched, DrainSteps \/ DrainRefuses \/ DrainUnmarked \/ DrainCancelled
    PROVE  Alive' /\ Launched'
<1>0. HandlersType
  BY TypeParts DEF Inv
<1>1. CASE DrainStart \/ DrainEnds \/ DrainReads \/ DrainLooks \/ DrainTriggers \/ DrainCancelled
  <2>1. UNCHANGED <<act, row, proc, exit, boot>>
    BY <1>1 DEF DrainStart, DrainEnds, DrainReads, DrainLooks, DrainTriggers, DrainCancelled, store, world
  <2>2. DrainKept
    <3>1. CASE DrainStart \/ DrainEnds \/ DrainCancelled
      BY <3>1, RowFacts DEF DrainStart, DrainEnds, DrainCancelled, DrainKept
    <3>2. CASE DrainReads \/ DrainLooks
      <4>1. /\ drain.at \in {"read", "look"}
            /\ drain' \in {NoDrain, Claiming} \/ \E at \in {"look", "bind"} : drain' = [drain EXCEPT !.at = at]
        BY <3>2 DEF DrainReads, DrainLooks
      <4> QED
        BY <1>0, <4>1, RowFacts DEF HandlersType, Drains, DrainKept
    <3>3. CASE DrainTriggers
      <4>1. /\ drain.at = "trigger"
            /\ \/ drain' = [drain EXCEPT !.at = "wait"]
               \/ drain' = [drain EXCEPT !.at = "triggered", !.res = "none"]
        BY <3>3 DEF DrainTriggers
      <4>2. drain'.at \in {"wait", "triggered"} /\ drain'.k = drain.k
        BY <1>0, <4>1 DEF HandlersType, Drains
      <4> QED
        BY <4>1, <4>2 DEF DrainKept
    <3> QED
      BY <1>1, <3>1, <3>2, <3>3
  <2>3. WorkersKept
    BY <2>1 DEF WorkersKept
  <2> QED
    BY <2>1, <2>2, <2>3, WorkforceKept
<1>2. CASE DrainReviews
  <2>1. UNCHANGED <<row, proc, exit, boot>> /\ drain.at = "triggered"
    BY <1>2 DEF DrainReviews, world
  <2>2. drain.t \in Tasks /\ drain.k \in Reviewers
    BY <2>1 DEF Launched, Inv, Draining
  <2>3. drain'.at \in {"idle", "claim"}
    <3>1. drain' = Claiming \/ drain' = NoDrain
      BY <1>2 DEF DrainReviews, FailClaimed
    <3> QED
      BY <3>1, RowFacts
  <2>4. UNCHANGED store \/ Ended(drain.t, drain.k, "failed", "failed")
    <3>1. UNCHANGED store \/ FailClaimed
      BY <1>2 DEF DrainReviews
    <3> QED
      BY <1>2, <2>1, <3>1, FailClaimedMakes
  <2>5. WorkersKept
    BY <2>2, <2>4, KeepsWorkers DEF Inv
  <2> QED
    BY <2>1, <2>3, <2>5, WorkforceKept DEF DrainKept
<1> QED
  BY <1>1, <1>2, ClaimsAlive, RefusesAlive, UnmarkedAlive, CreatesAlive, MarksAlive, BindsAlive DEF DrainSteps

\* The handlers, the requests and the processes.
LEMMA HandlerAlive ==
    ASSUME Inv, Alive, Launched, NEW t \in Tasks,
           \/ HandlerSteps(t) \/ ProcessSteps(t) \/ ExitUnreported(t) \/ ReviewerUnreported(t)
           \/ Submit(t) \/ Provision(t) \/ Nudge(t) \/ Reap(t)
    PROVE  Alive' /\ Launched'
<1>1. CASE \/ ReviewerUnreported(t) \/ ReviewerFails(t) \/ Nudge(t)
           \/ \E verdict \in {"approved", "changes"} : ReviewerSubmits(t, verdict)
  <2>1. UNCHANGED <<act, row, proc, exit, boot, drain>>
    BY <1>1 DEF ReviewerUnreported, ReviewerFails, ReviewerSubmits, Nudge, store, world, handlers
  <2> QED
    BY <2>1, WorkforceKept DEF WorkersKept, DrainKept
<1>2. CASE Submit(t) \/ Provision(t) \/ ResultHandled(t) \/ FailureHandled(t)
  <2>1. UNCHANGED <<row, proc, exit, boot, drain>>
    BY <1>2 DEF Submit, Provision, ResultHandled, FailureHandled, world, handlers
  <2>2. WorkersKept
    <3>1. CASE Submit(t) \/ Provision(t)
      BY <3>1, KeepsWorkers DEF Submit, Provision, Submitted, Provisioned, Inv
    <3>2. CASE ResultHandled(t)
      <4>1. UNCHANGED store \/ (report[t].head \in Heads /\ Concluded(t, report[t].head))
        BY <3>2 DEF ResultHandled, Accepts, Active, Inv, Reported, Concluded
      <4> QED
        BY <4>1, KeepsWorkers DEF Inv
    <3>3. CASE FailureHandled(t)
      <4> DEFINE k == Reviewer[report[t].head]
      <4>1. report[t].head \in Heads
        BY <3>3 DEF FailureHandled, Inv, Reported
      <4>2. k \in Reviewers
        BY <4>1, WorkerKinds
      <4>3. UNCHANGED store \/ Ended(t, k, "failed", "failed")
        BY <3>3 DEF FailureHandled, ReviewFailable, FailReview, Finishable, Ended, EndsReview
      <4> QED
        BY <4>2, <4>3, KeepsWorkers DEF Inv
    <3> QED
      BY <1>2, <3>1, <3>2, <3>3
  <2> QED
    BY <2>1, <2>2, WorkforceKept DEF DrainKept
<1>3. CASE Reap(t)
  <2>1. UNCHANGED <<act, proc, exit, drain, boot>> /\ row' = [row EXCEPT ![t].act = "exited"] /\ row[t].launch # ""
    BY <1>3 DEF Reap, store, world, handlers
  <2>2. row \in [Tasks -> Rows]
    BY TypeParts DEF Inv, WorldType
  <2>3. \A u \in Tasks : row'[u].launch = row[u].launch /\ (row[u].launch = "" => row'[u] = row[u])
    BY <2>1, <2>2 DEF Rows
  <2> QED
    BY <2>1, <2>3, ReapsAlive
<1> QED
  BY <1>1, <1>2, <1>3, ExitsAlive, ReportedAlive, UnreportedAlive, HandledAlive DEF HandlerSteps, ProcessSteps

\* The startup and the death of the daemon.
LEMMA BootAlive ==
    ASSUME Inv, Alive, Launched, BootSteps \/ Crash
    PROVE  Alive' /\ Launched'
<1>1. CASE BootRuntime
  <2>1. UNCHANGED <<act, proc, exit, drain>> /\ boot # "up"
    BY <1>1 DEF BootRuntime, store, world, handlers
  <2>2. row \in [Tasks -> Rows]
    BY TypeParts DEF Inv, WorldType
  <2>3. \A t \in Tasks : row'[t] = row[t] \/ (row[t].launch # "" /\ row'[t] = [row[t] EXCEPT !.act = "exited"])
    BY <1>1 DEF BootRuntime
  <2>4. \A t \in Tasks : row'[t].launch = row[t].launch /\ (row[t].launch = "" => row'[t] = row[t])
    <3> SUFFICES ASSUME NEW t \in Tasks
                 PROVE  row'[t].launch = row[t].launch /\ (row[t].launch = "" => row'[t] = row[t])
      OBVIOUS
    <3>1. row[t] \in Rows
      BY <2>2
    <3>2. CASE row'[t] = row[t]
      BY <3>2
    <3>3. CASE row[t].launch # "" /\ row'[t] = [row[t] EXCEPT !.act = "exited"]
      BY <3>1, <3>3 DEF Rows
    <3> QED
      BY <2>3, <3>2, <3>3
  <2> QED
    BY <2>1, <2>4, ReapsAlive
<1>2. CASE \/ BootReviewed \/ BootDrains
           \/ \E t \in Tasks : BootReview(t) \/ BootPasses(t) \/ BootAborts(t)
  <2>1. UNCHANGED <<act, row, proc, exit, drain>> /\ boot # "up"
    BY <1>2 DEF BootReviewed, BootDrains, BootReview, BootPasses, BootAborts, BootTask, Aborted, store,
                world, handlers
  <2> QED
    BY <2>1, WorkforceKept DEF WorkersKept, DrainKept
<1>3. ASSUME NEW t \in Tasks, BootProvisions(t) \/ BootUninspected(t) \/ BootReviewer(t)
      PROVE  Alive' /\ Launched'
  <2>1. UNCHANGED <<row, proc, exit, drain>> /\ boot # "up"
    BY <1>3 DEF BootProvisions, BootUninspected, BootReviewer, BootRunning, BootTask, world
  <2>2. WorkersKept
    <3>1. CASE BootProvisions(t) \/ BootUninspected(t)
      BY <3>1, KeepsWorkers DEF BootProvisions, BootUninspected, Provisioned, Inv
    <3>2. CASE BootReviewer(t)
      <4> DEFINE h == task[t].head
                 k == Reviewer[h]
      <4>1. PICK j \in Reviewers : Active(t, j) /\ task[t].st \in Runnings
        BY <3>2 DEF BootReviewer, BootRunning, BootTask
      <4>2. k \in Reviewers /\ Active(t, k) /\ h \in Heads /\ task[t].st = "review_running"
        BY <4>1, Running, WorkerKinds DEF Inv
      <4>3. \/ Incident(t)
            \/ /\ task' = [task EXCEPT ![t].run = h] /\ UNCHANGED queue
               /\ IF act[t][k].st = "claimed" THEN Start(t, k) ELSE UNCHANGED act
               /\ run[t][h] = "running"
            \/ FailReview(t, h) \/ Conclude(t, h)
        BY <3>2 DEF BootReviewer
      <4>4. Incident(t) \/ RunBound(t, h) \/ Concluded(t, h) \/ Ended(t, k, "failed", "failed")
        BY <3>2, <4>2, <4>3 DEF RunBound, Concluded, Ended, EndsReview, FailReview, Ends
      <4> QED
        BY <4>2, <4>4, KeepsWorkers DEF Inv
    <3> QED
      BY <1>3, <3>1, <3>2
  <2> QED
    BY <2>1, <2>2, WorkforceKept DEF DrainKept
<1> QED
  BY <1>1, <1>2, <1>3, BootWorkerAlive, CrashAlive DEF BootSteps

\* No step leaves a worker without its action.
LEMMA AliveNext ==
    ASSUME Inv, Alive, Launched, Next
    PROVE  Alive' /\ Launched'
BY DrainAlive, TriggerAlive, HandlerAlive, BootAlive DEF Next, Failures

\* A step of the trigger of a task.
TriggerStep(t) == TriggerSteps(t) \/ AuthorizeRejects(t) \/ AuthorizeDrifts(t) \/ ReviewerUnlaunched(t)

\* A trigger starts for a head that no run has looked at, and dies with the daemon.
TrigMoved(t) ==
    \/ trig'[t] = trig[t]
    \/ TriggerStep(t)
    \/ trig[t].at = "idle" /\ trig'[t].at = "authorize" /\ Eligible(t) /\ UNCHANGED <<store, pr>>
    \/ trig'[t].at = "idle" /\ drain'.at = "idle" /\ UNCHANGED <<store, reviews, world>>

\* Only the steps of its own trigger, and its start, move the trigger of a task.
LEMMA TrigsMoved ==
    ASSUME Inv, Next, NEW t \in Tasks
    PROVE  TrigMoved(t)
<1>0. HandlersType
  BY TypeParts DEF Inv
<1>1. CASE trig' = trig
  BY <1>1 DEF TrigMoved
<1>2. ASSUME NEW u \in Tasks, NEW r, trig' = [trig EXCEPT ![u] = r], r.at = "authorize",
             trig[u].at = "idle", Eligible(u), UNCHANGED <<store, pr>>
      PROVE  TrigMoved(t)
  <2>1. trig'[u] = r /\ \A v \in Tasks \ {u} : trig'[v] = trig[v]
    BY <1>0, <1>2 DEF HandlersType
  <2> QED
    BY <1>2, <2>1 DEF TrigMoved
<1>3. CASE DrainSteps \/ DrainRefuses \/ DrainUnmarked \/ DrainCancelled
  <2>1. CASE DrainTriggers /\ trig' # trig
    <3>1. drain.t \in Tasks
      BY <2>1 DEF DrainTriggers, Inv, Draining
    <3>2. [at |-> "authorize", by |-> "drain"].at = "authorize"
      OBVIOUS
    <3>3. /\ trig' = [trig EXCEPT ![drain.t] = [at |-> "authorize", by |-> "drain"]]
          /\ trig[drain.t].at = "idle" /\ Eligible(drain.t) /\ UNCHANGED <<store, pr>>
      BY <2>1 DEF DrainTriggers, world
    <3> QED
      BY <1>2, <3>1, <3>2, <3>3
  <2>2. CASE ~DrainTriggers
    BY <1>1, <1>3, <2>2 DEF DrainSteps, DrainStart, DrainEnds, DrainClaims, DrainReads, DrainLooks, DrainBinds,
                DrainReviews, DrainRefuses, DrainCancelled, DrainCreates, DrainMarks, DrainUnmarked
  <2> QED
    BY <1>1, <2>1, <2>2
<1>4. ASSUME NEW u \in Tasks, TriggerStep(u) PROVE TrigMoved(t)
  <2>1. CASE u = t
    BY <1>4, <2>1 DEF TrigMoved
  <2>2. CASE u # t
    <3>1. \/ trig' = [trig EXCEPT ![u] = NoTrig]
          \/ \E at \in {"insert", "spawn", "failrun", "start", "bind", "name"} : trig' = [trig EXCEPT ![u].at = at]
      BY <1>4 DEF TriggerStep, TriggerSteps, AuthorizeQueues, AuthorizeAnswers, InsertRun, SpawnReviewer, FailRun,
                MarkAction, MarkTask, NameReviewer, AuthorizeRejects, AuthorizeDrifts, ReviewerUnlaunched, Done
    <3>2. trig'[t] = trig[t]
      BY <1>0, <2>2, <3>1 DEF HandlersType
    <3> QED
      BY <3>2 DEF TrigMoved
  <2> QED
    BY <2>1, <2>2
<1>5. ASSUME NEW u \in Tasks,
             \/ HandlerSteps(u) \/ ProcessSteps(u) \/ ExitUnreported(u) \/ ReviewerUnreported(u)
             \/ Submit(u) \/ Provision(u) \/ Nudge(u) \/ Reap(u)
      PROVE  TrigMoved(t)
  <2>1. CASE Nudge(u) /\ trig' # trig
    <3>1. /\ trig' = [trig EXCEPT ![u].at = "authorize"] /\ trig[u].at = "idle" /\ Eligible(u)
          /\ UNCHANGED <<store, pr>>
      BY <2>1 DEF Nudge, world
    <3>2. trig'[u].at = "authorize" /\ \A v \in Tasks \ {u} : trig'[v] = trig[v]
      BY <1>0, <3>1 DEF HandlersType, Trigs
    <3> QED
      BY <3>1, <3>2 DEF TrigMoved
  <2>2. CASE ~Nudge(u)
    BY <1>1, <1>5, <2>2 DEF HandlerSteps, ProcessSteps, ExitUnreported, ReviewerUnreported, Submit, Provision,
                  Reap, ExitReported, ExitReads, ExitBinds, ExitFinishes, ResultHandled, FailureHandled, WorkerExits,
                  ReviewerFails, ReviewerSubmits, handlers
  <2> QED
    BY <1>1, <2>1, <2>2
<1>6. CASE Crash
  <2>1. trig'[t] = NoTrig /\ drain' = NoDrain /\ UNCHANGED <<store, reviews, world>>
    BY <1>6 DEF Crash
  <2> QED
    BY <2>1, RowFacts DEF TrigMoved
<1>7. CASE BootSteps
  <2>1. ASSUME NEW u \in Tasks, BootReview(u), trig' # trig PROVE TrigMoved(t)
    <3>1. [at |-> "authorize", by |-> "boot"].at = "authorize"
      OBVIOUS
    <3>2. /\ trig' = [trig EXCEPT ![u] = [at |-> "authorize", by |-> "boot"]]
          /\ trig[u].at = "idle" /\ Eligible(u) /\ UNCHANGED <<store, pr>>
      BY <2>1 DEF BootReview, world
    <3> QED
      BY <1>2, <3>1, <3>2
  <2>2. CASE ~\E u \in Tasks : BootReview(u)
    BY <1>1, <1>7, <2>2 DEF BootSteps, BootRuntime, BootReviewed, BootDrains, BootProvisions, BootPasses,
                BootAborts, BootReviewer, BootWorker, BootUninspected, BootUnnamed, BootRunning, BootTask, handlers
  <2> QED
    BY <1>1, <2>1, <2>2
<1> QED
  BY <1>3, <1>4, <1>5, <1>6, <1>7 DEF Next, Failures, TriggerStep

\* A report names the run that its reviewer closed.
ReportMoved(t) ==
    \/ report'[t] = report[t]
    \/ report'[t].at = "none"
    \/ /\ report'[t].head = rproc[t] /\ rproc[t] \in Heads
       /\ run'[t][rproc[t]] \in {"approved", "changes", "failed"}
ReviewerMoved(t) == rproc'[t] \in {rproc[t], 0} \/ SpawnReviewer(t)

\* A reviewer is spawned by its trigger, and ends with a report or without.
LEMMA ReportsMoved ==
    ASSUME Inv, Next, NEW t \in Tasks
    PROVE  ReportMoved(t) /\ ReviewerMoved(t)
<1>0. WorldType /\ HandlersType
  BY TypeParts DEF Inv
<1>1. CASE UNCHANGED <<report, rproc>>
  BY <1>1 DEF ReportMoved, ReviewerMoved
<1>2. CASE DrainSteps \/ DrainRefuses \/ DrainUnmarked \/ DrainCancelled
  BY <1>1, <1>2 DEF DrainSteps, DrainStart, DrainEnds, DrainClaims, DrainReads, DrainLooks, DrainBinds, DrainTriggers,
              DrainReviews, DrainRefuses, DrainCancelled, DrainCreates, DrainMarks, DrainUnmarked, world
<1>3. ASSUME NEW u \in Tasks, TriggerStep(u) PROVE ReportMoved(t) /\ ReviewerMoved(t)
  <2>1. CASE SpawnReviewer(u)
    BY <1>0, <2>1 DEF SpawnReviewer, ReportMoved, ReviewerMoved, WorldType
  <2>2. CASE ~SpawnReviewer(u)
    BY <1>1, <1>3, <2>2 DEF TriggerStep, TriggerSteps, AuthorizeQueues, AuthorizeAnswers, InsertRun, FailRun,
                MarkAction, MarkTask, NameReviewer, AuthorizeRejects, AuthorizeDrifts, ReviewerUnlaunched, world
  <2> QED
    BY <2>1, <2>2
<1>4. ASSUME NEW u \in Tasks,
             \/ HandlerSteps(u) \/ ProcessSteps(u) \/ ExitUnreported(u) \/ ReviewerUnreported(u)
             \/ Submit(u) \/ Provision(u) \/ Nudge(u) \/ Reap(u)
      PROVE  ReportMoved(t) /\ ReviewerMoved(t)
  <2>1. CASE \/ ReviewerFails(u) \/ ReviewerUnreported(u)
             \/ \E verdict \in {"approved", "changes"} : ReviewerSubmits(u, verdict)
    <3>1. rproc' = [rproc EXCEPT ![u] = 0] /\ rproc[u] \in Heads
      BY <1>0, <2>1, HeadFacts DEF ReviewerFails, ReviewerUnreported, ReviewerSubmits
    <3>2. ReviewerMoved(t)
      BY <1>0, <3>1 DEF WorldType, ReviewerMoved
    <3>3. CASE report' = report
      BY <3>2, <3>3 DEF ReportMoved
    <3>4. CASE report' # report
      <4>1. PICK st \in {"approved", "changes", "failed"}, at \in {"result", "failure"} :
              /\ run' = [run EXCEPT ![u][rproc[u]] = st]
              /\ report' = [report EXCEPT ![u] = [at |-> at, head |-> rproc[u]]]
        BY <2>1, <3>4 DEF ReviewerFails, ReviewerUnreported, ReviewerSubmits, handlers
      <4>2. run'[u][rproc[u]] = st
        BY <1>0, <3>1, <4>1 DEF WorldType
      <4>3. report'[u].head = rproc[u] /\ \A v \in Tasks \ {u} : report'[v] = report[v]
        BY <1>0, <4>1 DEF HandlersType
      <4> QED
        BY <3>1, <3>2, <4>2, <4>3 DEF ReportMoved
    <3> QED
      BY <3>3, <3>4
  <2>2. CASE ResultHandled(u) \/ FailureHandled(u)
    <3>1. report' = [report EXCEPT ![u] = NoReport] /\ rproc' = rproc
      BY <2>2 DEF ResultHandled, FailureHandled, world
    <3> QED
      BY <1>0, <3>1, RowFacts DEF HandlersType, ReportMoved, ReviewerMoved
  <2>3. CASE Submit(u) \/ Provision(u) \/ Nudge(u) \/ Reap(u) \/ ExitUnreported(u) \/ ExitReported(u)
             \/ ExitReads(u) \/ ExitBinds(u) \/ ExitFinishes(u) \/ WorkerExits(u)
    BY <1>1, <2>3 DEF ExitUnreported, Submit, Provision, Nudge, Reap, ExitReported, ExitReads, ExitBinds, ExitFinishes,
                  WorkerExits, world, handlers
  <2> QED
    BY <1>4, <2>1, <2>2, <2>3 DEF HandlerSteps, ProcessSteps
<1>5. CASE Crash
  BY <1>5, RowFacts DEF Crash, world, ReportMoved, ReviewerMoved
<1>6. CASE BootSteps
  BY <1>1, <1>6 DEF BootSteps, BootRuntime, BootReviewed, BootDrains, BootProvisions, BootPasses, BootReview,
                BootAborts, BootReviewer, BootWorker, BootUninspected, BootUnnamed, BootRunning, BootTask,
                handlers, world
<1> QED
  BY <1>2, <1>3, <1>4, <1>5, <1>6 DEF Next, Failures, TriggerStep

\* A drain that is at the review of a task has claimed it, and waits for its
\* trigger if it could start one.
DrainReviewed ==
    \/ DrainClaims
    \/ /\ drain.at \in {"trigger", "wait", "triggered"}
       /\ drain'.t = drain.t /\ drain'.k = drain.k /\ drain'.snap = drain.snap
       /\ \/ drain'.at = drain.at
          \/ drain'.at = "wait" /\ trig'[drain.t].at = "authorize" /\ DrainTriggers
          \/ drain'.at = "triggered" /\ trig[drain.t].at = "idle" /\ ~Eligible(drain.t) /\ DrainTriggers
          \/ drain.at = "wait" /\ drain'.at = "triggered" /\ TriggerStep(drain.t) /\ trig'[drain.t].at = "idle"

\* How the drain comes to a review.
LEMMA DrainsReviewed ==
    ASSUME Inv, Next, drain'.at \in {"trigger", "wait", "triggered"}
    PROVE  DrainReviewed
<1>0. HandlersType
  BY TypeParts DEF Inv
<1>1. CASE drain' = drain
  BY <1>1 DEF DrainReviewed
<1>2. CASE drain' = NoDrain \/ drain' = Claiming
  BY <1>2, RowFacts
<1>3. ASSUME NEW at \in {"mark", "read", "look", "bind"}, drain' = [drain EXCEPT !.at = at] PROVE FALSE
  BY <1>0, <1>3 DEF HandlersType, Drains
<1>4. CASE DrainSteps \/ DrainRefuses \/ DrainUnmarked \/ DrainCancelled
  <2>1. CASE DrainTriggers
    <3>1. /\ drain.at = "trigger" /\ trig[drain.t].at = "idle"
          /\ \/ /\ drain' = [drain EXCEPT !.at = "wait"]
                /\ trig' = [trig EXCEPT ![drain.t] = [at |-> "authorize", by |-> "drain"]]
             \/ ~Eligible(drain.t) /\ drain' = [drain EXCEPT !.at = "triggered", !.res = "none"]
      BY <2>1 DEF DrainTriggers
    <3>0. PICK u \in Tasks : u = drain.t
      BY <3>1 DEF Inv, Draining
    <3>2. /\ drain'.t = drain.t /\ drain'.k = drain.k /\ drain'.snap = drain.snap
          /\ \/ drain'.at = "wait" /\ trig'[u].at = "authorize"
             \/ drain'.at = "triggered" /\ ~Eligible(drain.t)
      <4>1. ASSUME trig' = [trig EXCEPT ![drain.t] = [at |-> "authorize", by |-> "drain"]]
            PROVE  trig'[u].at = "authorize"
        BY <1>0, <3>0, <4>1 DEF HandlersType
      <4>2. /\ drain'.t = drain.t /\ drain'.k = drain.k /\ drain'.snap = drain.snap
            /\ (drain' = [drain EXCEPT !.at = "wait"] => drain'.at = "wait")
            /\ (drain' = [drain EXCEPT !.at = "triggered", !.res = "none"] => drain'.at = "triggered")
        BY <1>0, <3>1 DEF HandlersType, Drains
      <4> QED
        BY <3>1, <4>1, <4>2
    <3> QED
      BY <2>1, <3>0, <3>1, <3>2 DEF DrainReviewed
  <2>2. CASE DrainClaims
    BY <2>2 DEF DrainReviewed
  <2>3. CASE DrainCreates \/ DrainMarks \/ DrainReads \/ DrainLooks
    BY <1>2, <1>3, <2>3 DEF DrainCreates, DrainMarks, DrainReads, DrainLooks
  <2>4. CASE DrainStart \/ DrainEnds \/ DrainBinds \/ DrainReviews \/ DrainRefuses \/ DrainCancelled \/ DrainUnmarked
    BY <1>2, <2>4 DEF DrainStart, DrainEnds, DrainBinds, DrainReviews, DrainRefuses, DrainCancelled,
                      DrainUnmarked, FailClaimed
  <2> QED
    BY <1>4, <2>1, <2>2, <2>3, <2>4 DEF DrainSteps
<1>5. ASSUME NEW u \in Tasks, TriggerStep(u) PROVE DrainReviewed
  <2>1. CASE drain' # drain
    <3>1. PICK res \in {"none", "created", "error"} : Done(u, res)
      BY <1>5, <2>1 DEF TriggerStep, TriggerSteps, AuthorizeQueues, AuthorizeAnswers, InsertRun, SpawnReviewer,
                FailRun, MarkAction, MarkTask, NameReviewer, AuthorizeRejects, AuthorizeDrifts, ReviewerUnlaunched
    <3>2. /\ drain' = [drain EXCEPT !.at = "triggered", !.res = res] /\ drain.at = "wait" /\ drain.t = u
          /\ trig' = [trig EXCEPT ![u] = NoTrig]
      BY <2>1, <3>1 DEF Done, Inv, Triggered
    <3>3. /\ drain'.t = drain.t /\ drain'.k = drain.k /\ drain'.snap = drain.snap /\ drain'.at = "triggered"
          /\ trig'[u].at = "idle"
      BY <1>0, <3>2, RowFacts DEF HandlersType, Drains
    <3> QED
      BY <1>5, <3>2, <3>3 DEF DrainReviewed
  <2> QED
    BY <1>1, <2>1
<1>6. ASSUME NEW u \in Tasks,
             \/ HandlerSteps(u) \/ ProcessSteps(u) \/ ExitUnreported(u) \/ ReviewerUnreported(u)
             \/ Submit(u) \/ Provision(u) \/ Nudge(u) \/ Reap(u)
      PROVE  DrainReviewed
  BY <1>1, <1>6 DEF HandlerSteps, ProcessSteps, ExitUnreported, ReviewerUnreported, Submit, Provision,
                  Reap, ExitReported, ExitReads, ExitBinds, ExitFinishes, ResultHandled, FailureHandled, WorkerExits,
                  ReviewerFails, ReviewerSubmits, Nudge, handlers
<1>7. CASE BootSteps \/ Crash
  BY <1>1, <1>2, <1>7 DEF BootSteps, Crash, BootRuntime, BootReviewed, BootDrains, BootProvisions, BootPasses,
                BootReview, BootAborts, BootReviewer, BootWorker, BootUninspected, BootUnnamed, BootRunning,
                BootTask, handlers
<1> QED
  BY <1>4, <1>5, <1>6, <1>7 DEF Next, Failures, TriggerStep
-----------------------------------------------------------------------------
(* The reviews.                                                            *)

\* A reviewer whose run is open.
Open(t) == rproc[t] # 0 /\ run[t][rproc[t]] = "running"

\* The review of a task: its reviewer holds the action of its head while its
\* run is open, a trigger starts no run twice, and the head stays as long as
\* it is reviewed and after it was approved.
ReviewedTask(t) ==
    /\ rproc[t] # 0 => run[t][rproc[t]] # "none"
    /\ Open(t) => Active(t, Reviewer[rproc[t]])
    /\ \A h \in Heads : run[t][h] # "none" => h <= pr[t]
    /\ report[t].at # "none" => run[t][report[t].head] \notin {"none", "running"}
    /\ trig[t].at \in {"authorize", "insert"} => run[t][pr[t]] = "none"
    /\ trig[t].at = "insert" => act[t][Reviewer[pr[t]]].st = "claimed"
    /\ trig[t].at = "spawn" => Active(t, Reviewer[pr[t]]) /\ run[t][pr[t]] = "running" /\ rproc[t] # pr[t]
    /\ trig[t].at = "failrun" => task[t].st \in Ends
    /\ task[t].st \in {"review_queued", "review_running", "admission_waiting"} => task[t].head = pr[t]
    /\ task[t].st = "review_queued" => task[t].run = 0
    /\ task[t].st = "admission_waiting" =>
         task[t].head \in Heads /\ task[t].run = task[t].head /\ run[t][task[t].head] = "approved"
Reviewed == \A t \in Tasks : ReviewedTask(t)

\* A drain that asked for the review of the task it claimed.  As long as the
\* task is as the drain saw it, its trigger is on the way to a reviewer; one
\* that is through has not started one, and none can be started.
Underway(t) ==
    /\ drain.at = "wait" => trig[t].at # "name"
    /\ Open(t) => trig[t].at \in {"start", "bind"}
    /\ act[t][drain.k].st = "running" => trig[t].at = "bind"
    /\ drain.at = "triggered" => trig[t].at = "idle" /\ ~Eligible(t)
Awaiting ==
    drain.at \in {"trigger", "wait", "triggered"} =>
      /\ drain.snap.st = "review_running" /\ drain.snap.run = 0 /\ drain.snap.head \in Heads
      /\ drain.k = Reviewer[drain.snap.head]
      /\ Finishable(drain.t, drain.k, drain.snap) => Underway(drain.t)

Whole == Inv /\ OnCourse /\ Heading /\ Alive /\ Launched /\ Reviewed /\ Awaiting

\* The reviewers of the heads differ.
LEMMA ReviewerNames ==
    \A g, h \in Heads : Reviewer[g] = Reviewer[h] => g = h
BY KindNames

\* The transactions of one task, and of the others none.
LEMMA OwnTransaction ==
    ASSUME Inv, Next, NEW t \in Tasks
    PROVE  \/ task'[t] = task[t] /\ act'[t] = act[t]
           \/ Transaction(t) /\ UNCHANGED <<run, handle, rproc, pr>>
<1>1. CASE UNCHANGED store
  BY <1>1 DEF store
<1>2. CASE ~UNCHANGED store
  <2>1. PICK u \in Tasks : Transaction(u)
    BY <1>2, StepMakes
  <2>2. CASE u = t
    BY <1>2, <2>1, <2>2, StoreOrWorld
  <2>3. CASE u # t
    BY <2>1, <2>3, OthersKept DEF Inv
  <2> QED
    BY <2>2, <2>3
<1> QED
  BY <1>1, <1>2

\* A task that was given up stays so.
LEMMA EndsStay ==
    ASSUME Inv, Next, NEW t \in Tasks, task[t].st \in Ends
    PROVE  task'[t].st \in Ends
<1>1. CASE task'[t] = task[t]
  BY <1>1
<1>2. CASE Transaction(t)
  <2>1. task[t].st \notin {"absent", "reserved", "ci_waiting", "review_running"}
    BY DEF Ends
  <2>2. \A k \in Kinds : task[t].st # QueuedState[k]
    BY KindFacts DEF Ends, Queueds
  <2>3. Incident(t) \/ \E k \in Kinds : Started(t, k)
    BY <1>2, <2>1, <2>2 DEF Transaction, Submitted, Provisioned, ReviewQueued, Concluded, RunBound, Claimed,
                            Claimable, Ended
  <2>4. task' = task
    BY <2>3 DEF Incident, Started
  <2> QED
    BY <2>4
<1> QED
  BY <1>1, <1>2, OwnTransaction

\* How a task comes under review, and to admission.
LEMMA ReviewRows ==
    ASSUME Inv, Next, NEW t \in Tasks, task'[t].st \in {"review_queued", "review_running", "admission_waiting"}
    PROVE  \/ task'[t] = task[t]
           \/ /\ task'[t].st = "review_queued" /\ task'[t].head = pr[t] /\ task'[t].run = 0
              /\ task[t].st = "ci_waiting" /\ Owned(t) = {} /\ UNCHANGED <<run, pr>>
           \/ /\ task'[t].st = "review_running" /\ task[t].st = "review_queued" /\ drain.at = "claim"
              /\ task'[t].head = task[t].head /\ task'[t].run = task[t].run /\ UNCHANGED <<run, pr>>
           \/ /\ task'[t].st \in {"review_running", "admission_waiting"} /\ task[t].st = "review_running"
              /\ task'[t].head = task[t].head /\ task'[t].run = task[t].head /\ task[t].head \in Heads
              /\ task'[t].st = "admission_waiting" => run[t][task[t].head] = "approved"
              /\ UNCHANGED <<run, pr>>
<1>0. StoreType
  BY DEF Inv, Store
<1>1. CASE task'[t] = task[t]
  BY <1>1
<1>2. CASE Transaction(t) /\ UNCHANGED <<run, pr>>
  <2>1. ASSUME Submitted(t) \/ Provisioned(t) \/ Incident(t) PROVE task'[t] = task[t]
    BY <1>0, <2>1 DEF Submitted, Provisioned, Incident, StoreType, TaskRows
  <2>2. ASSUME ReviewQueued(t)
        PROVE  /\ task'[t].st = "review_queued" /\ task'[t].head = pr[t] /\ task'[t].run = 0
               /\ task[t].st = "ci_waiting" /\ Owned(t) = {}
    BY <1>0, <2>2 DEF ReviewQueued, StoreType
  <2>3. ASSUME NEW h \in Heads, Concluded(t, h)
        PROVE  /\ task'[t].st \in {"review_running", "admission_waiting"} /\ task[t].st = "review_running"
               /\ task'[t].head = task[t].head /\ task'[t].run = task[t].head /\ task[t].head \in Heads
               /\ task'[t].st = "admission_waiting" => run[t][task[t].head] = "approved"
    <3> DEFINE state == IF run[t][h] = "approved" THEN "admission_waiting"
                        ELSE IF run[t][h] = "changes" /\ task[t].repair = 0 THEN "repair_queued" ELSE "failed"
    <3>1. task'[t].st = state /\ task'[t].head = h /\ task'[t].run = h
      BY <1>0, <2>3 DEF Concluded, Conclude, StoreType
    <3>2. task[t].st = "review_running" /\ task[t].head = h
      BY <2>3 DEF Concluded
    <3> QED
      BY <3>1, <3>2
  <2>4. ASSUME NEW h \in Heads, RunBound(t, h)
        PROVE  /\ task'[t].st = "review_running" /\ task[t].st = "review_running"
               /\ task'[t].head = task[t].head /\ task'[t].run = task[t].head /\ task[t].head \in Heads
    BY <1>0, <2>4 DEF RunBound, StoreType, TaskRows
  <2>5. ASSUME NEW k \in Kinds, Started(t, k) PROVE task'[t] = task[t]
    BY <2>5 DEF Started
  <2>6. ASSUME NEW k \in Kinds, NEW s \in Slots, Claimed(t, k, s)
        PROVE  /\ task'[t].st = "review_running" /\ task[t].st = "review_queued" /\ drain.at = "claim"
               /\ task'[t].head = task[t].head /\ task'[t].run = task[t].run
    <3>1. /\ task'[t].st = RunningState[k] /\ task[t].st = QueuedState[k] /\ drain.at = "claim"
          /\ task'[t].head = task[t].head /\ task'[t].run = task[t].run
      BY <1>0, <2>6 DEF Claimed, Claimable, StoreType, TaskRows
    <3>2. k \in Reviewers
      BY <3>1 DEF Kinds, Workers, Reviewers, RunningState
    <3> QED
      BY <3>1, <3>2 DEF Kinds, Workers, Reviewers, RunningState, QueuedState
  <2>7. ASSUME NEW k \in Kinds, NEW st, NEW state, Ended(t, k, st, state) PROVE FALSE
    BY <1>0, <2>7 DEF Ended, Finish, StoreType, TaskRows
  <2> QED
    BY <1>2, <2>1, <2>2, <2>3, <2>4, <2>5, <2>6, <2>7 DEF Transaction
<1> QED
  BY <1>1, <1>2, OwnTransaction

\* A task that waits, or whose review is queued or active, has no worker.
LEMMA Settled ==
    ASSUME Whole, NEW t \in Tasks, Owned(t) = {} \/ \E k \in Reviewers : k \in Owned(t)
    PROVE  proc[t] = ""
<1>0. WorldType /\ AliveTask(t)
  BY TypeParts DEF Whole, Inv, Alive
<1>1. CASE Owned(t) = {}
  <2>1. ASSUME proc[t] # "" PROVE FALSE
    <3>1. proc[t] \in Kinds /\ Active(t, proc[t])
      BY <1>0, <2>1, WorkerKinds DEF AliveTask, WorldType
    <3> QED
      BY <1>1, <3>1 DEF Owned, Active
  <2> QED
    BY <2>1
<1>2. CASE \E k \in Reviewers : k \in Owned(t)
  BY <1>2, NoWorker DEF Whole
<1> QED
  BY <1>1, <1>2

\* The head of a PR grows, and stays where no worker is alive.
LEMMA HeadGrows ==
    ASSUME Whole, Next, NEW t \in Tasks
    PROVE  /\ pr[t] \in 0..2 /\ pr'[t] \in 0..2 /\ pr[t] <= pr'[t]
           /\ proc[t] = "" => pr'[t] = pr[t]
           /\ pr'[t] # pr[t] => (proc[t] = "worker-1" /\ pr'[t] = 1) \/ (proc[t] = "worker-2" /\ pr'[t] = 2)
<1>0. WorldType /\ AliveTask(t) /\ StoreType /\ Course(t)
  BY TypeParts DEF Whole, Inv, Alive, Store, OnCourse
<1>1. Pushed(t)
  BY HeadsPushed DEF Whole
<1>2. pr[t] \in 0..2
  BY <1>0 DEF WorldType
<1>3. ASSUME proc[t] = "worker-1" PROVE pr[t] \in {0, 1}
  <2>1. act[t]["worker-1"].st # "succeeded"
    BY <1>0, <1>3 DEF AliveTask, Active
  <2>2. task[t].repair = 0
    BY <1>0, <2>1 DEF StoreType, TaskRows, Course, UnderRepair
  <2> QED
    BY <2>2 DEF Whole, Heading
<1>4. CASE pr'[t] = pr[t]
  BY <1>2, <1>4
<1>5. CASE proc[t] = "worker-1" /\ pr'[t] = 1
  BY <1>2, <1>3, <1>5
<1>6. CASE proc[t] = "worker-2" /\ pr'[t] = 2
  BY <1>2, <1>6
<1> QED
  BY <1>1, <1>4, <1>5, <1>6 DEF Pushed

\* What a step does to a reviewer's action that is active.
ReviewMoved(t, h) ==
    \/ act'[t][Reviewer[h]] = act[t][Reviewer[h]]
    \/ /\ act[t][Reviewer[h]].st = "claimed" /\ act'[t][Reviewer[h]].st = "running"
       /\ MarkAction(t) \/ (run[t][h] = "running" /\ task'[t].run = h)
    \/ EndsReview(t) \/ ResultHandled(t) \/ BootReviewer(t)

\* Only its trigger starts a reviewer, and only a few steps end its action.
LEMMA ReviewsMoved ==
    ASSUME Inv, Next, NEW t \in Tasks, NEW h \in Heads, Active(t, Reviewer[h])
    PROVE  ReviewMoved(t, h)
<1> DEFINE k == Reviewer[h]
<1>0. k \in Kinds /\ k \notin Workers /\ k \in Owned(t) /\ Store
  BY WorkerKinds DEF Inv, Owned, Active
<1> HIDE DEF k
<1> SUFFICES ASSUME act'[t][k] # act[t][k] PROVE ReviewMoved(t, h)
  BY DEF ReviewMoved, k
<1>1. Transaction(t)
  BY OwnTransaction
<1>2. ASSUME Submitted(t) PROVE FALSE
  BY <1>0, <1>2 DEF Submitted, Store, Fresh, Owned
<1>3. ASSUME Provisioned(t) \/ Incident(t) PROVE FALSE
  BY <1>3 DEF Provisioned, Incident
<1>4. ASSUME ReviewQueued(t) PROVE FALSE
  BY <1>0, <1>4 DEF ReviewQueued
<1>5. ASSUME NEW g \in Heads, Concluded(t, g) PROVE ReviewMoved(t, h)
  BY <1>5 DEF Concluded, ReviewMoved
<1>6. ASSUME NEW g \in Heads, RunBound(t, g) PROVE ReviewMoved(t, h)
  <2>1. run[t][g] = "running" /\ act[t][Reviewer[g]].st = "claimed" /\ Start(t, Reviewer[g])
    BY <1>6 DEF RunBound
  <2>2. Reviewer[g] \in Kinds /\ Reviewer[g] \in Owned(t)
    BY <2>1, WorkerKinds DEF Owned
  <2>3. g = h /\ Reviewer[g] = k
    BY <1>0, <2>2, SoleOwner, ReviewerNames DEF k
  <2>4. act'[t][k].st = "running"
    BY <1>0, <2>1, <2>3, OneAct DEF Start
  <2>5. task'[t].run = h
    BY <1>0, <1>6, <2>3 DEF RunBound, Store, StoreType, TaskRows
  <2> QED
    BY <2>1, <2>3, <2>4, <2>5 DEF ReviewMoved, k
<1>7. ASSUME NEW j \in Kinds, Started(t, j) PROVE ReviewMoved(t, h)
  <2>1. j = k
    BY <1>0, <1>7, SoleOwner DEF Started, Owned
  <2>2. act'[t][k].st = "running"
    BY <1>0, <1>7, <2>1, OneAct DEF Started, Start
  <2> QED
    BY <1>0, <1>7, <2>1, <2>2 DEF Started, ReviewMoved, k
<1>8. ASSUME NEW j \in Kinds, NEW s \in Slots, Claimed(t, j, s) PROVE FALSE
  <2>1. j = k
    BY <1>0, <1>8, SoleOwner DEF Claimed, Claimable, Owned
  <2> QED
    BY <1>8, <2>1 DEF Claimed, Claimable, Active, k
<1>9. ASSUME NEW j \in Kinds, NEW st, NEW state, Ended(t, j, st, state) PROVE ReviewMoved(t, h)
  <2>1. j = k
    BY <1>0, <1>9, SoleOwner DEF Ended, Active, Owned
  <2> QED
    BY <1>0, <1>9, <2>1 DEF Ended, ReviewMoved
<1> QED
  BY <1>1, <1>2, <1>3, <1>4, <1>5, <1>6, <1>7, <1>8, <1>9 DEF Transaction

\* The head a trigger works on is the one of the review that is active.
LEMMA SameReview ==
    ASSUME Inv, NEW t \in Tasks, NEW g \in Heads, NEW h \in Heads, Active(t, Reviewer[g]), Active(t, Reviewer[h])
    PROVE  g = h
<1>1. Reviewer[g] \in Owned(t) /\ Reviewer[h] \in Owned(t)
  BY WorkerKinds DEF Owned, Active
<1> QED
  BY <1>1, SoleOwner, ReviewerNames DEF Inv

\* The startup ends a review only if its run is not open.
LEMMA BootReviewOf ==
    ASSUME Inv, NEW t \in Tasks, NEW h \in Heads, BootReviewer(t), Active(t, Reviewer[h])
    PROVE  /\ task[t].head = h /\ task[t].st = "review_running"
           /\ run[t][h] = "running" => act'[t][Reviewer[h]] = act[t][Reviewer[h]]
                                       \/ act'[t][Reviewer[h]].st = "running"
           /\ act[t][Reviewer[h]].st = "claimed" /\ run[t][h] = "none" => act' = act
<1>1. task[t].st \in Runnings
  BY DEF BootReviewer, BootRunning, BootTask
<1>2. Reviewer[h] \in Reviewers /\ Reviewer[h] \in Kinds
  BY WorkerKinds
<1>3. task[t].head \in Heads /\ Reviewer[h] = Reviewer[task[t].head] /\ task[t].st = "review_running"
  BY <1>1, <1>2, Running DEF Inv
<1>4. task[t].head = h
  BY <1>3, ReviewerNames
<1>5. /\ run[t][h] = "running" => UNCHANGED act \/ Start(t, Reviewer[h]) \/ Incident(t)
      /\ act[t][Reviewer[h]].st = "claimed" /\ run[t][h] = "none" => Incident(t)
  BY <1>4 DEF BootReviewer
<1>6. ASSUME Start(t, Reviewer[h]) PROVE act'[t][Reviewer[h]].st = "running"
  BY <1>2, <1>6, OneAct DEF Inv, Start
<1> QED
  BY <1>3, <1>4, <1>5, <1>6 DEF Incident

\* A drain whose review can still be given up has a trigger that started none.
LEMMA GivenUp ==
    ASSUME Whole, DrainReviews, NEW t \in Tasks, t = drain.t, Finishable(t, drain.k, drain.snap)
    PROVE  trig[t].at = "idle" /\ ~Open(t)
<1>1. drain.at = "triggered"
  BY DEF DrainReviews
<1>2. Underway(t)
  BY <1>1 DEF Whole, Awaiting
<1> QED
  BY <1>1, <1>2 DEF Underway

\* A result or a failure ends a review whose run is not open.
LEMMA ReportedReview ==
    ASSUME Whole, NEW t \in Tasks, NEW h \in Heads, Active(t, Reviewer[h]),
           ResultHandled(t) \/ FailureHandled(t), act' # act
    PROVE  run[t][h] \notin {"none", "running"} /\ act[t][Reviewer[h]].st = "running"
<1> DEFINE g == report[t].head
<1>1. report[t].at # "none" /\ g \in Heads /\ act[t][Reviewer[g]].st = "running"
  BY DEF ResultHandled, FailureHandled, ReviewFailable, Accepts, store, Whole, Inv, Reported
<1>2. g = h
  BY <1>1, SameReview DEF Whole, Active
<1> QED
  BY <1>1, <1>2 DEF Whole, Reviewed, ReviewedTask

\* The review of an open run keeps its action, unless its trigger fails to
\* spawn the reviewer.
LEMMA OpenKept ==
    ASSUME Whole, Next, NEW t \in Tasks, NEW h \in Heads, Active(t, Reviewer[h]), run[t][h] = "running",
           rproc[t] = h \/ (trig[t].at = "spawn" /\ pr[t] = h)
    PROVE  Active(t, Reviewer[h])' \/ (ReviewerUnlaunched(t) /\ rproc[t] # h)
<1> DEFINE k == Reviewer[h]
<1>0. Inv /\ ReviewedTask(t) /\ h # 0
  BY DEF Whole, Reviewed, Heads
<1>1. ReviewMoved(t, h)
  BY <1>0, ReviewsMoved
<1>2. CASE act'[t][k] = act[t][k] \/ act'[t][k].st = "running"
  BY <1>2 DEF Active
<1>3. CASE AuthorizeDrifts(t)
  <2>1. trig[t].at = "authorize" /\ rproc[t] = h /\ pr[t] \in Heads
    BY <1>0, <1>3 DEF AuthorizeDrifts, Inv, Triggered
  <2>2. pr[t] # h
    BY <1>0, <2>1 DEF ReviewedTask
  <2>3. ~Active(t, Reviewer[pr[t]])
    BY <1>0, <2>1, <2>2, SameReview
  <2>4. act' = act
    BY <1>3, <2>3 DEF AuthorizeDrifts, Incident, Active
  <2> QED
    BY <1>2, <2>4
<1>4. CASE ReviewerUnlaunched(t)
  <2>1. CASE rproc[t] = h
    <3>1. trig[t].at = "spawn" /\ pr[t] \in Heads
      BY <1>0, <1>4 DEF ReviewerUnlaunched, Inv, Triggered
    <3>2. Active(t, Reviewer[pr[t]]) /\ rproc[t] # pr[t]
      BY <1>0, <3>1 DEF ReviewedTask
    <3> QED
      BY <1>0, <2>1, <3>1, <3>2, SameReview
  <2>2. CASE rproc[t] # h
    BY <1>4, <2>2
  <2> QED
    BY <2>1, <2>2
<1>5. CASE FailureHandled(t) \/ ResultHandled(t)
  BY <1>2, <1>5, ReportedReview
<1>6. CASE BootReviewer(t)
  BY <1>0, <1>2, <1>6, BootReviewOf
<1>7. CASE DrainReviews /\ t = drain.t /\ Finishable(t, drain.k, drain.snap)
  BY <1>0, <1>7, GivenUp DEF Open
<1> QED
  BY <1>1, <1>2, <1>3, <1>4, <1>5, <1>6, <1>7 DEF ReviewMoved, EndsReview

\* A claimed reviewer stays claimed until its trigger started it.
LEMMA ClaimKept ==
    ASSUME Whole, Next, NEW t \in Tasks, trig[t].at = "insert"
    PROVE  act'[t][Reviewer[pr[t]]].st = "claimed"
<1> DEFINE h == pr[t]
           k == Reviewer[h]
<1>0. Inv /\ h \in Heads /\ run[t][h] = "none" /\ act[t][k].st = "claimed" /\ Active(t, k)
  BY DEF Whole, Inv, Triggered, Reviewed, ReviewedTask, Active
<1>1. ReviewMoved(t, h)
  BY <1>0, ReviewsMoved
<1>2. CASE act'[t][k] = act[t][k]
  BY <1>0, <1>2
<1>3. CASE AuthorizeDrifts(t) \/ ReviewerUnlaunched(t) \/ MarkAction(t)
  BY <1>3 DEF AuthorizeDrifts, ReviewerUnlaunched, MarkAction
<1>4. CASE FailureHandled(t) \/ ResultHandled(t)
  BY <1>0, <1>2, <1>4, ReportedReview
<1>5. CASE BootReviewer(t)
  BY <1>0, <1>2, <1>5, BootReviewOf
<1>6. CASE DrainReviews /\ t = drain.t /\ Finishable(t, drain.k, drain.snap)
  BY <1>6, GivenUp
<1>7. CASE run[t][h] = "running"
  BY <1>0, <1>7
<1> QED
  BY <1>1, <1>2, <1>3, <1>4, <1>5, <1>6, <1>7 DEF ReviewMoved, EndsReview

\* Where the trigger of a task goes.
LEMMA TriggerGoes ==
    ASSUME Inv, NEW t \in Tasks, TriggerStep(t)
    PROVE  /\ trig[t].at # "idle"
           /\ trig'[t].at \in {"authorize", "insert"} => AuthorizeAnswers(t) /\ trig'[t].at = "insert"
                                                         /\ act[t][Reviewer[pr[t]]].st = "claimed"
           /\ trig'[t].at = "spawn" => InsertRun(t)
           /\ trig'[t].at = "failrun" => ReviewerUnlaunched(t)
           /\ SpawnReviewer(t) => trig'[t].at = "start"
           /\ InsertRun(t) => trig'[t].at = "spawn"
           /\ FailRun(t) => trig'[t].at = "idle"
           /\ ReviewerUnlaunched(t) => trig'[t].at = "failrun"
<1>0. trig \in [Tasks -> Trigs]
  BY TypeParts DEF Inv, HandlersType
<1>1. trig[t].at # "idle"
  BY DEF TriggerStep, TriggerSteps, AuthorizeQueues, AuthorizeAnswers, InsertRun, SpawnReviewer, FailRun,
         MarkAction, MarkTask, NameReviewer, AuthorizeRejects, AuthorizeDrifts, ReviewerUnlaunched
<1>2. ASSUME NEW at, trig' = [trig EXCEPT ![t].at = at] PROVE trig'[t].at = at
  BY <1>0, <1>2 DEF Trigs
<1>3. ASSUME NEW res, Done(t, res) PROVE trig'[t].at = "idle"
  BY <1>0, <1>3, RowFacts DEF Done
<1>4. ASSUME AuthorizeAnswers(t)
      PROVE  trig'[t].at = "idle" \/ (trig'[t].at = "insert" /\ act[t][Reviewer[pr[t]]].st = "claimed")
  BY <1>2, <1>3, <1>4 DEF AuthorizeAnswers
<1>5. InsertRun(t) => trig'[t].at = "spawn"
  BY <1>2 DEF InsertRun
<1>6. ReviewerUnlaunched(t) => trig'[t].at = "failrun"
  BY <1>2 DEF ReviewerUnlaunched
<1>7. SpawnReviewer(t) => trig'[t].at = "start"
  BY <1>2 DEF SpawnReviewer
<1>8. MarkAction(t) => trig'[t].at \in {"idle", "bind"}
  BY <1>2, <1>3 DEF MarkAction
<1>9. MarkTask(t) => trig'[t].at \in {"idle", "name"}
  BY <1>2, <1>3 DEF MarkTask
<1>10. AuthorizeQueues(t) \/ AuthorizeRejects(t) \/ AuthorizeDrifts(t) \/ FailRun(t) \/ NameReviewer(t)
         => trig'[t].at = "idle"
  BY <1>3 DEF AuthorizeQueues, AuthorizeRejects, AuthorizeDrifts, FailRun, NameReviewer
<1> QED
  BY <1>1, <1>4, <1>5, <1>6, <1>7, <1>8, <1>9, <1>10 DEF TriggerStep, TriggerSteps

\* The head and the run of a review stay as the review needs them.
LEMMA ReviewedNext ==
    ASSUME Whole, Next, NEW t \in Tasks
    PROVE  ReviewedTask(t)'
<1>0. /\ Inv /\ Store /\ WorldType /\ HandlersType /\ ReviewedTask(t) /\ StoreType
      /\ TrigMoved(t) /\ ReportMoved(t) /\ ReviewerMoved(t)
  BY TypeParts, TrigsMoved, ReportsMoved DEF Whole, Inv, Reviewed, Store
<1>1. \A h \in Heads : RunMoved(t, h)
  BY <1>0, RunsMoved
<1>2. /\ pr[t] \in 0..2 /\ pr'[t] \in 0..2 /\ pr[t] <= pr'[t] /\ (proc[t] = "" => pr'[t] = pr[t])
      /\ pr'[t] # pr[t] => pr'[t] \in Heads
  <2>1. 1 \in Heads /\ 2 \in Heads
    BY DEF Heads
  <2> QED
    BY <2>1, HeadGrows
<1>3. trig[t].at # "idle" => pr[t] \in Heads
  BY <1>0 DEF Inv, Triggered
<1>4. rproc[t] \in 0..2 /\ (rproc[t] # 0 => rproc[t] \in Heads)
  BY <1>0, HeadFacts DEF WorldType
<1>5. \A h \in Heads : run[t][h] # "none" => run'[t][h] # "none"
  BY <1>1 DEF RunMoved
<1>6. ASSUME SpawnReviewer(t)
      PROVE  /\ rproc'[t] = pr[t] /\ pr[t] \in Heads /\ UNCHANGED <<store, run, pr>>
             /\ Active(t, Reviewer[pr[t]]) /\ run[t][pr[t]] = "running"
  <2>1. /\ trig[t].at = "spawn" /\ rproc' = [rproc EXCEPT ![t] = pr[t]] /\ UNCHANGED <<store, run, pr>>
    BY <1>6 DEF SpawnReviewer, reviews
  <2> QED
    BY <1>0, <1>3, <2>1 DEF WorldType, ReviewedTask
<1>7. (rproc'[t] # 0 => run'[t][rproc'[t]] # "none")
  BY <1>0, <1>4, <1>5, <1>6 DEF ReviewerMoved, ReviewedTask
<1>8. ASSUME Open(t)' PROVE act'[t][Reviewer[rproc'[t]]].st \in {"claimed", "running"}
  <2>1. rproc'[t] # 0 /\ run'[t][rproc'[t]] = "running"
    BY <1>8 DEF Open
  <2>2. CASE rproc'[t] = rproc[t]
    <3>1. rproc[t] \in Heads /\ run[t][rproc[t]] # "none"
      BY <1>0, <1>4, <2>1, <2>2 DEF ReviewedTask
    <3>2. ~(InsertRun(t) /\ rproc[t] = pr[t])
      BY <1>0, <3>1 DEF InsertRun, ReviewedTask
    <3>3. run[t][rproc[t]] = "running"
      BY <1>1, <2>1, <2>2, <3>1, <3>2 DEF RunMoved
    <3>4. Active(t, Reviewer[rproc[t]])
      BY <1>0, <2>1, <2>2, <3>3 DEF ReviewedTask, Open
    <3>5. PICK h \in Heads : h = rproc[t]
      BY <3>1
    <3>6. Active(t, Reviewer[h])'
      BY <3>3, <3>4, <3>5, OpenKept
    <3> QED
      BY <2>2, <3>5, <3>6 DEF Active
  <2>3. CASE SpawnReviewer(t)
    BY <1>6, <2>3 DEF Active, store
  <2> QED
    BY <1>0, <2>1, <2>2, <2>3 DEF ReviewerMoved
<1>9. ASSUME NEW h \in Heads, run'[t][h] # "none" PROVE h <= pr'[t]
  <2>1. run[t][h] # "none" \/ h = pr[t]
    BY <1>1, <1>9 DEF RunMoved
  <2>2. h = pr[t] \/ h <= pr[t]
    BY <1>0, <2>1 DEF ReviewedTask
  <2>3. pr[t] \in 0..2 /\ pr'[t] \in 0..2 /\ pr[t] <= pr'[t] /\ h \in 1..2
    BY <1>2 DEF Heads
  <2> QED
    BY <2>2, <2>3
<1>10. ASSUME NEW h \in Heads, run[t][h] \notin {"none", "running"} PROVE run'[t][h] \notin {"none", "running"}
  <2>1. ~(InsertRun(t) /\ h = pr[t])
    BY <1>0, <1>10 DEF InsertRun, ReviewedTask
  <2> QED
    BY <1>1, <1>10, <2>1 DEF RunMoved
<1>11. ASSUME report'[t].at # "none" PROVE run'[t][report'[t].head] \notin {"none", "running"}
  <2>1. CASE report'[t] = report[t]
    <3>1. report[t].head \in Heads /\ run[t][report[t].head] \notin {"none", "running"}
      BY <1>0, <1>11, <2>1 DEF Inv, Reported, ReviewedTask
    <3> QED
      BY <1>10, <2>1, <3>1
  <2>2. CASE report'[t] # report[t]
    BY <1>0, <1>11, <2>2 DEF ReportMoved
  <2> QED
    BY <2>1, <2>2
<1>12. ASSUME trig'[t].at \in {"authorize", "insert"} PROVE run'[t][pr'[t]] = "none"
  <2>1. pr'[t] \in Heads /\ run[t][pr'[t]] = "none"
    <3>1. CASE trig[t].at \in {"authorize", "insert"} /\ pr'[t] = pr[t]
      BY <1>0, <1>3, <3>1 DEF ReviewedTask
    <3>2. CASE trig[t].at \in {"authorize", "insert"} /\ pr'[t] # pr[t]
      <4>1. pr'[t] \in Heads /\ (run[t][pr'[t]] # "none" => pr'[t] <= pr[t])
        BY <1>0, <1>2, <3>2 DEF ReviewedTask
      <4>2. pr[t] \in 0..2 /\ pr'[t] \in 0..2 /\ pr[t] <= pr'[t] /\ pr'[t] # pr[t]
        BY <1>2, <3>2
      <4>3. ~(pr'[t] <= pr[t])
        BY <4>2
      <4> QED
        BY <4>1, <4>3
    <3>3. CASE trig[t].at = "idle" /\ Eligible(t) /\ pr' = pr
      BY <1>0, <3>3, HeadFacts DEF Eligible, WorldType
    <3>4. TriggerStep(t) => trig[t].at = "authorize"
      BY <1>0, <1>12, TriggerGoes DEF AuthorizeAnswers
    <3> QED
      BY <1>0, <1>12, <3>1, <3>2, <3>3, <3>4 DEF TrigMoved
  <2>2. ~InsertRun(t) /\ ~FailRun(t)
    BY <1>0, <1>12, TriggerGoes DEF TriggerStep, TriggerSteps
  <2> QED
    BY <1>1, <2>1, <2>2 DEF RunMoved
<1>13. ASSUME trig'[t].at = "insert" PROVE act'[t][Reviewer[pr'[t]]].st = "claimed"
  <2>1. CASE trig[t].at = "insert"
    <3>1. Reviewer[pr[t]] \in Owned(t) /\ Reviewer[pr[t]] \in Reviewers
      BY <1>0, <1>3, <2>1, WorkerKinds DEF ReviewedTask, Owned
    <3>2. pr'[t] = pr[t]
      BY <1>2, <3>1, Settled
    <3> QED
      BY <2>1, <3>2, ClaimKept
  <2>2. CASE trig[t].at # "insert"
    <3>1. AuthorizeAnswers(t) /\ act[t][Reviewer[pr[t]]].st = "claimed"
      BY <1>0, <1>13, <2>2, TriggerGoes DEF TrigMoved
    <3>2. act' = act /\ pr' = pr
      BY <3>1 DEF AuthorizeAnswers, store, world
    <3> QED
      BY <3>1, <3>2
  <2> QED
    BY <2>1, <2>2
<1>14. ASSUME trig'[t].at = "spawn"
       PROVE  /\ act'[t][Reviewer[pr'[t]]].st \in {"claimed", "running"}
              /\ run'[t][pr'[t]] = "running" /\ rproc'[t] # pr'[t]
  <2>1. CASE trig[t].at = "spawn"
    <3>1. /\ Active(t, Reviewer[pr[t]]) /\ run[t][pr[t]] = "running" /\ rproc[t] # pr[t] /\ pr[t] \in Heads
      BY <1>0, <1>3, <2>1 DEF ReviewedTask
    <3>2. Reviewer[pr[t]] \in Owned(t) /\ Reviewer[pr[t]] \in Reviewers
      BY <3>1, WorkerKinds DEF Owned, Active
    <3>3. pr'[t] = pr[t]
      BY <1>2, <3>2, Settled
    <3>4. ~ReviewerUnlaunched(t) /\ ~SpawnReviewer(t) /\ ~FailRun(t)
      BY <1>0, <1>14, TriggerGoes DEF TriggerStep, TriggerSteps
    <3>5. PICK h \in Heads : h = pr[t]
      BY <3>1
    <3>6. Active(t, Reviewer[h])'
      BY <2>1, <3>1, <3>4, <3>5, OpenKept
    <3>7. run'[t][h] = "running"
      BY <1>1, <2>1, <3>1, <3>4, <3>5 DEF RunMoved
    <3>8. rproc'[t] # h
      BY <1>0, <3>1, <3>4, <3>5, HeadFacts DEF ReviewerMoved, Heads
    <3> QED
      BY <3>3, <3>5, <3>6, <3>7, <3>8 DEF Active
  <2>2. CASE trig[t].at # "spawn"
    <3>1. InsertRun(t)
      BY <1>0, <1>14, <2>2, TriggerGoes DEF TrigMoved
    <3>2. /\ trig[t].at = "insert" /\ run' = [run EXCEPT ![t][pr[t]] = "running"]
          /\ act' = act /\ pr' = pr /\ rproc' = rproc
      BY <3>1 DEF InsertRun, store, world
    <3>3. /\ act[t][Reviewer[pr[t]]].st = "claimed" /\ run[t][pr[t]] = "none" /\ pr[t] \in Heads
          /\ (rproc[t] # 0 => run[t][rproc[t]] # "none")
      BY <1>0, <1>3, <3>2 DEF ReviewedTask
    <3>4. run'[t][pr[t]] = "running"
      BY <1>0, <3>2, <3>3 DEF WorldType
    <3>5. rproc[t] # pr[t]
      BY <3>3 DEF Heads
    <3> QED
      BY <3>2, <3>3, <3>4, <3>5
  <2> QED
    BY <2>1, <2>2
<1>15. ASSUME trig'[t].at = "failrun" PROVE task'[t].st \in Ends
  <2>1. CASE trig[t].at = "failrun"
    BY <1>0, <2>1, EndsStay DEF ReviewedTask
  <2>2. CASE trig[t].at # "failrun"
    <3>1. ReviewerUnlaunched(t)
      BY <1>0, <1>15, <2>2, TriggerGoes DEF TrigMoved
    <3>2. trig[t].at = "spawn" /\ Active(t, Reviewer[pr[t]])
      BY <1>0, <3>1 DEF ReviewerUnlaunched, ReviewedTask
    <3>3. CASE Finishable(t, Reviewer[pr[t]], task[t])
      <4>1. task' = [task EXCEPT ![t].st = "failed"]
        BY <3>1, <3>3 DEF ReviewerUnlaunched, Finish
      <4> QED
        BY <1>0, <4>1 DEF StoreType, TaskRows, Ends
    <3>4. CASE ~Finishable(t, Reviewer[pr[t]], task[t])
      BY <3>1, <3>2, <3>4 DEF ReviewerUnlaunched, Finishable, store
    <3> QED
      BY <3>3, <3>4
  <2> QED
    BY <2>1, <2>2
<1>16. ASSUME task'[t].st \in {"review_queued", "review_running", "admission_waiting"}, task'[t] = task[t]
       PROVE  pr'[t] = pr[t]
  <2>1. CASE task[t].st \in {"review_queued", "review_running"}
    <3>1. Reviewer[task[t].head] \in Owned(t) /\ task[t].head \in Heads
      BY <1>0, <2>1 DEF Store, Reviewing
    <3> QED
      BY <1>2, <3>1, Settled, WorkerKinds
  <2>2. CASE task[t].st = "admission_waiting"
    <3>1. Owned(t) = {}
      BY <1>0, <2>2 DEF Store, PhaseOwnsAction, Consistent
    <3> QED
      BY <1>2, <3>1, Settled
  <2> QED
    BY <1>16, <2>1, <2>2
<1>17. ASSUME task'[t].st \in {"review_queued", "review_running", "admission_waiting"} PROVE task'[t].head = pr'[t]
  BY <1>0, <1>16, <1>17, ReviewRows DEF ReviewedTask
<1>18. ASSUME task'[t].st = "review_queued" PROVE task'[t].run = 0
  BY <1>0, <1>18, ReviewRows DEF ReviewedTask
<1>19. ASSUME task'[t].st = "admission_waiting"
       PROVE  /\ task'[t].head \in Heads
              /\ task'[t].run = task'[t].head /\ run'[t][task'[t].head] = "approved"
  <2>1. CASE task'[t] = task[t]
    <3>1. task[t].run = task[t].head /\ run[t][task[t].head] = "approved" /\ task[t].head = pr[t]
      BY <1>0, <1>19, <2>1 DEF ReviewedTask
    <3>2. pr[t] \in Heads
      BY <1>0, <1>19, <2>1 DEF ReviewedTask
    <3>3. ~InsertRun(t) /\ ~FailRun(t)
      <4>1. run[t][pr[t]] # "none" /\ task[t].st \notin Ends
        BY <1>19, <2>1, <3>1 DEF Ends
      <4> QED
        BY <1>0, <4>1 DEF InsertRun, FailRun, ReviewedTask
    <3>4. run'[t][pr[t]] = "approved"
      BY <1>1, <3>1, <3>2, <3>3 DEF RunMoved
    <3> QED
      BY <2>1, <3>1, <3>2, <3>4
  <2>2. CASE task'[t] # task[t]
    BY <1>0, <1>19, <2>2, ReviewRows
  <2> QED
    BY <2>1, <2>2
<1> QED
  BY <1>7, <1>8, <1>9, <1>11, <1>12, <1>13, <1>14, <1>15, <1>17, <1>18, <1>19 DEF ReviewedTask, Active

\* An action gets a slot only from the drain, and a reviewer is started by its
\* trigger, or by the startup with its run.
LEMMA ActiveBefore ==
    ASSUME Inv, Next, NEW t \in Tasks, NEW h \in Heads, drain.at # "claim",
           act'[t][Reviewer[h]].st \in {"claimed", "running"}
    PROVE  /\ Active(t, Reviewer[h])
           /\ \/ act'[t][Reviewer[h]] = act[t][Reviewer[h]]
              \/ MarkAction(t) \/ task'[t].run = h
<1> DEFINE k == Reviewer[h]
<1>0. k \in Kinds /\ k \in Reviewers /\ k \notin Workers /\ Store
  BY WorkerKinds DEF Inv
<1> HIDE DEF k
<1> SUFFICES ASSUME act'[t][k] # act[t][k]
             PROVE  Active(t, k) /\ (MarkAction(t) \/ task'[t].run = h)
  BY DEF Active, k
<1>a. act'[t][k].st \in {"claimed", "running"}
  BY DEF k
<1>1. Transaction(t)
  BY OwnTransaction
<1>2. ASSUME NEW j \in Kinds, NEW st, NEW slot, SetAct(t, j, st, slot) PROVE j = k /\ st \in {"claimed", "running"}
  BY <1>0, <1>2, <1>a, OneAct
<1>3. ASSUME Submitted(t) \/ ReviewQueued(t) PROVE FALSE
  <2>1. PICK j \in Kinds : Enqueue(t, j)
    BY <1>3, WorkerKinds DEF Submitted, ReviewQueued
  <2> QED
    BY <1>2, <2>1 DEF Enqueue
<1>4. ASSUME Provisioned(t) \/ Incident(t) PROVE FALSE
  BY <1>4 DEF Provisioned, Incident
<1>5. ASSUME NEW g \in Heads, Concluded(t, g) PROVE FALSE
  <2>1. act'[t][k] \in {[st |-> "succeeded", slot |-> 0], [st |-> "queued", slot |-> 0], act[t][k]}
    BY <1>0, <1>5 DEF Concluded, Conclude, Store, StoreType
  <2> QED
    BY <1>a, <2>1
<1>6. ASSUME NEW g \in Heads, RunBound(t, g) PROVE Active(t, k) /\ task'[t].run = h
  <2>1. act[t][Reviewer[g]].st = "claimed" /\ Start(t, Reviewer[g]) /\ Reviewer[g] \in Kinds
    BY <1>6, WorkerKinds DEF RunBound
  <2>2. Reviewer[g] = k
    BY <1>2, <2>1 DEF Start
  <2>3. g = h
    BY <2>2, ReviewerNames DEF k
  <2>4. task'[t].run = h
    BY <1>0, <1>6, <2>3 DEF RunBound, Store, StoreType, TaskRows
  <2> QED
    BY <2>1, <2>2, <2>4 DEF Active
<1>7. ASSUME NEW j \in Kinds, Started(t, j) PROVE Active(t, k) /\ MarkAction(t)
  <2>1. j = k
    BY <1>2, <1>7 DEF Started, Start
  <2> QED
    BY <1>0, <1>7, <2>1 DEF Started, Active
<1>8. ASSUME NEW j \in Kinds, NEW s \in Slots, Claimed(t, j, s) PROVE FALSE
  BY <1>8 DEF Claimed
<1>9. ASSUME NEW j \in Kinds, NEW st, NEW state, Ended(t, j, st, state) PROVE FALSE
  <2>1. SetAct(t, j, st, 0) /\ st \in {"succeeded", "failed"}
    BY <1>9 DEF Ended, Finish
  <2> QED
    BY <1>2, <2>1
<1> QED
  BY <1>1, <1>3, <1>4, <1>5, <1>6, <1>7, <1>8, <1>9 DEF Transaction

\* What makes a session ready for a launch is the report of an exit or a launch.
RowMoved(t) ==
    \/ row'[t] = row[t]
    \/ row'[t].act = "exited"
    \/ drain.at = "mark" \/ exit[t].at = "report"

\* How the row of a session moves.
LEMMA RowsMoved ==
    ASSUME Inv, Next, NEW t \in Tasks
    PROVE  RowMoved(t)
<1>0. row \in [Tasks -> Rows]
  BY TypeParts DEF Inv, WorldType
<1>1. CASE row' = row
  BY <1>1 DEF RowMoved
<1>2. CASE DrainSteps \/ DrainRefuses \/ DrainUnmarked \/ DrainCancelled
  BY <1>1, <1>2 DEF DrainSteps, DrainStart, DrainEnds, DrainClaims, DrainReads, DrainLooks, DrainBinds, DrainTriggers,
              DrainReviews, DrainRefuses, DrainCancelled, DrainCreates, DrainMarks, DrainUnmarked, RowMoved
<1>3. ASSUME NEW u \in Tasks, TriggerStep(u) PROVE RowMoved(t)
  BY <1>1, <1>3 DEF TriggerStep, TriggerSteps, AuthorizeQueues, AuthorizeAnswers, InsertRun, FailRun, SpawnReviewer,
              MarkAction, MarkTask, NameReviewer, AuthorizeRejects, AuthorizeDrifts, ReviewerUnlaunched
<1>4. ASSUME NEW u \in Tasks,
             \/ HandlerSteps(u) \/ ProcessSteps(u) \/ ExitUnreported(u) \/ ReviewerUnreported(u)
             \/ Submit(u) \/ Provision(u) \/ Nudge(u) \/ Reap(u)
      PROVE  RowMoved(t)
  <2>1. CASE ExitReported(u)
    <3>1. exit[u].at = "report" /\ (row' = row \/ \E r : row' = [row EXCEPT ![u] = r])
      BY <2>1 DEF ExitReported
    <3> QED
      BY <1>0, <3>1 DEF RowMoved
  <2>2. CASE Reap(u)
    <3>1. row' = [row EXCEPT ![u].act = "exited"]
      BY <2>2 DEF Reap
    <3> QED
      BY <1>0, <3>1 DEF RowMoved, Rows
  <2>3. CASE ~ExitReported(u) /\ ~Reap(u)
    BY <1>1, <1>4, <2>3 DEF HandlerSteps, ProcessSteps, ExitUnreported, ReviewerUnreported, Submit, Provision, Nudge,
                  ExitReads, ExitBinds, ExitFinishes, ResultHandled, FailureHandled, WorkerExits,
                  ReviewerFails, ReviewerSubmits
  <2> QED
    BY <2>1, <2>2, <2>3
<1>5. CASE BootSteps \/ Crash
  <2>1. CASE BootRuntime
    <3>1. PICK gone \in SUBSET Tasks :
            row' = [u \in Tasks |-> IF u \in gone THEN [row[u] EXCEPT !.act = "exited"] ELSE row[u]]
      BY <2>1 DEF BootRuntime
    <3>2. row[t] \in Rows /\ row'[t] = IF t \in gone THEN [row[t] EXCEPT !.act = "exited"] ELSE row[t]
      BY <1>0, <3>1
    <3> QED
      BY <3>2 DEF RowMoved, Rows
  <2>2. CASE ~BootRuntime
    BY <1>1, <1>5, <2>2 DEF BootSteps, Crash, BootReviewed, BootDrains, BootProvisions, BootPasses, BootReview,
                BootAborts, BootReviewer, BootWorker, BootUninspected, BootUnnamed, BootRunning, BootTask
  <2> QED
    BY <2>1, <2>2
<1> QED
  BY <1>2, <1>3, <1>4, <1>5 DEF Next, Failures, TriggerStep

\* The task that a drain waits to have reviewed was so before the step.
LEMMA FinishableBefore ==
    ASSUME Whole, Next, NEW t \in Tasks, NEW h \in Heads, drain.at # "claim",
           act'[t][Reviewer[h]].st \in {"claimed", "running"},
           task'[t].st = "review_running", task'[t].run = 0, task'[t].head = h
    PROVE  /\ task'[t] = task[t] /\ Active(t, Reviewer[h]) /\ pr[t] = h /\ pr'[t] = h
           /\ act'[t][Reviewer[h]] = act[t][Reviewer[h]] \/ MarkAction(t)
           /\ proc[t] = "" /\ exit[t].at # "report"
<1>0. Inv /\ 0 \notin Heads /\ ReviewedTask(t) /\ ReviewedTask(t)' /\ AliveTask(t)
  BY ReviewedNext DEF Whole, Heads, Reviewed, Alive
<1>1. task'[t] = task[t]
  BY <1>0, ReviewRows
<1>2. Active(t, Reviewer[h]) /\ (act'[t][Reviewer[h]] = act[t][Reviewer[h]] \/ MarkAction(t))
  BY <1>0, ActiveBefore
<1>3. pr[t] = h /\ pr'[t] = h
  BY <1>0, <1>1 DEF ReviewedTask
<1>4. Reviewer[h] \in Reviewers /\ Reviewer[h] \in Owned(t)
  BY <1>2, WorkerKinds DEF Owned, Active
<1>5. proc[t] = ""
  BY <1>4, Settled
<1> QED
  BY <1>0, <1>1, <1>2, <1>3, <1>5 DEF AliveTask

\* A trigger that works for a drain whose review is not bound ends only with
\* the review.
LEMMA TriggerKept ==
    ASSUME Whole, Next, NEW t \in Tasks, NEW h \in Heads, TriggerStep(t),
           trig[t].at # "name", Open(t) => trig[t].at \in {"start", "bind"},
           act[t][Reviewer[h]].st = "running" => trig[t].at = "bind",
           act'[t][Reviewer[h]].st \in {"claimed", "running"},
           task[t].st = "review_running", task[t].run = 0, task[t].head = h,
           task'[t] = task[t], pr[t] = h, Active(t, Reviewer[h])
    PROVE  /\ trig'[t].at \notin {"idle", "name"}
           /\ MarkAction(t) => trig[t].at = "start" /\ trig'[t].at = "bind"
           /\ trig[t].at # "bind"
           /\ trig[t].at = "start" => MarkAction(t)
<1> DEFINE k == Reviewer[h]
<1>0. /\ Inv /\ StoreType /\ ReviewedTask(t) /\ trig \in [Tasks -> Trigs] /\ Reviewer[pr[t]] = k /\ k \in Kinds
      /\ h # 0
  <2>1. Inv /\ StoreType /\ ReviewedTask(t) /\ trig \in [Tasks -> Trigs]
    BY TypeParts DEF Whole, Inv, Store, Reviewed, HandlersType
  <2>2. Reviewer[pr[t]] = k /\ k \in Kinds
    BY WorkerKinds
  <2>3. h # 0
    BY DEF Heads
  <2> QED
    BY <2>1, <2>2, <2>3
<1>1. task[t].st \notin Ends /\ task[t].st # "ci_waiting" /\ Finishable(t, k, task[t])
  BY DEF Ends, Finishable
<1>2. ASSUME NEW at, trig' = [trig EXCEPT ![t].at = at] PROVE trig'[t].at = at
  BY <1>0, <1>2 DEF Trigs
<1>3. CASE AuthorizeQueues(t) \/ AuthorizeRejects(t)
  BY <1>1, <1>3 DEF AuthorizeQueues, AuthorizeRejects
<1>4. CASE AuthorizeDrifts(t)
  <2>1. \/ task' = [task EXCEPT ![t].st = "failed"]
        \/ task' = [task EXCEPT ![t].st = "incident"]
    BY <1>1, <1>4 DEF AuthorizeDrifts, Finish, Incident
  <2> QED
    BY <1>0, <2>1 DEF StoreType, TaskRows
<1>5. CASE AuthorizeAnswers(t)
  <2>1. trig[t].at = "authorize" /\ act[t][k].st = "claimed"
    BY <1>5 DEF AuthorizeAnswers, Active
  <2>2. trig' = [trig EXCEPT ![t].at = "insert"]
    BY <1>0, <1>5, <2>1 DEF AuthorizeAnswers
  <2>3. ~MarkAction(t)
    BY <2>1 DEF MarkAction
  <2> QED
    BY <1>2, <2>1, <2>2, <2>3
<1>6. CASE InsertRun(t) \/ SpawnReviewer(t)
  <2>1. trig[t].at \in {"insert", "spawn"} /\ ~MarkAction(t)
    BY <1>6 DEF InsertRun, SpawnReviewer, MarkAction
  <2>2. trig'[t].at \in {"spawn", "start"}
    BY <1>2, <1>6 DEF InsertRun, SpawnReviewer
  <2> QED
    BY <2>1, <2>2
<1>7. CASE ReviewerUnlaunched(t)
  <2>1. task' = [task EXCEPT ![t].st = "failed"]
    BY <1>0, <1>1, <1>7 DEF ReviewerUnlaunched, Finish
  <2> QED
    BY <1>0, <2>1 DEF StoreType, TaskRows
<1>8. CASE FailRun(t)
  BY <1>0, <1>1, <1>8 DEF FailRun, ReviewedTask
<1>9. CASE MarkAction(t)
  <2>1. trig[t].at = "start" /\ act[t][k].st = "claimed"
    BY <1>9 DEF MarkAction, Active
  <2>2. trig' = [trig EXCEPT ![t].at = "bind"]
    BY <1>0, <1>9, <2>1 DEF MarkAction
  <2> QED
    BY <1>2, <1>9, <2>1, <2>2
<1>10. CASE MarkTask(t)
  <2>1. task' = [task EXCEPT ![t].run = h]
    BY <1>10 DEF MarkTask
  <2>2. task'[t].run = h
    BY <1>0, <2>1 DEF StoreType, TaskRows
  <2> QED
    BY <1>0, <2>2
<1>11. CASE NameReviewer(t)
  BY <1>11 DEF NameReviewer
<1> QED
  BY <1>3, <1>4, <1>5, <1>6, <1>7, <1>8, <1>9, <1>10, <1>11 DEF TriggerStep, TriggerSteps

\* A drain that has asked for a review keeps waiting for the trigger it started.
LEMMA AwaitingNext ==
    ASSUME Whole, Next
    PROVE  Awaiting'
<1> SUFFICES ASSUME drain'.at \in {"trigger", "wait", "triggered"}
             PROVE  /\ drain'.snap.st = "review_running" /\ drain'.snap.run = 0 /\ drain'.snap.head \in Heads
                    /\ drain'.k = Reviewer[drain'.snap.head]
                    /\ Finishable(drain.t, drain.k, drain.snap)' => Underway(drain.t)'
  BY DEF Awaiting
<1>0. /\ Inv /\ Store /\ StoreType /\ WorldType /\ HandlersType /\ Inv' /\ Launched'
      /\ DrainReviewed
  BY DrainsReviewed, TypeParts, InvNext, AliveNext DEF Whole, Inv, Store
<1>1. PICK t \in Tasks : t = drain'.t
  BY <1>0 DEF Inv, Draining
<1>2. CASE DrainClaims
  <2>1. PICK k \in Kinds, s \in Slots, u \in Tasks :
          /\ Head(queue) = <<u, k>> /\ LowestFree(s) /\ SetAct(u, k, "claimed", s)
          /\ task' = [task EXCEPT ![u].st = RunningState[k]]
          /\ drain' = [drain EXCEPT !.at = IF k \in Workers THEN "validate" ELSE "trigger",
                                    !.t = u, !.k = k, !.snap = task'[u]]
    BY <1>2 DEF DrainClaims
  <2>2. /\ drain'.at = IF k \in Workers THEN "validate" ELSE "trigger"
        /\ drain'.t = u /\ drain'.k = k /\ drain'.snap = task'[u]
    BY <1>0, <2>1 DEF HandlersType, Drains
  <2>3. u = t /\ k \in Reviewers /\ drain'.at = "trigger" /\ k \in Kinds
    BY <1>1, <2>2 DEF Kinds
  <2>4. Claimable(t, k)
    BY <1>2, <2>1, <2>3 DEF DrainClaims, HeadClaimable
  <2>5. act[t][k].st = "queued" /\ task[t].st = "review_queued" /\ RunningState[k] = "review_running"
    BY <2>3, <2>4 DEF Claimable, QueuedState, RunningState, Reviewers, Workers, Kinds
  <2>6. task[t].run = 0 /\ task[t].head \in Heads /\ k = Reviewer[task[t].head]
    <3>1. k \in Owned(t)
      BY <2>5 DEF Owned
    <3> QED
      BY <1>0, <2>5, <3>1 DEF Store, Reviewing, Whole, Reviewed, ReviewedTask
  <2>7. task'[t].st = "review_running" /\ task'[t].run = task[t].run /\ task'[t].head = task[t].head
    BY <1>0, <2>1, <2>3, <2>5 DEF StoreType, TaskRows
  <2>8. /\ drain'.snap.st = "review_running" /\ drain'.snap.run = 0 /\ drain'.snap.head \in Heads
        /\ drain'.k = Reviewer[drain'.snap.head]
    BY <2>2, <2>3, <2>6, <2>7
  <2>9. ~Open(t)
    <3>1. ASSUME Open(t) PROVE FALSE
      <4>1. rproc[t] \in Heads /\ Active(t, Reviewer[rproc[t]])
        BY <1>0, <3>1, HeadFacts DEF Open, Whole, Reviewed, ReviewedTask
      <4>2. Reviewer[rproc[t]] \in Owned(t) /\ k \in Owned(t)
        BY <2>3, <2>5, <4>1, WorkerKinds DEF Owned, Active
      <4>3. Reviewer[rproc[t]] = k
        BY <1>0, <4>2, SoleOwner
      <4> QED
        BY <2>5, <4>1, <4>3 DEF Active
    <3> QED
      BY <3>1
  <2>10. act'[t][k].st = "claimed"
    BY <1>0, <2>1, <2>3, OneAct
  <2>11. rproc' = rproc /\ run' = run
    BY <1>2 DEF DrainClaims, reviews, world
  <2>12. PICK j \in Kinds : j = drain'.k /\ act'[t][j].st = "claimed"
    BY <2>2, <2>3, <2>10
  <2>13. Underway(t)'
    BY <2>3, <2>9, <2>11, <2>12 DEF Underway, Open
  <2> QED
    BY <1>1, <2>8, <2>13
<1>3. CASE ~DrainClaims
  <2>1. /\ drain.at \in {"trigger", "wait", "triggered"}
        /\ drain'.t = drain.t /\ drain'.k = drain.k /\ drain'.snap = drain.snap
        /\ \/ drain'.at = drain.at
           \/ drain'.at = "wait" /\ trig'[t].at = "authorize" /\ DrainTriggers
           \/ drain'.at = "triggered" /\ trig[t].at = "idle" /\ ~Eligible(t) /\ DrainTriggers
           \/ drain.at = "wait" /\ drain'.at = "triggered" /\ TriggerStep(t) /\ trig'[t].at = "idle"
    BY <1>0, <1>1, <1>3 DEF DrainReviewed
  <2>2. /\ drain.snap.st = "review_running" /\ drain.snap.run = 0 /\ drain.snap.head \in Heads
        /\ drain.k = Reviewer[drain.snap.head] /\ drain.t = t
        /\ Finishable(t, drain.k, drain.snap) => Underway(t)
    BY <1>1, <2>1 DEF Whole, Awaiting
  <2> SUFFICES ASSUME Finishable(drain.t, drain.k, drain.snap)' PROVE Underway(t)'
    BY <1>1, <2>1, <2>2
  <2>3. PICK h \in Heads : h = drain.snap.head
    BY <2>2
  <2> DEFINE k == Reviewer[h]
  <2>4. /\ act'[t][k].st \in {"claimed", "running"} /\ task'[t].st = "review_running"
        /\ task'[t].run = 0 /\ task'[t].head = h /\ task'[t] = drain.snap
    BY <1>1, <2>1, <2>2, <2>3 DEF Finishable, Active
  <2>5. /\ task'[t] = task[t] /\ Active(t, k) /\ pr[t] = h /\ pr'[t] = h
        /\ act'[t][k] = act[t][k] \/ MarkAction(t)
        /\ proc[t] = "" /\ exit[t].at # "report"
    BY <2>1, <2>4, FinishableBefore
  <2>6. Finishable(t, drain.k, drain.snap)
    BY <2>2, <2>3, <2>4, <2>5 DEF Finishable, Ends
  <2>7. /\ drain.at = "wait" => trig[t].at # "name"
        /\ Open(t) => trig[t].at \in {"start", "bind"}
        /\ act[t][k].st = "running" => trig[t].at = "bind"
        /\ drain.at = "triggered" => trig[t].at = "idle" /\ ~Eligible(t)
    BY <2>2, <2>3, <2>6 DEF Underway
  <2>8. /\ TrigMoved(t) /\ ReviewerMoved(t) /\ RowMoved(t) /\ ReviewedTask(t) /\ ReviewedTask(t)'
        /\ RunMoved(t, h) /\ h # 0
    BY <1>0, TrigsMoved, ReportsMoved, RowsMoved, RunsMoved, ReviewedNext DEF Whole, Reviewed, Heads
  <2>9. ASSUME TriggerStep(t), trig[t].at # "name"
        PROVE  /\ trig'[t].at \notin {"idle", "name"}
               /\ MarkAction(t) => trig[t].at = "start" /\ trig'[t].at = "bind"
               /\ trig[t].at # "bind"
               /\ trig[t].at = "start" => MarkAction(t)
    BY <2>4, <2>5, <2>7, <2>9, TriggerKept
  <2>10. PICK j \in Kinds : j = drain'.k /\ j = k
    BY <2>1, <2>2, <2>3, WorkerKinds
  <2>11. MarkAction(t) => TriggerStep(t) /\ trig[t].at # "name"
    BY DEF MarkAction, TriggerStep, TriggerSteps
  <2>12. drain'.at = "wait" => trig'[t].at # "name"
    <3>1. CASE drain.at = "wait" /\ drain'.at = "wait"
      BY <2>7, <2>8, <2>9, <3>1 DEF TrigMoved
    <3>2. CASE drain'.at # drain.at
      BY <2>1, <3>2
    <3> QED
      BY <3>1, <3>2
  <2>13. act'[t][j].st = "running" => trig'[t].at = "bind"
    <3>1. CASE MarkAction(t)
      BY <2>9, <2>11, <3>1
    <3>2. CASE act'[t][k] = act[t][k] /\ act[t][k].st = "running"
      <4>1. trig[t].at = "bind"
        BY <2>7, <3>2
      <4>2. ~TriggerStep(t)
        BY <2>9, <4>1
      <4> QED
        BY <1>0, <2>1, <2>8, <4>1, <4>2 DEF TrigMoved
    <3> QED
      BY <2>5, <2>10, <3>1, <3>2
  <2>14. Open(t)' => trig'[t].at \in {"start", "bind"}
    <3> SUFFICES ASSUME Open(t)' PROVE trig'[t].at \in {"start", "bind"}
      OBVIOUS
    <3>1. CASE SpawnReviewer(t)
      <4>1. TriggerStep(t)
        BY <3>1 DEF TriggerStep, TriggerSteps
      <4> QED
        BY <1>0, <3>1, <4>1, TriggerGoes
    <3>2. CASE ~SpawnReviewer(t)
      <4>1. rproc'[t] = rproc[t] /\ rproc[t] # 0 /\ run'[t][rproc[t]] = "running" /\ rproc[t] \in Heads
        BY <1>0, <2>8, <3>2, HeadFacts DEF Open, ReviewerMoved
      <4>2. RunMoved(t, rproc[t])
        BY <1>0, <4>1, RunsMoved
      <4>3. Open(t)
        BY <2>8, <4>1, <4>2 DEF RunMoved, InsertRun, ReviewedTask, Open
      <4>4. trig[t].at \in {"start", "bind"}
        BY <2>7, <4>3
      <4>5. CASE TriggerStep(t)
        BY <2>9, <4>4, <4>5
      <4>6. CASE ~TriggerStep(t)
        BY <1>0, <2>8, <4>4, <4>6 DEF TrigMoved
      <4> QED
        BY <4>5, <4>6
    <3> QED
      BY <3>1, <3>2
  <2>15. drain'.at = "triggered" => trig'[t].at = "idle" /\ ~Eligible(t)'
    <3> SUFFICES ASSUME drain'.at = "triggered" PROVE trig'[t].at = "idle" /\ ~Eligible(t)'
      OBVIOUS
    <3>1. CASE drain.at = "triggered" \/ DrainTriggers
      <4>1. trig[t].at = "idle" /\ ~Eligible(t)
        BY <1>0, <2>1, <2>7, <3>1, TriggerGoes DEF DrainTriggers
      <4>2. ~TriggerStep(t)
        BY <1>0, <4>1, TriggerGoes
      <4>3. trig'[t].at = "idle"
        BY <2>8, <4>1, <4>2 DEF TrigMoved
      <4>4. ~Eligible(t)'
        <5>1. ASSUME row'[t].act = "idle", row'[t].launch = "" PROVE row'[t] = row[t]
          <6>1. drain.at # "mark"
            BY <2>1
          <6> QED
            BY <2>5, <2>8, <5>1, <6>1 DEF RowMoved
        <5>2. run'[t][h] = "none" => run[t][h] = "none"
          BY <2>8 DEF RunMoved
        <5> QED
          BY <2>5, <2>8, <4>1, <5>1, <5>2 DEF Eligible, LaunchReady
      <4> QED
        BY <4>3, <4>4
    <3>2. CASE drain.at # "triggered" /\ ~DrainTriggers
      <4>1. TriggerStep(t) /\ trig'[t].at = "idle" /\ drain.at = "wait"
        BY <2>1, <3>2
      <4> QED
        BY <2>7, <2>9, <4>1
    <3> QED
      BY <3>1, <3>2
  <2> QED
    BY <2>10, <2>12, <2>13, <2>14, <2>15 DEF Underway
<1> QED
  BY <1>2, <1>3

\* The repair count of a task grows only when the first review asked for changes.
LEMMA RepairGrows ==
    ASSUME Whole, Next, NEW t \in Tasks
    PROVE  \/ task'[t].repair = task[t].repair
           \/ task[t].repair = 0 /\ task'[t].repair = 1 /\ run'[t][1] = "changes"
<1>0. Inv /\ Store /\ Heading /\ OnCourse
  BY DEF Whole, Inv
<1>1. CASE UNCHANGED store
  BY <1>1 DEF store
<1>2. CASE ~UNCHANGED store
  <2>1. PICK u \in Tasks : Transaction(u)
    BY <1>0, <1>2, StepMakes
  <2>2. run' = run
    BY <1>0, <1>2, StoreOrWorld
  <2>3. CASE u = t
    BY <1>0, <2>1, <2>2, <2>3, TransactionCourse
  <2>4. CASE u # t
    BY <1>0, <2>1, <2>4, OthersKept
  <2> QED
    BY <2>3, <2>4
<1> QED
  BY <1>1, <1>2

\* The repair pushes its head only after the first review, and the findings
\* that asked for it stay.
LEMMA HeadingNext ==
    ASSUME Whole, Next
    PROVE  Heading'
<1> SUFFICES ASSUME NEW t \in Tasks
             PROVE  /\ task'[t].repair = 0 => pr'[t] \in {0, 1}
                    /\ task'[t].repair = 1 /\ task'[t].st \notin Ends => run'[t][1] = "changes"
  BY DEF Heading
<1>0. Inv /\ Course(t) /\ AliveTask(t) /\ ReviewedTask(t)
  BY DEF Whole, OnCourse, Alive, Reviewed
<1>1. /\ task[t].repair = 0 => pr[t] \in {0, 1}
      /\ task[t].repair = 1 /\ task[t].st \notin Ends => run[t][1] = "changes"
  BY DEF Whole, Heading
<1>2. \/ task'[t].repair = task[t].repair
      \/ task[t].repair = 0 /\ task'[t].repair = 1 /\ run'[t][1] = "changes"
  BY RepairGrows
<1>3. ASSUME task'[t].repair = 0 PROVE pr'[t] \in {0, 1}
  <2>1. Unrepaired(t) /\ pr[t] \in {0, 1}
    BY <1>0, <1>1, <1>2, <1>3 DEF Course
  <2>2. proc[t] # "worker-2"
    BY <1>0, <2>1 DEF Unrepaired, AliveTask, Active
  <2> QED
    BY <2>1, <2>2, HeadGrows
<1>4. ASSUME task'[t].repair = 1, task'[t].st \notin Ends PROVE run'[t][1] = "changes"
  <2>1. CASE task[t].repair = 1
    <3>1. task[t].st \notin Ends /\ run[t][1] = "changes"
      BY <1>0, <1>1, <1>4, <2>1, EndsStay
    <3>2. 1 \in Heads
      BY DEF Heads
    <3>3. RunMoved(t, 1)
      BY <1>0, <3>2, RunsMoved
    <3>4. ~(InsertRun(t) /\ pr[t] = 1) /\ ~FailRun(t)
      BY <1>0, <3>1 DEF InsertRun, FailRun, ReviewedTask
    <3> QED
      BY <3>1, <3>3, <3>4 DEF RunMoved
  <2>2. CASE task[t].repair # 1
    BY <1>2, <1>4, <2>2
  <2> QED
    BY <2>1, <2>2
<1> QED
  BY <1>3, <1>4

\* Every task is on its course from the start.
LEMMA WholeInit == Init => Whole
<1> SUFFICES ASSUME Init PROVE Whole
  OBVIOUS
<1>1. Inv
  BY InvInit
<1>2. ASSUME NEW t \in Tasks
      PROVE  /\ task[t] = NoTask /\ pr[t] = 0 /\ rproc[t] = 0 /\ proc[t] = "" /\ trig[t].at = "idle"
             /\ exit[t].at = "none" /\ report[t].at = "none" /\ row[t].act = "idle"
  BY DEF Init, NoTrig, NoExit, NoReport
<1>b. \A t \in Tasks : \A k \in Kinds : act[t][k].st = "none"
  BY DEF Init, NoAct
<1>c. \A t \in Tasks : \A h \in Heads : run[t][h] = "none"
  BY DEF Init
<1>3. NoTask.st = "absent" /\ NoTask.repair = 0 /\ NoTask.head = 0 /\ NoTask.run = 0
  BY DEF NoTask
<1>4. drain.at = "idle"
  BY RowFacts DEF Init
<1>a. ASSUME NEW t \in Tasks
      PROVE  task[t].st = "absent" /\ task[t].repair = 0 /\ task[t].head = 0 /\ task[t].run = 0
  BY <1>2, <1>3
<1>5. ASSUME NEW t \in Tasks PROVE Course(t)
  <2>1. act[t]["worker-2"].st = "none" /\ act[t]["review-2"].st = "none" /\ act[t]["review-1"].st = "none"
    BY <1>b, KindNames
  <2> QED
    BY <1>a, <2>1 DEF Course, Unrepaired
<1>6. ASSUME NEW t \in Tasks
      PROVE  /\ task[t].repair = 0 => pr[t] \in {0, 1}
             /\ task[t].repair = 1 /\ task[t].st \notin Ends => run[t][1] = "changes"
  <2>1. pr[t] = 0
    BY <1>2
  <2> QED
    BY <1>a, <2>1
<1>7. Alive
  BY <1>2 DEF Alive, AliveTask
<1>8. Launched /\ Awaiting
  BY <1>4 DEF Launched, Awaiting
<1>9. ASSUME NEW t \in Tasks PROVE ReviewedTask(t)
  <2>1. \A h \in Heads : ~(run[t][h] # "none")
    BY <1>c
  <2>2. task[t].st \notin {"review_queued", "review_running", "admission_waiting"}
    BY <1>a
  <2>3. trig[t].at \notin {"authorize", "insert", "spawn", "failrun"} /\ rproc[t] = 0 /\ report[t].at = "none"
    BY <1>2
  <2> QED
    BY <2>1, <2>2, <2>3 DEF ReviewedTask, Open
<1> QED
  BY <1>1, <1>5, <1>6, <1>7, <1>8, <1>9 DEF Whole, OnCourse, Heading, Reviewed

\* Every step leaves every task on its course.
LEMMA WholeNext == Whole /\ [Next]_vars => Whole'
<1> SUFFICES ASSUME Whole, [Next]_vars PROVE Whole'
  OBVIOUS
<1>0. Inv' /\ Inv /\ Store
  BY InvNext DEF Whole, Inv
<1>1. CASE UNCHANGED vars
  <2> USE <1>1 DEF vars, store, reviews, world, handlers
  <2>1. UNCHANGED <<task, act, row, run, rproc, proc, pr, drain, trig, exit, report, boot>>
    OBVIOUS
  <2>2. OnCourse'
    BY <2>1 DEF Whole, OnCourse, Course, Unrepaired, UnderRepair
  <2>3. Heading'
    BY <2>1 DEF Whole, Heading
  <2>6. Alive'
    BY <2>1 DEF Whole, Alive, AliveTask, Active
  <2>7. Launched'
    BY <2>1 DEF Whole, Launched
  <2>4. Reviewed'
    BY <2>1 DEF Whole, Reviewed, ReviewedTask, Open, Active
  <2>5. Awaiting'
    BY <2>1 DEF Whole, Awaiting, Underway, Finishable, Open, Active, Eligible, LaunchReady
  <2> QED
    BY <1>0, <2>2, <2>3, <2>4, <2>5, <2>6, <2>7 DEF Whole
<1>2. CASE Next
  <2>1. OnCourse'
    <3>1. CASE UNCHANGED store
      BY <3>1 DEF store, Whole, OnCourse, Course, Unrepaired, UnderRepair
    <3>2. ASSUME NEW t \in Tasks, Transaction(t) PROVE OnCourse'
      BY <1>0, <3>2, TransactionCourse DEF Whole
    <3> QED
      BY <1>0, <1>2, <3>1, <3>2, StepMakes
  <2>2. Alive' /\ Launched'
    BY <1>2, AliveNext DEF Whole
  <2>3. Reviewed'
    BY <1>2, ReviewedNext DEF Reviewed
  <2>4. Heading' /\ Awaiting'
    BY <1>2, HeadingNext, AwaitingNext
  <2> QED
    BY <1>0, <2>1, <2>2, <2>3, <2>4 DEF Whole
<1> QED
  BY <1>1, <1>2
-----------------------------------------------------------------------------
(* The queue implements the model actions it promises.                     *)

\* The kinds of actions are the stages of the promise, each after its predecessor.
LEMMA PromisedStages ==
    /\ Promise!Stages = Kinds
    /\ Promise!Follows["review-1"] = "worker-1"
    /\ Promise!Follows["worker-2"] = "review-1"
    /\ Promise!Follows["review-2"] = "worker-2"
    /\ Promise!Idle = NoAct
<1>1. Promise!Stages = Kinds
  BY DEF Promise!Stages, Kinds, Workers, Reviewers
<1>2. {"review-1", "worker-2", "review-2"} \subseteq Promise!Stages \ {"worker-1"}
  BY DEF Promise!Stages
<1> QED
  BY <1>1, <1>2 DEF Promise!Follows, Promise!Idle, NoAct

\* A submitted task, and a head to review, queue the next action.
LEMMA QueuedAsPromised ==
    ASSUME Whole, NEW t \in Tasks, Submitted(t) \/ ReviewQueued(t)
    PROVE  Promise!Step
<1>0. Store /\ Heading /\ Course(t)
  BY DEF Whole, Inv, OnCourse
<1>1. PICK k \in Kinds :
        /\ Enqueue(t, k) /\ act[t][k].st = "none"
        /\ k # "worker-1" => act[t][Promise!Follows[k]].st = "succeeded"
  <2>1. CASE Submitted(t)
    BY <1>0, <2>1, KindNames DEF Submitted, Store, Fresh
  <2>2. CASE ReviewQueued(t)
    <3>1. Reviewer[pr[t]] \in Kinds /\ Enqueue(t, Reviewer[pr[t]])
      BY <2>2, KindNames DEF ReviewQueued
    <3>2. \/ pr[t] = 1 /\ act[t]["review-1"].st = "none" /\ act[t]["worker-1"].st = "succeeded"
          \/ pr[t] = 2 /\ act[t]["review-2"].st = "none" /\ act[t]["worker-2"].st = "succeeded"
      BY <1>0, <2>2, ReviewQueuedCourse
    <3> QED
      BY <3>1, <3>2, KindNames, PromisedStages
  <2> QED
    BY <2>1, <2>2
<1>2. Promise!Queue(t, k)
  BY <1>1 DEF Enqueue, SetAct, Promise!Queue, Promise!Set
<1> QED
  BY <1>2, PromisedStages DEF Promise!Step

\* A claim takes the head of the queue into a slot that nobody has.
LEMMA ClaimedAsPromised ==
    ASSUME Whole, NEW t \in Tasks, NEW k \in Kinds, NEW s \in Slots, Claimed(t, k, s)
    PROVE  Promise!Step
<1>1. \A u \in Tasks, j \in Kinds : act[u][j].slot # s
  <2> SUFFICES ASSUME NEW u \in Tasks, NEW j \in Kinds PROVE act[u][j].slot # s
    OBVIOUS
  <2>1. CASE Active(u, j)
    BY <2>1 DEF Claimed, FreeSlots
  <2>2. CASE ~Active(u, j)
    BY <2>2 DEF Whole, Inv, Store, SlotsExclusive
  <2> QED
    BY <2>1, <2>2
<1>2. Promise!Claim(t, k, s)
  BY <1>1, PromisedStages DEF Claimed, Claimable, SetAct, Promise!Claim, Promise!Set
<1> QED
  BY <1>2, PromisedStages DEF Promise!Step

\* The start of an action, by whoever is first.
LEMMA StartedAsPromised ==
    ASSUME NEW t \in Tasks, NEW k \in Kinds, act[t][k].st = "claimed", Start(t, k), UNCHANGED queue
    PROVE  Promise!Step
<1>1. Promise!Start(t, k)
  BY DEF Start, SetAct, Promise!Start, Promise!Set
<1> QED
  BY <1>1, PromisedStages DEF Promise!Step

\* The end of an action frees its slot.
LEMMA EndedAsPromised ==
    ASSUME NEW t \in Tasks, NEW k \in Kinds, Active(t, k), NEW st \in {"succeeded", "failed"},
           SetAct(t, k, st, 0), UNCHANGED queue
    PROVE  Promise!Step
<1>1. Promise!End(t, k, st)
  BY DEF Active, SetAct, Promise!Busy, Promise!End, Promise!Set
<1> QED
  BY <1>1, PromisedStages DEF Promise!Step

\* A verdict ends the review, and queues the repair with the first findings.
LEMMA ConcludedAsPromised ==
    ASSUME Whole, NEW t \in Tasks, NEW h \in Heads, Concluded(t, h)
    PROVE  Promise!Step
<1> DEFINE repairs == run[t][h] = "changes" /\ task[t].repair = 0
           k == Reviewer[h]
           done == [st |-> "succeeded", slot |-> 0]
           next == [st |-> "queued", slot |-> 0]
           rows == [j \in Kinds |-> IF j = k THEN done ELSE IF repairs /\ j = "worker-2" THEN next ELSE act[t][j]]
<1>0. /\ Store /\ Course(t) /\ act \in [Tasks -> [Kinds -> ActRows]] /\ Active(t, k)
      /\ k \in Kinds /\ k # "worker-2" /\ task[t].head = h
  BY KindNames DEF Whole, Inv, OnCourse, Store, StoreType, Concluded
<1>1. /\ act' = [act EXCEPT ![t] = rows]
      /\ queue' = IF repairs THEN Append(queue, <<t, "worker-2">>) ELSE queue
  BY <1>0 DEF Concluded, Conclude
<1>2. act[t] \in [Kinds -> ActRows]
  BY <1>0
<1>3. CASE ~repairs
  <2>1. rows = [act[t] EXCEPT ![k] = done]
    BY <1>0, <1>2, <1>3
  <2>2. SetAct(t, k, "succeeded", 0)
    BY <1>1, <2>1 DEF SetAct
  <2> QED
    BY <1>0, <1>1, <1>3, <2>2, EndedAsPromised
<1>4. CASE repairs
  <2>1. Unrepaired(t)
    BY <1>0, <1>4 DEF Course
  <2>2. k = "review-1" /\ act[t]["worker-2"].st = "none"
    BY <1>0, <2>1, KindNames DEF Unrepaired
  <2>3. rows = [[act[t] EXCEPT !["review-1"] = done] EXCEPT !["worker-2"] = next]
    BY <1>0, <1>2, <1>4, <2>2
  <2>4. act' = [act EXCEPT ![t]["review-1"] = done, ![t]["worker-2"] = next]
    BY <1>0, <1>1, <2>3
  <2>5. Promise!EndAndRepair(t)
    BY <1>0, <1>1, <1>4, <2>2, <2>4 DEF Active, Promise!Busy, Promise!EndAndRepair
  <2> QED
    BY <2>5 DEF Promise!Step
<1> QED
  BY <1>3, <1>4

\* Every transaction is a step of the promise, or none.
LEMMA KeepsPromise ==
    ASSUME Whole, NEW t \in Tasks, Transaction(t)
    PROVE  Promise!Step \/ UNCHANGED <<act, queue>>
<1>1. CASE Submitted(t) \/ ReviewQueued(t)
  BY <1>1, QueuedAsPromised
<1>2. CASE Provisioned(t) \/ Incident(t)
  BY <1>2 DEF Provisioned, Incident
<1>3. ASSUME NEW h \in Heads, Concluded(t, h) PROVE Promise!Step
  BY <1>3, ConcludedAsPromised
<1>4. ASSUME NEW h \in Heads, RunBound(t, h) PROVE Promise!Step \/ UNCHANGED <<act, queue>>
  BY <1>4, StartedAsPromised, KindNames DEF RunBound
<1>5. ASSUME NEW k \in Kinds, Started(t, k) PROVE Promise!Step
  BY <1>5, StartedAsPromised DEF Started
<1>6. ASSUME NEW k \in Kinds, NEW s \in Slots, Claimed(t, k, s) PROVE Promise!Step
  BY <1>6, ClaimedAsPromised
<1>7. ASSUME NEW k \in Kinds, NEW st \in {"succeeded", "failed"}, NEW state, Ended(t, k, st, state)
      PROVE  Promise!Step
  BY <1>7, EndedAsPromised DEF Ended, Finish
<1> QED
  BY <1>1, <1>2, <1>3, <1>4, <1>5, <1>6, <1>7 DEF Transaction
-----------------------------------------------------------------------------
(* Nothing waits                                                           *)

\* A step that nothing of fails, in a daemon that has not died.
Calm == crashes = 0 /\ faults = 0

\* A daemon that never died serves; its triggers are for events and drains, and
\* who is given up holds no action.
Serving ==
    /\ boot = "up"
    /\ \A t \in Tasks :
         /\ trig[t].by # "boot" /\ trig[t].at # "failrun"
         /\ task[t].st = "incident" => Owned(t) = {}

\* A handler that the drain has overtaken, or will be once it comes to bind.
Doomed(t) == exit[t].at \in {"bind", "overtaken"} /\ \A k \in Workers : act[t][k].st # "claimed"

\* A drain holds an active action that somebody ends, or somebody waits to
\* drain after it.
Held ==
    /\ drain.at \notin {"idle", "claim"} => (Active(drain.t, drain.k) /\ ~Doomed(drain.t)) \/ wanted
    /\ drain.at = "validate" => act[drain.t][drain.k].st = "claimed" /\ task[drain.t] = drain.snap
    /\ drain.at = "mark" => proc[drain.t] = drain.k

\* What could be claimed has a drain to come, no slot that is free, or an active
\* action that somebody ends.
Watched ==
    HeadClaimable => \/ wanted \/ drain.at # "idle" \/ FreeSlots = {}
                     \/ \E t \in Tasks, k \in Kinds : Active(t, k) /\ ~Doomed(t)

\* An active worker has a process whose exit will be taken, a handler that ends
\* it or was overtaken when it was started, or a drain that launches it.
Awake(t) ==
    /\ proc[t] # "" /\ ~Launching(t) => row[t].launch = proc[t]
    /\ exit[t].at \in {"bind", "finish"} => task[t] = exit[t].snap
    /\ exit[t].at = "overtaken" => Doomed(t)
    /\ \A k \in Workers : Active(t, k) =>
         proc[t] # "" \/ exit[t].at \in {"read", "bind", "finish", "overtaken"} \/ (drain.at = "validate" /\ drain.t = t)

\* A trigger that launches has its action claimed, and started only when the
\* reviewer is there.
Asked(t) ==
    /\ trig[t].at \in {"insert", "spawn", "start"} => act[t][Reviewer[pr[t]]].st = "claimed"
    /\ trig[t].at = "bind" => act[t][Reviewer[pr[t]]].st = "running"
    /\ trig[t].at \in {"start", "bind"} => rproc[t] = pr[t] /\ run[t][pr[t]] = "running" /\ task[t].run # pr[t]

\* An active reviewer has the drain that claimed it, a process that will report,
\* or a report that ends it.
Heard(t) ==
    /\ \A k \in Reviewers : act[t][k].st = "claimed" =>
         drain.at \in {"trigger", "wait", "triggered"} /\ drain.t = t /\ drain.k = k /\ task[t] = drain.snap
    /\ \A h \in Heads : act[t][Reviewer[h]].st = "running" =>
         /\ (rproc[t] = h /\ run[t][h] = "running") \/ (report[t].at # "none" /\ report[t].head = h)
         /\ report[t].at # "none" /\ report[t].head = h => task[t].run = h

Tended(t) == Awake(t) /\ Asked(t) /\ Heard(t)
Attended == Serving /\ Held /\ Watched /\ \A t \in Tasks : Tended(t)

\* What the invariant tells in every case.
Given == Whole /\ Attended

-----------------------------------------------------------------------------
\* Of a failure the budget tells.
LEMMA NoFault ==
    ASSUME TypeOK, faults' = 0 PROVE ~Fault /\ faults \in Nat /\ crashes \in Nat
<1>1. faults \in Nat /\ crashes \in Nat
  BY TypeParts, PolicyQueueAssumption DEF BootType
<1> QED
  BY <1>1 DEF Fault

\* The steps of a task in a daemon that nothing fails in.
CalmStep(t) ==
    \/ Submit(t) \/ Provision(t) \/ Nudge(t) \/ Reap(t) \/ AuthorizeRejects(t)
    \/ AuthorizeQueues(t) \/ AuthorizeAnswers(t) \/ InsertRun(t) \/ SpawnReviewer(t)
    \/ MarkAction(t) \/ MarkTask(t) \/ NameReviewer(t)
    \/ HandlerSteps(t) \/ (ProcessSteps(t) /\ UNCHANGED budget)

\* The budget is left as it is, or a failure or a death is taken from it.
LEMMA Budgeted ==
    ASSUME TypeOK, Next, crashes' = 0, faults' = 0 PROVE Calm
<1>0. ~Fault /\ crashes \in Nat /\ faults \in Nat
  BY NoFault
<1> SUFFICES crashes' \in {crashes, crashes + 1} /\ (faults' = faults \/ Fault)
  BY <1>0 DEF Calm
<1>1. CASE DrainSteps
  BY <1>1 DEF DrainSteps, DrainStart, DrainEnds, DrainClaims, DrainCreates, DrainMarks, DrainReads,
     DrainLooks, DrainBinds, DrainTriggers, DrainReviews, budget
<1>2. CASE DrainRefuses \/ DrainUnmarked \/ DrainCancelled \/ Crash
  BY <1>2 DEF DrainRefuses, DrainUnmarked, DrainCancelled, Crash, Fault, budget
<1>3. CASE BootSteps
  BY <1>3 DEF BootSteps, BootRuntime, BootReviewed, BootDrains, BootReview, BootProvisions, BootPasses,
     BootAborts, BootReviewer, BootWorker, BootUninspected, BootUnnamed, Fault, budget
<1>4. ASSUME NEW t \in Tasks, Submit(t) \/ Provision(t) \/ Nudge(t) \/ Reap(t) \/ TriggerSteps(t) \/ HandlerSteps(t)
      PROVE  UNCHANGED budget
  BY <1>4 DEF Submit, Provision, Nudge, Reap, TriggerSteps, AuthorizeQueues, AuthorizeAnswers, InsertRun,
     SpawnReviewer, FailRun, MarkAction, MarkTask, NameReviewer, HandlerSteps, ExitReported, ExitReads, ExitBinds,
     ExitFinishes, ResultHandled, FailureHandled, budget
<1>5. ASSUME NEW t \in Tasks, ProcessSteps(t) \/ Failures(t)
      PROVE  crashes' = crashes /\ (faults' = faults \/ Fault)
  BY <1>5 DEF ProcessSteps, WorkerExits, ReviewerFails, ReviewerSubmits, Failures, AuthorizeRejects,
     AuthorizeDrifts, ReviewerUnlaunched, ExitUnreported, ReviewerUnreported, Fault, budget
<1> QED
  BY <1>1, <1>2, <1>3, <1>4, <1>5 DEF Next, budget

\* What can happen as long as nothing fails.
LEMMA CalmSteps ==
    ASSUME Given, Next, Calm, Calm'
    PROVE  /\ boot' = boot
           /\ \/ DrainSteps \/ (DrainRefuses /\ ~LaunchReady(drain.t))
              \/ \E t \in Tasks : CalmStep(t)
<1>0. ~Fault /\ crashes \in Nat /\ boot = "up" /\ crashes' = crashes /\ UNCHANGED budget
  BY NoFault DEF Given, Attended, Serving, Whole, Inv, Calm, budget
<1>1. ~DrainUnmarked /\ ~DrainCancelled /\ (DrainRefuses => ~LaunchReady(drain.t))
  BY <1>0 DEF DrainUnmarked, DrainCancelled, DrainRefuses
<1>7. ~Crash
  <2>1. Crash => crashes' = crashes + 1
    BY DEF Crash
  <2> QED
    BY <1>0, <2>1
<1>2. ~BootSteps
  BY <1>0 DEF BootSteps, BootRuntime, BootReviewed, BootDrains, BootReview, BootProvisions, BootPasses,
     BootAborts, BootReviewer, BootWorker, BootUninspected, BootUnnamed, BootTask, BootRunning
<1>3. \A t \in Tasks : ~AuthorizeDrifts(t) /\ ~ReviewerUnlaunched(t) /\ ~ExitUnreported(t) /\ ~ReviewerUnreported(t)
                       /\ ~FailRun(t)
  BY <1>0 DEF AuthorizeDrifts, ReviewerUnlaunched, ExitUnreported, ReviewerUnreported, FailRun, Given,
     Attended, Serving
<1>4. \/ DrainSteps \/ (DrainRefuses /\ ~LaunchReady(drain.t))
      \/ \E t \in Tasks : CalmStep(t)
  BY <1>0, <1>1, <1>2, <1>3, <1>7 DEF Next, Failures, TriggerSteps, CalmStep
<1>5. DrainSteps \/ DrainRefuses => boot' = boot
  BY DEF DrainSteps, DrainStart, DrainEnds, DrainClaims, DrainCreates, DrainMarks, DrainReads,
     DrainLooks, DrainBinds, DrainTriggers, DrainReviews, DrainRefuses
<1>6. ASSUME NEW t \in Tasks, CalmStep(t) PROVE boot' = boot
  BY <1>6 DEF CalmStep, Submit, Provision, Nudge, Reap, AuthorizeRejects, AuthorizeQueues, AuthorizeAnswers,
     InsertRun, SpawnReviewer, MarkAction, MarkTask, NameReviewer, HandlerSteps, ExitReported, ExitReads, ExitBinds,
     ExitFinishes, ResultHandled, FailureHandled, ProcessSteps, WorkerExits, ReviewerFails, ReviewerSubmits
<1> QED
  BY <1>4, <1>5, <1>6

-----------------------------------------------------------------------------
\* A trigger that has no action in its hands.
Unasked(t) == trig[t].at \in {"idle", "authorize", "name"}

\* A task has one shift at a time: its worker's, its reviewer's, or none.
LEMMA OneShift ==
    ASSUME Given, NEW t \in Tasks
    PROVE  /\ \A k \in Workers : Active(t, k) => Unasked(t) /\ \A j \in Reviewers : ~Active(t, j)
           /\ \A k \in Reviewers : Active(t, k) =>
                proc[t] = "" /\ exit[t].at = "none" /\ \A j \in Workers : ~Active(t, j)
           /\ (\A k \in Kinds : ~Active(t, k)) => proc[t] = "" /\ exit[t].at = "none" /\ Unasked(t)
<1>1. /\ Inv /\ Store /\ AliveTask(t) /\ Asked(t) /\ HandlersType
      /\ trig[t].at # "failrun" /\ (trig[t].at # "idle" => pr[t] \in Heads)
  BY TypeParts DEF Given, Whole, Inv, Alive, Attended, Tended, Serving, Triggered
<1>2. ~Unasked(t) => pr[t] \in Heads /\ Active(t, Reviewer[pr[t]])
  BY <1>1 DEF HandlersType, Trigs, Unasked, Asked, Active
<1>3. ASSUME NEW j \in Workers, NEW k \in Reviewers, Active(t, j), Active(t, k) PROVE FALSE
  <2>1. j \in Owned(t) /\ k \in Owned(t)
    BY <1>3, WorkerKinds DEF Owned, Active
  <2> QED
    BY <1>1, <2>1, SoleOwner, WorkerKinds
<1>4. exit[t].at \in {"none", "report", "read", "bind", "finish", "overtaken"} /\ (proc[t] # "" => proc[t] \in Workers)
  BY <1>1, TypeParts DEF HandlersType, Exits, Inv, WorldType
<1>5. (proc[t] = "" /\ exit[t].at = "none") \/ \E k \in Workers : Active(t, k)
  BY <1>1, <1>4 DEF AliveTask
<1> QED
  BY <1>2, <1>3, <1>5, WorkerKinds

\* The drain is where it was, or goes on with a review.
DrainHolds ==
    \/ drain' = drain
    \/ /\ drain.at \in {"trigger", "wait", "triggered"} /\ drain'.at \in {"trigger", "wait", "triggered"}
       /\ drain'.t = drain.t /\ drain'.k = drain.k /\ drain'.snap = drain.snap

\* A drain that has nothing to do with a task, or nothing new.
Aside(u) == drain.at \in {"idle", "claim", "read", "look", "bind"} \/ drain.t # u
DrainStays(u) == DrainHolds \/ (Aside(u) /\ Aside(u)')

\* A task that a step does not touch.
Untouched(u) ==
    /\ task'[u] = task[u] /\ act'[u] = act[u] /\ row'[u].launch = row[u].launch
    /\ proc'[u] = proc[u] /\ exit'[u] = exit[u] /\ rproc'[u] = rproc[u] /\ pr'[u] = pr[u]
    /\ run'[u] = run[u] /\ report'[u] = report[u] /\ trig'[u] = trig[u]
    /\ DrainStays(u)

\* It is tended as it was.
LEMMA UntouchedTended ==
    ASSUME NEW u \in Tasks, Tended(u), Untouched(u) PROVE Tended(u)'
<1>1. Awake(u)'
  BY DEF Tended, Awake, Doomed, Untouched, DrainStays, DrainHolds, Aside, Launching, Active
<1>2. Asked(u)'
  BY DEF Tended, Asked, Untouched
<1>3. Heard(u)'
  BY DEF Tended, Heard, Untouched, DrainStays, DrainHolds, Aside
<1> QED
  BY <1>1, <1>2, <1>3 DEF Tended

\* What is left to show of a task without a shift, with a worker's, or with a
\* reviewer's.
LEMMA ByShift ==
    ASSUME NEW t \in Tasks
    PROVE  /\ proc'[t] = "" /\ exit'[t].at = "none" /\ Unasked(t)' /\ (\A k \in Kinds : ~Active(t, k)')
                => Tended(t)'
           /\ Awake(t)' /\ Unasked(t)' /\ (\A k \in Reviewers : ~Active(t, k)') => Tended(t)'
           /\ proc'[t] = "" /\ exit'[t].at = "none" /\ (\A k \in Workers : ~Active(t, k)') /\ Asked(t)' /\ Heard(t)'
                => Tended(t)'
<1>1. proc'[t] = "" /\ exit'[t].at = "none" /\ (\A k \in Workers : ~Active(t, k)') => Awake(t)'
  BY DEF Awake
<1>2. Unasked(t)' => Asked(t)'
  BY DEF Unasked, Asked
<1>3. (\A k \in Reviewers : ~Active(t, k)') => Heard(t)'
  BY WorkerKinds DEF Heard, Active
<1> QED
  BY <1>1, <1>2, <1>3, WorkerKinds DEF Tended

\* The trigger of a task that returns tells the drain that asked, or has the
\* queue drained.
LEMMA DoneCalm ==
    ASSUME Given, NEW t \in Tasks, NEW res, Done(t, res)
    PROVE  /\ DrainHolds
           /\ (drain' = drain /\ wanted') \/ (trig[t].by = "drain" /\ drain'.at = "triggered" /\ wanted' = wanted)
           /\ trig' = [trig EXCEPT ![t] = NoTrig]
<1>1. /\ drain \in Drains /\ trig[t].by \in {"event", "drain"} /\ wanted \in BOOLEAN
      /\ trig[t].by = "drain" => drain.at = "wait"
  BY TypeParts DEF Given, Whole, Inv, HandlersType, Trigs, Attended, Serving, Triggered
<1>2. CASE trig[t].by = "drain"
  <2>1. drain' = [drain EXCEPT !.at = "triggered", !.res = res] /\ wanted' = wanted
    BY <1>1, <1>2 DEF Done
  <2>2. drain'.at = "triggered" /\ drain'.t = drain.t /\ drain'.k = drain.k /\ drain'.snap = drain.snap
    BY <1>1, <2>1 DEF Drains
  <2> QED
    BY <1>1, <1>2, <2>1, <2>2 DEF Done, DrainHolds
<1>3. CASE trig[t].by = "event"
  BY <1>1, <1>3 DEF Done, DrainHolds
<1> QED
  BY <1>1, <1>2, <1>3

\* The drain of a step that is not its own.
LEMMA DrainOfOthers ==
    ASSUME Given, NEW t \in Tasks, CalmStep(t)
    PROVE  DrainHolds
<1>1. CASE \/ AuthorizeRejects(t) \/ AuthorizeQueues(t) \/ AuthorizeAnswers(t) \/ MarkAction(t) \/ MarkTask(t)
           \/ NameReviewer(t)
  <2>1. drain' = drain \/ \E res : Done(t, res)
    BY <1>1 DEF AuthorizeRejects, AuthorizeQueues, AuthorizeAnswers, MarkAction, MarkTask, NameReviewer
  <2> QED
    BY <2>1, DoneCalm DEF DrainHolds
<1>2. CASE ~(\/ AuthorizeRejects(t) \/ AuthorizeQueues(t) \/ AuthorizeAnswers(t) \/ MarkAction(t) \/ MarkTask(t)
             \/ NameReviewer(t))
  <2>1. drain' = drain
    BY <1>2 DEF CalmStep, Submit, Provision, Nudge, Reap, InsertRun, SpawnReviewer, HandlerSteps, ExitReported,
       ExitReads, ExitBinds, ExitFinishes, ResultHandled, FailureHandled, ProcessSteps, WorkerExits, ReviewerFails,
       ReviewerSubmits, handlers
  <2> QED
    BY <2>1 DEF DrainHolds
<1> QED
  BY <1>1, <1>2

\* A step of one task leaves the others alone.
LEMMA OthersUntouched ==
    ASSUME Given, NEW t \in Tasks, CalmStep(t), NEW u \in Tasks, u # t
    PROVE  Untouched(u)
<1>0. Inv /\ Store /\ WorldType /\ HandlersType
  BY TypeParts DEF Given, Whole, Inv
<1>1. UNCHANGED store \/ Transaction(t)
  <2>1. \/ TriggerSteps(t) \/ AuthorizeRejects(t) \/ AuthorizeDrifts(t) \/ ReviewerUnlaunched(t)
        \/ HandlerSteps(t) \/ ProcessSteps(t) \/ ExitUnreported(t) \/ ReviewerUnreported(t)
        \/ Submit(t) \/ Provision(t) \/ Nudge(t) \/ Reap(t)
    BY DEF CalmStep, TriggerSteps
  <2> QED
    BY <1>0, <2>1, TriggerMakes, HandlerMakes
<1>2. task'[u] = task[u] /\ act'[u] = act[u]
  BY <1>0, <1>1, OthersKept DEF store
<1>3. row'[u].launch = row[u].launch /\ proc'[u] = proc[u] /\ exit'[u] = exit[u]
  <2>1. CASE Reap(t) \/ ExitReported(t) \/ WorkerExits(t) \/ ExitReads(t) \/ ExitBinds(t) \/ ExitFinishes(t)
    BY <1>0, <2>1 DEF Reap, ExitReported, WorkerExits, ExitReads, ExitBinds, ExitFinishes, WorldType, HandlersType, world,
       handlers
  <2>2. CASE ~(Reap(t) \/ ExitReported(t) \/ WorkerExits(t) \/ ExitReads(t) \/ ExitBinds(t) \/ ExitFinishes(t))
    <3>1. UNCHANGED <<row, proc, exit>>
      BY <2>2 DEF CalmStep, Submit, Provision, Nudge, AuthorizeRejects, AuthorizeQueues, AuthorizeAnswers,
         InsertRun, SpawnReviewer, MarkAction, MarkTask, NameReviewer, HandlerSteps, ResultHandled, FailureHandled,
         ProcessSteps, ReviewerFails, ReviewerSubmits, handlers, world
    <3> QED
      BY <3>1
  <2> QED
    BY <2>1, <2>2
<1>4. rproc'[u] = rproc[u] /\ run'[u] = run[u] /\ report'[u] = report[u]
  <2>1. CASE \/ InsertRun(t) \/ SpawnReviewer(t) \/ ReviewerFails(t) \/ ResultHandled(t) \/ FailureHandled(t)
             \/ \E verdict \in {"approved", "changes"} : ReviewerSubmits(t, verdict)
    BY <1>0, <2>1 DEF InsertRun, SpawnReviewer, ReviewerFails, ReviewerSubmits, ResultHandled, FailureHandled,
       WorldType, HandlersType, world, handlers, reviews
  <2>2. CASE ~(\/ InsertRun(t) \/ SpawnReviewer(t) \/ ReviewerFails(t) \/ ResultHandled(t) \/ FailureHandled(t)
               \/ \E verdict \in {"approved", "changes"} : ReviewerSubmits(t, verdict))
    <3>1. UNCHANGED <<rproc, run, report>>
      BY <2>2 DEF CalmStep, Submit, Provision, Nudge, Reap, AuthorizeRejects, AuthorizeQueues, AuthorizeAnswers,
         MarkAction, MarkTask, NameReviewer, HandlerSteps, ExitReported, ExitReads, ExitBinds, ExitFinishes,
         ProcessSteps, WorkerExits, handlers, world, reviews
    <3> QED
      BY <3>1
  <2> QED
    BY <2>1, <2>2
<1>5. pr'[u] = pr[u]
  <2>1. CASE WorkerExits(t)
    BY <1>0, <2>1 DEF WorkerExits, WorldType
  <2>2. CASE ~WorkerExits(t)
    BY <2>2 DEF CalmStep, Submit, Provision, Nudge, Reap, AuthorizeRejects, AuthorizeQueues, AuthorizeAnswers,
       InsertRun, SpawnReviewer, MarkAction, MarkTask, NameReviewer, HandlerSteps, ExitReported, ExitReads, ExitBinds,
       ExitFinishes, ResultHandled, FailureHandled, ProcessSteps, ReviewerFails, ReviewerSubmits, world
  <2> QED
    BY <2>1, <2>2
<1>6. trig'[u] = trig[u]
  <2>1. trig' = trig \/ \E x : trig' = [trig EXCEPT ![t] = x]
    BY DEF CalmStep, Submit, Provision, Nudge, Reap, AuthorizeRejects, AuthorizeQueues, AuthorizeAnswers, Done,
       InsertRun, SpawnReviewer, MarkAction, MarkTask, NameReviewer, HandlerSteps, ExitReported, ExitReads, ExitBinds,
       ExitFinishes, ResultHandled, FailureHandled, ProcessSteps, WorkerExits, ReviewerFails, ReviewerSubmits,
       handlers
  <2> QED
    BY <1>0, <2>1 DEF HandlersType
<1> QED
  BY <1>2, <1>3, <1>4, <1>5, <1>6, DrainOfOthers DEF Untouched, DrainStays

\* As long as nothing fails, the task of an active action is running, and it is
\* its only one.
LEMMA OnTheJob ==
    ASSUME Given, NEW t \in Tasks, NEW k \in Kinds, Active(t, k)
    PROVE  task[t].st = RunningState[k] /\ task[t].st \notin Ends /\ Owned(t) = {k}
<1>1. Store /\ (task[t].st = "incident" => Owned(t) = {}) /\ Consistent(t)
  BY DEF Given, Whole, Inv, Attended, Serving, Store, PhaseOwnsAction
<1>2. k \in Owned(t)
  BY DEF Owned, Active
<1>3. task[t].st \notin Ends
  BY <1>1, <1>2 DEF Ends, Consistent
<1> QED
  BY <1>1, <1>3, ActiveTask

\* A step that begins and ends between two shifts.
LEMMA BetweenShifts ==
    ASSUME Given, NEW t \in Tasks, CalmStep(t),
           Submit(t) \/ Provision(t) \/ AuthorizeRejects(t) \/ AuthorizeQueues(t)
    PROVE  /\ \A k \in Kinds : ~Active(t, k) /\ ~Active(t, k)'
           /\ Tended(t)'
<1>0. Inv /\ Store /\ StoreType /\ HandlersType
  BY TypeParts DEF Given, Whole, Inv, Store
<1>1. \A k \in Kinds : ~Active(t, k)
  <2>1. task[t].st \in {"absent", "reserved", "ci_waiting"}
    BY DEF Submit, Provision, AuthorizeRejects, AuthorizeQueues
  <2> QED
    BY <2>1, OnTheJob, KindFacts DEF Runnings
<1>2. \A k \in Kinds : ~Active(t, k)'
  <2>1. act' = act \/ \E k \in Kinds : SetAct(t, k, "queued", 0)
    <3>1. AuthorizeQueues(t) => Reviewer[pr[t]] \in Kinds
      BY <1>0, WorkerKinds DEF AuthorizeQueues, Inv, Triggered
    <3> QED
      BY <3>1, WorkerKinds DEF Submit, Provision, AuthorizeRejects, AuthorizeQueues, Enqueue, Incident
  <2>2. ASSUME NEW k \in Kinds, SetAct(t, k, "queued", 0) PROVE \A j \in Kinds : ~Active(t, j)'
    BY <1>0, <1>1, <2>2, OneAct DEF Active
  <2> QED
    BY <1>1, <2>1, <2>2 DEF Active
<1>3. proc' = proc /\ exit' = exit
  BY DEF Submit, Provision, AuthorizeRejects, AuthorizeQueues, world, handlers
<1>4. Unasked(t)'
  <2>1. trig' = trig \/ trig' = [trig EXCEPT ![t] = NoTrig]
    BY DEF Submit, Provision, AuthorizeRejects, AuthorizeQueues, Done, handlers
  <2>2. Unasked(t)
    BY <1>1, OneShift
  <2> QED
    BY <1>0, <2>1, <2>2, RowFacts DEF Unasked, HandlersType
<1> QED
  BY <1>1, <1>2, <1>3, <1>4, OneShift, ByShift

\* A step of a task that changes no more than its trigger, and that to none with an
\* action in its hands.
LEMMA OnlyAsked ==
    ASSUME NEW t \in Tasks, Tended(t), Unasked(t)', DrainStays(t),
           task'[t] = task[t], act'[t] = act[t], row'[t].launch = row[t].launch,
           proc'[t] = proc[t], exit'[t] = exit[t], rproc'[t] = rproc[t], pr'[t] = pr[t],
           run'[t] = run[t], report'[t] = report[t]
    PROVE  Tended(t)'
<1>1. Awake(t)'
  BY DEF Tended, Awake, Doomed, DrainStays, DrainHolds, Aside, Launching, Active
<1>2. Asked(t)'
  BY DEF Asked, Unasked
<1>3. Heard(t)'
  BY DEF Tended, Heard, DrainStays, DrainHolds, Aside
<1> QED
  BY <1>1, <1>2, <1>3 DEF Tended

\* Events that ask for a review, the reaper, and the end of a trigger.
LEMMA NudgeTended ==
    ASSUME Given, NEW t \in Tasks, CalmStep(t), Nudge(t) \/ Reap(t) \/ NameReviewer(t)
    PROVE  Tended(t)'
<1>0. HandlersType /\ WorldType /\ Tended(t)
  BY TypeParts DEF Given, Whole, Inv, Attended
<1>1. CASE Reap(t)
  <2>1. /\ UNCHANGED <<task, act, proc, exit, rproc, pr, run, report, trig, drain>>
        /\ row'[t].launch = row[t].launch
    BY <1>0, <1>1 DEF Reap, WorldType, Rows, store, reviews, world, handlers
  <2> QED
    BY <1>0, <2>1, UntouchedTended DEF Untouched, DrainStays, DrainHolds
<1>2. CASE Nudge(t) \/ NameReviewer(t)
  <2>1. UNCHANGED <<task, act, row, proc, exit, rproc, pr, run, report>>
    BY <1>2 DEF Nudge, NameReviewer, store, reviews, world, handlers
  <2>2. trig'[t].at \in {"idle", "authorize"}
    BY <1>0, <1>2, RowFacts DEF Nudge, NameReviewer, Done, HandlersType, Trigs
  <2> QED
    BY <1>0, <2>1, <2>2, OnlyAsked, DrainOfOthers DEF Unasked, DrainStays
<1> QED
  BY <1>1, <1>2

\* An authorized review of a claimed reviewer is launched.
LEMMA AnswersTended ==
    ASSUME Given, NEW t \in Tasks, CalmStep(t), AuthorizeAnswers(t)
    PROVE  Tended(t)'
<1>0. HandlersType /\ Tended(t) /\ trig[t].at = "authorize"
  BY TypeParts DEF Given, Whole, Inv, Attended, AuthorizeAnswers
<1>1. UNCHANGED <<task, act, row, proc, exit, rproc, pr, run, report>>
  BY DEF AuthorizeAnswers, store, reviews, world
<1>2. CASE trig' = [trig EXCEPT ![t] = NoTrig]
  <2>1. Unasked(t)'
    BY <1>0, <1>2, RowFacts DEF HandlersType, Unasked
  <2> QED
    BY <1>0, <1>1, <2>1, OnlyAsked, DrainOfOthers DEF DrainStays
<1>3. CASE trig' # [trig EXCEPT ![t] = NoTrig]
  <2>1. /\ act[t][Reviewer[pr[t]]].st = "claimed"
        /\ trig' = [trig EXCEPT ![t].at = "insert"] /\ drain' = drain
    BY <1>3 DEF AuthorizeAnswers, Done
  <2>2. trig'[t].at = "insert"
    BY <1>0, <2>1 DEF HandlersType, Trigs
  <2>3. Asked(t)'
    BY <1>1, <2>1, <2>2 DEF Asked
  <2>4. Awake(t)'
    BY <1>0, <1>1, <2>1 DEF Tended, Awake, Doomed, Launching, Active
  <2>5. Heard(t)'
    BY <1>0, <1>1, <2>1 DEF Tended, Heard
  <2> QED
    BY <2>3, <2>4, <2>5 DEF Tended
<1> QED
  BY <1>2, <1>3

\* The reviewer that a trigger has in its hands is the one the task has.
LEMMA InHand ==
    ASSUME Given, NEW t \in Tasks, trig[t].at \in {"insert", "spawn", "start", "bind"}
    PROVE  /\ pr[t] \in Heads /\ Active(t, Reviewer[pr[t]])
           /\ proc[t] = "" /\ exit[t].at = "none" /\ \A k \in Workers : ~Active(t, k)
           /\ \A h \in Heads : Active(t, Reviewer[h]) => h = pr[t]
           /\ act[t][Reviewer[pr[t]]].st = IF trig[t].at = "bind" THEN "running" ELSE "claimed"
           /\ task[t].st = "review_running" /\ task[t].head = pr[t]
           /\ trig[t].at # "bind" => task[t].run = 0
<1>1. Inv /\ Asked(t) /\ Heard(t) /\ pr[t] \in Heads /\ Awaiting /\ ReviewedTask(t)
  BY DEF Given, Whole, Inv, Attended, Tended, Triggered, Reviewed
<1>2. act[t][Reviewer[pr[t]]].st = IF trig[t].at = "bind" THEN "running" ELSE "claimed"
  BY <1>1 DEF Asked
<1>3. Active(t, Reviewer[pr[t]]) /\ Reviewer[pr[t]] \in Reviewers /\ Reviewer[pr[t]] \in Kinds
  BY <1>1, <1>2, WorkerKinds DEF Active
<1>4. proc[t] = "" /\ exit[t].at = "none" /\ \A k \in Workers : ~Active(t, k)
  BY <1>3, OneShift
<1>5. \A h \in Heads : Active(t, Reviewer[h]) => h = pr[t]
  BY <1>1, <1>3, SameReview
<1>6. task[t].st = "review_running" /\ task[t].head = pr[t]
  BY <1>1, <1>3, OnTheJob, KindFacts DEF ReviewedTask
<1>7. trig[t].at # "bind" => task[t].run = 0
  BY <1>1, <1>2, <1>3 DEF Heard, Awaiting
<1> QED
  BY <1>1, <1>2, <1>3, <1>4, <1>5, <1>6, <1>7

\* The launch of a reviewer, step by step.
LEMMA LaunchTended ==
    ASSUME Given, NEW t \in Tasks, CalmStep(t),
           InsertRun(t) \/ SpawnReviewer(t) \/ MarkAction(t) \/ MarkTask(t)
    PROVE  Tended(t)'
<1> DEFINE h == pr[t]
<1>0. /\ HandlersType /\ WorldType /\ StoreType /\ Store /\ Inv /\ Tended(t) /\ ReviewedTask(t)
      /\ trig[t].at \in {"insert", "spawn", "start", "bind"}
  BY TypeParts DEF Given, Whole, Inv, Attended, Store, InsertRun, SpawnReviewer, MarkAction, MarkTask, Reviewed
<1>1. /\ h \in Heads /\ Active(t, Reviewer[h])
      /\ proc[t] = "" /\ exit[t].at = "none" /\ \A k \in Workers : ~Active(t, k)
      /\ \A g \in Heads : Active(t, Reviewer[g]) => g = h
      /\ act[t][Reviewer[h]].st = IF trig[t].at = "bind" THEN "running" ELSE "claimed"
      /\ task[t].st = "review_running" /\ task[t].head = h
      /\ trig[t].at # "bind" => task[t].run = 0
  BY <1>0, InHand
<1>2. proc' = proc /\ exit' = exit /\ pr' = pr /\ report' = report
  BY DEF InsertRun, SpawnReviewer, MarkAction, MarkTask, world, handlers
<1>3. h # 0 /\ Reviewer[h] \in Kinds /\ Reviewer[h] \in Reviewers /\ Owned(t) = {Reviewer[h]}
  <2>1. h # 0
    <3>1. \A x \in Heads : x # 0
      BY DEF Heads
    <3> QED
      BY <1>1, <3>1
  <2>2. Reviewer[h] \in Kinds /\ Reviewer[h] \in Reviewers
    BY <1>1, WorkerKinds
  <2> QED
    BY <1>1, <2>1, <2>2, OnTheJob
<1>4. CASE InsertRun(t)
  <2>1. /\ UNCHANGED <<task, act, rproc, drain>> /\ trig[t].at = "insert"
        /\ trig' = [trig EXCEPT ![t].at = "spawn"]
    BY <1>4 DEF InsertRun, store, world
  <2>2. trig'[t].at = "spawn"
    BY <1>0, <2>1 DEF HandlersType, Trigs
  <2>3. Asked(t)'
    BY <1>1, <1>2, <2>1, <2>2 DEF Asked
  <2>4. \A g \in Heads : act[t][Reviewer[g]].st # "running"
    BY <1>1, <2>1 DEF Active
  <2>5. Heard(t)'
    BY <1>0, <2>1, <2>4 DEF Tended, Heard
  <2> QED
    BY <1>1, <1>2, <2>1, <2>3, <2>5, ByShift DEF Active
<1>5. CASE SpawnReviewer(t)
  <2>1. /\ UNCHANGED <<task, act, run, drain>> /\ trig[t].at = "spawn"
        /\ trig' = [trig EXCEPT ![t].at = "start"] /\ rproc' = [rproc EXCEPT ![t] = h]
    BY <1>5 DEF SpawnReviewer, store, reviews
  <2>2. trig'[t].at = "start" /\ rproc'[t] = h
    BY <1>0, <2>1 DEF HandlersType, Trigs, WorldType
  <2>3. Asked(t)'
    BY <1>0, <1>1, <1>2, <1>3, <2>1, <2>2 DEF Asked, ReviewedTask
  <2>4. \A g \in Heads : act[t][Reviewer[g]].st # "running"
    BY <1>1, <2>1 DEF Active
  <2>5. Heard(t)'
    BY <1>0, <2>1, <2>4 DEF Tended, Heard
  <2> QED
    BY <1>1, <1>2, <2>1, <2>3, <2>5, ByShift DEF Active
<1>6. CASE MarkAction(t)
  <2>1. /\ UNCHANGED <<task, run, rproc, drain>> /\ trig[t].at = "start" /\ Start(t, Reviewer[h])
        /\ trig' = [trig EXCEPT ![t].at = "bind"]
    BY <1>1, <1>6 DEF MarkAction, reviews, world
  <2>2. trig'[t].at = "bind"
    BY <1>0, <2>1 DEF HandlersType, Trigs
  <2>3. act'[t][Reviewer[h]].st = "running" /\ \A j \in Kinds \ {Reviewer[h]} : act'[t][j] = act[t][j]
    BY <1>0, <1>3, <2>1, OneAct DEF Start
  <2>4. rproc[t] = h /\ run[t][h] = "running" /\ task[t].run # h
    BY <1>0, <2>1 DEF Tended, Asked
  <2>5. Asked(t)'
    BY <1>2, <2>1, <2>2, <2>3, <2>4 DEF Asked
  <2>6. \A k \in Kinds : Active(t, k)' => k = Reviewer[h]
    <3>1. ASSUME NEW k \in Kinds, Active(t, k) PROVE k = Reviewer[h]
      BY <1>1, <1>3, <3>1, OnTheJob
    <3> QED
      BY <2>3, <3>1 DEF Active
  <2>7. report[t].at # "none" => report[t].head # h
    BY <1>0, <2>4 DEF ReviewedTask
  <2>8. Heard(t)'
    <3>1. \A k \in Reviewers : act'[t][k].st # "claimed"
      BY <2>3, <2>6, WorkerKinds DEF Active
    <3>2. \A g \in Heads : act'[t][Reviewer[g]].st = "running" => g = h
      BY <1>1, <2>6, WorkerKinds, ReviewerNames DEF Active
    <3> QED
      BY <1>2, <2>1, <2>4, <2>7, <3>1, <3>2 DEF Heard
  <2>9. \A k \in Workers : ~Active(t, k)'
    BY <1>3, <2>6, WorkerKinds
  <2> QED
    BY <1>1, <1>2, <2>5, <2>8, <2>9, ByShift
<1>7. CASE MarkTask(t)
  <2>1. /\ UNCHANGED <<act, run, rproc, drain>> /\ trig[t].at = "bind"
        /\ task' = [task EXCEPT ![t].run = h] /\ trig' = [trig EXCEPT ![t].at = "name"]
    BY <1>1, <1>7 DEF MarkTask, reviews, world
  <2>2. trig'[t].at = "name" /\ task'[t].run = h
    BY <1>0, <2>1 DEF HandlersType, Trigs, StoreType, TaskRows
  <2>3. Asked(t)'
    BY <2>2 DEF Asked
  <2>4. rproc[t] = h /\ run[t][h] = "running"
    BY <1>0, <2>1 DEF Tended, Asked
  <2>5. \A k \in Reviewers : act[t][k].st # "claimed"
    <3>1. ASSUME NEW k \in Reviewers, Active(t, k) PROVE k = Reviewer[h]
      <4>1. k \in Kinds
        BY WorkerKinds
      <4>2. Owned(t) = {k}
        BY <3>1, <4>1, OnTheJob
      <4> QED
        BY <1>3, <4>2
    <3> QED
      BY <1>1, <2>1, <3>1 DEF Active
  <2>6. \A g \in Heads : act[t][Reviewer[g]].st = "running" => g = h
    BY <1>1 DEF Active
  <2>7. Heard(t)'
    BY <1>2, <2>1, <2>2, <2>4, <2>5, <2>6 DEF Heard
  <2> QED
    BY <1>1, <1>2, <2>1, <2>3, <2>7, ByShift DEF Active
<1> QED
  BY <1>4, <1>5, <1>6, <1>7

\* A worker and the report of its exit.
LEMMA ExitTended ==
    ASSUME Given, NEW t \in Tasks, CalmStep(t), WorkerExits(t) \/ ExitReported(t) \/ ExitReads(t) \/ ExitBinds(t)
    PROVE  Tended(t)'
<1>0. /\ HandlersType /\ WorldType /\ StoreType /\ Store /\ Inv /\ Tended(t) /\ AliveTask(t)
  BY TypeParts DEF Given, Whole, Inv, Attended, Store, Alive
<1>1. PICK w \in Workers : Active(t, w)
  <2>1. proc[t] # "" => proc[t] \in Workers
    BY <1>0 DEF WorldType
  <2>2. proc[t] # "" \/ exit[t].at \in {"report", "read", "bind"}
    BY DEF WorkerExits, ExitReported, ExitReads, ExitBinds
  <2> QED
    BY <1>0, <2>1, <2>2 DEF AliveTask
<1>2. Unasked(t) /\ \A k \in Reviewers : ~Active(t, k)
  BY <1>1, OneShift
<1>3. task' = task /\ trig' = trig /\ drain' = drain
  BY DEF WorkerExits, ExitReported, ExitReads, ExitBinds, store, handlers
<1>4. Unasked(t)'
  BY <1>2, <1>3 DEF Unasked
<1>5. CASE WorkerExits(t)
  <2>1. UNCHANGED <<act, row, proc>> /\ proc[t] # "" /\ exit'[t].at = "report"
    BY <1>0, <1>5 DEF WorkerExits, store, HandlersType, Exits, NoExit, reviews
  <2>2. Awake(t)'
    BY <1>0, <1>3, <2>1 DEF Tended, Awake, Launching, Active
  <2> QED
    BY <1>2, <1>4, <2>1, <2>2, ByShift DEF Active
<1>6. CASE ExitReported(t)
  <2>1. exit[t].at = "report" /\ ~Launching(t) /\ proc[t] # "" /\ row[t].launch = proc[t]
    BY <1>0, <1>6 DEF ExitReported, AliveTask, Tended, Awake
  <2>2. act' = act /\ proc'[t] = "" /\ exit'[t].at = "read"
    BY <1>0, <1>6, <2>1 DEF ExitReported, store, HandlersType, Exits, WorldType
  <2>3. Awake(t)'
    BY <2>2 DEF Awake
  <2> QED
    BY <1>2, <1>4, <2>2, <2>3, ByShift DEF Active
<1>7. CASE ExitReads(t)
  <2>1. /\ exit' = [exit EXCEPT ![t] =
                       [exit[t] EXCEPT !.at = IF \E k \in Workers : act[t][k].st = "claimed" THEN "bind" ELSE "finish",
                                       !.snap = task[t]]]
        /\ UNCHANGED <<act, row, proc>>
    BY <1>1, <1>7 DEF ExitReads, store, world
  <2>2. exit'[t].at \in {"bind", "finish"} /\ exit'[t].snap = task[t]
    BY <1>0, <2>1 DEF HandlersType, Exits
  <2>3. proc[t] = ""
    BY <1>0, <1>7 DEF ExitReads, AliveTask
  <2>4. Awake(t)'
    BY <1>3, <2>1, <2>2, <2>3 DEF Awake
  <2> QED
    BY <1>2, <1>4, <2>1, <2>4, ByShift DEF Active
<1>8. CASE ExitBinds(t)
  <2>1. /\ \/ /\ exit' = [exit EXCEPT ![t].at = "finish"]
              /\ \E k \in Workers : act[t][k].st = "claimed" /\ Start(t, k)
           \/ /\ exit' = [exit EXCEPT ![t].at = "overtaken"] /\ act' = act
              /\ \A k \in Workers : act[t][k].st # "claimed"
        /\ exit[t].at = "bind" /\ proc' = proc /\ row' = row
    BY <1>8 DEF ExitBinds, world
  <2>2. /\ exit'[t].snap = task[t]
        /\ exit'[t].at = "finish" \/ (exit'[t].at = "overtaken" /\ Doomed(t)')
    BY <1>0, <2>1 DEF HandlersType, Exits, Tended, Awake, Doomed
  <2>3. \A k \in Reviewers : ~Active(t, k)'
    <3>2. CASE act' = act
      BY <1>2, <3>2 DEF Active
    <3>3. ASSUME NEW k \in Workers, Start(t, k) PROVE \A j \in Reviewers : ~Active(t, j)'
      <4>1. k \in Kinds /\ k \notin Reviewers
        BY WorkerKinds
      <4>2. \A j \in Kinds \ {k} : act'[t][j] = act[t][j]
        BY <1>0, <3>3, <4>1, OneAct DEF Start
      <4> QED
        BY <1>2, <4>1, <4>2, WorkerKinds DEF Active
    <3> QED
      BY <2>1, <3>2, <3>3
  <2>4. proc[t] = ""
    BY <1>0, <2>1 DEF AliveTask
  <2>5. Awake(t)'
    BY <1>3, <2>1, <2>2, <2>4 DEF Awake
  <2> QED
    BY <1>4, <2>3, <2>5, ByShift
<1> QED
  BY <1>5, <1>6, <1>7, <1>8

\* The end of a worker's action, which no other step has come before.
LEMMA FinishTended ==
    ASSUME Given, NEW t \in Tasks, CalmStep(t), ExitFinishes(t)
    PROVE  Tended(t)' /\ wanted' /\ task'[t].st # "incident"
<1>0. /\ HandlersType /\ WorldType /\ StoreType /\ Store /\ Inv /\ Tended(t) /\ AliveTask(t)
  BY TypeParts DEF Given, Whole, Inv, Attended, Store, Alive
<1>1. exit[t].at = "finish" /\ proc[t] = "" /\ task[t] = exit[t].snap
  BY <1>0 DEF ExitFinishes, AliveTask, Tended, Awake
<1>2. PICK w \in Workers : Active(t, w)
  BY <1>0, <1>1 DEF AliveTask
<1>3. w \in Kinds /\ task[t].st \notin Ends /\ Owned(t) = {w}
  BY <1>2, OnTheJob, WorkerKinds
<1>4. Finishable(t, w, exit[t].snap)
  BY <1>1, <1>2, <1>3 DEF Finishable
<1>5. /\ wanted' /\ exit' = [exit EXCEPT ![t] = NoExit] /\ proc' = proc /\ trig' = trig
      /\ \E k \in Workers : Active(t, k) /\ Finish(t, k, ActionOutcome(exit[t].ok), WorkerOutcome(exit[t].ok))
  BY <1>4 DEF ExitFinishes, world
<1>6. PICK k \in Workers : Active(t, k) /\ Finish(t, k, ActionOutcome(exit[t].ok), WorkerOutcome(exit[t].ok))
  BY <1>5
<1>7. k \in Kinds /\ Owned(t) = {k}
  BY <1>6, OnTheJob, WorkerKinds
<1>8. act'[t][k].st \in {"succeeded", "failed"} /\ \A j \in Kinds \ {k} : act'[t][j] = act[t][j]
  <2>1. SetAct(t, k, ActionOutcome(exit[t].ok), 0)
    BY <1>6 DEF Finish
  <2> QED
    BY <1>0, <1>7, <2>1, OneAct DEF ActionOutcome
<1>9. \A j \in Kinds : ~Active(t, j)'
  BY <1>7, <1>8 DEF Owned, Active
<1>10. Unasked(t)
  BY <1>2, OneShift
<1>11. exit'[t].at = "none" /\ proc'[t] = "" /\ Unasked(t)'
  BY <1>0, <1>1, <1>5, <1>10, RowFacts DEF HandlersType, Unasked, NoExit
<1>12. task'[t].st # "incident"
  BY <1>0, <1>6 DEF Finish, WorkerOutcome, StoreType, TaskRows
<1> QED
  BY <1>5, <1>9, <1>11, <1>12, ByShift

\* A reviewer reports only after its launch was recorded, and is heard.
LEMMA ReportTended ==
    ASSUME Given, NEW t \in Tasks, CalmStep(t), UNCHANGED budget, ~Fault,
           ReviewerFails(t) \/ \E verdict \in {"approved", "changes"} : ReviewerSubmits(t, verdict)
    PROVE  Tended(t)'
<1>0. /\ HandlersType /\ WorldType /\ StoreType /\ Inv /\ Tended(t) /\ ReviewedTask(t)
      /\ rproc[t] # 0 /\ report[t].at = "none" /\ task[t].run = rproc[t]
  BY TypeParts DEF Given, Whole, Inv, Attended, Store, Reviewed, ReviewerFails, ReviewerSubmits, Bound
<1>1. rproc[t] \in Heads
  BY <1>0, HeadFacts
<1>2. /\ UNCHANGED <<task, act, row, proc, exit, pr, trig, drain>> /\ rproc'[t] = 0
      /\ \/ /\ run[t][rproc[t]] = "running" /\ report'[t].at # "none" /\ report'[t].head = rproc[t]
            /\ \A h \in Heads \ {rproc[t]} : run'[t][h] = run[t][h]
         \/ run[t][rproc[t]] # "running" /\ UNCHANGED <<run, report>>
  <2>1. CASE ReviewerFails(t)
    <3>1. /\ UNCHANGED <<task, act, row, proc, exit, pr, trig, drain>> /\ rproc'[t] = 0
      BY <1>0, <2>1 DEF ReviewerFails, WorldType, store
    <3>2. CASE run[t][rproc[t]] = "running"
      <4>1. /\ run' = [run EXCEPT ![t][rproc[t]] = "failed"]
            /\ report' = [report EXCEPT ![t] = [at |-> "failure", head |-> rproc[t]]]
        BY <2>1, <3>2 DEF ReviewerFails
      <4> QED
        BY <1>0, <1>1, <3>1, <3>2, <4>1 DEF WorldType, HandlersType
    <3>3. CASE run[t][rproc[t]] # "running"
      BY <2>1, <3>1, <3>3 DEF ReviewerFails
    <3> QED
      BY <3>2, <3>3
  <2>2. ASSUME NEW verdict \in {"approved", "changes"}, ReviewerSubmits(t, verdict)
        PROVE  /\ UNCHANGED <<task, act, row, proc, exit, pr, trig, drain>> /\ rproc'[t] = 0
               /\ run[t][rproc[t]] = "running" /\ report'[t].at # "none" /\ report'[t].head = rproc[t]
               /\ \A h \in Heads \ {rproc[t]} : run'[t][h] = run[t][h]
    BY <1>0, <1>1, <2>2 DEF ReviewerSubmits, WorldType, HandlersType, store
  <2> QED
    BY <2>1, <2>2
<1>3. Awake(t)'
  BY <1>0, <1>2 DEF Tended, Awake, Doomed, Launching, Active
<1>4. Asked(t)'
  BY <1>0, <1>2 DEF Tended, Asked
<1>5. Heard(t)'
  <2>1. \A k \in Reviewers : act[t][k].st = "claimed" =>
          drain.at \in {"trigger", "wait", "triggered"} /\ drain.t = t /\ drain.k = k /\ task[t] = drain.snap
    BY <1>0 DEF Tended, Heard
  <2>2. \A h \in Heads : act[t][Reviewer[h]].st = "running" => rproc[t] = h /\ run[t][h] = "running"
    BY <1>0 DEF Tended, Heard
  <2> QED
    BY <1>0, <1>1, <1>2, <2>1, <2>2 DEF Heard
<1> QED
  BY <1>3, <1>4, <1>5 DEF Tended

\* What a reviewer reported ends its action, if it has one that runs.
LEMMA Conclusive ==
    ASSUME Given, NEW t \in Tasks, report[t].at # "none", Active(t, Reviewer[report[t].head])
    PROVE  /\ report[t].head \in Heads /\ Unasked(t) /\ proc[t] = "" /\ exit[t].at = "none"
           /\ Owned(t) = {Reviewer[report[t].head]}
           /\ act[t][Reviewer[report[t].head]].st = "running" =>
                Accepts(t, report[t].head) /\ ReviewFailable(t, report[t].head)
<1> DEFINE h == report[t].head
<1>0. /\ Inv /\ Tended(t) /\ ReviewedTask(t) /\ HandlersType /\ trig[t].at # "failrun"
      /\ h \in Heads /\ Reviewer[h] \in Kinds /\ Reviewer[h] \in Reviewers
  BY TypeParts, WorkerKinds DEF Given, Whole, Inv, Attended, Serving, Reported, Reviewed
<1>1. /\ task[t].st = "review_running" /\ task[t].st \notin Ends /\ Owned(t) = {Reviewer[h]}
      /\ proc[t] = "" /\ exit[t].at = "none"
  <2>1. Active(t, Reviewer[h])
    OBVIOUS
  <2>2. proc[t] = "" /\ exit[t].at = "none"
    BY <1>0, <2>1, OneShift
  <2>3. task[t].st = RunningState[Reviewer[h]] /\ task[t].st \notin Ends /\ Owned(t) = {Reviewer[h]}
    BY <1>0, <2>1, OnTheJob
  <2>4. RunningState[Reviewer[h]] = "review_running"
    BY <1>0, KindFacts
  <2> QED
    BY <2>2, <2>3, <2>4
<1>2. task[t].head = h
  <2>1. h = task[t].head \/ Reviewer[h] # Reviewer[task[t].head]
    <3>1. task[t].head \in Heads
      BY <1>0, <1>1 DEF Inv, Store, Reviewing
    <3> QED
      BY <1>0, <3>1, ReviewerNames
  <2>2. Owned(t) = {Reviewer[task[t].head]}
    BY <1>0, <1>1 DEF Inv, Store, Reviewing
  <2> QED
    BY <1>1, <2>1, <2>2
<1>3. Unasked(t)
  <2> SUFFICES ASSUME ~Unasked(t) PROVE FALSE
    OBVIOUS
  <2>1. trig[t].at \in {"insert", "spawn", "start", "bind"}
    BY <1>0 DEF HandlersType, Trigs, Unasked
  <2>2. h = pr[t]
    <3>1. \A g \in Heads : Active(t, Reviewer[g]) => g = pr[t]
      BY <2>1, InHand
    <3>2. Active(t, Reviewer[h])
      OBVIOUS
    <3> QED
      BY <1>0, <3>1, <3>2
  <2>3. run[t][h] \notin {"none", "running"}
    BY <1>0 DEF ReviewedTask
  <2>4. CASE trig[t].at = "insert"
    BY <1>0, <2>2, <2>3, <2>4 DEF ReviewedTask
  <2>5. CASE trig[t].at = "spawn"
    BY <1>0, <2>2, <2>3, <2>5 DEF ReviewedTask
  <2>6. CASE trig[t].at \in {"start", "bind"}
    BY <1>0, <2>2, <2>3, <2>6 DEF Tended, Asked
  <2> QED
    BY <2>1, <2>4, <2>5, <2>6
<1>4. ASSUME act[t][Reviewer[h]].st = "running" PROVE Accepts(t, h) /\ ReviewFailable(t, h)
  <2>1. task[t].run = h
    BY <1>0, <1>4 DEF Tended, Heard
  <2> QED
    BY <1>1, <1>2, <1>4, <2>1 DEF Accepts, ReviewFailable, Finishable, Active
<1> QED
  BY <1>0, <1>1, <1>3, <1>4

\* A verdict ends the reviewer's action and queues at most another.
LEMMA ConcludeActs ==
    ASSUME StoreType, NEW t \in Tasks, NEW h \in Heads, Conclude(t, h)
    PROVE  /\ act'[t][Reviewer[h]].st = "succeeded"
           /\ \A k \in Kinds \ {Reviewer[h]} : act'[t][k] = act[t][k] \/ act'[t][k].st = "queued"
           /\ \A u \in Tasks \ {t} : act'[u] = act[u]
<1> DEFINE repairs == run[t][h] = "changes" /\ task[t].repair = 0
           k == Reviewer[h]
<1>1. act' = [act EXCEPT ![t] = [j \in Kinds |->
                 IF j = k THEN [st |-> "succeeded", slot |-> 0]
                 ELSE IF repairs /\ j = "worker-2" THEN [st |-> "queued", slot |-> 0]
                 ELSE act[t][j]]]
  BY DEF Conclude, StoreType
<1>2. k \in Kinds
  BY WorkerKinds
<1> HIDE DEF repairs, k
<1>3. /\ act'[t][k].st = "succeeded"
      /\ \A j \in Kinds \ {k} : act'[t][j] = act[t][j] \/ act'[t][j].st = "queued"
      /\ \A u \in Tasks \ {t} : act'[u] = act[u]
  BY <1>1, <1>2 DEF StoreType
<1> QED
  BY <1>3 DEF k

\* The handlers of a reviewer's report.
LEMMA HandledTended ==
    ASSUME Given, NEW t \in Tasks, CalmStep(t), ResultHandled(t) \/ FailureHandled(t)
    PROVE  /\ Tended(t)'
           /\ UNCHANGED store \/ (wanted' /\ task'[t].st # "incident" /\ \E k \in Reviewers : Active(t, k))
<1> DEFINE h == report[t].head
<1>0. /\ HandlersType /\ StoreType /\ Store /\ Inv /\ Tended(t) /\ report[t].at # "none" /\ h \in Heads
  BY TypeParts DEF Given, Whole, Inv, Attended, Store, Reported, ResultHandled, FailureHandled
<1>1. /\ UNCHANGED <<row, run, proc, rproc, pr, drain, trig, exit>> /\ report'[t].at = "none"
  BY <1>0, RowFacts DEF ResultHandled, FailureHandled, HandlersType, reviews, world
<1>2. \/ UNCHANGED store /\ act[t][Reviewer[h]].st # "running"
      \/ /\ wanted' /\ act[t][Reviewer[h]].st = "running"
         /\ Conclude(t, h) \/ FailReview(t, h)
  <2>1. ASSUME act[t][Reviewer[h]].st = "running" PROVE Accepts(t, h) /\ ReviewFailable(t, h)
    BY <1>0, <2>1, Conclusive DEF Active
  <2>2. ASSUME act[t][Reviewer[h]].st # "running" PROVE ~Accepts(t, h) /\ ~ReviewFailable(t, h)
    BY <2>2 DEF Accepts, ReviewFailable
  <2> QED
    BY <2>1, <2>2 DEF ResultHandled, FailureHandled, store
<1>3. CASE UNCHANGED store /\ act[t][Reviewer[h]].st # "running"
  <2>1. task' = task /\ act' = act
    BY <1>3 DEF store
  <2>2. Awake(t)' /\ Asked(t)'
    BY <1>0, <1>1, <2>1 DEF Tended, Awake, Asked, Doomed, Launching, Active
  <2>3. Heard(t)'
    BY <1>0, <1>1, <1>3, <2>1 DEF Tended, Heard
  <2> QED
    BY <1>3, <2>2, <2>3 DEF Tended
<1>4. CASE wanted' /\ act[t][Reviewer[h]].st = "running" /\ (Conclude(t, h) \/ FailReview(t, h))
  <2>1. /\ Reviewer[h] \in Kinds /\ Owned(t) = {Reviewer[h]} /\ Unasked(t) /\ proc[t] = "" /\ exit[t].at = "none"
    BY <1>0, <1>4, Conclusive, WorkerKinds DEF Active
  <2>2. act'[t][Reviewer[h]].st \in {"succeeded", "failed"}
        /\ \A k \in Kinds \ {Reviewer[h]} : act'[t][k] = act[t][k] \/ act'[t][k].st = "queued"
    <3>1. CASE Conclude(t, h)
      BY <1>0, <2>1, <3>1, ConcludeActs
    <3>2. CASE FailReview(t, h)
      <4>1. SetAct(t, Reviewer[h], "failed", 0)
        BY <3>2 DEF FailReview, Finish
      <4>2. PICK r \in Kinds : r = Reviewer[h]
        BY <2>1
      <4>3. SetAct(t, r, "failed", 0)
        BY <4>1, <4>2
      <4>4. /\ act'[t][r].st = "failed"
            /\ \A k \in Kinds \ {r} : act'[t][k] = act[t][k]
        BY <1>0, <4>3, OneAct
      <4> QED
        BY <4>2, <4>4
    <3> QED
      BY <1>4, <3>1, <3>2
  <2>3. \A k \in Kinds : ~Active(t, k)'
    <3>1. \A k \in Kinds \ {Reviewer[h]} : act[t][k].st \notin {"claimed", "running"}
      BY <2>1 DEF Owned
    <3>2. \A k \in Kinds \ {Reviewer[h]} : act'[t][k].st \notin {"claimed", "running"}
      BY <2>2, <3>1
    <3> QED
      BY <2>2, <3>2 DEF Active
  <2>4. Unasked(t)'
    BY <1>1, <2>1 DEF Unasked
  <2>5. \E k \in Reviewers : Active(t, k)
    BY <1>0, <1>4, WorkerKinds DEF Active
  <2>6. task'[t].st # "incident"
    BY <1>0, <1>4 DEF Conclude, FailReview, Finish, StoreType, TaskRows
  <2> QED
    BY <1>1, <1>4, <2>1, <2>3, <2>4, <2>5, <2>6, ByShift
<1> QED
  BY <1>2, <1>3, <1>4

\* No step of a task leaves one untended.
LEMMA CalmTended ==
    ASSUME Given, NEW t \in Tasks, CalmStep(t), ~Fault, UNCHANGED budget, NEW u \in Tasks
    PROVE  Tended(u)'
<1>1. CASE u = t
  BY <1>1, BetweenShifts, NudgeTended, AnswersTended, LaunchTended, ExitTended, FinishTended, ReportTended,
     HandledTended DEF CalmStep, HandlerSteps, ProcessSteps
<1>2. CASE u # t
  BY <1>2, OthersUntouched, UntouchedTended DEF Given, Attended
<1> QED
  BY <1>1, <1>2

\* A head that no transaction touched is no more claimable than it was.
LEMMA QuietHead ==
    ASSUME StoreType, queue' = queue, \A u \in Tasks : task'[u].st = task[u].st,
           \A u \in Tasks, k \in Kinds : act'[u][k].st = "queued" => act[u][k].st = "queued"
    PROVE  HeadClaimable' => HeadClaimable
<1>1. queue # <<>> => Head(queue) \in Tasks \X Kinds
  BY DEF StoreType
<1> QED
  BY <1>1 DEF HeadClaimable, Claimable

\* No handler is overtaken by the step of a task: who can be ended before can be
\* ended after.
LEMMA Undoomed ==
    ASSUME Given, NEW t \in Tasks, CalmStep(t), NEW u \in Tasks, ~Doomed(u)
    PROVE  ~Doomed(u)'
<1>0. /\ HandlersType /\ StoreType /\ Store /\ Inv /\ AliveTask(t)
  BY TypeParts DEF Given, Whole, Inv, Store, Alive
<1>1. CASE u # t
  BY <1>1, OthersUntouched DEF Untouched, Doomed
<1>2. CASE ExitReads(t) /\ u = t
  <2>1. /\ act' = act
        /\ exit'[t].at = "bind" => \E k \in Workers : act[t][k].st = "claimed"
        /\ exit'[t].at # "overtaken"
    BY <1>0, <1>2 DEF ExitReads, HandlersType, Exits, NoExit, store
  <2> QED
    BY <1>2, <2>1 DEF Doomed
<1>3. CASE ExitBinds(t) /\ u = t
  <2>1. exit' = [exit EXCEPT ![t].at = "finish"]
    BY <1>3 DEF ExitBinds, Doomed
  <2>2. exit'[t].at = "finish"
    BY <1>0, <2>1 DEF HandlersType, Exits
  <2> QED
    BY <1>3, <2>2 DEF Doomed
<1>4. CASE (WorkerExits(t) \/ ExitReported(t) \/ ExitFinishes(t)) /\ u = t
  <2>1. \E e : exit' = [exit EXCEPT ![t] = e] /\ e.at \in {"none", "read", "report"}
    <3>1. CASE WorkerExits(t)
      BY <3>1 DEF WorkerExits, NoExit
    <3>2. CASE ExitReported(t)
      <4>1. /\ exit' = [exit EXCEPT ![t] = NoExit] \/ exit' = [exit EXCEPT ![t] = [@ EXCEPT !.at = "read"]]
            /\ [exit[t] EXCEPT !.at = "read"].at = "read"
        BY <1>0, <3>2 DEF ExitReported, HandlersType, Exits
      <4>2. NoExit.at = "none"
        BY DEF NoExit
      <4> QED
        BY <4>1, <4>2
    <3>3. CASE ExitFinishes(t)
      <4>1. exit' = [exit EXCEPT ![t] = NoExit]
        BY <3>3 DEF ExitFinishes
      <4>2. NoExit.at = "none"
        BY DEF NoExit
      <4> QED
        BY <4>1, <4>2
    <3> QED
      BY <1>4, <3>1, <3>2, <3>3
  <2>2. exit'[t].at \in {"none", "read", "report"}
    BY <1>0, <2>1 DEF HandlersType
  <2> QED
    BY <1>4, <2>2 DEF Doomed
<1>5. CASE ~(WorkerExits(t) \/ ExitReported(t) \/ ExitReads(t) \/ ExitBinds(t) \/ ExitFinishes(t)) /\ u = t
  <2>1. exit' = exit
    BY <1>5 DEF CalmStep, Submit, Provision, Nudge, Reap, AuthorizeRejects, AuthorizeQueues, AuthorizeAnswers,
       InsertRun, SpawnReviewer, MarkAction, MarkTask, NameReviewer, HandlerSteps, ResultHandled, FailureHandled,
       ProcessSteps, ReviewerFails, ReviewerSubmits, handlers
  <2>2. CASE exit[t].at \notin {"bind", "overtaken"}
    BY <1>5, <2>1, <2>2 DEF Doomed
  <2>3. CASE exit[t].at \in {"bind", "overtaken"}
    <3>1. PICK w \in Workers : Active(t, w)
      BY <1>0, <2>3 DEF AliveTask
    <3>2. Unasked(t) /\ (\A j \in Reviewers : ~Active(t, j)) /\ w \in Kinds
      BY <3>1, OneShift, WorkerKinds
    <3>3. ~Submit(t) /\ ~Provision(t) /\ ~AuthorizeRejects(t) /\ ~AuthorizeQueues(t)
      BY <3>1, <3>2, BetweenShifts
    <3>4. ~MarkAction(t) /\ ~MarkTask(t)
      BY <3>2 DEF MarkAction, MarkTask, Unasked
    <3>5. ResultHandled(t) \/ FailureHandled(t) => UNCHANGED store
      BY <3>2, HandledTended
    <3>6. UNCHANGED store
      BY <1>5, <3>3, <3>4, <3>5 DEF CalmStep, Nudge, Reap, AuthorizeAnswers, InsertRun, SpawnReviewer, NameReviewer,
         HandlerSteps, ProcessSteps, ReviewerFails, ReviewerSubmits
    <3> QED
      BY <1>5, <2>1, <3>6 DEF Doomed, store
  <2> QED
    BY <2>2, <2>3
<1> QED
  BY <1>1, <1>2, <1>3, <1>4, <1>5

\* A step of a task wakes the drain, or leaves every action with its slot and
\* the head of the queue to those who have them already.
LEMMA CalmWakes ==
    ASSUME Given, NEW t \in Tasks, CalmStep(t)
    PROVE  /\ wanted => wanted'
           /\ \/ wanted'
              \/ /\ \A u \in Tasks, k \in Kinds : Active(u, k) => Active(u, k)' /\ act'[u][k].slot = act[u][k].slot
                 /\ drain'.at # "idle" \/ (HeadClaimable' => HeadClaimable)
<1>0. /\ HandlersType /\ StoreType /\ Store /\ Inv
  BY TypeParts DEF Given, Whole, Inv, Store
<1>1. \A u \in Tasks \ {t}, k \in Kinds : Active(u, k) => Active(u, k)' /\ act'[u][k].slot = act[u][k].slot
  BY OthersUntouched DEF Untouched, Active
<1>2. CASE UNCHANGED store
  <2>1. /\ \A u \in Tasks, k \in Kinds : Active(u, k) => Active(u, k)' /\ act'[u][k].slot = act[u][k].slot
        /\ HeadClaimable' => HeadClaimable
    BY <1>2 DEF store, Active, HeadClaimable, Claimable
  <2>2. wanted => wanted'
    BY <1>0 DEF CalmStep, Submit, Provision, Nudge, Reap, AuthorizeRejects, AuthorizeQueues, AuthorizeAnswers, Done,
       InsertRun, SpawnReviewer, MarkAction, MarkTask, NameReviewer, HandlerSteps, ExitReported, ExitReads, ExitBinds,
       ExitFinishes, ResultHandled, FailureHandled, ProcessSteps, WorkerExits, ReviewerFails, ReviewerSubmits,
       handlers, HandlersType
  <2> QED
    BY <2>1, <2>2
<1>3. CASE Provision(t) \/ ExitFinishes(t) \/ ((ResultHandled(t) \/ FailureHandled(t)) /\ ~UNCHANGED store)
  <2>1. wanted'
    BY <1>3, FinishTended, HandledTended DEF Provision
  <2> QED
    BY <2>1
<1>4. CASE Submit(t)
  <2>1. /\ wanted' = wanted /\ queue' = Append(queue, <<t, "worker-1">>) /\ task'[t].st = "reserved"
        /\ \A u \in Tasks \ {t} : task'[u] = task[u] /\ act'[u] = act[u]
    BY <1>0, <1>4, OthersUntouched DEF Submit, Enqueue, handlers, StoreType, TaskRows, Untouched
  <2>2. \A k \in Kinds : QueuedState[k] # "reserved"
    BY KindFacts DEF Queueds
  <2>3. ASSUME HeadClaimable' PROVE HeadClaimable
    <3>1. CASE queue = <<>>
      <4>1. Head(queue') = <<t, "worker-1">>
        BY <2>1, <3>1
      <4>2. Claimable(t, "worker-1")'
        BY <2>3, <4>1 DEF HeadClaimable
      <4> QED
        BY <2>1, <2>2, <4>2, WorkerKinds DEF Claimable
    <3>2. CASE queue # <<>>
      <4>1. Head(queue') = Head(queue) /\ Head(queue) \in Tasks \X Kinds
        BY <1>0, <2>1, <3>2 DEF StoreType
      <4>2. PICK u \in Tasks, k \in Kinds : Head(queue) = <<u, k>>
        BY <4>1
      <4>3. Claimable(u, k)'
        BY <2>3, <4>1, <4>2 DEF HeadClaimable
      <4>4. u # t
        BY <2>1, <2>2, <4>3 DEF Claimable
      <4> QED
        BY <2>1, <3>2, <4>2, <4>3, <4>4 DEF HeadClaimable, Claimable
    <3> QED
      BY <3>1, <3>2
  <2> QED
    BY <1>1, <1>4, <2>1, <2>3, BetweenShifts
<1>5. CASE AuthorizeRejects(t) \/ AuthorizeQueues(t)
  <2>1. PICK res : Done(t, res)
    BY <1>5 DEF AuthorizeRejects, AuthorizeQueues
  <2>2. (wanted => wanted') /\ (wanted' \/ drain'.at = "triggered")
    BY <1>0, <2>1, DoneCalm DEF HandlersType
  <2> QED
    BY <1>1, <1>5, <2>2, BetweenShifts
<1>6. CASE (MarkAction(t) \/ ExitBinds(t) \/ MarkTask(t)) /\ ~UNCHANGED store
  <2>1. /\ queue' = queue /\ \A u \in Tasks : task'[u].st = task[u].st
    BY <1>0, <1>6 DEF MarkAction, ExitBinds, MarkTask, StoreType, TaskRows
  <2>2. act' = act \/ \E k \in Kinds : Start(t, k)
    <3>1. MarkAction(t) => Reviewer[pr[t]] \in Kinds
      BY <1>0, WorkerKinds DEF MarkAction, Inv, Triggered
    <3> QED
      BY <1>6, <3>1, WorkerKinds DEF MarkAction, ExitBinds, MarkTask
  <2>3. /\ \A k \in Kinds : Active(t, k) => Active(t, k)' /\ act'[t][k].slot = act[t][k].slot
        /\ \A u \in Tasks, k \in Kinds : act'[u][k].st = "queued" => act[u][k].st = "queued"
    <3>1. ASSUME NEW k \in Kinds, Start(t, k)
          PROVE  /\ act'[t][k].st = "running" /\ act'[t][k].slot = act[t][k].slot
                 /\ \A u \in Tasks, j \in Kinds : u # t \/ j # k => act'[u][j] = act[u][j]
      BY <1>0, <3>1, ActsKept DEF Start, SetAct, StoreType
    <3> QED
      BY <2>2, <3>1 DEF Active
  <2>4. wanted => wanted'
    BY <1>0, <1>6 DEF MarkAction, ExitBinds, MarkTask, Done, HandlersType
  <2> QED
    BY <1>0, <1>1, <2>1, <2>3, <2>4, QuietHead
<1>7. \/ UNCHANGED store \/ Provision(t) \/ ExitFinishes(t) \/ ResultHandled(t) \/ FailureHandled(t)
      \/ Submit(t) \/ AuthorizeRejects(t) \/ AuthorizeQueues(t) \/ MarkAction(t) \/ ExitBinds(t) \/ MarkTask(t)
  BY DEF CalmStep, Nudge, Reap, AuthorizeAnswers, InsertRun, SpawnReviewer, NameReviewer, HandlerSteps,
     ExitReported, ExitReads, ProcessSteps, WorkerExits, ReviewerFails, ReviewerSubmits
<1> QED
  BY <1>2, <1>3, <1>4, <1>5, <1>6, <1>7

\* What a launch of the drain relies on is out of reach of the other steps.
LEMMA LaunchUntouched ==
    ASSUME Given, NEW t \in Tasks, CalmStep(t), drain.at \in {"validate", "mark"}
    PROVE  /\ drain.at = "validate" => act'[drain.t] = act[drain.t] /\ task'[drain.t] = task[drain.t]
           /\ drain.at = "mark" => proc'[drain.t] = proc[drain.t]
<1>0. Inv /\ Launched /\ Held /\ drain.t \in Tasks /\ drain.k \in Workers /\ AliveTask(drain.t)
  BY DEF Given, Whole, Inv, Draining, Attended, Alive
<1>1. CASE t # drain.t
  BY <1>0, <1>1, OthersUntouched DEF Untouched
<1>2. CASE t = drain.t /\ drain.at = "validate"
  <2>1. act[t][drain.k].st = "claimed" /\ exit[t].at = "none"
    BY <1>0, <1>2 DEF Held, Launched
  <2>2. Active(t, drain.k) /\ drain.k \in Kinds
    BY <1>0, <2>1, WorkerKinds DEF Active
  <2>3. Unasked(t) /\ \A j \in Reviewers : ~Active(t, j)
    BY <1>0, <2>2, OneShift
  <2>4. ~Submit(t) /\ ~Provision(t) /\ ~AuthorizeRejects(t) /\ ~AuthorizeQueues(t)
    BY <2>2, BetweenShifts
  <2>5. ~MarkAction(t) /\ ~MarkTask(t)
    BY <2>3 DEF MarkAction, MarkTask, Unasked
  <2>6. ~ExitBinds(t) /\ ~ExitFinishes(t)
    BY <2>1 DEF ExitBinds, ExitFinishes
  <2>7. ResultHandled(t) \/ FailureHandled(t) => UNCHANGED store
    BY <2>3, HandledTended
  <2>8. UNCHANGED store
    BY <2>4, <2>5, <2>6, <2>7 DEF CalmStep, Nudge, Reap, AuthorizeAnswers, InsertRun, SpawnReviewer, NameReviewer,
       HandlerSteps, ExitReported, ExitReads, ProcessSteps, WorkerExits, ReviewerFails, ReviewerSubmits
  <2> QED
    BY <1>2, <2>8 DEF store
<1>3. CASE t = drain.t /\ drain.at = "mark"
  <2>1. ~ExitReported(t)
    BY <1>3 DEF ExitReported, Launching
  <2>2. proc' = proc
    BY <2>1 DEF CalmStep, Submit, Provision, Nudge, Reap, AuthorizeRejects, AuthorizeQueues, AuthorizeAnswers,
       InsertRun, SpawnReviewer, MarkAction, MarkTask, NameReviewer, HandlerSteps, ExitReads, ExitBinds,
       ExitFinishes, ResultHandled, FailureHandled, ProcessSteps, WorkerExits, ReviewerFails, ReviewerSubmits,
       world
  <2> QED
    BY <1>3, <2>2
<1> QED
  BY <1>1, <1>2, <1>3

\* Nor do they leave the queue to nobody.
LEMMA CalmHeld ==
    ASSUME Given, NEW t \in Tasks, CalmStep(t)
    PROVE  Held' /\ Watched'
<1>0. Inv /\ Held /\ Watched /\ DrainHolds
  BY DrainOfOthers DEF Given, Whole, Attended
<1>1. /\ wanted => wanted'
      /\ \/ wanted'
         \/ /\ \A u \in Tasks, k \in Kinds : Active(u, k) => Active(u, k)' /\ act'[u][k].slot = act[u][k].slot
            /\ drain'.at # "idle" \/ (HeadClaimable' => HeadClaimable)
  BY CalmWakes
<1>2. drain.at # "idle" => drain'.at # "idle"
  BY <1>0 DEF DrainHolds
<1>3. ASSUME drain'.at \notin {"idle", "claim"} PROVE drain'.t = drain.t /\ drain'.k = drain.k
  BY <1>0 DEF DrainHolds
<1>4. ASSUME drain'.at \notin {"idle", "claim"}
      PROVE  \/ act'[drain.t][drain.k].st \in {"claimed", "running"} /\ ~Doomed(drain.t)'
             \/ wanted'
  <2>1. PICK u \in Tasks, k \in Kinds : u = drain.t /\ k = drain.k /\ drain.at \notin {"idle", "claim"}
    BY <1>0, <1>4, TypeParts DEF DrainHolds, Inv, Draining, HandlersType, Drains
  <2>2. (Active(u, k) /\ ~Doomed(u)) \/ wanted
    BY <1>0, <2>1 DEF Held
  <2>3. (act'[u][k].st \in {"claimed", "running"} /\ ~Doomed(u)') \/ wanted'
    BY <1>1, <2>2, Undoomed DEF Active
  <2> QED
    BY <1>3, <1>4, <2>1, <2>3 DEF Doomed
<1>5. ASSUME drain'.at \in {"validate", "mark"} PROVE drain' = drain
  BY <1>0, <1>5 DEF DrainHolds
<1>6. Held'
  <2>1. drain'.at \notin {"idle", "claim"} => (Active(drain.t, drain.k) /\ ~Doomed(drain.t))' \/ wanted'
    BY <1>3, <1>4 DEF Active, Doomed
  <2>2. drain'.at = "validate" => act'[drain'.t][drain'.k].st = "claimed" /\ task'[drain'.t] = drain'.snap
    BY <1>0, <1>5, LaunchUntouched DEF Held
  <2>3. drain'.at = "mark" => proc'[drain'.t] = drain'.k
    BY <1>0, <1>5, LaunchUntouched DEF Held
  <2> QED
    BY <2>1, <2>2, <2>3 DEF Held
<1>7. Watched'
  <2>1. CASE wanted' \/ drain'.at # "idle"
    BY <2>1 DEF Watched
  <2>2. CASE ~wanted' /\ drain'.at = "idle"
    <3>1. ~wanted /\ drain.at = "idle" /\ (HeadClaimable' => HeadClaimable)
      BY <1>1, <1>2, <2>2
    <3>2. HeadClaimable => FreeSlots = {} \/ \E u \in Tasks, k \in Kinds : Active(u, k) /\ ~Doomed(u)
      BY <1>0, <3>1 DEF Watched
    <3>3. FreeSlots = {} => FreeSlots' = {}
      BY <1>1, <2>2 DEF FreeSlots
    <3>4. ASSUME NEW u \in Tasks, NEW k \in Kinds, Active(u, k), ~Doomed(u) PROVE (Active(u, k) /\ ~Doomed(u))'
      BY <1>1, <2>2, <3>4, Undoomed
    <3> QED
      BY <3>1, <3>2, <3>3, <3>4 DEF Watched
  <2> QED
    BY <2>1, <2>2
<1> QED
  BY <1>6, <1>7

\* Who is given up was between two shifts.
LEMMA CalmServing ==
    ASSUME Given, NEW t \in Tasks, CalmStep(t), boot' = boot
    PROVE  Serving'
<1>0. Inv /\ Serving /\ HandlersType /\ StoreType /\ Store
  BY TypeParts DEF Given, Whole, Inv, Attended, Store
<1>1. ASSUME NEW u \in Tasks PROVE trig'[u].by # "boot" /\ trig'[u].at # "failrun"
  <2>1. CASE u # t
    BY <1>0, <2>1, OthersUntouched DEF Untouched, Serving
  <2>2. CASE u = t
    <3>1. \/ trig' = trig \/ trig' = [trig EXCEPT ![t] = NoTrig]
          \/ \E at \in {"authorize", "insert", "spawn", "start", "bind", "name"} : trig' = [trig EXCEPT ![t].at = at]
      BY DEF CalmStep, Submit, Provision, Nudge, Reap, AuthorizeRejects, AuthorizeQueues, AuthorizeAnswers, Done,
         InsertRun, SpawnReviewer, MarkAction, MarkTask, NameReviewer, HandlerSteps, ExitReported, ExitReads, ExitBinds,
         ExitFinishes, ResultHandled, FailureHandled, ProcessSteps, WorkerExits, ReviewerFails, ReviewerSubmits,
         handlers
    <3>2. NoTrig.at = "idle" /\ NoTrig.by = "event"
      BY DEF NoTrig
    <3> QED
      BY <1>0, <2>2, <3>1, <3>2 DEF HandlersType, Trigs, Serving
  <2> QED
    BY <2>1, <2>2
<1>2. ASSUME NEW u \in Tasks, task'[u].st = "incident" PROVE Owned(u)' = {}
  <2>1. CASE u # t
    BY <1>0, <1>2, <2>1, OthersUntouched DEF Untouched, Serving, Owned
  <2>2. CASE u = t
    <3>1. CASE UNCHANGED store
      BY <1>0, <1>2, <3>1 DEF Serving, Owned, store
    <3>2. CASE AuthorizeRejects(t)
      BY <2>2, <3>2 DEF AuthorizeRejects, Incident, Owned
    <3>3. ~Submit(t) /\ ~Provision(t) /\ ~AuthorizeQueues(t)
      BY <1>0, <1>2, <2>2 DEF Submit, Provision, AuthorizeQueues, StoreType, TaskRows
    <3>4. ~ExitFinishes(t) /\ (ResultHandled(t) \/ FailureHandled(t) => UNCHANGED store)
      BY <1>2, <2>2, FinishTended, HandledTended
    <3>5. ~MarkTask(t) \/ UNCHANGED store
      BY <1>0, <1>2, <2>2 DEF MarkTask, StoreType, TaskRows, store
    <3>6. (MarkAction(t) \/ ExitBinds(t)) => UNCHANGED store
      <4>1. MarkAction(t) \/ ExitBinds(t) => task' = task
        BY DEF MarkAction, ExitBinds
      <4>2. MarkAction(t) \/ ExitBinds(t) => UNCHANGED store \/ \E k \in Kinds : Active(t, k)
        <5>1. MarkAction(t) => Reviewer[pr[t]] \in Kinds
          BY <1>0, WorkerKinds DEF MarkAction, Inv, Triggered
        <5> QED
          BY <5>1, WorkerKinds DEF MarkAction, ExitBinds, store, Active
      <4> QED
        BY <1>2, <2>2, <4>1, <4>2, OnTheJob DEF Ends
    <3> QED
      BY <3>1, <3>2, <3>3, <3>4, <3>5, <3>6 DEF CalmStep, Nudge, Reap, AuthorizeAnswers, InsertRun, SpawnReviewer,
         NameReviewer, HandlerSteps, ExitReported, ExitReads, ProcessSteps, WorkerExits, ReviewerFails,
         ReviewerSubmits
  <2> QED
    BY <2>1, <2>2
<1> QED
  BY <1>0, <1>1, <1>2 DEF Serving

\* A drain that is at its end leaves the queue to an active action or to the next.
LEMMA WatchedOrHeld ==
    ASSUME Given, drain.at \notin {"idle", "claim"}, UNCHANGED <<act, exit, wanted>>
    PROVE  Watched'
<1>1. ((Active(drain.t, drain.k) /\ ~Doomed(drain.t)) \/ wanted) /\ drain.t \in Tasks /\ drain.k \in Kinds
  BY TypeParts DEF Given, Whole, Inv, Draining, Attended, Held, HandlersType, Drains
<1> QED
  BY <1>1 DEF Watched, Active, Doomed

\* The drain starts, ends, or reads its launch back.
LEMMA DrainPasses ==
    ASSUME Given, DrainStart \/ DrainEnds \/ DrainReads \/ DrainLooks
    PROVE  Held' /\ Watched' /\ (\A u \in Tasks : Tended(u)') /\ UNCHANGED <<task, act, trig>>
<1>0. drain \in Drains /\ Held
  BY TypeParts DEF Given, Whole, Inv, HandlersType, Attended
<1>1. UNCHANGED <<task, act, queue, row, proc, exit, rproc, pr, run, report, trig>>
  BY DEF DrainStart, DrainEnds, DrainReads, DrainLooks, store, reviews, world
<1>2. \/ drain' = Claiming \/ (drain' = NoDrain /\ wanted' = wanted)
      \/ /\ drain.at \in {"read", "look"} /\ wanted' = wanted
         /\ \E at \in {"look", "bind"} : drain' = [drain EXCEPT !.at = at]
  BY DEF DrainStart, DrainEnds, DrainReads, DrainLooks
<1>3. drain.at \in {"idle", "claim", "read", "look"} /\ drain'.at \in {"idle", "claim", "look", "bind"}
  BY <1>0, <1>2, RowFacts DEF DrainStart, DrainEnds, DrainReads, DrainLooks, Drains
<1>4. ASSUME NEW u \in Tasks PROVE Tended(u)'
  <2>1. Untouched(u)
    BY <1>1, <1>3 DEF Untouched, DrainStays, Aside
  <2> QED
    BY <2>1, UntouchedTended DEF Given, Attended
<1>5. Held'
  <2>1. CASE drain'.at \in {"idle", "claim"}
    BY <2>1 DEF Held
  <2>2. CASE drain'.at \notin {"idle", "claim"}
    <3>1. /\ drain.at \in {"read", "look"} /\ wanted' = wanted /\ act' = act /\ exit' = exit
          /\ drain'.at \in {"look", "bind"} /\ drain'.t = drain.t /\ drain'.k = drain.k
      BY <1>0, <1>1, <1>2, <2>2, RowFacts DEF Drains
    <3> QED
      BY <1>0, <3>1 DEF Held, Active, Doomed
  <2> QED
    BY <2>1, <2>2
<1>6. Watched'
  <2>1. CASE drain'.at # "idle"
    BY <2>1 DEF Watched
  <2>2. CASE (DrainReads \/ DrainLooks) /\ drain'.at = "idle"
    BY <1>1, <2>2, WatchedOrHeld DEF DrainReads, DrainLooks
  <2>3. CASE DrainEnds
    <3>1. FreeSlots' = FreeSlots
      BY <1>1 DEF FreeSlots, Active
    <3>2. HeadClaimable' => HeadClaimable
      BY <1>1 DEF HeadClaimable, Claimable
    <3> QED
      BY <2>3, <3>1, <3>2 DEF DrainEnds, Watched
  <2>4. DrainStart => drain'.at # "idle"
    BY RowFacts DEF DrainStart
  <2> QED
    BY <2>1, <2>2, <2>3, <2>4
<1> QED
  BY <1>1, <1>4, <1>5, <1>6

\* The drain claims the head of the queue.
LEMMA ClaimTended ==
    ASSUME Given, DrainClaims
    PROVE  Held' /\ Watched' /\ \A u \in Tasks : Tended(u)'
<1>0. /\ drain \in Drains /\ Inv /\ Store /\ StoreType /\ drain.at = "claim"
  BY TypeParts DEF Given, Whole, Inv, HandlersType, Store, DrainClaims
<1>1. UNCHANGED <<row, proc, exit, rproc, pr, run, report, trig>>
  BY DEF DrainClaims, reviews, world
<1>2. PICK t \in Tasks, k \in Kinds, s \in Slots :
        /\ Head(queue) = <<t, k>> /\ SetAct(t, k, "claimed", s)
        /\ task' = [task EXCEPT ![t].st = RunningState[k]]
        /\ drain' = [drain EXCEPT !.at = IF k \in Workers THEN "validate" ELSE "trigger",
                                  !.t = t, !.k = k, !.snap = task'[t]]
  BY DEF DrainClaims
<1>3. /\ drain'.at = IF k \in Workers THEN "validate" ELSE "trigger"
      /\ drain'.t = t /\ drain'.k = k /\ drain'.snap = task'[t]
  BY <1>0, <1>2 DEF Drains
<1>4. act[t][k].st = "queued"
  BY <1>2 DEF DrainClaims, HeadClaimable, Claimable
<1>5. \A j \in Kinds : ~Active(t, j)
  <2> SUFFICES ASSUME NEW j \in Kinds, Active(t, j) PROVE FALSE
    OBVIOUS
  <2>1. j \in Owned(t) /\ k \in Owned(t)
    BY <1>4 DEF Owned, Active
  <2>2. j = k
    BY <1>0, <2>1, SoleOwner
  <2> QED
    BY <1>4, <2>2 DEF Active
<1>6. proc[t] = "" /\ exit[t].at = "none" /\ Unasked(t)
  BY <1>5, OneShift
<1>7. act'[t][k].st = "claimed" /\ \A u \in Tasks, j \in Kinds : u # t \/ j # k => act'[u][j] = act[u][j]
  BY <1>0, <1>2, ActsKept
<1>8. \A j \in Kinds : act'[t][j].st \in {"claimed", "running"} => j = k
  BY <1>5, <1>7 DEF Active
<1>9. proc'[t] = "" /\ exit'[t].at = "none" /\ Unasked(t)'
  BY <1>1, <1>6 DEF Unasked
<1>10. Tended(t)'
  <2>1. CASE k \in Workers
    <3>1. Awake(t)'
      BY <1>3, <1>9, <2>1 DEF Awake
    <3>2. \A j \in Reviewers : ~Active(t, j)'
      BY <1>8, <2>1, WorkerKinds DEF Active
    <3> QED
      BY <1>9, <3>1, <3>2, ByShift
  <2>2. CASE k \notin Workers
    <3>1. \A j \in Workers : ~Active(t, j)'
      BY <1>8, <2>2, WorkerKinds DEF Active
    <3>2. Asked(t)'
      BY <1>9 DEF Asked, Unasked
    <3>3. \A j \in Kinds : act'[t][j].st # "running"
      BY <1>7, <1>8
    <3>4. \A j \in Reviewers : act'[t][j].st = "claimed" => j = k
      BY <1>8, WorkerKinds
    <3>5. \A h \in Heads : act'[t][Reviewer[h]].st # "running"
      BY <3>3, WorkerKinds
    <3>6. Heard(t)'
      BY <1>3, <2>2, <3>4, <3>5 DEF Heard
    <3> QED
      BY <1>9, <3>1, <3>2, <3>6, ByShift
  <2> QED
    BY <2>1, <2>2
<1>11. ASSUME NEW u \in Tasks, u # t PROVE Tended(u)'
  <2>1. task'[u] = task[u] /\ act'[u] = act[u]
    BY <1>0, <1>2, <1>11 DEF SetAct, StoreType
  <2>2. Untouched(u)
    BY <1>0, <1>1, <1>3, <1>11, <2>1 DEF Untouched, DrainStays, Aside
  <2> QED
    BY <2>2, UntouchedTended DEF Given, Attended
<1>12. Held'
  BY <1>3, <1>7, <1>9 DEF Held, Active, Doomed
<1>13. Watched'
  BY <1>3 DEF Watched
<1> QED
  BY <1>10, <1>11, <1>12, <1>13

\* The drain fails the action it claimed, and goes on.
LEMMA FailedTended ==
    ASSUME Given, drain.at \notin {"idle", "claim"}, FailClaimed, Finishable(drain.t, drain.k, drain.snap),
           proc[drain.t] = "", exit[drain.t].at = "none", Unasked(drain.t),
           UNCHANGED <<row, reviews, world, trig, exit, report>>
    PROVE  Held' /\ Watched' /\ \A u \in Tasks : Tended(u)'
<1>0. Inv /\ Store /\ StoreType /\ drain.t \in Tasks /\ drain.k \in Kinds
  BY TypeParts DEF Given, Whole, Inv, Draining, HandlersType, Drains, Store
<1>1. PICK t \in Tasks, k \in Kinds : t = drain.t /\ k = drain.k
  BY <1>0
<1>2. Active(t, k) /\ Finish(t, k, "failed", "failed") /\ drain' = Claiming
  BY <1>1 DEF FailClaimed, Finishable
<1>3. Owned(t) = {k}
  BY <1>2, OnTheJob
<1>4. act'[t][k].st = "failed" /\ \A u \in Tasks, j \in Kinds : u # t \/ j # k => act'[u][j] = act[u][j]
  BY <1>0, <1>2, ActsKept DEF Finish
<1>5. \A j \in Kinds : ~Active(t, j)'
  BY <1>3, <1>4 DEF Owned, Active
<1>6. Tended(t)'
  BY <1>1, <1>5, ByShift DEF Unasked, world
<1>7. ASSUME NEW u \in Tasks, u # t PROVE Tended(u)'
  <2>1. task'[u] = task[u] /\ act'[u] = act[u]
    BY <1>0, <1>2, <1>7 DEF Finish, SetAct, StoreType
  <2>2. Untouched(u)
    BY <1>1, <1>2, <1>7, <2>1, RowFacts DEF Untouched, DrainStays, Aside, world, reviews
  <2> QED
    BY <2>2, UntouchedTended DEF Given, Attended
<1> QED
  BY <1>2, <1>6, <1>7, RowFacts DEF Held, Watched

\* The launch is refused before a process exists.
LEMMA RefuseTended ==
    ASSUME Given, DrainRefuses
    PROVE  Held' /\ Watched' /\ \A u \in Tasks : Tended(u)'
<1>0. /\ Inv /\ Launched /\ Held /\ drain.at = "validate" /\ drain.t \in Tasks /\ drain.k \in Workers
  BY DEF Given, Whole, Inv, Draining, Attended, DrainRefuses
<1>1. /\ act[drain.t][drain.k].st = "claimed" /\ task[drain.t] = drain.snap
      /\ proc[drain.t] = "" /\ exit[drain.t].at = "none"
  BY <1>0 DEF Held, Launched
<1>2. Active(drain.t, drain.k) /\ drain.k \in Kinds
  BY <1>0, <1>1, WorkerKinds DEF Active
<1>3. Finishable(drain.t, drain.k, drain.snap) /\ Unasked(drain.t)
  BY <1>0, <1>1, <1>2, OnTheJob, OneShift DEF Finishable
<1> QED
  BY <1>0, <1>1, <1>3, FailedTended DEF DrainRefuses

\* The process is created, and its launch recorded.
LEMMA LaunchingTended ==
    ASSUME Given, DrainCreates \/ DrainMarks
    PROVE  Held' /\ Watched' /\ \A u \in Tasks : Tended(u)'
<1>0. /\ Inv /\ Launched /\ Held /\ drain.at \in {"validate", "mark"} /\ drain.t \in Tasks /\ drain.k \in Workers
      /\ drain \in Drains /\ WorldType
  BY TypeParts DEF Given, Whole, Inv, Draining, HandlersType, Attended, DrainCreates, DrainMarks
<1>1. UNCHANGED <<task, act, exit, rproc, pr, run, report, trig, wanted>>
  BY DEF DrainCreates, DrainMarks, store, reviews, world
<1>2. PICK t \in Tasks, k \in Workers : t = drain.t /\ k = drain.k
  BY <1>0
<1>3. act[t][k].st = "claimed" /\ k \in Kinds /\ k # ""
  BY <1>0, <1>2, WorkerKinds DEF Held, Launched
<1>4. Active(t, k) /\ Unasked(t) /\ \A j \in Reviewers : ~Active(t, j)
  BY <1>2, <1>3, OneShift DEF Active
<1>5. drain'.t = t /\ drain'.k = k /\ drain'.at = IF drain.at = "validate" THEN "mark" ELSE "read"
  BY <1>0, <1>2 DEF DrainCreates, DrainMarks, Drains
<1>6. /\ proc'[t] = k /\ row'[t].launch = IF drain.at = "validate" THEN row[t].launch ELSE k
      /\ \A u \in Tasks \ {t} : proc'[u] = proc[u] /\ row'[u] = row[u]
  <2>1. CASE DrainCreates
    BY <1>0, <1>2, <2>1 DEF DrainCreates, WorldType
  <2>2. CASE DrainMarks
    BY <1>0, <1>2, <2>2 DEF DrainMarks, WorldType, world, Held
  <2> QED
    BY <2>1, <2>2
<1>7. exit[t].at \in {"none", "report"}
  BY <1>0, <1>2 DEF Launched
<1>8. Awake(t)'
  BY <1>0, <1>1, <1>3, <1>5, <1>6, <1>7 DEF Awake, Launching
<1>9. Tended(t)'
  BY <1>1, <1>4, <1>8, ByShift DEF Unasked, Active
<1>10. ASSUME NEW u \in Tasks, u # t PROVE Tended(u)'
  <2>1. Untouched(u)
    BY <1>1, <1>2, <1>5, <1>6, <1>10 DEF Untouched, DrainStays, Aside
  <2> QED
    BY <2>1, UntouchedTended DEF Given, Attended
<1>11. Held' /\ Watched'
  BY <1>1, <1>4, <1>5, <1>6, <1>7 DEF Held, Watched, Active, Doomed
<1> QED
  BY <1>9, <1>10, <1>11

\* The launch is bound, unless the exit handler was first.
LEMMA BindTended ==
    ASSUME Given, DrainBinds
    PROVE  Held' /\ Watched' /\ (\A u \in Tasks : Tended(u)' /\ task'[u] = task[u] /\ Owned(u)' \subseteq Owned(u))
<1>0. /\ Inv /\ Store /\ StoreType /\ Held /\ drain.at = "bind" /\ drain.t \in Tasks /\ drain.k \in Workers
  BY TypeParts DEF Given, Whole, Inv, Draining, Store, Attended, DrainBinds
<1>1. UNCHANGED <<task, row, proc, exit, rproc, pr, run, report, trig, wanted>>
  BY DEF DrainBinds, reviews, world
<1>2. PICK t \in Tasks, k \in Workers : t = drain.t /\ k = drain.k
  BY <1>0
<1>3. k \in Kinds /\ k \notin Reviewers
  BY WorkerKinds
<1>4. act' = act \/ (Start(t, k) /\ act[t][k].st = "claimed")
  BY <1>2 DEF DrainBinds
<1>5. /\ act'[t][k] = act[t][k] \/ (act[t][k].st = "claimed" /\ act'[t][k].st = "running")
      /\ \A u \in Tasks, j \in Kinds : u # t \/ j # k => act'[u][j] = act[u][j]
  BY <1>0, <1>3, <1>4, ActsKept DEF Start
<1>6. drain' = NoDrain \/ drain' = Claiming
  BY DEF DrainBinds
<1>7. drain'.at \in {"idle", "claim"}
  BY <1>6, RowFacts
<1>8. ASSUME NEW u \in Tasks PROVE Tended(u)'
  <2>1. CASE act'[u] = act[u]
    <3>1. Untouched(u)
      BY <1>0, <1>1, <1>7, <2>1 DEF Untouched, DrainStays, Aside
    <3> QED
      BY <3>1, UntouchedTended DEF Given, Attended
  <2>2. CASE u = t /\ act[t][k].st = "claimed"
    <3>1. Unasked(t) /\ \A j \in Reviewers : ~Active(t, j)
      BY <1>3, <2>2, OneShift DEF Active
    <3>2. \A j \in Reviewers : ~Active(t, j)'
      BY <1>3, <1>5, <3>1, WorkerKinds DEF Active
    <3>3. Awake(t)
      BY DEF Given, Attended, Tended
    <3>4. \A j \in Workers : Active(t, j)' => Active(t, j)
      BY <1>5, <2>2, WorkerKinds DEF Active
    <3>5. Awake(t)'
      BY <1>0, <1>1, <1>7, <2>2, <3>3, <3>4 DEF Awake, Launching, Doomed
    <3> QED
      BY <1>1, <2>2, <3>1, <3>2, <3>5, ByShift DEF Unasked
  <2> QED
    BY <1>0, <1>4, <2>1, <2>2 DEF Start, SetAct, StoreType
<1>9. Held'
  BY <1>7 DEF Held
<1>10. Watched'
  <2>1. CASE drain' = Claiming
    BY <2>1, RowFacts DEF Watched
  <2>2. CASE drain' # Claiming
    <3>1. act' = act
      BY <2>2 DEF DrainBinds
    <3> QED
      BY <1>0, <1>1, <3>1, WatchedOrHeld
  <2> QED
    BY <2>1, <2>2
<1>11. ASSUME NEW u \in Tasks PROVE task'[u] = task[u] /\ Owned(u)' \subseteq Owned(u)
  BY <1>1, <1>5 DEF Owned
<1> QED
  BY <1>8, <1>9, <1>10, <1>11

\* A reviewer that is claimed has its review triggered.
LEMMA TriggersTended ==
    ASSUME Given, DrainTriggers
    PROVE  /\ Held' /\ Watched' /\ (\A u \in Tasks : Tended(u)') /\ UNCHANGED <<task, act>>
           /\ \A u \in Tasks : trig'[u].by # "boot" /\ trig'[u].at # "failrun"
<1>0. /\ Inv /\ drain \in Drains /\ HandlersType /\ Held /\ Serving /\ drain.at = "trigger" /\ drain.t \in Tasks
      /\ trig[drain.t].at = "idle"
  BY TypeParts DEF Given, Whole, Inv, HandlersType, Draining, Attended, DrainTriggers
<1>1. UNCHANGED <<task, act, row, proc, exit, rproc, pr, run, report, wanted>>
  BY DEF DrainTriggers, store, reviews, world
<1>2. PICK t \in Tasks : t = drain.t
  BY <1>0
<1>3. /\ drain'.at \in {"wait", "triggered"} /\ drain'.t = t /\ drain'.k = drain.k /\ drain'.snap = drain.snap
      /\ trig' = trig \/ trig' = [trig EXCEPT ![t] = [at |-> "authorize", by |-> "drain"]]
  BY <1>0, <1>2 DEF DrainTriggers, Drains
<1>4. DrainHolds
  BY <1>0, <1>2, <1>3 DEF DrainHolds
<1>5. /\ trig'[t].at \in {"idle", "authorize"} /\ trig'[t].by # "boot"
      /\ \A u \in Tasks \ {t} : trig'[u] = trig[u]
  BY <1>0, <1>2, <1>3 DEF HandlersType, Serving
<1>6. Tended(t)'
  BY <1>1, <1>4, <1>5, OnlyAsked DEF Unasked, DrainStays, Given, Attended
<1>7. ASSUME NEW u \in Tasks, u # t PROVE Tended(u)'
  <2>1. Untouched(u)
    BY <1>1, <1>4, <1>5, <1>7 DEF Untouched, DrainStays
  <2> QED
    BY <2>1, UntouchedTended DEF Given, Attended
<1>8. Held' /\ Watched'
  BY <1>0, <1>1, <1>2, <1>3 DEF Held, Watched, Active, Doomed
<1> QED
  BY <1>0, <1>1, <1>5, <1>6, <1>7, <1>8 DEF Serving

\* The drain hears of its review: it goes on, gives the action up, or leaves it to
\* the reviewer.
LEMMA ReviewsTended ==
    ASSUME Given, DrainReviews
    PROVE  /\ Held' /\ Watched' /\ (\A u \in Tasks : Tended(u)') /\ UNCHANGED trig
           /\ UNCHANGED store \/ FailClaimed
<1>0. /\ Inv /\ drain \in Drains /\ drain.at = "triggered" /\ drain.t \in Tasks /\ drain.k \in Reviewers
      /\ \A u \in Tasks : Tended(u)
  BY TypeParts DEF Given, Whole, Inv, HandlersType, Draining, Launched, Attended, DrainReviews
<1>1. UNCHANGED <<row, reviews, world, trig, exit, report, wanted>>
  BY DEF DrainReviews
<1>2. PICK t \in Tasks, k \in Kinds : t = drain.t /\ k = drain.k
  BY <1>0, WorkerKinds
<1>3. CASE FailClaimed /\ Finishable(drain.t, drain.k, drain.snap)
  <2>1. Active(t, k) /\ k \in Reviewers
    BY <1>0, <1>2, <1>3 DEF Finishable
  <2>2. proc[t] = "" /\ exit[t].at = "none"
    BY <2>1, OneShift
  <2>3. trig[t].at = "idle"
    BY <1>2, <1>3, GivenUp DEF Given
  <2> QED
    BY <1>0, <1>1, <1>2, <1>3, <2>2, <2>3, FailedTended DEF Unasked
<1>4. CASE ~(FailClaimed /\ Finishable(drain.t, drain.k, drain.snap))
  <2>1. UNCHANGED store /\ (drain' = NoDrain \/ drain' = Claiming)
    BY <1>4 DEF DrainReviews, FailClaimed
  <2>2. act[t][k].st = "claimed" => Finishable(t, k, drain.snap)
    <3>1. act[t][k].st = "claimed" => Active(t, k)
      BY DEF Active
    <3>2. act[t][k].st = "claimed" => task[t] = drain.snap
      BY <1>0, <1>2 DEF Tended, Heard
    <3> QED
      BY <3>1, <3>2, OnTheJob DEF Finishable
  <2>3. act[t][k].st # "claimed"
    <3> SUFFICES ASSUME act[t][k].st = "claimed" PROVE FALSE
      OBVIOUS
    <3>1. FailClaimed
      BY <1>2 DEF DrainReviews
    <3> QED
      BY <1>2, <1>4, <2>2, <3>1
  <2>4. drain'.at \in {"idle", "claim"}
    BY <2>1, RowFacts
  <2>5. UNCHANGED <<task, act, queue, row, proc, exit, rproc, pr, run, report, trig, wanted>>
    BY <1>1, <2>1 DEF store, world, reviews
  <2>6. ASSUME NEW u \in Tasks PROVE Tended(u)'
    <3>1. Awake(u)'
      BY <1>0, <2>4, <2>5 DEF Tended, Awake, Doomed, Launching, Active
    <3>2. Asked(u)'
      BY <1>0, <2>5 DEF Tended, Asked
    <3>3. \A j \in Reviewers : act[u][j].st # "claimed"
      BY <1>0, <1>2, <2>3 DEF Tended, Heard
    <3>4. Heard(u)'
      BY <1>0, <2>5, <3>3 DEF Tended, Heard
    <3> QED
      BY <3>1, <3>2, <3>4 DEF Tended
  <2>7. Held'
    BY <2>4 DEF Held
  <2>8. Watched'
    BY <1>0, <2>5, WatchedOrHeld
  <2> QED
    BY <1>1, <2>1, <2>6, <2>7, <2>8
<1> QED
  BY <1>3, <1>4

\* No step of the drain gives a task up that holds an action.
LEMMA DrainServing ==
    ASSUME Given, DrainSteps \/ DrainRefuses, boot' = boot
    PROVE  Serving'
<1>0. Serving /\ Inv /\ Store /\ StoreType
  BY DEF Given, Whole, Inv, Attended, Store
<1> SUFFICES ASSUME NEW u \in Tasks
             PROVE  /\ trig'[u].by # "boot" /\ trig'[u].at # "failrun"
                    /\ task'[u].st = "incident" => Owned(u)' = {}
  BY <1>0 DEF Serving
<1>1. trig'[u].by # "boot" /\ trig'[u].at # "failrun"
  <2>1. CASE DrainTriggers
    BY <2>1, TriggersTended
  <2>2. CASE ~DrainTriggers
    <3>1. trig' = trig
      BY <2>2 DEF DrainSteps, DrainStart, DrainEnds, DrainClaims, DrainCreates, DrainMarks, DrainReads,
         DrainLooks, DrainBinds, DrainReviews, DrainRefuses
    <3> QED
      BY <1>0, <3>1 DEF Serving
  <2> QED
    BY <2>1, <2>2
<1>2. task'[u].st = "incident" => Owned(u)' = {}
  <2>1. CASE UNCHANGED store
    BY <1>0, <2>1 DEF Serving, Owned, store
  <2>2. CASE DrainClaims
    <3>1. PICK t \in Tasks, k \in Kinds, s \in Slots :
            SetAct(t, k, "claimed", s) /\ task' = [task EXCEPT ![t].st = RunningState[k]]
      BY <2>2 DEF DrainClaims
    <3>2. u # t => task'[u] = task[u] /\ act'[u] = act[u]
      BY <1>0, <3>1 DEF SetAct, StoreType
    <3>3. u = t => task'[u].st = RunningState[k]
      BY <1>0, <3>1 DEF StoreType, TaskRows
    <3> QED
      BY <1>0, <3>2, <3>3, KindFacts DEF Serving, Owned, Runnings
  <2>3. CASE FailClaimed
    <3>1. CASE Finish(drain.t, drain.k, "failed", "failed") /\ Finishable(drain.t, drain.k, drain.snap)
      <4>1. u # drain.t => task'[u] = task[u] /\ act'[u] = act[u]
        BY <1>0, <3>1 DEF Finish, SetAct, StoreType
      <4>2. u = drain.t => task'[u].st = "failed"
        BY <1>0, <3>1 DEF Finish, StoreType, TaskRows
      <4> QED
        BY <1>0, <4>1, <4>2 DEF Serving, Owned
    <3> QED
      BY <2>1, <2>3, <3>1 DEF FailClaimed
  <2>4. CASE DrainBinds
    BY <1>0, <2>4, BindTended DEF Serving
  <2>5. DrainReviews => UNCHANGED store \/ FailClaimed
    BY ReviewsTended
  <2> QED
    BY <2>1, <2>2, <2>3, <2>4, <2>5 DEF DrainSteps, DrainStart, DrainEnds, DrainCreates, DrainMarks, DrainReads,
       DrainLooks, DrainTriggers, DrainRefuses
<1> QED
  BY <1>1, <1>2

\* At the start there is nothing to attend to.
LEMMA AttendedInit == Init => Attended
<1> SUFFICES ASSUME Init PROVE Attended
  OBVIOUS
<1>1. ASSUME NEW t \in Tasks
      PROVE  /\ task[t] = NoTask /\ proc[t] = "" /\ trig[t] = NoTrig
             /\ exit[t].at = "none" /\ report[t].at = "none"
  BY <1>1 DEF Init, NoExit, NoReport
<1>2. \A t \in Tasks, k \in Kinds : act[t][k].st = "none"
  BY DEF Init, NoAct
<1>3. NoTask.st = "absent" /\ NoTrig.at = "idle" /\ NoTrig.by = "event" /\ drain.at = "idle" /\ queue = <<>>
  BY RowFacts DEF Init, NoTask, NoTrig
<1>4. \A t \in Tasks : \A h \in Heads : act[t][Reviewer[h]].st = "none"
  BY <1>2, WorkerKinds
<1>5. ASSUME NEW t \in Tasks PROVE Tended(t)
  <2>1. \A k \in Kinds : act[t][k].st = "none"
    BY <1>2
  <2>2. Awake(t)
    BY <1>1, <2>1, WorkerKinds DEF Awake, Active
  <2>3. Asked(t)
    BY <1>1, <1>3 DEF Asked
  <2>4. Heard(t)
    BY <1>4, <2>1, WorkerKinds DEF Heard
  <2> QED
    BY <2>2, <2>3, <2>4 DEF Tended
<1>6. Serving
  BY <1>1, <1>3 DEF Init, Serving
<1>7. Held /\ Watched
  BY <1>3 DEF Held, Watched, HeadClaimable
<1> QED
  BY <1>5, <1>6, <1>7 DEF Attended

\* As long as nothing fails, every step leaves everything attended to.
LEMMA AttendedNext ==
    ASSUME Whole, Calm => Attended, Next, Calm'
    PROVE  Attended'
<1>0. TypeOK /\ Calm
  BY Budgeted DEF Whole, Inv, Calm
<1>1. Given /\ ~Fault /\ UNCHANGED budget
  BY <1>0, NoFault DEF Given, Calm, budget
<1>2. /\ boot' = boot
      /\ DrainSteps \/ (DrainRefuses /\ ~LaunchReady(drain.t)) \/ \E t \in Tasks : CalmStep(t)
  BY <1>0, <1>1, CalmSteps
<1>3. CASE DrainSteps \/ DrainRefuses
  <2>1. Serving'
    BY <1>1, <1>2, <1>3, DrainServing
  <2>2. Held' /\ Watched' /\ \A u \in Tasks : Tended(u)'
    BY <1>1, <1>3, DrainPasses, ClaimTended, RefuseTended, LaunchingTended, BindTended, TriggersTended,
       ReviewsTended DEF DrainSteps
  <2> QED
    BY <2>1, <2>2 DEF Attended
<1>4. CASE \E t \in Tasks : CalmStep(t)
  BY <1>1, <1>2, <1>4, CalmServing, CalmHeld, CalmTended DEF Attended
<1> QED
  BY <1>2, <1>3, <1>4
-----------------------------------------------------------------------------
(* The theorems.                                                           *)

\* Every row, process and handler keeps to its values, however many tasks and
\* slots there are and however often the daemon dies.
THEOREM PolicyTypes == Spec => []TypeOK
<1>1. Inv => TypeOK
  BY DEF Inv
<1> QED
  BY InvInit, InvNext, <1>1, PTL DEF Spec

\* A slot never holds two actions, and an action that is not active holds none.
THEOREM PolicySlots == Spec => []SlotsExclusive
<1>1. Inv => SlotsExclusive
  BY DEF Inv, Store
<1> QED
  BY InvInit, InvNext, <1>1, PTL DEF Spec

\* A task and its actions tell the same story, whoever drains, reports, reviews
\* or restarts in between.
THEOREM PolicyPhases == Spec => []PhaseOwnsAction
<1>1. Inv => PhaseOwnsAction
  BY DEF Inv, Store
<1> QED
  BY InvInit, InvNext, <1>1, PTL DEF Spec

\* The queue keeps its promise for any number of tasks and slots, whatever
\* fails and however often the daemon dies: no action runs a second time, none
\* before the one it follows succeeded, and they wait in one line.
THEOREM PolicyImplements == Spec => Implements
<1>1. Init => Promise!Init
  BY PromisedStages DEF Init, Promise!Init
<1>2. Whole /\ [Next]_vars => [Promise!Next]_<<act, queue>>
  <2> SUFFICES ASSUME Whole, [Next]_vars PROVE Promise!Step \/ UNCHANGED <<act, queue>>
    BY DEF Promise!Next
  <2>1. CASE UNCHANGED vars
    BY <2>1 DEF vars, store
  <2>2. CASE Next
    BY <2>2, StepMakes, KeepsPromise DEF Whole, store
  <2> QED
    BY <2>1, <2>2
<1> QED
  BY <1>1, <1>2, WholeInit, WholeNext, PTL DEF Spec, Implements, Promise!Spec

\* A worker that lives, and a reviewer whose run is open, is one whose action
\* holds a slot, so that the slots really cap the models that run at a time.
THEOREM PolicyLive == Spec => []LiveHoldsSlot
<1>1. Whole => LiveHoldsSlot
  BY DEF Whole, Alive, AliveTask, Reviewed, ReviewedTask, Open, LiveHoldsSlot
<1> QED
  BY WholeInit, WholeNext, <1>1, PTL DEF Spec

\* A task waits for admission only with the approval of the very head of its
\* PR; one that was repaired was asked to, and waits with the head of the repair.
THEOREM PolicyAdmits == Spec => []AdmittedWasReviewed
<1>1. Whole => AdmittedWasReviewed
  <2> SUFFICES ASSUME Whole, NEW t \in Tasks, task[t].st = "admission_waiting"
               PROVE  /\ task[t].head = pr[t] /\ task[t].run = task[t].head
                      /\ run[t][task[t].head] = "approved"
                      /\ task[t].repair = 1 => run[t][1] = "changes" /\ task[t].head = 2
    BY DEF AdmittedWasReviewed
  <2>1. ReviewedTask(t) /\ Course(t)
    BY DEF Whole, Reviewed, OnCourse
  <2>2. task[t].repair = 1 => run[t][1] = "changes"
    BY DEF Whole, Heading, Ends
  <2>3. task[t].repair = 1 => task[t].head = 2
    BY <2>1 DEF Course, UnderRepair
  <2> QED
    BY <2>1, <2>2, <2>3 DEF ReviewedTask
<1> QED
  BY WholeInit, WholeNext, <1>1, PTL DEF Spec

\* No wakeup is lost, for any number of tasks and slots: as long as nothing failed,
\* a system with nothing left to do has drained its queue, and holds no slot but
\* those of the workers whose exit handler was overtaken by the drain.
THEOREM PolicyNeverWaits == Spec => []NothingWaits
<1>1. Init => (Calm => Attended)
  BY AttendedInit
<1>2. Whole /\ (Calm => Attended) /\ [Next]_vars => (Calm => Attended)'
  <2> SUFFICES ASSUME Whole, Calm => Attended, [Next]_vars, Calm' PROVE Attended'
    OBVIOUS
  <2>1. CASE UNCHANGED vars
    <3>1. UNCHANGED <<task, act, queue, row, run, rproc, proc, pr, drain, wanted, trig, exit, report, boot,
                      crashes, faults>>
      BY <2>1 DEF vars, store, reviews, world, handlers, budget
    <3>2. Attended
      BY <3>1 DEF Calm
    <3>3. Serving' /\ Held' /\ Watched'
      BY <3>1, <3>2 DEF Attended, Serving, Owned, Held, Watched, Active, Doomed, FreeSlots, HeadClaimable, Claimable
    <3>4. ASSUME NEW u \in Tasks PROVE Tended(u)'
      BY <3>1, <3>2, UntouchedTended DEF Attended, Untouched, DrainStays, DrainHolds
    <3> QED
      BY <3>3, <3>4 DEF Attended
  <2>2. CASE Next
    BY <2>2, AttendedNext
  <2> QED
    BY <2>1, <2>2
<1>3. Whole /\ (Calm => Attended) => NothingWaits
  <2> SUFFICES ASSUME Whole, Attended, Resting
               PROVE  /\ HeadClaimable => FreeSlots = {}
                      /\ \A t \in Tasks, k \in Kinds :
                           Active(t, k) => Overtaken(t) /\ k \in Workers /\ act[t][k].st = "running"
    BY DEF Calm, NothingWaits
  <2>1. ASSUME NEW t \in Tasks, NEW k \in Kinds, Active(t, k)
        PROVE  Overtaken(t) /\ Doomed(t) /\ k \in Workers /\ act[t][k].st = "running"
    <3>1. /\ proc[t] = "" /\ rproc[t] = 0 /\ exit[t].at \in {"none", "overtaken"} /\ report[t].at = "none"
          /\ drain.at = "idle" /\ Awake(t) /\ Heard(t)
      BY DEF Resting, AtWork, Overtaken, Attended, Tended
    <3>2. k \notin Reviewers
      <4> SUFFICES ASSUME k \in Reviewers PROVE FALSE
        OBVIOUS
      <4>1. act[t][k].st # "claimed"
        BY <3>1 DEF Heard
      <4>2. PICK h \in Heads : Reviewer[h] = k
        BY DEF Reviewers, Heads, Reviewer
      <4>3. h # 0
        BY DEF Heads
      <4>4. act[t][Reviewer[h]].st # "running"
        BY <3>1, <4>3 DEF Heard
      <4> QED
        BY <2>1, <4>1, <4>2, <4>4 DEF Active
    <3>3. k \in Workers
      BY <3>2 DEF Kinds
    <3>4. Overtaken(t) /\ Doomed(t)
      BY <2>1, <3>1, <3>3 DEF Awake, Overtaken
    <3> QED
      BY <2>1, <3>3, <3>4 DEF Active, Doomed
  <2>2. HeadClaimable => FreeSlots = {}
    BY <2>1 DEF Attended, Watched, Resting
  <2> QED
    BY <2>1, <2>2
<1> QED
  BY <1>1, <1>2, <1>3, WholeInit, WholeNext, PTL DEF Spec
=============================================================================
