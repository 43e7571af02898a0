---------------------------- MODULE ModelActions ----------------------------
(***************************************************************************)
(* What the policy queue promises of a task's model actions: the worker,   *)
(* the review of its head, one repair and the review of that.  Each runs   *)
(* at most once, none before the one it follows has succeeded; they wait   *)
(* in one line, and while an action is active it has a slot to itself.     *)
(***************************************************************************)
EXTENDS Naturals, Sequences

CONSTANTS Tasks, Slots

VARIABLES
    act,      \* the state of each action of each task, and its slot
    queue     \* the waiting actions in the order they were queued

Stages == {"worker-1", "review-1", "worker-2", "review-2"}
Follows == [k \in Stages \ {"worker-1"} |-> CASE k = "review-1" -> "worker-1"
                                              [] k = "worker-2" -> "review-1"
                                              [] OTHER -> "worker-2"]

Idle == [st |-> "none", slot |-> 0]
Busy(t, k) == act[t][k].st \in {"claimed", "running"}
Set(t, k, st, slot) == [act EXCEPT ![t][k] = [st |-> st, slot |-> slot]]

Init == act = [t \in Tasks |-> [k \in Stages |-> Idle]] /\ queue = <<>>

Queue(t, k) ==
    /\ act[t][k].st = "none"
    /\ k # "worker-1" => act[t][Follows[k]].st = "succeeded"
    /\ act' = Set(t, k, "queued", 0) /\ queue' = Append(queue, <<t, k>>)

Claim(t, k, s) ==
    /\ queue # <<>> /\ Head(queue) = <<t, k>> /\ act[t][k].st = "queued"
    /\ \A u \in Tasks, j \in Stages : act[u][j].slot # s
    /\ act' = Set(t, k, "claimed", s) /\ queue' = Tail(queue)

Start(t, k) ==
    /\ act[t][k].st = "claimed"
    /\ act' = Set(t, k, "running", act[t][k].slot) /\ UNCHANGED queue

End(t, k, outcome) ==
    /\ Busy(t, k)
    /\ act' = Set(t, k, outcome, 0) /\ UNCHANGED queue

\* The findings of the first review queue the repair with its end.
EndAndRepair(t) ==
    /\ Busy(t, "review-1") /\ act[t]["worker-2"].st = "none"
    /\ act' = [act EXCEPT ![t]["review-1"] = [st |-> "succeeded", slot |-> 0],
                          ![t]["worker-2"] = [st |-> "queued", slot |-> 0]]
    /\ queue' = Append(queue, <<t, "worker-2">>)

Step ==
    \E t \in Tasks :
      \/ \E k \in Stages :
           \/ Queue(t, k) \/ Start(t, k)
           \/ \E s \in Slots : Claim(t, k, s)
           \/ \E outcome \in {"succeeded", "failed"} : End(t, k, outcome)
      \/ EndAndRepair(t)

\* Each of these steps changes an action or the line.
Next == <<act, queue>>' # <<act, queue>> /\ Step

Spec == Init /\ [][Next]_<<act, queue>>
=============================================================================
