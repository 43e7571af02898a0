------------------------------ MODULE TaskFlow ------------------------------
(***************************************************************************)
(* A DCP v2 task as whoever submitted it sees it: the law of its states,   *)
(* its budgets, and the release that every admission may order once.       *)
(***************************************************************************)
EXTENDS Naturals

CONSTANT MaxReadmissions

VARIABLES state, repairs, readmissions,
    ships    \* how often the release of an admission was ordered

vars == <<state, repairs, readmissions, ships>>

Admissions == 1..(MaxReadmissions + 1)
Current == readmissions + 1

Init ==
    /\ state = "absent" /\ repairs = 0 /\ readmissions = 0
    /\ ships = [n \in Admissions |-> 0]

\* Transitions that spend no budget and order nothing.
Law == {
    <<"absent", "worker_queued">>,
    <<"worker_queued", "checks_waiting">>, <<"repair_queued", "checks_waiting">>,
    <<"checks_waiting", "checks_waiting">>, <<"checks_waiting", "review_queued">>,
    <<"review_queued", "admission_waiting">>, <<"admission_waiting", "release_waiting">>,
    <<"readmission", "checks_waiting">>,
    <<"deployment_waiting", "deployment_observe">>, <<"deployment_observe", "deployed">>}

Move(from, to) == state = from /\ state' = to

Advance ==
    /\ \E step \in Law : Move(step[1], step[2])
    /\ UNCHANGED <<repairs, readmissions, ships>>

Reject ==
    /\ Move("review_queued", "repair_queued") /\ repairs = 0 /\ repairs' = 1
    /\ UNCHANGED <<readmissions, ships>>

Ship ==
    /\ state = "release_waiting" /\ ships[Current] = 0
    /\ ships' = [ships EXCEPT ![Current] = 1]
    /\ UNCHANGED <<state, repairs, readmissions>>

\* What follows a release is reached only by an admission that ordered one.
Observe ==
    /\ Move("release_waiting", "merge_observing") \/ Move("merge_observing", "deployment_waiting")
    /\ ships[Current] = 1 /\ UNCHANGED <<repairs, readmissions, ships>>

Readmit ==
    /\ Move("merge_observing", "readmission")
    /\ readmissions < MaxReadmissions /\ readmissions' = readmissions + 1
    /\ UNCHANGED <<repairs, ships>>

Fail ==
    /\ state \notin {"absent", "deployed", "failed"} /\ state' = "failed"
    /\ UNCHANGED <<repairs, readmissions, ships>>

Next == Advance \/ Reject \/ Ship \/ Observe \/ Readmit \/ Fail

Spec == Init /\ [][Next]_vars
=============================================================================
