--------------------------- MODULE AdmissionTrain ---------------------------
(***************************************************************************)
(* The terminal merge of a reviewed policy card: one FIFO line of           *)
(* admissions, one claim at a time, a merge asked of the provider, and for  *)
(* a card that cannot merge one call of an arbiter model, which asks for a  *)
(* repair, for an order or for the owner.  A Try holds the engine's mutex   *)
(* from its enrolment to its end; the policy drain, the arbiter's process   *)
(* and the provider go on meanwhile, and the daemon may die between any two *)
(* transactions.                                                            *)
(***************************************************************************)
EXTENDS Integers, FiniteSets, Sequences, SequencesExt

CONSTANTS
    Cards,
    MaxTrainChanges,  \* bound: changes of the pull requests and of main
    MaxTrainFaults    \* bound: crashes, failed calls, lost answers and dead arbiters

VARIABLES
    card,     \* the policy task and its admission: [task, adm, code, repaired]
    line,     \* the cards with an admission, in the order of its sequence
    facts,    \* what the provider says of a card's pull request
    main,     \* the main branch, counted up by every change of it
    related,  \* do the cards touch the same paths?
    engine,   \* who holds the engine's mutex: [at, card, answer]
    arb,      \* the latest arbiter generation: [gen, status, input, order]
    child,    \* its process
    result,   \* the cards whose arbiter left a result file
    moved, troubles,
    asked, unheard, called  \* merges asked for, cards whose answer was lost or whose claim
                            \* was given up without one, arbiters started

cards == <<card, line, related>>
outside == <<facts, main, moved>>
arbiter == <<arb, child, result, called>>
calls == <<asked, unheard>>
trainVars == <<cards, outside, engine, arbiter, troubles, calls>>

Free == [at |-> "off", card |-> "none", answer |-> "none"]
Holds(at) == [Free EXCEPT !.at = at]
NoInput == [main |-> 0, facts |-> "clean", others |-> <<>>]

TrainInit ==
    /\ card = [c \in Cards |-> [task |-> "working", adm |-> "none", code |-> "none",
                                repaired |-> FALSE]]
    /\ line = <<>> /\ related \in BOOLEAN
    /\ facts = [c \in Cards |-> "clean"] /\ main = 1 /\ moved = 0 /\ troubles = 0
    /\ engine = Free
    /\ arb = [c \in Cards |-> [gen |-> 0, status |-> "none", input |-> NoInput, order |-> <<>>]]
    /\ child = [c \in Cards |-> "none"] /\ result = {}
    /\ asked = [c \in Cards |-> 0] /\ unheard = {} /\ called = [c \in Cards |-> 0]

Trouble == troubles < MaxTrainFaults /\ troubles' = troubles + 1

-----------------------------------------------------------------------------
(* Outside the engine                                                      *)

\* The policy queue brings a card to its approved review, at first and after
\* the repair an arbiter asked for, or fails it.
Reviewed(c, task) ==
    /\ card[c].task \in {"working", "repairing"}
    /\ card' = [card EXCEPT ![c].task = task]
    /\ UNCHANGED <<line, related, outside, engine, arbiter, troubles, calls>>

\* "wait": checks run; "stuck": behind main or in conflict; "drifted": no
\* longer the open pull request, head and passed check that were reviewed, or
\* a repository the provider does not name when it is asked, for a moment.
ProviderMoves(c, f) ==
    /\ moved < MaxTrainChanges /\ facts[c] \notin {f, "merged"}
    /\ facts' = [facts EXCEPT ![c] = f] /\ moved' = moved + 1
    /\ UNCHANGED <<cards, main, engine, arbiter, troubles, calls>>

MainMoves ==
    /\ moved < MaxTrainChanges /\ moved' = moved + 1 /\ main' = main + 1
    /\ UNCHANGED <<cards, facts, engine, arbiter, troubles, calls>>

-----------------------------------------------------------------------------
(* The store's transactions                                                *)

Status(c, status) == arb' = [arb EXCEPT ![c].status = status]
Standing(c) == facts[c] \in {"clean", "wait", "stuck"}

\* The first of a list that is one of these.
FirstOf(list, these, c) ==
    \E i \in DOMAIN list :
        list[i] = c /\ c \in these /\ \A j \in 1..(i - 1) : list[j] \notin these

Waiting == {c \in Cards : card[c].adm = "waiting"}
Claimed == {c \in Cards : card[c].adm = "claimed"}

\* The owner has been asked, and the card stands where that left it.
Gated(c) == arb[c].status = "human_gate" /\ card[c].task = "incident"

\* Seeded fault: an incident does not stop the line.
HeedlessCanClaim(c) == FirstOf(line, Waiting, c) /\ Claimed = {}

\* ClaimDCPReviewLabAdmission: the first that waits, with nobody's claim and
\* nobody's incident in the way, wherever in the line it is.
CanClaim(c) ==
    /\ FirstOf(line, Waiting, c)
    /\ \A d \in Cards : card[d].adm # "claimed" /\ (card[d].adm = "incident" => Gated(d))

Incident(c, code) ==
    card' = [card EXCEPT ![c].adm = "incident", ![c].task = "incident", ![c].code = code]

\* With the admission and the task, the arbiter that had it repaired is done.
Complete(c) ==
    /\ arb[c].status \in {"none", "recovery_reviewed"}
    /\ card' = [card EXCEPT ![c].adm = "succeeded", ![c].task = "merged"]
    /\ arb' = [arb EXCEPT ![c].status = IF @ = "none" THEN @ ELSE "succeeded"]

-----------------------------------------------------------------------------
(* Try, to the end of its enrolment                                        *)

\* The commit is signalled, and another Try is started.
Enrol(c) ==
    /\ engine = Free /\ card[c].task = "approved" /\ card[c].adm = "none" /\ Standing(c)
    /\ card' = [card EXCEPT ![c].adm = "waiting"] /\ line' = Append(line, c)
    /\ UNCHANGED <<related, outside, engine, arbiter, troubles, calls>>

GiveUp(c) ==
    /\ engine = Free /\ card[c].task = "approved" /\ card[c].adm = "none" /\ ~Standing(c)
    /\ card' = [card EXCEPT ![c].task = "incident"]
    /\ engine' = Holds("reconcile")
    /\ UNCHANGED <<line, related, outside, arbiter, troubles, calls>>

Repaired(c) == card[c].task = "approved" /\ card[c].adm = "incident" /\ Standing(c)

\* The repair was made on the main the arbiter saw: its place in the line is
\* kept, and anything else is an error of the Try.
Rebind(c) ==
    /\ engine = Free /\ Repaired(c) /\ arb[c].status = "repair_queued"
    /\ arb[c].input.main = main
    /\ card' = [card EXCEPT ![c].adm = "waiting", ![c].code = "none"]
    /\ Status(c, "recovery_reviewed") /\ engine' = Holds("reconcile")
    /\ UNCHANGED <<line, related, outside, child, result, called, troubles, calls>>

\* There is nothing to enrol.
TryOn(c) ==
    /\ engine = Free /\ ~Repaired(c)
    /\ card[c].task = "approved" => card[c].adm # "none"
    /\ engine' = Holds("reconcile")
    /\ UNCHANGED <<cards, outside, arbiter, troubles, calls>>

-----------------------------------------------------------------------------
(* reconcileFutureArbiters, before the drain and after it                  *)

Reconciling == engine.at \in {"reconcile", "recheck"}
GoOn == engine' = IF engine.at = "reconcile" THEN Holds("drain") ELSE Free

Others(c) == IF related THEN {d \in Cards \ {c} : card[d].adm # "none" /\ card[d].task # "failed"}
                        ELSE {}

\* What an arbiter is shown, and what must still be so when it is started and
\* when it answers.
Input(c) ==
    [main |-> main, facts |-> facts[c],
     others |-> [d \in Others(c) |-> <<card[d].task, card[d].adm>>]]
Fits(c) == card[c].task = "incident" /\ card[c].adm = "incident" /\ Standing(c)
           /\ arb[c].input = Input(c)

Undecided(c) ==
    /\ card[c].task = "incident" /\ card[c].adm = "incident" /\ card[c].code = "stuck"
    /\ arb[c].status \in {"none", "hold"}

\* A card without an admission, merged and failed ones apart, keeps the
\* cohort of every other open.
CohortPending == \E d \in Cards : card[d].adm = "none" /\ card[d].task # "failed"

Openable(c) ==
    /\ Undecided(c) /\ Standing(c) /\ ~CohortPending
    /\ arb[c].status = "hold" => arb[c].input.main # main

Attention == {c \in Cards : Undecided(c) /\ (Openable(c) \/ ~Standing(c))}

Open(c) ==
    /\ Reconciling /\ FirstOf(line, Attention, c) /\ Standing(c)
    /\ arb' = [arb EXCEPT ![c] = [gen |-> @.gen + 1, status |-> "requested",
                                  input |-> Input(c), order |-> <<>>]]
    /\ child' = [child EXCEPT ![c] = "none"] /\ result' = result \ {c}
    /\ IF Attention = {c} THEN GoOn ELSE UNCHANGED engine
    /\ UNCHANGED <<cards, outside, called, troubles, calls>>

\* The evidence cannot be derived, of a pull request that drifted or of a
\* conflict that is none any more: the Try ends in an error.
CannotDerive ==
    /\ Reconciling
    /\ \E c \in Cards : FirstOf(line, Attention, c) /\ facts[c] \notin {"stuck", "wait"}
    /\ engine' = Free
    /\ UNCHANGED <<cards, outside, arbiter, troubles, calls>>

Looking == Reconciling /\ Attention = {}

\* The result is submitted by the holder of the mutex, which the submission
\* takes again: neither ever ends.
Wedge(c) ==
    /\ Looking /\ arb[c].status = "running" /\ c \in result
    /\ engine' = Holds("wedged")
    /\ UNCHANGED <<cards, outside, arbiter, troubles, calls>>

FailMissing(c) ==
    /\ Looking /\ arb[c].status = "running" /\ c \notin result /\ child[c] # "alive"
    /\ Status(c, "failed") /\ GoOn
    /\ UNCHANGED <<cards, outside, child, result, called, troubles, calls>>

\* A claim that was left behind is started here, to its end.
Relaunch(c) ==
    /\ Looking /\ arb[c].status = "claimed"
    /\ IF Fits(c)
         THEN /\ Status(c, "running") /\ child' = [child EXCEPT ![c] = "alive"]
              /\ called' = [called EXCEPT ![c] = @ + 1] /\ UNCHANGED engine
         ELSE Status(c, "failed") /\ engine' = Free /\ UNCHANGED <<child, called>>
    /\ UNCHANGED <<cards, outside, result, troubles, calls>>

NothingToDo ==
    /\ Looking /\ GoOn
    /\ \A c \in Cards :
        /\ arb[c].status # "claimed"
        /\ arb[c].status = "running" => child[c] = "alive" /\ c \notin result
    /\ UNCHANGED <<cards, outside, arbiter, troubles, calls>>

-----------------------------------------------------------------------------
(* drain                                                                   *)

Finished(c) == card[c].task \in {"merged", "failed"}
Busy == {"requested", "claimed", "running", "repair_queued", "recovery_reviewed"}

\* futureArbiterAllowsAdmission
Allows(c) ==
    \A d \in Cards :
        /\ arb[d].status \in Busy => d = c
        /\ arb[d].status = "hold" =>
            LET open == {e \in ToSet(arb[d].order) : ~Finished(e)}
            IN open # {} => FirstOf(arb[d].order, open, c)
        /\ arb[d].status \in {"human_gate", "failed"} =>
            c # d /\ c \notin DOMAIN arb[d].input.others

\* nextPending: incidents of cards that are left to it are stepped over.
Pending == Waiting \cup {c \in Cards : card[c].adm = "incident" /\ card[c].task # "incident"}
Draining(c) ==
    /\ engine.at = "drain" /\ Claimed = {}
    /\ FirstOf(line, Pending, c) /\ c \in Waiting /\ Allows(c)

Stops ==
    /\ engine.at = "drain" /\ Claimed = {}
    /\ \A c \in Cards : Draining(c) => facts[c] = "wait" \/ (facts[c] = "clean" /\ ~CanClaim(c))
    /\ engine' = Holds("recheck")
    /\ UNCHANGED <<cards, outside, arbiter, troubles, calls>>

Refuse(c) ==
    /\ Draining(c) /\ facts[c] \notin {"clean", "wait"}
    /\ Incident(c, IF facts[c] = "stuck" THEN "stuck" ELSE "other")
    /\ engine' = IF facts[c] = "stuck" THEN Holds("recheck") ELSE engine
    /\ UNCHANGED <<line, related, outside, arbiter, troubles, calls>>

Claim(c) ==
    /\ Draining(c) /\ facts[c] = "clean" /\ CanClaim(c)
    /\ card' = [card EXCEPT ![c].adm = "claimed"]
    /\ engine' = [Holds("asking") EXCEPT !.card = c]
    /\ UNCHANGED <<line, related, outside, arbiter, troubles, calls>>

\* The provider merges the exact head or refuses; its answer may be lost.
Ask(c, answer) ==
    /\ engine.at = "asking" /\ engine.card = c
    /\ answer # "merged" => (answer = "refused" /\ facts[c] # "clean") \/ troubles < MaxTrainFaults
    /\ troubles' = IF answer = "merged" \/ facts[c] # "clean" THEN troubles ELSE troubles + 1
    /\ asked' = [asked EXCEPT ![c] = @ + 1]
    /\ IF answer = "refused" THEN UNCHANGED <<facts, main>>
       ELSE facts[c] = "clean" /\ facts' = [facts EXCEPT ![c] = "merged"] /\ main' = main + 1
    /\ unheard' = IF answer = "lost" THEN unheard \cup {c} ELSE unheard
    /\ engine' = [Holds("answered") EXCEPT !.card = c,
                      !.answer = IF answer = "merged" THEN "merged" ELSE "error"]
    /\ UNCHANGED <<cards, moved, arbiter>>

Record(c) ==
    /\ engine.at = "answered" /\ engine.card = c
    /\ IF engine.answer = "merged"
         THEN Complete(c) /\ engine' = Holds("drain")
         ELSE Incident(c, "other") /\ engine' = Free /\ UNCHANGED arb
    /\ UNCHANGED <<line, related, outside, child, result, called, troubles, calls>>

\* Seeded fault: a claim the merge of which is not seen waits again.
WaitAgain(c) == card' = [card EXCEPT ![c].adm = "waiting"]

\* What a claim left behind becomes when its merge is not seen.
Uncertain(c) == Incident(c, "other")

LeftBehind(c) == engine.at \in {"boot", "drain"} /\ c \in Claimed
EndWithIncident == engine' = IF engine.at = "boot" THEN Free ELSE Holds("recheck")

\* reconcileClaimed, at boot and by every drain.
ResolveClaimed(c) ==
    /\ LeftBehind(c)
    /\ IF facts[c] = "merged"
         THEN Complete(c) /\ engine' = Holds(IF engine.at = "boot" THEN "reconcile" ELSE "drain")
         ELSE Uncertain(c) /\ EndWithIncident /\ UNCHANGED arb
    /\ UNCHANGED <<line, related, outside, child, result, called, troubles, calls>>

\* The same of a claim that cannot be identified, as when the provider does not
\* name the repository: an incident, and nobody asks whether it merged.
DriftClaimed(c) ==
    /\ LeftBehind(c) /\ Trouble
    /\ Uncertain(c) /\ EndWithIncident /\ unheard' = unheard \cup {c}
    /\ UNCHANGED <<line, related, outside, arbiter, asked>>

\* A call of the provider or the store fails: the Try ends, with what it has written.
TryFails ==
    /\ engine.at \in {"boot", "reconcile", "drain", "recheck", "answered"} /\ Trouble
    /\ engine' = Free
    /\ UNCHANGED <<cards, outside, arbiter, calls>>

\* The sessions that the startup enrols as well are left to their next Try.
Boot ==
    /\ engine.at = "boot" /\ Claimed = {} /\ engine' = Holds("reconcile")
    /\ UNCHANGED <<cards, outside, arbiter, troubles, calls>>

-----------------------------------------------------------------------------
(* The arbiter's one call                                                  *)

\* The policy drain, without the engine's mutex.
ClaimArbiter(c) ==
    /\ engine.at # "boot" /\ arb[c].status = "requested" /\ Status(c, "claimed")
    /\ child' = [child EXCEPT ![c] = "picked"]
    /\ UNCHANGED <<cards, outside, engine, result, called, troubles, calls>>

\* The fence comes before the process.
StartArbiter(c) ==
    /\ arb[c].status = "claimed" /\ child[c] = "picked"
    /\ IF Fits(c) THEN Status(c, "running") /\ child' = [child EXCEPT ![c] = "due"]
                  ELSE Status(c, "failed") /\ child' = [child EXCEPT ![c] = "none"]
    /\ UNCHANGED <<cards, outside, engine, result, called, troubles, calls>>

\* Whatever became of the generation meanwhile.
LaunchFuture(c) ==
    /\ child[c] = "due" /\ child' = [child EXCEPT ![c] = "alive"]
    /\ called' = [called EXCEPT ![c] = @ + 1]
    /\ UNCHANGED <<cards, outside, engine, arb, result, troubles, calls>>

Fail(c) == IF arb[c].status \in {"claimed", "running"} THEN Status(c, "failed") ELSE UNCHANGED arb

LaunchFails(c) ==
    /\ child[c] = "due" /\ Trouble /\ child' = [child EXCEPT ![c] = "gone"] /\ Fail(c)
    /\ UNCHANGED <<cards, outside, engine, result, called, calls>>

WriteResult(c) ==
    /\ child[c] = "alive" /\ c \notin result /\ result' = result \cup {c}
    /\ UNCHANGED <<cards, outside, engine, arb, child, called, troubles, calls>>

\* The exit is reported, unless the daemon cannot be reached.
Dies(c, reached) ==
    /\ child[c] = "alive" /\ c \notin result /\ Trouble
    /\ child' = [child EXCEPT ![c] = "gone"]
    /\ IF reached THEN engine = Free /\ Fail(c) ELSE UNCHANGED arb
    /\ UNCHANGED <<cards, outside, engine, result, called, calls>>

Orders(c) ==
    {order \in [1..Cardinality(DOMAIN arb[c].input.others) + 1
                    -> DOMAIN arb[c].input.others \cup {c}] : IsInjective(order)}

OpenThen(c) ==
    {c} \cup {d \in DOMAIN arb[c].input.others :
               arb[c].input.others[d][1] \notin {"merged", "failed"}}

Decide(c, verdict, order) ==
    /\ engine = Free /\ child[c] = "alive" /\ c \in result
    /\ child' = [child EXCEPT ![c] = "gone"]
    /\ \/ /\ arb[c].status = "running" /\ Fits(c)
          /\ \/ /\ verdict = "repair_queued" /\ FirstOf(order, OpenThen(c), c) /\ ~card[c].repaired
                /\ card' = [card EXCEPT ![c].task = "repairing", ![c].repaired = TRUE]
             \/ verdict = "hold" /\ ~FirstOf(order, OpenThen(c), c) /\ UNCHANGED card
             \/ verdict = "human_gate" /\ UNCHANGED card
             \/ verdict = "failed" /\ UNCHANGED card
          /\ arb' = [arb EXCEPT ![c].status = verdict, ![c].order = order]
       \/ /\ arb[c].status = "running" /\ ~Fits(c) /\ verdict = "failed"
          /\ Status(c, "failed") /\ UNCHANGED card
       \/ /\ arb[c].status # "running" /\ verdict = "failed"  \* late, and inert
          /\ UNCHANGED <<arb, card>>
    /\ UNCHANGED <<line, related, outside, engine, result, called, troubles, calls>>

\* The daemon is down or does not answer: the result stays in its file.
PostFails(c) ==
    /\ child[c] = "alive" /\ c \in result /\ engine.at \in {"boot", "wedged"}
    /\ child' = [child EXCEPT ![c] = "gone"]
    /\ UNCHANGED <<cards, outside, engine, arb, result, called, troubles, calls>>

TrainCrash ==
    /\ Trouble /\ engine' = Holds("boot")
    /\ child' = [c \in Cards |-> IF child[c] \in {"picked", "due"} THEN "none" ELSE child[c]]
    /\ UNCHANGED <<cards, outside, arb, result, called, calls>>

-----------------------------------------------------------------------------
Verdicts == {"repair_queued", "hold", "human_gate", "failed"}

TrainNext ==
    \/ \E c \in Cards :
        \/ \E task \in {"approved", "failed"} : Reviewed(c, task)
        \/ \E f \in {"clean", "wait", "stuck", "drifted"} : ProviderMoves(c, f)
        \/ Enrol(c) \/ GiveUp(c) \/ Rebind(c) \/ TryOn(c)
        \/ Open(c) \/ Wedge(c) \/ FailMissing(c) \/ Relaunch(c)
        \/ Refuse(c) \/ Claim(c) \/ Record(c) \/ ResolveClaimed(c) \/ DriftClaimed(c)
        \/ \E answer \in {"merged", "refused", "lost"} : Ask(c, answer)
        \/ ClaimArbiter(c) \/ StartArbiter(c) \/ LaunchFuture(c) \/ LaunchFails(c)
        \/ WriteResult(c) \/ PostFails(c) \/ \E reached \in BOOLEAN : Dies(c, reached)
        \/ \E verdict \in Verdicts : \E order \in Orders(c) : Decide(c, verdict, order)
    \/ MainMoves \/ CannotDerive \/ NothingToDo \/ Stops \/ Boot \/ TryFails \/ TrainCrash

TrainSpec == TrainInit /\ [][TrainNext]_trainVars

-----------------------------------------------------------------------------
Tasks == {"working", "approved", "incident", "repairing", "merged", "failed"}
Admissions == {"none", "waiting", "claimed", "incident", "succeeded"}

\* Every card has one admission at most, every place in the line is a card's.
TrainTypeOK ==
    /\ card \in [Cards -> [task : Tasks, adm : Admissions,
                           code : {"none", "stuck", "other"}, repaired : BOOLEAN]]
    /\ IsInjective(line) /\ ToSet(line) = {c \in Cards : card[c].adm # "none"}
    /\ facts \in [Cards -> {"clean", "wait", "stuck", "drifted", "merged"}]
    /\ engine \in [at : {"off", "reconcile", "drain", "recheck", "asking", "answered",
                         "boot", "wedged"},
                   card : Cards \cup {"none"}, answer : {"none", "merged", "error"}]
    /\ \A c \in Cards : arb[c].status \in Busy \cup {"none", "hold", "human_gate",
                                                 "failed", "succeeded"}
    /\ child \in [Cards -> {"none", "picked", "due", "alive", "gone"}] /\ result \subseteq Cards

\* A pull request is asked to be merged once, whatever crashes or is lost
\* between the claim and its record; one that merged is not left in the line,
\* unless the answer was lost and the merge recorded as an incident, or a claim
\* left behind was made an incident because it could not be identified; and
\* a generation of an arbiter is one call of the model.
OnceOnly ==
    \A c \in Cards :
        /\ asked[c] <= 1 /\ called[c] <= arb[c].gen
        /\ facts[c] = "merged" /\ c \notin unheard => card[c].adm \in {"claimed", "succeeded"}
        /\ card[c].adm = "succeeded" => facts[c] = "merged"

\* A card is asked to be merged only when every card before it in the line has
\* merged or is left to the owner.
InTurn ==
    \A i \in DOMAIN line : \A j \in 1..(i - 1) :
        asked[line[i]] > 0 =>
            card[line[j]].adm = "succeeded" \/ arb[line[j]].status = "human_gate"
=============================================================================
