------------------------------ MODULE Reactions ------------------------------
(***************************************************************************)
(* The nudges one open pull request earns its session.  A pass of the SCM  *)
(* observer fetches the pull request and, when it is not what was last     *)
(* acknowledged, stores it with the old hashes, lets lifecycle react, and  *)
(* stores the new hashes only when that succeeded: an error leaves the     *)
(* observation to the next pass.  Each condition is nudged for once: its   *)
(* signature is remembered in memory and, after the message went out, in   *)
(* the pull request's row.                                                 *)
(***************************************************************************)
EXTENDS Integers

CONSTANTS
    ReviewMaxNudge,    \* review nudges a pull request may earn
    MaxVersions,       \* bound: results of CI and sets of review comments
    MaxChanges,        \* bound: changes of the pull request
    MaxReactionFaults  \* bound: failed writes, failed messages and crashes

VARIABLES
    pr,       \* the pull request at the provider, per part: 0 when it asks for nothing
    changes,
    stacked,  \* an open parent is below it, which its own facts do not show
    agent,    \* the session: "workable", "waits" for its user or has exited, "terminated"
    acked,    \* the facts the row's hashes stand for
    pass,     \* the observer: [at, facts, todo, broken]
    memory,   \* reactionState: [loaded, seen, attempts]
    saved,    \* last_nudge_signature: [seen, attempts]
    slips,
    told,     \* nudges that reached the agent, as <<kind, signature>>
    latest,   \* per kind, the last of them
    missed,   \* conditions acknowledged, or about to be, that the agent could not take
    spared,   \* and those over the budget, or left to the parent
    forgot,   \* kinds whose last nudge is in no record that is still read
    repeated  \* a nudge came twice in a row with its record at hand

provider == <<pr, changes, stacked, agent>>
ghosts == <<told, latest, missed, spared, forgot, repeated>>
reactionVars == <<provider, acked, pass, memory, saved, slips, ghosts>>

Kinds == {"ci", "review", "conflict"}

\* In the order the nudges are queued.
First(kinds) == CASE "ci" \in kinds -> "ci" [] "review" \in kinds -> "review"
                  [] OTHER -> "conflict"

\* The title stands for the facts no nudge is about.
Values(part) == IF part \in {"ci", "review"} THEN 0..MaxVersions ELSE {0, 1}
Parts == Kinds \cup {"title"}

Nothing == [part \in Parts |-> 0]
None == [kind \in Kinds |-> 0]
Off == [at |-> "off", facts |-> Nothing, todo |-> {}, broken |-> FALSE]
Forgetful == [loaded |-> FALSE, seen |-> None, attempts |-> None]

ReactionInit ==
    /\ pr = Nothing /\ changes = 0 /\ stacked \in BOOLEAN /\ agent = "workable"
    /\ acked = Nothing /\ pass = Off
    /\ memory = Forgetful /\ saved = [seen |-> None, attempts |-> None] /\ slips = 0
    /\ told = {} /\ latest = None /\ missed = {} /\ spared = {} /\ forgot = {} /\ repeated = FALSE

-----------------------------------------------------------------------------
(* The pull request and the session                                        *)

Change(part, value) ==
    /\ changes < MaxChanges /\ pr[part] # value
    /\ pr' = [pr EXCEPT ![part] = value] /\ changes' = changes + 1
    /\ UNCHANGED <<stacked, agent, acked, pass, memory, saved, slips, ghosts>>

ParentMerges ==
    /\ stacked /\ stacked' = FALSE
    /\ UNCHANGED <<pr, changes, agent, acked, pass, memory, saved, slips, ghosts>>

SettleTurn(next) ==
    /\ agent # next /\ agent' = next
    /\ UNCHANGED <<pr, changes, stacked, acked, pass, memory, saved, slips, ghosts>>

-----------------------------------------------------------------------------
(* The observer's pass and ApplyPRObservation                              *)

\* Seeded fault: the hashes are stored with the observation.
PendingAcknowledged == pr

\* What the hashes stand for while lifecycle has yet to react.
Pending == acked

\* Terminated sessions are not observed, unchanged ones not delivered.
Fetch ==
    /\ pass.at = "off" /\ agent # "terminated" /\ pr # acked
    /\ pass' = [Off EXCEPT !.at = "fetched", !.facts = pr]
    /\ acked' = Pending
    /\ UNCHANGED <<provider, memory, saved, slips, ghosts>>

Standing(facts) == {kind \in Kinds : facts[kind] # 0}
Of(facts, kinds) == {<<kind, facts[kind]>> : kind \in kinds}

\* A conflict is left out when the parents cannot be read, which fails the
\* pass once the other nudges are out, and left to an open parent.
Enter(readable) ==
    LET asked == Standing(pass.facts)
        left == {kind \in asked : kind = "conflict" /\ (stacked \/ ~readable)}
    IN
    /\ pass.at = "fetched"
    /\ readable \/ (slips < MaxReactionFaults /\ "conflict" \in asked /\ agent = "workable")
    /\ IF agent = "workable"
         THEN /\ pass' = [pass EXCEPT !.at = "nudging", !.broken = ~readable,
                              !.todo = asked \ left]
              /\ spared' = spared \cup (IF readable THEN Of(pass.facts, left) ELSE {})
              /\ missed' = missed
         ELSE /\ pass' = [pass EXCEPT !.at = "nudging"]
              /\ missed' = missed \cup Of(pass.facts, asked)
              /\ spared' = spared
    /\ slips' = IF readable THEN slips ELSE slips + 1
    /\ UNCHANGED <<provider, acked, memory, saved, told, latest, forgot, repeated>>

Acknowledge ==
    /\ pass.at = "nudging" /\ pass.todo = {}
    /\ acked' = IF pass.broken THEN acked ELSE pass.facts
    /\ pass' = Off
    /\ UNCHANGED <<provider, memory, saved, slips, ghosts>>

\* A read or a write fails, or the pass is cancelled.
Abandon ==
    /\ pass.at \in {"fetched", "nudging"} /\ slips < MaxReactionFaults
    /\ pass' = Off /\ slips' = slips + 1
    /\ UNCHANGED <<provider, acked, memory, saved, ghosts>>

-----------------------------------------------------------------------------
(* sendOnce                                                                *)

\* Seeded fault: what was persisted is not read back.
UnloadedPRSignatures == [memory EXCEPT !.loaded = TRUE]

\* The row is read before the first nudge of this process, while the memory
\* still holds nothing of this pull request.
LoadPRSignatures ==
    IF memory.loaded THEN memory
    ELSE [loaded |-> TRUE, seen |-> saved.seen, attempts |-> saved.attempts]

Kind == First(pass.todo)
Signature == pass.facts[Kind]
Known == LoadPRSignatures.seen[Kind] = Signature
Spent == Kind = "review" /\ LoadPRSignatures.attempts[Kind] >= ReviewMaxNudge

Turn == pass.at = "nudging" /\ pass.todo # {}

\* The signature is known, the budget spent, or the guard refuses the paste.
PassOver ==
    /\ Turn /\ (Known \/ Spent \/ agent # "workable")
    /\ memory' = LoadPRSignatures
    /\ pass' = [pass EXCEPT !.todo = pass.todo \ {Kind}]
    /\ spared' = IF ~Known /\ Spent THEN spared \cup {<<Kind, Signature>>} ELSE spared
    /\ missed' = IF Known \/ Spent THEN missed ELSE missed \cup {<<Kind, Signature>>}
    /\ UNCHANGED <<provider, acked, saved, slips, told, latest, forgot, repeated>>

Delivered ==
    /\ told' = told \cup {<<Kind, Signature>>}
    /\ latest' = [latest EXCEPT ![Kind] = Signature]
    /\ repeated' = (repeated \/ (latest[Kind] = Signature /\ Kind \notin forgot))

Nudge ==
    /\ Turn /\ ~Known /\ ~Spent /\ agent = "workable"
    /\ Delivered
    /\ memory' = [LoadPRSignatures EXCEPT !.seen[Kind] = Signature,
                      !.attempts[Kind] = LoadPRSignatures.attempts[Kind] + 1]
    /\ pass' = [pass EXCEPT !.at = "persist"]
    /\ forgot' = forgot \ {Kind}
    /\ UNCHANGED <<provider, acked, saved, slips, missed, spared>>

\* The paste fails, before or after it reached the agent: nothing is recorded.
NudgeFails(reached) ==
    /\ Turn /\ ~Known /\ ~Spent /\ agent = "workable" /\ slips < MaxReactionFaults
    /\ memory' = LoadPRSignatures
    /\ IF reached THEN Delivered /\ forgot' = forgot \cup {Kind}
                  ELSE UNCHANGED <<told, latest, repeated, forgot>>
    /\ pass' = Off /\ slips' = slips + 1
    /\ UNCHANGED <<provider, acked, saved, missed, spared>>

\* Every entry of the pull request is written.
Persist ==
    /\ pass.at = "persist"
    /\ saved' = [seen |-> memory.seen, attempts |-> memory.attempts]
    /\ pass' = [pass EXCEPT !.at = "nudging", !.todo = pass.todo \ {Kind}]
    /\ UNCHANGED <<provider, acked, memory, slips, ghosts>>

\* The memory keeps what the row does not have.
PersistFails ==
    /\ pass.at = "persist" /\ slips < MaxReactionFaults
    /\ pass' = Off /\ slips' = slips + 1
    /\ UNCHANGED <<provider, acked, memory, saved, ghosts>>

ReactionCrash ==
    /\ slips < MaxReactionFaults /\ slips' = slips + 1
    /\ pass' = Off /\ memory' = Forgetful
    /\ forgot' = forgot \cup {kind \in Kinds :
                                 memory.loaded /\ memory.seen[kind] # saved.seen[kind]}
    /\ UNCHANGED <<provider, acked, saved, told, latest, missed, spared, repeated>>

-----------------------------------------------------------------------------
Pass == Fetch \/ Enter(TRUE) \/ Acknowledge \/ PassOver \/ Nudge \/ Persist

ReactionNext ==
    \/ \E part \in Parts : \E value \in Values(part) : Change(part, value)
    \/ ParentMerges \/ \E next \in {"workable", "waits", "terminated"} : SettleTurn(next)
    \/ Pass \/ Enter(FALSE) \/ Abandon
    \/ \E reached \in BOOLEAN : NudgeFails(reached)
    \/ PersistFails \/ ReactionCrash

\* The observer polls for the daemon's life, and a pass runs to its end.
ReactionFairness == WF_reactionVars(Pass)

ReactionSpec == ReactionInit /\ [][ReactionNext]_reactionVars /\ ReactionFairness

-----------------------------------------------------------------------------
Numbers == 0..MaxVersions + 1

ReactionTypeOK ==
    /\ pr \in [Parts -> Numbers] /\ acked \in [Parts -> Numbers]
    /\ changes \in 0..MaxChanges /\ slips \in 0..MaxReactionFaults
    /\ stacked \in BOOLEAN /\ agent \in {"workable", "waits", "terminated"}
    /\ pass \in [at : {"off", "fetched", "nudging", "persist"}, facts : [Parts -> Numbers],
                 todo : SUBSET Kinds, broken : BOOLEAN]
    /\ memory \in [loaded : BOOLEAN, seen : [Kinds -> Numbers], attempts : [Kinds -> Nat]]
    /\ saved \in [seen : [Kinds -> Numbers], attempts : [Kinds -> Nat]]
    /\ told \cup missed \cup spared \subseteq Kinds \X (Numbers \ {0})
    /\ latest \in [Kinds -> Numbers] /\ forgot \subseteq Kinds /\ repeated \in BOOLEAN

\* An agent is not nudged twice in a row for the same thing, across restarts
\* and whatever order the message, the memory and the row were written in,
\* unless the message failed or the daemon died with the only record of it.
ToldOnce == ~repeated

\* What the hashes stand for has been dealt with: a condition that is
\* acknowledged reached the agent, or was passed over for the budget, the
\* parent or an agent that could not take it; no failure and no crash
\* acknowledges one that was not.
AcknowledgedWasHandled == Of(acked, Standing(acked)) \subseteq told \cup spared \cup missed

\* "The caller must not mark it delivered so it re-fires on the next
\* observation once the session is workable again": a condition that stands
\* while the agent can take it reaches the agent.
SuppressedRefires ==
    \A kind \in Kinds : \A value \in Values(kind) \ {0} :
        pr[kind] = value /\ agent = "workable" ~>
            \/ pr[kind] # value \/ agent # "workable"
            \/ <<kind, value>> \in told \cup spared
=============================================================================
