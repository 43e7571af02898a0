----------------------------- MODULE TrainProofs -----------------------------
(***************************************************************************)
(* What the terminal merge promises, for any number of cards, changes of   *)
(* the pull requests and of main, crashes and lost answers: a pull request *)
(* is asked to be merged once and in its turn, and a generation of an      *)
(* arbiter is one call.  The invariant is kept by the steps of the train   *)
(* and left alone by the other parts.                                      *)
(***************************************************************************)
EXTENDS MCServices, SequenceTheorems, TLAPS

Statuses == Train!Busy \cup {"none", "hold", "human_gate", "failed", "succeeded"}
CardRecord == [task : Train!Tasks, adm : Train!Admissions, code : {"none", "stuck", "other"},
               repaired : BOOLEAN]
EngineRecord == [at : {"off", "reconcile", "drain", "recheck", "asking", "answered", "boot", "wedged"},
                 card : Cards \cup {"none"}, answer : {"none", "merged", "error"}]

\* An arbiter was shown something and may have ordered something.
ArbRecord == [gen : Nat, status : Statuses, input : {arb[c].input : c \in Cards},
              order : {arb[c].order : c \in Cards}]

\* Every value of the train has its type.
TrainTypes ==
    /\ card \in [Cards -> CardRecord] /\ facts \in [Cards -> {"clean", "wait", "stuck", "drifted", "merged"}]
    /\ engine \in EngineRecord
    /\ arb \in [Cards -> ArbRecord]
    /\ child \in [Cards -> {"none", "picked", "due", "alive", "gone"}]
    /\ result \subseteq Cards /\ unheard \subseteq Cards
    /\ asked \in [Cards -> Nat] /\ called \in [Cards -> Nat]

\* The line holds the cards with an admission, each once.
Lined ==
    /\ line \in Seq(Cards)
    /\ \A i, j \in 1..Len(line) : line[i] = line[j] => i = j
    /\ \A c \in Cards : card[c].adm # "none" <=> \E i \in 1..Len(line) : line[i] = c

\* Nothing that merged, or was left to the owner, comes back.
Settled(c) == card[c].adm = "succeeded" \/ arb[c].status = "human_gate"

\* Before a card that is claimed, or was asked for, every card is settled.
Ahead ==
    \A i \in 1..Len(line) : \A j \in 1..(i - 1) :
        card[line[i]].adm = "claimed" \/ asked[line[i]] > 0 => Settled(line[j])

\* A card that was asked for never waits again: its incident is one that no
\* arbiter is opened for, and its arbiter of before has nothing left to do.
AskOnce ==
    \A c \in Cards :
        /\ asked[c] <= 1
        /\ card[c].adm \in {"none", "waiting"} => asked[c] = 0
        /\ card[c].adm = "incident" /\ asked[c] > 0 => card[c].code = "other"
        /\ card[c].adm \in {"none", "waiting", "claimed"} \/ card[c].code = "other" =>
             arb[c].status \in {"none", "recovery_reviewed", "succeeded"}
        /\ card[c].adm = "none" => arb[c].status = "none"

\* What is merged was asked for, and the engine knows whether it was.
MergedWasAsked ==
    /\ \A c \in Cards :
        /\ facts[c] = "merged" => asked[c] > 0
        /\ facts[c] = "merged" /\ c \notin unheard => card[c].adm \in {"claimed", "succeeded"}
        /\ card[c].adm = "succeeded" => facts[c] = "merged"
    /\ engine.at \in {"asking", "answered"} => engine.card \in Cards /\ card[engine.card].adm = "claimed"
    /\ engine.at = "asking" => asked[engine.card] = 0
    /\ engine.at = "answered" =>
         /\ engine.answer = "merged" => facts[engine.card] = "merged"
         /\ engine.answer # "merged" => facts[engine.card] # "merged" \/ engine.card \in unheard

\* A generation that was not started has its call still to come, from the
\* drain that picked it or from a Try that finds its claim.
CallOf(c) ==
    /\ called[c] <= arb[c].gen
    /\ arb[c].status \in {"requested", "claimed"} => called[c] < arb[c].gen
    /\ arb[c].status = "requested" => child[c] \notin {"picked", "due"}
    /\ child[c] = "picked" => arb[c].status \in {"claimed", "failed"}
    /\ child[c] = "due" => called[c] < arb[c].gen /\ arb[c].status \in {"running", "failed"}

CallOnce == \A c \in Cards : CallOf(c)

\* The invariant of the train.
TrainInv == TrainTypes /\ Lined /\ Ahead /\ AskOnce /\ MergedWasAsked /\ CallOnce

-----------------------------------------------------------------------------
\* The engine is not between a claim and its record.
MovesOn == engine' \in EngineRecord /\ engine'.at \notin {"asking", "answered"}

\* What the mutex is held for.
LEMMA EngineIs ==
    /\ Train!Free \in EngineRecord /\ Train!Free.at = "off"
    /\ \A at \in {"reconcile", "drain", "recheck", "asking", "answered", "boot", "wedged"} :
         Train!Holds(at) \in EngineRecord /\ Train!Holds(at).at = at
BY DEF Train!Free, Train!Holds, EngineRecord

\* What an arbiter's record is made of.
LEMMA OldArb ==
    ASSUME TrainTypes, NEW d \in Cards
    PROVE  /\ arb[d] = [gen |-> arb[d].gen, status |-> arb[d].status,
                        input |-> arb[d].input, order |-> arb[d].order]
           /\ arb[d].gen \in Nat /\ arb[d].status \in Statuses
<1> DEFINE I == {arb[e].input : e \in Cards}
           O == {arb[e].order : e \in Cards}
<1>1. arb[d] \in [gen : Nat, status : Statuses, input : I, order : O]
  BY DEF TrainTypes, ArbRecord
<1> HIDE DEF I, O
<1> QED
  BY <1>1

\* An arbiter's record is replaced by another one.
LEMMA ArbStep ==
    ASSUME TrainTypes, NEW c \in Cards, NEW g \in Nat, NEW s \in Statuses, NEW i, NEW o,
           arb' = [arb EXCEPT ![c] = [gen |-> g, status |-> s, input |-> i, order |-> o]]
    PROVE  /\ arb' \in [Cards -> ArbRecord']
           /\ arb'[c].status = s /\ arb'[c].gen = g
           /\ \A d \in Cards \ {c} : arb'[d] = arb[d]
<1>1. /\ arb'[c] = [gen |-> g, status |-> s, input |-> i, order |-> o]
      /\ \A d \in Cards \ {c} : arb'[d] = arb[d]
  BY DEF TrainTypes
<1>2. ASSUME NEW d \in Cards PROVE arb'[d] \in ArbRecord'
  <2> DEFINE I == {arb'[e].input : e \in Cards}
             O == {arb'[e].order : e \in Cards}
  <2>1. arb'[d].input \in I /\ arb'[d].order \in O
    OBVIOUS
  <2>2. ArbRecord' = [gen : Nat, status : Statuses, input : I, order : O]
    BY DEF ArbRecord
  <2> HIDE DEF I, O
  <2>3. CASE d = c
    <3>1. arb'[d] = [gen |-> g, status |-> s, input |-> arb'[d].input, order |-> arb'[d].order]
      BY <1>1, <2>3
    <3>2. arb'[d] \in [gen : Nat, status : Statuses, input : I, order : O]
      BY <2>1, <3>1
    <3> QED
      BY <2>2, <3>2
  <2>4. CASE d # c
    <3>1. arb'[d] = [gen |-> arb[d].gen, status |-> arb[d].status,
                     input |-> arb'[d].input, order |-> arb'[d].order]
          /\ arb[d].gen \in Nat /\ arb[d].status \in Statuses
      BY <1>1, <2>4, OldArb
    <3>2. arb'[d] \in [gen : Nat, status : Statuses, input : I, order : O]
      BY <2>1, <3>1
    <3> QED
      BY <2>2, <3>2
  <2> QED
    BY <2>3, <2>4
<1>3. arb' \in [Cards -> ArbRecord']
  <2>1. arb' = [d \in Cards |-> arb'[d]]
    BY DEF TrainTypes
  <2> HIDE DEF ArbRecord
  <2> QED
    BY <1>2, <2>1
<1> QED
  BY <1>1, <1>3

\* A new status leaves the rest of an arbiter's record as it is.
LEMMA StatusStep ==
    ASSUME TrainTypes, NEW c \in Cards, NEW status \in Statuses, Train!Status(c, status)
    PROVE  /\ arb' \in [Cards -> ArbRecord']
           /\ arb'[c].status = status /\ arb'[c].gen = arb[c].gen
           /\ \A d \in Cards \ {c} : arb'[d] = arb[d]
<1>1. /\ arb[c] = [gen |-> arb[c].gen, status |-> arb[c].status,
                   input |-> arb[c].input, order |-> arb[c].order]
      /\ arb[c].gen \in Nat
  BY OldArb
<1>2. [arb[c] EXCEPT !.status = status] =
        [gen |-> arb[c].gen, status |-> status, input |-> arb[c].input, order |-> arb[c].order]
  BY <1>1
<1>3. arb' = [arb EXCEPT ![c] = [gen |-> arb[c].gen, status |-> status,
                                 input |-> arb[c].input, order |-> arb[c].order]]
  BY <1>2 DEF Train!Status
<1> QED
  BY <1>1, <1>3, ArbStep

\* Steps of the engine that change no card, and of the world beside it.
LEMMA EngineStep ==
    ASSUME TrainInv, UNCHANGED <<card, line, facts, arb, child, called, asked, unheard>>,
           engine' = engine \/ MovesOn, result' \subseteq Cards
    PROVE  TrainInv'
<1> USE DEF TrainInv, MovesOn
<1>1. TrainTypes'
  <2>1. ArbRecord' = ArbRecord
    BY DEF ArbRecord
  <2> QED
    BY <2>1 DEF TrainTypes
<1>2. Lined' /\ Ahead' /\ AskOnce' /\ CallOnce'
  BY DEF Lined, Ahead, Settled, AskOnce, CallOnce, CallOf
<1>3. MergedWasAsked'
  BY DEF MergedWasAsked
<1> QED
  BY <1>1, <1>2, <1>3

\* Steps of one arbiter: a card keeps its admission, and only an arbiter that
\* is under way, or may be opened, has a new status.
LEMMA ArbiterStep ==
    ASSUME TrainInv, NEW c \in Cards,
           UNCHANGED <<line, facts, asked, unheard>>, engine' = engine \/ MovesOn,
           card' \in [Cards -> CardRecord],
           \A d \in Cards : card'[d].adm = card[d].adm /\ card'[d].code = card[d].code,
           arb' \in [Cards -> ArbRecord'],
           child' \in [Cards -> {"none", "picked", "due", "alive", "gone"}],
           called' \in [Cards -> Nat], result' \subseteq Cards,
           \A d \in Cards \ {c} : arb'[d] = arb[d] /\ child'[d] = child[d] /\ called'[d] = called[d],
           \/ arb'[c].status = arb[c].status
           \/ arb[c].status \in {"requested", "claimed", "running"}
           \/ arb[c].status \in {"none", "hold"} /\ card[c].adm = "incident" /\ card[c].code = "stuck",
           CallOf(c)'
    PROVE  TrainInv'
<1> USE DEF TrainInv, MovesOn
<1>1. TrainTypes'
  BY DEF TrainTypes
<1>2. Lined'
  <2>1. line' = line
    OBVIOUS
  <2>2. ASSUME NEW d \in Cards
        PROVE  card'[d].adm # "none" <=> \E i \in 1..Len(line) : line[i] = d
    <3>1. card'[d].adm = card[d].adm
      OBVIOUS
    <3>2. card[d].adm # "none" <=> \E i \in 1..Len(line) : line[i] = d
      BY Zenon DEF Lined
    <3> QED
      BY <3>1, <3>2, Zenon
  <2> QED
    BY <2>1, <2>2 DEF Lined
<1>3. Ahead'
  <2>1. line' = line /\ asked' = asked
    OBVIOUS
  <2>2. \A d \in Cards : Settled(d) => Settled(d)'
    BY DEF Settled
  <2>3. \A i \in 1..Len(line) : line[i] \in Cards
    BY DEF Lined
  <2>4. \A i \in 1..Len(line) : \A j \in 1..(i - 1) : j \in 1..Len(line)
    BY DEF Lined
  <2> QED
    BY <2>1, <2>2, <2>3, <2>4 DEF Ahead
<1>4. AskOnce'
  BY DEF AskOnce
<1>5. MergedWasAsked'
  BY DEF MergedWasAsked
<1>6. CallOnce'
  BY DEF CallOnce, CallOf
<1> QED
  BY <1>1, <1>2, <1>3, <1>4, <1>5, <1>6

\* Steps of one card: it keeps its place, and what is claimed or asked for
\* has settled cards before it.
LEMMA CardStep ==
    ASSUME TrainInv, NEW c \in Cards, line' = line,
           \A d \in Cards \ {c} : card'[d] = card[d] /\ arb'[d] = arb[d] /\ asked'[d] = asked[d],
           card'[c].adm # "none" <=> card[c].adm # "none",
           Settled(c) => Settled(c)',
           card'[c].adm = "claimed" \/ asked'[c] > 0 =>
             \/ card[c].adm = "claimed" \/ asked[c] > 0
             \/ \A i \in 1..Len(line) : line[i] = c => \A j \in 1..(i - 1) : Settled(line[j])
    PROVE  Lined' /\ Ahead'
<1> USE DEF TrainInv
<1>1. line \in Seq(Cards) /\ \A i \in 1..Len(line) : line[i] \in Cards
  BY DEF Lined
<1>2. ASSUME NEW d \in Cards
      PROVE  card'[d].adm # "none" <=> \E i \in 1..Len(line) : line[i] = d
  <2>1. card'[d].adm # "none" <=> card[d].adm # "none"
    OBVIOUS
  <2>2. card[d].adm # "none" <=> \E i \in 1..Len(line) : line[i] = d
    BY Zenon DEF Lined
  <2> QED
    BY <2>1, <2>2, Zenon
<1>3. Lined'
  BY <1>2 DEF Lined
<1>4. \A d \in Cards : Settled(d) => Settled(d)'
  BY DEF Settled
<1>5. ASSUME NEW i \in 1..Len(line), NEW j \in 1..(i - 1),
             card'[line[i]].adm = "claimed" \/ asked'[line[i]] > 0
      PROVE  Settled(line[j])'
  <2>1. j \in 1..Len(line)
    BY <1>1
  <2>2. Settled(line[j])
    BY <1>1, <1>5 DEF Ahead
  <2>3. line[j] \in Cards
    BY <1>1, <2>1
  <2> QED
    BY <1>4, <2>2, <2>3
<1>6. Ahead'
  BY <1>5 DEF Ahead
<1> QED
  BY <1>3, <1>6

-----------------------------------------------------------------------------
\* The steps that change no card.
LEMMA IdleSteps ==
    ASSUME TrainInv
    PROVE  /\ \A c \in Cards : Train!TryOn(c) \/ Train!Wedge(c) \/ Train!WriteResult(c) => TrainInv'
           /\ Train!MainMoves \/ Train!CannotDerive \/ Train!NothingToDo \/ Train!Stops
                \/ Train!Boot \/ Train!TryFails => TrainInv'
<1> USE EngineIs DEF Train!cards, Train!outside, Train!arbiter, Train!calls
<1>1. TrainTypes
  BY DEF TrainInv
<1>2. result \subseteq Cards
  BY <1>1 DEF TrainTypes
<1>3. ASSUME NEW c \in Cards, Train!TryOn(c) \/ Train!Wedge(c) PROVE TrainInv'
  <2>1. UNCHANGED <<card, line, facts, arb, child, called, asked, unheard, result>>
    BY <1>3 DEF Train!TryOn, Train!Wedge
  <2>2. MovesOn
    BY <1>3 DEF Train!TryOn, Train!Wedge, MovesOn
  <2> QED
    BY <1>2, <2>1, <2>2, EngineStep
<1>4. CASE Train!CannotDerive \/ Train!Stops \/ Train!Boot \/ Train!NothingToDo \/ Train!TryFails
  <2>1. UNCHANGED <<card, line, facts, arb, child, called, asked, unheard, result>>
    BY <1>4 DEF Train!CannotDerive, Train!Stops, Train!Boot, Train!NothingToDo, Train!TryFails
  <2>2. MovesOn
    BY <1>4 DEF Train!CannotDerive, Train!Stops, Train!Boot, Train!NothingToDo, Train!TryFails, Train!GoOn, MovesOn
  <2> QED
    BY <1>2, <2>1, <2>2, EngineStep
<1>5. ASSUME NEW c \in Cards, Train!WriteResult(c) PROVE TrainInv'
  <2>1. UNCHANGED <<card, line, facts, arb, child, called, asked, unheard, engine>>
    BY <1>5 DEF Train!WriteResult
  <2>2. result' \subseteq Cards
    BY <1>2, <1>5 DEF Train!WriteResult
  <2> QED
    BY <2>1, <2>2, EngineStep
<1>6. CASE Train!MainMoves
  <2>1. UNCHANGED <<card, line, facts, arb, child, called, asked, unheard, engine, result>>
    BY <1>6 DEF Train!MainMoves
  <2> QED
    BY <1>2, <2>1, EngineStep
<1> QED
  BY <1>3, <1>4, <1>5, <1>6

\* The policy queue and the provider change what the cards are outside the train.
LEMMA OutsideSteps ==
    ASSUME TrainInv, NEW c \in Cards
    PROVE  /\ \A task \in {"approved", "failed"} : Train!Reviewed(c, task) => TrainInv'
           /\ \A f \in {"clean", "wait", "stuck", "drifted"} : Train!ProviderMoves(c, f) => TrainInv'
<1> USE DEF Train!cards, Train!outside, Train!arbiter, Train!calls
<1>1. TrainTypes /\ CallOf(c)
  BY DEF TrainInv, CallOnce
<1>2. ASSUME NEW task \in {"approved", "failed"}, Train!Reviewed(c, task) PROVE TrainInv'
  <2>1. UNCHANGED <<line, facts, arb, child, called, asked, unheard, engine, result>>
    BY <1>2 DEF Train!Reviewed
  <2>2. /\ card' \in [Cards -> CardRecord]
        /\ \A d \in Cards : card'[d].adm = card[d].adm /\ card'[d].code = card[d].code
    BY <1>1, <1>2 DEF Train!Reviewed, TrainTypes, CardRecord, Train!Tasks
  <2>3. arb' \in [Cards -> ArbRecord']
    <3>1. ArbRecord' = ArbRecord
      BY <2>1 DEF ArbRecord
    <3> QED
      BY <1>1, <2>1, <3>1 DEF TrainTypes
  <2>4. /\ child' \in [Cards -> {"none", "picked", "due", "alive", "gone"}]
        /\ called' \in [Cards -> Nat] /\ result' \subseteq Cards
    BY <1>1, <2>1 DEF TrainTypes
  <2>5. CallOf(c)'
    BY <1>1, <2>1 DEF CallOf
  <2> QED
    BY <2>1, <2>2, <2>3, <2>4, <2>5, ArbiterStep
<1>3. ASSUME NEW f \in {"clean", "wait", "stuck", "drifted"}, Train!ProviderMoves(c, f) PROVE TrainInv'
  <2>1. UNCHANGED <<card, line, arb, child, called, asked, unheard, engine, result>>
    BY <1>3 DEF Train!ProviderMoves
  <2>2. facts[c] # "merged" /\ facts' = [facts EXCEPT ![c] = f]
    BY <1>3 DEF Train!ProviderMoves
  <2>3. ArbRecord' = ArbRecord
    BY <2>1 DEF ArbRecord
  <2>4. TrainTypes'
    BY <1>1, <2>1, <2>2, <2>3 DEF TrainTypes
  <2>5. Lined' /\ Ahead' /\ AskOnce' /\ CallOnce'
    BY <2>1 DEF TrainInv, Lined, Ahead, Settled, AskOnce, CallOnce, CallOf
  <2>6. \A d \in Cards : facts'[d] = "merged" <=> facts[d] = "merged"
    BY <1>1, <2>2 DEF TrainTypes
  <2>7. MergedWasAsked'
    BY <2>1, <2>6 DEF TrainInv, MergedWasAsked
  <2> QED
    BY <2>4, <2>5, <2>7 DEF TrainInv
<1> QED
  BY <1>2, <1>3

\* The steps of an arbiter: its claim, its one start, its end.
LEMMA ArbiterSteps ==
    ASSUME TrainInv, NEW c \in Cards
    PROVE  /\ Train!FailMissing(c) \/ Train!Relaunch(c) \/ Train!ClaimArbiter(c)
                \/ Train!StartArbiter(c) \/ Train!LaunchFuture(c) \/ Train!LaunchFails(c)
                \/ Train!PostFails(c) => TrainInv'
           /\ \A reached \in BOOLEAN : Train!Dies(c, reached) => TrainInv'
<1> USE EngineIs DEF Train!cards, Train!outside, Train!arbiter, Train!calls
<1>1. TrainTypes /\ CallOf(c)
  BY DEF TrainInv, CallOnce
<1>2. ArbRecord' = ArbRecord \/ arb' # arb
  BY DEF ArbRecord
<1> DEFINE Kept == UNCHANGED <<card, line, facts, asked, unheard, result>>
           OneChild == /\ child' \in [Cards -> {"none", "picked", "due", "alive", "gone"}]
                       /\ called' \in [Cards -> Nat]
                       /\ \A d \in Cards \ {c} : child'[d] = child[d] /\ called'[d] = called[d]
<1>3. ASSUME Kept, OneChild, engine' = engine \/ MovesOn, arb' = arb, CallOf(c)'
      PROVE  TrainInv'
  <2>1. arb' \in [Cards -> ArbRecord']
    BY <1>1, <1>2, <1>3 DEF TrainTypes
  <2>2. card' \in [Cards -> CardRecord] /\ result' \subseteq Cards
    BY <1>1, <1>3 DEF TrainTypes
  <2> QED
    BY <1>3, <2>1, <2>2, ArbiterStep
<1>4. ASSUME Kept, OneChild, engine' = engine \/ MovesOn, NEW s \in Statuses, Train!Status(c, s),
             arb[c].status \in {"requested", "claimed", "running"},
             arb'[c].status = s /\ arb'[c].gen = arb[c].gen => CallOf(c)'
      PROVE  TrainInv'
  <2>1. /\ arb' \in [Cards -> ArbRecord'] /\ arb'[c].status = s /\ arb'[c].gen = arb[c].gen
        /\ \A d \in Cards \ {c} : arb'[d] = arb[d]
    BY <1>1, <1>4, StatusStep
  <2>2. card' \in [Cards -> CardRecord] /\ result' \subseteq Cards
    BY <1>1, <1>4 DEF TrainTypes
  <2> QED
    BY <1>4, <2>1, <2>2, ArbiterStep
<1>5. /\ arb[c].gen \in Nat /\ called[c] \in Nat
      /\ child \in [Cards -> {"none", "picked", "due", "alive", "gone"}] /\ called \in [Cards -> Nat]
      /\ {"failed", "running", "claimed"} \subseteq Statuses
  BY <1>1, OldArb DEF TrainTypes, Statuses, Train!Busy
<1>6. CASE Train!FailMissing(c)
  <2>1. Kept /\ OneChild /\ arb[c].status = "running" /\ Train!Status(c, "failed")
        /\ child'[c] = child[c] /\ called'[c] = called[c]
    BY <1>5, <1>6 DEF Train!FailMissing
  <2>2. MovesOn
    BY <1>6 DEF Train!FailMissing, Train!GoOn, MovesOn
  <2>3. arb'[c].status = "failed" /\ arb'[c].gen = arb[c].gen => CallOf(c)'
    BY <1>1, <2>1 DEF CallOf
  <2> HIDE DEF Kept, OneChild
  <2> QED
    BY <1>4, <1>5, <2>1, <2>2, <2>3
<1>7. CASE Train!Relaunch(c) /\ Train!Fits(c)
  <2>1. /\ Kept /\ OneChild /\ arb[c].status = "claimed" /\ Train!Status(c, "running")
        /\ child'[c] = "alive" /\ called'[c] = called[c] + 1 /\ engine' = engine
    <3>1. /\ Kept /\ arb[c].status = "claimed" /\ Train!Status(c, "running") /\ engine' = engine
          /\ child' = [child EXCEPT ![c] = "alive"] /\ called' = [called EXCEPT ![c] = @ + 1]
      BY <1>7 DEF Train!Relaunch
    <3> QED
      BY <1>5, <3>1
  <2>2. arb'[c].status = "running" /\ arb'[c].gen = arb[c].gen => CallOf(c)'
    BY <1>1, <1>5, <2>1 DEF CallOf
  <2> HIDE DEF Kept, OneChild
  <2> QED
    BY <1>4, <1>5, <2>1, <2>2
<1>8. CASE Train!Relaunch(c) /\ ~Train!Fits(c)
  <2>1. /\ Kept /\ OneChild /\ arb[c].status = "claimed" /\ Train!Status(c, "failed")
        /\ child'[c] = child[c] /\ called'[c] = called[c]
    BY <1>5, <1>8 DEF Train!Relaunch
  <2>2. MovesOn
    BY <1>8 DEF Train!Relaunch, MovesOn
  <2>3. arb'[c].status = "failed" /\ arb'[c].gen = arb[c].gen => CallOf(c)'
    BY <1>1, <2>1 DEF CallOf
  <2> HIDE DEF Kept, OneChild
  <2> QED
    BY <1>4, <1>5, <2>1, <2>2, <2>3
<1>9. CASE Train!ClaimArbiter(c)
  <2>1. /\ Kept /\ OneChild /\ arb[c].status = "requested" /\ Train!Status(c, "claimed")
        /\ child'[c] = "picked" /\ called'[c] = called[c] /\ engine' = engine
    BY <1>5, <1>9 DEF Train!ClaimArbiter
  <2>2. arb'[c].status = "claimed" /\ arb'[c].gen = arb[c].gen => CallOf(c)'
    BY <1>1, <2>1 DEF CallOf
  <2> HIDE DEF Kept, OneChild
  <2> QED
    BY <1>4, <1>5, <2>1, <2>2
<1>10. CASE Train!StartArbiter(c)
  <2>1. /\ Kept /\ OneChild /\ arb[c].status = "claimed" /\ called'[c] = called[c] /\ engine' = engine
        /\ \/ Train!Status(c, "running") /\ child'[c] = "due"
           \/ Train!Status(c, "failed") /\ child'[c] = "none"
    BY <1>5, <1>10 DEF Train!StartArbiter
  <2>2. arb'[c].status = "running" /\ arb'[c].gen = arb[c].gen /\ child'[c] = "due" => CallOf(c)'
    BY <1>1, <2>1 DEF CallOf
  <2>3. arb'[c].status = "failed" /\ arb'[c].gen = arb[c].gen /\ child'[c] = "none" => CallOf(c)'
    BY <1>1, <2>1 DEF CallOf
  <2> HIDE DEF Kept, OneChild
  <2> QED
    BY <1>4, <1>5, <2>1, <2>2, <2>3
<1>11. CASE Train!LaunchFuture(c)
  <2>1. /\ Kept /\ OneChild /\ arb' = arb /\ child[c] = "due" /\ child'[c] = "alive"
        /\ called'[c] = called[c] + 1 /\ engine' = engine
    <3>1. /\ Kept /\ arb' = arb /\ child[c] = "due" /\ engine' = engine
          /\ child' = [child EXCEPT ![c] = "alive"] /\ called' = [called EXCEPT ![c] = @ + 1]
      BY <1>11 DEF Train!LaunchFuture
    <3> QED
      BY <1>5, <3>1
  <2>2. CallOf(c)'
    BY <1>1, <1>5, <2>1 DEF CallOf
  <2> HIDE DEF Kept, OneChild
  <2> QED
    BY <1>3, <2>1, <2>2
<1>12. ASSUME Kept, OneChild, Train!Fail(c), child'[c] = "gone", called'[c] = called[c],
              engine' = engine
       PROVE  TrainInv'
  <2>1. CASE arb' = arb
    <3>1. CallOf(c)'
      BY <1>1, <1>12, <2>1 DEF CallOf
    <3> HIDE DEF Kept, OneChild
    <3> QED
      BY <1>3, <1>12, <2>1, <3>1
  <2>2. CASE Train!Status(c, "failed") /\ arb[c].status \in {"claimed", "running"}
    <3>1. arb'[c].status = "failed" /\ arb'[c].gen = arb[c].gen => CallOf(c)'
      BY <1>1, <1>12, <2>2 DEF CallOf
    <3> HIDE DEF Kept, OneChild
    <3> QED
      BY <1>4, <1>5, <1>12, <2>2, <3>1
  <2> QED
    BY <1>12, <2>1, <2>2 DEF Train!Fail
<1>13. CASE Train!LaunchFails(c)
  <2>1. Kept /\ OneChild /\ Train!Fail(c) /\ child'[c] = "gone" /\ called'[c] = called[c] /\ engine' = engine
    BY <1>5, <1>13 DEF Train!LaunchFails
  <2> QED
    BY <1>12, <2>1
<1>14. ASSUME NEW reached \in BOOLEAN, Train!Dies(c, reached) PROVE TrainInv'
  <2>1. /\ Kept /\ OneChild /\ child'[c] = "gone" /\ called'[c] = called[c] /\ engine' = engine
        /\ Train!Fail(c) \/ arb' = arb
    BY <1>5, <1>14 DEF Train!Dies
  <2>2. CASE arb' = arb
    <3>1. CallOf(c)'
      BY <1>1, <2>1, <2>2 DEF CallOf
    <3> HIDE DEF Kept, OneChild
    <3> QED
      BY <1>3, <2>1, <2>2, <3>1
  <2> QED
    BY <1>12, <2>1, <2>2
<1>15. CASE Train!PostFails(c)
  <2>1. Kept /\ OneChild /\ child'[c] = "gone" /\ called'[c] = called[c] /\ engine' = engine /\ arb' = arb
    BY <1>5, <1>15 DEF Train!PostFails
  <2>2. CallOf(c)'
    BY <1>1, <2>1 DEF CallOf
  <2> HIDE DEF Kept, OneChild
  <2> QED
    BY <1>3, <2>1, <2>2
<1> QED
  BY <1>6, <1>7, <1>8, <1>9, <1>10, <1>11, <1>13, <1>14, <1>15

\* An arbiter is opened for an undecided card, and what it decided is written.
LEMMA OpenDecideStep ==
    ASSUME TrainInv, NEW c \in Cards
    PROVE  /\ Train!Open(c) => TrainInv'
           /\ \A verdict \in Train!Verdicts : \A order : Train!Decide(c, verdict, order) => TrainInv'
<1> USE EngineIs DEF Train!cards, Train!outside, Train!arbiter, Train!calls
<1>1. TrainTypes /\ CallOf(c)
  BY DEF TrainInv, CallOnce
<1>2. /\ arb[c].gen \in Nat /\ called[c] \in Nat
      /\ child \in [Cards -> {"none", "picked", "due", "alive", "gone"}] /\ called \in [Cards -> Nat]
      /\ arb[c] = [gen |-> arb[c].gen, status |-> arb[c].status,
                   input |-> arb[c].input, order |-> arb[c].order]
  BY <1>1, OldArb DEF TrainTypes
<1>3. CASE Train!Open(c)
  <2>1. /\ UNCHANGED <<card, line, facts, asked, unheard, called>>
        /\ child' = [child EXCEPT ![c] = "none"] /\ result' = result \ {c}
        /\ arb' = [arb EXCEPT ![c] = [gen |-> arb[c].gen + 1, status |-> "requested",
                                      input |-> Train!Input(c), order |-> <<>>]]
        /\ c \in Train!Attention
    BY <1>1, <1>3 DEF Train!Open, Train!FirstOf, TrainTypes
  <2>2. engine' = engine \/ MovesOn
    BY <1>3 DEF Train!Open, Train!GoOn, MovesOn
  <2>3. arb[c].status \in {"none", "hold"} /\ card[c].adm = "incident" /\ card[c].code = "stuck"
    BY <2>1 DEF Train!Attention, Train!Undecided
  <2>4. arb[c].gen + 1 \in Nat /\ "requested" \in Statuses
    BY <1>2 DEF Statuses, Train!Busy
  <2>5. /\ arb' \in [Cards -> ArbRecord'] /\ arb'[c].status = "requested" /\ arb'[c].gen = arb[c].gen + 1
        /\ \A d \in Cards \ {c} : arb'[d] = arb[d]
    BY <1>1, <2>1, <2>4, ArbStep
  <2>6. /\ child' \in [Cards -> {"none", "picked", "due", "alive", "gone"}] /\ child'[c] = "none"
        /\ \A d \in Cards \ {c} : child'[d] = child[d]
        /\ called' = called /\ called' \in [Cards -> Nat]
    BY <1>2, <2>1
  <2>7. CallOf(c)'
    BY <1>1, <1>2, <2>5, <2>6 DEF CallOf
  <2>8. card' \in [Cards -> CardRecord] /\ result' \subseteq Cards
    BY <1>1, <2>1 DEF TrainTypes
  <2> QED
    BY <2>1, <2>2, <2>3, <2>5, <2>6, <2>7, <2>8, ArbiterStep
<1>4. ASSUME NEW verdict \in Train!Verdicts, NEW order, Train!Decide(c, verdict, order)
      PROVE  TrainInv'
  <2>1. /\ UNCHANGED <<line, facts, engine, asked, unheard, called, result>>
        /\ child' = [child EXCEPT ![c] = "gone"]
        /\ card' = card \/ card' = [card EXCEPT ![c].task = "repairing", ![c].repaired = TRUE]
    BY <1>4 DEF Train!Decide
  <2>2. /\ child' \in [Cards -> {"none", "picked", "due", "alive", "gone"}] /\ child'[c] = "gone"
        /\ \A d \in Cards \ {c} : child'[d] = child[d]
        /\ called' = called /\ called' \in [Cards -> Nat]
    BY <1>2, <2>1
  <2>3. /\ card' \in [Cards -> CardRecord]
        /\ \A d \in Cards : card'[d].adm = card[d].adm /\ card'[d].code = card[d].code
    <3>1. card \in [Cards -> CardRecord]
      BY <1>1 DEF TrainTypes
    <3> QED
      BY <2>1, <3>1 DEF CardRecord, Train!Tasks
  <2>4. result' \subseteq Cards
    BY <1>1, <2>1 DEF TrainTypes
  <2>5. verdict \in Statuses /\ verdict \notin {"requested", "claimed", "running"}
    BY DEF Train!Verdicts, Statuses, Train!Busy
  <2>6. ASSUME arb[c].status = "running", NEW s \in Statuses, s \notin {"requested", "claimed"},
               NEW o, arb' = [arb EXCEPT ![c].status = s, ![c].order = o]
        PROVE  TrainInv'
    <3>1. [arb[c] EXCEPT !.status = s, !.order = o] =
             [gen |-> arb[c].gen, status |-> s, input |-> arb[c].input, order |-> o]
      <4> DEFINE r == [arb[c] EXCEPT !.status = s]
      <4>1. r = [gen |-> arb[c].gen, status |-> s, input |-> arb[c].input, order |-> arb[c].order]
        BY <1>2
      <4>2. [arb[c] EXCEPT !.status = s, !.order = o] = [r EXCEPT !.order = o]
        OBVIOUS
      <4> HIDE DEF r
      <4>3. [r EXCEPT !.order = o] =
              [gen |-> arb[c].gen, status |-> s, input |-> arb[c].input, order |-> o]
        BY <4>1
      <4> QED
        BY <4>2, <4>3
    <3>2. arb' = [arb EXCEPT ![c] = [gen |-> arb[c].gen, status |-> s,
                                     input |-> arb[c].input, order |-> o]]
      BY <1>1, <2>6, <3>1 DEF TrainTypes
    <3>3. /\ arb' \in [Cards -> ArbRecord'] /\ arb'[c].status = s /\ arb'[c].gen = arb[c].gen
          /\ \A d \in Cards \ {c} : arb'[d] = arb[d]
      BY <1>1, <1>2, <3>2, ArbStep
    <3>4. CallOf(c)'
      BY <1>1, <2>2, <2>6, <3>3 DEF CallOf
    <3> QED
      BY <2>1, <2>2, <2>3, <2>4, <2>6, <3>3, <3>4, ArbiterStep
  <2>7. CASE arb[c].status = "running" /\ Train!Fits(c)
    <3>1. arb' = [arb EXCEPT ![c].status = verdict, ![c].order = order]
      BY <1>4, <2>7 DEF Train!Decide
    <3> QED
      BY <2>5, <2>6, <2>7, <3>1
  <2>8. CASE arb[c].status = "running" /\ ~Train!Fits(c)
    <3>1. Train!Status(c, "failed")
      BY <1>4, <2>8 DEF Train!Decide
    <3>2. "failed" \in Statuses
      BY DEF Statuses
    <3>3. /\ arb' \in [Cards -> ArbRecord'] /\ arb'[c].status = "failed" /\ arb'[c].gen = arb[c].gen
          /\ \A d \in Cards \ {c} : arb'[d] = arb[d]
      BY <1>1, <3>1, <3>2, StatusStep
    <3>4. CallOf(c)'
      BY <1>1, <2>2, <3>3 DEF CallOf
    <3> QED
      BY <2>1, <2>2, <2>3, <2>4, <2>8, <3>3, <3>4, ArbiterStep
  <2>9. CASE arb[c].status # "running"
    <3>1. arb' = arb
      BY <1>4, <2>9 DEF Train!Decide
    <3>2. arb' \in [Cards -> ArbRecord']
      <4>1. ArbRecord' = ArbRecord
        BY <3>1 DEF ArbRecord
      <4> QED
        BY <1>1, <3>1, <4>1 DEF TrainTypes
    <3>3. CallOf(c)'
      BY <1>1, <2>2, <3>1 DEF CallOf
    <3> QED
      BY <2>1, <2>2, <2>3, <2>4, <3>1, <3>2, <3>3, ArbiterStep
  <2> QED
    BY <2>7, <2>8, <2>9
<1> QED
  BY <1>3, <1>4

\* What an incident leaves of a card, and how an admission is completed.
LEMMA IncidentStep ==
    ASSUME TrainTypes, NEW c \in Cards, NEW code \in {"stuck", "other"}, Train!Incident(c, code)
    PROVE  /\ card' \in [Cards -> CardRecord]
           /\ card'[c].adm = "incident" /\ card'[c].code = code
           /\ \A d \in Cards \ {c} : card'[d] = card[d]
<1> card \in [Cards -> CardRecord]
  BY DEF TrainTypes
<1> QED
  BY DEF Train!Incident, CardRecord, Train!Tasks, Train!Admissions

\* A new admission status of one card.
LEMMA AdmissionStep ==
    ASSUME TrainTypes, NEW c \in Cards, NEW adm \in Train!Admissions,
           card' = [card EXCEPT ![c].adm = adm]
    PROVE  /\ card' \in [Cards -> CardRecord]
           /\ card'[c].adm = adm /\ card'[c].code = card[c].code
           /\ \A d \in Cards \ {c} : card'[d] = card[d]
<1> card \in [Cards -> CardRecord]
  BY DEF TrainTypes
<1> QED
  BY DEF CardRecord

\* A card that gets its place in the line gets the last one.
LEMMA EnrolStep ==
    ASSUME TrainInv, NEW c \in Cards, Train!Enrol(c)
    PROVE  TrainInv'
<1> USE DEF Train!cards, Train!outside, Train!arbiter, Train!calls
<1>1. TrainTypes /\ Lined /\ AskOnce
  BY DEF TrainInv
<1>2. /\ card[c].adm = "none" /\ card' = [card EXCEPT ![c].adm = "waiting"] /\ line' = Append(line, c)
      /\ UNCHANGED <<facts, engine, arb, child, called, result, asked, unheard>>
  BY DEF Train!Enrol
<1>3. /\ card' \in [Cards -> CardRecord]
      /\ card'[c].adm = "waiting" /\ card'[c].code = card[c].code
      /\ \A d \in Cards \ {c} : card'[d] = card[d]
  BY <1>1, <1>2, AdmissionStep DEF Train!Admissions
<1>4. /\ line \in Seq(Cards) /\ line' \in Seq(Cards) /\ Len(line') = Len(line) + 1 /\ Len(line) \in Nat
      /\ \A i \in 1..Len(line) : line'[i] = line[i] /\ line[i] \in Cards
      /\ line'[Len(line) + 1] = c
  BY <1>1, <1>2, AppendProperties DEF Lined
<1>5. \A i \in 1..Len(line) : line[i] # c
  BY <1>1, <1>2 DEF Lined
<1>6. ArbRecord' = ArbRecord
  BY <1>2 DEF ArbRecord
<1>7. TrainTypes'
  BY <1>1, <1>2, <1>3, <1>6 DEF TrainTypes
<1>8. Lined'
  <2>1. \A i, j \in 1..Len(line') : line'[i] = line'[j] => i = j
    BY <1>1, <1>4, <1>5 DEF Lined
  <2>2. ASSUME NEW d \in Cards
        PROVE  card'[d].adm # "none" <=> \E i \in 1..Len(line') : line'[i] = d
    <3>1. CASE d = c
      BY <1>3, <1>4, <3>1
    <3>2. CASE d # c
      <4>1. card[d].adm # "none" <=> \E i \in 1..Len(line) : line[i] = d
        BY <1>1, Zenon DEF Lined
      <4>2. (\E i \in 1..Len(line) : line[i] = d) <=> \E i \in 1..Len(line') : line'[i] = d
        BY <1>4, <3>2
      <4> QED
        BY <1>3, <3>2, <4>1, <4>2
    <3> QED
      BY <3>1, <3>2
  <2> QED
    BY <1>4, <2>1, <2>2 DEF Lined
<1>9. asked[c] = 0
  BY <1>1, <1>2 DEF AskOnce
<1>10. Ahead'
  <2>1. \A d \in Cards : Settled(d) => Settled(d)'
    BY <1>2, <1>3 DEF Settled
  <2>2. ASSUME NEW i \in 1..Len(line'), NEW j \in 1..(i - 1),
               card'[line'[i]].adm = "claimed" \/ asked'[line'[i]] > 0
        PROVE  Settled(line[j])'
    <3>1. i # Len(line) + 1
      BY <1>2, <1>3, <1>4, <1>9, <2>2
    <3>2. i \in 1..Len(line) /\ j \in 1..Len(line)
      BY <1>4, <3>1
    <3>3. card[line[i]].adm = "claimed" \/ asked[line[i]] > 0
      BY <1>2, <1>3, <1>4, <1>5, <2>2, <3>2
    <3>4. Settled(line[j])
      BY <3>2, <3>3 DEF TrainInv, Ahead
    <3> QED
      BY <1>4, <2>1, <3>2, <3>4
  <2> QED
    BY <2>2 DEF Ahead
<1>11. AskOnce'
  BY <1>1, <1>2, <1>3 DEF AskOnce
<1>12. MergedWasAsked'
  BY <1>2, <1>3 DEF TrainInv, MergedWasAsked
<1>13. CallOnce'
  BY <1>2 DEF TrainInv, CallOnce, CallOf
<1> QED
  BY <1>7, <1>8, <1>10, <1>11, <1>12, <1>13 DEF TrainInv

\* A card is given up before it is in the line.
LEMMA TaskGiveUpStep ==
    ASSUME TrainInv, NEW c \in Cards, Train!GiveUp(c)
    PROVE  TrainInv'
<1> USE EngineIs DEF Train!cards, Train!outside, Train!arbiter, Train!calls
<1>1. TrainTypes /\ CallOf(c)
  BY DEF TrainInv, CallOnce
<1>2. /\ card' = [card EXCEPT ![c].task = "incident"] /\ MovesOn
      /\ UNCHANGED <<line, facts, arb, child, called, result, asked, unheard>>
  BY DEF Train!GiveUp, MovesOn
<1>3. /\ card' \in [Cards -> CardRecord]
      /\ \A d \in Cards : card'[d].adm = card[d].adm /\ card'[d].code = card[d].code
  BY <1>1, <1>2 DEF TrainTypes, CardRecord, Train!Tasks
<1>4. ArbRecord' = ArbRecord
  BY <1>2 DEF ArbRecord
<1>5. /\ arb' \in [Cards -> ArbRecord'] /\ result' \subseteq Cards
      /\ child' \in [Cards -> {"none", "picked", "due", "alive", "gone"}] /\ called' \in [Cards -> Nat]
  BY <1>1, <1>2, <1>4 DEF TrainTypes
<1>6. CallOf(c)'
  BY <1>1, <1>2 DEF CallOf
<1> QED
  BY <1>2, <1>3, <1>5, <1>6, ArbiterStep

\* A repaired card waits again in its old place: it was never asked for.
LEMMA RebindStep ==
    ASSUME TrainInv, NEW c \in Cards, Train!Rebind(c)
    PROVE  TrainInv'
<1> USE EngineIs DEF Train!cards, Train!outside, Train!arbiter, Train!calls
<1>1. TrainTypes
  BY DEF TrainInv
<1>2. /\ card[c].adm = "incident" /\ arb[c].status = "repair_queued"
      /\ card' = [card EXCEPT ![c].adm = "waiting", ![c].code = "none"]
      /\ Train!Status(c, "recovery_reviewed") /\ MovesOn
      /\ UNCHANGED <<line, facts, child, called, result, asked, unheard>>
  BY DEF Train!Rebind, Train!Repaired, MovesOn
<1>3. /\ card' \in [Cards -> CardRecord]
      /\ card'[c].adm = "waiting" /\ card'[c].code = "none"
      /\ \A d \in Cards \ {c} : card'[d] = card[d]
  BY <1>1, <1>2 DEF TrainTypes, CardRecord, Train!Admissions
<1>4. "recovery_reviewed" \in Statuses
  BY DEF Statuses, Train!Busy
<1>5. /\ arb' \in [Cards -> ArbRecord']
      /\ arb'[c].status = "recovery_reviewed" /\ arb'[c].gen = arb[c].gen
      /\ \A d \in Cards \ {c} : arb'[d] = arb[d]
  BY <1>1, <1>2, <1>4, StatusStep
<1>6. asked[c] = 0 /\ asked' = asked
  BY <1>1, <1>2 DEF TrainInv, AskOnce, TrainTypes
<1>7. Lined' /\ Ahead'
  BY <1>2, <1>3, <1>5, <1>6, CardStep DEF Settled
<1>8. TrainTypes'
  BY <1>1, <1>2, <1>3, <1>5 DEF TrainTypes, MovesOn
<1>9. AskOnce'
  BY <1>2, <1>3, <1>5, <1>6 DEF TrainInv, AskOnce
<1>10. MergedWasAsked'
  BY <1>2, <1>3, <1>6 DEF TrainInv, MergedWasAsked, MovesOn
<1>11. CallOnce'
  BY <1>2, <1>5 DEF TrainInv, CallOnce, CallOf
<1> QED
  BY <1>7, <1>8, <1>9, <1>10, <1>11 DEF TrainInv

\* Whatever makes an incident of a card of which it is known whether it merged:
\* nobody will ask for it again.
LEMMA IncidentKept ==
    ASSUME TrainInv, NEW c \in Cards, NEW code \in {"stuck", "other"}, Train!Incident(c, code),
           card[c].adm \in {"waiting", "claimed"},
           card[c].adm = "claimed" => code = "other",
           facts[c] # "merged" \/ c \in unheard',
           unheard \subseteq unheard' /\ unheard' \subseteq Cards,
           engine.at \in {"asking", "answered"} => MovesOn,
           engine' = engine \/ MovesOn,
           UNCHANGED <<line, facts, arb, child, called, result, asked>>
    PROVE  TrainInv'
<1>1. TrainTypes
  BY DEF TrainInv
<1>2. /\ card' \in [Cards -> CardRecord]
      /\ card'[c].adm = "incident" /\ card'[c].code = code
      /\ \A d \in Cards \ {c} : card'[d] = card[d]
  BY <1>1, IncidentStep
<1>3. ArbRecord' = ArbRecord
  BY DEF ArbRecord
<1>4. TrainTypes'
  BY <1>1, <1>2, <1>3 DEF TrainTypes, MovesOn
<1>5. Settled(c) => Settled(c)'
  BY DEF Settled
<1>6. asked[c] \in Nat /\ (card[c].adm = "waiting" => asked[c] = 0)
  BY <1>1 DEF TrainInv, AskOnce, TrainTypes
<1>7. Lined' /\ Ahead'
  BY <1>2, <1>5, <1>6, CardStep
<1>8. AskOnce'
  BY <1>2, <1>6 DEF TrainInv, AskOnce
<1>9. MergedWasAsked'
  BY <1>2 DEF TrainInv, MergedWasAsked, MovesOn
<1>10. CallOnce'
  BY DEF TrainInv, CallOnce, CallOf
<1> QED
  BY <1>4, <1>7, <1>8, <1>9, <1>10 DEF TrainInv

\* A card that merged is completed, and so is its arbiter.
LEMMA CompleteStep ==
    ASSUME TrainInv, NEW c \in Cards, Train!Complete(c), facts[c] = "merged",
           card[c].adm = "claimed", MovesOn,
           UNCHANGED <<line, facts, child, called, result, asked, unheard>>
    PROVE  TrainInv'
<1>1. TrainTypes
  BY DEF TrainInv
<1>2. /\ card' \in [Cards -> CardRecord]
      /\ card'[c].adm = "succeeded" /\ card'[c].code = card[c].code
      /\ \A d \in Cards \ {c} : card'[d] = card[d]
  <2>1. card \in [Cards -> CardRecord]
    BY <1>1 DEF TrainTypes
  <2> QED
    BY <2>1 DEF Train!Complete, CardRecord, Train!Admissions, Train!Tasks
<1> DEFINE s == IF arb[c].status = "none" THEN "none" ELSE "succeeded"
<1>3. s \in Statuses /\ Train!Status(c, s)
  BY DEF Statuses, Train!Complete, Train!Status
<1>4. arb[c].status \in {"none", "recovery_reviewed"}
  BY DEF Train!Complete
<1>5. s \in {"none", "succeeded"} /\ s # "claimed" /\ s # "requested"
  OBVIOUS
<1> HIDE DEF s
<1>6. /\ arb' \in [Cards -> ArbRecord']
      /\ arb'[c].status = s /\ arb'[c].gen = arb[c].gen
      /\ \A d \in Cards \ {c} : arb'[d] = arb[d]
  BY <1>1, <1>3, StatusStep
<1>7. TrainTypes'
  BY <1>1, <1>2, <1>6 DEF TrainTypes, MovesOn
<1>8. Lined' /\ Ahead'
  BY <1>2, <1>6, CardStep DEF Settled
<1>9. AskOnce'
  BY <1>2, <1>5, <1>6 DEF TrainInv, AskOnce
<1>10. MergedWasAsked'
  BY <1>2 DEF TrainInv, MergedWasAsked, MovesOn
<1>11. CallOnce'
  BY <1>4, <1>5, <1>6 DEF TrainInv, CallOnce, CallOf
<1> QED
  BY <1>7, <1>8, <1>9, <1>10, <1>11 DEF TrainInv

\* The claim is of the first card that waits, past settled ones only.
LEMMA ClaimStep ==
    ASSUME TrainInv, NEW c \in Cards, Train!Claim(c)
    PROVE  TrainInv'
<1> USE EngineIs DEF Train!cards, Train!outside, Train!arbiter, Train!calls
<1>1. TrainTypes
  BY DEF TrainInv
<1>2. /\ Train!CanClaim(c) /\ facts[c] = "clean" /\ card' = [card EXCEPT ![c].adm = "claimed"]
      /\ engine' = [Train!Holds("asking") EXCEPT !.card = c]
      /\ UNCHANGED <<line, facts, arb, child, called, result, asked, unheard>>
  BY DEF Train!Claim
<1>3. card[c].adm = "waiting"
  BY <1>2 DEF Train!CanClaim, Train!FirstOf, Train!Waiting
<1>4. /\ card' \in [Cards -> CardRecord]
      /\ card'[c].adm = "claimed" /\ card'[c].code = card[c].code
      /\ \A d \in Cards \ {c} : card'[d] = card[d]
  BY <1>1, <1>2, AdmissionStep DEF Train!Admissions
<1>5. engine' \in EngineRecord /\ engine'.at = "asking" /\ engine'.card = c
  BY <1>2 DEF EngineRecord, Train!Holds, Train!Free
<1>6. asked[c] = 0
  BY <1>3 DEF TrainInv, AskOnce
<1>7. ASSUME NEW i \in 1..Len(line), line[i] = c, NEW j \in 1..(i - 1)
      PROVE  Settled(line[j])
  <2>1. line \in Seq(Cards) /\ \A k, l \in 1..Len(line) : line[k] = line[l] => k = l
    BY DEF TrainInv, Lined
  <2>2. PICK k \in DOMAIN line :
          line[k] = c /\ \A l \in 1..(k - 1) : line[l] \notin Train!Waiting
    BY <1>2 DEF Train!CanClaim, Train!FirstOf
  <2>3. k = i
    BY <1>7, <2>1, <2>2
  <2>4. line[j] \notin Train!Waiting
    BY <2>2, <2>3
  <2>5. j \in 1..Len(line) /\ line[j] \in Cards
    BY <2>1
  <2>6. card[line[j]].adm # "waiting" /\ card[line[j]].adm # "claimed"
        /\ (card[line[j]].adm = "incident" => arb[line[j]].status = "human_gate")
    BY <1>2, <2>4, <2>5 DEF Train!CanClaim, Train!Gated, Train!Waiting
  <2>7. card[line[j]].adm # "none"
    BY <2>5, Zenon DEF TrainInv, Lined
  <2>8. card[line[j]].adm \in Train!Admissions
    BY <1>1, <2>5 DEF TrainTypes, CardRecord
  <2> QED
    BY <2>6, <2>7, <2>8 DEF Settled, Train!Admissions
<1>8. Settled(c) => Settled(c)'
  BY <1>2, <1>3 DEF Settled
<1>9. Lined' /\ Ahead'
  BY <1>2, <1>3, <1>4, <1>7, <1>8, CardStep
<1>10. ArbRecord' = ArbRecord
  BY <1>2 DEF ArbRecord
<1>11. TrainTypes'
  BY <1>1, <1>2, <1>4, <1>5, <1>10 DEF TrainTypes
<1>12. AskOnce'
  BY <1>2, <1>3, <1>4 DEF TrainInv, AskOnce
<1>13. MergedWasAsked'
  BY <1>2, <1>3, <1>4, <1>5, <1>6 DEF TrainInv, MergedWasAsked
<1>14. CallOnce'
  BY <1>2 DEF TrainInv, CallOnce, CallOf
<1> QED
  BY <1>9, <1>11, <1>12, <1>13, <1>14 DEF TrainInv

\* A merge is asked for with the claim that was made for it, and its answer kept.
LEMMA AskMergeStep ==
    ASSUME TrainInv, NEW c \in Cards, NEW answer \in {"merged", "refused", "lost"}, Train!Ask(c, answer)
    PROVE  TrainInv'
<1> USE DEF Train!cards, Train!outside, Train!arbiter, Train!calls
<1>1. TrainTypes
  BY DEF TrainInv
<1>2. /\ engine.at = "asking" /\ engine.card = c /\ asked' = [asked EXCEPT ![c] = @ + 1]
      /\ unheard' = IF answer = "lost" THEN unheard \cup {c} ELSE unheard
      /\ engine' = [Train!Holds("answered") EXCEPT !.card = c,
                       !.answer = IF answer = "merged" THEN "merged" ELSE "error"]
      /\ UNCHANGED <<card, line, arb, child, called, result>>
  BY DEF Train!Ask
<1>3. IF answer = "refused" THEN facts' = facts ELSE facts' = [facts EXCEPT ![c] = "merged"]
  BY DEF Train!Ask
<1>4. card[c].adm = "claimed" /\ asked[c] = 0 /\ facts[c] # "merged"
  <2>1. card[c].adm = "claimed" /\ asked[c] = 0
    BY <1>2 DEF TrainInv, MergedWasAsked
  <2> QED
    BY <2>1 DEF TrainInv, MergedWasAsked
<1>5. /\ asked' \in [Cards -> Nat] /\ asked'[c] = 1 /\ \A d \in Cards \ {c} : asked'[d] = asked[d]
  BY <1>1, <1>2, <1>4 DEF TrainTypes
<1>6. /\ facts' \in [Cards -> {"clean", "wait", "stuck", "drifted", "merged"}]
      /\ \A d \in Cards \ {c} : facts'[d] = facts[d]
      /\ IF answer = "refused" THEN facts'[c] # "merged" ELSE facts'[c] = "merged"
  BY <1>1, <1>3, <1>4 DEF TrainTypes
<1>7. /\ engine' \in EngineRecord /\ engine'.at = "answered" /\ engine'.card = c
      /\ (engine'.answer = "merged" <=> answer = "merged")
  <2>1. CASE answer = "merged"
    BY <1>2, <2>1 DEF EngineRecord, Train!Holds, Train!Free
  <2>2. CASE answer # "merged"
    BY <1>2, <2>2 DEF EngineRecord, Train!Holds, Train!Free
  <2> QED
    BY <2>1, <2>2
<1>8. ArbRecord' = ArbRecord
  BY <1>2 DEF ArbRecord
<1>9. TrainTypes'
  BY <1>1, <1>2, <1>5, <1>6, <1>7, <1>8 DEF TrainTypes
<1>10. Settled(c) => Settled(c)'
  BY <1>2 DEF Settled
<1>11. Lined' /\ Ahead'
  BY <1>2, <1>4, <1>5, <1>10, CardStep
<1>12. AskOnce'
  BY <1>2, <1>4, <1>5 DEF TrainInv, AskOnce
<1>13. MergedWasAsked'
  <2>1. ASSUME NEW d \in Cards
        PROVE  /\ facts'[d] = "merged" => asked'[d] > 0
               /\ facts'[d] = "merged" /\ d \notin unheard' => card'[d].adm \in {"claimed", "succeeded"}
               /\ card'[d].adm = "succeeded" => facts'[d] = "merged"
    <3>1. CASE d = c
      BY <1>2, <1>4, <1>5, <3>1
    <3>2. CASE d # c
      BY <1>2, <1>5, <1>6, <3>2 DEF TrainInv, MergedWasAsked
    <3> QED
      BY <3>1, <3>2
  <2>2. card'[engine'.card].adm = "claimed"
    BY <1>2, <1>4, <1>7
  <2>3. answer = "lost" => c \in unheard'
    BY <1>2
  <2> QED
    BY <1>6, <1>7, <2>1, <2>2, <2>3 DEF MergedWasAsked
<1>14. CallOnce'
  BY <1>2 DEF TrainInv, CallOnce, CallOf
<1> QED
  BY <1>9, <1>11, <1>12, <1>13, <1>14 DEF TrainInv

\* What becomes of a claim: a record of the merge, or an incident.
LEMMA ClaimEnds ==
    ASSUME TrainInv, NEW c \in Cards
    PROVE  Train!Refuse(c) \/ Train!Record(c) \/ Train!ResolveClaimed(c) \/ Train!DriftClaimed(c)
             => TrainInv'
<1> USE EngineIs DEF Train!cards, Train!outside, Train!arbiter, Train!calls, Train!EndWithIncident
<1>0. unheard \subseteq Cards
  BY DEF TrainInv, TrainTypes
<1>1. CASE Train!Refuse(c)
  <2>1. /\ card[c].adm = "waiting" /\ engine.at = "drain" /\ facts[c] \notin {"clean", "wait"}
        /\ Train!Incident(c, IF facts[c] = "stuck" THEN "stuck" ELSE "other")
        /\ UNCHANGED <<line, facts, arb, child, called, result, asked, unheard>>
    BY <1>1 DEF Train!Refuse, Train!Draining, Train!Waiting
  <2>2. engine' = engine \/ MovesOn
    BY <1>1 DEF Train!Refuse, MovesOn
  <2>3. asked[c] = 0
    BY <2>1 DEF TrainInv, AskOnce
  <2>4. facts[c] # "merged"
    BY <2>3 DEF TrainInv, MergedWasAsked
  <2>5. CASE facts[c] = "stuck"
    <3>1. Train!Incident(c, "stuck")
      BY <2>1, <2>5
    <3> QED
      BY <1>0, <2>1, <2>2, <2>4, <3>1, IncidentKept
  <2>6. CASE facts[c] # "stuck"
    <3>1. Train!Incident(c, "other")
      BY <2>1, <2>6
    <3> QED
      BY <1>0, <2>1, <2>2, <2>4, <3>1, IncidentKept
  <2> QED
    BY <2>5, <2>6
<1>2. CASE Train!Record(c)
  <2>1. /\ engine.at = "answered" /\ engine.card = c
        /\ UNCHANGED <<line, facts, child, called, result, asked, unheard>>
    BY <1>2 DEF Train!Record
  <2>2. MovesOn
    BY <1>2 DEF Train!Record, MovesOn
  <2>3. card[c].adm = "claimed"
    BY <2>1 DEF TrainInv, MergedWasAsked
  <2>4. CASE engine.answer = "merged"
    <3>1. facts[c] = "merged"
      BY <2>1, <2>4 DEF TrainInv, MergedWasAsked
    <3>2. Train!Complete(c)
      BY <1>2, <2>4 DEF Train!Record
    <3> QED
      BY <2>1, <2>2, <2>3, <3>1, <3>2, CompleteStep
  <2>5. CASE engine.answer # "merged"
    <3>1. facts[c] # "merged" \/ c \in unheard
      BY <2>1, <2>5 DEF TrainInv, MergedWasAsked
    <3>2. Train!Incident(c, "other") /\ arb' = arb
      BY <1>2, <2>5 DEF Train!Record
    <3> QED
      BY <1>0, <2>1, <2>2, <2>3, <3>1, <3>2, IncidentKept
  <2> QED
    BY <2>4, <2>5
<1>3. CASE Train!ResolveClaimed(c)
  <2>1. /\ engine.at \in {"boot", "drain"} /\ card[c].adm = "claimed"
        /\ UNCHANGED <<line, facts, child, called, result, asked, unheard>>
    BY <1>3 DEF Train!ResolveClaimed, Train!LeftBehind, Train!Claimed
  <2>2. MovesOn
    BY <1>3 DEF Train!ResolveClaimed, Train!LeftBehind, MovesOn
  <2>3. CASE facts[c] = "merged"
    <3>1. Train!Complete(c)
      BY <1>3, <2>3 DEF Train!ResolveClaimed
    <3> QED
      BY <2>1, <2>2, <2>3, <3>1, CompleteStep
  <2>4. CASE facts[c] # "merged"
    <3>1. Train!Incident(c, "other") /\ arb' = arb
      BY <1>3, <2>4 DEF Train!ResolveClaimed, Train!Uncertain
    <3> QED
      BY <1>0, <2>1, <2>2, <2>4, <3>1, IncidentKept
  <2> QED
    BY <2>3, <2>4
<1>4. CASE Train!DriftClaimed(c)
  <2>1. /\ engine.at \in {"boot", "drain"} /\ card[c].adm = "claimed"
        /\ unheard' = unheard \cup {c} /\ Train!Incident(c, "other")
        /\ UNCHANGED <<line, facts, arb, child, called, result, asked>>
    BY <1>4 DEF Train!DriftClaimed, Train!LeftBehind, Train!Claimed, Train!Uncertain
  <2>2. MovesOn
    BY <1>4 DEF Train!DriftClaimed, Train!LeftBehind, MovesOn
  <2> QED
    BY <1>0, <2>1, <2>2, IncidentKept
<1> QED
  BY <1>1, <1>2, <1>3, <1>4

\* The death of the daemon forgets what it was about to start.
LEMMA TrainCrashStep ==
    ASSUME TrainInv, Train!TrainCrash
    PROVE  TrainInv'
<1> USE EngineIs DEF Train!cards, Train!outside, Train!arbiter, Train!calls
<1>1. TrainTypes
  BY DEF TrainInv
<1>2. /\ engine' = Train!Holds("boot")
      /\ child' = [c \in Cards |-> IF child[c] \in {"picked", "due"} THEN "none" ELSE child[c]]
      /\ UNCHANGED <<card, line, facts, arb, called, result, asked, unheard>>
  BY DEF Train!TrainCrash
<1>3. ArbRecord' = ArbRecord
  BY <1>2 DEF ArbRecord
<1>4. \A c \in Cards : child'[c] = child[c] \/ child'[c] = "none"
  BY <1>2
<1>5. child' \in [Cards -> {"none", "picked", "due", "alive", "gone"}]
  BY <1>1, <1>2 DEF TrainTypes
<1>6. TrainTypes'
  BY <1>1, <1>2, <1>3, <1>5 DEF TrainTypes
<1>7. Lined' /\ Ahead' /\ AskOnce'
  BY <1>2 DEF TrainInv, Lined, Ahead, Settled, AskOnce
<1>8. MergedWasAsked'
  BY <1>2 DEF TrainInv, MergedWasAsked
<1>9. CallOnce'
  BY <1>2, <1>4 DEF TrainInv, CallOnce, CallOf
<1> QED
  BY <1>6, <1>7, <1>8, <1>9 DEF TrainInv

\* Every step of the train keeps the invariant.
LEMMA TrainStep == TrainInv /\ [Train!TrainNext]_trainVars => TrainInv'
<1> SUFFICES ASSUME TrainInv, [Train!TrainNext]_trainVars PROVE TrainInv'
  OBVIOUS
<1>1. CASE UNCHANGED trainVars
  <2>1. UNCHANGED <<card, line, facts, engine, arb, child, called, result, asked, unheard>>
    BY <1>1 DEF trainVars
  <2>2. result' \subseteq Cards
    BY <2>1 DEF TrainInv, TrainTypes
  <2> QED
    BY <2>1, <2>2, EngineStep
<1>2. ASSUME NEW c \in Cards,
             \/ \E task \in {"approved", "failed"} : Train!Reviewed(c, task)
             \/ \E f \in {"clean", "wait", "stuck", "drifted"} : Train!ProviderMoves(c, f)
      PROVE  TrainInv'
  BY <1>2, OutsideSteps
<1>3. ASSUME NEW c \in Cards, Train!Enrol(c) \/ Train!GiveUp(c) \/ Train!Rebind(c)
      PROVE  TrainInv'
  BY <1>3, EnrolStep, TaskGiveUpStep, RebindStep
<1>4. ASSUME NEW c \in Cards, Train!TryOn(c) \/ Train!Wedge(c) \/ Train!WriteResult(c)
      PROVE  TrainInv'
  BY <1>4, IdleSteps
<1>5. ASSUME NEW c \in Cards,
             \/ Train!FailMissing(c) \/ Train!Relaunch(c) \/ Train!ClaimArbiter(c)
             \/ Train!StartArbiter(c) \/ Train!LaunchFuture(c) \/ Train!LaunchFails(c)
             \/ Train!PostFails(c) \/ \E reached \in BOOLEAN : Train!Dies(c, reached)
      PROVE  TrainInv'
  BY <1>5, ArbiterSteps
<1>6. ASSUME NEW c \in Cards,
             \/ Train!Open(c)
             \/ \E verdict \in Train!Verdicts : \E order \in Train!Orders(c) :
                  Train!Decide(c, verdict, order)
      PROVE  TrainInv'
  BY <1>6, OpenDecideStep
<1>7. ASSUME NEW c \in Cards,
             Train!Refuse(c) \/ Train!Record(c) \/ Train!ResolveClaimed(c) \/ Train!DriftClaimed(c)
      PROVE  TrainInv'
  BY <1>7, ClaimEnds
<1>8. ASSUME NEW c \in Cards,
             Train!Claim(c) \/ \E answer \in {"merged", "refused", "lost"} : Train!Ask(c, answer)
      PROVE  TrainInv'
  BY <1>8, ClaimStep, AskMergeStep
<1>9. CASE \/ Train!MainMoves \/ Train!CannotDerive \/ Train!NothingToDo \/ Train!Stops
           \/ Train!Boot \/ Train!TryFails
  BY <1>9, IdleSteps
<1>10. CASE Train!TrainCrash
  BY <1>10, TrainCrashStep
<1> QED
  BY <1>1, <1>2, <1>3, <1>4, <1>5, <1>6, <1>7, <1>8, <1>9, <1>10 DEF Train!TrainNext

\* Nothing has an admission yet.
LEMMA TrainBegins == ServicesInit => TrainInv
<1> SUFFICES ASSUME ServicesInit PROVE TrainInv
  OBVIOUS
<1>1. /\ card = [c \in Cards |-> [task |-> "working", adm |-> "none", code |-> "none",
                                  repaired |-> FALSE]]
      /\ line = <<>> /\ facts = [c \in Cards |-> "clean"] /\ engine = Train!Free
      /\ arb = [c \in Cards |-> [gen |-> 0, status |-> "none", input |-> Train!NoInput, order |-> <<>>]]
      /\ child = [c \in Cards |-> "none"] /\ result = {}
      /\ asked = [c \in Cards |-> 0] /\ unheard = {} /\ called = [c \in Cards |-> 0]
  BY DEF ServicesInit, Train!TrainInit
<1>2. arb \in [Cards -> ArbRecord]
  <2>1. ASSUME NEW c \in Cards PROVE arb[c] \in ArbRecord
    <3> DEFINE I == {arb[e].input : e \in Cards}
               O == {arb[e].order : e \in Cards}
    <3>1. arb[c].input \in I /\ arb[c].order \in O
      OBVIOUS
    <3>2. ArbRecord = [gen : Nat, status : Statuses, input : I, order : O]
      BY DEF ArbRecord
    <3> HIDE DEF I, O
    <3>3. arb[c] = [gen |-> 0, status |-> "none", input |-> arb[c].input, order |-> arb[c].order]
      BY <1>1
    <3>4. "none" \in Statuses
      BY DEF Statuses
    <3>5. arb[c] \in [gen : Nat, status : Statuses, input : I, order : O]
      BY <3>1, <3>3, <3>4
    <3> QED
      BY <3>2, <3>5
  <2>2. arb = [c \in Cards |-> arb[c]]
    BY <1>1
  <2> QED
    BY <2>1, <2>2
<1>3. TrainTypes
  BY <1>1, <1>2, EngineIs DEF TrainTypes, CardRecord, Train!Tasks, Train!Admissions
<1>4. Lined /\ Ahead
  BY <1>1 DEF Lined, Ahead
<1>5. AskOnce /\ CallOnce
  BY <1>1 DEF AskOnce, CallOnce, CallOf
<1>6. MergedWasAsked
  BY <1>1, EngineIs DEF MergedWasAsked
<1> QED
  BY <1>3, <1>4, <1>5, <1>6 DEF TrainInv

\* The invariant of the train holds throughout: the other parts leave it be.
LEMMA TrainInvariant == Services => []TrainInv
<1>1. [ServicesNext]_services => [Train!TrainNext]_trainVars
  BY DEF ServicesNext, services, daemonVars, trainVars, Notifications, ShellTerminals, Launches,
         ChangeFeed, Nudging, Merging, Previews, BrowserCommands, TerminalViews
<1> QED
  BY <1>1, TrainBegins, TrainStep, PTL DEF Services

\* Whatever crashes or is lost between the claim of an admission and its record, its
\* pull request is asked for once, what merged is out of the line but for a lost
\* answer or a claim that could not be identified, and a generation of an arbiter is
\* one call; for any number of cards and faults.
THEOREM AskedAndCalledOnce == Services => []OnceOnly
<1>1. TrainInv => OnceOnly
  BY DEF TrainInv, OnceOnly, Train!OnceOnly, AskOnce, MergedWasAsked, CallOnce, CallOf
<1> QED
  BY <1>1, TrainInvariant, PTL

\* Nobody is asked to be merged before the cards ahead of it have merged or are left
\* to the owner, although the drain steps over incidents; for any number of cards.
THEOREM MergedInTurn == Services => []InTurn
<1>1. TrainInv => InTurn
  <2> SUFFICES ASSUME TrainInv, NEW i \in DOMAIN line, NEW j \in 1..(i - 1), asked[line[i]] > 0
               PROVE  card[line[j]].adm = "succeeded" \/ arb[line[j]].status = "human_gate"
    BY DEF InTurn, Train!InTurn
  <2>1. i \in 1..Len(line)
    BY DEF TrainInv, Lined
  <2> QED
    BY <2>1 DEF TrainInv, Ahead, Settled
<1> QED
  BY <1>1, TrainInvariant, PTL

=============================================================================
