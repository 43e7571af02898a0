----------------------------- MODULE DesktopProofs -----------------------------
(***************************************************************************)
(* What the desktop is promised, for every value of the constants: the     *)
(* terminal views have the grid their clients arbitrate, every stream has  *)
(* the keys in the order they were typed, and of a browser command neither *)
(* end is left behind.  Each part has an inductive invariant of its own,   *)
(* kept by its steps and left alone by the steps of the others.            *)
(***************************************************************************)
EXTENDS MCServices, FiniteSetTheorems, SequenceTheorems, WellFoundedInduction, TLAPS

-----------------------------------------------------------------------------
(* The views of a terminal                                                 *)

\* The types of the views.
Places == {"probe", "publish", "replay", "flush", "write", "copy", "exiting", "over"}
TapRecord == [owner : Clients, grid : Mux!Grids, closed : BOOLEAN, at : Places]
MemberRecord == [tap : 0..MaxTaps, grid : Mux!Grids, primary : BOOLEAN]
Keys == [taken : Seq(Nat), pending : Seq(Nat), batch : Seq(Nat), delivered : Seq(Nat)]

\* Every value of the views has its type.
MuxTypes ==
    /\ opened \in [Clients -> 0..MaxTaps] /\ member \in [Clients -> MemberRecord]
    /\ authority \in Mux!Grids /\ frames \in 0..MaxFrames
    /\ tap \in [Mux!Taps -> TapRecord] /\ screen \in [Mux!Taps -> Mux!Grids]
    /\ replay \in [Mux!Taps -> Mux!Grids] /\ input \in [Mux!Taps -> Keys]
    /\ stale \subseteq Mux!Taps /\ evicted \subseteq Clients

\* What a client has opened is its own attachment, with a loop that was not
\* told to end; it takes part in the arbitration with no other.
Owned ==
    \A c \in Clients :
        /\ opened[c] # 0 => /\ tap[opened[c]].owner = c /\ ~tap[opened[c]].closed
                            /\ tap[opened[c]].at # "over"
        /\ member[c].tap \in {0, opened[c]}
        /\ c \notin evicted => member[c].tap = opened[c]

\* The keys of an attachment, where it stands: only in the middle of a write
\* are there keys between the ones that wait and the ones handed over.
KeysOf(t, k) ==
    IF t.at = "over" \/ t.closed THEN k = Mux!NoInput
    ELSE /\ k.taken = k.delivered \o k.batch \o k.pending
         /\ t.at \notin {"write", "exiting"} => k.batch = <<>>
         /\ t.at = "copy" => k.pending = <<>>

\* The keys of every stream are where they were put.
KeysKept == \A a \in Mux!Taps : KeysOf(tap[a], input[a])

\* A stream of the arbitration, where it stands: its attachment was told the
\* grid, and the stream has it unless setPTY is still to hand it on.
StreamOf(t, s, r, g, set) ==
    /\ t.grid = g
    /\ t.at = "publish" /\ g = 0 => s = 0
    /\ t.at = "replay" /\ r = 0 /\ ~set => s = g
    /\ t.at \in {"flush", "write", "copy"} /\ ~set => s = g

\* The grid is the largest that a primary asks for, and the streams have it.
Arbitrated ==
    /\ Mux!LargestGrid(member) > 0 => authority = Mux!LargestGrid(member)
    /\ \A c \in Clients : LET a == member[c].tap IN
        a # 0 => StreamOf(tap[a], screen[a], replay[a], authority, a \in stale)

\* The invariant of the views.
MuxInv == MuxTypes /\ Owned /\ KeysKept /\ Arbitrated

\* A set of grids with a grid in it has a largest one.
LEMMA LargestOf ==
    ASSUME NEW n \in Nat, NEW S \in SUBSET (0..n), S # {}
    PROVE  \E x \in S : \A y \in S : x >= y
<1> DEFINE above == {k \in Nat : \A y \in S : y <= k}
<1>1. n \in above
  OBVIOUS
<1>2. PICK k \in above : \A j \in above : ~(<<j, k>> \in OpToRel(<, Nat))
  BY <1>1, NatLessThanWellFounded, WFMin, Zenon
<1>3. \A j \in above : ~(j < k)
  BY <1>2, Zenon DEF OpToRel
<1>4. ASSUME k \notin S PROVE FALSE
  <2>1. \A y \in S : y <= k - 1 /\ 0 <= y
    BY <1>4
  <2>2. k - 1 \in Nat
    <3>1. PICK y \in S : TRUE
      OBVIOUS
    <3> QED
      BY <3>1, <2>1
  <2>3. k - 1 \in above
    BY <2>1, <2>2
  <2> QED
    BY <2>3, <2>2, <1>3
<1> QED
  BY <1>4

\* The grid the arbitration picks is a grid, and none without members.
LEMMA Largest ==
    ASSUME NEW m \in [Clients -> MemberRecord]
    PROVE  /\ Mux!LargestGrid(m) \in Mux!Grids
           /\ Mux!Members(m) = {} => Mux!LargestGrid(m) = 0
<1> DEFINE sized == {c \in Mux!Members(m) : m[c].grid > 0}
           primary == {c \in sized : m[c].primary}
           wanted == {m[c].grid : c \in IF primary # {} THEN primary ELSE sized} \cup {0}
<1> USE ServicesAssumption
<1>1. wanted \subseteq 0..MaxGrid /\ wanted # {}
  BY DEF Mux!Members, MemberRecord, Mux!Grids
<1>2. \E x \in wanted : \A y \in wanted : x >= y
  BY <1>1, LargestOf
<1>3. Mux!LargestGrid(m) = CHOOSE x \in wanted : \A y \in wanted : x >= y
  BY DEF Mux!LargestGrid, Mux!Max
<1>4. Mux!LargestGrid(m) \in wanted
  BY <1>2, <1>3
<1>5. Mux!Members(m) = {} => wanted = {0}
  BY DEF Mux!Members
<1> QED
  BY <1>1, <1>4, <1>5 DEF Mux!Grids

\* resize records the grid with the listed members, and hands it to their
\* streams that are up; it touches no one else but to forget a loop that is over.
LEMMA ResizedStep ==
    ASSUME MuxTypes, NEW t \in [Mux!Taps -> TapRecord], NEW m \in [Clients -> MemberRecord],
           NEW listed \in SUBSET Mux!Members(m), NEW g \in Mux!Grids,
           Mux!Resized(t, m, listed, g)
    PROVE  /\ tap' \in [Mux!Taps -> TapRecord] /\ screen' \in [Mux!Taps -> Mux!Grids]
           /\ stale' \subseteq Mux!Taps
           /\ \A a \in Mux!Taps :
                /\ tap'[a].owner = t[a].owner /\ tap'[a].at = t[a].at /\ tap'[a].closed = t[a].closed
                /\ (\E c \in listed : m[c].tap = a) =>
                     /\ tap'[a].grid = g
                     /\ Mux!Published(t[a]) => screen'[a] = g
                     /\ ~Mux!Published(t[a]) /\ t[a].at # "over" =>
                          screen'[a] = screen[a] /\ (a \in stale' <=> a \in stale)
                /\ ~(\E c \in listed : m[c].tap = a) =>
                     /\ tap'[a] = t[a]
                     /\ t[a].at # "over" =>
                          screen'[a] = screen[a] /\ (a \in stale' <=> a \in stale)
<1> DEFINE hit == {m[c].tap : c \in listed}
           streams == {a \in hit : Mux!Published(t[a])}
<1>1. /\ tap' = [a \in Mux!Taps |-> IF a \in hit THEN [t[a] EXCEPT !.grid = g] ELSE t[a]]
      /\ screen' = [a \in Mux!Taps |-> IF a \in streams THEN g
                                       ELSE IF t[a] # Mux!NoTap THEN screen[a] ELSE 0]
      /\ stale' = {a \in stale \ streams : t[a] # Mux!NoTap}
  BY DEF Mux!Resized
<1>2. 0 \in Mux!Grids
  BY ServicesAssumption DEF Mux!Grids
<1>3. \A a \in Mux!Taps : t[a].at # "over" => t[a] # Mux!NoTap
  BY DEF Mux!NoTap
<1>4. \A a \in Mux!Taps : (\E c \in listed : m[c].tap = a) <=> a \in hit
  OBVIOUS
<1>5. \A a \in Mux!Taps :
        /\ [t[a] EXCEPT !.grid = g] \in TapRecord
        /\ [t[a] EXCEPT !.grid = g].grid = g /\ [t[a] EXCEPT !.grid = g].at = t[a].at
        /\ [t[a] EXCEPT !.grid = g].owner = t[a].owner /\ [t[a] EXCEPT !.grid = g].closed = t[a].closed
  BY DEF TapRecord
<1>6. tap' \in [Mux!Taps -> TapRecord]
  BY <1>1, <1>5
<1>7. screen' \in [Mux!Taps -> Mux!Grids]
  BY <1>1, <1>2 DEF MuxTypes
<1>8. stale' \subseteq Mux!Taps
  BY <1>1 DEF MuxTypes
<1>9. ASSUME NEW a \in Mux!Taps, a \in hit
      PROVE  /\ tap'[a].owner = t[a].owner /\ tap'[a].at = t[a].at /\ tap'[a].closed = t[a].closed
             /\ tap'[a].grid = g
             /\ Mux!Published(t[a]) => screen'[a] = g
             /\ ~Mux!Published(t[a]) /\ t[a].at # "over" =>
                  screen'[a] = screen[a] /\ (a \in stale' <=> a \in stale)
  BY <1>1, <1>3, <1>5, <1>9
<1>10. ASSUME NEW a \in Mux!Taps, a \notin hit
       PROVE  /\ tap'[a] = t[a]
              /\ t[a].at # "over" => screen'[a] = screen[a] /\ (a \in stale' <=> a \in stale)
  BY <1>1, <1>3, <1>10
<1> QED
  BY <1>4, <1>6, <1>7, <1>8, <1>9, <1>10

\* The arbitration is kept by reconcile: whatever became of the attachments of
\* the clients that leave or join, a stream of those that stay is as it was, or
\* of the new grid.
LEMMA ReconcileStep ==
    ASSUME MuxTypes, NEW t \in [Mux!Taps -> TapRecord], NEW m \in [Clients -> MemberRecord],
           NEW force \in BOOLEAN, NEW joining \in SUBSET Mux!Members(m),
           Mux!Reconcile(t, m, force, joining),
           \A c \in Mux!Members(m) :
                /\ t[m[c].tap].at # "over" /\ ~t[m[c].tap].closed
                /\ \/ StreamOf(t[m[c].tap], screen[m[c].tap], replay'[m[c].tap], authority, m[c].tap \in stale)
                   \/ c \in joining /\ t[m[c].tap].at = "probe" /\ t[m[c].tap].grid = 0
    PROVE  /\ member' = m /\ authority' \in Mux!Grids
           /\ tap' \in [Mux!Taps -> TapRecord] /\ screen' \in [Mux!Taps -> Mux!Grids]
           /\ stale' \subseteq Mux!Taps
           /\ \A a \in Mux!Taps :
                tap'[a].owner = t[a].owner /\ tap'[a].at = t[a].at /\ tap'[a].closed = t[a].closed
           /\ Arbitrated'
<1> USE ServicesAssumption
<1> DEFINE best == Mux!LargestGrid(m)
           act == best > 0 /\ (best # authority \/ force)
           listed == IF act THEN Mux!Members(m) ELSE IF authority > 0 THEN joining ELSE {}
           g == IF act THEN best ELSE authority
<1>1. /\ member' = m
      /\ authority' = IF Mux!Members(m) = {} THEN 0 ELSE IF best > 0 THEN best ELSE authority
      /\ Mux!Resized(t, m, listed, g)
  BY DEF Mux!Reconcile
<1>2. best \in Mux!Grids /\ (Mux!Members(m) = {} => best = 0) /\ 0 \in Mux!Grids
      /\ authority \in Mux!Grids /\ Mux!Grids \subseteq Nat
  BY Largest DEF MuxTypes, Mux!Grids
<1>3. listed \in SUBSET Mux!Members(m) /\ g \in Mux!Grids
  BY <1>2
<1> HIDE DEF listed, g
<1>4. /\ tap' \in [Mux!Taps -> TapRecord] /\ screen' \in [Mux!Taps -> Mux!Grids]
      /\ stale' \subseteq Mux!Taps
      /\ \A a \in Mux!Taps :
                /\ tap'[a].owner = t[a].owner /\ tap'[a].at = t[a].at /\ tap'[a].closed = t[a].closed
                /\ (\E c \in listed : m[c].tap = a) =>
                     /\ tap'[a].grid = g
                     /\ Mux!Published(t[a]) => screen'[a] = g
                     /\ ~Mux!Published(t[a]) /\ t[a].at # "over" =>
                          screen'[a] = screen[a] /\ (a \in stale' <=> a \in stale)
                /\ ~(\E c \in listed : m[c].tap = a) =>
                     /\ tap'[a] = t[a]
                     /\ t[a].at # "over" =>
                          screen'[a] = screen[a] /\ (a \in stale' <=> a \in stale)
  BY <1>1, <1>3, ResizedStep
<1>5. authority' \in Mux!Grids
  BY <1>1, <1>2
<1>6. best > 0 => authority' = best
  BY <1>1, <1>2
<1>7. ASSUME NEW c \in Mux!Members(m)
      PROVE  StreamOf(tap'[m[c].tap], screen'[m[c].tap], replay'[m[c].tap], authority',
                      m[c].tap \in stale')
  <2> DEFINE a == m[c].tap
  <2>1. a \in Mux!Taps /\ t[a].at # "over" /\ ~t[a].closed
    BY DEF Mux!Members, MemberRecord, Mux!Taps
  <2>2. CASE act
    <3>1. c \in listed /\ g = best /\ authority' = best /\ best > 0
      BY <2>2, <1>6 DEF listed, g
    <3>2. tap'[a].grid = authority' /\ authority' # 0 /\ tap'[a].at = t[a].at
      BY <3>1, <2>1, <1>4, <1>2
    <3>3. Mux!Published(t[a]) => screen'[a] = authority'
      BY <3>1, <2>1, <1>4
    <3> QED
      BY <3>2, <3>3, <2>1 DEF StreamOf, Mux!Published
  <2>3. CASE ~act
    <3>1. authority' = authority /\ g = authority
      BY <2>3, <1>1, <1>2 DEF g
    <3>2. CASE \E d \in listed : m[d].tap = a
      <4>1. tap'[a].grid = authority' /\ tap'[a].at = t[a].at
        BY <3>1, <3>2, <2>1, <1>4
      <4>2. Mux!Published(t[a]) => screen'[a] = authority'
        BY <3>1, <3>2, <2>1, <1>4
      <4>3. ~Mux!Published(t[a]) => screen'[a] = screen[a]
        BY <3>2, <2>1, <1>4
      <4> QED
        BY <4>1, <4>2, <4>3, <3>1, <2>1 DEF StreamOf, Mux!Published
    <3>3. CASE ~\E d \in listed : m[d].tap = a
      <4>1. tap'[a] = t[a] /\ screen'[a] = screen[a] /\ (a \in stale' <=> a \in stale)
        BY <3>3, <2>1, <1>4
      <4>2. CASE StreamOf(t[a], screen[a], replay'[a], authority, a \in stale)
        BY <4>1, <4>2, <3>1 DEF StreamOf
      <4>3. CASE c \in joining /\ t[a].at = "probe" /\ t[a].grid = 0
        <5>1. c \notin listed
          BY <3>3
        <5>2. authority = 0
          BY <5>1, <4>3, <2>3, <1>2 DEF listed, Mux!Grids
        <5> QED
          BY <5>2, <4>3, <4>1, <3>1 DEF StreamOf
      <4> QED
        BY <4>2, <4>3
    <3> QED
      BY <3>2, <3>3
  <2> QED
    BY <2>2, <2>3
<1>8. Arbitrated'
  <2>1. ASSUME NEW c \in Clients, m[c].tap # 0
        PROVE  StreamOf(tap'[m[c].tap], screen'[m[c].tap], replay'[m[c].tap], authority',
                        m[c].tap \in stale')
    BY <2>1, <1>7 DEF Mux!Members
  <2>2. Mux!LargestGrid(member') = best /\ member' = m
    BY <1>1
  <2>3. Mux!LargestGrid(member)' = Mux!LargestGrid(member')
    BY DEF Mux!LargestGrid, Mux!Members
  <2> QED
    BY <2>1, <2>2, <2>3, <1>6 DEF Arbitrated
<1> QED
  BY <1>1, <1>4, <1>5, <1>8

\* Keys are handed on in the order of the typing.
LEMMA KeysJoined ==
    \A d, b, p \in Seq(Nat) :
        /\ d \o <<>> \o p = d \o p \o <<>>
        /\ (d \o b) \o <<>> \o p = d \o b \o p
<1> SUFFICES ASSUME NEW d \in Seq(Nat), NEW b \in Seq(Nat), NEW p \in Seq(Nat)
             PROVE  /\ d \o <<>> \o p = d \o p \o <<>>
                    /\ (d \o b) \o <<>> \o p = d \o b \o p
  OBVIOUS
<1>1. d \o b \in Seq(Nat) /\ d \o p \in Seq(Nat)
  BY ConcatProperties
<1>2. d \o <<>> = d /\ (d \o p) \o <<>> = d \o p /\ (d \o b) \o <<>> = d \o b
  BY <1>1, ConcatEmptySeq
<1> QED
  BY <1>2

\* Concatenation associates.
LEMMA SequencesAssociate ==
    ASSUME NEW s \in Seq(Nat), NEW t \in Seq(Nat), NEW u \in Seq(Nat)
    PROVE  (s \o t) \o u = s \o (t \o u)
  BY ConcatAssociative

\* A key that is typed comes last, of what waits or of what was handed on.
LEMMA KeyTyped ==
    \A d, b, p \in Seq(Nat), k \in Nat :
        /\ Append(d \o b \o p, k) = d \o b \o Append(p, k)
        /\ Append(d \o <<>> \o <<>>, k) = Append(d, k) \o <<>> \o <<>>
<1> SUFFICES ASSUME NEW d \in Seq(Nat), NEW b \in Seq(Nat), NEW p \in Seq(Nat), NEW k \in Nat
             PROVE  /\ Append(d \o b \o p, k) = d \o b \o Append(p, k)
                    /\ Append(d \o <<>> \o <<>>, k) = Append(d, k) \o <<>> \o <<>>
  OBVIOUS
<1>1. <<k>> \in Seq(Nat)
  OBVIOUS
<1>2. /\ d \o b \in Seq(Nat) /\ d \o b \o p \in Seq(Nat) /\ Append(d, k) \in Seq(Nat)
  BY ConcatProperties, AppendProperties
<1>3. Append(d \o b \o p, k) = (d \o b \o p) \o <<k>> /\ Append(p, k) = p \o <<k>>
  BY <1>2, AppendIsConcat
<1>4. (d \o b \o p) \o <<k>> = (d \o b) \o (p \o <<k>>)
  <2>1. d \o b \in Seq(Nat) /\ p \in Seq(Nat) /\ <<k>> \in Seq(Nat)
    BY <1>1, <1>2
  <2> QED
    BY <2>1, SequencesAssociate, Zenon
<1>5. d \o <<>> = d /\ Append(d, k) \o <<>> = Append(d, k)
  BY <1>2, ConcatEmptySeq
<1> QED
  BY <1>3, <1>4, <1>5

\* What moving one attachment on does.
LEMMA GoesStep ==
    ASSUME MuxTypes, NEW a \in Mux!Taps, NEW at \in Places, Mux!Goes(a, at)
    PROVE  /\ tap' \in [Mux!Taps -> TapRecord]
           /\ tap'[a].at = at /\ tap'[a].owner = tap[a].owner /\ tap'[a].closed = tap[a].closed
           /\ tap'[a].grid = tap[a].grid
           /\ \A b \in Mux!Taps \ {a} : tap'[b] = tap[b]
  BY DEF MuxTypes, Mux!Goes, TapRecord

\* A step of the loop that keeps who opened what: the rest of the arbitration
\* and the other attachments are as they were.
LEMMA LoopStep ==
    ASSUME MuxInv, NEW a \in Mux!Taps, NEW at \in Places \ {"over"}, Mux!Goes(a, at),
           UNCHANGED <<opened, frames, member, authority, evicted>>,
           screen' \in [Mux!Taps -> Mux!Grids], replay' \in [Mux!Taps -> Mux!Grids],
           input' \in [Mux!Taps -> Keys], stale' \subseteq Mux!Taps,
           \A b \in Mux!Taps \ {a} :
              /\ screen'[b] = screen[b] /\ replay'[b] = replay[b] /\ input'[b] = input[b]
              /\ b \in stale' <=> b \in stale,
           KeysOf(tap'[a], input'[a]),
           ASSUME StreamOf(tap[a], screen[a], replay[a], authority, a \in stale)
           PROVE  StreamOf(tap'[a], screen'[a], replay'[a], authority, a \in stale')
    PROVE  MuxInv'
<1>1. /\ tap' \in [Mux!Taps -> TapRecord]
      /\ tap'[a].at = at /\ tap'[a].owner = tap[a].owner /\ tap'[a].closed = tap[a].closed
      /\ \A b \in Mux!Taps \ {a} : tap'[b] = tap[b]
  BY GoesStep DEF MuxInv
<1>2. MuxTypes'
  BY <1>1 DEF MuxInv, MuxTypes
<1>3. Owned'
  BY <1>1 DEF MuxInv, Owned, MuxTypes, Mux!Taps
<1>4. KeysKept'
  BY <1>1 DEF MuxInv, KeysKept
<1>5. Arbitrated'
  <2>1. Mux!LargestGrid(member)' = Mux!LargestGrid(member)
    BY DEF Mux!LargestGrid, Mux!Members
  <2>2. ASSUME NEW c \in Clients, member[c].tap # 0
        PROVE  StreamOf(tap'[member[c].tap], screen'[member[c].tap], replay'[member[c].tap], authority,
                        member[c].tap \in stale')
    <3>1. member[c].tap \in Mux!Taps
      BY <2>2 DEF MuxInv, MuxTypes, MemberRecord, Mux!Taps
    <3>2. StreamOf(tap[member[c].tap], screen[member[c].tap], replay[member[c].tap], authority,
                   member[c].tap \in stale)
      BY <2>2 DEF MuxInv, Arbitrated
    <3>3. CASE member[c].tap = a
      BY <3>2, <3>3
    <3>4. CASE member[c].tap # a
      BY <3>1, <3>2, <3>4, <1>1 DEF StreamOf
    <3> QED
      BY <3>3, <3>4
  <2> QED
    BY <2>1, <2>2 DEF MuxInv, Arbitrated
<1> QED
  BY <1>2, <1>3, <1>4, <1>5 DEF MuxInv

\* The steps of the loop keep the invariant.
LEMMA LoopSteps ==
    ASSUME MuxInv, NEW a \in Mux!Taps
    PROVE  /\ Mux!Attach(a) => MuxInv'
           /\ Mux!SetPTY(a) => MuxInv'
           /\ Mux!Replay(a) => MuxInv'
           /\ Mux!Flush(a) => MuxInv'
           /\ Mux!StreamEnds(a) => MuxInv'
<1>t. MuxTypes /\ tap[a] \in TapRecord /\ input[a] \in Keys /\ KeysOf(tap[a], input[a])
      /\ replay[a] \in Mux!Grids /\ Mux!Grids \subseteq Nat
  BY DEF MuxInv, MuxTypes, KeysKept, Mux!Grids
<1> USE DEF Mux!viewers
<1>1. ASSUME Mux!Attach(a) PROVE MuxInv'
  <2>1. Mux!At(a, "probe") /\ UNCHANGED <<opened, frames, member, authority, evicted, replay, input>>
    BY <1>1 DEF Mux!Attach
  <2>2. CASE Mux!Goes(a, "publish") /\ screen' = [screen EXCEPT ![a] = tap[a].grid] /\ stale' = stale \ {a}
    <3>1. tap'[a].at = "publish" /\ tap'[a].closed = tap[a].closed /\ tap'[a].grid = tap[a].grid
      BY <2>2, <1>t, GoesStep DEF Places
    <3>2. screen' \in [Mux!Taps -> Mux!Grids] /\ screen'[a] = tap[a].grid
          /\ \A b \in Mux!Taps \ {a} : screen'[b] = screen[b] /\ (b \in stale' <=> b \in stale)
      BY <2>2, <1>t DEF MuxTypes, TapRecord
    <3>3. KeysOf(tap'[a], input'[a])
      BY <3>1, <2>1, <1>t DEF KeysOf, Mux!At
    <3> QED
      BY <2>1, <2>2, <3>1, <3>2, <3>3, <1>t, LoopStep DEF MuxTypes, StreamOf, Places
  <2>3. CASE Mux!Goes(a, "exiting") /\ UNCHANGED <<screen, stale>>
    <3>1. tap'[a].at = "exiting" /\ tap'[a].closed = tap[a].closed /\ tap'[a].grid = tap[a].grid
      BY <2>3, <1>t, GoesStep DEF Places
    <3>2. KeysOf(tap'[a], input'[a])
      BY <3>1, <2>1, <1>t DEF KeysOf, Mux!At
    <3> QED
      BY <2>1, <2>3, <3>1, <3>2, <1>t, LoopStep DEF MuxTypes, StreamOf, Places
  <2> QED
    BY <2>2, <2>3, <1>1 DEF Mux!Attach
<1>2. ASSUME Mux!SetPTY(a) PROVE MuxInv'
  <2>1. Mux!At(a, "publish") /\ Mux!Goes(a, "replay") /\ replay' = [replay EXCEPT ![a] = tap[a].grid]
        /\ UNCHANGED <<opened, frames, member, authority, evicted, screen, input, stale>>
    BY <1>2 DEF Mux!SetPTY
  <2>2. tap'[a].at = "replay" /\ tap'[a].closed = tap[a].closed /\ tap'[a].grid = tap[a].grid
    BY <2>1, <1>t, GoesStep DEF Places
  <2>3. replay' \in [Mux!Taps -> Mux!Grids] /\ replay'[a] = tap[a].grid
        /\ \A b \in Mux!Taps \ {a} : replay'[b] = replay[b]
    BY <2>1, <1>t DEF MuxTypes, TapRecord
  <2>4. KeysOf(tap'[a], input'[a])
    BY <2>1, <2>2, <1>t DEF KeysOf, Mux!At
  <2> QED
    BY <2>1, <2>2, <2>3, <2>4, <1>t, LoopStep DEF MuxTypes, StreamOf, Places, Mux!At
<1>3. ASSUME Mux!Replay(a) PROVE MuxInv'
  <2>1. /\ Mux!At(a, "replay") /\ Mux!Goes(a, "flush") /\ replay' = [replay EXCEPT ![a] = 0]
        /\ UNCHANGED <<opened, frames, member, authority, evicted, input>>
        /\ IF replay[a] = 0
             THEN UNCHANGED <<screen, stale>>
             ELSE /\ screen' = [screen EXCEPT ![a] = replay[a]]
                  /\ stale' = IF replay[a] # tap[a].grid THEN stale \cup {a} ELSE stale
    BY <1>3 DEF Mux!Replay
  <2>2. tap'[a].at = "flush" /\ tap'[a].closed = tap[a].closed /\ tap'[a].grid = tap[a].grid
    BY <2>1, <1>t, GoesStep DEF Places
  <2>3. replay' \in [Mux!Taps -> Mux!Grids] /\ \A b \in Mux!Taps \ {a} : replay'[b] = replay[b]
    BY <2>1, ServicesAssumption, <1>t DEF MuxTypes, Mux!Grids
  <2>4. screen' \in [Mux!Taps -> Mux!Grids] /\ stale' \subseteq Mux!Taps
        /\ \A b \in Mux!Taps \ {a} : screen'[b] = screen[b] /\ (b \in stale' <=> b \in stale)
    BY <2>1, <1>t DEF MuxTypes
  <2>5. KeysOf(tap'[a], input'[a])
    BY <2>1, <2>2, <1>t DEF KeysOf, Mux!At
  <2>6. ASSUME StreamOf(tap[a], screen[a], replay[a], authority, a \in stale)
        PROVE  StreamOf(tap'[a], screen'[a], replay'[a], authority, a \in stale')
    <3>1. tap[a].grid = authority /\ (replay[a] = 0 /\ a \notin stale => screen[a] = authority)
      BY <2>1, <2>6 DEF StreamOf, Mux!At
    <3>2. a \notin stale' => screen'[a] = authority
      BY <3>1, <2>1, <1>t DEF MuxTypes
    <3> QED
      BY <3>1, <3>2, <2>2 DEF StreamOf
  <2> QED
    BY <2>1, <2>2, <2>3, <2>4, <2>5, <2>6, <1>t, LoopStep DEF MuxTypes, Places
<1>4. ASSUME Mux!Flush(a) PROVE MuxInv'
  <2>1. Mux!At(a, "flush")
        /\ UNCHANGED <<opened, frames, member, authority, evicted, screen, replay, stale>>
    BY <1>4 DEF Mux!Flush
  <2>2. CASE input[a].pending = <<>>
    <3>1. Mux!Goes(a, "copy") /\ input' = input
      BY <2>2, <1>4 DEF Mux!Flush
    <3>2. tap'[a].at = "copy" /\ tap'[a].closed = tap[a].closed /\ tap'[a].grid = tap[a].grid
      BY <3>1, <1>t, GoesStep DEF Places
    <3>3. KeysOf(tap'[a], input'[a])
      BY <2>1, <2>2, <3>1, <3>2, <1>t DEF KeysOf, Mux!At
    <3> QED
      BY <2>1, <3>1, <3>2, <3>3, <1>t, LoopStep DEF MuxTypes, StreamOf, Places, Mux!At
  <2>3. CASE input[a].pending # <<>>
    <3>1. /\ Mux!Goes(a, "write")
          /\ input' = [input EXCEPT ![a] = [@ EXCEPT !.batch = input[a].pending, !.pending = <<>>]]
      BY <2>3, <1>4 DEF Mux!Flush
    <3>2. tap'[a].at = "write" /\ tap'[a].closed = tap[a].closed /\ tap'[a].grid = tap[a].grid
      BY <3>1, <1>t, GoesStep DEF Places
    <3>3. /\ input' \in [Mux!Taps -> Keys] /\ \A b \in Mux!Taps \ {a} : input'[b] = input[b]
          /\ input'[a].taken = input[a].taken /\ input'[a].delivered = input[a].delivered
          /\ input'[a].batch = input[a].pending /\ input'[a].pending = <<>>
      <4>1. [input[a] EXCEPT !.batch = input[a].pending, !.pending = <<>>] \in Keys
        BY <1>t, EmptySeq DEF Keys
      <4> QED
        BY <4>1, <3>1, <1>t DEF MuxTypes, Keys
    <3>4. KeysOf(tap'[a], input'[a])
      <4>1. CASE tap[a].closed
        BY <4>1, <2>1, <2>3, <1>t DEF KeysOf, Mux!NoInput, Mux!At
      <4>2. CASE ~tap[a].closed
        <5>1. input[a].taken = input[a].delivered \o <<>> \o input[a].pending
          BY <4>2, <2>1, <1>t DEF KeysOf, Mux!At
        <5>2. input[a].taken = input[a].delivered \o input[a].pending \o <<>>
          <6>1. input[a].delivered \in Seq(Nat) /\ input[a].pending \in Seq(Nat)
            BY <1>t DEF Keys
          <6> QED
            BY <5>1, <6>1, KeysJoined
        <5> QED
          BY <5>2, <4>2, <3>2, <3>3 DEF KeysOf
      <4> QED
        BY <4>1, <4>2
    <3> QED
      BY <2>1, <3>1, <3>2, <3>3, <3>4, <1>t, LoopStep DEF MuxTypes, StreamOf, Places, Mux!At
  <2> QED
    BY <2>2, <2>3
<1>5. ASSUME Mux!StreamEnds(a) PROVE MuxInv'
  <2>1. Mux!At(a, "copy")
        /\ UNCHANGED <<opened, frames, member, authority, evicted, screen, replay, input, stale>>
    BY <1>5 DEF Mux!StreamEnds
  <2>2. PICK at \in {"probe", "exiting"} : Mux!Goes(a, at)
    BY <1>5 DEF Mux!StreamEnds
  <2>3. tap'[a].at = at /\ tap'[a].closed = tap[a].closed /\ tap'[a].grid = tap[a].grid
    BY <2>2, <1>t, GoesStep DEF Places
  <2>4. KeysOf(tap'[a], input'[a])
    BY <2>1, <2>3, <1>t DEF KeysOf, Mux!At
  <2> QED
    BY <2>1, <2>2, <2>3, <2>4, <1>t, LoopStep DEF MuxTypes, StreamOf, Places
<1> QED
  BY <1>1, <1>2, <1>3, <1>4, <1>5

\* No loop is no one's.
LEMMA NoTapStep ==
           /\ Mux!NoTap \in TapRecord /\ Mux!NoTap.at = "over" /\ ~Mux!NoTap.closed
           /\ Mux!NoTap.grid = 0 /\ Mux!NoMember \in MemberRecord /\ Mux!NoMember.tap = 0
           /\ Mux!NoInput \in Keys
<1>1. (CHOOSE c \in Clients : TRUE) \in Clients
  BY ServicesAssumption
<1> QED
  BY <1>1, ServicesAssumption, EmptySeq
  DEF Mux!NoTap, Mux!NoMember, Mux!NoInput, TapRecord, MemberRecord, Keys, Places, Mux!Grids

\* The pending keys are written, or the stream fails; one that was closed
\* meanwhile is over.
LEMMA FlushWritesStep ==
    ASSUME MuxInv, NEW a \in Mux!Taps, Mux!FlushWrites(a)
    PROVE  MuxInv'
<1> USE DEF Mux!viewers
<1>t. MuxTypes /\ tap[a] \in TapRecord /\ input[a] \in Keys /\ KeysOf(tap[a], input[a])
  BY DEF MuxInv, MuxTypes, KeysKept
<1>1. tap[a].at = "write"
      /\ UNCHANGED <<opened, frames, member, authority, screen, replay, stale, evicted>>
  BY DEF Mux!FlushWrites, Mux!At
<1>2. CASE Mux!Goes(a, "exiting") /\ UNCHANGED input
  <2>1. tap'[a].at = "exiting" /\ tap'[a].closed = tap[a].closed /\ tap'[a].grid = tap[a].grid
    BY <1>2, <1>t, GoesStep DEF Places
  <2>2. KeysOf(tap'[a], input'[a])
    BY <2>1, <1>1, <1>2, <1>t DEF KeysOf
  <2> QED
    BY <2>1, <2>2, <1>1, <1>2, <1>t, LoopStep DEF MuxTypes, StreamOf, Places
<1>3. CASE /\ tap' = [tap EXCEPT ![a] = IF @.closed THEN Mux!NoTap ELSE [@ EXCEPT !.at = "flush"]]
           /\ input' = [input EXCEPT ![a].delivered = @ \o input[a].batch, ![a].batch = <<>>]
  <2> DEFINE k == [input[a] EXCEPT !.delivered = @ \o input[a].batch, !.batch = <<>>]
  <2>1. k \in Keys /\ k.taken = input[a].taken /\ k.pending = input[a].pending /\ k.batch = <<>>
        /\ k.delivered = input[a].delivered \o input[a].batch
    BY <1>t, EmptySeq, ConcatProperties DEF Keys
  <2>2. input' \in [Mux!Taps -> Keys] /\ input'[a] = k /\ \A b \in Mux!Taps \ {a} : input'[b] = input[b]
    BY <2>1, <1>3, <1>t DEF MuxTypes
  <2>3. CASE ~tap[a].closed
    <3>1. Mux!Goes(a, "flush")
      BY <1>3, <2>3 DEF Mux!Goes
    <3>2. tap'[a].at = "flush" /\ tap'[a].closed = tap[a].closed /\ tap'[a].grid = tap[a].grid
      BY <3>1, <1>t, GoesStep DEF Places
    <3>3. KeysOf(tap'[a], input'[a])
      <4>1. input[a].taken = input[a].delivered \o input[a].batch \o input[a].pending
        BY <2>3, <1>1, <1>t DEF KeysOf
      <4>2. k.taken = k.delivered \o <<>> \o k.pending
        <5>1. /\ input[a].delivered \in Seq(Nat) /\ input[a].batch \in Seq(Nat)
              /\ input[a].pending \in Seq(Nat)
          BY <1>t DEF Keys
        <5>2. (input[a].delivered \o input[a].batch) \o <<>> \o input[a].pending
              = input[a].delivered \o input[a].batch \o input[a].pending
          BY <5>1, KeysJoined
        <5> HIDE DEF k
        <5> QED
          BY <4>1, <5>2, <2>1
      <4> QED
        BY <4>2, <2>1, <2>2, <2>3, <3>2 DEF KeysOf
    <3> HIDE DEF k
    <3> QED
      BY <3>1, <3>2, <3>3, <2>2, <1>1, <1>t, LoopStep DEF MuxTypes, StreamOf, Places
  <2>4. CASE tap[a].closed
    <3>1. tap' = [tap EXCEPT ![a] = Mux!NoTap]
      BY <1>3, <2>4
    <3>2. tap' \in [Mux!Taps -> TapRecord] /\ tap'[a].at = "over" /\ \A b \in Mux!Taps \ {a} : tap'[b] = tap[b]
      BY <3>1, <1>t, NoTapStep DEF MuxTypes
    <3>3. k = Mux!NoInput
      <4>1. input[a] = Mux!NoInput
        BY <2>4, <1>t DEF KeysOf
      <4> QED
        <5>1. <<>> \o <<>> = <<>>
          BY EmptySeq, ConcatEmptySeq
        <5>2. input[a].delivered = <<>> /\ input[a].batch = <<>>
          BY <4>1 DEF Mux!NoInput
        <5>3. /\ k.taken = <<>> /\ k.pending = <<>> /\ k.batch = <<>> /\ k.delivered = <<>>
              /\ k \in Keys
          BY <4>1, <5>1, <5>2, <2>1 DEF Mux!NoInput
        <5>4. \A x \in Keys :
                x.taken = <<>> /\ x.pending = <<>> /\ x.batch = <<>> /\ x.delivered = <<>>
                  => x = Mux!NoInput
          BY DEF Keys, Mux!NoInput
        <5> HIDE DEF k
        <5> QED
          BY <5>3, <5>4
    <3>4. \A c \in Clients : opened[c] # a /\ member[c].tap # a
      BY <2>4 DEF MuxInv, Owned, MuxTypes, Mux!Taps
    <3>5. Owned'
      BY <3>2, <3>4, <1>1 DEF MuxInv, Owned, MuxTypes, Mux!Taps
    <3>6. KeysKept'
      BY <3>2, <3>3, <2>2 DEF MuxInv, KeysKept, KeysOf
    <3>7. Arbitrated'
      <4>1. Mux!LargestGrid(member)' = Mux!LargestGrid(member)
        BY <1>1 DEF Mux!LargestGrid, Mux!Members
      <4>2. \A c \in Clients : member[c].tap # 0 => tap'[member[c].tap] = tap[member[c].tap]
        BY <3>2, <3>4, <1>t DEF MuxTypes, MemberRecord, Mux!Taps
      <4> QED
        BY <4>1, <4>2, <1>1 DEF MuxInv, Arbitrated, StreamOf
    <3> QED
      BY <3>2, <3>5, <3>6, <3>7, <2>2, <1>1, <1>t DEF MuxInv, MuxTypes
  <2> QED
    BY <2>3, <2>4
<1> QED
  BY <1>2, <1>3 DEF Mux!FlushWrites

\* A key of a client waits for its stream, or is handed to it.
LEMMA WriteKeyStep ==
    ASSUME MuxInv, NEW c \in Clients, Mux!Write(c)
    PROVE  MuxInv'
<1> DEFINE a == opened[c]
           k == Len(input[a].taken) + 1
           ready == tap[a].at = "copy"
           new == [input[a] EXCEPT !.taken = Append(@, k),
                                   !.pending = IF ready THEN @ ELSE Append(@, k),
                                   !.delivered = IF ready THEN Append(@, k) ELSE @]
<1>1. /\ opened[c] # 0 /\ frames < MaxFrames /\ frames' = frames + 1 /\ input' = [input EXCEPT ![a] = new]
      /\ UNCHANGED <<opened, member, authority, tap, screen, replay, stale, evicted>>
  BY DEF Mux!Write, Mux!Frame, Mux!InputReady
<1>2. a \in Mux!Taps /\ tap[a].at # "over" /\ ~tap[a].closed
  BY <1>1 DEF MuxInv, MuxTypes, Owned, Mux!Taps
<1>3. input[a] \in Keys /\ KeysOf(tap[a], input[a])
  BY <1>2 DEF MuxInv, MuxTypes, KeysKept
<1>4. k \in Nat
  BY <1>3, LenProperties DEF Keys
<1>5. frames' \in 0..MaxFrames
  BY <1>1, ServicesAssumption DEF MuxInv, MuxTypes
<1> HIDE DEF k
<1>6. new \in Keys /\ new.batch = input[a].batch /\ new.taken = Append(input[a].taken, k)
      /\ new.pending = (IF ready THEN input[a].pending ELSE Append(input[a].pending, k))
      /\ new.delivered = (IF ready THEN Append(input[a].delivered, k) ELSE input[a].delivered)
  BY <1>3, <1>4, AppendProperties DEF Keys
<1>7. input' \in [Mux!Taps -> Keys] /\ input'[a] = new /\ \A b \in Mux!Taps \ {a} : input'[b] = input[b]
  BY <1>1, <1>2, <1>6 DEF MuxInv, MuxTypes
<1> HIDE DEF new
<1>8. KeysOf(tap[a], new)
  <2>1. input[a].taken = input[a].delivered \o input[a].batch \o input[a].pending
    BY <1>2, <1>3 DEF KeysOf
  <2>2. CASE ready
    <3>1. input[a].batch = <<>> /\ input[a].pending = <<>>
      BY <1>2, <1>3, <2>2 DEF KeysOf
    <3>2. new.taken = new.delivered \o <<>> \o <<>>
      <4>1. input[a].delivered \in Seq(Nat)
        BY <1>3 DEF Keys
      <4>2. Append(input[a].delivered \o <<>> \o <<>>, k)
            = Append(input[a].delivered, k) \o <<>> \o <<>>
        BY <4>1, <1>4, KeyTyped, EmptySeq
      <4> QED
        BY <4>2, <2>1, <3>1, <1>6, <2>2
    <3> QED
      BY <3>1, <3>2, <1>2, <1>6, <2>2 DEF KeysOf
  <2>3. CASE ~ready
    <3>1. new.taken = new.delivered \o new.batch \o new.pending
      <4>1. /\ input[a].delivered \in Seq(Nat) /\ input[a].batch \in Seq(Nat)
            /\ input[a].pending \in Seq(Nat)
        BY <1>3 DEF Keys
      <4>2. Append(input[a].delivered \o input[a].batch \o input[a].pending, k)
            = input[a].delivered \o input[a].batch \o Append(input[a].pending, k)
        BY <4>1, <1>4, KeyTyped
      <4> QED
        BY <4>2, <2>1, <1>6, <2>3
    <3> QED
      BY <3>1, <1>2, <1>3, <1>6, <2>3 DEF KeysOf
  <2> QED
    BY <2>2, <2>3
<1>9. KeysKept'
  BY <1>1, <1>7, <1>8 DEF MuxInv, KeysKept
<1>10. Arbitrated'
  BY <1>1 DEF MuxInv, Arbitrated, StreamOf, Mux!LargestGrid, Mux!Members
<1> QED
  BY <1>1, <1>5, <1>7, <1>9, <1>10 DEF MuxInv, MuxTypes, Owned

\* A client that leaves: the arbitration goes on among the others.
LEMMA LeaveStep ==
    ASSUME MuxInv, NEW c \in Clients, NEW a \in Mux!Taps, tap[a].owner = c,
           NEW t \in [Mux!Taps -> TapRecord], \A b \in Mux!Taps \ {a} : t[b] = tap[b],
           \A b \in Mux!Taps \ {a} : replay'[b] = replay[b],
           Mux!LeaveTerminal(t, c)
    PROVE  /\ member' = [member EXCEPT ![c] = Mux!NoMember] \/ (member' = member /\ member[c].tap = 0)
           /\ member' \in [Clients -> MemberRecord] /\ member'[c].tap = 0
           /\ \A d \in Clients \ {c} : member'[d] = member[d]
           /\ authority' \in Mux!Grids
           /\ tap' \in [Mux!Taps -> TapRecord] /\ screen' \in [Mux!Taps -> Mux!Grids]
           /\ stale' \subseteq Mux!Taps
           /\ \A b \in Mux!Taps :
                tap'[b].owner = t[b].owner /\ tap'[b].at = t[b].at /\ tap'[b].closed = t[b].closed
           /\ Arbitrated'
<1>t. MuxTypes /\ 0 \in Mux!Grids
  BY ServicesAssumption DEF MuxInv, Mux!Grids
<1>1. ASSUME NEW d \in Clients \ {c}, member[d].tap # 0
      PROVE  /\ member[d].tap \in Mux!Taps /\ member[d].tap # a /\ t[member[d].tap] = tap[member[d].tap]
             /\ t[member[d].tap].at # "over" /\ ~t[member[d].tap].closed
             /\ StreamOf(t[member[d].tap], screen[member[d].tap], replay'[member[d].tap], authority,
                         member[d].tap \in stale)
  <2>1. member[d].tap \in Mux!Taps /\ member[d].tap = opened[d]
    BY <1>1 DEF MuxInv, MuxTypes, MemberRecord, Owned, Mux!Taps
  <2>2. tap[opened[d]].owner = d /\ ~tap[opened[d]].closed /\ tap[opened[d]].at # "over"
    BY <1>1, <2>1 DEF MuxInv, Owned
  <2>3. StreamOf(tap[member[d].tap], screen[member[d].tap], replay[member[d].tap], authority,
                 member[d].tap \in stale)
    BY <1>1 DEF MuxInv, Arbitrated
  <2> QED
    BY <2>1, <2>2, <2>3
<1>2. CASE member[c].tap = 0
  <2> DEFINE none == {}
  <2>1. Mux!Resized(t, member, none, 0) /\ member' = member /\ authority' = authority
    BY <1>2 DEF Mux!LeaveTerminal
  <2>2. /\ tap' \in [Mux!Taps -> TapRecord] /\ screen' \in [Mux!Taps -> Mux!Grids]
        /\ stale' \subseteq Mux!Taps
        /\ \A b \in Mux!Taps :
             /\ tap'[b] = t[b]
             /\ t[b].at # "over" => screen'[b] = screen[b] /\ (b \in stale' <=> b \in stale)
    <3>1. none \in SUBSET Mux!Members(member) /\ member \in [Clients -> MemberRecord]
          /\ ~\E d \in none : TRUE
      BY <1>t DEF MuxTypes
    <3> HIDE DEF none
    <3> QED
      BY <3>1, <2>1, <1>t, ResizedStep
  <2>3. Arbitrated'
    <3>1. Mux!LargestGrid(member)' = Mux!LargestGrid(member)
      BY <2>1 DEF Mux!LargestGrid, Mux!Members
    <3>2. ASSUME NEW d \in Clients, member[d].tap # 0
          PROVE  StreamOf(tap'[member[d].tap], screen'[member[d].tap], replay'[member[d].tap],
                          authority, member[d].tap \in stale')
      <4>1. d # c
        BY <3>2, <1>2
      <4> QED
        BY <4>1, <3>2, <1>1, <2>2 DEF StreamOf
    <3> QED
      BY <3>1, <3>2, <2>1 DEF MuxInv, Arbitrated
  <2> QED
    BY <2>1, <2>2, <2>3, <1>2, <1>t DEF MuxTypes
<1>3. CASE member[c].tap # 0
  <2> DEFINE m == [member EXCEPT ![c] = Mux!NoMember]
             none == {}
             never == FALSE
  <2>1. m \in [Clients -> MemberRecord] /\ m[c].tap = 0 /\ \A d \in Clients \ {c} : m[d] = member[d]
    BY <1>t, NoTapStep DEF MuxTypes
  <2>2. Mux!Reconcile(t, m, never, none)
    BY <1>3 DEF Mux!LeaveTerminal
  <2> HIDE DEF m
  <2>3. \A d \in Mux!Members(m) : d # c /\ d \in Clients /\ m[d] = member[d] /\ member[d].tap # 0
    BY <2>1 DEF Mux!Members
  <2>4. \A d \in Mux!Members(m) :
          /\ t[m[d].tap].at # "over" /\ ~t[m[d].tap].closed
          /\ \/ StreamOf(t[m[d].tap], screen[m[d].tap], replay'[m[d].tap], authority, m[d].tap \in stale)
             \/ d \in none /\ t[m[d].tap].at = "probe" /\ t[m[d].tap].grid = 0
    BY <2>3, <1>1
  <2>5. none \in SUBSET Mux!Members(m) /\ never \in BOOLEAN
    OBVIOUS
  <2> HIDE DEF none, never
  <2>6. /\ member' = m /\ authority' \in Mux!Grids
        /\ tap' \in [Mux!Taps -> TapRecord] /\ screen' \in [Mux!Taps -> Mux!Grids]
        /\ stale' \subseteq Mux!Taps
        /\ \A b \in Mux!Taps :
             tap'[b].owner = t[b].owner /\ tap'[b].at = t[b].at /\ tap'[b].closed = t[b].closed
        /\ Arbitrated'
    BY <2>1, <2>2, <2>4, <2>5, <1>t, ReconcileStep
  <2> QED
    BY <2>1, <2>6 DEF m
<1> QED
  BY <1>2, <1>3

\* A client closes its attachment.
LEMMA CloseStep ==
    ASSUME MuxInv, NEW c \in Clients, Mux!CloseTerminal(c)
    PROVE  MuxInv'
<1> DEFINE a == opened[c]
           t == Mux!Detached(a)
<1>t. MuxTypes /\ 0 \in Mux!Grids
  BY ServicesAssumption DEF MuxInv, Mux!Grids
<1>1. /\ a # 0 /\ opened' = [opened EXCEPT ![c] = 0] /\ evicted' = evicted \ {c}
      /\ Mux!LeaveTerminal(t, c) /\ input' = [input EXCEPT ![a] = Mux!NoInput]
      /\ replay' = [replay EXCEPT ![a] = 0] /\ frames' = frames
  BY DEF Mux!CloseTerminal
<1>2. a \in Mux!Taps /\ tap[a].owner = c /\ \A d \in Clients \ {c} : opened[d] # a
  BY <1>1 DEF MuxInv, MuxTypes, Owned, Mux!Taps
<1>3. /\ t \in [Mux!Taps -> TapRecord] /\ (t[a].closed \/ t[a].at = "over")
      /\ \A b \in Mux!Taps \ {a} : t[b] = tap[b]
  BY <1>2, <1>t, NoTapStep DEF MuxTypes, Mux!Detached, TapRecord
<1>4. /\ input' \in [Mux!Taps -> Keys] /\ input'[a] = Mux!NoInput
      /\ \A b \in Mux!Taps \ {a} : input'[b] = input[b]
      /\ replay' \in [Mux!Taps -> Mux!Grids] /\ \A b \in Mux!Taps \ {a} : replay'[b] = replay[b]
  BY <1>1, <1>2, <1>t, NoTapStep DEF MuxTypes
<1> HIDE DEF t
<1>5. /\ member' \in [Clients -> MemberRecord] /\ member'[c].tap = 0
      /\ \A d \in Clients \ {c} : member'[d] = member[d]
      /\ authority' \in Mux!Grids
      /\ tap' \in [Mux!Taps -> TapRecord] /\ screen' \in [Mux!Taps -> Mux!Grids]
      /\ stale' \subseteq Mux!Taps
      /\ \A b \in Mux!Taps :
           tap'[b].owner = t[b].owner /\ tap'[b].at = t[b].at /\ tap'[b].closed = t[b].closed
      /\ Arbitrated'
  BY <1>1, <1>2, <1>3, <1>4, LeaveStep
<1>6. /\ opened' \in [Clients -> 0..MaxTaps] /\ opened'[c] = 0
      /\ \A d \in Clients \ {c} : opened'[d] = opened[d]
      /\ evicted' \subseteq Clients
  BY <1>1, <1>t, ServicesAssumption DEF MuxTypes
<1>7. Owned'
  <2>1. ASSUME NEW d \in Clients \ {c}, opened[d] # 0
        PROVE  /\ tap'[opened[d]].owner = d /\ ~tap'[opened[d]].closed /\ tap'[opened[d]].at # "over"
    <3>1. opened[d] \in Mux!Taps \ {a} /\ tap[opened[d]].owner = d /\ ~tap[opened[d]].closed
          /\ tap[opened[d]].at # "over"
      BY <2>1, <1>2 DEF MuxInv, MuxTypes, Owned, Mux!Taps
    <3> QED
      BY <3>1, <1>3, <1>5
  <2> QED
    BY <2>1, <1>1, <1>5, <1>6 DEF MuxInv, Owned
<1>8. KeysKept'
  <2>1. ASSUME NEW b \in Mux!Taps PROVE KeysOf(tap'[b], input'[b])
    <3>1. CASE b = a
      BY <3>1, <1>3, <1>4, <1>5 DEF KeysOf
    <3>2. CASE b # a
      <4>1. KeysOf(tap[b], input[b])
        BY DEF MuxInv, KeysKept
      <4>2. tap'[b].at = tap[b].at /\ tap'[b].closed = tap[b].closed /\ input'[b] = input[b]
        BY <3>2, <1>3, <1>4, <1>5
      <4> QED
        BY <4>1, <4>2 DEF KeysOf
    <3> QED
      BY <3>1, <3>2
  <2> QED
    BY <2>1 DEF KeysKept
<1> QED
  BY <1>1, <1>4, <1>5, <1>6, <1>7, <1>8, <1>t DEF MuxInv, MuxTypes

\* The loop of an attachment reports its end.
LEMMA ExitedStep ==
    ASSUME MuxInv, NEW a \in Mux!Taps, Mux!MarkExited(a)
    PROVE  MuxInv'
<1> DEFINE c == tap[a].owner
           t == [tap EXCEPT ![a] = Mux!NoTap]
<1>t. MuxTypes /\ c \in Clients
  BY DEF MuxInv, MuxTypes, TapRecord
<1>1. /\ opened' = [opened EXCEPT ![c] = IF opened[c] = a THEN 0 ELSE opened[c]]
      /\ Mux!LeaveTerminal(t, c) /\ input' = [input EXCEPT ![a] = Mux!NoInput]
      /\ evicted' = (IF member[c].tap \notin {0, a} THEN evicted \cup {c} ELSE evicted)
      /\ replay' = replay /\ frames' = frames
  BY DEF Mux!MarkExited
<1>2. \A d \in Clients \ {c} : opened[d] # a
  BY DEF MuxInv, Owned, Mux!Taps
<1>3. /\ t \in [Mux!Taps -> TapRecord] /\ t[a].at = "over" /\ \A b \in Mux!Taps \ {a} : t[b] = tap[b]
  BY <1>t, NoTapStep DEF MuxTypes
<1>4. /\ input' \in [Mux!Taps -> Keys] /\ input'[a] = Mux!NoInput
      /\ \A b \in Mux!Taps \ {a} : input'[b] = input[b]
  BY <1>1, <1>t, NoTapStep DEF MuxTypes
<1> HIDE DEF t
<1>5. /\ member' \in [Clients -> MemberRecord] /\ member'[c].tap = 0
      /\ \A d \in Clients \ {c} : member'[d] = member[d]
      /\ authority' \in Mux!Grids
      /\ tap' \in [Mux!Taps -> TapRecord] /\ screen' \in [Mux!Taps -> Mux!Grids]
      /\ stale' \subseteq Mux!Taps
      /\ \A b \in Mux!Taps :
           tap'[b].owner = t[b].owner /\ tap'[b].at = t[b].at /\ tap'[b].closed = t[b].closed
      /\ Arbitrated'
  BY <1>1, <1>3, <1>t, LeaveStep
<1>6. /\ opened' \in [Clients -> 0..MaxTaps] /\ opened'[c] = (IF opened[c] = a THEN 0 ELSE opened[c])
      /\ \A d \in Clients \ {c} : opened'[d] = opened[d]
      /\ evicted' \subseteq Clients
  BY <1>1, <1>t, ServicesAssumption DEF MuxTypes
<1>7. Owned'
  <2>1. ASSUME NEW d \in Clients, opened'[d] # 0
        PROVE  /\ tap'[opened'[d]].owner = d /\ ~tap'[opened'[d]].closed /\ tap'[opened'[d]].at # "over"
    <3>1. opened'[d] = opened[d] /\ opened[d] \in Mux!Taps \ {a}
      BY <2>1, <1>2, <1>6, <1>t DEF MuxTypes, Mux!Taps
    <3>2. tap[opened[d]].owner = d /\ ~tap[opened[d]].closed /\ tap[opened[d]].at # "over"
      BY <2>1, <3>1 DEF MuxInv, Owned
    <3> QED
      BY <3>1, <3>2, <1>3, <1>5
  <2>2. c \notin evicted' => opened'[c] = 0
    BY <1>1, <1>6, <1>t DEF MuxInv, Owned
  <2>3. \A d \in Clients \ {c} : /\ member'[d].tap \in {0, opened'[d]}
                                 /\ d \notin evicted' => member'[d].tap = opened'[d]
    BY <1>1, <1>5, <1>6 DEF MuxInv, Owned
  <2> QED
    BY <2>1, <2>2, <2>3, <1>5 DEF Owned
<1>8. KeysKept'
  <2>1. ASSUME NEW b \in Mux!Taps PROVE KeysOf(tap'[b], input'[b])
    <3>1. CASE b = a
      BY <3>1, <1>3, <1>4, <1>5 DEF KeysOf
    <3>2. CASE b # a
      <4>1. KeysOf(tap[b], input[b])
        BY DEF MuxInv, KeysKept
      <4>2. tap'[b].at = tap[b].at /\ tap'[b].closed = tap[b].closed /\ input'[b] = input[b]
        BY <3>2, <1>3, <1>4, <1>5
      <4> QED
        BY <4>1, <4>2 DEF KeysOf
    <3> QED
      BY <3>1, <3>2
  <2> QED
    BY <2>1 DEF KeysKept
<1> QED
  BY <1>1, <1>4, <1>5, <1>6, <1>7, <1>8, <1>t DEF MuxInv, MuxTypes

\* A client opens the terminal: its attachment is the first that is free.
LEMMA OpenStep ==
    ASSUME MuxInv, NEW c \in Clients, NEW g \in Mux!Grids, NEW primary \in BOOLEAN,
           Mux!OpenTerminal(c, g, primary)
    PROVE  MuxInv'
<1>t. MuxTypes
  BY DEF MuxInv
<1> DEFINE fresh(a) == [Mux!NoTap EXCEPT !.owner = c, !.at = "probe"]
           joined(a) == [tap |-> a, grid |-> g, primary |-> primary]
           T(a) == [tap EXCEPT ![a] = fresh(a)]
           M(a) == [member EXCEPT ![c] = joined(a)]
           never == FALSE
<1>1. PICK a \in Mux!Taps :
        /\ tap[a].at = "over" /\ opened' = [opened EXCEPT ![c] = a]
        /\ Mux!Reconcile(T(a), M(a), never, {c})
  BY DEF Mux!OpenTerminal, Mux!At
<1>2. /\ opened[c] = 0 /\ frames' \in 0..MaxFrames /\ evicted' = evicted \ {c}
      /\ UNCHANGED <<replay, input>>
  BY <1>t, ServicesAssumption DEF Mux!OpenTerminal, Mux!Frame, MuxTypes
<1> DEFINE t == T(a)
           m == M(a)
<1>3. /\ t \in [Mux!Taps -> TapRecord] /\ t[a].owner = c /\ t[a].at = "probe" /\ ~t[a].closed
      /\ t[a].grid = 0 /\ \A b \in Mux!Taps \ {a} : t[b] = tap[b]
  <2>1. fresh(a) \in TapRecord /\ fresh(a).owner = c /\ fresh(a).at = "probe" /\ ~fresh(a).closed
        /\ fresh(a).grid = 0
    BY NoTapStep, <1>t DEF TapRecord, Places
  <2> QED
    BY <2>1, <1>t DEF MuxTypes
<1>4. /\ m \in [Clients -> MemberRecord] /\ m[c].tap = a
      /\ \A d \in Clients \ {c} : m[d] = member[d]
  <2>1. joined(a) \in MemberRecord /\ joined(a).tap = a
    BY DEF MemberRecord, Mux!Taps
  <2> QED
    BY <2>1, <1>t DEF MuxTypes
<1>5. a # 0 /\ a \in 0..MaxTaps
  BY DEF Mux!Taps
<1> HIDE DEF T, M, t, m
<1>6. Mux!Reconcile(t, m, never, {c})
  BY <1>1 DEF t, m
<1>7. \A d \in Clients \ {c} : opened[d] # 0 =>
        /\ opened[d] \in Mux!Taps \ {a} /\ tap[opened[d]].owner = d /\ ~tap[opened[d]].closed
        /\ tap[opened[d]].at # "over" /\ t[opened[d]] = tap[opened[d]]
  BY <1>1, <1>3 DEF MuxInv, MuxTypes, Owned, Mux!Taps
<1>8. \A d \in Mux!Members(m) :
        /\ t[m[d].tap].at # "over" /\ ~t[m[d].tap].closed
        /\ \/ StreamOf(t[m[d].tap], screen[m[d].tap], replay'[m[d].tap], authority, m[d].tap \in stale)
           \/ d \in {c} /\ t[m[d].tap].at = "probe" /\ t[m[d].tap].grid = 0
  <2>1. ASSUME NEW d \in Mux!Members(m), d # c
        PROVE  /\ t[m[d].tap].at # "over" /\ ~t[m[d].tap].closed
               /\ StreamOf(t[m[d].tap], screen[m[d].tap], replay'[m[d].tap], authority, m[d].tap \in stale)
    <3>1. d \in Clients /\ m[d] = member[d] /\ member[d].tap # 0 /\ member[d].tap = opened[d]
      BY <2>1, <1>4 DEF Mux!Members, MuxInv, Owned
    <3>2. StreamOf(tap[member[d].tap], screen[member[d].tap], replay[member[d].tap], authority,
                   member[d].tap \in stale)
      BY <3>1 DEF MuxInv, Arbitrated
    <3> QED
      BY <3>1, <3>2, <2>1, <1>2, <1>7
  <2> QED
    BY <2>1, <1>3, <1>4
<1>9. {c} \in SUBSET Mux!Members(m) /\ never \in BOOLEAN
  BY <1>4, <1>5 DEF Mux!Members
<1> HIDE DEF never
<1>10. /\ member' = m /\ authority' \in Mux!Grids
       /\ tap' \in [Mux!Taps -> TapRecord] /\ screen' \in [Mux!Taps -> Mux!Grids]
       /\ stale' \subseteq Mux!Taps
       /\ \A b \in Mux!Taps :
            tap'[b].owner = t[b].owner /\ tap'[b].at = t[b].at /\ tap'[b].closed = t[b].closed
       /\ Arbitrated'
  BY <1>3, <1>4, <1>6, <1>8, <1>9, <1>t, ReconcileStep
<1>11. /\ opened' \in [Clients -> 0..MaxTaps] /\ opened'[c] = a
       /\ \A d \in Clients \ {c} : opened'[d] = opened[d]
       /\ evicted' \subseteq Clients
  BY <1>1, <1>2, <1>5, <1>t DEF MuxTypes
<1>12. Owned'
  <2>1. \A d \in Clients \ {c} : opened[d] # 0 =>
          /\ tap'[opened[d]].owner = d /\ ~tap'[opened[d]].closed /\ tap'[opened[d]].at # "over"
    BY <1>7, <1>10
  <2>2. tap'[a].owner = c /\ ~tap'[a].closed /\ tap'[a].at = "probe"
    BY <1>3, <1>10
  <2>3. \A d \in Clients \ {c} : /\ member'[d].tap \in {0, opened'[d]}
                                 /\ d \notin evicted' => member'[d].tap = opened'[d]
    BY <1>2, <1>4, <1>10, <1>11 DEF MuxInv, Owned
  <2> QED
    BY <2>1, <2>2, <2>3, <1>4, <1>10, <1>11 DEF Owned
<1>13. KeysKept'
  <2>1. ASSUME NEW b \in Mux!Taps PROVE KeysOf(tap'[b], input[b])
    <3>1. KeysOf(tap[b], input[b])
      BY DEF MuxInv, KeysKept
    <3>2. CASE b = a
      <4>1. input[a] = Mux!NoInput
        BY <3>1, <3>2, <1>1 DEF KeysOf
      <4>2. <<>> \o <<>> \o <<>> = <<>>
        BY EmptySeq, ConcatEmptySeq
      <4>3. tap'[a].at = "probe"
        BY <1>3, <1>10
      <4> QED
        BY <3>2, <4>1, <4>2, <4>3, <1>3, <1>10 DEF KeysOf, Mux!NoInput
    <3>3. CASE b # a
      <4>1. tap'[b].at = tap[b].at /\ tap'[b].closed = tap[b].closed
        BY <3>3, <1>3, <1>10
      <4> QED
        BY <3>1, <4>1 DEF KeysOf
    <3> QED
      BY <3>2, <3>3
  <2> QED
    BY <2>1, <1>2 DEF KeysKept
<1> QED
  BY <1>2, <1>4, <1>10, <1>11, <1>12, <1>13, <1>t DEF MuxInv, MuxTypes

\* A client of the arbitration reports its size.
LEMMA SizeStep ==
    ASSUME MuxInv, NEW c \in Clients, NEW g \in Mux!Grids, NEW force \in BOOLEAN,
           Mux!UpdateTerminalSize(c, g, force)
    PROVE  MuxInv'
<1>t. MuxTypes
  BY DEF MuxInv
<1> DEFINE m == [member EXCEPT ![c].grid = g]
           none == {}
<1>1. /\ frames' \in 0..MaxFrames /\ UNCHANGED <<opened, replay, input, evicted>>
      /\ Mux!Reconcile(tap, m, force, none)
  BY <1>t, ServicesAssumption DEF Mux!UpdateTerminalSize, Mux!Frame, MuxTypes
<1>2. /\ m \in [Clients -> MemberRecord]
      /\ \A d \in Clients : m[d].tap = member[d].tap
  BY <1>t DEF MuxTypes, MemberRecord
<1> HIDE DEF m
<1>3. \A d \in Mux!Members(m) :
        /\ tap[m[d].tap].at # "over" /\ ~tap[m[d].tap].closed
        /\ \/ StreamOf(tap[m[d].tap], screen[m[d].tap], replay'[m[d].tap], authority, m[d].tap \in stale)
           \/ d \in none /\ tap[m[d].tap].at = "probe" /\ tap[m[d].tap].grid = 0
  <2>1. ASSUME NEW d \in Mux!Members(m)
        PROVE  /\ tap[m[d].tap].at # "over" /\ ~tap[m[d].tap].closed
               /\ StreamOf(tap[m[d].tap], screen[m[d].tap], replay'[m[d].tap], authority, m[d].tap \in stale)
    <3>1. d \in Clients /\ m[d].tap = member[d].tap /\ member[d].tap # 0 /\ member[d].tap = opened[d]
      BY <1>2 DEF Mux!Members, MuxInv, Owned
    <3>2. StreamOf(tap[member[d].tap], screen[member[d].tap], replay[member[d].tap], authority,
                   member[d].tap \in stale)
      BY <3>1 DEF MuxInv, Arbitrated
    <3>3. ~tap[opened[d]].closed /\ tap[opened[d]].at # "over"
      BY <3>1 DEF MuxInv, Owned
    <3> QED
      BY <3>1, <3>2, <3>3, <1>1
  <2> QED
    BY <2>1
<1>4. none \in SUBSET Mux!Members(m) /\ tap \in [Mux!Taps -> TapRecord]
  BY <1>t DEF MuxTypes
<1> HIDE DEF none
<1>5. /\ member' = m /\ authority' \in Mux!Grids
      /\ tap' \in [Mux!Taps -> TapRecord] /\ screen' \in [Mux!Taps -> Mux!Grids]
      /\ stale' \subseteq Mux!Taps
      /\ \A b \in Mux!Taps :
           tap'[b].owner = tap[b].owner /\ tap'[b].at = tap[b].at /\ tap'[b].closed = tap[b].closed
      /\ Arbitrated'
  BY <1>1, <1>2, <1>3, <1>4, <1>t, ReconcileStep
<1>6. Owned'
  <2>1. \A d \in Clients : opened[d] # 0 => opened[d] \in Mux!Taps
    BY <1>t DEF MuxTypes, Mux!Taps
  <2> QED
    BY <2>1, <1>1, <1>2, <1>5 DEF MuxInv, Owned
<1>7. KeysKept'
  BY <1>1, <1>5 DEF MuxInv, KeysKept, KeysOf
<1> QED
  BY <1>1, <1>2, <1>5, <1>6, <1>7, <1>t DEF MuxInv, MuxTypes

\* Every step of the views keeps the invariant.
LEMMA MuxStep == MuxInv /\ [Mux!MuxNext]_muxVars => MuxInv'
<1> SUFFICES ASSUME MuxInv, [Mux!MuxNext]_muxVars PROVE MuxInv'
  OBVIOUS
<1>1. CASE UNCHANGED muxVars
  <2>1. /\ opened' = opened /\ frames' = frames /\ member' = member /\ authority' = authority
        /\ tap' = tap /\ screen' = screen /\ replay' = replay /\ input' = input
        /\ stale' = stale /\ evicted' = evicted
    BY <1>1 DEF muxVars
  <2>2. MuxTypes'
    BY <2>1 DEF MuxInv, MuxTypes
  <2>3. Owned'
    BY <2>1 DEF MuxInv, Owned
  <2>4. KeysKept'
    BY <2>1 DEF MuxInv, KeysKept, KeysOf
  <2>5. Arbitrated'
    <3>1. Mux!LargestGrid(member)' = Mux!LargestGrid(member)
      BY <2>1
    <3> QED
      BY <2>1, <3>1 DEF MuxInv, Arbitrated, StreamOf
  <2> QED
    BY <2>2, <2>3, <2>4, <2>5 DEF MuxInv
<1>2. ASSUME NEW c \in Clients, NEW g \in Mux!Grids, NEW b \in BOOLEAN,
             Mux!OpenTerminal(c, g, b) \/ Mux!UpdateTerminalSize(c, g, b)
      PROVE  MuxInv'
  BY <1>2, OpenStep, SizeStep
<1>3. ASSUME NEW c \in Clients, Mux!CloseTerminal(c) \/ Mux!Write(c) PROVE MuxInv'
  BY <1>3, CloseStep, WriteKeyStep
<1>4. ASSUME NEW a \in Mux!Taps,
             \/ Mux!Attach(a) \/ Mux!SetPTY(a) \/ Mux!Replay(a) \/ Mux!Flush(a)
             \/ Mux!FlushWrites(a) \/ Mux!StreamEnds(a) \/ Mux!MarkExited(a)
      PROVE  MuxInv'
  BY <1>4, LoopSteps, FlushWritesStep, ExitedStep
<1> QED
  BY <1>1, <1>2, <1>3, <1>4 DEF Mux!MuxNext

\* The views begin in the invariant.
LEMMA MuxBegins == ServicesInit => MuxInv
<1> SUFFICES ASSUME ServicesInit PROVE MuxInv
  OBVIOUS
<1>1. /\ opened = [c \in Clients |-> 0] /\ frames = 0
      /\ member = [c \in Clients |-> Mux!NoMember] /\ authority = 0
      /\ tap = [a \in Mux!Taps |-> Mux!NoTap] /\ screen = [a \in Mux!Taps |-> 0]
      /\ replay = [a \in Mux!Taps |-> 0] /\ input = [a \in Mux!Taps |-> Mux!NoInput]
      /\ stale = {} /\ evicted = {}
  BY DEF ServicesInit, Mux!MuxInit
<1>2. /\ Mux!NoTap \in TapRecord /\ Mux!NoTap.at = "over" /\ Mux!NoMember \in MemberRecord
      /\ Mux!NoMember.tap = 0 /\ Mux!NoInput \in Keys
  BY NoTapStep
<1>3. MuxTypes
  BY <1>1, <1>2, ServicesAssumption DEF MuxTypes, Mux!Grids
<1>4. Owned /\ KeysKept
  BY <1>1, <1>2 DEF Owned, KeysKept, KeysOf
<1>5. Arbitrated
  <2>1. Mux!Members(member) = {} /\ member \in [Clients -> MemberRecord]
    BY <1>1, <1>2 DEF Mux!Members
  <2> QED
    BY <2>1, <1>1, <1>2, Largest DEF Arbitrated
<1> QED
  BY <1>3, <1>4, <1>5 DEF MuxInv

\* The invariant of the views holds throughout: the other parts leave them be.
LEMMA MuxInvariant == Services => []MuxInv
<1>1. [ServicesNext]_services => [Mux!MuxNext]_muxVars
  BY DEF ServicesNext, services, desktopVars, muxVars, Notifications, ShellTerminals, Launches,
         ChangeFeed, Nudging, Merging, Previews, BrowserCommands, TerminalViews
<1> QED
  BY <1>1, MuxBegins, MuxStep, PTL DEF Services

\* The keys of a client reach its streams in the order it typed them, each once,
\* for any number of clients, attachments and frames.
THEOREM KeysArriveInOrder == Services => []KeysInOrder
<1>1. MuxInv => KeysInOrder
  BY DEF MuxInv, KeysKept, KeysOf, KeysInOrder, Mux!KeysInOrder, Mux!At
<1> QED
  BY <1>1, MuxInvariant, PTL

\* The open attachments take part in the arbitration, the grid is the largest
\* that a primary asks for, and the streams that are up have it, but for the two
\* named races; for any number of clients and grids.
THEOREM OneGrid == Services => []GridArbitrated
<1>1. MuxInv => GridArbitrated
  <2> SUFFICES ASSUME MuxInv PROVE GridArbitrated
    OBVIOUS
  <2>1. \A c \in Clients \ evicted : opened[c] = member[c].tap
    BY DEF MuxInv, Owned
  <2>2. ASSUME NEW c \in Mux!Members(member)
        PROVE  LET a == member[c].tap IN
               /\ tap[a].grid = authority
               /\ tap[a].at \in {"flush", "write", "copy"} /\ a \notin stale => screen[a] = authority
    BY DEF MuxInv, Arbitrated, StreamOf, Mux!Members
  <2>3. Mux!LargestGrid(member) > 0 => authority = Mux!LargestGrid(member)
    BY DEF MuxInv, Arbitrated
  <2> QED
    BY <2>1, <2>2, <2>3 DEF GridArbitrated, Mux!GridArbitrated
<1> QED
  BY <1>1, MuxInvariant, PTL

-----------------------------------------------------------------------------
(* The browser commands                                                    *)

\* A frame of a connection.
Frame == [type : {"command", "cancel", "torn"}, of : Requests]

\* Every value of the browser commands has its type.
BrokerTypes ==
    /\ request \in [Requests -> {"idle", "gate", "wait", "leave", "over"}]
    /\ target \in [Requests -> 0..MaxSockets] /\ link \in 0..MaxSockets
    /\ reading \subseteq Browser!Sockets /\ awaited \subseteq Requests /\ answered \subseteq Requests
    /\ socket \in [Browser!Sockets -> {"none", "hello", "open", "left", "dropped", "closed"}]
    /\ outgoing \in [Browser!Sockets -> Seq(Frame)]
    /\ replies \in [Browser!Sockets -> SUBSET Requests]
    /\ command \in [Requests -> {"none", "queued", "running", "over"}]
    /\ aborted \subseteq Requests /\ garbled \subseteq Requests /\ cuts \in 0..MaxCuts

\* A caller is pending on the current connection until it is answered or gone,
\* and a connection that both sides hold is the current one.
Awaited ==
    /\ \A r \in Requests :
        /\ request[r] \in {"gate", "wait", "leave"} => target[r] # 0
        /\ r \in awaited => request[r] \in {"gate", "wait"} /\ target[r] = link /\ r \notin answered
        /\ request[r] \in {"gate", "wait"} => r \in awaited \/ r \in answered
        /\ r \in answered => request[r] # "idle" /\ target[r] # 0
        /\ target[r] # 0 => socket[target[r]] \notin {"none", "hello"}
    /\ link # 0 => socket[link] \notin {"none", "hello"}
    /\ \A k \in Browser!Sockets : socket[k] = "open" => link = k

\* The frames that are on their way: a command that is has not been seen by the
\* runtime, its caller has sent it, and no other frame of the caller that can be
\* read is ahead of it; a cancel is the last word of its caller.
InOrderOf(s, k) ==
    /\ \A i \in 1..Len(s) :
        /\ s[i].type # "torn" => target[s[i].of] = k
        /\ s[i].type = "command" =>
             command[s[i].of] = "none" /\ request[s[i].of] \in {"wait", "leave", "over"}
        /\ s[i].type = "cancel" => request[s[i].of] = "over"
    /\ \A i, j \in 1..Len(s) :
        i < j /\ s[j].type = "command" /\ s[i].of = s[j].of => s[i].type = "torn"

\* The frames of every connection are in order.
FramesInOrder == \A k \in Browser!Sockets : InOrderOf(outgoing[k], k)

\* What the runtime did: nothing for a caller that has not sent, an end where
\* there is an answer; and it gives a command up only for its caller or with
\* its connection.
Working ==
    /\ \A r \in Requests :
        /\ request[r] \in {"idle", "gate"} => command[r] = "none"
        /\ command[r] # "none" => target[r] # 0
        /\ r \in aborted => /\ command[r] # "none"
                            /\ request[r] = "over" \/ socket[target[r]] # "open"
        /\ r \in answered => socket[target[r]] # "open" \/ command[r] = "over"
    /\ \A k \in Browser!Sockets : \A r \in replies[k] : target[r] = k /\ command[r] = "over"

\* Neither end is left behind.
Kept(r) == socket[target[r]] # "open" \/ r \in garbled
NotLeft ==
    \A r \in Requests :
        /\ request[r] = "wait" /\ r \notin answered =>
             \/ Kept(r) \/ Browser!OnItsWay(r, "command") \/ Browser!Works(r)
             \/ r \in replies[target[r]]
        /\ request[r] = "over" /\ (Browser!Works(r) \/ Browser!OnItsWay(r, "command")) =>
             Kept(r) \/ Browser!OnItsWay(r, "cancel")

\* The invariant of the browser commands.
BrokerInv == BrokerTypes /\ Awaited /\ FramesInOrder /\ Working /\ NotLeft

\* A frame is on its way if it is somewhere among the ones of its connection.
LEMMA WayOfFrames ==
    ASSUME BrokerTypes
    PROVE  \A r \in Requests, type \in {"command", "cancel"} :
             Browser!OnItsWay(r, type) <=>
               /\ target[r] # 0
               /\ \E i \in 1..Len(outgoing[target[r]]) :
                    outgoing[target[r]][i].type = type /\ outgoing[target[r]][i].of = r
<1> SUFFICES ASSUME NEW r \in Requests, NEW type \in {"command", "cancel"}, target[r] # 0
             PROVE  Browser!OnItsWay(r, type) <=>
                      \E i \in 1..Len(outgoing[target[r]]) :
                        outgoing[target[r]][i].type = type /\ outgoing[target[r]][i].of = r
  BY DEF Browser!OnItsWay
<1> DEFINE s == outgoing[target[r]]
<1>1. s \in Seq(Frame) /\ DOMAIN s = 1..Len(s)
  BY DEF BrokerTypes, Browser!Sockets
<1> HIDE DEF s
<1>2. ASSUME NEW i \in 1..Len(s)
      PROVE  s[i] = [type |-> type, of |-> r] <=> s[i].type = type /\ s[i].of = r
  <2>1. s[i] \in Frame
    BY <1>1, <1>2
  <2> QED
    BY <2>1 DEF Frame
<1>3. [type |-> type, of |-> r] \in Browser!ToSet(s) <=>
        \E i \in 1..Len(s) : s[i] = [type |-> type, of |-> r]
  BY <1>1 DEF Browser!ToSet
<1> QED
  BY <1>2, <1>3 DEF Browser!OnItsWay, s

\* Nothing is sent or read: what is on its way stays so, and in order.
LEMMA SameFrames ==
    ASSUME FramesInOrder, UNCHANGED <<outgoing, target>>,
           \A q \in Requests :
             /\ command[q] = "none" => command'[q] = "none"
             /\ request[q] \in {"wait", "leave", "over"} => request'[q] \in {"wait", "leave", "over"}
             /\ request[q] = "over" => request'[q] = "over",
           BrokerTypes
    PROVE  /\ FramesInOrder'
           /\ \A r \in Requests, type \in {"command", "cancel"} :
                Browser!OnItsWay(r, type)' <=> Browser!OnItsWay(r, type)
<1>1. ASSUME NEW k \in Browser!Sockets PROVE InOrderOf(outgoing[k], k)'
  <2>1. InOrderOf(outgoing[k], k) /\ outgoing[k] \in Seq(Frame)
    BY DEF FramesInOrder, BrokerTypes
  <2>2. \A i \in 1..Len(outgoing[k]) : outgoing[k][i].of \in Requests
    <3>1. \A i \in 1..Len(outgoing[k]) : outgoing[k][i] \in Frame
      BY <2>1
    <3> QED
      BY <3>1 DEF Frame
  <2> QED
    BY <2>1, <2>2 DEF InOrderOf
<1> QED
  BY <1>1 DEF FramesInOrder, Browser!OnItsWay

\* A frame is sent behind the ones that are on their way.
LEMMA SendsStep ==
    ASSUME BrokerTypes, NEW r \in Requests, NEW type \in {"command", "cancel", "torn"},
           Browser!Sends(r, type), target[r] # 0, UNCHANGED target
    PROVE  LET k == target[r] IN
           /\ outgoing' \in [Browser!Sockets -> Seq(Frame)]
           /\ \A j \in Browser!Sockets \ {k} : outgoing'[j] = outgoing[j]
           /\ k \in Browser!Sockets
           /\ Len(outgoing'[k]) = Len(outgoing[k]) + 1 /\ Len(outgoing[k]) \in Nat
           /\ \A i \in 1..Len(outgoing[k]) : outgoing'[k][i] = outgoing[k][i]
           /\ outgoing'[k][Len(outgoing[k]) + 1].type = type
           /\ outgoing'[k][Len(outgoing[k]) + 1].of = r
           /\ \A q \in Requests, kind \in {"command", "cancel"} :
                Browser!OnItsWay(q, kind)' <=> Browser!OnItsWay(q, kind) \/ (q = r /\ kind = type)
<1> DEFINE k == target[r]
           f == [type |-> type, of |-> r]
           s == outgoing[k]
           t == Append(s, f)
<1>1. k \in Browser!Sockets /\ s \in Seq(Frame) /\ f \in Frame /\ f.type = type /\ f.of = r
  <2>1. k \in Browser!Sockets
    BY DEF BrokerTypes, Browser!Sockets
  <2>2. s \in Seq(Frame)
    BY <2>1 DEF BrokerTypes
  <2>3. f \in Frame /\ f.type = type /\ f.of = r
    BY DEF Frame
  <2> QED
    BY <2>1, <2>2, <2>3
<1>2. outgoing' = [outgoing EXCEPT ![k] = t]
  BY DEF Browser!Sends
<1> HIDE DEF f, k
<1>3. /\ t \in Seq(Frame) /\ Len(t) = Len(s) + 1 /\ Len(s) \in Nat
      /\ \A i \in 1..Len(s) : t[i] = s[i]
      /\ t[Len(s) + 1] = f
  BY <1>1
<1> HIDE DEF t
<1>4. /\ outgoing' \in [Browser!Sockets -> Seq(Frame)]
      /\ \A j \in Browser!Sockets \ {k} : outgoing'[j] = outgoing[j]
      /\ outgoing'[k] = t
  BY <1>1, <1>2, <1>3 DEF BrokerTypes
<1>5. ASSUME NEW q \in Requests, NEW kind \in {"command", "cancel"}
      PROVE  Browser!OnItsWay(q, kind)' <=> Browser!OnItsWay(q, kind) \/ (q = r /\ kind = type)
  <2>1. CASE target[q] # k
    <3>1. q # r /\ (target[q] # 0 => outgoing'[target[q]] = outgoing[target[q]])
      BY <2>1, <1>4 DEF BrokerTypes, Browser!Sockets, k
    <3> QED
      BY <3>1 DEF Browser!OnItsWay
  <2>2. CASE target[q] = k
    <3>1. Browser!OnItsWay(q, kind)' <=> [type |-> kind, of |-> q] \in Browser!ToSet(t)
      BY <2>2, <1>4 DEF Browser!OnItsWay, k
    <3>2. Browser!OnItsWay(q, kind) <=> [type |-> kind, of |-> q] \in Browser!ToSet(s)
      BY <2>2 DEF Browser!OnItsWay, k
    <3>3. \A g : g \in Browser!ToSet(t) <=> g \in Browser!ToSet(s) \/ g = f
      <4>1. DOMAIN t = 1..Len(s) + 1 /\ DOMAIN s = 1..Len(s)
        BY <1>1, <1>3
      <4> HIDE DEF s
      <4>2. DOMAIN t = (1..Len(s)) \cup {Len(s) + 1}
        BY <4>1, <1>3
      <4> QED
        BY <4>1, <4>2, <1>3 DEF Browser!ToSet
    <3>4. [type |-> kind, of |-> q] = f <=> q = r /\ kind = type
      BY DEF f
    <3> QED
      BY <3>1, <3>2, <3>3, <3>4
  <2> QED
    BY <2>1, <2>2
<1> QED
  BY <1>1, <1>3, <1>4, <1>5 DEF k

\* A caller begins, if there is a connection.
LEMMA ExecuteStep ==
    ASSUME BrokerInv, NEW r \in Requests, Browser!Execute(r)
    PROVE  BrokerInv'
<1> USE DEF BrokerInv
<1>1. /\ request[r] = "idle"
      /\ UNCHANGED <<answered, link, socket, reading, outgoing, replies, command, aborted,
                     garbled, cuts>>
      /\ \/ /\ link = 0 /\ request' = [request EXCEPT ![r] = "over"]
            /\ target' = target /\ awaited' = awaited
         \/ /\ link # 0 /\ request' = [request EXCEPT ![r] = "gate"]
            /\ target' = [target EXCEPT ![r] = link] /\ awaited' = awaited \cup {r}
  BY DEF Browser!Execute, Browser!At, Browser!GoesTo, Browser!bridge, Browser!runtime
<1>2. /\ request' \in [Requests -> {"idle", "gate", "wait", "leave", "over"}]
      /\ request'[r] \in {"gate", "over"} /\ (request'[r] = "over" => target' = target)
      /\ request'[r] = "gate" => link # 0 /\ target'[r] = link /\ awaited' = awaited \cup {r}
      /\ request'[r] = "over" => awaited' = awaited
      /\ target' \in [Requests -> 0..MaxSockets]
      /\ \A q \in Requests \ {r} : request'[q] = request[q] /\ target'[q] = target[q]
  BY <1>1 DEF BrokerTypes
<1>3. /\ command[r] = "none" /\ r \notin answered /\ r \notin aborted
      /\ \A k \in Browser!Sockets : r \notin replies[k]
  BY <1>1 DEF Awaited, Working
<1>4. BrokerTypes'
  BY <1>1, <1>2 DEF BrokerTypes
<1>5. Awaited'
  BY <1>1, <1>2, <1>3 DEF Awaited
<1>6. ASSUME NEW k \in Browser!Sockets, NEW i \in 1..Len(outgoing[k]), outgoing[k][i].of = r
      PROVE  outgoing[k][i].type = "torn"
  <2>1. outgoing[k][i] \in Frame
    BY DEF BrokerTypes
  <2> QED
    BY <2>1, <1>1, <1>6 DEF FramesInOrder, InOrderOf, Frame
<1>7. FramesInOrder'
  <2>1. ASSUME NEW k \in Browser!Sockets PROVE InOrderOf(outgoing[k], k)'
    <3>1. InOrderOf(outgoing[k], k)
      BY DEF FramesInOrder
    <3>2. \A i \in 1..Len(outgoing[k]) : outgoing[k][i].of \in Requests
      <4>1. \A i \in 1..Len(outgoing[k]) : outgoing[k][i] \in Frame
        BY DEF BrokerTypes
      <4> QED
        BY <4>1 DEF Frame
    <3> QED
      BY <3>1, <3>2, <1>1, <1>2, <1>6 DEF InOrderOf
  <2> QED
    BY <2>1 DEF FramesInOrder
<1>8. Working'
  <2>1. \A k \in Browser!Sockets : \A q \in replies[k] : q \in Requests \ {r}
    BY <1>3 DEF BrokerTypes
  <2> QED
    BY <2>1, <1>1, <1>2, <1>3 DEF Working
<1>9. \A q \in Requests, kind \in {"command", "cancel"} :
        /\ q # r => (Browser!OnItsWay(q, kind)' <=> Browser!OnItsWay(q, kind))
        /\ ~Browser!OnItsWay(r, kind)'
  <2>1. \A q \in Requests \ {r}, kind \in {"command", "cancel"} :
          Browser!OnItsWay(q, kind)' <=> Browser!OnItsWay(q, kind)
    BY <1>1, <1>2 DEF Browser!OnItsWay
  <2>2. \A kind \in {"command", "cancel"} : ~Browser!OnItsWay(r, kind)'
    <3>1. ASSUME NEW kind \in {"command", "cancel"}, NEW k \in Browser!Sockets,
                 [type |-> kind, of |-> r] \in Browser!ToSet(outgoing[k])
          PROVE  FALSE
      <4>1. outgoing[k] \in Seq(Frame)
        BY DEF BrokerTypes
      <4>2. PICK i \in 1..Len(outgoing[k]) : outgoing[k][i] = [type |-> kind, of |-> r]
        BY <3>1, <4>1 DEF Browser!ToSet
      <4> QED
        BY <4>2, <1>6
    <3>2. target'[r] # 0 => target'[r] \in Browser!Sockets
      BY <1>2 DEF Browser!Sockets
    <3> QED
      BY <3>1, <3>2, <1>1 DEF Browser!OnItsWay
  <2> QED
    BY <2>1, <2>2
<1>10. NotLeft'
  BY <1>1, <1>2, <1>3, <1>9 DEF NotLeft, Kept, Browser!Works
<1> QED
  BY <1>4, <1>5, <1>7, <1>8, <1>10

\* A step that sends and reads nothing keeps the frames; what is left to show
\* of it is what it does to its own caller or connection.
LEMMA SilentStep ==
    ASSUME BrokerInv, UNCHANGED <<outgoing, target>>, garbled \subseteq garbled',
           BrokerTypes', Awaited', Working',
           \A q \in Requests :
             /\ command[q] = "none" => command'[q] = "none"
             /\ request[q] \in {"wait", "leave", "over"} => request'[q] \in {"wait", "leave", "over"}
             /\ request[q] = "over" => request'[q] = "over"
             /\ target[q] # 0 /\ socket'[target[q]] = "open" => socket[target[q]] = "open"
             /\ request'[q] = "wait" /\ q \notin answered' =>
                  /\ request[q] = "wait" /\ q \notin answered
                  /\ Browser!Works(q) =>
                       Browser!Works(q)' \/ Kept(q)' \/ q \in replies'[target[q]]
                  /\ q \in replies[target[q]] => q \in replies'[target[q]]
             /\ request'[q] = "over" /\ socket'[target[q]] = "open" /\ q \notin garbled' =>
                  /\ Browser!Works(q)' => Browser!Works(q)
                  /\ request[q] = "over" \/ (~Browser!Works(q)' /\ ~Browser!OnItsWay(q, "command"))
    PROVE  BrokerInv'
<1> USE DEF BrokerInv
<1>1. FramesInOrder'
  BY SameFrames
<1>2. \A r \in Requests : /\ Browser!OnItsWay(r, "command")' <=> Browser!OnItsWay(r, "command")
                          /\ Browser!OnItsWay(r, "cancel")' <=> Browser!OnItsWay(r, "cancel")
  BY SameFrames
<1>3. ASSUME NEW q \in Requests, request'[q] = "wait", q \notin answered'
      PROVE  \/ Kept(q)' \/ Browser!OnItsWay(q, "command")' \/ Browser!Works(q)'
             \/ q \in replies'[target'[q]]
  <2>1. /\ request[q] = "wait" /\ q \notin answered /\ target[q] # 0
        /\ Browser!Works(q) => Browser!Works(q)' \/ Kept(q)' \/ q \in replies'[target[q]]
        /\ q \in replies[target[q]] => q \in replies'[target[q]]
    BY <1>3 DEF Awaited
  <2>2. Kept(q) => Kept(q)'
    BY <2>1 DEF Kept
  <2>3. \/ Kept(q) \/ Browser!OnItsWay(q, "command") \/ Browser!Works(q)
        \/ q \in replies[target[q]]
    BY <2>1 DEF NotLeft
  <2> QED
    BY <2>1, <2>2, <2>3, <1>2
<1>4. ASSUME NEW q \in Requests, request'[q] = "over",
             Browser!Works(q)' \/ Browser!OnItsWay(q, "command")', ~Kept(q)'
      PROVE  Browser!OnItsWay(q, "cancel")'
  <2>1. socket'[target[q]] = "open" /\ q \notin garbled'
    BY <1>4 DEF Kept
  <2>2. Browser!Works(q) \/ Browser!OnItsWay(q, "command")
    BY <2>1, <1>2, <1>4
  <2>3. request[q] = "over"
    BY <2>1, <1>2, <1>4
  <2>4. Browser!OnItsWay(q, "command") => target[q] # 0
    BY DEF Browser!OnItsWay
  <2>5. target[q] # 0
    BY <2>2, <2>4 DEF Working, Browser!Works
  <2> QED
    BY <2>1, <2>2, <2>3, <2>5, <1>2 DEF NotLeft, Kept
<1>5. NotLeft'
  BY <1>3, <1>4 DEF NotLeft
<1> QED
  BY <1>1, <1>5

\* A caller that cannot write gives the connection up with all that wait on it,
\* and so does its reader.
LEMMA GivesUp ==
    ASSUME BrokerInv, NEW k \in 0..MaxSockets, NEW waiting \in SUBSET awaited,
           Browser!Disconnect(k, waiting),
           IF link = k THEN k # 0 /\ Browser!DaemonCloses(k) ELSE UNCHANGED socket
    PROVE  /\ link' \in {0, link} /\ awaited' \in {{}, waiting}
           /\ answered' \in {answered, answered \cup waiting}
           /\ socket' \in [Browser!Sockets -> {"none", "hello", "open", "left", "dropped", "closed"}]
           /\ link' # link => link' = 0 /\ awaited' = {} /\ answered' = answered \cup waiting
                              /\ link # 0 /\ socket'[link] # "open"
           /\ link' = link => awaited' = waiting /\ answered' = answered /\ socket' = socket
           /\ \A j \in Browser!Sockets :
                /\ socket'[j] = "open" => socket[j] = "open" /\ link' = j
                /\ socket[j] \notin {"none", "hello"} => socket'[j] \notin {"none", "hello"}
<1> USE DEF BrokerInv
<1>1. CASE link # k
  BY <1>1 DEF Browser!Disconnect, BrokerTypes, Awaited
<1>2. CASE link = k
  <2>1. /\ k # 0 /\ k \in Browser!Sockets /\ link' = 0 /\ awaited' = {}
        /\ answered' = answered \cup waiting
        /\ socket' = [socket EXCEPT ![k] = IF @ = "open" THEN "dropped" ELSE "closed"]
    BY <1>2 DEF Browser!Disconnect, Browser!DaemonCloses, Browser!Sockets
  <2> QED
    BY <2>1, <1>2 DEF BrokerTypes, Awaited
<1> QED
  BY <1>1, <1>2

\* Whoever is pending and not answered yet is where it was, or answered by the
\* loss of its connection.
LEMMA GivenUp ==
    ASSUME BrokerInv, NEW waiting \in SUBSET awaited,
           link' \in {0, link}, answered' \in {answered, answered \cup waiting},
           link' # link => link' = 0 /\ awaited' = {} /\ answered' = answered \cup waiting
                           /\ link # 0 /\ socket'[link] # "open",
           link' = link => awaited' = waiting /\ answered' = answered /\ socket' = socket,
           socket' \in [Browser!Sockets -> {"none", "hello", "open", "left", "dropped", "closed"}],
           \A j \in Browser!Sockets :
             /\ socket'[j] = "open" => socket[j] = "open" /\ link' = j
             /\ socket[j] \notin {"none", "hello"} => socket'[j] \notin {"none", "hello"},
           UNCHANGED <<target, outgoing, replies, command, aborted, garbled, cuts>>,
           reading' \subseteq Browser!Sockets,
           \/ waiting = awaited /\ request' = request
           \/ \E o \in Requests : /\ request[o] = "gate" /\ waiting = awaited \ {o}
                                 /\ request' = [request EXCEPT ![o] = "over"]
    PROVE  BrokerTypes' /\ Awaited' /\ Working'
<1> USE DEF BrokerInv
<1>1. /\ request' \in [Requests -> {"idle", "gate", "wait", "leave", "over"}]
      /\ \A q \in Requests : \/ request'[q] = request[q] /\ (q \in awaited => q \in waiting)
                             \/ request'[q] = "over" /\ request[q] = "gate"
      /\ \A q \in waiting : request'[q] = request[q]
  BY DEF BrokerTypes
<1>2. awaited' \subseteq waiting /\ answered' \subseteq Requests
  BY DEF BrokerTypes
<1>3. BrokerTypes'
  BY <1>1, <1>2, ServicesAssumption DEF BrokerTypes
<1>4. Awaited'
  <2>1. \A r \in Requests :
          /\ request'[r] \in {"gate", "wait", "leave"} => target'[r] # 0
          /\ r \in awaited' => request'[r] \in {"gate", "wait"} /\ target'[r] = link' /\ r \notin answered'
          /\ request'[r] \in {"gate", "wait"} => r \in awaited' \/ r \in answered'
          /\ r \in answered' => request'[r] # "idle" /\ target'[r] # 0
    BY <1>1, <1>2 DEF Awaited
  <2>2. \A r \in Requests : target'[r] # 0 => socket'[target'[r]] \notin {"none", "hello"}
    BY DEF BrokerTypes, Awaited, Browser!Sockets
  <2>3. link' # 0 => socket'[link'] \notin {"none", "hello"}
    BY DEF BrokerTypes, Awaited, Browser!Sockets
  <2> QED
    BY <2>1, <2>2, <2>3 DEF Awaited
<1>5. Working'
  <2>1. \A r \in Requests : target[r] # 0 => target[r] \in Browser!Sockets
    BY DEF BrokerTypes, Browser!Sockets
  <2>2. \A r \in Requests :
          /\ request'[r] \in {"idle", "gate"} => command'[r] = "none"
          /\ command'[r] # "none" => target'[r] # 0
    BY <1>1 DEF Working
  <2>3. ASSUME NEW r \in aborted'
        PROVE  command'[r] # "none" /\ (request'[r] = "over" \/ socket'[target'[r]] # "open")
    <3>1. r \in Requests /\ command[r] # "none" /\ target[r] \in Browser!Sockets
          /\ (request[r] = "over" \/ socket[target[r]] # "open")
      BY <2>1, <2>3 DEF Working, BrokerTypes
    <3> QED
      BY <3>1, <1>1
  <2>4. ASSUME NEW r \in answered' PROVE socket'[target'[r]] # "open" \/ command'[r] = "over"
    <3>1. CASE r \in answered
      <4>1. r \in Requests /\ target[r] \in Browser!Sockets
            /\ (socket[target[r]] # "open" \/ command[r] = "over")
        BY <2>1, <3>1 DEF Awaited, Working, BrokerTypes
      <4> QED
        BY <4>1
    <3>2. CASE r \in waiting /\ r \notin answered
      <4>1. r \in Requests /\ target[r] = link
        BY <3>2 DEF Awaited, BrokerTypes
      <4>2. link' # link
        BY <2>4, <3>2
      <4> QED
        BY <4>1, <4>2
    <3> QED
      BY <2>4, <3>1, <3>2
  <2>5. \A k \in Browser!Sockets : \A r \in replies'[k] : target'[r] = k /\ command'[r] = "over"
    BY DEF Working
  <2> QED
    BY <2>2, <2>3, <2>4, <2>5 DEF Working
<1> QED
  BY <1>3, <1>4, <1>5

\* A command that is on its way was sent by its caller, and not yet read; a
\* cancel is the last word of its caller.
LEMMA SentBefore ==
    ASSUME BrokerInv, NEW r \in Requests
    PROVE  /\ Browser!OnItsWay(r, "command") =>
                request[r] \in {"wait", "leave", "over"} /\ command[r] = "none"
           /\ Browser!OnItsWay(r, "cancel") => request[r] = "over"
<1> USE DEF BrokerInv
<1>1. ASSUME NEW type \in {"command", "cancel"}, Browser!OnItsWay(r, type)
      PROVE  \E k \in Browser!Sockets : \E i \in 1..Len(outgoing[k]) :
               outgoing[k][i].type = type /\ outgoing[k][i].of = r
  <2>1. target[r] # 0 => target[r] \in Browser!Sockets
    BY DEF BrokerTypes, Browser!Sockets
  <2> QED
    BY <1>1, <2>1, WayOfFrames
<1> QED
  BY <1>1 DEF FramesInOrder, InOrderOf

\* A write that fails, and a reader that finds its connection gone.
LEMMA LossOfLink ==
    ASSUME BrokerInv,
           \/ \E r \in Requests : Browser!WriteFails(r)
           \/ \E k \in Browser!Sockets : Browser!DaemonNotices(k)
    PROVE  BrokerInv'
<1> USE DEF BrokerInv
<1>1. ASSUME NEW r \in Requests, Browser!WriteFails(r) PROVE BrokerInv'
  <2>1. /\ request[r] = "gate" /\ request' = [request EXCEPT ![r] = "over"]
        /\ Browser!Disconnect(target[r], awaited \ {r})
        /\ IF link = target[r] THEN Browser!DaemonCloses(target[r]) ELSE UNCHANGED socket
        /\ UNCHANGED <<target, reading, outgoing, replies, command, aborted, garbled, cuts>>
    BY <1>1 DEF Browser!WriteFails, Browser!At, Browser!GoesTo, Browser!runtime
  <2>2. target[r] # 0 /\ target[r] \in 0..MaxSockets
    BY <2>1 DEF Awaited, BrokerTypes
  <2> DEFINE waiting == awaited \ {r}
  <2>3. waiting \in SUBSET awaited
    OBVIOUS
  <2> HIDE DEF waiting
  <2>4. /\ link' \in {0, link} /\ awaited' \in {{}, waiting}
        /\ answered' \in {answered, answered \cup waiting}
        /\ socket' \in [Browser!Sockets -> {"none", "hello", "open", "left", "dropped", "closed"}]
        /\ link' # link => link' = 0 /\ awaited' = {} /\ answered' = answered \cup waiting
                           /\ link # 0 /\ socket'[link] # "open"
        /\ link' = link => awaited' = waiting /\ answered' = answered /\ socket' = socket
        /\ \A j \in Browser!Sockets :
             /\ socket'[j] = "open" => socket[j] = "open" /\ link' = j
             /\ socket[j] \notin {"none", "hello"} => socket'[j] \notin {"none", "hello"}
    <3>1. Browser!Disconnect(target[r], waiting)
      BY <2>1 DEF waiting
    <3>2. IF link = target[r] THEN target[r] # 0 /\ Browser!DaemonCloses(target[r]) ELSE UNCHANGED socket
      BY <2>1, <2>2
    <3> QED
      BY <2>2, <2>3, <3>1, <3>2, GivesUp
  <2>5. BrokerTypes' /\ Awaited' /\ Working'
    <3>1. waiting = awaited \ {r}
      BY DEF waiting
    <3>2. reading' \subseteq Browser!Sockets
      BY <2>1 DEF BrokerTypes
    <3> QED
      BY <2>1, <2>3, <2>4, <3>1, <3>2, GivenUp
  <2>6. command[r] = "none" /\ ~Browser!OnItsWay(r, "command")
    BY <2>1, SentBefore DEF Working
  <2>7. \A q \in Requests : /\ q # r => request'[q] = request[q]
                            /\ request'[r] = "over"
                            /\ target[q] # 0 => target[q] \in Browser!Sockets
                            /\ Browser!Works(q)' <=> Browser!Works(q)
                            /\ Browser!Works(q) => target[q] # 0
    BY <2>1 DEF BrokerTypes, Browser!Works, Working, Browser!Sockets
  <2>8. ~Browser!Works(r)
    BY <2>6 DEF Browser!Works
  <2> QED
    BY <2>1, <2>4, <2>5, <2>6, <2>7, <2>8, SilentStep
<1>2. ASSUME NEW k \in Browser!Sockets, Browser!DaemonNotices(k) PROVE BrokerInv'
  <2>1. /\ k \in reading /\ reading' = reading \ {k} /\ Browser!Disconnect(k, awaited)
        /\ IF link = k THEN Browser!DaemonCloses(k) ELSE UNCHANGED socket
        /\ UNCHANGED <<request, target, outgoing, replies, command, aborted, garbled, cuts>>
    BY <1>2 DEF Browser!DaemonNotices, Browser!runtime
  <2>2. k # 0 /\ k \in 0..MaxSockets
    BY DEF Browser!Sockets
  <2>3. awaited \in SUBSET awaited
    OBVIOUS
  <2>4. /\ link' \in {0, link} /\ awaited' \in {{}, awaited}
        /\ answered' \in {answered, answered \cup awaited}
        /\ socket' \in [Browser!Sockets -> {"none", "hello", "open", "left", "dropped", "closed"}]
        /\ link' # link => link' = 0 /\ awaited' = {} /\ answered' = answered \cup awaited
                           /\ link # 0 /\ socket'[link] # "open"
        /\ link' = link => awaited' = awaited /\ answered' = answered /\ socket' = socket
        /\ \A j \in Browser!Sockets :
             /\ socket'[j] = "open" => socket[j] = "open" /\ link' = j
             /\ socket[j] \notin {"none", "hello"} => socket'[j] \notin {"none", "hello"}
    BY <2>1, <2>2, <2>3, GivesUp
  <2>5. BrokerTypes' /\ Awaited' /\ Working'
    <3>1. reading' \subseteq Browser!Sockets
      BY <2>1 DEF BrokerTypes
    <3> QED
      BY <2>1, <2>3, <2>4, <3>1, GivenUp
  <2>6. \A q \in Requests : /\ target[q] # 0 => target[q] \in Browser!Sockets
                            /\ Browser!Works(q)' <=> Browser!Works(q)
                            /\ Browser!Works(q) => target[q] # 0
    BY <2>1 DEF BrokerTypes, Browser!Works, Working, Browser!Sockets
  <2> QED
    BY <2>1, <2>4, <2>5, <2>6, SilentStep
<1> QED
  BY <1>1, <1>2

\* A caller that has its answer returns; one that gives up leaves.
LEMMA ReturnsOrLeaves ==
    ASSUME BrokerInv, NEW r \in Requests, Browser!Return(r) \/ Browser!Leave(r)
    PROVE  BrokerInv'
<1> USE DEF BrokerInv
<1>1. /\ request[r] = "wait"
      /\ \/ r \in answered /\ request' = [request EXCEPT ![r] = "over"] /\ awaited' = awaited
         \/ request' = [request EXCEPT ![r] = "leave"] /\ awaited' = awaited \ {r}
      /\ UNCHANGED <<target, answered, link, socket, reading, outgoing, replies, command, aborted,
                     garbled, cuts>>
  BY DEF Browser!Return, Browser!Leave, Browser!At, Browser!GoesTo, Browser!bridge, Browser!runtime
<1>2. /\ request' \in [Requests -> {"idle", "gate", "wait", "leave", "over"}]
      /\ request'[r] \in {"over", "leave"} /\ (request'[r] = "over" => r \in answered)
      /\ \A q \in Requests \ {r} : request'[q] = request[q]
      /\ awaited' \in {awaited, awaited \ {r}} /\ (request'[r] = "leave" => r \notin awaited')
      /\ request'[r] = "over" => awaited' = awaited
  BY <1>1 DEF BrokerTypes
<1>3. BrokerTypes'
  BY <1>1, <1>2 DEF BrokerTypes
<1>4. Awaited'
  BY <1>1, <1>2 DEF Awaited
<1>5. Working'
  BY <1>1, <1>2 DEF Working
<1>6. Browser!OnItsWay(r, "command") => command[r] = "none"
  BY SentBefore
<1>7. /\ Browser!Works(r) => command[r] \in {"queued", "running"}
      /\ \A q \in Requests : Browser!Works(q)' <=> Browser!Works(q)
  BY <1>1 DEF Browser!Works
<1>8. request'[r] = "over" /\ socket'[target[r]] = "open" => command[r] = "over"
  BY <1>1, <1>2 DEF Working
<1> QED
  BY <1>1, <1>2, <1>3, <1>4, <1>5, <1>6, <1>7, <1>8, SilentStep

\* A command begins or ends in the runtime.
LEMMA RunsStep ==
    ASSUME BrokerInv, NEW r \in Requests, Browser!Run(r) \/ Browser!Finish(r)
    PROVE  BrokerInv'
<1> USE DEF BrokerInv
<1>1. /\ UNCHANGED <<request, target, awaited, answered, link, socket, reading, outgoing, aborted,
                     garbled, cuts>>
      /\ \/ /\ command[r] = "queued" /\ replies' = replies
            /\ command' = [command EXCEPT ![r] = IF r \in aborted THEN "over" ELSE "running"]
         \/ /\ command[r] = "running" /\ command' = [command EXCEPT ![r] = "over"]
            /\ replies' = IF r \notin aborted /\ socket[target[r]] = "open"
                            THEN [replies EXCEPT ![target[r]] = @ \cup {r}] ELSE replies
  BY DEF Browser!Run, Browser!Finish, Browser!callers, Browser!bridge
<1>2. /\ command' \in [Requests -> {"none", "queued", "running", "over"}]
      /\ command'[r] \in {"running", "over"} /\ command[r] \in {"queued", "running"}
      /\ \A q \in Requests \ {r} : command'[q] = command[q]
      /\ command'[r] = "running" => r \notin aborted
  BY <1>1 DEF BrokerTypes
<1>3. target[r] \in Browser!Sockets
  BY <1>2 DEF BrokerTypes, Working, Browser!Sockets
<1>4. /\ replies' \in [Browser!Sockets -> SUBSET Requests]
      /\ \A k \in Browser!Sockets : replies[k] \subseteq replies'[k]
      /\ \A k \in Browser!Sockets : \A q \in replies'[k] \ replies[k] :
           q = r /\ k = target[r] /\ command'[r] = "over"
      /\ command'[r] = "over" => r \in aborted \/ socket[target[r]] # "open" \/ r \in replies'[target[r]]
  <2>1. CASE /\ replies' = replies
             /\ command'[r] = "over" => r \in aborted \/ socket[target[r]] # "open"
    BY <2>1 DEF BrokerTypes
  <2>2. CASE replies' = [replies EXCEPT ![target[r]] = @ \cup {r}] /\ command'[r] = "over"
    BY <2>2, <1>3 DEF BrokerTypes
  <2>3. command[r] = "queued" /\ command' = [command EXCEPT ![r] = IF r \in aborted THEN "over" ELSE "running"]
          => (command'[r] = "over" => r \in aborted)
    BY DEF BrokerTypes
  <2> QED
    BY <2>1, <2>2, <2>3, <1>1, <1>2
<1>5. BrokerTypes'
  BY <1>1, <1>2, <1>4 DEF BrokerTypes
<1>6. Awaited'
  BY <1>1 DEF Awaited
<1>7. Working'
  <2>1. \A k \in Browser!Sockets : \A q \in replies'[k] : target[q] = k /\ command'[q] = "over"
    <3>1. \A k \in Browser!Sockets : \A q \in replies[k] : q \in Requests \ {r}
      BY <1>2 DEF BrokerTypes, Working
    <3> QED
      BY <1>2, <1>4, <3>1 DEF Working
  <2>2. \A q \in Requests : command'[q] = "none" <=> command[q] = "none"
    BY <1>2
  <2>3. \A q \in Requests : command[q] = "over" => command'[q] = "over"
    BY <1>2
  <2> QED
    BY <2>1, <2>2, <2>3, <1>1 DEF Working, BrokerTypes
<1>8. \A q \in Requests :
        /\ Browser!Works(q)' => Browser!Works(q)
        /\ q # r => (Browser!Works(q)' <=> Browser!Works(q))
        /\ target[q] # 0 => target[q] \in Browser!Sockets
  BY <1>1, <1>2 DEF Browser!Works, BrokerTypes, Browser!Sockets
<1>9. Browser!Works(r) => Browser!Works(r)' \/ Kept(r)' \/ r \in replies'[target[r]]
  BY <1>1, <1>2, <1>4 DEF Browser!Works, Kept
<1>10. \A q \in Requests : /\ request'[q] = request[q] /\ command[q] = "none" => command'[q] = "none"
                           /\ request[q] = "wait" => target[q] # 0
  BY <1>1, <1>2 DEF Awaited
<1> QED
  BY <1>1, <1>4, <1>5, <1>6, <1>7, <1>8, <1>9, <1>10, SilentStep

\* The runtime dials, or is the one that gives a connection up.
LEMMA RuntimeLeaves ==
    ASSUME BrokerInv,
           \/ Browser!Connect
           \/ \E k \in Browser!Sockets : Browser!RuntimeCloses(k) \/ Browser!RuntimeNotices(k)
    PROVE  BrokerInv'
<1> USE DEF BrokerInv
<1>1. /\ UNCHANGED <<request, target, awaited, answered, link, reading, outgoing, replies, command,
                     garbled, cuts>>
      /\ \E k \in Browser!Sockets :
           \/ /\ socket[k] = "none" /\ socket' = [socket EXCEPT ![k] = "hello"]
              /\ aborted' = aborted
           \/ /\ socket[k] \in {"open", "dropped"}
              /\ \E gone \in {"left", "closed"} : socket' = [socket EXCEPT ![k] = gone]
              /\ aborted' = aborted \cup
                   {r \in Requests : target[r] = k /\ command[r] \in {"queued", "running"}}
  BY DEF Browser!Connect, Browser!RuntimeCloses, Browser!RuntimeNotices, Browser!CancelCommands,
         Browser!callers, Browser!runtime
<1>2. /\ socket' \in [Browser!Sockets -> {"none", "hello", "open", "left", "dropped", "closed"}]
      /\ aborted' \subseteq Requests /\ aborted \subseteq aborted'
      /\ \A j \in Browser!Sockets : /\ socket'[j] = "open" => socket[j] = "open"
                                    /\ socket[j] \notin {"none", "hello"} => socket'[j] \notin {"none", "hello"}
      /\ \A r \in aborted' \ aborted : target[r] \in Browser!Sockets /\ socket'[target[r]] # "open"
                                       /\ command[r] # "none"
  <2>1. PICK k \in Browser!Sockets :
          \/ /\ socket[k] = "none" /\ socket' = [socket EXCEPT ![k] = "hello"]
             /\ aborted' = aborted
          \/ /\ socket[k] \in {"open", "dropped"}
             /\ \E gone \in {"left", "closed"} : socket' = [socket EXCEPT ![k] = gone]
             /\ aborted' = aborted \cup
                  {r \in Requests : target[r] = k /\ command[r] \in {"queued", "running"}}
    BY <1>1
  <2>2. PICK gone \in {"hello", "left", "closed"} :
          /\ socket' = [socket EXCEPT ![k] = gone] /\ (gone = "hello" => socket[k] = "none")
    BY <2>1
  <2>3. /\ socket' \in [Browser!Sockets -> {"none", "hello", "open", "left", "dropped", "closed"}]
        /\ socket'[k] = gone /\ \A j \in Browser!Sockets \ {k} : socket'[j] = socket[j]
    BY <2>2 DEF BrokerTypes
  <2>4. /\ aborted' \subseteq Requests /\ aborted \subseteq aborted'
        /\ \A r \in aborted' \ aborted : target[r] = k /\ command[r] # "none"
    BY <2>1 DEF BrokerTypes
  <2> QED
    BY <2>2, <2>3, <2>4
<1>3. BrokerTypes'
  BY <1>1, <1>2 DEF BrokerTypes
<1>4. \A r \in Requests : target[r] # 0 => target[r] \in Browser!Sockets
  BY DEF BrokerTypes, Browser!Sockets
<1>5. link # 0 => link \in Browser!Sockets
  BY DEF BrokerTypes, Browser!Sockets
<1>6. Awaited'
  BY <1>1, <1>2, <1>4, <1>5 DEF Awaited
<1>7. Working'
  <2>1. \A r \in Requests : r \in answered => target[r] # 0
    BY DEF Awaited
  <2>2. \A r \in Requests : r \in aborted => target[r] # 0
    BY DEF Working
  <2> QED
    BY <2>1, <2>2, <1>1, <1>2, <1>4 DEF Working
<1>8. \A q \in Requests :
        /\ Browser!Works(q)' => Browser!Works(q)
        /\ Browser!Works(q) => Browser!Works(q)' \/ socket'[target[q]] # "open"
  BY <1>1, <1>2 DEF Browser!Works
<1> QED
  BY <1>1, <1>2, <1>3, <1>4, <1>6, <1>7, <1>8, SilentStep DEF Kept

\* The broker accepts a connection, and gives up the one it had.
LEMMA AcceptStep ==
    ASSUME BrokerInv, NEW k \in Browser!Sockets, Browser!Accept(k)
    PROVE  BrokerInv'
<1> USE DEF BrokerInv
<1>1. /\ socket[k] = "hello" /\ link' = k /\ reading' = reading \cup {k}
      /\ socket' = [j \in Browser!Sockets |->
                      IF j = k THEN "open" ELSE IF j = link THEN "closed" ELSE socket[j]]
      /\ awaited' = {} /\ answered' = answered \cup awaited
      /\ UNCHANGED <<request, target, outgoing, replies, command, aborted, garbled, cuts>>
  BY DEF Browser!Accept, Browser!runtime
<1>2. /\ \A r \in Requests : target[r] # 0 => target[r] \in Browser!Sockets \ {k}
      /\ k \in 0..MaxSockets
  BY <1>1 DEF BrokerTypes, Awaited, Browser!Sockets
<1>3. /\ socket' \in [Browser!Sockets -> {"none", "hello", "open", "left", "dropped", "closed"}]
      /\ socket'[k] = "open"
      /\ \A j \in Browser!Sockets \ {k} :
           /\ socket'[j] # "open"
           /\ socket[j] \notin {"none", "hello"} => socket'[j] \notin {"none", "hello"}
  BY <1>1 DEF BrokerTypes, Awaited
<1>4. BrokerTypes'
  BY <1>1, <1>2, <1>3 DEF BrokerTypes
<1>5. Awaited'
  BY <1>1, <1>2, <1>3 DEF Awaited, BrokerTypes
<1>6. Working'
  <2>1. \A r \in Requests : r \in answered' => target[r] # 0
    BY <1>1 DEF Awaited
  <2>2. \A r \in Requests : r \in aborted => target[r] # 0
    BY DEF Working
  <2> QED
    BY <2>1, <2>2, <1>1, <1>2, <1>3 DEF Working
<1>7. \A q \in Requests : /\ Browser!Works(q)' <=> Browser!Works(q)
                          /\ target[q] # 0 => socket'[target[q]] # "open"
  BY <1>1, <1>2, <1>3 DEF Browser!Works
<1>8. \A q \in Requests : /\ ~(request'[q] = "wait" /\ q \notin answered')
                          /\ request'[q] = "over" => request[q] = "over"
  BY <1>1 DEF Awaited
<1> QED
  BY <1>1, <1>4, <1>5, <1>6, <1>7, <1>8, SilentStep

\* The broker takes a result, and whoever waits for it has its answer.
LEMMA ResolveStep ==
    ASSUME BrokerInv, NEW k \in Browser!Sockets, NEW r \in Requests, Browser!Resolve(k, r)
    PROVE  BrokerInv'
<1> USE DEF BrokerInv
<1>1. /\ r \in replies[k] /\ replies' = [replies EXCEPT ![k] = replies[k] \ {r}]
      /\ awaited' = awaited \ {r}
      /\ answered' = IF r \in awaited THEN answered \cup {r} ELSE answered
      /\ UNCHANGED <<request, target, link, socket, reading, outgoing, command, aborted,
                     garbled, cuts>>
  BY DEF Browser!Resolve, Browser!bridge, Browser!runtime
<1>2. target[r] = k /\ command[r] = "over"
  BY <1>1 DEF Working
<1>3. /\ replies' \in [Browser!Sockets -> SUBSET Requests]
      /\ \A j \in Browser!Sockets : replies'[j] \subseteq replies[j] /\ replies[j] \subseteq replies'[j] \cup {r}
  BY <1>1 DEF BrokerTypes
<1>4. BrokerTypes'
  BY <1>1, <1>3 DEF BrokerTypes
<1>5. Awaited'
  BY <1>1, <1>2 DEF Awaited, Working
<1>6. Working'
  BY <1>1, <1>2, <1>3 DEF Working
<1>7. \A q \in Requests :
        /\ Browser!Works(q)' <=> Browser!Works(q)
        /\ target[q] # 0 => target[q] \in Browser!Sockets
        /\ request[q] = "wait" => target[q] # 0
        /\ request[q] = "wait" /\ q \notin answered' => q # r /\ q \notin answered
  BY <1>1 DEF Browser!Works, BrokerTypes, Browser!Sockets, Awaited
<1> QED
  BY <1>1, <1>3, <1>4, <1>5, <1>6, <1>7, SilentStep

\* A caller sends its command, or its last word.
LEMMA SendingStep ==
    ASSUME BrokerInv, NEW r \in Requests, NEW type \in {"command", "cancel", "torn"},
           Browser!Sends(r, type), NEW said \in {"wait", "over"},
           request[r] \in {"gate", "leave"}, request' = [request EXCEPT ![r] = said],
           UNCHANGED <<target, answered, link, socket, reading, replies, command, aborted>>,
           garbled \subseteq garbled', garbled' \subseteq Requests, cuts' \in 0..MaxCuts,
           awaited' \in {awaited, awaited \ {r}},
           said = "wait" => request[r] = "gate" /\ type = "command" /\ awaited' = awaited,
           said = "over" => /\ type # "command" /\ r \notin awaited'
                            /\ request[r] = "leave" => type = "cancel" \/ r \in garbled'
    PROVE  BrokerInv'
<1> USE DEF BrokerInv
<1>1. /\ request' \in [Requests -> {"idle", "gate", "wait", "leave", "over"}]
      /\ request'[r] = said /\ \A q \in Requests \ {r} : request'[q] = request[q]
  BY DEF BrokerTypes
<1>2. target[r] # 0
  BY DEF Awaited
<1>k. PICK k \in Browser!Sockets : k = target[r]
  BY <1>2 DEF BrokerTypes, Browser!Sockets
<1> DEFINE n == Len(outgoing[k])
<1>3. /\ outgoing' \in [Browser!Sockets -> Seq(Frame)]
      /\ \A j \in Browser!Sockets \ {k} : outgoing'[j] = outgoing[j]
      /\ Len(outgoing'[k]) = n + 1 /\ n \in Nat
      /\ \A i \in 1..n : outgoing'[k][i] = outgoing[k][i]
      /\ outgoing'[k][n + 1].type = type
      /\ outgoing'[k][n + 1].of = r
      /\ \A q \in Requests, kind \in {"command", "cancel"} :
           Browser!OnItsWay(q, kind)' <=> Browser!OnItsWay(q, kind) \/ (q = r /\ kind = type)
  <2>1. BrokerTypes /\ UNCHANGED target
    OBVIOUS
  <2> QED
    BY <1>2, <1>k, <2>1, SendsStep
<1> HIDE DEF n
<1>4. BrokerTypes'
  BY <1>1, <1>3 DEF BrokerTypes
<1>5. Awaited'
  BY <1>1, <1>2 DEF Awaited
<1>6. Working'
  BY <1>1, <1>2 DEF Working
<1>7. FramesInOrder'
  <2>1. ASSUME NEW j \in Browser!Sockets, NEW i \in 1..Len(outgoing[j])
        PROVE  /\ outgoing[j][i] \in Frame /\ outgoing[j][i].of \in Requests
               /\ outgoing[j][i].type # "torn" => target[outgoing[j][i].of] = j
               /\ outgoing[j][i].type = "command" =>
                    /\ command[outgoing[j][i].of] = "none"
                    /\ request[outgoing[j][i].of] \in {"wait", "leave", "over"}
                    /\ request'[outgoing[j][i].of] \in {"wait", "leave", "over"}
               /\ outgoing[j][i].type = "cancel" =>
                    request[outgoing[j][i].of] = "over" /\ request'[outgoing[j][i].of] = "over"
    <3>1. outgoing[j][i] \in Frame
      BY DEF BrokerTypes
    <3>2. outgoing[j][i].of \in Requests
      BY <3>1 DEF Frame
    <3> QED
      BY <3>1, <3>2, <1>1 DEF FramesInOrder, InOrderOf
  <2>2. ASSUME NEW j \in Browser!Sockets \ {k} PROVE InOrderOf(outgoing[j], j)'
    <3>1. InOrderOf(outgoing[j], j) /\ outgoing'[j] = outgoing[j]
      BY <1>3 DEF FramesInOrder
    <3> QED
      BY <3>1, <2>1 DEF InOrderOf
  <2>3. InOrderOf(outgoing[k], k)'
    <3> DEFINE s == outgoing[k]
               t == outgoing'[k]
    <3>1. InOrderOf(s, k)
      BY <1>3 DEF FramesInOrder
    <3>2. type = "command" => command[r] = "none" /\ request[r] = "gate" /\ said = "wait"
      BY DEF Working
    <3>3. ASSUME NEW i \in 1..n, s[i].of = r, type = "command" PROVE s[i].type = "torn"
      <4>1. s[i] \in Frame /\ (s[i].type = "command" => request[r] \in {"wait", "leave", "over"})
            /\ (s[i].type = "cancel" => request[r] = "over")
        BY <2>1, <3>3, <1>3 DEF n
      <4> QED
        BY <4>1, <3>2, <3>3 DEF Frame
    <3>4. \A i \in 1..n : t[i] = s[i] /\ i \in 1..Len(s)
      BY <1>3 DEF n
    <3>5. t[n + 1].type = type /\ t[n + 1].of = r /\ Len(t) = n + 1 /\ n \in Nat
      BY <1>3
    <3>6. \A i \in 1..Len(t) : i \in 1..n \/ i = n + 1
      BY <3>5
    <3>7. \A i \in 1..n : /\ s[i].type # "torn" => target[s[i].of] = k
                          /\ s[i].type = "command" => command[s[i].of] = "none"
                                /\ request'[s[i].of] \in {"wait", "leave", "over"}
                          /\ s[i].type = "cancel" => request'[s[i].of] = "over"
      BY <2>1, <1>3, <3>4
    <3>8. \A i, j \in 1..n : i < j /\ s[j].type = "command" /\ s[i].of = s[j].of => s[i].type = "torn"
      BY <3>1, <3>4 DEF InOrderOf
    <3> HIDE DEF s, t
    <3>9. ASSUME NEW i \in 1..Len(t)
          PROVE  /\ t[i].type # "torn" => target[t[i].of] = k
                 /\ t[i].type = "command" =>
                      command[t[i].of] = "none" /\ request'[t[i].of] \in {"wait", "leave", "over"}
                 /\ t[i].type = "cancel" => request'[t[i].of] = "over"
      <4>1. CASE i \in 1..n
        BY <4>1, <3>4, <3>7
      <4>2. CASE i = n + 1
        BY <4>2, <3>2, <3>5, <1>1, <1>k
      <4> QED
        BY <4>1, <4>2, <3>6
    <3>10. ASSUME NEW i \in 1..Len(t), NEW j \in 1..Len(t),
                  i < j, t[j].type = "command", t[i].of = t[j].of
           PROVE  t[i].type = "torn"
      <4>1. i \in 1..n
        BY <3>5, <3>10
      <4>2. CASE j \in 1..n
        BY <4>1, <4>2, <3>4, <3>8, <3>10
      <4>3. CASE j = n + 1
        BY <4>1, <4>3, <3>3, <3>4, <3>5, <3>10
      <4> QED
        BY <4>2, <4>3, <3>6
    <3> QED
      BY <3>9, <3>10 DEF InOrderOf, t
  <2> QED
    BY <2>2, <2>3 DEF FramesInOrder
<1>8. \A q \in Requests : Browser!Works(q)' <=> Browser!Works(q)
  BY DEF Browser!Works
<1>9. /\ Browser!OnItsWay(r, "command") => request[r] \in {"wait", "leave", "over"}
      /\ Browser!Works(r) => request[r] \notin {"idle", "gate"}
  BY SentBefore DEF Working, Browser!Works
<1>10. NotLeft'
  <2>1. ASSUME NEW q \in Requests \ {r}
        PROVE  /\ request'[q] = request[q] /\ (Kept(q) => Kept(q)')
               /\ \A kind \in {"command", "cancel"} :
                    Browser!OnItsWay(q, kind)' <=> Browser!OnItsWay(q, kind)
    BY <1>1, <1>3 DEF Kept
  <2>2. CASE said = "wait"
    <3>1. Browser!OnItsWay(r, "command")' /\ request'[r] = "wait"
      BY <2>2, <1>1, <1>3
    <3> QED
      BY <2>1, <3>1, <1>8 DEF NotLeft
  <2>3. CASE said = "over"
    <3>1. /\ request'[r] = "over" /\ type # "command"
          /\ request[r] = "leave" => Browser!OnItsWay(r, "cancel")' \/ r \in garbled'
      BY <2>3, <1>1, <1>3
    <3>2. Browser!OnItsWay(r, "command")' => Browser!OnItsWay(r, "command")
      BY <3>1, <1>3
    <3> QED
      BY <2>1, <3>1, <3>2, <1>8, <1>9 DEF NotLeft, Kept
  <2> QED
    BY <2>2, <2>3
<1> QED
  BY <1>4, <1>5, <1>6, <1>7, <1>10

\* The callers that write: a command, a cancel, or the beginning of either.
LEMMA WritesStep ==
    ASSUME BrokerInv, NEW r \in Requests,
           Browser!WriteCommand(r) \/ Browser!CancelledAtGate(r) \/ Browser!WriteCancel(r)
    PROVE  BrokerInv'
<1> USE DEF BrokerInv
<1>1. CASE Browser!WriteCommand(r)
  <2>1. /\ request[r] = "gate" /\ request' = [request EXCEPT ![r] = "wait"]
        /\ Browser!Sends(r, "command")
        /\ UNCHANGED <<target, answered, link, socket, reading, replies, command, aborted>>
        /\ awaited' = awaited /\ garbled' = garbled /\ cuts' = cuts
    BY <1>1 DEF Browser!WriteCommand, Browser!At, Browser!GoesTo, Browser!bridge, Browser!runtime
  <2>2. garbled' \subseteq Requests /\ cuts' \in 0..MaxCuts
    BY <2>1 DEF BrokerTypes
  <2> QED
    BY <2>1, <2>2, SendingStep
<1>2. ASSUME UNCHANGED outgoing, garbled \subseteq garbled', garbled' \subseteq Requests,
             request' = [request EXCEPT ![r] = "over"],
             UNCHANGED <<target, answered, link, socket, reading, replies, command, aborted, cuts>>,
             awaited' = awaited \ {r},
             \/ request[r] = "gate"
             \/ request[r] = "leave" /\ (socket[target[r]] # "open" \/ r \in garbled')
      PROVE  BrokerInv'
  <2>1. /\ request' \in [Requests -> {"idle", "gate", "wait", "leave", "over"}]
        /\ request'[r] = "over" /\ \A q \in Requests \ {r} : request'[q] = request[q]
    BY <1>2 DEF BrokerTypes
  <2>2. BrokerTypes'
    BY <1>2, <2>1 DEF BrokerTypes
  <2>3. Awaited'
    BY <1>2, <2>1 DEF Awaited
  <2>4. Working'
    BY <1>2, <2>1 DEF Working
  <2>5. /\ Browser!OnItsWay(r, "command") => request[r] # "gate"
        /\ Browser!Works(r) => request[r] # "gate"
        /\ \A q \in Requests : Browser!Works(q)' <=> Browser!Works(q)
    BY <1>2, SentBefore DEF Working, Browser!Works
  <2> QED
    BY <1>2, <2>1, <2>2, <2>3, <2>4, <2>5, SilentStep
<1>3. CASE Browser!CancelledAtGate(r)
  <2>1. /\ request[r] = "gate" /\ request' = [request EXCEPT ![r] = "over"]
        /\ UNCHANGED <<target, answered, link, socket, reading, replies, command, aborted>>
        /\ awaited' = awaited \ {r}
        /\ garbled' = garbled /\ garbled \subseteq garbled' /\ garbled' \subseteq Requests
        /\ (outgoing' = outgoing /\ cuts' = cuts) \/ Browser!Tears(r)
    BY <1>3 DEF Browser!CancelledAtGate, Browser!At, Browser!GoesTo, Browser!bridge, Browser!runtime,
                BrokerTypes
  <2>2. CASE Browser!Tears(r)
    <3>1. Browser!Sends(r, "torn") /\ cuts' \in 0..MaxCuts /\ garbled' \subseteq Requests
      BY <2>1, <2>2, ServicesAssumption DEF Browser!Tears, BrokerTypes
    <3> QED
      BY <2>1, <3>1, SendingStep
  <2> QED
    BY <2>1, <2>2, <1>2
<1>4. CASE Browser!WriteCancel(r)
  <2>1. /\ request[r] = "leave" /\ request' = [request EXCEPT ![r] = "over"]
        /\ UNCHANGED <<target, answered, link, socket, reading, replies, command, aborted, awaited>>
        /\ \/ Browser!Sends(r, "cancel") /\ garbled' = garbled /\ cuts' = cuts
           \/ /\ outgoing' = outgoing /\ cuts' = cuts
              /\ garbled \subseteq garbled' /\ garbled' \subseteq Requests
              /\ socket[target[r]] # "open" \/ r \in garbled'
           \/ Browser!Tears(r) /\ garbled' = garbled \cup {r}
    BY <1>4 DEF Browser!WriteCancel, Browser!At, Browser!GoesTo, Browser!bridge, Browser!runtime,
                BrokerTypes
  <2>2. r \notin awaited
    BY <2>1 DEF Awaited
  <2>3. awaited' = awaited \ {r} /\ r \notin awaited'
    BY <2>1, <2>2
  <2>4. CASE Browser!Sends(r, "cancel") /\ garbled' = garbled /\ cuts' = cuts
    <3>1. garbled' \subseteq Requests /\ cuts' \in 0..MaxCuts
      BY <2>4 DEF BrokerTypes
    <3> QED
      BY <2>1, <2>3, <2>4, <3>1, SendingStep
  <2>5. CASE Browser!Tears(r) /\ garbled' = garbled \cup {r}
    <3>1. /\ Browser!Sends(r, "torn") /\ cuts' \in 0..MaxCuts /\ garbled' \subseteq Requests
          /\ garbled \subseteq garbled' /\ r \in garbled'
      BY <2>5, ServicesAssumption DEF Browser!Tears, BrokerTypes
    <3> QED
      BY <2>1, <2>3, <3>1, SendingStep
  <2> QED
    BY <2>1, <2>3, <2>4, <2>5, <1>2
<1> QED
  BY <1>1, <1>3, <1>4

\* The frames of a connection but for the first.
LEMMA TailOfFrames ==
    ASSUME NEW s \in Seq(Frame), s # <<>>
    PROVE  /\ Tail(s) \in Seq(Frame) /\ Head(s) \in Frame /\ Head(s) = s[1]
           /\ Len(s) \in Nat /\ Len(s) > 0 /\ Len(Tail(s)) = Len(s) - 1
           /\ \A i \in 1..Len(Tail(s)) : Tail(s)[i] = s[i + 1] /\ i + 1 \in 1..Len(s)
           /\ \A f : f \in Browser!ToSet(s) <=> f = Head(s) \/ f \in Browser!ToSet(Tail(s))
<1>1. /\ Tail(s) \in Seq(Frame) /\ Head(s) \in Frame /\ Head(s) = s[1]
      /\ Len(s) \in Nat /\ Len(s) > 0 /\ Len(Tail(s)) = Len(s) - 1
      /\ \A i \in 1..Len(Tail(s)) : Tail(s)[i] = s[i + 1] /\ i + 1 \in 1..Len(s)
  OBVIOUS
<1>2. DOMAIN s = 1..Len(s) /\ DOMAIN Tail(s) = 1..Len(Tail(s))
  BY <1>1
<1>3. ASSUME NEW f, f \in Browser!ToSet(s) PROVE f = Head(s) \/ f \in Browser!ToSet(Tail(s))
  <2>1. PICK i \in 1..Len(s) : f = s[i]
    BY <1>2, <1>3 DEF Browser!ToSet
  <2>2. i = 1 \/ (i - 1 \in 1..Len(Tail(s)) /\ (i - 1) + 1 = i)
    BY <1>1
  <2> QED
    BY <2>1, <2>2, <1>1, <1>2 DEF Browser!ToSet
<1>4. ASSUME NEW f, f = Head(s) \/ f \in Browser!ToSet(Tail(s)) PROVE f \in Browser!ToSet(s)
  <2>1. CASE f = Head(s)
    <3>1. 1 \in 1..Len(s)
      BY <1>1
    <3> QED
      BY <2>1, <3>1, <1>1, <1>2 DEF Browser!ToSet
  <2>2. CASE f \in Browser!ToSet(Tail(s))
    <3>1. PICK i \in 1..Len(Tail(s)) : f = Tail(s)[i]
      BY <2>2, <1>2 DEF Browser!ToSet
    <3> QED
      BY <3>1, <1>1, <1>2 DEF Browser!ToSet
  <2> QED
    BY <1>4, <2>1, <2>2
<1> QED
  BY <1>1, <1>3, <1>4

\* What is in order stays so when the first frame is gone.
LEMMA TailInOrder ==
    ASSUME NEW s \in Seq(Frame), s # <<>>, NEW k, InOrderOf(s, k)
    PROVE  InOrderOf(Tail(s), k)
<1> DEFINE t == Tail(s)
<1>1. /\ Len(s) \in Nat /\ Len(t) = Len(s) - 1
      /\ \A i \in 1..Len(t) : t[i] = s[i + 1] /\ i + 1 \in 1..Len(s)
  BY TailOfFrames
<1> HIDE DEF t
<1>2. ASSUME NEW i \in 1..Len(t)
      PROVE  /\ t[i].type # "torn" => target[t[i].of] = k
             /\ t[i].type = "command" =>
                  command[t[i].of] = "none" /\ request[t[i].of] \in {"wait", "leave", "over"}
             /\ t[i].type = "cancel" => request[t[i].of] = "over"
  BY <1>1 DEF InOrderOf
<1>3. ASSUME NEW i \in 1..Len(t), NEW j \in 1..Len(t),
             i < j, t[j].type = "command", t[i].of = t[j].of
      PROVE  t[i].type = "torn"
  <2>1. t[i] = s[i + 1] /\ t[j] = s[j + 1] /\ i + 1 \in 1..Len(s) /\ j + 1 \in 1..Len(s) /\ i + 1 < j + 1
    BY <1>1, <1>3
  <2> QED
    BY <2>1, <1>3 DEF InOrderOf
<1>4. InOrderOf(t, k)
  BY <1>2, <1>3 DEF InOrderOf
<1> QED
  BY <1>4 DEF t

\* The runtime reads one frame of a connection or two: the rest is on its way.
LEMMA ReadsStep ==
    ASSUME BrokerTypes, NEW k \in Browser!Sockets, NEW u \in Seq(Frame),
           outgoing' = [outgoing EXCEPT ![k] = u], UNCHANGED target
    PROVE  /\ outgoing' \in [Browser!Sockets -> Seq(Frame)] /\ outgoing'[k] = u
           /\ \A j \in Browser!Sockets \ {k} : outgoing'[j] = outgoing[j]
           /\ \A q \in Requests, kind \in {"command", "cancel"} :
                /\ target[q] = k => /\ Browser!OnItsWay(q, kind) <=>
                                         [type |-> kind, of |-> q] \in Browser!ToSet(outgoing[k])
                                    /\ Browser!OnItsWay(q, kind)' <=>
                                         [type |-> kind, of |-> q] \in Browser!ToSet(u)
                /\ target[q] # k => (Browser!OnItsWay(q, kind)' <=> Browser!OnItsWay(q, kind))
<1>1. /\ outgoing' \in [Browser!Sockets -> Seq(Frame)] /\ outgoing'[k] = u
      /\ \A j \in Browser!Sockets \ {k} : outgoing'[j] = outgoing[j]
  BY DEF BrokerTypes
<1>2. k # 0
  BY DEF Browser!Sockets
<1>3. ASSUME NEW q \in Requests, NEW kind \in {"command", "cancel"}
      PROVE  /\ target[q] = k => /\ Browser!OnItsWay(q, kind) <=>
                                      [type |-> kind, of |-> q] \in Browser!ToSet(outgoing[k])
                                 /\ Browser!OnItsWay(q, kind)' <=>
                                      [type |-> kind, of |-> q] \in Browser!ToSet(u)
             /\ target[q] # k => (Browser!OnItsWay(q, kind)' <=> Browser!OnItsWay(q, kind))
  <2>1. target[q] # 0 => target[q] \in Browser!Sockets
    BY DEF BrokerTypes, Browser!Sockets
  <2> QED
    BY <2>1, <1>1, <1>2 DEF Browser!OnItsWay
<1> QED
  BY <1>1, <1>3

\* What the runtime reads: a command, a cancel, or a frame that was cut.
ReadCommand(k, r) ==
    /\ Head(outgoing[k]) = [type |-> "command", of |-> r]
    /\ command' = [command EXCEPT ![r] = "queued"]
    /\ outgoing' = [outgoing EXCEPT ![k] = Tail(outgoing[k])] /\ UNCHANGED <<aborted, garbled>>

ReadCancel(k, r) ==
    /\ Head(outgoing[k]) = [type |-> "cancel", of |-> r]
    /\ aborted' = IF command[r] \in {"queued", "running"} THEN aborted \cup {r} ELSE aborted
    /\ outgoing' = [outgoing EXCEPT ![k] = Tail(outgoing[k])] /\ UNCHANGED <<command, garbled>>

ReadTorn(k, u, r) ==
    /\ garbled' = garbled \cup {r}
    /\ outgoing' = [outgoing EXCEPT ![k] = u] /\ UNCHANGED <<command, aborted>>

\* What the runtime's reading leaves alone.
Elsewhere ==
    UNCHANGED <<request, target, awaited, answered, link, socket, reading, replies, cuts>>

\* The runtime reads a command.
LEMMA ReadCommandStep ==
    ASSUME BrokerInv, NEW k \in Browser!Sockets, outgoing[k] # <<>>, NEW r \in Requests,
           ReadCommand(k, r), Elsewhere
    PROVE  BrokerInv'
<1> USE DEF BrokerInv, Elsewhere
<1>s. PICK s \in Seq(Frame) : s = outgoing[k]
  BY DEF BrokerTypes
<1>1. s # <<>> /\ InOrderOf(s, k)
  BY <1>s DEF FramesInOrder
<1>u. PICK u \in Seq(Frame) : u = Tail(s)
  BY <1>1, TailOfFrames
<1>2. /\ InOrderOf(u, k) /\ Head(s) = s[1] /\ Len(s) \in Nat /\ Len(s) > 0
      /\ Len(u) = Len(s) - 1
      /\ \A i \in 1..Len(u) : u[i] = s[i + 1] /\ i + 1 \in 1..Len(s)
      /\ \A f : f \in Browser!ToSet(s) <=> f = Head(s) \/ f \in Browser!ToSet(u)
  BY <1>1, <1>u, TailOfFrames, TailInOrder
<1>3. outgoing' = [outgoing EXCEPT ![k] = u]
  BY <1>s, <1>u DEF ReadCommand
<1>4. s[1].type = "command" /\ s[1].of = r /\ Head(s) = [type |-> "command", of |-> r] /\ 1 \in 1..Len(s)
  BY <1>2, <1>s DEF ReadCommand
<1>5. target[r] = k /\ command[r] = "none" /\ request[r] \in {"wait", "leave", "over"}
  BY <1>1, <1>4 DEF InOrderOf
<1>6. \A i \in 1..Len(u) : ~(u[i].type = "command" /\ u[i].of = r)
  <2>1. ASSUME NEW i \in 1..Len(u), u[i].type = "command", u[i].of = r PROVE FALSE
    <3>1. u[i] = s[i + 1] /\ i + 1 \in 1..Len(s) /\ 1 < i + 1
      BY <1>2
    <3> QED
      BY <3>1, <2>1, <1>1, <1>4 DEF InOrderOf
  <2> QED
    BY <2>1
<1>7. /\ command' \in [Requests -> {"none", "queued", "running", "over"}]
      /\ command'[r] = "queued" /\ \A q \in Requests \ {r} : command'[q] = command[q]
      /\ UNCHANGED <<aborted, garbled>>
  BY DEF ReadCommand, BrokerTypes
<1>8. /\ outgoing' \in [Browser!Sockets -> Seq(Frame)] /\ outgoing'[k] = u
      /\ \A j \in Browser!Sockets \ {k} : outgoing'[j] = outgoing[j]
      /\ \A q \in Requests, kind \in {"command", "cancel"} :
           /\ target[q] = k => /\ Browser!OnItsWay(q, kind) <=>
                                    [type |-> kind, of |-> q] \in Browser!ToSet(s)
                               /\ Browser!OnItsWay(q, kind)' <=>
                                    [type |-> kind, of |-> q] \in Browser!ToSet(u)
           /\ target[q] # k => (Browser!OnItsWay(q, kind)' <=> Browser!OnItsWay(q, kind))
  <2>1. BrokerTypes /\ UNCHANGED target /\ outgoing[k] = s
    BY <1>s
  <2>2. /\ outgoing' \in [Browser!Sockets -> Seq(Frame)] /\ outgoing'[k] = u
        /\ \A j \in Browser!Sockets \ {k} : outgoing'[j] = outgoing[j]
        /\ \A q \in Requests, kind \in {"command", "cancel"} :
             /\ target[q] = k => /\ Browser!OnItsWay(q, kind) <=>
                                      [type |-> kind, of |-> q] \in Browser!ToSet(outgoing[k])
                                 /\ Browser!OnItsWay(q, kind)' <=>
                                      [type |-> kind, of |-> q] \in Browser!ToSet(u)
             /\ target[q] # k => (Browser!OnItsWay(q, kind)' <=> Browser!OnItsWay(q, kind))
    BY <2>1, <1>3, ReadsStep
  <2> QED
    BY <2>1, <2>2, Zenon
<1>9. BrokerTypes'
  BY <1>7, <1>8 DEF BrokerTypes
<1>10. Awaited'
  BY <1>7 DEF Awaited
<1>11. Working'
  <2>1. \A j \in Browser!Sockets : r \notin replies[j]
    BY <1>5 DEF Working
  <2>2. \A j \in Browser!Sockets : \A q \in replies[j] : q \in Requests \ {r}
    BY <2>1 DEF BrokerTypes
  <2> QED
    <3>1. UNCHANGED <<request, target, answered, socket, replies, aborted>>
      BY <1>7
    <3>2. \A q \in Requests :
            /\ request[q] \in {"idle", "gate"} => command'[q] = "none"
            /\ command'[q] # "none" => target[q] # 0
            /\ q \in aborted => /\ command'[q] # "none"
                                /\ request[q] = "over" \/ socket[target[q]] # "open"
            /\ q \in answered => socket[target[q]] # "open" \/ command'[q] = "over"
      <4>1. k # 0 /\ r \notin aborted /\ (r \in answered => socket[target[r]] # "open")
        BY <1>5 DEF Working, Browser!Sockets
      <4> QED
        BY <4>1, <1>5, <1>7 DEF Working
    <3>3. \A j \in Browser!Sockets : \A q \in replies[j] : target[q] = j /\ command'[q] = "over"
      BY <2>2, <1>7 DEF Working
    <3> QED
      BY <3>1, <3>2, <3>3 DEF Working
<1>12. FramesInOrder'
  <2>1. InOrderOf(u, k)'
    <3>1. \A i \in 1..Len(u) : u[i].of \in Requests
      <4>1. \A i \in 1..Len(u) : u[i] \in Frame
        BY <1>2
      <4> QED
        BY <4>1 DEF Frame
    <3> QED
      BY <3>1, <1>2, <1>6, <1>7 DEF InOrderOf
  <2>2. ASSUME NEW j \in Browser!Sockets \ {k} PROVE InOrderOf(outgoing[j], j)'
    <3>1. InOrderOf(outgoing[j], j) /\ outgoing'[j] = outgoing[j]
      BY <1>8 DEF FramesInOrder
    <3>2. \A i \in 1..Len(outgoing[j]) : outgoing[j][i].of \in Requests
      <4>1. \A i \in 1..Len(outgoing[j]) : outgoing[j][i] \in Frame
        BY DEF BrokerTypes
      <4> QED
        BY <4>1 DEF Frame
    <3> QED
      BY <3>1, <3>2, <1>5, <1>7 DEF InOrderOf
  <2> QED
    BY <2>1, <2>2, <1>8 DEF FramesInOrder
<1>13. NotLeft'
  <2>1. ASSUME NEW q \in Requests, NEW kind \in {"command", "cancel"}, q # r \/ kind = "cancel"
        PROVE  Browser!OnItsWay(q, kind)' <=> Browser!OnItsWay(q, kind)
    <3>1. [type |-> kind, of |-> q] # Head(s)
      BY <2>1, <1>4
    <3> QED
      BY <3>1, <1>2, <1>8
  <2>2. /\ \A q \in Requests \ {r} : /\ Browser!OnItsWay(q, "command")' <=> Browser!OnItsWay(q, "command")
                                     /\ Browser!Works(q)' <=> Browser!Works(q)
        /\ \A q \in Requests : Browser!OnItsWay(q, "cancel")' <=> Browser!OnItsWay(q, "cancel")
    BY <2>1, <1>7 DEF Browser!Works
  <2>4. Browser!OnItsWay(r, "command")
    BY <1>2, <1>4, <1>5, <1>8
  <2>3. Browser!Works(r)'
    BY <1>5, <1>7 DEF Browser!Works, Working
  <2> QED
    BY <2>2, <2>3, <2>4, <1>7 DEF NotLeft, Kept
<1> QED
  BY <1>9, <1>10, <1>11, <1>12, <1>13

\* What is in order says who sent it, and whom it is for.
LEMMA OrderKept ==
    ASSUME BrokerInv, NEW k \in Browser!Sockets, NEW u \in Seq(Frame), InOrderOf(u, k),
           outgoing' = [outgoing EXCEPT ![k] = u], UNCHANGED <<request, target, command>>
    PROVE  FramesInOrder'
<1> USE DEF BrokerInv
<1>1. /\ outgoing'[k] = u /\ \A j \in Browser!Sockets \ {k} : outgoing'[j] = outgoing[j]
  BY DEF BrokerTypes
<1>2. ASSUME NEW j \in Browser!Sockets PROVE InOrderOf(outgoing[j], j)'
  <2>1. InOrderOf(outgoing'[j], j)
    BY <1>1 DEF FramesInOrder
  <2> QED
    BY <2>1 DEF InOrderOf
<1> QED
  BY <1>2 DEF FramesInOrder

\* The runtime reads a cancel.
LEMMA ReadCancelStep ==
    ASSUME BrokerInv, NEW k \in Browser!Sockets, outgoing[k] # <<>>, NEW r \in Requests,
           ReadCancel(k, r), Elsewhere
    PROVE  BrokerInv'
<1> USE DEF BrokerInv, Elsewhere
<1>s. PICK s \in Seq(Frame) : s = outgoing[k]
  BY DEF BrokerTypes
<1>1. s # <<>> /\ InOrderOf(s, k)
  BY <1>s DEF FramesInOrder
<1>u. PICK u \in Seq(Frame) : u = Tail(s)
  BY <1>1, TailOfFrames
<1>2. /\ InOrderOf(u, k) /\ Head(s) = s[1] /\ Len(s) \in Nat /\ Len(s) > 0
      /\ Len(u) = Len(s) - 1
      /\ \A i \in 1..Len(u) : u[i] = s[i + 1] /\ i + 1 \in 1..Len(s)
      /\ \A f : f \in Browser!ToSet(s) <=> f = Head(s) \/ f \in Browser!ToSet(u)
  BY <1>1, <1>u, TailOfFrames, TailInOrder
<1>3. outgoing' = [outgoing EXCEPT ![k] = u]
  BY <1>s, <1>u DEF ReadCancel
<1>4. s[1].type = "cancel" /\ s[1].of = r /\ Head(s) = [type |-> "cancel", of |-> r] /\ 1 \in 1..Len(s)
  BY <1>2, <1>s DEF ReadCancel
<1>5. target[r] = k /\ request[r] = "over" /\ k # 0
  BY <1>1, <1>4 DEF InOrderOf, Browser!Sockets
<1>6. [type |-> "command", of |-> r] \notin Browser!ToSet(s)
  <2> SUFFICES ASSUME [type |-> "command", of |-> r] \in Browser!ToSet(s) PROVE FALSE
    OBVIOUS
  <2>1. PICK i \in 1..Len(s) : s[i] = [type |-> "command", of |-> r]
    BY DEF Browser!ToSet
  <2>2. s[i].type = "command" /\ s[i].of = r /\ (i = 1 \/ 1 < i)
    BY <2>1, <1>2
  <2> QED
    BY <2>2, <1>1, <1>4 DEF InOrderOf
<1>7. /\ aborted \subseteq aborted' /\ \A q \in aborted' : q \in aborted \/ q = r
      /\ r \in aborted' => r \in aborted \/ command[r] # "none"
      /\ command[r] \in {"queued", "running"} => r \in aborted'
      /\ UNCHANGED <<command, garbled>>
  BY DEF ReadCancel
<1>8. /\ outgoing' \in [Browser!Sockets -> Seq(Frame)] /\ outgoing'[k] = u
      /\ \A j \in Browser!Sockets \ {k} : outgoing'[j] = outgoing[j]
      /\ \A q \in Requests, kind \in {"command", "cancel"} :
           /\ target[q] = k => /\ Browser!OnItsWay(q, kind) <=>
                                    [type |-> kind, of |-> q] \in Browser!ToSet(s)
                               /\ Browser!OnItsWay(q, kind)' <=>
                                    [type |-> kind, of |-> q] \in Browser!ToSet(u)
           /\ target[q] # k => (Browser!OnItsWay(q, kind)' <=> Browser!OnItsWay(q, kind))
  <2>1. BrokerTypes /\ UNCHANGED target /\ outgoing[k] = s
    BY <1>s
  <2>2. /\ outgoing' \in [Browser!Sockets -> Seq(Frame)] /\ outgoing'[k] = u
        /\ \A j \in Browser!Sockets \ {k} : outgoing'[j] = outgoing[j]
        /\ \A q \in Requests, kind \in {"command", "cancel"} :
             /\ target[q] = k => /\ Browser!OnItsWay(q, kind) <=>
                                      [type |-> kind, of |-> q] \in Browser!ToSet(outgoing[k])
                                 /\ Browser!OnItsWay(q, kind)' <=>
                                      [type |-> kind, of |-> q] \in Browser!ToSet(u)
             /\ target[q] # k => (Browser!OnItsWay(q, kind)' <=> Browser!OnItsWay(q, kind))
    BY <2>1, <1>3, ReadsStep
  <2> QED
    BY <2>1, <2>2, Zenon
<1>9. BrokerTypes'
  BY <1>7, <1>8 DEF BrokerTypes
<1>10. Awaited'
  BY <1>7 DEF Awaited
<1>11. Working'
  BY <1>5, <1>7 DEF Working
<1>12. FramesInOrder'
  <2>1. UNCHANGED <<request, target, command>>
    BY <1>7
  <2> QED
    BY <2>1, <1>2, <1>3, OrderKept
<1>13. NotLeft'
  <2>1. ASSUME NEW q \in Requests, NEW kind \in {"command", "cancel"}, q # r \/ kind = "command"
        PROVE  Browser!OnItsWay(q, kind)' <=> Browser!OnItsWay(q, kind)
    <3>1. [type |-> kind, of |-> q] # Head(s)
      BY <2>1, <1>4
    <3> QED
      BY <3>1, <1>2, <1>8
  <2>2. \A q \in Requests \ {r} :
          /\ Browser!OnItsWay(q, "command")' <=> Browser!OnItsWay(q, "command")
          /\ Browser!OnItsWay(q, "cancel")' <=> Browser!OnItsWay(q, "cancel")
          /\ Browser!Works(q)' <=> Browser!Works(q)
    BY <2>1, <1>7 DEF Browser!Works
  <2>3. ~Browser!OnItsWay(r, "command") /\ ~Browser!OnItsWay(r, "command")'
    BY <2>1, <1>5, <1>6, <1>8
  <2>4. ~Browser!Works(r)'
    BY <1>7 DEF Browser!Works
  <2> QED
    BY <2>2, <2>3, <2>4, <1>5, <1>7 DEF NotLeft, Kept
<1> QED
  BY <1>9, <1>10, <1>11, <1>12, <1>13

\* The runtime reads a line that is no frame.
LEMMA ReadTornStep ==
    ASSUME BrokerInv, NEW k \in Browser!Sockets, NEW r \in Requests, NEW u \in Seq(Frame),
           InOrderOf(u, k), ReadTorn(k, u, r), Elsewhere,
           \A f : f \in Browser!ToSet(u) => f \in Browser!ToSet(outgoing[k]),
           \A f : f \in Browser!ToSet(outgoing[k]) =>
                    f \in Browser!ToSet(u) \/ f.type = "torn" \/ f.of = r
    PROVE  BrokerInv'
<1> USE DEF BrokerInv, Elsewhere
<1>1. /\ outgoing' = [outgoing EXCEPT ![k] = u] /\ UNCHANGED <<command, aborted>>
      /\ garbled' \subseteq Requests /\ garbled \subseteq garbled' /\ r \in garbled'
  BY DEF ReadTorn, BrokerTypes
<1>2. /\ outgoing' \in [Browser!Sockets -> Seq(Frame)] /\ outgoing'[k] = u
      /\ \A j \in Browser!Sockets \ {k} : outgoing'[j] = outgoing[j]
      /\ \A q \in Requests, kind \in {"command", "cancel"} :
           /\ target[q] = k => /\ Browser!OnItsWay(q, kind) <=>
                                    [type |-> kind, of |-> q] \in Browser!ToSet(outgoing[k])
                               /\ Browser!OnItsWay(q, kind)' <=>
                                    [type |-> kind, of |-> q] \in Browser!ToSet(u)
           /\ target[q] # k => (Browser!OnItsWay(q, kind)' <=> Browser!OnItsWay(q, kind))
  <2>1. BrokerTypes /\ UNCHANGED target
    OBVIOUS
  <2> QED
    BY <2>1, <1>1, ReadsStep
<1>3. BrokerTypes'
  BY <1>1, <1>2 DEF BrokerTypes
<1>4. Awaited'
  BY <1>1 DEF Awaited
<1>5. Working'
  BY <1>1 DEF Working
<1>6. FramesInOrder'
  <2>1. UNCHANGED <<request, target, command>>
    BY <1>1
  <2> QED
    BY <2>1, <1>1, OrderKept
<1>7. NotLeft'
  <2>1. ASSUME NEW q \in Requests, NEW kind \in {"command", "cancel"}
        PROVE  /\ Browser!OnItsWay(q, kind)' => Browser!OnItsWay(q, kind)
               /\ Browser!OnItsWay(q, kind) => Browser!OnItsWay(q, kind)' \/ q = r
    <3>1. [type |-> kind, of |-> q].type # "torn" /\ [type |-> kind, of |-> q].of = q
      OBVIOUS
    <3> QED
      BY <3>1, <1>2
  <2>2. \A q \in Requests :
          /\ Browser!OnItsWay(q, "command")' => Browser!OnItsWay(q, "command")
          /\ Browser!OnItsWay(q, "command") => Browser!OnItsWay(q, "command")' \/ q = r
          /\ Browser!OnItsWay(q, "cancel") => Browser!OnItsWay(q, "cancel")' \/ q = r
          /\ Browser!Works(q)' <=> Browser!Works(q)
    BY <2>1, <1>1 DEF Browser!Works
  <2> QED
    BY <2>2, <1>1 DEF NotLeft, Kept
<1> QED
  BY <1>3, <1>4, <1>5, <1>6, <1>7

\* The runtime reads what is first on a connection.
LEMMA ConsumeStep ==
    ASSUME BrokerInv, NEW k \in Browser!Sockets, Browser!Consume(k)
    PROVE  BrokerInv'
<1> USE DEF BrokerInv
<1>s. PICK s \in Seq(Frame) : s = outgoing[k]
  BY DEF BrokerTypes
<1>1. s # <<>> /\ InOrderOf(s, k) /\ Elsewhere
  BY <1>s DEF FramesInOrder, Browser!Consume, Elsewhere, Browser!callers, Browser!bridge
<1>u. PICK u \in Seq(Frame) : u = Tail(s)
  BY <1>1, TailOfFrames
<1>2. /\ InOrderOf(u, k) /\ Head(s) \in Frame
      /\ \A f : f \in Browser!ToSet(s) <=> f = Head(s) \/ f \in Browser!ToSet(u)
  BY <1>1, <1>u, TailOfFrames, TailInOrder
<1>3. /\ Head(s).of \in Requests /\ Head(s).type \in {"command", "cancel", "torn"}
      /\ Head(s) = [type |-> Head(s).type, of |-> Head(s).of]
  BY <1>2 DEF Frame
<1>4. CASE Head(s).type = "command"
  <2>1. ReadCommand(k, Head(s).of)
    BY <1>3, <1>4, <1>s, <1>u DEF Browser!Consume, ReadCommand
  <2> QED
    BY <2>1, <1>1, <1>3, <1>s, ReadCommandStep
<1>5. CASE Head(s).type = "cancel"
  <2>1. ReadCancel(k, Head(s).of)
    BY <1>3, <1>5, <1>s, <1>u DEF Browser!Consume, ReadCancel
  <2> QED
    BY <2>1, <1>1, <1>3, <1>s, ReadCancelStep
<1>6. CASE Head(s).type = "torn"
  <2>1. u # <<>> /\ ReadTorn(k, IF Head(u).type = "torn" THEN u ELSE Tail(u), Head(u).of)
    BY <1>6, <1>s, <1>u DEF Browser!Consume, ReadTorn, Browser!runtime
  <2>2. /\ Tail(u) \in Seq(Frame) /\ Head(u) \in Frame /\ InOrderOf(Tail(u), k)
        /\ \A f : f \in Browser!ToSet(u) <=> f = Head(u) \/ f \in Browser!ToSet(Tail(u))
    BY <2>1, <1>2, TailOfFrames, TailInOrder
  <2>3. Head(u).of \in Requests
    BY <2>2 DEF Frame
  <2>4. PICK v \in Seq(Frame) : v = IF Head(u).type = "torn" THEN u ELSE Tail(u)
    BY <2>2
  <2>5. /\ InOrderOf(v, k) /\ ReadTorn(k, v, Head(u).of)
        /\ \A f : f \in Browser!ToSet(v) => f \in Browser!ToSet(s)
        /\ \A f : f \in Browser!ToSet(s) =>
                    f \in Browser!ToSet(v) \/ f.type = "torn" \/ f.of = Head(u).of
    BY <2>1, <2>2, <2>4, <1>2, <1>6
  <2> QED
    BY <2>3, <2>5, <1>1, <1>s, ReadTornStep
<1> QED
  BY <1>3, <1>4, <1>5, <1>6

\* Every step of the commands keeps the invariant.
LEMMA BrokerStep == BrokerInv /\ [Browser!BrokerNext]_brokerVars => BrokerInv'
<1> SUFFICES ASSUME BrokerInv, [Browser!BrokerNext]_brokerVars PROVE BrokerInv'
  OBVIOUS
<1>1. CASE UNCHANGED brokerVars
  <2>1. UNCHANGED <<request, target, awaited, answered, link, socket, reading, outgoing, replies,
                    command, aborted, garbled, cuts>>
    BY <1>1 DEF brokerVars
  <2>2. BrokerTypes' /\ Awaited' /\ Working'
    BY <2>1 DEF BrokerInv, BrokerTypes, Awaited, Working
  <2>3. \A q \in Requests : Browser!Works(q)' <=> Browser!Works(q)
    BY <2>1 DEF Browser!Works
  <2>4. \A q \in Requests : request[q] = "over" => request'[q] = "over"
    BY <2>1
  <2> QED
    BY <2>1, <2>2, <2>3, <2>4, SilentStep
<1>2. CASE Browser!BrokerNext
  <2>1. ASSUME NEW r \in Requests,
               \/ Browser!Execute(r) \/ Browser!WriteCommand(r) \/ Browser!CancelledAtGate(r)
               \/ Browser!WriteFails(r) \/ Browser!Return(r) \/ Browser!Leave(r)
               \/ Browser!WriteCancel(r) \/ Browser!Run(r) \/ Browser!Finish(r)
        PROVE  BrokerInv'
    BY <2>1, ExecuteStep, WritesStep, LossOfLink, ReturnsOrLeaves, RunsStep
  <2>2. ASSUME NEW k \in Browser!Sockets,
               \/ Browser!Accept(k) \/ Browser!RuntimeCloses(k) \/ Browser!RuntimeNotices(k)
               \/ Browser!DaemonNotices(k) \/ Browser!Consume(k)
               \/ \E r \in Requests : Browser!Resolve(k, r)
        PROVE  BrokerInv'
    BY <2>2, AcceptStep, RuntimeLeaves, LossOfLink, ConsumeStep, ResolveStep
  <2>3. CASE Browser!Connect
    BY <2>3, RuntimeLeaves
  <2> QED
    BY <1>2, <2>1, <2>2, <2>3 DEF Browser!BrokerNext
<1> QED
  BY <1>1, <1>2

\* Nobody has called yet.
LEMMA BrokerBegins == ServicesInit => BrokerInv
<1> SUFFICES ASSUME ServicesInit PROVE BrokerInv
  OBVIOUS
<1>1. /\ request = [r \in Requests |-> "idle"] /\ target = [r \in Requests |-> 0]
      /\ awaited = {} /\ answered = {} /\ link = 0
      /\ socket = [k \in Browser!Sockets |-> "none"] /\ reading = {}
      /\ outgoing = [k \in Browser!Sockets |-> <<>>] /\ replies = [k \in Browser!Sockets |-> {}]
      /\ command = [r \in Requests |-> "none"] /\ aborted = {} /\ garbled = {} /\ cuts = 0
  BY DEF ServicesInit, Browser!BrokerInit
<1>2. BrokerTypes
  BY <1>1, ServicesAssumption DEF BrokerTypes
<1>3. Awaited
  BY <1>1 DEF Awaited
<1>4. Working
  BY <1>1 DEF Working
<1>5. FramesInOrder
  BY <1>1 DEF FramesInOrder, InOrderOf
<1>6. NotLeft
  BY <1>1 DEF NotLeft
<1> QED
  BY <1>2, <1>3, <1>4, <1>5, <1>6 DEF BrokerInv

\* The invariant of the commands holds throughout: the other parts leave them be.
LEMMA BrokerInvariant == Services => []BrokerInv
<1>1. [ServicesNext]_services => [Browser!BrokerNext]_brokerVars
  BY DEF ServicesNext, services, desktopVars, brokerVars, Notifications, ShellTerminals, Launches,
         ChangeFeed, Nudging, Merging, Previews, BrowserCommands, TerminalViews
<1> QED
  BY <1>1, BrokerBegins, BrokerStep, PTL DEF Services

\* Whichever side of a browser command gives up or loses the connection first,
\* neither is left behind; for any number of callers, connections and cut writes.
THEOREM NobodyLeftBehind == Services => []BothEnds
<1>1. BrokerInv => BothEnds
  <2> SUFFICES ASSUME BrokerInv PROVE BothEnds
    OBVIOUS
  <2>1. ASSUME NEW r \in Requests, request[r] = "wait", r \notin answered
        PROVE  /\ r \in awaited /\ link = target[r]
               /\ \/ socket[link] # "open" \/ r \in garbled
                  \/ Browser!OnItsWay(r, "command") \/ Browser!Works(r) \/ r \in replies[link]
    <3>1. r \in awaited /\ link = target[r]
      BY <2>1 DEF BrokerInv, Awaited
    <3> QED
      BY <2>1, <3>1 DEF BrokerInv, NotLeft, Kept
  <2>2. ASSUME NEW r \in Requests, request[r] = "over",
               Browser!Works(r) \/ Browser!OnItsWay(r, "command")
        PROVE  socket[target[r]] # "open" \/ r \in garbled \/ Browser!OnItsWay(r, "cancel")
    BY <2>2 DEF BrokerInv, NotLeft, Kept
  <2>3. \A k \in Browser!Sockets : socket[k] = "open" => link = k
    BY DEF BrokerInv, Awaited
  <2> QED
    BY <2>1, <2>2, <2>3 DEF BothEnds, Browser!BothEnds, Browser!At
<1> QED
  BY <1>1, BrokerInvariant, PTL

=============================================================================
