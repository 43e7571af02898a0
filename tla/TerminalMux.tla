------------------------------ MODULE TerminalMux ------------------------------
(***************************************************************************)
(* The clients that view one terminal.  Each connection has its own stream  *)
(* to the runtime, opened, resized and reopened by the loop of its          *)
(* attachment; the manager picks one grid for all of them.  The loop, the   *)
(* connection's reader and the other connections share no lock across a     *)
(* call, so a client may close and reopen while the old loop still ends.    *)
(***************************************************************************)
EXTENDS Integers, SequencesExt

CONSTANTS
    Clients,     \* connections
    MaxGrid,     \* grids, by their area; 0 is a size not reported
    MaxTaps,     \* bound: attachments with a loop at a time
    MaxFrames    \* bound: open, resize and data frames

VARIABLES
    opened,     \* per client, connState.terms: its attachment, or 0
    frames,
    member,     \* per client, termMember: [tap, grid, primary]; tap 0 is no member
    authority,  \* sharedTerm.authCols and authRows
    tap,        \* per attachment: [owner, at, grid, closed]
    screen,     \* per attachment, the grid its stream has
    replay,     \* per attachment, the grid that setPTY has still to apply
    input,      \* per attachment, keys: [taken, pending, batch, delivered]
    stale,      \* attachments whose stream was set back by a replay
    evicted     \* clients whose open attachment an earlier one took out of the arbitration

viewers == <<opened, frames, member, authority>>
muxVars == <<viewers, tap, screen, replay, input, stale, evicted>>

Taps == 1..MaxTaps
Grids == 0..MaxGrid
NoMember == [tap |-> 0, grid |-> 0, primary |-> FALSE]
NoTap == [owner |-> CHOOSE c \in Clients : TRUE, at |-> "over", grid |-> 0, closed |-> FALSE]
NoInput == [taken |-> <<>>, pending |-> <<>>, batch |-> <<>>, delivered |-> <<>>]

MuxInit ==
    /\ opened = [c \in Clients |-> 0] /\ frames = 0
    /\ member = [c \in Clients |-> NoMember] /\ authority = 0
    /\ tap = [a \in Taps |-> NoTap] /\ screen = [a \in Taps |-> 0] /\ replay = [a \in Taps |-> 0]
    /\ input = [a \in Taps |-> NoInput]
    /\ stale = {} /\ evicted = {}

At(a, at) == tap[a].at = at

\* The stream is known to the attachment; it takes input once it was flushed.
Published(t) == t.at \in {"replay", "flush", "write", "copy"} /\ ~t.closed
InputReady(t) == t.at = "copy"

-----------------------------------------------------------------------------
(* Arbitration                                                             *)

Members(m) == {c \in Clients : m[c].tap # 0}

LargestGrid(m) ==
    LET sized == {c \in Members(m) : m[c].grid > 0}
        primary == {c \in sized : m[c].primary}
    IN Max({m[c].grid : c \in IF primary # {} THEN primary ELSE sized} \cup {0})

\* resize, of every member that is listed: recorded, and applied to a stream
\* that is published.
Resized(t, m, listed, g) ==
    LET hit == {m[c].tap : c \in listed}
        streams == {a \in hit : Published(t[a])}
    IN /\ tap' = [a \in Taps |-> IF a \in hit THEN [t[a] EXCEPT !.grid = g] ELSE t[a]]
       /\ screen' = [a \in Taps |-> IF a \in streams THEN g ELSE IF t[a] # NoTap THEN screen[a] ELSE 0]
       /\ stale' = {a \in stale \ streams : t[a] # NoTap}

\* Seeded fault: the grid follows the members that remain only when it grows.
ReconcileGrows(t, m, force, joining) ==
    LET best == LargestGrid(m)
        act == best > authority \/ (best > 0 /\ force)
    IN /\ member' = m
       /\ authority' = IF Members(m) = {} THEN 0 ELSE IF act THEN best ELSE authority
       /\ Resized(t, m, IF act THEN Members(m) ELSE IF authority > 0 THEN joining ELSE {},
                  IF act THEN best ELSE authority)

\* The joining client is told the grid even if the others need not be.
Reconcile(t, m, force, joining) ==
    LET best == LargestGrid(m)
        act == best > 0 /\ (best # authority \/ force)
    IN /\ member' = m
       /\ authority' = IF Members(m) = {} THEN 0 ELSE IF best > 0 THEN best ELSE authority
       /\ Resized(t, m, IF act THEN Members(m) ELSE IF authority > 0 THEN joining ELSE {},
                  IF act THEN best ELSE authority)

LeaveTerminal(t, c) ==
    IF member[c].tap = 0
      THEN Resized(t, member, {}, 0) /\ UNCHANGED <<member, authority>>
      ELSE Reconcile(t, [member EXCEPT ![c] = NoMember], FALSE, {})

-----------------------------------------------------------------------------
(* The connection's reader                                                 *)

Frame == frames < MaxFrames /\ frames' = frames + 1

OpenTerminal(c, g, primary) ==
    /\ Frame /\ opened[c] = 0
    /\ \E a \in Taps :
        /\ At(a, "over") /\ \A b \in 1..(a - 1) : ~At(b, "over")
        /\ opened' = [opened EXCEPT ![c] = a]
        /\ Reconcile([tap EXCEPT ![a] = [NoTap EXCEPT !.owner = c, !.at = "probe"]],
                     [member EXCEPT ![c] = [tap |-> a, grid |-> g, primary |-> primary]], FALSE, {c})
    /\ evicted' = evicted \ {c}
    /\ UNCHANGED <<replay, input>>

UpdateTerminalSize(c, g, force) ==
    /\ Frame /\ member[c].tap # 0 /\ (force \/ member[c].grid # g)
    /\ Reconcile(tap, [member EXCEPT ![c].grid = g], force, {})
    /\ UNCHANGED <<opened, replay, input, evicted>>

\* close: what waits is dropped, and the loop stops where it looks next; one
\* that is about to report the end, or in the middle of a write, does not look.
Detached(a) ==
    [tap EXCEPT ![a] = IF @.at \in {"exiting", "write"} THEN [@ EXCEPT !.closed = TRUE] ELSE NoTap]

\* The cleanup of a connection that is gone does the same.
CloseTerminal(c) ==
    /\ opened[c] # 0
    /\ opened' = [opened EXCEPT ![c] = 0]
    /\ evicted' = evicted \ {c}
    /\ LeaveTerminal(Detached(opened[c]), c)
    /\ input' = [input EXCEPT ![opened[c]] = NoInput]
    /\ replay' = [replay EXCEPT ![opened[c]] = 0]
    /\ UNCHANGED frames

\* Keys typed before the stream is ready wait for it.  What a stream does with
\* a key at the moment it ends is not looked at.
Write(c) ==
    /\ Frame /\ opened[c] # 0
    /\ LET a == opened[c]
           k == Len(input[a].taken) + 1
           ready == InputReady(tap[a])
       IN input' = [input EXCEPT
            ![a].taken = Append(@, k),
            ![a].pending = IF ready THEN @ ELSE Append(@, k),
            ![a].delivered = IF ready THEN Append(@, k) ELSE @]
    /\ UNCHANGED <<opened, member, authority, tap, screen, replay, stale, evicted>>

-----------------------------------------------------------------------------
(* The loop of an attachment                                               *)

Goes(a, at) == tap' = [tap EXCEPT ![a].at = at]

\* Alive, the runtime is attached to at the grid of the moment.  A probe or an
\* attach that fails is repeated, or given up after the cap.
Attach(a) ==
    /\ At(a, "probe")
    /\ \/ Goes(a, "publish") /\ screen' = [screen EXCEPT ![a] = tap[a].grid] /\ stale' = stale \ {a}
       \/ Goes(a, "exiting") /\ UNCHANGED <<screen, stale>>
    /\ UNCHANGED <<viewers, replay, input, evicted>>

\* Seeded fault: a grid that arrived since the stream was opened is not replayed.
SetPTYUnsized(a) ==
    /\ At(a, "publish") /\ Goes(a, "replay")
    /\ UNCHANGED <<viewers, screen, replay, input, stale, evicted>>

SetPTY(a) ==
    /\ At(a, "publish") /\ Goes(a, "replay")
    /\ replay' = [replay EXCEPT ![a] = tap[a].grid]
    /\ UNCHANGED <<viewers, screen, input, stale, evicted>>

\* Outside the lock: a resize that came in between is set back.
Replay(a) ==
    /\ At(a, "replay") /\ Goes(a, "flush")
    /\ replay' = [replay EXCEPT ![a] = 0]
    /\ IF replay[a] = 0
         THEN UNCHANGED <<screen, stale>>
         ELSE /\ screen' = [screen EXCEPT ![a] = replay[a]]
              /\ stale' = IF replay[a] # tap[a].grid THEN stale \cup {a} ELSE stale
    /\ UNCHANGED <<viewers, input, evicted>>

\* Seeded fault: the stream takes new keys while the pending ones are written.
FlushReady(a) ==
    /\ At(a, "flush") /\ Goes(a, "copy")
    /\ input' = [input EXCEPT ![a].batch = input[a].pending, ![a].pending = <<>>]
    /\ UNCHANGED <<viewers, screen, replay, stale, evicted>>

Flush(a) ==
    /\ At(a, "flush")
    /\ IF input[a].pending = <<>>
         THEN Goes(a, "copy") /\ UNCHANGED input
         ELSE /\ Goes(a, "write")
              /\ input' = [input EXCEPT ![a].batch = input[a].pending, ![a].pending = <<>>]
    /\ UNCHANGED <<viewers, screen, replay, stale, evicted>>

\* A stream that was closed meanwhile may fail the write, which is an end.
FlushWrites(a) ==
    /\ At(a, "write")
    /\ \/ /\ tap' = [tap EXCEPT ![a] = IF @.closed THEN NoTap ELSE [@ EXCEPT !.at = "flush"]]
          /\ input' = [input EXCEPT ![a].delivered = @ \o input[a].batch, ![a].batch = <<>>]
       \/ Goes(a, "exiting") /\ UNCHANGED input
    /\ UNCHANGED <<viewers, screen, replay, stale, evicted>>

\* The stream ends, for one client or with the runtime.
StreamEnds(a) ==
    /\ At(a, "copy") /\ (Goes(a, "probe") \/ Goes(a, "exiting"))
    /\ UNCHANGED <<viewers, screen, replay, input, stale, evicted>>

\* onExit, of an attachment that may have been closed and replaced since.
MarkExited(a) ==
    /\ At(a, "exiting")
    /\ LET c == tap[a].owner IN
       /\ opened' = [opened EXCEPT ![c] = IF @ = a THEN 0 ELSE @]
       /\ LeaveTerminal([tap EXCEPT ![a] = NoTap], c)
       /\ evicted' = IF member[c].tap \notin {0, a} THEN evicted \cup {c} ELSE evicted
    /\ input' = [input EXCEPT ![a] = NoInput]
    /\ UNCHANGED <<frames, replay>>

-----------------------------------------------------------------------------
MuxNext ==
    \/ \E c \in Clients :
        \/ \E g \in Grids, b \in BOOLEAN : OpenTerminal(c, g, b) \/ UpdateTerminalSize(c, g, b)
        \/ CloseTerminal(c) \/ Write(c)
    \/ \E a \in Taps :
        Attach(a) \/ SetPTY(a) \/ Replay(a) \/ Flush(a) \/ FlushWrites(a) \/ StreamEnds(a) \/ MarkExited(a)

MuxSpec == MuxInit /\ [][MuxNext]_muxVars

-----------------------------------------------------------------------------
\* Every value has its type.
MuxTypeOK ==
    /\ opened \in [Clients -> 0..MaxTaps]
    /\ member \in [Clients -> [tap : 0..MaxTaps, grid : Grids, primary : BOOLEAN]]
    /\ authority \in Grids /\ frames \in 0..MaxFrames
    /\ tap \in [Taps -> [owner : Clients, grid : Grids, closed : BOOLEAN,
                         at : {"probe", "publish", "replay", "flush", "write", "copy", "exiting", "over"}]]
    /\ screen \in [Taps -> Grids] /\ replay \in [Taps -> Grids]
    /\ \A a \in Taps : DOMAIN input[a] = {"taken", "pending", "batch", "delivered"}
    /\ stale \subseteq Taps /\ evicted \subseteq Clients

\* However the clients come, resize and go: exactly the open attachments take
\* part in the arbitration, the grid is the largest that a primary asks for,
\* and every stream that is up has that grid.  Two races of the code are
\* excepted by name: the late end of an earlier attachment of the same
\* connection takes its successor out (evicted), and the replay of a fresh
\* stream sets a resize back that came in between (stale).
GridArbitrated ==
    /\ \A c \in Clients \ evicted : opened[c] = member[c].tap
    /\ LargestGrid(member) > 0 => authority = LargestGrid(member)
    /\ \A c \in Members(member) :
        LET a == member[c].tap IN
        /\ tap[a].grid = authority
        /\ tap[a].at \in {"flush", "write", "copy"} /\ a \notin stale => screen[a] = authority

\* The keys of a client are handed to its streams in the order it typed them,
\* each once, and the others wait for the next stream, however often one drops
\* and is opened again and whatever is typed meanwhile.
KeysInOrder ==
    \A a \in Taps : At(a, "over") \/ tap[a].closed \/
        input[a].taken = input[a].delivered \o input[a].batch \o input[a].pending
=============================================================================
