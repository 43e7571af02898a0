-------------------------------- MODULE Feed --------------------------------
(***************************************************************************)
(* The change feed: from the change_log table to one client of the event   *)
(* stream.  The poller tails the log and pushes what is new to the streams *)
(* that are subscribed; a stream replays the log from the client's last    *)
(* event first, and what was pushed meanwhile waits in its channel, so the *)
(* two overlap.  A channel that is full cuts its stream, and the client    *)
(* comes back with the last event it has seen.                             *)
(***************************************************************************)
EXTENDS Integers, FiniteSets

CONSTANTS
    Batch,        \* rows per read of the log
    Buffer,       \* events a stream's channel holds
    MaxEvents,    \* bound: events ever committed
    MaxFeedFaults \* bound: lost connections, restarts and deletions

VARIABLES
    log,        \* the events in change_log, by their seq
    head,       \* the highest seq handed out
    cursor,     \* the poller's lastSeq
    polled,     \* what the poller has read and not pushed yet
    phase,      \* the stream: "off", "replay", "write", "live"
    cut,        \* its context is cancelled
    live,       \* its channel; pushed in the order of the seqs, so the least comes first
    hand,       \* the batch of the replay it is about to write
    sent,       \* sentSeq
    wire,       \* events written that the client has not read
    received,   \* the last event the client has read, its Last-Event-ID
    mishaps

logVars == <<log, head>>
pollerVars == <<cursor, polled>>
streamVars == <<phase, cut, live, hand, sent, wire>>
feedVars == <<logVars, pollerVars, streamVars, received, mishaps>>

Least(s) == CHOOSE n \in s : \A m \in s : n <= m
Highest(s) == CHOOSE n \in s \cup {0} : \A m \in s : m <= n
After(n) == {m \in log : m > n}

\* What a read of the rows after n returns: all of them, or the first Batch.
Reads(n) ==
    {rows \in {{m \in After(n) : m <= k} : k \in log \cup {0}} :
        Cardinality(rows) = Batch \/ (rows = After(n) /\ Cardinality(rows) < Batch)}

FeedInit ==
    /\ log = {} /\ head = 0
    /\ cursor = 0 /\ polled = {}
    /\ phase = "off" /\ cut = FALSE /\ live = {} /\ hand = {} /\ sent = 0 /\ wire = {}
    /\ received = 0 /\ mishaps = 0

-----------------------------------------------------------------------------
(* The log and the poller                                                  *)

Commit ==
    /\ head < MaxEvents
    /\ head' = head + 1 /\ log' = log \cup {head + 1}
    /\ UNCHANGED <<pollerVars, streamVars, received, mishaps>>

\* A spawn that is rolled back takes its session's events with it.
DeleteSession(n) ==
    /\ n \in log /\ mishaps < MaxFeedFaults
    /\ log' = log \ {n} /\ mishaps' = mishaps + 1
    /\ UNCHANGED <<head, pollerVars, streamVars, received>>

Poll ==
    /\ polled = {}
    /\ polled' \in Reads(cursor) \ {{}}
    /\ UNCHANGED <<logVars, cursor, streamVars, received, mishaps>>

\* Seeded fault: a stream subscribes once it has replayed.
SubscribedWhenLive == phase = "live"

Subscribed == phase # "off"

Full == Cardinality(live) >= Buffer

\* What is pushed after a cut stays behind the gap, where no one takes it.
Push(e) ==
    /\ live' = IF Subscribed /\ ~cut /\ ~Full THEN live \cup {e} ELSE live
    /\ cut' = (cut \/ (Subscribed /\ Full))

Publish ==
    /\ polled # {}
    /\ cursor' = Least(polled) /\ polled' = polled \ {Least(polled)}
    /\ Push(Least(polled))
    /\ UNCHANGED <<logVars, phase, hand, sent, wire, received, mishaps>>

-----------------------------------------------------------------------------
(* The stream                                                              *)

\* Subscribe comes before the replay.
Connect ==
    /\ phase = "off"
    /\ phase' = "replay" /\ sent' = received
    /\ UNCHANGED <<logVars, pollerVars, cut, live, hand, wire, received, mishaps>>

\* The read fails once the context is cancelled.
ReplayRead ==
    /\ phase = "replay" /\ ~cut
    /\ phase' = "write" /\ hand' \in Reads(sent)
    /\ UNCHANGED <<logVars, pollerVars, cut, live, sent, wire, received, mishaps>>

\* A short batch was the last one.
ReplayWrite ==
    /\ phase = "write"
    /\ wire' = wire \cup hand /\ sent' = Highest(hand \cup {sent}) /\ hand' = {}
    /\ phase' = IF Cardinality(hand) < Batch THEN "live" ELSE "replay"
    /\ UNCHANGED <<logVars, pollerVars, cut, live, received, mishaps>>

\* Seeded fault: what the replay has already sent is sent again.
WriteAgain(e) == wire' = wire \cup {e} /\ sent' = e

WriteSSEEvent(e) ==
    /\ wire' = IF e <= sent THEN wire ELSE wire \cup {e}
    /\ sent' = IF e <= sent THEN sent ELSE e

\* Next to a cancelled context the select may still pick the channel, but not
\* as often in a row as the channel is long: what it held before the gap.
Take ==
    /\ phase = "live" /\ live # {}
    /\ live' = live \ {Least(live)}
    /\ WriteSSEEvent(Least(live))
    /\ UNCHANGED <<logVars, pollerVars, phase, cut, hand, received, mishaps>>

Closed ==
    /\ phase' = "off" /\ cut' = FALSE /\ live' = {} /\ hand' = {} /\ sent' = 0 /\ wire' = {}

Close ==
    /\ phase \in {"replay", "live"} /\ cut
    /\ Closed
    /\ UNCHANGED <<logVars, pollerVars, received, mishaps>>

-----------------------------------------------------------------------------
(* The client and the mishaps                                              *)

Receive ==
    /\ wire # {}
    /\ received' = Least(wire) /\ wire' = wire \ {Least(wire)}
    /\ UNCHANGED <<logVars, pollerVars, phase, cut, live, hand, sent, mishaps>>

\* The connection breaks; a client that starts afresh asks for the whole log.
Disconnect(afresh) ==
    /\ phase # "off" /\ mishaps < MaxFeedFaults
    /\ Closed
    /\ received' = IF afresh THEN 0 ELSE received
    /\ mishaps' = mishaps + 1
    /\ UNCHANGED <<logVars, pollerVars>>

\* A daemon that starts polls from the head of the log on.
FeedRestart ==
    /\ mishaps < MaxFeedFaults /\ mishaps' = mishaps + 1
    /\ Closed
    /\ cursor' = Highest(log) /\ polled' = {}
    /\ UNCHANGED <<logVars, received>>

FeedNext ==
    \/ Commit \/ \E n \in log : DeleteSession(n)
    \/ Poll \/ Publish
    \/ Connect \/ ReplayRead \/ ReplayWrite \/ Take \/ Close \/ Receive
    \/ \E afresh \in BOOLEAN : Disconnect(afresh)
    \/ FeedRestart

\* Three processes go on: the poller's ticker, the stream's goroutine once a
\* client has connected, and a client that reads and reconnects.
Poller == Poll \/ Publish
Stream == Connect \/ ReplayRead \/ ReplayWrite \/ Take \/ Close

FeedFairness == WF_feedVars(Poller) /\ WF_feedVars(Stream) /\ WF_feedVars(Receive)

FeedSpec == FeedInit /\ [][FeedNext]_feedVars /\ FeedFairness

-----------------------------------------------------------------------------
FeedTypeOK ==
    /\ head \in 0..MaxEvents /\ log \subseteq 1..head
    /\ cursor \in 0..head /\ polled \subseteq (cursor + 1)..head
    /\ phase \in {"off", "replay", "write", "live"} /\ cut \in BOOLEAN
    /\ live \subseteq 1..cursor /\ hand \subseteq (sent + 1)..head
    /\ sent \in 0..head /\ wire \subseteq 1..sent
    /\ received \in 0..head /\ mishaps \in 0..MaxFeedFaults

\* The client reads every event of the log once and in order: the next event
\* it reads skips none that is in the log and repeats none, across replay,
\* live delivery, overflow and reconnection.  Only a client that starts afresh
\* goes back.
InOrder ==
    [][\/ received' = 0
       \/ received' > received /\ \A n \in log : n <= received \/ n >= received']_received

\* A committed event reaches the client, unless its session is rolled back:
\* time and again the client has read all that is in the log.
CatchesUp == []<>(\A n \in log : n <= received)
=============================================================================
