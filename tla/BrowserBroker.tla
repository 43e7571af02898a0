----------------------------- MODULE BrowserBroker -----------------------------
(***************************************************************************)
(* Browser commands on their way between the daemon and the desktop: the    *)
(* broker's callers, its one current connection and the map of pending      *)
(* requests on one side, the link of the Electron process with the commands *)
(* it runs on the other.  Callers give up, writes are cut, and either side  *)
(* may find a connection gone before the other does.                        *)
(***************************************************************************)
EXTENDS Integers, SequencesExt

CONSTANTS
    Requests,      \* callers of Execute, each once
    MaxSockets,    \* bound: connections ever made
    MaxCuts        \* bound: writes that are cut in the middle

VARIABLES
    request,     \* per caller: "idle", "gate", "wait", "leave", "over"
    target,      \* per caller: the connection it read when it began
    awaited,     \* Broker.pending
    answered,    \* callers whose result channel is filled
    link,        \* Broker.conn
    socket,      \* per connection, which of its ends is closed
    reading,     \* connections that a goroutine of the broker still reads
    outgoing,    \* per connection, frames that the runtime has not read
    replies,     \* per connection, results that the broker has not read
    command,     \* per request, its action in the runtime: "none", "queued", "running", "over"
    aborted,     \* requests whose AbortController was aborted
    garbled,     \* requests with a frame that cannot be read, or a cancel that was not sent
    cuts

callers == <<request, target, awaited, answered>>
bridge == <<link, socket, reading>>
runtime == <<command, aborted>>
brokerVars == <<callers, bridge, outgoing, replies, runtime, garbled, cuts>>

Sockets == 1..MaxSockets

BrokerInit ==
    /\ request = [r \in Requests |-> "idle"] /\ target = [r \in Requests |-> 0]
    /\ awaited = {} /\ answered = {} /\ link = 0
    /\ socket = [k \in Sockets |-> "none"] /\ reading = {}
    /\ outgoing = [k \in Sockets |-> <<>>] /\ replies = [k \in Sockets |-> {}]
    /\ command = [r \in Requests |-> "none"] /\ aborted = {} /\ garbled = {} /\ cuts = 0

At(r, at) == request[r] = at
GoesTo(r, at) == request' = [request EXCEPT ![r] = at]
Sends(r, type) == outgoing' = [outgoing EXCEPT ![target[r]] = Append(@, [type |-> type, of |-> r])]

\* A cut leaves the beginning of a frame in the stream of an open connection.
Tears(r) ==
    /\ cuts < MaxCuts /\ cuts' = cuts + 1
    /\ socket[target[r]] = "open" /\ Sends(r, "torn")

-----------------------------------------------------------------------------
(* The callers                                                             *)

Execute(r) ==
    /\ At(r, "idle")
    /\ IF link = 0
         THEN GoesTo(r, "over") /\ UNCHANGED <<target, awaited>>
         ELSE /\ GoesTo(r, "gate") /\ target' = [target EXCEPT ![r] = link]
              /\ awaited' = awaited \cup {r}
    /\ UNCHANGED <<answered, bridge, outgoing, replies, runtime, garbled, cuts>>

\* Seeded fault: the cancellation of a caller counts although its frame is out.
WriteCommandCancelled(r) ==
    /\ At(r, "gate") /\ socket[target[r]] \in {"open", "left"}
    /\ Sends(r, "command")
    /\ \/ GoesTo(r, "wait") /\ UNCHANGED awaited
       \/ GoesTo(r, "over") /\ awaited' = awaited \ {r}
    /\ UNCHANGED <<target, answered, bridge, replies, runtime, garbled, cuts>>

\* Writes take turns.  One on a connection that the runtime left may succeed.
WriteCommand(r) ==
    /\ At(r, "gate") /\ socket[target[r]] \in {"open", "left"}
    /\ GoesTo(r, "wait") /\ Sends(r, "command")
    /\ UNCHANGED <<target, awaited, answered, bridge, replies, runtime, garbled, cuts>>

CancelledAtGate(r) ==
    /\ At(r, "gate") /\ GoesTo(r, "over") /\ awaited' = awaited \ {r}
    /\ \/ UNCHANGED <<outgoing, cuts>>
       \/ Tears(r)
    /\ UNCHANGED <<target, answered, bridge, replies, runtime, garbled>>

\* Seeded fault: whichever connection ends, the link is given up.
DisconnectAny(k, waiting) ==
    link' = 0 /\ awaited' = {} /\ answered' = answered \cup waiting

\* Only the current connection is given up, with every request that waits.
Disconnect(k, waiting) ==
    IF link # k
      THEN awaited' = waiting /\ UNCHANGED <<answered, link>>
      ELSE link' = 0 /\ awaited' = {} /\ answered' = answered \cup waiting

DaemonCloses(k) ==
    socket' = [socket EXCEPT ![k] = IF @ = "open" THEN "dropped" ELSE "closed"]

WriteFails(r) ==
    /\ At(r, "gate") /\ GoesTo(r, "over")
    /\ Disconnect(target[r], awaited \ {r})
    /\ IF link = target[r] THEN DaemonCloses(link) ELSE UNCHANGED socket
    /\ UNCHANGED <<target, reading, outgoing, replies, runtime, garbled, cuts>>

Return(r) ==
    /\ At(r, "wait") /\ r \in answered /\ GoesTo(r, "over")
    /\ UNCHANGED <<target, awaited, answered, bridge, outgoing, replies, runtime, garbled, cuts>>

Leave(r) ==
    /\ At(r, "wait") /\ GoesTo(r, "leave") /\ awaited' = awaited \ {r}
    /\ UNCHANGED <<target, answered, bridge, outgoing, replies, runtime, garbled, cuts>>

\* The cancel frame is tried for a second, in which the write of another caller
\* may keep it from its turn; a failure is not looked at.
WriteCancel(r) ==
    /\ At(r, "leave") /\ GoesTo(r, "over")
    /\ \/ socket[target[r]] \in {"open", "left"} /\ Sends(r, "cancel") /\ UNCHANGED <<garbled, cuts>>
       \/ socket[target[r]] # "open" /\ UNCHANGED <<outgoing, garbled, cuts>>
       \/ /\ \E o \in Requests \ {r} : At(o, "gate") \/ At(o, "leave")
          /\ garbled' = garbled \cup {r} /\ UNCHANGED <<outgoing, cuts>>
       \/ Tears(r) /\ garbled' = garbled \cup {r}
    /\ UNCHANGED <<target, awaited, answered, bridge, replies, runtime>>

-----------------------------------------------------------------------------
(* The connection                                                          *)

\* The runtime has one socket at a time, and dials again when it is gone.
Connect ==
    /\ \A k \in Sockets : socket[k] \in {"none", "left", "closed"}
    /\ \E k \in Sockets :
        /\ socket[k] = "none" /\ \A j \in 1..(k - 1) : socket[j] # "none"
        /\ socket' = [socket EXCEPT ![k] = "hello"]
    /\ UNCHANGED <<callers, link, reading, outgoing, replies, runtime, garbled, cuts>>

Accept(k) ==
    /\ socket[k] = "hello" /\ link' = k
    /\ socket' = [j \in Sockets |-> IF j = k THEN "open" ELSE IF j = link THEN "closed" ELSE socket[j]]
    /\ reading' = reading \cup {k}
    /\ awaited' = {} /\ answered' = answered \cup awaited
    /\ UNCHANGED <<request, target, outgoing, replies, runtime, garbled, cuts>>

CancelCommands(k) ==
    aborted' = aborted \cup {r \in Requests : target[r] = k /\ command[r] \in {"queued", "running"}}

RuntimeCloses(k) ==
    /\ socket[k] = "open" /\ socket' = [socket EXCEPT ![k] = "left"] /\ CancelCommands(k)
    /\ UNCHANGED <<callers, link, reading, outgoing, replies, command, garbled, cuts>>

RuntimeNotices(k) ==
    /\ socket[k] = "dropped" /\ socket' = [socket EXCEPT ![k] = "closed"] /\ CancelCommands(k)
    /\ UNCHANGED <<callers, link, reading, outgoing, replies, command, garbled, cuts>>

\* The reader of a connection that was replaced ends as well.
DaemonNotices(k) ==
    /\ k \in reading /\ socket[k] # "open" /\ reading' = reading \ {k}
    /\ Disconnect(k, awaited)
    /\ IF link = k THEN DaemonCloses(k) ELSE UNCHANGED socket
    /\ UNCHANGED <<request, target, outgoing, replies, runtime, garbled, cuts>>

-----------------------------------------------------------------------------
(* The runtime                                                             *)

\* Lines are what ends in a newline: the beginning of one swallows the next.
Consume(k) ==
    /\ socket[k] \in {"open", "dropped"} /\ outgoing[k] # <<>>
    /\ LET frame == Head(outgoing[k])
           rest == Tail(outgoing[k])
           r == frame.of
       IN CASE frame.type = "torn" /\ rest = <<>> -> FALSE
            [] frame.type = "torn" /\ rest # <<>> ->
                 /\ garbled' = garbled \cup {Head(rest).of}
                 /\ outgoing' = [outgoing EXCEPT
                      ![k] = IF Head(rest).type = "torn" THEN rest ELSE Tail(rest)]
                 /\ UNCHANGED runtime
            [] frame.type = "command" ->
                 /\ command' = [command EXCEPT ![r] = "queued"]
                 /\ outgoing' = [outgoing EXCEPT ![k] = rest] /\ UNCHANGED <<aborted, garbled>>
            [] frame.type = "cancel" ->
                 /\ aborted' = IF command[r] \in {"queued", "running"} THEN aborted \cup {r} ELSE aborted
                 /\ outgoing' = [outgoing EXCEPT ![k] = rest] /\ UNCHANGED <<command, garbled>>
    /\ UNCHANGED <<callers, bridge, replies, cuts>>

\* The commands of a session take turns, per connection.
Run(r) ==
    /\ command[r] = "queued"
    /\ \A o \in Requests : target[o] = target[r] => command[o] # "running"
    /\ command' = [command EXCEPT ![r] = IF r \in aborted THEN "over" ELSE "running"]
    /\ UNCHANGED <<callers, bridge, outgoing, replies, aborted, garbled, cuts>>

Finish(r) ==
    /\ command[r] = "running" /\ command' = [command EXCEPT ![r] = "over"]
    /\ replies' = IF r \notin aborted /\ socket[target[r]] = "open"
                    THEN [replies EXCEPT ![target[r]] = @ \cup {r}] ELSE replies
    /\ UNCHANGED <<callers, bridge, outgoing, aborted, garbled, cuts>>

Resolve(k, r) ==
    /\ r \in replies[k] /\ k \in reading
    /\ replies' = [replies EXCEPT ![k] = @ \ {r}]
    /\ awaited' = awaited \ {r}
    /\ answered' = IF r \in awaited THEN answered \cup {r} ELSE answered
    /\ UNCHANGED <<request, target, bridge, outgoing, runtime, garbled, cuts>>

-----------------------------------------------------------------------------
BrokerNext ==
    \/ \E r \in Requests :
        \/ Execute(r) \/ WriteCommand(r) \/ CancelledAtGate(r) \/ WriteFails(r)
        \/ Return(r) \/ Leave(r) \/ WriteCancel(r) \/ Run(r) \/ Finish(r)
    \/ Connect
    \/ \E k \in Sockets :
        \/ Accept(k) \/ RuntimeCloses(k) \/ RuntimeNotices(k) \/ DaemonNotices(k) \/ Consume(k)
        \/ \E r \in Requests : Resolve(k, r)

BrokerSpec == BrokerInit /\ [][BrokerNext]_brokerVars

-----------------------------------------------------------------------------
\* Every value has its type.
BrokerTypeOK ==
    /\ request \in [Requests -> {"idle", "gate", "wait", "leave", "over"}]
    /\ target \in [Requests -> 0..MaxSockets] /\ link \in 0..MaxSockets
    /\ reading \subseteq Sockets /\ awaited \subseteq Requests /\ answered \subseteq Requests
    /\ socket \in [Sockets -> {"none", "hello", "open", "left", "dropped", "closed"}]
    /\ \A k \in Sockets :
        /\ ToSet(outgoing[k]) \subseteq [type : {"command", "cancel", "torn"}, of : Requests]
        /\ replies[k] \subseteq Requests
    /\ command \in [Requests -> {"none", "queued", "running", "over"}]
    /\ aborted \subseteq Requests /\ garbled \subseteq Requests /\ cuts \in 0..MaxCuts

OnItsWay(r, type) == target[r] # 0 /\ [type |-> type, of |-> r] \in ToSet(outgoing[target[r]])
Works(r) == command[r] \in {"queued", "running"} /\ r \notin aborted

\* Whichever side gives up or loses the connection first, neither is left
\* behind: a caller that waits has its answer, or is pending on the current
\* connection with its command or its result still somewhere on it; a command
\* whose caller is gone is aborted, or will be, by a cancel behind it or by
\* the end of its connection; and a connection that both sides hold is the
\* current one.  Excepted are the requests whose frame was lost behind one that
\* was cut, and those whose cancel was cut or did not get its turn in time.
BothEnds ==
    /\ \A r \in Requests : At(r, "wait") /\ r \notin answered =>
        /\ r \in awaited /\ link = target[r]
        /\ \/ socket[link] # "open" \/ r \in garbled
           \/ OnItsWay(r, "command") \/ Works(r) \/ r \in replies[link]
    /\ \A r \in Requests : At(r, "over") /\ (Works(r) \/ OnItsWay(r, "command")) =>
        socket[target[r]] # "open" \/ r \in garbled \/ OnItsWay(r, "cancel")
    /\ \A k \in Sockets : socket[k] = "open" => link = k
=============================================================================
