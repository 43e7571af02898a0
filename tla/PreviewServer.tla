----------------------------- MODULE PreviewServer -----------------------------
(***************************************************************************)
(* The managed preview server of one session: at most one process, which a  *)
(* start replaces and a stop terminates under the session's operation lock, *)
(* while the probe of an earlier start, the goroutine that waits for an     *)
(* exit and the one that finishes an abandoned stop go on without it.  The  *)
(* processes outlive a daemon that dies; the registry names them to the     *)
(* next one, if it could be written and can be read.                        *)
(***************************************************************************)
EXTENDS Integers, FiniteSets

CONSTANTS
    Visitors,     \* requests that may be in progress at the same time
    Nobody,
    MaxRuns,      \* bound: processes ever started
    MaxSetbacks   \* bound: deaths of the daemon, and kills, stamps, exits, and writes and
                  \* reads of the registry that go wrong

VARIABLES
    visit,      \* per request: [kind, at, run]
    operation,  \* who holds the session's operation lock
    current,    \* the run in the manager's map, 0 when there is none
    server,     \* per run, serverRun: [state, cmd, stopping, stamp, done]
    root,       \* per run, its process: "none", "alive", "gone"
    piped,      \* runs whose output a descendant holds open: their Wait does not return
    grace,      \* per run, what an abandoned stop has still to do
    registry,   \* preview-processes.json
    unsaved,    \* whether the last write, or the read at the start, of the registry failed
    setbacks, booting,
    stray       \* processes that the daemon that started them could not name to the next

visits == <<visit, operation>>
book == <<registry, unsaved>>
manager == <<current, server, book>>
previewVars == <<visits, manager, root, piped, grace, setbacks, booting, stray>>

Runs == 1..MaxRuns
Away == [kind |-> "none", at |-> "away", run |-> 0]
Unborn == [state |-> "stopped", cmd |-> FALSE, stopping |-> FALSE, stamp |-> FALSE, done |-> FALSE]

PreviewInit ==
    /\ visit = [v \in Visitors |-> Away] /\ operation = Nobody
    /\ current = 0 /\ server = [i \in Runs |-> Unborn] /\ registry = {} /\ unsaved = FALSE
    /\ root = [i \in Runs |-> "none"] /\ piped = {} /\ grace = [i \in Runs |-> "none"]
    /\ setbacks = 0 /\ booting = FALSE /\ stray = {}

At(v, at) == visit[v].at = at
GoesTo(v, at) == visit' = [visit EXCEPT ![v].at = at]
Returns(v) == visit' = [visit EXCEPT ![v] = Away]
Releases(v) == operation' = IF operation = v THEN Nobody ELSE operation

SetBack == setbacks < MaxSetbacks /\ setbacks' = setbacks + 1
Goes(well) == IF well THEN UNCHANGED setbacks ELSE SetBack

\* persistProcessesLocked, after every change of the map.  What a run that
\* left the map says of itself is looked at by nobody.  A write that fails is
\* logged, and leaves the file as it was or cut off.
Keep(i, s) ==
    /\ current' = i
    /\ server' = [j \in Runs |-> IF j = i THEN s[j]
                                 ELSE [s[j] EXCEPT !.state = "stopped", !.stopping = FALSE]]
    /\ \/ registry' = (IF i # 0 /\ s[i].cmd THEN {i} ELSE {}) /\ unsaved' = FALSE
          /\ UNCHANGED setbacks
       \/ SetBack /\ registry' \in {registry, {}} /\ unsaved' = TRUE

Running == IF current = 0 THEN FALSE ELSE server[current].cmd

\* A kill is sent to the leader's group if it is verifiably the one recorded,
\* or to the direct child if none was; one that cannot be read is let be.
Ends(i) == root' = [root EXCEPT ![i] = "gone"]
Killed(i) == (Ends(i) /\ UNCHANGED setbacks) \/ (SetBack /\ UNCHANGED root)

-----------------------------------------------------------------------------
(* Start and Stop                                                          *)

Ask(v, kind) ==
    /\ ~booting /\ visit[v] = Away
    /\ visit' = [visit EXCEPT ![v] = [kind |-> kind, at |-> "lock", run |-> 0]]
    /\ UNCHANGED <<operation, manager, root, piped, grace, setbacks, booting, stray>>

\* A start that cannot use its configuration ends before it stops anything.
Acquire(v, valid) ==
    /\ At(v, "lock") /\ operation = Nobody
    /\ IF visit[v].kind = "stop" \/ valid
         THEN GoesTo(v, "stop") /\ operation' = v
         ELSE Returns(v) /\ UNCHANGED operation
    /\ UNCHANGED <<manager, root, piped, grace, setbacks, booting, stray>>

\* stop is over: a start goes on with the port and the process.
Stopped(v) ==
    IF visit[v].kind = "start" THEN GoesTo(v, "spawn") /\ UNCHANGED operation
                               ELSE Returns(v) /\ Releases(v)

StopNothing(v) ==
    /\ At(v, "stop") /\ ~Running
    /\ Stopped(v)
    /\ IF current = 0 THEN UNCHANGED <<manager, setbacks>> ELSE Keep(0, server)
    /\ UNCHANGED <<root, piped, grace, booting, stray>>

\* The signal asks the process to exit, which it may do at any time.
Terminate(v) ==
    /\ At(v, "stop") /\ Running
    /\ visit' = [visit EXCEPT ![v].at = "await", ![v].run = current]
    /\ server' = [server EXCEPT ![current].stopping = TRUE, ![current].state = "stopping"]
    /\ UNCHANGED <<operation, current, book, root, piped, grace, setbacks, booting, stray>>

Reaped(v) ==
    /\ visit[v].at \in {"await", "killed"} /\ server[visit[v].run].done
    /\ Stopped(v)
    /\ Keep(0, server)
    /\ UNCHANGED <<root, piped, grace, booting, stray>>

ForceKill(v) ==
    /\ At(v, "await") /\ GoesTo(v, "killed") /\ Killed(visit[v].run)
    /\ UNCHANGED <<operation, manager, piped, grace, booting, stray>>

\* The request of a stop is cancelled; a start stops without a deadline.
Abandon(v) ==
    /\ visit[v].at \in {"await", "killed"} /\ visit[v].kind = "stop"
    /\ grace' = [grace EXCEPT ![visit[v].run] = "waits"]
    /\ Returns(v) /\ Releases(v)
    /\ UNCHANGED <<manager, root, piped, setbacks, booting, stray>>

StopFails(v) ==
    /\ At(v, "killed") /\ Returns(v) /\ Releases(v)
    /\ server' = [server EXCEPT ![visit[v].run].state = IF current = visit[v].run THEN "failed" ELSE @]
    /\ UNCHANGED <<current, book, root, piped, grace, setbacks, booting, stray>>

SpawnFails(v) ==
    /\ At(v, "spawn") /\ Returns(v) /\ Releases(v)
    /\ UNCHANGED <<manager, root, piped, grace, setbacks, booting, stray>>

Spawn(v, stamp) ==
    /\ At(v, "spawn") /\ Goes(stamp)
    /\ \E i \in Runs :
        /\ root[i] = "none" /\ \A j \in 1..(i - 1) : root[j] # "none"
        /\ root' = [root EXCEPT ![i] = "alive"]
        /\ server' = [server EXCEPT ![i] = [Unborn EXCEPT !.cmd = TRUE, !.stamp = stamp]]
        /\ visit' = [visit EXCEPT ![v].at = "record", ![v].run = i]
    /\ UNCHANGED <<operation, current, book, piped, grace, booting, stray>>

Record(v) ==
    /\ At(v, "record") /\ GoesTo(v, "probe") /\ Releases(v)
    /\ Keep(visit[v].run, [server EXCEPT ![visit[v].run].state = "starting"])
    /\ UNCHANGED <<root, piped, grace, booting, stray>>

\* The URL answers, of this process or of another that has the port.
Answers(v) ==
    /\ At(v, "probe") /\ Returns(v)
    /\ LET i == visit[v].run IN
       server' = IF current = i /\ server[i].cmd /\ ~server[i].stopping
                   THEN [server EXCEPT ![i].state = "ready"] ELSE server
    /\ UNCHANGED <<operation, current, book, root, piped, grace, setbacks, booting, stray>>

ProbeEnds(v) ==
    /\ visit[v].at \in {"probe", "failing"} /\ server[visit[v].run].done /\ Returns(v)
    /\ UNCHANGED <<operation, manager, root, piped, grace, setbacks, booting, stray>>

\* The request is cancelled, or the server is not ready in time.
FailAndStop(v) ==
    /\ At(v, "probe")
    /\ LET i == visit[v].run IN
       /\ server' = IF current = i
                      THEN [server EXCEPT ![i].state = "failed", ![i].stopping = TRUE] ELSE server
       /\ IF server[i].cmd THEN GoesTo(v, "failing") ELSE Returns(v)
    /\ UNCHANGED <<operation, current, book, root, piped, grace, setbacks, booting, stray>>

FailKills(v) ==
    /\ At(v, "failing") /\ Returns(v) /\ Killed(visit[v].run)
    /\ UNCHANGED <<operation, manager, piped, grace, booting, stray>>

-----------------------------------------------------------------------------
(* What goes on without the lock                                           *)

Exits(i, held) ==
    /\ root[i] = "alive" /\ Ends(i) /\ Goes(~held) /\ piped' = IF held THEN piped \cup {i} ELSE piped
    /\ UNCHANGED <<visits, manager, grace, booting, stray>>

DescendantEnds(i) ==
    /\ i \in piped /\ piped' = piped \ {i}
    /\ UNCHANGED <<visits, manager, root, grace, setbacks, booting, stray>>

Recorded(i) == \A v \in Visitors : ~(At(v, "record") /\ visit[v].run = i)

WaitForExit(i) ==
    /\ root[i] = "gone" /\ i \notin piped /\ server[i].cmd /\ ~server[i].done /\ Recorded(i)
    /\ LET over == [server EXCEPT ![i].done = TRUE]
           state == IF server[i].stopping /\ server[i].state # "failed" THEN "stopped" ELSE "failed"
       IN Keep(current, IF current = i
                          THEN [over EXCEPT ![i].cmd = FALSE, ![i].state = state] ELSE over)
    /\ UNCHANGED <<visits, root, piped, grace, booting, stray>>

\* Five minutes later the status of a failed run is dropped.
Expire(i) ==
    /\ server[i].done /\ current = i /\ ~server[i].cmd /\ Keep(0, server)
    /\ UNCHANGED <<visits, root, piped, grace, booting, stray>>

GraceKills(i) ==
    /\ grace[i] = "waits" /\ ~server[i].done /\ Killed(i)
    /\ grace' = [grace EXCEPT ![i] = "killed"]
    /\ UNCHANGED <<visits, manager, piped, booting, stray>>

\* Seeded fault: the end of an abandoned stop clears the session's entry.
GraceClears(i) ==
    /\ grace[i] = "killed" \/ (grace[i] = "waits" /\ server[i].done)
    /\ grace' = [grace EXCEPT ![i] = "none"] /\ Keep(0, server)
    /\ UNCHANGED <<visits, root, piped, booting, stray>>

GraceEnds(i) ==
    /\ grace[i] = "killed" \/ (grace[i] = "waits" /\ server[i].done)
    /\ grace' = [grace EXCEPT ![i] = "none"]
    /\ IF current = i /\ ~server[i].cmd THEN Keep(0, server) ELSE UNCHANGED <<manager, setbacks>>
    /\ UNCHANGED <<visits, root, piped, booting, stray>>

-----------------------------------------------------------------------------
(* The daemon dies                                                         *)

Alive == {i \in Runs : root[i] = "alive"}

Outage ==
    /\ ~booting /\ SetBack /\ booting' = TRUE
    /\ visit' = [v \in Visitors |-> Away] /\ operation' = Nobody
    /\ current' = 0 /\ grace' = [i \in Runs |-> "none"]
    /\ stray' = stray \cup {i \in Alive : i \notin registry \/ ~server[i].stamp}
    /\ server' = [i \in Runs |-> [Unborn EXCEPT !.stamp = server[i].stamp]]
    /\ UNCHANGED <<book, root, piped>>

\* A kill that fails is logged, and the registry removed all the same.
ReapPersistedProcesses(killed) ==
    /\ booting /\ booting' = FALSE /\ Goes(killed)
    /\ LET ours == {i \in registry : server[i].stamp} IN
       /\ root' = [i \in Runs |-> IF i \in ours /\ killed THEN "gone" ELSE root[i]]
       /\ stray' = IF killed THEN stray ELSE stray \cup (ours \cap Alive)
    /\ registry' = {} /\ unsaved' = FALSE
    /\ server' = [i \in Runs |-> Unborn]
    /\ UNCHANGED <<visits, current, piped, grace>>

\* A registry that cannot be read or decoded stays, and so do the processes.
RegistryUnread ==
    /\ booting /\ booting' = FALSE /\ SetBack
    /\ stray' = stray \cup (registry \cap Alive) /\ unsaved' = TRUE
    /\ UNCHANGED <<visits, current, server, registry, root, piped, grace>>

-----------------------------------------------------------------------------
PreviewNext ==
    \/ \E v \in Visitors :
        \/ \E kind \in {"start", "stop"} : Ask(v, kind)
        \/ \E b \in BOOLEAN : Acquire(v, b) \/ Spawn(v, b)
        \/ StopNothing(v) \/ Terminate(v) \/ Reaped(v) \/ ForceKill(v)
        \/ Abandon(v) \/ StopFails(v) \/ SpawnFails(v) \/ Record(v)
        \/ Answers(v) \/ ProbeEnds(v) \/ FailAndStop(v) \/ FailKills(v)
    \/ \E i \in Runs :
        \/ \E held \in BOOLEAN : Exits(i, held)
        \/ DescendantEnds(i) \/ WaitForExit(i) \/ Expire(i) \/ GraceKills(i) \/ GraceEnds(i)
    \/ Outage \/ RegistryUnread \/ \E killed \in BOOLEAN : ReapPersistedProcesses(killed)

PreviewSpec == PreviewInit /\ [][PreviewNext]_previewVars

-----------------------------------------------------------------------------
\* Every value has its type.
PreviewTypeOK ==
    /\ visit \in [Visitors ->
         [kind : {"none", "start", "stop"}, run : 0..MaxRuns,
          at : {"away", "lock", "stop", "await", "killed", "spawn",
                "record", "probe", "failing"}]]
    /\ operation \in Visitors \cup {Nobody} /\ current \in 0..MaxRuns
    /\ server \in [Runs -> [state : {"stopped", "starting", "ready", "stopping", "failed"},
                            cmd : BOOLEAN, stopping : BOOLEAN, stamp : BOOLEAN, done : BOOLEAN]]
    /\ root \in [Runs -> {"none", "alive", "gone"}] /\ piped \subseteq Runs
    /\ grace \in [Runs -> {"none", "waits", "killed"}] /\ registry \subseteq Runs
    /\ stray \subseteq Runs /\ setbacks \in 0..MaxSetbacks /\ booting \in BOOLEAN
    /\ unsaved \in BOOLEAN

\* Whoever starts, stops, gives up or dies in between: a preview process that
\* lives is the session's only one, and is the run that a stop will find and
\* the registry names to the next daemon, unless it is just being recorded or
\* the registry could not be written (or, at the start, read and removed) and
\* has not been written since; and its status says neither that it was stopped
\* nor that it is ready while it is asked to stop.
OneServer ==
    /\ Cardinality(Alive \ stray) <= 1
    /\ \A i \in Alive \ stray :
        \/ /\ current = i /\ server[i].cmd /\ server[i].state # "stopped"
           /\ registry = {i} \/ unsaved
        \/ booting /\ i \in registry
        \/ ~Recorded(i)
    /\ \A i \in Runs : server[i].state = "ready" => ~server[i].stopping
=============================================================================
