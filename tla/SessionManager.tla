--------------------------- MODULE SessionManager ---------------------------
(***************************************************************************)
(* One session and everything that starts, stops or recovers it: the calls *)
(* of the API (Spawn, Kill, RetireForReplacement, RestoreWithMode,         *)
(* ResumeAgentWithMode, Cleanup), which take no lock across their steps,   *)
(* the reaper, the death of the daemon between any two steps, and the      *)
(* Reconcile of the next boot.  Each call keeps using the row it read when *)
(* it began.  A single-repo project and an unsupervised harness: the       *)
(* session has one worktree, and PrepareLaunch refuses nothing.            *)
(***************************************************************************)
EXTENDS Integers, FiniteSets

CONSTANTS
    Handlers,     \* API requests that can be served at a time
    MaxUnits,     \* bound: units of work the agents write
    MaxCalls,     \* bound: API calls
    MaxCrashes,   \* bound: deaths of the daemon
    MaxFailures   \* bound: steps that return an error

ASSUME SessionManagerAssumption ==
    /\ IsFiniteSet(Handlers)
    /\ {MaxUnits, MaxCalls, MaxCrashes, MaxFailures} \subseteq Nat

VARIABLES
    row,        \* the session row: life, Activity exited, WorkspacePath, RuntimeHandleID
    marker,     \* its session_worktrees row: "none", "clean" or "ref" (a PreservedRef)
    runtime,    \* its tmux session: "none", "agent" or the "shell" an agent left
    worktree, work,    \* the worktree, and the uncommitted units in it
    preserved,         \* the units under refs/ao/preserved/<id>
    kept, wrote,       \* units committed to the branch; units written so far
    op, boot,   \* the step of each handler, and of Reconcile
    seen,       \* the reaper's observation on its way to the reducer
    calls, crashes, failures,
    stopped,    \* the session was killed or retired, and no restore was asked for
    due,        \* a live session that the next Reconcile has to bring back
    late,       \* units written between a retirement's capture and its removal
    notes       \* what has happened, of Notes

db == <<row, marker>>
disk == <<worktree, work, preserved>>
agent == <<kept, wrote, late>>
bounds == <<calls, crashes>>
ghost == <<stopped, due, notes>>
vars == <<db, runtime, disk, agent, op, boot, seen, bounds, failures, ghost>>

Units == 1..MaxUnits

Notes == {
    "overlap",      \* two calls were served at the same time
    "unreplayed",   \* an agent was started while captured work was in its ref
    "leftover",     \* the deletion of a marker failed
    "carried",      \* an agent was launched while its marker stayed behind
    "cut",          \* the daemon died before MarkSpawned had named a runtime
    "leaked"}       \* a runtime was left to a terminated row, or to one that does not name it

Rows == [life : {"unborn", "live", "terminated", "deleted"},
         exited : BOOLEAN, path : BOOLEAN, handle : BOOLEAN]

Unborn == [life |-> "unborn", exited |-> FALSE, path |-> FALSE, handle |-> FALSE]
Live == row.life = "live"
Ended == row.life = "terminated"

Idle == [call |-> "none", at |-> "idle", rec |-> Unborn]

Init ==
    /\ row = Unborn /\ marker = "none" /\ runtime = "none"
    /\ worktree = FALSE /\ work = {} /\ preserved = {}
    /\ kept = {} /\ wrote = 0 /\ late = {}
    /\ op = [h \in Handlers |-> Idle]
    /\ boot = [at |-> "served", rec |-> Unborn, ref |-> "none"] /\ seen = "none"
    /\ calls = 0 /\ crashes = 0 /\ failures = 0
    /\ stopped = FALSE /\ due = FALSE /\ notes = {}

Quiet == boot.at = "served" /\ \A h \in Handlers : op[h].at = "idle"
Launching == \E h \in Handlers : op[h].call \in {"spawn", "restore", "resume"}

-----------------------------------------------------------------------------
(* What the steps are made of                                              *)

Note(n) == notes' = notes \cup n
Fails == failures < MaxFailures /\ failures' = failures + 1
Works == failures' = failures

\* The API serves once Reconcile has returned.
Begin(h, call, step) ==
    /\ boot.at = "served" /\ op[h].at = "idle" /\ calls < MaxCalls
    /\ op' = [op EXCEPT ![h] = [call |-> call, at |-> step, rec |-> row]]
    /\ calls' = calls + 1
    /\ Note(IF \E g \in Handlers : op[g].at # "idle" THEN {"overlap"} ELSE {})
    /\ UNCHANGED <<runtime, disk, agent, boot, seen, crashes, failures, due, marker>>

Step(h, call, step) == op[h].call = call /\ op[h].at = step
Goto(h, step) == op' = [op EXCEPT ![h].at = step]
Return(h) == op' = [op EXCEPT ![h] = Idle]
Boots(step) == boot' = [boot EXCEPT !.at = step]

\* MarkTerminated: a row that is terminated already stays as it is.
Terminated == IF Live THEN [row EXCEPT !.life = "terminated", !.exited = TRUE] ELSE row

\* MarkSpawned clears the terminated flag whoever had set it.
Spawned == [life |-> "live", exited |-> FALSE, path |-> TRUE, handle |-> TRUE]

\* gitworktree Destroy refuses a worktree with uncommitted work; ForceDestroy
\* does not, and a worktree that is gone is removed again without an error.
Dirty == worktree /\ work # {}

\* Seeded fault: git forgets the worktree, its files stay behind.
RemoveWorktreeOnly == worktree' = FALSE /\ UNCHANGED <<work, preserved>>

RemoveWorktree == worktree' = FALSE /\ work' = {} /\ preserved' = preserved
RestoreWorktree == worktree' = TRUE /\ work' = work /\ preserved' = preserved

\* Seeded fault: the capture is skipped.
StashNothing == UNCHANGED disk

\* StashUncommitted points the session's one preserve ref at what is in the
\* worktree now; a clean worktree leaves the ref alone.
Stash == preserved' = (IF work = {} THEN preserved ELSE work) /\ UNCHANGED <<worktree, work>>
Captured == IF work = {} THEN "clean" ELSE "ref"

\* tmux refuses a second session of the same name and a directory that is gone.
CanCreate == runtime = "none" /\ worktree

Launched ==
    /\ row' = Spawned
    /\ seen' = (IF seen = "dead" THEN "stale" ELSE seen)

\* Destroy is asked of a launch that has failed, and its error ignored.
Destroyed == runtime' \in {runtime, "none"}

\* A runtime that is left and that the row does not name.
LeftBehind == Note(IF runtime' # "none" /\ ~row'.handle THEN {"leaked"} ELSE {})

Unreplayed == IF preserved # {} THEN {"unreplayed"} ELSE {}
Carried == IF marker # "none" THEN {"carried"} ELSE {}

-----------------------------------------------------------------------------
(* Spawn                                                                   *)

SpawnSeed(h) ==
    /\ row = Unborn /\ Begin(h, "spawn", "workspace")
    /\ row' = [Unborn EXCEPT !.life = "live"]
    /\ UNCHANGED stopped

\* A seed row is deleted; one that has progressed is parked as terminated.
RolledBack(r) ==
    IF r.life = "live" /\ ~r.path /\ ~r.handle THEN [r EXCEPT !.life = "deleted"] ELSE Terminated

SpawnWorkspace(h) ==
    /\ Step(h, "spawn", "workspace")
    /\ \/ Works /\ RestoreWorktree /\ Goto(h, "create") /\ UNCHANGED row
       \/ Fails /\ row' = RolledBack(row) /\ Return(h) /\ UNCHANGED disk
    /\ UNCHANGED <<marker, runtime, agent, boot, seen, bounds, ghost>>

\* The row of a failed spawn is terminated and names what was not destroyed.
Parked(down, gone) ==
    IF row.life = "deleted" THEN row
    ELSE [Terminated EXCEPT !.path = ~gone \/ (@ /\ ~down), !.handle = @ /\ ~down]

SpawnCreate(h) ==
    /\ Step(h, "spawn", "create")
    /\ \/ CanCreate /\ Works /\ runtime' = "agent" /\ Goto(h, "mark") /\ UNCHANGED <<db, disk>>
       \/ /\ Fails /\ Return(h) /\ UNCHANGED <<marker, runtime>>
          /\ \/ RemoveWorktree /\ row' = RolledBack(row)
             \/ UNCHANGED disk /\ row' = Parked(TRUE, FALSE)
    /\ UNCHANGED <<agent, boot, seen, bounds, ghost>>

\* What a failure after the runtime was created undoes: the runtime and the
\* worktree, which stays when the agent has left work in it.  Either Destroy can
\* fail, and so can the writes to the row.
SpawnUndone(h) ==
    /\ \E down, gone \in BOOLEAN :
         /\ gone => ~Dirty
         /\ Destroyed /\ (down => runtime' = "none")
         /\ IF gone THEN RemoveWorktree ELSE UNCHANGED disk
         /\ row' \in {row, Parked(down, gone)}
    /\ marker' = "none" /\ LeftBehind /\ Return(h)

SpawnMark(h) ==
    /\ Step(h, "spawn", "mark")
    /\ \/ /\ row.life # "deleted" /\ Works
          /\ Launched /\ Goto(h, "prompt") /\ UNCHANGED <<marker, runtime, disk, notes>>
       \/ /\ IF row.life = "deleted" THEN Works ELSE Fails
          /\ SpawnUndone(h) /\ UNCHANGED seen
    /\ UNCHANGED <<agent, boot, bounds, stopped, due>>

\* The prompt of an agent that takes it after its start.
SpawnPrompt(h) ==
    /\ Step(h, "spawn", "prompt")
    /\ \/ Works /\ Return(h) /\ UNCHANGED <<db, runtime, disk, notes>>
       \/ Fails /\ SpawnUndone(h)
    /\ UNCHANGED <<agent, boot, seen, bounds, stopped, due>>

-----------------------------------------------------------------------------
(* Kill and RetireForReplacement                                           *)

KillBegin(h) ==
    /\ row.life \in {"live", "terminated"} /\ Begin(h, "kill", "runtime")
    /\ UNCHANGED <<row, stopped>>

KillRuntime(h) ==
    /\ Step(h, "kill", "runtime")
    /\ \/ /\ Works /\ Goto(h, "workspace")
          /\ runtime' = (IF op[h].rec.handle THEN "none" ELSE runtime)
       \/ op[h].rec.handle /\ Fails /\ Return(h) /\ UNCHANGED runtime
    /\ UNCHANGED <<db, disk, agent, boot, seen, bounds, ghost>>

\* A worktree with uncommitted work is preserved, and so is one with a shell
\* terminal that does not close; the kill goes on.
KillWorkspace(h) ==
    /\ Step(h, "kill", "workspace")
    /\ \/ (~op[h].rec.path \/ Dirty) /\ Works /\ Goto(h, "unmark") /\ UNCHANGED disk
       \/ op[h].rec.path /\ ~Dirty /\ Works /\ RemoveWorktree /\ Goto(h, "unmark")
       \/ op[h].rec.path /\ Fails /\ (Return(h) \/ Goto(h, "unmark")) /\ UNCHANGED disk
    /\ UNCHANGED <<db, runtime, agent, boot, seen, bounds, ghost>>

\* Seeded fault: a kill leaves the marker where it is.
KillUnmarkSkipped(h) ==
    /\ Step(h, "kill", "unmark") /\ Goto(h, "mark") /\ Works
    /\ UNCHANGED <<db, runtime, disk, agent, boot, seen, bounds, ghost>>

\* A marker that cannot be deleted is logged.
KillUnmark(h) ==
    /\ Step(h, "kill", "unmark") /\ Goto(h, "mark")
    /\ \/ Works /\ marker' = "none" /\ UNCHANGED notes
       \/ marker # "none" /\ Fails /\ Note({"leftover"}) /\ UNCHANGED marker
    /\ UNCHANGED <<row, runtime, disk, agent, boot, seen, bounds, stopped, due>>

StopMark(h) ==
    /\ op[h].call \in {"kill", "retire"} /\ op[h].at = "mark" /\ Return(h)
    /\ \/ Works /\ row' = Terminated /\ stopped' = ~Launching
       \/ Fails /\ UNCHANGED <<row, stopped>>
    /\ UNCHANGED <<marker, runtime, disk, agent, boot, seen, bounds, due, notes>>

RetireBegin(h) ==
    /\ Live /\ Begin(h, "retire", IF row.path THEN "stash" ELSE "unmark")
    /\ UNCHANGED <<row, stopped>>

\* A worktree that is gone has nothing to capture.
RetireStash(h) ==
    /\ Step(h, "retire", "stash")
    /\ \/ Works /\ Goto(h, "runtime") /\ (IF worktree THEN Stash ELSE UNCHANGED disk)
       \/ Fails /\ Return(h) /\ UNCHANGED disk
    /\ UNCHANGED <<db, runtime, agent, boot, seen, bounds, ghost>>

RetireRuntime(h) ==
    /\ Step(h, "retire", "runtime")
    /\ \/ Works /\ runtime' = "none" /\ Goto(h, "force")
       \/ Fails /\ Return(h) /\ UNCHANGED runtime
    /\ UNCHANGED <<db, disk, agent, boot, seen, bounds, ghost>>

RetireForce(h) ==
    /\ Step(h, "retire", "force")
    /\ \/ Works /\ RemoveWorktree /\ Goto(h, "unmark")
       \/ Fails /\ Return(h) /\ UNCHANGED disk
    /\ UNCHANGED <<db, runtime, agent, boot, seen, bounds, ghost>>

RetireUnmark(h) ==
    /\ Step(h, "retire", "unmark")
    /\ \/ Works /\ marker' = "none" /\ Goto(h, "mark")
       \/ Fails /\ Return(h) /\ UNCHANGED marker
    /\ UNCHANGED <<row, runtime, disk, agent, boot, seen, bounds, ghost>>

-----------------------------------------------------------------------------
(* RestoreWithMode, ResumeAgentWithMode and Cleanup                        *)

RestoreBegin(h) ==
    /\ Ended /\ row.path /\ Begin(h, "restore", "workspace")
    /\ stopped' = FALSE /\ UNCHANGED row

RestoreWorkspace(h) ==
    /\ Step(h, "restore", "workspace")
    /\ \/ Works /\ RestoreWorktree /\ Goto(h, "create")
       \/ Fails /\ Return(h) /\ UNCHANGED disk
    /\ UNCHANGED <<db, runtime, agent, boot, seen, bounds, ghost>>

RestoreCreate(h) ==
    /\ Step(h, "restore", "create")
    /\ \/ CanCreate /\ Works /\ runtime' = "agent" /\ Note(Unreplayed) /\ Goto(h, "mark")
       \/ (IF CanCreate THEN Fails ELSE Works) /\ Return(h) /\ UNCHANGED <<runtime, notes>>
    /\ UNCHANGED <<db, disk, agent, boot, seen, bounds, stopped, due>>

\* One resume at a time.
ResumeBegin(h) ==
    /\ Live /\ row.exited /\ row.path /\ row.handle
    /\ \A g \in Handlers : op[g].call # "resume"
    /\ Begin(h, "resume", "restart")
    /\ UNCHANGED <<row, stopped>>

\* A shell is replaced in its pane; a runtime that is gone is created again.
ResumeRestart(h) ==
    /\ Step(h, "resume", "restart")
    /\ \/ worktree /\ Works /\ runtime' = "agent" /\ Note(Unreplayed) /\ Goto(h, "mark")
       \/ ~worktree /\ Works /\ runtime' = "none" /\ Return(h) /\ UNCHANGED notes
       \/ Fails /\ Return(h) /\ UNCHANGED <<runtime, notes>>
    /\ UNCHANGED <<db, disk, agent, boot, seen, bounds, stopped, due>>

RelaunchMark(h) ==
    /\ op[h].call \in {"restore", "resume"} /\ op[h].at = "mark"
    /\ \/ Works /\ Launched /\ Note(Carried) /\ Goto(h, "prompt") /\ UNCHANGED runtime
       \/ Fails /\ Destroyed /\ UNCHANGED <<row, seen>> /\ LeftBehind /\ Return(h)
    /\ UNCHANGED <<marker, disk, agent, boot, bounds, stopped, due>>

\* An agent that cannot be given its prompt is destroyed and its session
\* terminated; the errors of both are ignored.
RelaunchPrompt(h) ==
    /\ op[h].call \in {"restore", "resume"} /\ op[h].at = "prompt" /\ Return(h)
    /\ \/ Works /\ UNCHANGED <<row, runtime, notes>>
       \/ Fails /\ Destroyed /\ row' \in {row, Terminated} /\ LeftBehind
    /\ UNCHANGED <<marker, disk, agent, boot, seen, bounds, stopped, due>>

CleanupBegin(h) ==
    /\ Ended /\ row.path /\ Begin(h, "cleanup", "runtime")
    /\ UNCHANGED <<row, stopped>>

CleanupRuntime(h) ==
    /\ Step(h, "cleanup", "runtime") /\ Goto(h, "workspace")
    /\ \/ Works /\ runtime' = (IF op[h].rec.handle THEN "none" ELSE runtime)
       \/ op[h].rec.handle /\ Fails /\ UNCHANGED runtime
    /\ UNCHANGED <<db, disk, agent, boot, seen, bounds, ghost>>

CleanupWorkspace(h) ==
    /\ Step(h, "cleanup", "workspace") /\ Return(h)
    /\ \/ Works /\ (IF Dirty THEN UNCHANGED disk ELSE RemoveWorktree)
       \/ Fails /\ UNCHANGED disk
    /\ UNCHANGED <<db, runtime, agent, boot, seen, bounds, ghost>>

-----------------------------------------------------------------------------
(* The agent and the reaper                                                *)

\* A retirement has captured the worktree and not removed it yet.
Retiring == \E h \in Handlers : op[h].call = "retire" /\ op[h].at \in {"runtime", "force"}

AgentWrites ==
    /\ runtime = "agent" /\ worktree /\ wrote < MaxUnits
    /\ wrote' = wrote + 1 /\ work' = work \cup {wrote + 1}
    /\ late' = (IF Retiring THEN late \cup {wrote + 1} ELSE late)
    /\ UNCHANGED <<db, runtime, worktree, preserved, kept, op, boot, seen, bounds, failures, ghost>>

AgentCommits ==
    /\ runtime = "agent" /\ Dirty
    /\ kept' = kept \cup work /\ work' = {}
    /\ UNCHANGED <<db, runtime, worktree, preserved, wrote, late, op, boot, seen, bounds,
                   failures, ghost>>

AgentExits ==
    /\ runtime = "agent" /\ runtime' = "shell"
    /\ UNCHANGED <<db, disk, agent, op, boot, seen, bounds, failures, ghost>>

ExitReported ==
    /\ runtime = "shell" /\ Live /\ row.handle /\ ~row.exited
    /\ row' = [row EXCEPT !.exited = TRUE]
    /\ UNCHANGED <<marker, runtime, disk, agent, op, boot, seen, bounds, failures, ghost>>

RuntimeDies ==
    /\ runtime # "none" /\ runtime' = "none"
    /\ UNCHANGED <<db, disk, agent, op, boot, seen, bounds, failures, ghost>>

Probe ==
    /\ Live /\ row.handle /\ runtime = "none" /\ seen' = "dead"
    /\ UNCHANGED <<db, runtime, disk, agent, op, boot, bounds, failures, ghost>>

\* An observation older than the last launch is within the recent-activity
\* window, unless the new agent has exited already.
ApplyRuntimeObservation ==
    /\ seen # "none" /\ seen' = "none"
    /\ row' = IF Live /\ (seen = "dead" \/ row.exited) THEN Terminated ELSE row
    /\ due' = (due /\ row' = row)
    /\ Note(IF row' # row /\ runtime # "none" THEN {"leaked"} ELSE {})
    /\ UNCHANGED <<marker, runtime, disk, agent, op, boot, bounds, failures, stopped>>

-----------------------------------------------------------------------------
(* The death of the daemon and Reconcile                                   *)

\* A boot has to bring back a live session no call was working on, and so
\* has the boot after it if it dies itself.
Crash ==
    /\ crashes < MaxCrashes /\ crashes' = crashes + 1
    /\ op' = [h \in Handlers |-> Idle] /\ seen' = "none"
    /\ boot' = [at |-> "list", rec |-> Unborn, ref |-> "none"]
    /\ runtime' \in {runtime, "none"}
    /\ due' = (IF Quiet THEN Live /\ row.path /\ worktree ELSE due)
    /\ Note((IF ~row.handle /\ \E h \in Handlers : op[h].at = "mark" THEN {"cut"} ELSE {})
            \cup (IF boot.at \in {"prompt", "unmark"} THEN {"carried"} ELSE {}))
    /\ UNCHANGED <<db, disk, agent, calls, failures, stopped>>

BootList ==
    /\ boot.at = "list"
    /\ boot' = [boot EXCEPT !.rec = row,
                            !.at = IF Live THEN "live" ELSE IF Ended THEN "reap" ELSE "restore"]
    /\ UNCHANGED <<db, runtime, disk, agent, op, seen, bounds, failures, ghost>>

\* A session whose runtime survived is adopted; a failed probe is no proof of
\* death.
BootLive ==
    /\ boot.at = "live"
    /\ \/ boot.rec.path /\ runtime = "none" /\ Works /\ Boots("stash") /\ UNCHANGED <<due, notes>>
       \/ (~boot.rec.path \/ runtime # "none") /\ Works /\ Boots("restore")
          /\ UNCHANGED <<due, notes>>
       \/ boot.rec.path /\ Fails /\ Boots("restore") /\ due' = FALSE /\ Note(Carried)
    /\ UNCHANGED <<db, runtime, disk, agent, op, seen, bounds, stopped>>

\* Seeded fault: work that cannot be captured leaves the row live.
GiveUpSilently == row' = row /\ Boots("restore") /\ due' = FALSE

\* Work that cannot be captured: terminate without a marker, keep the worktree.
GiveUp == row' = Terminated /\ Boots("restore") /\ due' = FALSE

\* Seeded fault: the row is terminated before its marker is written.
BootStashTerminates ==
    /\ boot.at = "stash"
    /\ \/ /\ worktree /\ Works /\ Stash /\ row' = Terminated
          /\ boot' = [boot EXCEPT !.at = "marker", !.ref = Captured] /\ UNCHANGED due
       \/ (IF worktree THEN Fails ELSE Works) /\ GiveUp /\ UNCHANGED disk
    /\ UNCHANGED <<marker, runtime, agent, op, seen, bounds, stopped, notes>>

BootStash ==
    /\ boot.at = "stash"
    /\ \/ /\ worktree /\ Works /\ Stash
          /\ boot' = [boot EXCEPT !.at = "marker", !.ref = Captured] /\ UNCHANGED <<row, due>>
       \/ (IF worktree THEN Fails ELSE Works) /\ GiveUp /\ UNCHANGED disk
    /\ UNCHANGED <<marker, runtime, agent, op, seen, bounds, stopped, notes>>

BootMarker ==
    /\ boot.at = "marker"
    /\ \/ Works /\ marker' = boot.ref /\ Boots("mark") /\ UNCHANGED <<row, due>>
       \/ Fails /\ GiveUp /\ UNCHANGED marker
    /\ UNCHANGED <<runtime, disk, agent, op, seen, bounds, stopped, notes>>

BootMark ==
    /\ boot.at = "mark" /\ row' = Terminated /\ Boots("force")
    /\ UNCHANGED <<marker, runtime, disk, agent, op, seen, bounds, failures, ghost>>

BootForce ==
    /\ boot.at = "force" /\ Boots("restore")
    /\ \/ Works /\ RemoveWorktree
       \/ Fails /\ UNCHANGED disk
    /\ UNCHANGED <<db, runtime, agent, op, seen, bounds, ghost>>

\* Seeded fault: a terminated session is taken to have no runtime.
BootReapSkipped ==
    /\ boot.at = "reap" /\ Boots("restore") /\ Works
    /\ UNCHANGED <<db, runtime, disk, agent, op, seen, bounds, ghost>>

\* The leaked runtime of a terminated session.
BootReap ==
    /\ boot.at = "reap" /\ Boots("restore")
    /\ \/ Works /\ runtime' = (IF boot.rec.handle THEN "none" ELSE runtime) /\ UNCHANGED notes
       \/ boot.rec.handle /\ Fails /\ Note({"leaked"}) /\ UNCHANGED runtime
    /\ UNCHANGED <<db, disk, agent, op, seen, bounds, stopped, due>>

BootRestore ==
    /\ boot.at = "restore"
    /\ \/ Ended /\ marker # "none" /\ Works /\ RestoreWorktree /\ Boots("apply") /\ UNCHANGED due
       \/ Ended /\ marker # "none" /\ Fails /\ Boots("returned") /\ due' = FALSE /\ UNCHANGED disk
       \/ ~(Ended /\ marker # "none") /\ Works /\ Boots("returned") /\ UNCHANGED <<disk, due>>
    /\ UNCHANGED <<db, runtime, agent, op, seen, bounds, stopped, notes>>

\* The capture is merged in and its ref deleted.  A conflict keeps the ref,
\* with or without the markers in the files; a ref that is gone is logged.
BootApply ==
    /\ boot.at = "apply" /\ Boots("create") /\ UNCHANGED worktree
    /\ \/ marker = "ref" /\ Works /\ work' = work \cup preserved /\ preserved' = {}
       \/ marker = "ref" /\ Fails /\ work' \in {work, work \cup preserved} /\ UNCHANGED preserved
       \/ marker = "clean" /\ Works /\ UNCHANGED <<work, preserved>>
    /\ UNCHANGED <<db, runtime, agent, op, seen, bounds, ghost>>

BootCreate ==
    /\ boot.at = "create"
    /\ \/ CanCreate /\ Works /\ runtime' = "agent" /\ Note(Unreplayed) /\ Boots("launch")
          /\ UNCHANGED due
       \/ (IF CanCreate THEN Fails ELSE Works) /\ Boots("returned") /\ due' = FALSE
          /\ UNCHANGED <<runtime, notes>>
    /\ UNCHANGED <<db, disk, agent, op, seen, bounds, stopped>>

\* The relaunch of a boot that fails: the error of Destroy is ignored here too.
BootLaunchFails ==
    /\ Fails /\ Destroyed /\ Boots("returned") /\ due' = FALSE
    /\ Note((IF runtime' # "none" /\ row'.life # "live" THEN {"leaked"} ELSE {})
            \cup (IF row'.life = "live" THEN {"carried"} ELSE {}))

BootLaunch ==
    /\ boot.at = "launch"
    /\ \/ Works /\ Launched /\ Boots("prompt") /\ UNCHANGED <<runtime, due, notes>>
       \/ UNCHANGED <<row, seen>> /\ BootLaunchFails
    /\ UNCHANGED <<marker, disk, agent, op, bounds, stopped>>

BootPrompt ==
    /\ boot.at = "prompt"
    /\ \/ Works /\ Boots("unmark") /\ UNCHANGED <<row, runtime, due, notes>>
       \/ row' \in {row, Terminated} /\ BootLaunchFails
    /\ UNCHANGED <<marker, disk, agent, op, seen, bounds, stopped>>

\* Seeded fault: the consumed marker stays.
BootUnmarkSkipped ==
    /\ boot.at = "unmark" /\ Boots("returned") /\ Works
    /\ UNCHANGED <<db, runtime, disk, agent, op, seen, bounds, ghost>>

\* One-shot: the consumed marker goes.
BootUnmark ==
    /\ boot.at = "unmark" /\ Boots("returned")
    /\ \/ Works /\ marker' = "none" /\ UNCHANGED notes
       \/ Fails /\ Note({"carried"}) /\ UNCHANGED marker
    /\ UNCHANGED <<row, runtime, disk, agent, op, seen, bounds, stopped, due>>

\* ReconcileRuntime, the other startup passes, and srv.Run.
BootServe ==
    /\ boot.at = "returned"
    /\ boot' = [at |-> "served", rec |-> Unborn, ref |-> "none"] /\ due' = FALSE
    /\ UNCHANGED <<db, runtime, disk, agent, op, seen, bounds, failures, stopped, notes>>

Reconcile ==
    \/ BootList \/ BootLive \/ BootStash \/ BootMarker \/ BootMark \/ BootForce
    \/ BootReap \/ BootRestore \/ BootApply \/ BootCreate \/ BootLaunch \/ BootPrompt
    \/ BootUnmark \/ BootServe

Serve(h) ==
    \/ SpawnSeed(h) \/ SpawnWorkspace(h) \/ SpawnCreate(h) \/ SpawnMark(h) \/ SpawnPrompt(h)
    \/ KillBegin(h) \/ KillRuntime(h) \/ KillWorkspace(h) \/ KillUnmark(h) \/ StopMark(h)
    \/ RetireBegin(h) \/ RetireStash(h) \/ RetireRuntime(h) \/ RetireForce(h) \/ RetireUnmark(h)
    \/ RestoreBegin(h) \/ RestoreWorkspace(h) \/ RestoreCreate(h) \/ RelaunchMark(h)
    \/ RelaunchPrompt(h)
    \/ ResumeBegin(h) \/ ResumeRestart(h)
    \/ CleanupBegin(h) \/ CleanupRuntime(h) \/ CleanupWorkspace(h)

Next ==
    \/ \E h \in Handlers : Serve(h)
    \/ AgentWrites \/ AgentCommits \/ AgentExits \/ ExitReported \/ RuntimeDies
    \/ Probe \/ ApplyRuntimeObservation
    \/ Crash \/ Reconcile

Spec == Init /\ [][Next]_vars

-----------------------------------------------------------------------------
Lost == (1..wrote) \ (work \cup preserved \cup kept)

TypeOK ==
    /\ row \in Rows /\ marker \in {"none", "clean", "ref"}
    /\ runtime \in {"none", "agent", "shell"}
    /\ worktree \in BOOLEAN /\ work \subseteq Units /\ preserved \subseteq Units
    /\ kept \subseteq Units /\ wrote \in 0..MaxUnits /\ late \subseteq Units
    /\ \A h \in Handlers :
         /\ op[h].call \in {"none", "spawn", "kill", "retire", "restore", "resume", "cleanup"}
         /\ op[h].at \in {"idle", "workspace", "create", "mark", "prompt", "runtime", "unmark",
                          "stash", "force", "restart"}
         /\ op[h].rec \in Rows
    /\ boot.rec \in Rows /\ boot.ref \in {"none", "clean", "ref"}
    /\ boot.at \in {"served", "list", "live", "stash", "marker", "mark", "force", "reap",
                    "restore", "apply", "create", "launch", "prompt", "unmark", "returned"}
    /\ seen \in {"none", "dead", "stale"}
    /\ calls \in 0..MaxCalls /\ crashes \in 0..MaxCrashes /\ failures \in 0..MaxFailures
    /\ stopped \in BOOLEAN /\ due \in BOOLEAN /\ notes \subseteq Notes
    /\ work # {} => worktree

\* Whatever calls, deaths of the daemon and failed steps follow each other,
\* uncommitted work leaves the worktree only after its capture: what is lost
\* was written while a retirement was between capture and removal, or lay in
\* a preserve ref when an agent was started without it.
WorkKept == Lost \subseteq late \/ "unreplayed" \in notes

\* A session that was killed or retired while nothing was launching it is not
\* live again until a restore is asked for, not even through the marker of an
\* earlier shutdown, unless deleting that marker failed.
StoppedStaysDown == stopped /\ "leftover" \notin notes => ~Live

\* A boot resumes what the daemon's end interrupted, and only once.  A live
\* session that no call was working on when the daemon died is live when
\* Reconcile returns, even if the daemon dies again in the middle of Reconcile,
\* unless a step of Reconcile failed or the reaper came first.  The marker of a
\* shutdown is consumed by the boot it was written for: a live session has
\* none, unless the daemon died between the launch and its deletion, the
\* deletion failed, the launch was given up and its row could not be terminated,
\* or the session was restored by hand before a boot could.
ResumedOnce ==
    /\ boot.at = "returned" /\ due => Live
    /\ Quiet /\ Live /\ "carried" \notin notes => marker = "none"

\* When Reconcile returns, a runtime belongs to a live row that names it,
\* unless the daemon died before a MarkSpawned could name it, or it was left
\* behind: by a Destroy that failed, in a boot or for a row that does not name
\* it, or by an old observation.  One that a failed Destroy has left to a row
\* that names it is destroyed by the boot.
RealityMatchesRow ==
    boot.at = "returned" /\ runtime # "none" /\ notes \cap {"cut", "leaked"} = {}
        => Live /\ row.handle

\* Calls served one at a time never leave a live session without the worktree
\* its row names, wherever the daemon dies.
LiveHasWorktree == Quiet /\ Live /\ row.path /\ failures = 0 /\ "overlap" \notin notes => worktree

\* "however the previous daemon died (clean shutdown, SIGKILL, or crash), live
\* reality matches the DB"
HoweverTheDaemonDied == boot.at = "returned" /\ runtime # "none" => Live /\ row.handle

\* "Never delete a preserve ref except immediately after a successful clean
\* apply": work that was captured is not lost.
CapturedWorkKept == Lost \subseteq late
=============================================================================
