------------------------ MODULE SessionManagerProofs ------------------------
(***************************************************************************)
(* Proofs about SessionManager, for every number of requests, calls, units *)
(* of work, failures and deaths of the daemon.  SessionInv is inductive;   *)
(* the six invariants of the run follow from it.                           *)
(***************************************************************************)
EXTENDS SessionManager, TLAPS

OpRecord ==
    [call : {"none", "spawn", "kill", "retire", "restore", "resume", "cleanup"},
     at : {"idle", "workspace", "create", "mark", "prompt", "runtime", "unmark", "stash",
           "force", "restart"},
     rec : Rows]

BootRecord ==
    [at : {"served", "list", "live", "stash", "marker", "mark", "force", "reap", "restore",
           "apply", "create", "launch", "prompt", "unmark", "returned"},
     rec : Rows, ref : {"none", "clean", "ref"}]

SessionTypes ==
    /\ row \in Rows /\ marker \in {"none", "clean", "ref"}
    /\ runtime \in {"none", "agent", "shell"}
    /\ worktree \in BOOLEAN /\ work \subseteq Units /\ preserved \subseteq Units
    /\ kept \subseteq Units /\ wrote \in 0..MaxUnits /\ late \subseteq Units
    /\ op \in [Handlers -> OpRecord] /\ boot \in BootRecord
    /\ seen \in {"none", "dead", "stale"}
    /\ calls \in 0..MaxCalls /\ crashes \in 0..MaxCrashes /\ failures \in 0..MaxFailures
    /\ stopped \in BOOLEAN /\ due \in BOOLEAN /\ notes \subseteq Notes
    /\ work # {} => worktree

\* What the row can be: a row with a worktree names its runtime while it is
\* live, and so does one with a marker; a row that no call has taken up is new.
RowShape ==
    /\ row.life \in {"unborn", "deleted"} => ~row.path /\ ~row.handle
    /\ Live /\ row.path => row.handle
    /\ marker # "none" => row.path /\ row.handle
    /\ row.life = "unborn" =>
         /\ marker = "none" /\ runtime = "none" /\ work = {} /\ preserved = {} /\ wrote = 0
         /\ ~stopped

\* What a call that is being served knows: a row, no marker and, while it
\* spawns, a session nothing has run in yet.
CallShape ==
    /\ \A h \in Handlers : op[h].call = "none" <=> op[h].at = "idle"
    /\ \A h \in Handlers : op[h].call # "none" => row.life # "unborn"
    /\ \A h \in Handlers : op[h].call = "spawn" => marker = "none"
    /\ \A h \in Handlers : op[h].call = "spawn" /\ op[h].at \in {"workspace", "create"} =>
         /\ runtime = "none" /\ work = {} /\ preserved = {} /\ wrote = 0
         /\ ~row.path /\ ~row.handle
         /\ \A g \in Handlers \ {h} : op[g].call \notin {"spawn", "restore", "resume"}

\* What Reconcile knows at each of its steps.
BootShape ==
    /\ boot.at # "served" => \A h \in Handlers : op[h].call = "none"
    /\ boot.at \in {"live", "stash", "marker", "mark", "force"} =>
         /\ row.path = boot.rec.path /\ row.handle = boot.rec.handle
         /\ boot.rec.path => boot.rec.handle
         /\ row.life \in {"live", "terminated"}
    /\ boot.at \in {"stash", "marker", "mark", "force"} => boot.rec.path /\ runtime = "none"
    /\ boot.at \in {"marker", "mark", "force"} => work \subseteq preserved
    /\ boot.at = "marker" => boot.ref # "none"
    /\ boot.at = "force" => Ended
    /\ boot.at = "reap" => Ended /\ row.handle = boot.rec.handle
    /\ boot.at \in {"apply", "create", "launch"} => Ended /\ marker # "none" /\ worktree

\* Uncommitted work is somewhere.  What a retirement is about to remove is in
\* the ref or late; the ref holds nothing that the worktree of a running agent
\* does not, so that the next capture overwrites nothing.
WorkSafe ==
    /\ \A h \in Handlers : op[h].call = "retire" /\ op[h].at \in {"runtime", "force"} =>
         work \subseteq preserved \cup late
    /\ "unreplayed" \notin notes =>
         /\ 1..wrote \subseteq work \cup preserved \cup kept \cup late
         /\ runtime = "agent" \/ work # {} => preserved \subseteq work \cup kept \cup late
         /\ \A h \in Handlers : op[h].call = "retire" /\ op[h].at = "force" /\ runtime = "agent" =>
              preserved \subseteq kept \cup late

\* A session that was stopped has no marker and no launch under way, and a
\* boot finds nothing to do for it.
StaysDown ==
    /\ \A h \in Handlers : op[h].call = "kill" /\ op[h].at = "mark" =>
         marker = "none" \/ "leftover" \in notes
    /\ \A h \in Handlers : op[h].call = "retire" /\ op[h].at = "mark" => marker = "none"
    /\ stopped /\ "leftover" \notin notes =>
         /\ row.life \in {"terminated", "deleted"} /\ marker = "none"
         /\ \A h \in Handlers : op[h].call \notin {"spawn", "restore", "resume"}
         /\ boot.at \in {"served", "list", "reap", "restore", "returned"}

\* A session that is due is live or has its marker, at every step of Reconcile
\* and whichever of them the daemon dies at.
Due ==
    due =>
      /\ boot.at # "served"
      /\ boot.at \in {"live", "stash", "marker", "mark", "prompt", "unmark", "returned"} => Live
      /\ boot.at \in {"mark", "force", "reap", "apply", "create", "launch"} => marker # "none"
      /\ boot.at \in {"force", "reap", "apply", "create", "launch"} => Ended
      /\ boot.at \in {"list", "restore"} => Live \/ (Ended /\ marker # "none")

\* A live session has no marker; where a death of the daemon left one, the
\* session has no runtime and the next boot saves it again.
Consumed ==
    "carried" \notin notes /\ Live /\ marker # "none" =>
      /\ boot.at \notin {"served", "reap", "restore", "returned"}
      /\ boot.at \in {"list", "live"} => runtime = "none"

\* A runtime is named by the row, or by a launch that is about to, unless the
\* launch was cut or has left it behind.
Named ==
    /\ runtime # "none" /\ "cut" \notin notes /\ "leaked" \notin notes /\ ~row.handle =>
         /\ boot.at = "served"
         /\ \E h \in Handlers : op[h].call \in {"spawn", "restore", "resume"} /\ op[h].at = "mark"
    /\ boot.at \in {"live", "restore", "apply", "create", "prompt", "unmark", "returned"}
           /\ runtime # "none" /\ notes \cap {"cut", "leaked"} = {} => Live /\ row.handle

\* Calls that are served one at a time, and none of whose steps fail.
Orderly ==
    /\ \A g, h \in Handlers : op[g].call # "none" /\ op[h].call # "none" => g = h
    /\ \A h \in Handlers : op[h].call = "kill" =>
         /\ op[h].rec.path = row.path /\ op[h].rec.handle = row.handle
         /\ op[h].at = "workspace" /\ row.handle => runtime = "none"
    /\ \A h \in Handlers : op[h].call = "retire" /\ op[h].at = "force" => runtime = "none"
    /\ \A h \in Handlers : op[h].call = "cleanup" => ~Live
    /\ \A h \in Handlers : op[h].call \in {"spawn", "restore", "resume"}
         /\ op[h].at \in {"create", "mark", "prompt"} => worktree
    /\ Live /\ row.path /\ ~worktree =>
         /\ boot.at \notin {"restore", "prompt", "unmark", "returned"}
         /\ boot.at \in {"served", "list", "live"} => runtime = "none"
         /\ boot.at = "served" =>
              \E h \in Handlers : op[h].call \in {"kill", "retire"} /\ op[h].at \in {"unmark", "mark"}

OneAtATime == failures = 0 /\ "overlap" \notin notes => Orderly

SessionInv ==
    /\ SessionTypes /\ RowShape /\ CallShape /\ BootShape /\ WorkSafe /\ StaysDown /\ Due
    /\ Consumed /\ Named /\ OneAtATime

\* What one handler does: it takes a step, and the others stay where they are.
Served(h, call, step) ==
    /\ op' \in [Handlers -> OpRecord] /\ op'[h].call = call /\ op'[h].at = step
    /\ \A g \in Handlers \ {h} : op'[g] = op[g]

Moves(h, step) == Served(h, op[h].call, step) /\ op'[h].rec = op[h].rec
Leaves(h) == Served(h, "none", "idle")

\* The failures so far; the steps that fail are counted.
Counted == failures' \in 0..MaxFailures /\ (failures' = 0 => failures = 0)

Steps == {"idle", "workspace", "create", "mark", "prompt", "runtime", "unmark", "stash", "force",
          "restart"}

\* A step that goes on keeps the row the call read; one that returns leaves its
\* handler idle.
LEMMA HandlerMoves ==
    ASSUME SessionTypes, NEW h \in Handlers
    PROVE  /\ \A step \in Steps : Goto(h, step) => Moves(h, step)
           /\ Return(h) => Leaves(h)
<1>1. \A step \in Steps : Goto(h, step) => Moves(h, step)
  BY DEF SessionTypes, Goto, Moves, Served, OpRecord, Steps
<1>2. Return(h) => Leaves(h)
  BY DEF SessionTypes, Return, Idle, Leaves, Served, OpRecord, Rows, Unborn
<1> QED
  BY <1>1, <1>2

\* A step works, or it fails and one failure more has been counted.
LEMMA Counting ==
    ASSUME SessionTypes
    PROVE  (Works => Counted) /\ (Fails => Counted /\ failures' # 0)
  BY SessionManagerAssumption DEF SessionTypes, Works, Fails, Counted

\* A call begins while Reconcile is over, with the row as it is; if another is
\* being served that is noted.
Begun(h, call, step) ==
    /\ boot.at = "served" /\ op[h].at = "idle"
    /\ Served(h, call, step) /\ op'[h].rec = row
    /\ "overlap" \notin notes' => \A g \in Handlers : op[g].at = "idle"
    /\ notes' \in {notes, notes \cup {"overlap"}} /\ calls' \in 0..MaxCalls
    /\ UNCHANGED <<marker, runtime, worktree, work, preserved, kept, wrote, late, boot, seen,
                   crashes, failures, due>>

\* A call that begins is at its first step with the row it read.
LEMMA HandlerBegins ==
    ASSUME SessionTypes, NEW h \in Handlers, NEW step \in Steps,
           NEW call \in {"spawn", "kill", "retire", "restore", "resume", "cleanup"},
           Begin(h, call, step)
    PROVE  Begun(h, call, step)
<1>1. Served(h, call, step) /\ op'[h].rec = row
  BY DEF SessionTypes, Begin, Served, OpRecord, Steps
<1>2. calls' \in 0..MaxCalls
  BY SessionManagerAssumption DEF SessionTypes, Begin
<1>3. UNCHANGED <<marker, runtime, worktree, work, preserved, kept, wrote, late, boot, seen,
                  crashes, failures, due>>
  BY DEF Begin, disk, agent
<1> QED
  BY <1>1, <1>2, <1>3 DEF Begin, Begun, Note

\* What becomes of a row that is terminated, that is rolled back, and that
\* MarkSpawned writes.
Ends ==
    /\ row' \in Rows /\ row'.path = row.path /\ row'.handle = row.handle
    /\ row'.life = IF row.life = "live" THEN "terminated" ELSE row.life

RollsBack ==
    /\ row' \in Rows /\ row'.path = row.path /\ row'.handle = row.handle
    /\ row'.life \in {row.life, "terminated", "deleted"} /\ row'.life # "live"
    /\ row'.life = "terminated" => row.life \in {"live", "terminated"}
    /\ row'.life = "deleted" => (~row.path /\ ~row.handle) \/ row.life = "deleted"

Spawns == row' \in Rows /\ row'.life = "live" /\ row'.path /\ row'.handle

\* Each of these writes what its name says.
LEMMA RowsWritten ==
    ASSUME SessionTypes
    PROVE  /\ row' = Terminated => Ends
           /\ row' = RolledBack(row) => RollsBack
           /\ row' = Spawned => Spawns
<1>1. row \in Rows
  BY DEF SessionTypes
<1>2. row' = Terminated => Ends
  BY <1>1 DEF Terminated, Ends, Rows, Live
<1>3. row' = RolledBack(row) => RollsBack
  BY <1>1 DEF RolledBack, RollsBack, Terminated, Rows, Live
<1>4. row' = Spawned => Spawns
  BY <1>1 DEF Spawned, Spawns, Rows
<1> QED
  BY <1>2, <1>3, <1>4

\* What is left of a row whose spawn has failed.
Parks ==
    /\ row.life # "deleted" /\ row' \in Rows
    /\ row'.life \in {row.life, "terminated"} /\ row'.life # "live"

\* A failed launch leaves no runtime but one that the row names, or that is
\* noted.
Deserts ==
    /\ runtime' \in {runtime, "none"} /\ notes' \in {notes, notes \cup {"leaked"}}
    /\ runtime' # "none" /\ ~row'.handle => "leaked" \in notes'

\* A spawn that fails once its runtime was created: what it undoes.
Undone(h) ==
    /\ Leaves(h) /\ marker' = "none" /\ UNCHANGED <<work, preserved>>
    /\ worktree' = worktree \/ (worktree' = FALSE /\ work = {})
    /\ row' = row \/ Parks
    /\ Deserts

\* A row is parked as it is or terminated.
LEMMA RowParked ==
    ASSUME SessionTypes, NEW down \in BOOLEAN, NEW gone \in BOOLEAN, row' = Parked(down, gone)
    PROVE  row' = row \/ Parks
<1>1. CASE row.life = "deleted"
  BY <1>1 DEF Parked
<1>2. CASE row.life # "deleted"
  <2>1. row \in Rows
    BY DEF SessionTypes
  <2> DEFINE ended == Terminated
  <2>2. ended \in Rows /\ ended.life \in {row.life, "terminated"} /\ ended.life # "live"
    BY <2>1 DEF Terminated, Rows, Live
  <2>3. row' = [ended EXCEPT !.path = ~gone \/ (@ /\ ~down), !.handle = @ /\ ~down]
    BY <1>2 DEF Parked
  <2> HIDE DEF ended
  <2>4. row' \in Rows /\ row'.life = ended.life
    BY <2>2, <2>3 DEF Rows
  <2> QED
    BY <1>2, <2>2, <2>4 DEF Parks
<1> QED
  BY <1>1, <1>2

\* A runtime that is left behind is noted.
LEMMA LaunchDeserted ==
    ASSUME Destroyed, LeftBehind PROVE Deserts
  BY DEF Destroyed, LeftBehind, Note, Deserts

\* A failed spawn leaves no worktree but one that could not be destroyed.
LEMMA SpawnUndoes ==
    ASSUME SessionTypes, NEW h \in Handlers, SpawnUndone(h)
    PROVE  Undone(h)
<1>1. Leaves(h) /\ marker' = "none"
  BY HandlerMoves DEF SpawnUndone
<1>2. worktree \in BOOLEAN /\ (work # {} => worktree)
  BY DEF SessionTypes
<1>3. PICK down \in BOOLEAN, gone \in BOOLEAN :
        /\ gone => ~Dirty
        /\ Destroyed
        /\ IF gone THEN RemoveWorktree ELSE UNCHANGED disk
        /\ row' \in {row, Parked(down, gone)}
  BY DEF SpawnUndone
<1>4. row' = row \/ Parks
  BY <1>3, RowParked
<1>5. Deserts
  BY <1>3, LaunchDeserted DEF SpawnUndone
<1>6. /\ UNCHANGED <<work, preserved>>
      /\ worktree' = worktree \/ (worktree' = FALSE /\ work = {})
  BY <1>2, <1>3 DEF Dirty, RemoveWorktree, disk
<1> QED
  BY <1>1, <1>4, <1>5, <1>6 DEF Undone

\* Reconcile takes a step: what it read stays with it.
BootsOn(step) ==
    boot' \in BootRecord /\ boot'.at = step /\ boot'.rec = boot.rec /\ boot'.ref = boot.ref

\* A step of Reconcile keeps the row it read and the ref it captured.
LEMMA BootMoves ==
    ASSUME SessionTypes
    PROVE  \A step \in {"live", "stash", "marker", "mark", "force", "reap", "restore", "apply",
                        "create", "launch", "prompt", "unmark", "returned"} : Boots(step) => BootsOn(step)
  BY DEF SessionTypes, Boots, BootsOn, BootRecord

\* A session is seeded: nothing has run in it.
LEMMA SpawnSeedStep ==
    ASSUME SessionInv, NEW h \in Handlers, SpawnSeed(h)
    PROVE  SessionInv'
<1> USE DEF SessionInv
<1>0. SessionTypes
  OBVIOUS
<1>1. /\ row.life = "unborn" /\ Begun(h, "spawn", "workspace") /\ stopped' = stopped
      /\ row' \in Rows /\ row'.life = "live" /\ ~row'.path /\ ~row'.handle
  BY HandlerBegins, <1>0 DEF SpawnSeed, Unborn, Rows, Steps
<1> USE <1>1 DEF Begun, Served
<1>2. SessionTypes'
  BY DEF SessionTypes, Counted, Notes
<1>3. RowShape'
  BY DEF RowShape, Live
<1>4. CallShape'
  BY DEF CallShape, RowShape
<1>5. BootShape'
  BY DEF BootShape, Live, Ended
<1>6. WorkSafe'
  BY DEF WorkSafe
<1>7. StaysDown'
  BY DEF StaysDown, Live
<1>8. Due'
  BY DEF Due, Live, Ended
<1>9. Consumed'
  BY DEF Consumed, Live, RowShape, CallShape
<1>10. Named'
  BY DEF Named, Live, RowShape, CallShape
<1>11. OneAtATime'
  BY DEF OneAtATime, Orderly, Counted, Live, CallShape
<1> QED
  BY <1>2, <1>3, <1>4, <1>5, <1>6, <1>7, <1>8, <1>9, <1>10, <1>11

\* The worktree of a new session, or the end of its seed.
LEMMA SpawnWorkspaceStep ==
    ASSUME SessionInv, NEW h \in Handlers, SpawnWorkspace(h)
    PROVE  SessionInv'
<1> USE DEF SessionInv
<1>0. SessionTypes
  OBVIOUS
<1>1. /\ op[h].call = "spawn" /\ op[h].at = "workspace" /\ Counted
      /\ \/ /\ Moves(h, "create") /\ row' = row
            /\ worktree' = TRUE /\ work' = work /\ preserved' = preserved
         \/ /\ Leaves(h) /\ RollsBack /\ failures' # 0
            /\ UNCHANGED <<worktree, work, preserved>>
      /\ UNCHANGED <<marker, runtime, kept, wrote, late, boot, seen, calls, crashes, stopped,
                      due, notes>>
  BY HandlerMoves, Counting, RowsWritten, <1>0 DEF SpawnWorkspace, RestoreWorktree, Step, Steps,
     db, disk, agent, bounds, ghost
<1> USE <1>1 DEF Moves, Leaves, RollsBack, Served
<1>2. SessionTypes'
  <2>1. worktree' \in BOOLEAN
    BY DEF SessionTypes
  <2>2. work' \subseteq Units /\ preserved' \subseteq Units
    BY DEF SessionTypes
  <2>3. work' # {} => worktree'
    BY DEF SessionTypes
  <2> QED
    BY <2>1, <2>2, <2>3 DEF SessionTypes, Counted, Notes
<1>3. RowShape'
  BY DEF RowShape, Live
<1>4. CallShape'
  BY DEF CallShape
<1>5. BootShape'
  BY DEF BootShape, Live, Ended
<1>6. WorkSafe'
  BY DEF WorkSafe
<1>7. StaysDown'
  BY DEF StaysDown, Live
<1>8. Due'
  BY DEF Due, Live, Ended, BootShape
<1>9. Consumed'
  BY DEF Consumed, Live
<1>10. Named'
  BY DEF Named, Live, CallShape
<1>11. OneAtATime'
  BY DEF OneAtATime, Orderly, Counted, Live
<1> QED
  BY <1>2, <1>3, <1>4, <1>5, <1>6, <1>7, <1>8, <1>9, <1>10, <1>11

\* The runtime of a new session, or the end of its seed.
LEMMA SpawnCreateStep ==
    ASSUME SessionInv, NEW h \in Handlers, SpawnCreate(h)
    PROVE  SessionInv'
<1> USE DEF SessionInv
<1>0. SessionTypes
  OBVIOUS
<1>1. /\ op[h].call = "spawn" /\ op[h].at = "create" /\ Counted
      /\ work = {}
      /\ \/ /\ Moves(h, "mark") /\ worktree /\ runtime = "none" /\ runtime' = "agent"
            /\ UNCHANGED <<row, worktree>>
         \/ /\ Leaves(h) /\ runtime' = runtime /\ failures' # 0
            /\ \/ RollsBack /\ worktree' = FALSE
               \/ (row' = row \/ Parks) /\ worktree' = worktree
      /\ UNCHANGED <<marker, work, preserved, kept, wrote, late, boot, seen, calls, crashes,
                      stopped, due, notes>>
  BY HandlerMoves, Counting, RowsWritten, RowParked, <1>0 DEF CallShape, SpawnCreate, CanCreate,
     RemoveWorktree, Step, Steps, db, disk, agent, bounds, ghost
<1> USE <1>1 DEF Moves, Leaves, RollsBack, Parks, Served
<1>2. SessionTypes'
  <2>1. worktree' \in BOOLEAN
    BY DEF SessionTypes
  <2>2. work' \subseteq Units /\ preserved' \subseteq Units
    BY DEF SessionTypes
  <2>3. work' # {} => worktree'
    BY DEF SessionTypes
  <2> QED
    BY <2>1, <2>2, <2>3 DEF SessionTypes, Counted, Notes
<1>3. RowShape'
  BY DEF RowShape, CallShape, Live
<1>4. CallShape'
  BY DEF CallShape
<1>5. BootShape'
  BY DEF BootShape, Live, Ended
<1>6. WorkSafe'
  BY DEF WorkSafe, CallShape
<1>7. StaysDown'
  BY DEF StaysDown, Live
<1>8. Due'
  BY DEF Due, Live, Ended, BootShape
<1>9. Consumed'
  BY DEF Consumed, Live, CallShape
<1>10. Named'
  BY DEF Named, Live, BootShape, CallShape
<1>11. OneAtATime'
  BY DEF OneAtATime, Orderly, Counted, Live
<1> QED
  BY <1>2, <1>3, <1>4, <1>5, <1>6, <1>7, <1>8, <1>9, <1>10, <1>11

\* The row is spawned, or what was prepared is undone.
LEMMA SpawnMarkStep ==
    ASSUME SessionInv, NEW h \in Handlers, SpawnMark(h)
    PROVE  SessionInv'
<1> USE DEF SessionInv
<1>0. SessionTypes
  OBVIOUS
<1>1. /\ op[h].call = "spawn" /\ op[h].at = "mark" /\ Counted
      /\ \/ /\ row.life # "deleted" /\ Moves(h, "prompt") /\ Spawns
            /\ seen' \in {seen, "stale"}
            /\ UNCHANGED <<marker, runtime, worktree, notes>>
         \/ Undone(h) /\ seen' = seen /\ (failures' # 0 \/ row.life = "deleted")
      /\ UNCHANGED <<work, preserved, kept, wrote, late, boot, calls, crashes, stopped, due>>
  BY HandlerMoves, Counting, RowsWritten, <1>0, SpawnUndoes DEF Undone, SpawnMark, Launched,
     Step, Steps, db, disk, agent, bounds, ghost
<1> USE <1>1 DEF Leaves, Moves, Undone, Deserts, Parks, Spawns, Served
<1>2. SessionTypes'
  <2>1. worktree' \in BOOLEAN
    BY DEF SessionTypes
  <2>2. work' \subseteq Units /\ preserved' \subseteq Units
    BY DEF SessionTypes
  <2>3. work' # {} => worktree'
    BY DEF SessionTypes
  <2> QED
    BY <2>1, <2>2, <2>3 DEF SessionTypes, Counted, Notes
<1>3. RowShape'
  BY DEF RowShape, CallShape, Live
<1>4. CallShape'
  BY DEF CallShape
<1>5. BootShape'
  BY DEF BootShape, Live, Ended
<1>6. WorkSafe'
  BY DEF WorkSafe
<1>7. StaysDown'
  BY DEF StaysDown, Live
<1>8. Due'
  BY DEF Due, Live, Ended, BootShape
<1>9. Consumed'
  BY DEF Consumed, Live, CallShape
<1>10. Named'
  BY DEF Named, Live, BootShape
<1>11. OneAtATime'
  BY DEF OneAtATime, Orderly, Counted, Live
<1> QED
  BY <1>2, <1>3, <1>4, <1>5, <1>6, <1>7, <1>8, <1>9, <1>10, <1>11

\* The prompt is delivered, or what was prepared is undone.
LEMMA SpawnPromptStep ==
    ASSUME SessionInv, NEW h \in Handlers, SpawnPrompt(h)
    PROVE  SessionInv'
<1> USE DEF SessionInv
<1>0. SessionTypes
  OBVIOUS
<1>1. /\ op[h].call = "spawn" /\ op[h].at = "prompt" /\ Counted
      /\ \/ Leaves(h) /\ UNCHANGED <<row, marker, runtime, worktree, notes>>
         \/ Undone(h) /\ failures' # 0
      /\ UNCHANGED <<work, preserved, kept, wrote, late, boot, seen, calls, crashes, stopped,
                      due>>
  BY HandlerMoves, Counting, RowsWritten, <1>0, SpawnUndoes DEF Undone, SpawnPrompt, Step, Steps,
     db, disk, agent, bounds, ghost
<1> USE <1>1 DEF Leaves, Undone, Deserts, Parks, Served
<1>2. SessionTypes'
  <2>1. worktree' \in BOOLEAN
    BY DEF SessionTypes
  <2>2. work' \subseteq Units /\ preserved' \subseteq Units
    BY DEF SessionTypes
  <2>3. work' # {} => worktree'
    BY DEF SessionTypes
  <2> QED
    BY <2>1, <2>2, <2>3 DEF SessionTypes, Counted, Notes
<1>3. RowShape'
  BY DEF RowShape, CallShape, Live
<1>4. CallShape'
  BY DEF CallShape
<1>5. BootShape'
  BY DEF BootShape, Live, Ended
<1>6. WorkSafe'
  BY DEF WorkSafe
<1>7. StaysDown'
  BY DEF StaysDown, Live
<1>8. Due'
  BY DEF Due, Live, Ended, BootShape
<1>9. Consumed'
  BY DEF Consumed, Live
<1>10. Named'
  BY DEF Named, Live, BootShape
<1>11. OneAtATime'
  BY DEF OneAtATime, Orderly, Counted, Live
<1> QED
  BY <1>2, <1>3, <1>4, <1>5, <1>6, <1>7, <1>8, <1>9, <1>10, <1>11

\* A kill begins.
LEMMA KillBeginStep ==
    ASSUME SessionInv, NEW h \in Handlers, KillBegin(h)
    PROVE  SessionInv'
<1> USE DEF SessionInv
<1>0. SessionTypes
  OBVIOUS
<1>1. /\ row.life \in {"live", "terminated"} /\ Begun(h, "kill", "runtime") /\ UNCHANGED <<row, stopped>>
  BY HandlerBegins, <1>0 DEF KillBegin, Steps
<1> USE <1>1 DEF Begun, Served
<1>2. SessionTypes'
  BY DEF SessionTypes, Counted, Notes
<1>3. RowShape'
  BY DEF RowShape, Live
<1>4. CallShape'
  BY DEF CallShape
<1>5. BootShape'
  BY DEF BootShape, Live, Ended
<1>6. WorkSafe'
  BY DEF WorkSafe
<1>7. StaysDown'
  BY DEF StaysDown, Live
<1>8. Due'
  BY DEF Due, Live, Ended
<1>9. Consumed'
  BY DEF Consumed, Live
<1>10. Named'
  BY DEF Named, Live
<1>11. OneAtATime'
  BY DEF OneAtATime, Orderly, Counted, Live, CallShape
<1> QED
  BY <1>2, <1>3, <1>4, <1>5, <1>6, <1>7, <1>8, <1>9, <1>10, <1>11

\* The runtime the row named when the kill began is destroyed.
LEMMA KillRuntimeStep ==
    ASSUME SessionInv, NEW h \in Handlers, KillRuntime(h)
    PROVE  SessionInv'
<1> USE DEF SessionInv
<1>0. SessionTypes
  OBVIOUS
<1>1. /\ op[h].call = "kill" /\ op[h].at = "runtime" /\ Counted
      /\ \/ Moves(h, "workspace") /\ runtime' = (IF op[h].rec.handle THEN "none" ELSE runtime)
         \/ Leaves(h) /\ runtime' = runtime /\ failures' # 0
      /\ UNCHANGED <<row, marker, worktree, work, preserved, kept, wrote, late, boot, seen,
                      calls, crashes, stopped, due, notes>>
  BY HandlerMoves, Counting, RowsWritten, <1>0 DEF KillRuntime, Step, Steps, db, disk, agent,
     bounds, ghost
<1> USE <1>1 DEF Moves, Leaves, Served
<1>2. SessionTypes'
  BY DEF SessionTypes, Counted, Notes
<1>3. RowShape'
  BY DEF RowShape, Live
<1>4. CallShape'
  BY DEF CallShape
<1>5. BootShape'
  BY DEF BootShape, Live, Ended
<1>6. WorkSafe'
  BY DEF WorkSafe
<1>7. StaysDown'
  BY DEF StaysDown, Live
<1>8. Due'
  BY DEF Due, Live, Ended
<1>9. Consumed'
  BY DEF Consumed, Live
<1>10. Named'
  BY DEF Named, Live
<1>11. OneAtATime'
  BY DEF OneAtATime, Orderly, Counted, Live
<1> QED
  BY <1>2, <1>3, <1>4, <1>5, <1>6, <1>7, <1>8, <1>9, <1>10, <1>11

\* A kill removes a clean worktree and no other.
LEMMA KillWorkspaceStep ==
    ASSUME SessionInv, NEW h \in Handlers, KillWorkspace(h)
    PROVE  SessionInv'
<1> USE DEF SessionInv
<1>0. SessionTypes
  OBVIOUS
<1>1. /\ op[h].call = "kill" /\ op[h].at = "workspace" /\ Counted
      /\ \/ /\ Moves(h, "unmark") /\ worktree' = worktree
            /\ ~op[h].rec.path \/ worktree \/ failures' # 0
         \/ Moves(h, "unmark") /\ op[h].rec.path /\ worktree' = FALSE /\ work = {}
         \/ Leaves(h) /\ worktree' = worktree /\ failures' # 0
      /\ UNCHANGED <<row, marker, runtime, work, preserved, kept, wrote, late, boot, seen,
                      calls, crashes, stopped, due, notes>>
  BY HandlerMoves, Counting, RowsWritten, <1>0 DEF SessionTypes, KillWorkspace, Dirty,
     RemoveWorktree, Step, Steps, db, disk, agent, bounds, ghost
<1> USE <1>1 DEF Moves, Leaves, Served
<1>2. SessionTypes'
  <2>1. worktree' \in BOOLEAN
    BY DEF SessionTypes
  <2>2. work' \subseteq Units /\ preserved' \subseteq Units
    BY DEF SessionTypes
  <2>3. work' # {} => worktree'
    BY DEF SessionTypes
  <2> QED
    BY <2>1, <2>2, <2>3 DEF SessionTypes, Counted, Notes
<1>3. RowShape'
  BY DEF RowShape, Live
<1>4. CallShape'
  BY DEF CallShape
<1>5. BootShape'
  BY DEF BootShape, Live, Ended
<1>6. WorkSafe'
  BY DEF WorkSafe
<1>7. StaysDown'
  BY DEF StaysDown, Live
<1>8. Due'
  BY DEF Due, Live, Ended
<1>9. Consumed'
  BY DEF Consumed, Live
<1>10. Named'
  BY DEF Named, Live
<1>11. OneAtATime'
  <2>1. SUFFICES ASSUME failures' = 0, "overlap" \notin notes' PROVE Orderly'
    BY DEF OneAtATime
  <2>2. Orderly /\ op[h].call # "none"
    BY <2>1 DEF OneAtATime, Counted
  <2>3. \A g \in Handlers \ {h} : op[g].call = "none" /\ op'[g].call = "none"
    BY <2>2 DEF Orderly, Moves, Leaves, Served
  <2>4. op'[h].call = "kill" /\ op'[h].at = "unmark" /\ op'[h].rec = op[h].rec
    BY <2>1 DEF Moves, Leaves, Served
  <2>5. Live /\ row.path /\ worktree' # worktree => runtime = "none"
    BY <2>2, <2>4 DEF Orderly, RowShape, Live
  <2> QED
    BY <2>2, <2>3, <2>4, <2>5 DEF Orderly, Live, BootShape
<1> QED
  BY <1>2, <1>3, <1>4, <1>5, <1>6, <1>7, <1>8, <1>9, <1>10, <1>11

\* The marker is deleted, or it is left over.
LEMMA KillUnmarkStep ==
    ASSUME SessionInv, NEW h \in Handlers, KillUnmark(h)
    PROVE  SessionInv'
<1> USE DEF SessionInv
<1>0. SessionTypes
  OBVIOUS
<1>1. /\ op[h].call = "kill" /\ op[h].at = "unmark" /\ Counted
      /\ Moves(h, "mark")
      /\ \/ marker' = "none" /\ notes' = notes
         \/ marker' = marker /\ notes' = notes \cup {"leftover"} /\ failures' # 0
      /\ UNCHANGED <<row, runtime, worktree, work, preserved, kept, wrote, late, boot, seen,
                      calls, crashes, stopped, due>>
  BY HandlerMoves, Counting, RowsWritten, <1>0 DEF KillUnmark, Note, Step, Steps, db, disk,
     agent, bounds, ghost
<1> USE <1>1 DEF Moves, Served
<1>2. SessionTypes'
  BY DEF SessionTypes, Counted, Notes
<1>3. RowShape'
  BY DEF RowShape, Live
<1>4. CallShape'
  BY DEF CallShape
<1>5. BootShape'
  BY DEF BootShape, Live, Ended
<1>6. WorkSafe'
  BY DEF WorkSafe
<1>7. StaysDown'
  BY DEF StaysDown, Live
<1>8. Due'
  BY DEF Due, Live, Ended, BootShape
<1>9. Consumed'
  BY DEF Consumed, Live
<1>10. Named'
  BY DEF Named, Live
<1>11. OneAtATime'
  BY DEF OneAtATime, Orderly, Counted, Live
<1> QED
  BY <1>2, <1>3, <1>4, <1>5, <1>6, <1>7, <1>8, <1>9, <1>10, <1>11

\* The row is terminated; a stop is final while nothing launches.
LEMMA StopMarkStep ==
    ASSUME SessionInv, NEW h \in Handlers, StopMark(h)
    PROVE  SessionInv'
<1> USE DEF SessionInv
<1>0. SessionTypes
  OBVIOUS
<1>1. /\ op[h].call \in {"kill", "retire"} /\ op[h].at = "mark" /\ Counted /\ Leaves(h)
      /\ \/ /\ Ends
            /\ (stopped' => \A g \in Handlers : op[g].call \notin {"spawn", "restore", "resume"})
            /\ stopped' \in BOOLEAN
         \/ failures' # 0 /\ UNCHANGED <<row, stopped>>
      /\ UNCHANGED <<marker, runtime, worktree, work, preserved, kept, wrote, late, boot, seen,
                      calls, crashes, due, notes>>
  BY HandlerMoves, Counting, RowsWritten, <1>0 DEF StopMark, Launching, Step, Steps, db, disk,
     agent, bounds, ghost
<1> USE <1>1 DEF Leaves, Ends, Served
<1>2. SessionTypes'
  BY DEF SessionTypes, Counted, Notes
<1>3. RowShape'
  BY DEF RowShape, CallShape, Live
<1>4. CallShape'
  BY DEF CallShape
<1>5. BootShape'
  BY DEF BootShape, Live, Ended
<1>6. WorkSafe'
  BY DEF WorkSafe
<1>7. StaysDown'
  <2>1. ~stopped' \/ stopped' = stopped \/ Ends
    OBVIOUS
  <2>2. op'[h].call = "none" /\ op[h].call # "none" /\ \A g \in Handlers \ {h} : op'[g] = op[g]
    BY DEF Leaves, Served
  <2>3. row.life # "unborn" /\ boot.at = "served"
    BY <2>2 DEF CallShape, BootShape
  <2>4. marker = "none" \/ "leftover" \in notes
    BY DEF StaysDown
  <2>5. CASE UNCHANGED <<row, stopped>>
    BY <2>2, <2>5 DEF StaysDown
  <2>6. CASE Ends /\ (stopped' => \A g \in Handlers : op[g].call \notin {"spawn", "restore", "resume"})
    <3>1. row' \in Rows /\ row'.life \in {"terminated", "deleted"}
      BY <2>3, <2>6 DEF Ends, SessionTypes, Rows
    <3> QED
      BY <2>2, <2>3, <2>4, <2>6, <3>1 DEF StaysDown
  <2> QED
    BY <2>5, <2>6
<1>8. Due'
  BY DEF Due, Live, Ended, BootShape
<1>9. Consumed'
  BY DEF Consumed, Live
<1>10. Named'
  BY DEF Named, Live, BootShape
<1>11. OneAtATime'
  BY DEF OneAtATime, Orderly, Counted, Live
<1> QED
  BY <1>2, <1>3, <1>4, <1>5, <1>6, <1>7, <1>8, <1>9, <1>10, <1>11

\* A retirement begins.
LEMMA RetireBeginStep ==
    ASSUME SessionInv, NEW h \in Handlers, RetireBegin(h)
    PROVE  SessionInv'
<1> USE DEF SessionInv
<1>0. SessionTypes
  OBVIOUS
<1>1. /\ Live /\ UNCHANGED <<row, stopped>>
      /\ \E step \in {"stash", "unmark"} : Begun(h, "retire", step) /\ (row.path <=> step = "stash")
  BY HandlerBegins, <1>0 DEF RetireBegin, Steps
<1> USE <1>1 DEF Begun, Served
<1>2. SessionTypes'
  BY DEF SessionTypes, Counted, Notes
<1>3. RowShape'
  BY DEF RowShape, Live
<1>4. CallShape'
  <2>1. /\ op'[h].call = "retire" /\ op'[h].at \in {"stash", "unmark"}
        /\ \A g \in Handlers \ {h} : op'[g] = op[g]
        /\ UNCHANGED <<row, marker, runtime, work, preserved, wrote>>
    BY DEF Begun, Served
  <2> QED
    BY <2>1 DEF CallShape, RowShape, Live
<1>5. BootShape'
  BY DEF BootShape, Live, Ended
<1>6. WorkSafe'
  BY DEF WorkSafe
<1>7. StaysDown'
  BY DEF StaysDown, Live
<1>8. Due'
  BY DEF Due, Live, Ended
<1>9. Consumed'
  BY DEF Consumed, Live
<1>10. Named'
  BY DEF Named, Live
<1>11. OneAtATime'
  BY DEF OneAtATime, Orderly, Counted, Live, CallShape
<1> QED
  BY <1>2, <1>3, <1>4, <1>5, <1>6, <1>7, <1>8, <1>9, <1>10, <1>11

\* What is in the worktree is captured.
LEMMA RetireStashStep ==
    ASSUME SessionInv, NEW h \in Handlers, RetireStash(h)
    PROVE  SessionInv'
<1> USE DEF SessionInv
<1>0. SessionTypes
  OBVIOUS
<1>1. /\ op[h].call = "retire" /\ op[h].at = "stash" /\ Counted
      /\ \/ /\ Moves(h, "runtime")
            /\ \/ work # {} /\ preserved' = work
               \/ work = {} /\ preserved' = preserved
         \/ Leaves(h) /\ preserved' = preserved /\ failures' # 0
      /\ UNCHANGED <<row, marker, runtime, worktree, work, kept, wrote, late, boot, seen,
                      calls, crashes, stopped, due, notes>>
  BY HandlerMoves, Counting, RowsWritten, <1>0 DEF SessionTypes, RetireStash, Stash, Step, Steps,
     db, disk, agent, bounds, ghost
<1> USE <1>1 DEF Moves, Leaves, Served
<1>2. SessionTypes'
  BY DEF SessionTypes, Counted, Notes
<1>3. RowShape'
  BY DEF RowShape, Live
<1>4. CallShape'
  BY DEF CallShape
<1>5. BootShape'
  BY DEF BootShape, Live, Ended
<1>6. WorkSafe'
  BY DEF WorkSafe
<1>7. StaysDown'
  BY DEF StaysDown, Live
<1>8. Due'
  BY DEF Due, Live, Ended
<1>9. Consumed'
  BY DEF Consumed, Live
<1>10. Named'
  BY DEF Named, Live
<1>11. OneAtATime'
  BY DEF OneAtATime, Orderly, Counted, Live
<1> QED
  BY <1>2, <1>3, <1>4, <1>5, <1>6, <1>7, <1>8, <1>9, <1>10, <1>11

\* The runtime is destroyed, or the retirement fails.
LEMMA RetireRuntimeStep ==
    ASSUME SessionInv, NEW h \in Handlers, RetireRuntime(h)
    PROVE  SessionInv'
<1> USE DEF SessionInv
<1>0. SessionTypes
  OBVIOUS
<1>1. /\ op[h].call = "retire" /\ op[h].at = "runtime" /\ Counted
      /\ \/ Moves(h, "force") /\ runtime' = "none"
         \/ Leaves(h) /\ runtime' = runtime /\ failures' # 0
      /\ UNCHANGED <<row, marker, worktree, work, preserved, kept, wrote, late, boot, seen,
                      calls, crashes, stopped, due, notes>>
  BY HandlerMoves, Counting, RowsWritten, <1>0 DEF RetireRuntime, Step, Steps, db, disk, agent,
     bounds, ghost
<1> USE <1>1 DEF Moves, Leaves, Served
<1>2. SessionTypes'
  BY DEF SessionTypes, Counted, Notes
<1>3. RowShape'
  BY DEF RowShape, Live
<1>4. CallShape'
  BY DEF CallShape
<1>5. BootShape'
  BY DEF BootShape, Live, Ended
<1>6. WorkSafe'
  BY DEF WorkSafe
<1>7. StaysDown'
  BY DEF StaysDown, Live
<1>8. Due'
  BY DEF Due, Live, Ended
<1>9. Consumed'
  BY DEF Consumed, Live
<1>10. Named'
  BY DEF Named, Live
<1>11. OneAtATime'
  BY DEF OneAtATime, Orderly, Counted, Live
<1> QED
  BY <1>2, <1>3, <1>4, <1>5, <1>6, <1>7, <1>8, <1>9, <1>10, <1>11

\* The worktree is removed with what is in it.
LEMMA RetireForceStep ==
    ASSUME SessionInv, NEW h \in Handlers, RetireForce(h)
    PROVE  SessionInv'
<1> USE DEF SessionInv
<1>0. SessionTypes
  OBVIOUS
<1>1. /\ op[h].call = "retire" /\ op[h].at = "force" /\ Counted
      /\ \/ Moves(h, "unmark") /\ worktree' = FALSE /\ work' = {} /\ preserved' = preserved
         \/ Leaves(h) /\ failures' # 0 /\ UNCHANGED <<worktree, work, preserved>>
      /\ UNCHANGED <<row, marker, runtime, kept, wrote, late, boot, seen, calls, crashes,
                      stopped, due, notes>>
  BY HandlerMoves, Counting, RowsWritten, <1>0 DEF RetireForce, RemoveWorktree, Step, Steps, db,
     disk, agent, bounds, ghost
<1> USE <1>1 DEF Moves, Leaves, Served
<1>2. SessionTypes'
  <2>1. worktree' \in BOOLEAN
    BY DEF SessionTypes
  <2>2. work' \subseteq Units /\ preserved' \subseteq Units
    BY DEF SessionTypes
  <2>3. work' # {} => worktree'
    BY DEF SessionTypes
  <2> QED
    BY <2>1, <2>2, <2>3 DEF SessionTypes, Counted, Notes
<1>3. RowShape'
  BY DEF RowShape, Live
<1>4. CallShape'
  BY DEF CallShape
<1>5. BootShape'
  BY DEF BootShape, Live, Ended
<1>6. WorkSafe'
  BY DEF WorkSafe
<1>7. StaysDown'
  BY DEF StaysDown, Live
<1>8. Due'
  BY DEF Due, Live, Ended
<1>9. Consumed'
  BY DEF Consumed, Live
<1>10. Named'
  BY DEF Named, Live
<1>11. OneAtATime'
  <2>1. SUFFICES ASSUME failures' = 0, "overlap" \notin notes' PROVE Orderly'
    BY DEF OneAtATime
  <2>2. Orderly /\ op[h].call # "none"
    BY <2>1 DEF OneAtATime, Counted
  <2>3. \A g \in Handlers \ {h} : op[g].call = "none" /\ op'[g].call = "none"
    BY <2>2 DEF Orderly, Moves, Leaves, Served
  <2>4. op'[h].call = "retire" /\ op'[h].at = "unmark" /\ runtime = "none"
    BY <2>1, <2>2 DEF Orderly, Moves, Leaves, Served
  <2> QED
    BY <2>2, <2>3, <2>4 DEF Orderly, Live, BootShape
<1> QED
  BY <1>2, <1>3, <1>4, <1>5, <1>6, <1>7, <1>8, <1>9, <1>10, <1>11

\* The marker is deleted, or the retirement fails.
LEMMA RetireUnmarkStep ==
    ASSUME SessionInv, NEW h \in Handlers, RetireUnmark(h)
    PROVE  SessionInv'
<1> USE DEF SessionInv
<1>0. SessionTypes
  OBVIOUS
<1>1. /\ op[h].call = "retire" /\ op[h].at = "unmark" /\ Counted
      /\ \/ Moves(h, "mark") /\ marker' = "none"
         \/ Leaves(h) /\ marker' = marker /\ failures' # 0
      /\ UNCHANGED <<row, runtime, worktree, work, preserved, kept, wrote, late, boot, seen,
                      calls, crashes, stopped, due, notes>>
  BY HandlerMoves, Counting, RowsWritten, <1>0 DEF RetireUnmark, Step, Steps, db, disk, agent,
     bounds, ghost
<1> USE <1>1 DEF Moves, Leaves, Served
<1>2. SessionTypes'
  BY DEF SessionTypes, Counted, Notes
<1>3. RowShape'
  BY DEF RowShape, Live
<1>4. CallShape'
  BY DEF CallShape
<1>5. BootShape'
  BY DEF BootShape, Live, Ended
<1>6. WorkSafe'
  BY DEF WorkSafe
<1>7. StaysDown'
  BY DEF StaysDown, Live
<1>8. Due'
  BY DEF Due, Live, Ended, BootShape
<1>9. Consumed'
  BY DEF Consumed, Live
<1>10. Named'
  BY DEF Named, Live
<1>11. OneAtATime'
  BY DEF OneAtATime, Orderly, Counted, Live
<1> QED
  BY <1>2, <1>3, <1>4, <1>5, <1>6, <1>7, <1>8, <1>9, <1>10, <1>11

\* A restore begins, and the session is no longer to stay down.
LEMMA RestoreBeginStep ==
    ASSUME SessionInv, NEW h \in Handlers, RestoreBegin(h)
    PROVE  SessionInv'
<1> USE DEF SessionInv
<1>0. SessionTypes
  OBVIOUS
<1>1. /\ row.life = "terminated" /\ row.path /\ Begun(h, "restore", "workspace")
      /\ stopped' = FALSE /\ row' = row
  BY HandlerBegins, <1>0 DEF RestoreBegin, Ended, Steps
<1> USE <1>1 DEF Begun, Served
<1>2. SessionTypes'
  BY DEF SessionTypes, Counted, Notes
<1>3. RowShape'
  BY DEF RowShape, Live
<1>4. CallShape'
  BY DEF CallShape
<1>5. BootShape'
  BY DEF BootShape, Live, Ended
<1>6. WorkSafe'
  BY DEF WorkSafe
<1>7. StaysDown'
  BY DEF StaysDown, Live
<1>8. Due'
  BY DEF Due, Live, Ended
<1>9. Consumed'
  BY DEF Consumed, Live
<1>10. Named'
  BY DEF Named, Live
<1>11. OneAtATime'
  BY DEF OneAtATime, Orderly, Counted, Live, CallShape
<1> QED
  BY <1>2, <1>3, <1>4, <1>5, <1>6, <1>7, <1>8, <1>9, <1>10, <1>11

\* The worktree is there again, or the restore fails.
LEMMA RestoreWorkspaceStep ==
    ASSUME SessionInv, NEW h \in Handlers, RestoreWorkspace(h)
    PROVE  SessionInv'
<1> USE DEF SessionInv
<1>0. SessionTypes
  OBVIOUS
<1>1. /\ op[h].call = "restore" /\ op[h].at = "workspace" /\ Counted
      /\ \/ Moves(h, "create") /\ worktree' = TRUE /\ work' = work /\ preserved' = preserved
         \/ Leaves(h) /\ failures' # 0 /\ UNCHANGED <<worktree, work, preserved>>
      /\ UNCHANGED <<row, marker, runtime, kept, wrote, late, boot, seen, calls, crashes,
                      stopped, due, notes>>
  BY HandlerMoves, Counting, RowsWritten, <1>0 DEF RestoreWorkspace, RestoreWorktree, Step,
     Steps, db, disk, agent, bounds, ghost
<1> USE <1>1 DEF Moves, Leaves, Served
<1>2. SessionTypes'
  <2>1. worktree' \in BOOLEAN
    BY DEF SessionTypes
  <2>2. work' \subseteq Units /\ preserved' \subseteq Units
    BY DEF SessionTypes
  <2>3. work' # {} => worktree'
    BY DEF SessionTypes
  <2> QED
    BY <2>1, <2>2, <2>3 DEF SessionTypes, Counted, Notes
<1>3. RowShape'
  BY DEF RowShape, Live
<1>4. CallShape'
  BY DEF CallShape
<1>5. BootShape'
  BY DEF BootShape, Live, Ended
<1>6. WorkSafe'
  BY DEF WorkSafe
<1>7. StaysDown'
  BY DEF StaysDown, Live
<1>8. Due'
  BY DEF Due, Live, Ended
<1>9. Consumed'
  BY DEF Consumed, Live
<1>10. Named'
  BY DEF Named, Live
<1>11. OneAtATime'
  BY DEF OneAtATime, Orderly, Counted, Live
<1> QED
  BY <1>2, <1>3, <1>4, <1>5, <1>6, <1>7, <1>8, <1>9, <1>10, <1>11

\* The agent is started again; what its ref still holds is noted.
LEMMA RestoreCreateStep ==
    ASSUME SessionInv, NEW h \in Handlers, RestoreCreate(h)
    PROVE  SessionInv'
<1> USE DEF SessionInv
<1>0. SessionTypes
  OBVIOUS
<1>1. /\ op[h].call = "restore" /\ op[h].at = "create" /\ Counted
      /\ \/ /\ Moves(h, "mark") /\ worktree /\ runtime = "none" /\ runtime' = "agent"
            /\ notes' = notes \cup Unreplayed
         \/ Leaves(h) /\ UNCHANGED <<runtime, notes>> /\ (failures' # 0 \/ ~CanCreate)
      /\ UNCHANGED <<row, marker, worktree, work, preserved, kept, wrote, late, boot, seen,
                      calls, crashes, stopped, due>>
  BY HandlerMoves, Counting, RowsWritten, <1>0 DEF RestoreCreate, CanCreate, Note, Step, Steps,
     db, disk, agent, bounds, ghost
<1> USE <1>1 DEF Moves, Leaves, Unreplayed, Served
<1>2. SessionTypes'
  BY DEF SessionTypes, Counted, Notes
<1>3. RowShape'
  BY DEF RowShape, CallShape, Live
<1>4. CallShape'
  BY DEF CallShape
<1>5. BootShape'
  BY DEF BootShape, Live, Ended
<1>6. WorkSafe'
  BY DEF WorkSafe
<1>7. StaysDown'
  BY DEF StaysDown, Live
<1>8. Due'
  BY DEF Due, Live, Ended
<1>9. Consumed'
  BY DEF Consumed, Live, BootShape
<1>10. Named'
  BY DEF Named, Live, BootShape
<1>11. OneAtATime'
  BY DEF OneAtATime, Orderly, Counted, Live
<1> QED
  BY <1>2, <1>3, <1>4, <1>5, <1>6, <1>7, <1>8, <1>9, <1>10, <1>11

\* The row is spawned again, or the runtime is destroyed or left.
LEMMA RelaunchMarkStep ==
    ASSUME SessionInv, NEW h \in Handlers, RelaunchMark(h)
    PROVE  SessionInv'
<1> USE DEF SessionInv
<1>0. SessionTypes
  OBVIOUS
<1>1. /\ op[h].call \in {"restore", "resume"} /\ op[h].at = "mark" /\ Counted
      /\ \/ /\ Moves(h, "prompt") /\ Spawns /\ seen' \in {seen, "stale"} /\ runtime' = runtime
            /\ notes' = notes \cup Carried
         \/ Leaves(h) /\ Deserts /\ failures' # 0 /\ UNCHANGED <<row, seen>>
      /\ UNCHANGED <<marker, worktree, work, preserved, kept, wrote, late, boot, calls,
                      crashes, stopped, due>>
  BY HandlerMoves, Counting, RowsWritten, LaunchDeserted, <1>0 DEF RelaunchMark, Launched, Note,
     Step, Steps, db, disk, agent, bounds, ghost
<1> USE <1>1 DEF Moves, Leaves, Deserts, Spawns, Carried, Served
<1>2. SessionTypes'
  BY DEF SessionTypes, Counted, Notes
<1>3. RowShape'
  BY DEF RowShape, Live
<1>4. CallShape'
  BY DEF CallShape
<1>5. BootShape'
  BY DEF BootShape, Live, Ended
<1>6. WorkSafe'
  BY DEF WorkSafe
<1>7. StaysDown'
  BY DEF StaysDown, Live
<1>8. Due'
  BY DEF Due, Live, Ended, BootShape
<1>9. Consumed'
  BY DEF Consumed, Live
<1>10. Named'
  BY DEF Named, Live
<1>11. OneAtATime'
  BY DEF OneAtATime, Orderly, Counted, Live
<1> QED
  BY <1>2, <1>3, <1>4, <1>5, <1>6, <1>7, <1>8, <1>9, <1>10, <1>11

\* The prompt is delivered, or the agent is destroyed or left.
LEMMA RelaunchPromptStep ==
    ASSUME SessionInv, NEW h \in Handlers, RelaunchPrompt(h)
    PROVE  SessionInv'
<1> USE DEF SessionInv
<1>0. SessionTypes
  OBVIOUS
<1>1. /\ op[h].call \in {"restore", "resume"} /\ op[h].at = "prompt" /\ Counted /\ Leaves(h)
      /\ \/ UNCHANGED <<row, runtime, notes>>
         \/ Deserts /\ failures' # 0 /\ (row' = row \/ Ends)
      /\ UNCHANGED <<marker, worktree, work, preserved, kept, wrote, late, boot, seen, calls,
                      crashes, stopped, due>>
  BY HandlerMoves, Counting, RowsWritten, LaunchDeserted, <1>0 DEF RelaunchPrompt, Step, Steps,
     db, disk, agent, bounds, ghost
<1> USE <1>1 DEF Leaves, Deserts, Ends, Served
<1>2. SessionTypes'
  BY DEF SessionTypes, Counted, Notes
<1>3. RowShape'
  BY DEF RowShape, Live
<1>4. CallShape'
  BY DEF CallShape
<1>5. BootShape'
  BY DEF BootShape, Live, Ended
<1>6. WorkSafe'
  BY DEF WorkSafe
<1>7. StaysDown'
  BY DEF StaysDown, Live
<1>8. Due'
  BY DEF Due, Live, Ended, BootShape
<1>9. Consumed'
  BY DEF Consumed, Live
<1>10. Named'
  BY DEF Named, Live, BootShape
<1>11. OneAtATime'
  BY DEF OneAtATime, Orderly, Counted, Live
<1> QED
  BY <1>2, <1>3, <1>4, <1>5, <1>6, <1>7, <1>8, <1>9, <1>10, <1>11

\* A resume begins: the agent of a live session has exited.
LEMMA ResumeBeginStep ==
    ASSUME SessionInv, NEW h \in Handlers, ResumeBegin(h)
    PROVE  SessionInv'
<1> USE DEF SessionInv
<1>0. SessionTypes
  OBVIOUS
<1>1. /\ Live /\ row.path /\ row.handle /\ Begun(h, "resume", "restart") /\ UNCHANGED <<row, stopped>>
  BY HandlerBegins, <1>0 DEF ResumeBegin, Steps
<1> USE <1>1 DEF Begun, Served
<1>2. SessionTypes'
  BY DEF SessionTypes, Counted, Notes
<1>3. RowShape'
  BY DEF RowShape, Live
<1>4. CallShape'
  BY DEF CallShape, RowShape
<1>5. BootShape'
  BY DEF BootShape, Live, Ended
<1>6. WorkSafe'
  BY DEF WorkSafe
<1>7. StaysDown'
  BY DEF StaysDown, Live
<1>8. Due'
  BY DEF Due, Live, Ended
<1>9. Consumed'
  BY DEF Consumed, Live
<1>10. Named'
  BY DEF Named, Live
<1>11. OneAtATime'
  <2>1. SUFFICES ASSUME failures' = 0, "overlap" \notin notes' PROVE Orderly'
    BY DEF OneAtATime
  <2>2. Orderly /\ \A g \in Handlers : op[g].call = "none"
    BY <2>1 DEF OneAtATime, Begun, CallShape
  <2>3. worktree
    BY <2>2 DEF Orderly, Begun, Live
  <2>4. /\ op'[h].call = "resume" /\ op'[h].at = "restart"
        /\ \A g \in Handlers \ {h} : op'[g].call = "none"
    BY <2>2 DEF Begun, Served
  <2> QED
    BY <2>2, <2>3, <2>4 DEF Orderly, Live, Begun
<1> QED
  BY <1>2, <1>3, <1>4, <1>5, <1>6, <1>7, <1>8, <1>9, <1>10, <1>11

\* The agent is started again in its pane, or its directory is gone.
LEMMA ResumeRestartStep ==
    ASSUME SessionInv, NEW h \in Handlers, ResumeRestart(h)
    PROVE  SessionInv'
<1> USE DEF SessionInv
<1>0. SessionTypes
  OBVIOUS
<1>1. /\ op[h].call = "resume" /\ op[h].at = "restart" /\ Counted
      /\ \/ /\ Moves(h, "mark") /\ worktree /\ runtime' = "agent"
            /\ notes' = notes \cup Unreplayed
         \/ Leaves(h) /\ ~worktree /\ runtime' = "none" /\ notes' = notes
         \/ Leaves(h) /\ failures' # 0 /\ UNCHANGED <<runtime, notes>>
      /\ UNCHANGED <<row, marker, worktree, work, preserved, kept, wrote, late, boot, seen,
                      calls, crashes, stopped, due>>
  BY HandlerMoves, Counting, RowsWritten, <1>0 DEF ResumeRestart, Note, Step, Steps, db, disk,
     agent, bounds, ghost
<1> USE <1>1 DEF Moves, Leaves, Unreplayed, Served
<1>2. SessionTypes'
  BY DEF SessionTypes, Counted, Notes
<1>3. RowShape'
  BY DEF RowShape, CallShape, Live
<1>4. CallShape'
  BY DEF CallShape
<1>5. BootShape'
  BY DEF BootShape, Live, Ended
<1>6. WorkSafe'
  BY DEF WorkSafe
<1>7. StaysDown'
  BY DEF StaysDown, Live
<1>8. Due'
  BY DEF Due, Live, Ended
<1>9. Consumed'
  BY DEF Consumed, Live, BootShape
<1>10. Named'
  BY DEF Named, Live, BootShape
<1>11. OneAtATime'
  BY DEF OneAtATime, Orderly, Counted, Live
<1> QED
  BY <1>2, <1>3, <1>4, <1>5, <1>6, <1>7, <1>8, <1>9, <1>10, <1>11

\* A cleanup begins.
LEMMA CleanupBeginStep ==
    ASSUME SessionInv, NEW h \in Handlers, CleanupBegin(h)
    PROVE  SessionInv'
<1> USE DEF SessionInv
<1>0. SessionTypes
  OBVIOUS
<1>1. /\ row.life = "terminated" /\ row.path /\ Begun(h, "cleanup", "runtime") /\ UNCHANGED <<row, stopped>>
  BY HandlerBegins, <1>0 DEF CleanupBegin, Ended, Steps
<1> USE <1>1 DEF Begun, Served
<1>2. SessionTypes'
  BY DEF SessionTypes, Counted, Notes
<1>3. RowShape'
  BY DEF RowShape, Live
<1>4. CallShape'
  BY DEF CallShape
<1>5. BootShape'
  BY DEF BootShape, Live, Ended
<1>6. WorkSafe'
  BY DEF WorkSafe
<1>7. StaysDown'
  BY DEF StaysDown, Live
<1>8. Due'
  BY DEF Due, Live, Ended
<1>9. Consumed'
  BY DEF Consumed, Live
<1>10. Named'
  BY DEF Named, Live
<1>11. OneAtATime'
  BY DEF OneAtATime, Orderly, Counted, Live, CallShape
<1> QED
  BY <1>2, <1>3, <1>4, <1>5, <1>6, <1>7, <1>8, <1>9, <1>10, <1>11

\* What is left of the runtime of a terminated session is destroyed.
LEMMA CleanupRuntimeStep ==
    ASSUME SessionInv, NEW h \in Handlers, CleanupRuntime(h)
    PROVE  SessionInv'
<1> USE DEF SessionInv
<1>0. SessionTypes
  OBVIOUS
<1>1. /\ op[h].call = "cleanup" /\ op[h].at = "runtime" /\ Counted
      /\ Moves(h, "workspace") /\ runtime' \in {runtime, "none"}
      /\ UNCHANGED <<row, marker, worktree, work, preserved, kept, wrote, late, boot, seen,
                      calls, crashes, stopped, due, notes>>
  BY HandlerMoves, Counting, RowsWritten, <1>0 DEF CleanupRuntime, Step, Steps, db, disk, agent,
     bounds, ghost
<1> USE <1>1 DEF Moves, Served
<1>2. SessionTypes'
  BY DEF SessionTypes, Counted, Notes
<1>3. RowShape'
  BY DEF RowShape, Live
<1>4. CallShape'
  BY DEF CallShape
<1>5. BootShape'
  BY DEF BootShape, Live, Ended
<1>6. WorkSafe'
  BY DEF WorkSafe
<1>7. StaysDown'
  BY DEF StaysDown, Live
<1>8. Due'
  BY DEF Due, Live, Ended
<1>9. Consumed'
  BY DEF Consumed, Live
<1>10. Named'
  BY DEF Named, Live
<1>11. OneAtATime'
  BY DEF OneAtATime, Orderly, Counted, Live
<1> QED
  BY <1>2, <1>3, <1>4, <1>5, <1>6, <1>7, <1>8, <1>9, <1>10, <1>11

\* A cleanup removes a clean worktree and no other.
LEMMA CleanupWorkspaceStep ==
    ASSUME SessionInv, NEW h \in Handlers, CleanupWorkspace(h)
    PROVE  SessionInv'
<1> USE DEF SessionInv
<1>0. SessionTypes
  OBVIOUS
<1>1. /\ op[h].call = "cleanup" /\ op[h].at = "workspace" /\ Counted
      /\ Leaves(h) /\ (worktree' = worktree \/ (worktree' = FALSE /\ work = {}))
      /\ UNCHANGED <<row, marker, runtime, work, preserved, kept, wrote, late, boot, seen,
                      calls, crashes, stopped, due, notes>>
  BY HandlerMoves, Counting, RowsWritten, <1>0 DEF SessionTypes, CleanupWorkspace, Dirty,
     RemoveWorktree, Step, Steps, db, disk, agent, bounds, ghost
<1> USE <1>1 DEF Leaves, Served
<1>2. SessionTypes'
  <2>1. worktree' \in BOOLEAN
    BY DEF SessionTypes
  <2>2. work' \subseteq Units /\ preserved' \subseteq Units
    BY DEF SessionTypes
  <2>3. work' # {} => worktree'
    BY DEF SessionTypes
  <2> QED
    BY <2>1, <2>2, <2>3 DEF SessionTypes, Counted, Notes
<1>3. RowShape'
  BY DEF RowShape, Live
<1>4. CallShape'
  BY DEF CallShape
<1>5. BootShape'
  BY DEF BootShape, Live, Ended
<1>6. WorkSafe'
  BY DEF WorkSafe
<1>7. StaysDown'
  BY DEF StaysDown, Live
<1>8. Due'
  BY DEF Due, Live, Ended
<1>9. Consumed'
  BY DEF Consumed, Live
<1>10. Named'
  BY DEF Named, Live
<1>11. OneAtATime'
  BY DEF OneAtATime, Orderly, Counted, Live
<1> QED
  BY <1>2, <1>3, <1>4, <1>5, <1>6, <1>7, <1>8, <1>9, <1>10, <1>11

\* An agent writes.
LEMMA AgentWritesStep ==
    ASSUME SessionInv, AgentWrites
    PROVE  SessionInv'
<1> USE DEF SessionInv
<1>0. SessionTypes
  OBVIOUS
<1>1. /\ runtime = "agent" /\ worktree /\ wrote < MaxUnits /\ wrote' = wrote + 1
      /\ work' = work \cup {wrote + 1} /\ late' \in {late, late \cup {wrote + 1}}
      /\ (\E h \in Handlers : op[h].call = "retire" /\ op[h].at \in {"runtime", "force"})
           => late' = late \cup {wrote + 1}
      /\ UNCHANGED <<row, marker, runtime, worktree, preserved, kept, op, boot, seen, calls,
                      crashes, failures, stopped, due, notes>>
  BY <1>0 DEF AgentWrites, Retiring, db, disk, agent, bounds, ghost
<1> USE <1>1
<1>2. SessionTypes'
  <2>1. wrote + 1 \in Units /\ wrote' \in 0..MaxUnits
    BY SessionManagerAssumption DEF SessionTypes, Units
  <2>2. work' \subseteq Units /\ late' \subseteq Units
    BY <2>1 DEF SessionTypes
  <2> QED
    BY <2>1, <2>2 DEF SessionTypes
<1>3. RowShape'
  BY DEF RowShape, Live
<1>4. CallShape'
  BY DEF CallShape
<1>5. BootShape'
  BY DEF BootShape, Live, Ended
<1>6. WorkSafe'
  <2>1. 1..wrote' = (1..wrote) \cup {wrote + 1}
    BY DEF SessionTypes
  <2>2. \A h \in Handlers : op[h].call = "retire" /\ op[h].at \in {"runtime", "force"} =>
          work' \subseteq preserved \cup late'
    <3> TAKE h \in Handlers
    <3> HAVE op[h].call = "retire" /\ op[h].at \in {"runtime", "force"}
    <3>1. work \subseteq preserved \cup late /\ late' = late \cup {wrote + 1}
      BY DEF WorkSafe
    <3> QED
      BY <3>1
  <2>3. late \subseteq late' /\ work \subseteq work' /\ wrote + 1 \in work'
    OBVIOUS
  <2>4. SUFFICES ASSUME "unreplayed" \notin notes
        PROVE  /\ 1..wrote' \subseteq work' \cup preserved \cup kept \cup late'
               /\ preserved \subseteq work' \cup kept \cup late'
               /\ \A h \in Handlers : op[h].call = "retire" /\ op[h].at = "force" =>
                    preserved \subseteq kept \cup late'
    BY <2>2 DEF WorkSafe
  <2>5. /\ 1..wrote \subseteq work \cup preserved \cup kept \cup late
        /\ preserved \subseteq work \cup kept \cup late
        /\ \A h \in Handlers : op[h].call = "retire" /\ op[h].at = "force" =>
             preserved \subseteq kept \cup late
    BY <2>4 DEF WorkSafe
  <2> QED
    BY <2>1, <2>3, <2>5
<1>7. StaysDown'
  BY DEF StaysDown, Live
<1>8. Due'
  BY DEF Due, Live, Ended
<1>9. Consumed'
  BY DEF Consumed, Live
<1>10. Named'
  BY DEF Named, Live
<1>11. OneAtATime'
  BY DEF OneAtATime, Orderly, Counted, Live
<1> QED
  BY <1>2, <1>3, <1>4, <1>5, <1>6, <1>7, <1>8, <1>9, <1>10, <1>11

\* An agent commits.
LEMMA AgentCommitsStep ==
    ASSUME SessionInv, AgentCommits
    PROVE  SessionInv'
<1> USE DEF SessionInv
<1>0. SessionTypes
  OBVIOUS
<1>1. /\ runtime = "agent" /\ worktree /\ kept' = kept \cup work /\ work' = {}
      /\ UNCHANGED <<row, marker, runtime, worktree, preserved, wrote, late, op, boot, seen,
                      calls, crashes, failures, stopped, due, notes>>
  BY <1>0 DEF AgentCommits, Dirty, db, disk, agent, bounds, ghost
<1> USE <1>1
<1>2. SessionTypes'
  BY DEF SessionTypes, Counted, Notes
<1>3. RowShape'
  BY DEF RowShape, Live
<1>4. CallShape'
  BY DEF CallShape
<1>5. BootShape'
  BY DEF BootShape, Live, Ended
<1>6. WorkSafe'
  BY DEF WorkSafe
<1>7. StaysDown'
  BY DEF StaysDown, Live
<1>8. Due'
  BY DEF Due, Live, Ended
<1>9. Consumed'
  BY DEF Consumed, Live
<1>10. Named'
  BY DEF Named, Live
<1>11. OneAtATime'
  BY DEF OneAtATime, Orderly, Counted, Live
<1> QED
  BY <1>2, <1>3, <1>4, <1>5, <1>6, <1>7, <1>8, <1>9, <1>10, <1>11

\* An agent leaves its runtime a shell.
LEMMA AgentExitsStep ==
    ASSUME SessionInv, AgentExits
    PROVE  SessionInv'
<1> USE DEF SessionInv
<1>0. SessionTypes
  OBVIOUS
<1>1. /\ runtime # "none" /\ runtime' = "shell"
      /\ UNCHANGED <<row, marker, worktree, work, preserved, kept, wrote, late, op, boot, seen,
                      calls, crashes, failures, stopped, due, notes>>
  BY <1>0 DEF AgentExits, db, disk, agent, bounds, ghost
<1> USE <1>1
<1>2. SessionTypes'
  BY DEF SessionTypes, Counted, Notes
<1>3. RowShape'
  BY DEF RowShape, Live
<1>4. CallShape'
  BY DEF CallShape
<1>5. BootShape'
  BY DEF BootShape, Live, Ended
<1>6. WorkSafe'
  BY DEF WorkSafe
<1>7. StaysDown'
  BY DEF StaysDown, Live
<1>8. Due'
  BY DEF Due, Live, Ended
<1>9. Consumed'
  BY DEF Consumed, Live
<1>10. Named'
  BY DEF Named, Live
<1>11. OneAtATime'
  BY DEF OneAtATime, Orderly, Counted, Live
<1> QED
  BY <1>2, <1>3, <1>4, <1>5, <1>6, <1>7, <1>8, <1>9, <1>10, <1>11

\* The exit is reported.
LEMMA ExitReportedStep ==
    ASSUME SessionInv, ExitReported
    PROVE  SessionInv'
<1> USE DEF SessionInv
<1>0. SessionTypes
  OBVIOUS
<1>1. /\ Live /\ row' \in Rows /\ row'.life = "live" /\ row'.path = row.path /\ row'.handle = row.handle
      /\ UNCHANGED <<marker, runtime, worktree, work, preserved, kept, wrote, late, op, boot,
                      seen, calls, crashes, failures, stopped, due, notes>>
  BY <1>0 DEF ExitReported, SessionTypes, Rows, Live, db, disk, agent, bounds, ghost
<1> USE <1>1
<1>2. SessionTypes'
  BY DEF SessionTypes, Counted, Notes
<1>3. RowShape'
  BY DEF RowShape, Live
<1>4. CallShape'
  BY DEF CallShape
<1>5. BootShape'
  BY DEF BootShape, Live, Ended
<1>6. WorkSafe'
  BY DEF WorkSafe
<1>7. StaysDown'
  BY DEF StaysDown, Live
<1>8. Due'
  BY DEF Due, Live, Ended
<1>9. Consumed'
  BY DEF Consumed, Live
<1>10. Named'
  BY DEF Named, Live
<1>11. OneAtATime'
  BY DEF OneAtATime, Orderly, Counted, Live
<1> QED
  BY <1>2, <1>3, <1>4, <1>5, <1>6, <1>7, <1>8, <1>9, <1>10, <1>11

\* A runtime dies.
LEMMA RuntimeDiesStep ==
    ASSUME SessionInv, RuntimeDies
    PROVE  SessionInv'
<1> USE DEF SessionInv
<1>0. SessionTypes
  OBVIOUS
<1>1. /\ runtime' = "none"
      /\ UNCHANGED <<row, marker, worktree, work, preserved, kept, wrote, late, op, boot, seen,
                      calls, crashes, failures, stopped, due, notes>>
  BY <1>0 DEF RuntimeDies, db, disk, agent, bounds, ghost
<1> USE <1>1
<1>2. SessionTypes'
  BY DEF SessionTypes, Counted, Notes
<1>3. RowShape'
  BY DEF RowShape, Live
<1>4. CallShape'
  BY DEF CallShape
<1>5. BootShape'
  BY DEF BootShape, Live, Ended
<1>6. WorkSafe'
  BY DEF WorkSafe
<1>7. StaysDown'
  BY DEF StaysDown, Live
<1>8. Due'
  BY DEF Due, Live, Ended
<1>9. Consumed'
  BY DEF Consumed, Live
<1>10. Named'
  BY DEF Named, Live
<1>11. OneAtATime'
  BY DEF OneAtATime, Orderly, Counted, Live
<1> QED
  BY <1>2, <1>3, <1>4, <1>5, <1>6, <1>7, <1>8, <1>9, <1>10, <1>11

\* The reaper sees a runtime that is gone.
LEMMA ProbeStep ==
    ASSUME SessionInv, Probe
    PROVE  SessionInv'
<1> USE DEF SessionInv
<1>0. SessionTypes
  OBVIOUS
<1>1. /\ seen' = "dead"
      /\ UNCHANGED <<row, marker, runtime, worktree, work, preserved, kept, wrote, late, op,
                      boot, calls, crashes, failures, stopped, due, notes>>
  BY <1>0 DEF Probe, db, disk, agent, bounds, ghost
<1> USE <1>1
<1>2. SessionTypes'
  BY DEF SessionTypes, Counted, Notes
<1>3. RowShape'
  BY DEF RowShape, Live
<1>4. CallShape'
  BY DEF CallShape
<1>5. BootShape'
  BY DEF BootShape, Live, Ended
<1>6. WorkSafe'
  BY DEF WorkSafe
<1>7. StaysDown'
  BY DEF StaysDown, Live
<1>8. Due'
  BY DEF Due, Live, Ended
<1>9. Consumed'
  BY DEF Consumed, Live
<1>10. Named'
  BY DEF Named, Live
<1>11. OneAtATime'
  BY DEF OneAtATime, Orderly, Counted, Live
<1> QED
  BY <1>2, <1>3, <1>4, <1>5, <1>6, <1>7, <1>8, <1>9, <1>10, <1>11

\* What the reaper saw ends the row, or is too old.
LEMMA ApplyRuntimeObservationStep ==
    ASSUME SessionInv, ApplyRuntimeObservation
    PROVE  SessionInv'
<1> USE DEF SessionInv
<1>0. SessionTypes
  OBVIOUS
<1>1. /\ seen' = "none" /\ due' = (due /\ row' = row)
      /\ \/ row' = row /\ notes' = notes
         \/ /\ Live /\ Ends /\ row' # row
            /\ notes' = notes \cup (IF runtime # "none" THEN {"leaked"} ELSE {})
      /\ UNCHANGED <<marker, runtime, worktree, work, preserved, kept, wrote, late, op, boot,
                      calls, crashes, failures, stopped>>
  BY RowsWritten, <1>0 DEF ApplyRuntimeObservation, Terminated, Live, Note, db, disk, agent,
     bounds, ghost
<1> USE <1>1 DEF Ends
<1>2. SessionTypes'
  BY DEF SessionTypes, Counted, Notes
<1>3. RowShape'
  BY DEF RowShape, Live
<1>4. CallShape'
  BY DEF CallShape
<1>5. BootShape'
  BY DEF BootShape, Live, Ended
<1>6. WorkSafe'
  BY DEF WorkSafe
<1>7. StaysDown'
  BY DEF StaysDown, Live
<1>8. Due'
  BY DEF Due, Live, Ended
<1>9. Consumed'
  BY DEF Consumed, Live
<1>10. Named'
  BY DEF Named, Live
<1>11. OneAtATime'
  BY DEF OneAtATime, Orderly, Counted, Live
<1> QED
  BY <1>2, <1>3, <1>4, <1>5, <1>6, <1>7, <1>8, <1>9, <1>10, <1>11

\* The daemon dies.
LEMMA CrashStep ==
    ASSUME SessionInv, Crash
    PROVE  SessionInv'
<1> USE DEF SessionInv
<1>0. SessionTypes
  OBVIOUS
<1>1. /\ crashes' \in 0..MaxCrashes /\ op' \in [Handlers -> OpRecord]
      /\ \A h \in Handlers : op'[h].call = "none" /\ op'[h].at = "idle"
      /\ boot' \in BootRecord /\ boot'.at = "list" /\ seen' = "none" /\ runtime' \in {runtime, "none"}
      /\ due' \in BOOLEAN
      /\ \/ due' = due /\ (boot.at # "served" \/ \E h \in Handlers : op[h].at # "idle")
         \/ boot.at = "served" /\ (due' => Live)
      /\ notes \subseteq notes' /\ notes' \subseteq notes \cup {"cut", "carried"}
      /\ ~row.handle /\ (\E h \in Handlers : op[h].at = "mark") => "cut" \in notes'
      /\ boot.at \in {"prompt", "unmark"} => "carried" \in notes'
      /\ UNCHANGED <<row, marker, worktree, work, preserved, kept, wrote, late, calls,
                      failures, stopped>>
  <2>1. crashes' \in 0..MaxCrashes
    BY SessionManagerAssumption DEF Crash, SessionTypes
  <2>2. Unborn \in Rows
    BY DEF Unborn, Rows
  <2>3. /\ op' \in [Handlers -> OpRecord]
        /\ \A h \in Handlers : op'[h].call = "none" /\ op'[h].at = "idle"
    BY <2>2 DEF Crash, Idle, OpRecord
  <2>4. boot' \in BootRecord /\ boot'.at = "list"
    BY <2>2 DEF Crash, BootRecord
  <2>5. /\ due' \in BOOLEAN
        /\ \/ due' = due /\ (boot.at # "served" \/ \E h \in Handlers : op[h].at # "idle")
           \/ boot.at = "served" /\ (due' => Live)
    <3>1. CASE Quiet
      <4>1. due' = (Live /\ row.path /\ worktree)
        BY <3>1 DEF Crash
      <4> QED
        BY <3>1, <4>1 DEF Quiet
    <3>2. CASE ~Quiet
      <4>1. due' = due
        BY <3>2 DEF Crash
      <4> QED
        BY <3>2, <4>1, <1>0 DEF Quiet, SessionTypes
    <3> QED
      BY <3>1, <3>2
  <2>6. /\ notes \subseteq notes' /\ notes' \subseteq notes \cup {"cut", "carried"}
        /\ ~row.handle /\ (\E h \in Handlers : op[h].at = "mark") => "cut" \in notes'
        /\ boot.at \in {"prompt", "unmark"} => "carried" \in notes'
    BY DEF Crash, Note
  <2> QED
    BY <2>1, <2>3, <2>4, <2>5, <2>6 DEF Crash, db, disk, agent
<1> USE <1>1
<1>2. SessionTypes'
  BY DEF SessionTypes, Counted, Notes
<1>3. RowShape'
  BY DEF RowShape, Live
<1>4. CallShape'
  BY DEF CallShape
<1>5. BootShape'
  BY DEF BootShape, Live, Ended
<1>6. WorkSafe'
  BY DEF WorkSafe
<1>7. StaysDown'
  BY DEF StaysDown, Live
<1>8. Due'
  BY DEF Due, Live, Ended, BootShape, SessionTypes, BootRecord
<1>9. Consumed'
  BY DEF Consumed, Live, RowShape, CallShape, BootShape, Ended, SessionTypes, BootRecord
<1>10. Named'
  BY DEF Named, Live
<1>11. OneAtATime'
  BY DEF OneAtATime, Orderly, Counted, Live, RowShape, CallShape, SessionTypes, BootShape, Ended,
     BootRecord
<1> QED
  BY <1>2, <1>3, <1>4, <1>5, <1>6, <1>7, <1>8, <1>9, <1>10, <1>11

\* Reconcile reads the row.
LEMMA BootListStep ==
    ASSUME SessionInv, BootList
    PROVE  SessionInv'
<1> USE DEF SessionInv
<1>0. SessionTypes
  OBVIOUS
<1>1. /\ boot.at = "list"
      /\ boot' \in BootRecord /\ boot'.rec = row
      /\ boot'.at = IF Live THEN "live" ELSE IF Ended THEN "reap" ELSE "restore"
      /\ UNCHANGED <<row, marker, runtime, worktree, work, preserved, kept, wrote, late, op,
                      seen, calls, crashes, failures, stopped, due, notes>>
  BY <1>0 DEF BootList, SessionTypes, BootRecord, db, disk, agent, bounds, ghost
<1> USE <1>1
<1>2. SessionTypes'
  BY DEF SessionTypes, Counted, Notes
<1>3. RowShape'
  BY DEF RowShape, Live
<1>4. CallShape'
  BY DEF CallShape
<1>5. BootShape'
  BY DEF BootShape, Live, Ended, RowShape
<1>6. WorkSafe'
  BY DEF WorkSafe
<1>7. StaysDown'
  BY DEF StaysDown, Live
<1>8. Due'
  BY DEF Due, Live, Ended
<1>9. Consumed'
  BY DEF Consumed, Live
<1>10. Named'
  BY DEF Named, Live, RowShape, CallShape, BootShape, Ended, SessionTypes, Rows
<1>11. OneAtATime'
  BY DEF OneAtATime, Orderly, Counted, Live
<1> QED
  BY <1>2, <1>3, <1>4, <1>5, <1>6, <1>7, <1>8, <1>9, <1>10, <1>11

\* A live session is adopted, or saved.
LEMMA BootLiveStep ==
    ASSUME SessionInv, BootLive
    PROVE  SessionInv'
<1> USE DEF SessionInv
<1>0. SessionTypes
  OBVIOUS
<1>1. /\ boot.at = "live" /\ Counted
      /\ \/ BootsOn("stash") /\ boot.rec.path /\ runtime = "none" /\ UNCHANGED <<due, notes>>
         \/ BootsOn("restore") /\ (~boot.rec.path \/ runtime # "none") /\ UNCHANGED <<due, notes>>
         \/ BootsOn("restore") /\ ~due' /\ due' \in BOOLEAN /\ notes' = notes \cup Carried /\ failures' # 0
      /\ UNCHANGED <<row, marker, runtime, worktree, work, preserved, kept, wrote, late, op,
                      seen, calls, crashes, stopped>>
  BY BootMoves, Counting, RowsWritten, <1>0 DEF BootLive, Note, db, disk, agent, bounds, ghost
<1> USE <1>1 DEF BootsOn, Carried
<1>2. SessionTypes'
  BY DEF SessionTypes, Counted, Notes
<1>3. RowShape'
  BY DEF RowShape, Live
<1>4. CallShape'
  BY DEF CallShape
<1>5. BootShape'
  BY DEF BootShape, Live, Ended
<1>6. WorkSafe'
  BY DEF WorkSafe
<1>7. StaysDown'
  BY DEF StaysDown, Live
<1>8. Due'
  BY DEF Due, Live, Ended
<1>9. Consumed'
  BY DEF Consumed, Live, RowShape, CallShape, BootShape, Ended
<1>10. Named'
  BY DEF Named, Live
<1>11. OneAtATime'
  BY DEF OneAtATime, Orderly, Counted, Live, BootShape
<1> QED
  BY <1>2, <1>3, <1>4, <1>5, <1>6, <1>7, <1>8, <1>9, <1>10, <1>11

\* The work is captured, or the session is given up.
LEMMA BootStashStep ==
    ASSUME SessionInv, BootStash
    PROVE  SessionInv'
<1> USE DEF SessionInv
<1>0. SessionTypes
  OBVIOUS
<1>1. /\ boot.at = "stash" /\ Counted
      /\ \/ /\ boot' \in BootRecord /\ boot'.at = "marker" /\ boot'.rec = boot.rec /\ boot'.ref # "none"
            /\ \/ work # {} /\ preserved' = work
               \/ work = {} /\ preserved' = preserved
            /\ UNCHANGED <<row, due>>
         \/ BootsOn("restore") /\ Ends /\ ~due' /\ due' \in BOOLEAN /\ preserved' = preserved
      /\ UNCHANGED <<marker, runtime, worktree, work, kept, wrote, late, op, seen, calls,
                      crashes, stopped, notes>>
  BY BootMoves, Counting, RowsWritten, <1>0 DEF BootStash, Stash, GiveUp, Captured, SessionTypes,
     BootRecord, db, disk, agent, bounds, ghost
<1> USE <1>1 DEF BootsOn, Ends
<1>2. SessionTypes'
  BY DEF SessionTypes, Counted, Notes
<1>3. RowShape'
  BY DEF RowShape, Live
<1>4. CallShape'
  BY DEF CallShape
<1>5. BootShape'
  BY DEF BootShape, Live, Ended
<1>6. WorkSafe'
  BY DEF WorkSafe
<1>7. StaysDown'
  BY DEF StaysDown, Live
<1>8. Due'
  BY DEF Due, Live, Ended
<1>9. Consumed'
  BY DEF Consumed, Live
<1>10. Named'
  BY DEF Named, Live, BootShape
<1>11. OneAtATime'
  BY DEF OneAtATime, Orderly, Counted, Live
<1> QED
  BY <1>2, <1>3, <1>4, <1>5, <1>6, <1>7, <1>8, <1>9, <1>10, <1>11

\* The marker is written, or the session is given up.
LEMMA BootMarkerStep ==
    ASSUME SessionInv, BootMarker
    PROVE  SessionInv'
<1> USE DEF SessionInv
<1>0. SessionTypes
  OBVIOUS
<1>1. /\ boot.at = "marker" /\ Counted
      /\ \/ BootsOn("mark") /\ marker' = boot.ref /\ UNCHANGED <<row, due>>
         \/ BootsOn("restore") /\ Ends /\ ~due' /\ due' \in BOOLEAN /\ marker' = marker
      /\ UNCHANGED <<runtime, worktree, work, preserved, kept, wrote, late, op, seen, calls,
                      crashes, stopped, notes>>
  BY BootMoves, Counting, RowsWritten, <1>0 DEF BootMarker, GiveUp, db, disk, agent, bounds, ghost
<1> USE <1>1 DEF BootsOn, Ends
<1>2. SessionTypes'
  BY DEF SessionTypes, Counted, Notes, BootRecord
<1>3. RowShape'
  BY DEF RowShape, Live, BootShape
<1>4. CallShape'
  BY DEF CallShape, BootShape
<1>5. BootShape'
  BY DEF BootShape, Live, Ended
<1>6. WorkSafe'
  BY DEF WorkSafe
<1>7. StaysDown'
  BY DEF StaysDown, Live, BootShape
<1>8. Due'
  BY DEF Due, Live, Ended, BootShape
<1>9. Consumed'
  BY DEF Consumed, Live
<1>10. Named'
  BY DEF Named, Live, BootShape
<1>11. OneAtATime'
  BY DEF OneAtATime, Orderly, Counted, Live
<1> QED
  BY <1>2, <1>3, <1>4, <1>5, <1>6, <1>7, <1>8, <1>9, <1>10, <1>11

\* The row is terminated.
LEMMA BootMarkStep ==
    ASSUME SessionInv, BootMark
    PROVE  SessionInv'
<1> USE DEF SessionInv
<1>0. SessionTypes
  OBVIOUS
<1>1. /\ boot.at = "mark"
      /\ BootsOn("force") /\ Ends
      /\ UNCHANGED <<marker, runtime, worktree, work, preserved, kept, wrote, late, op, seen,
                      calls, crashes, failures, stopped, due, notes>>
  BY BootMoves, Counting, RowsWritten, <1>0 DEF BootMark, db, disk, agent, bounds, ghost
<1> USE <1>1 DEF BootsOn, Ends
<1>2. SessionTypes'
  BY DEF SessionTypes, Counted, Notes
<1>3. RowShape'
  BY DEF RowShape, Live
<1>4. CallShape'
  BY DEF CallShape
<1>5. BootShape'
  BY DEF BootShape, Live, Ended
<1>6. WorkSafe'
  BY DEF WorkSafe
<1>7. StaysDown'
  BY DEF StaysDown, Live
<1>8. Due'
  BY DEF Due, Live, Ended
<1>9. Consumed'
  BY DEF Consumed, Live
<1>10. Named'
  BY DEF Named, Live
<1>11. OneAtATime'
  BY DEF OneAtATime, Orderly, Counted, Live
<1> QED
  BY <1>2, <1>3, <1>4, <1>5, <1>6, <1>7, <1>8, <1>9, <1>10, <1>11

\* The worktree is removed: what was in it is captured.
LEMMA BootForceStep ==
    ASSUME SessionInv, BootForce
    PROVE  SessionInv'
<1> USE DEF SessionInv
<1>0. SessionTypes
  OBVIOUS
<1>1. /\ boot.at = "force" /\ Counted
      /\ BootsOn("restore")
      /\ \/ worktree' = FALSE /\ work' = {}
         \/ worktree' = worktree /\ work' = work
      /\ UNCHANGED <<row, marker, runtime, preserved, kept, wrote, late, op, seen, calls,
                      crashes, stopped, due, notes>>
  BY BootMoves, Counting, RowsWritten, <1>0 DEF BootForce, RemoveWorktree, db, disk, agent,
     bounds, ghost
<1> USE <1>1 DEF BootsOn
<1>2. SessionTypes'
  <2>1. worktree' \in BOOLEAN
    BY DEF SessionTypes
  <2>2. work' \subseteq Units /\ preserved' \subseteq Units
    BY DEF SessionTypes
  <2>3. work' # {} => worktree'
    BY DEF SessionTypes
  <2> QED
    BY <2>1, <2>2, <2>3 DEF SessionTypes, Counted, Notes
<1>3. RowShape'
  BY DEF RowShape, Live
<1>4. CallShape'
  BY DEF CallShape
<1>5. BootShape'
  BY DEF BootShape, Live, Ended
<1>6. WorkSafe'
  BY DEF WorkSafe, BootShape
<1>7. StaysDown'
  BY DEF StaysDown, Live
<1>8. Due'
  BY DEF Due, Live, Ended
<1>9. Consumed'
  BY DEF Consumed, Live, RowShape, CallShape, BootShape, Ended
<1>10. Named'
  BY DEF Named, Live, BootShape
<1>11. OneAtATime'
  BY DEF OneAtATime, Orderly, Counted, Live, RowShape, CallShape, SessionTypes, BootShape, Ended
<1> QED
  BY <1>2, <1>3, <1>4, <1>5, <1>6, <1>7, <1>8, <1>9, <1>10, <1>11

\* The runtime of a terminated session is destroyed, or leaks.
LEMMA BootReapStep ==
    ASSUME SessionInv, BootReap
    PROVE  SessionInv'
<1> USE DEF SessionInv
<1>0. SessionTypes
  OBVIOUS
<1>1. /\ boot.at = "reap" /\ Counted
      /\ BootsOn("restore")
      /\ \/ runtime' = (IF boot.rec.handle THEN "none" ELSE runtime) /\ notes' = notes
         \/ runtime' = runtime /\ notes' = notes \cup {"leaked"}
      /\ UNCHANGED <<row, marker, worktree, work, preserved, kept, wrote, late, op, seen,
                      calls, crashes, stopped, due>>
  BY BootMoves, Counting, RowsWritten, <1>0 DEF BootReap, Note, db, disk, agent, bounds, ghost
<1> USE <1>1 DEF BootsOn
<1>2. SessionTypes'
  BY DEF SessionTypes, Counted, Notes
<1>3. RowShape'
  BY DEF RowShape, Live
<1>4. CallShape'
  BY DEF CallShape
<1>5. BootShape'
  BY DEF BootShape, Live, Ended
<1>6. WorkSafe'
  BY DEF WorkSafe
<1>7. StaysDown'
  BY DEF StaysDown, Live
<1>8. Due'
  BY DEF Due, Live, Ended
<1>9. Consumed'
  BY DEF Consumed, Live
<1>10. Named'
  BY DEF Named, Live, BootShape
<1>11. OneAtATime'
  BY DEF OneAtATime, Orderly, Counted, Live, RowShape, CallShape, SessionTypes, BootShape, Ended
<1> QED
  BY <1>2, <1>3, <1>4, <1>5, <1>6, <1>7, <1>8, <1>9, <1>10, <1>11

\* A session with a marker is brought back.
LEMMA BootRestoreStep ==
    ASSUME SessionInv, BootRestore
    PROVE  SessionInv'
<1> USE DEF SessionInv
<1>0. SessionTypes
  OBVIOUS
<1>1. /\ boot.at = "restore" /\ Counted
      /\ \/ /\ BootsOn("apply") /\ Ended /\ marker # "none" /\ worktree' = TRUE /\ due' = due
         \/ /\ BootsOn("returned") /\ Ended /\ ~due' /\ due' \in BOOLEAN /\ worktree' = worktree
         \/ /\ BootsOn("returned") /\ ~(Ended /\ marker # "none") /\ UNCHANGED <<worktree, due>>
      /\ UNCHANGED <<row, marker, runtime, work, preserved, kept, wrote, late, op, seen, calls,
                      crashes, stopped, notes>>
  BY BootMoves, Counting, RowsWritten, <1>0 DEF BootRestore, RestoreWorktree, db, disk, agent,
     bounds, ghost
<1> USE <1>1 DEF BootsOn
<1>2. SessionTypes'
  <2>1. worktree' \in BOOLEAN
    BY DEF SessionTypes
  <2>2. work' \subseteq Units /\ preserved' \subseteq Units
    BY DEF SessionTypes
  <2>3. work' # {} => worktree'
    BY DEF SessionTypes
  <2> QED
    BY <2>1, <2>2, <2>3 DEF SessionTypes, Counted, Notes
<1>3. RowShape'
  BY DEF RowShape, Live
<1>4. CallShape'
  BY DEF CallShape
<1>5. BootShape'
  BY DEF BootShape, Live, Ended
<1>6. WorkSafe'
  BY DEF WorkSafe
<1>7. StaysDown'
  BY DEF StaysDown, Live
<1>8. Due'
  BY DEF Due, Live, Ended
<1>9. Consumed'
  BY DEF Consumed, Live
<1>10. Named'
  BY DEF Named, Live
<1>11. OneAtATime'
  BY DEF OneAtATime, Orderly, Counted, Live
<1> QED
  BY <1>2, <1>3, <1>4, <1>5, <1>6, <1>7, <1>8, <1>9, <1>10, <1>11

\* What was captured is merged in, and its ref is kept unless that works.
LEMMA BootApplyStep ==
    ASSUME SessionInv, BootApply
    PROVE  SessionInv'
<1> USE DEF SessionInv
<1>0. SessionTypes
  OBVIOUS
<1>1. /\ boot.at = "apply" /\ Counted
      /\ BootsOn("create")
      /\ \/ work' = work \cup preserved /\ preserved' = {}
         \/ work' \in {work, work \cup preserved} /\ preserved' = preserved
      /\ UNCHANGED <<row, marker, runtime, worktree, kept, wrote, late, op, seen, calls,
                      crashes, stopped, due, notes>>
  BY BootMoves, Counting, RowsWritten, <1>0 DEF BootApply, db, disk, agent, bounds, ghost
<1> USE <1>1 DEF BootsOn
<1>2. SessionTypes'
  BY DEF SessionTypes, Counted, Notes, BootShape
<1>3. RowShape'
  BY DEF RowShape, Live
<1>4. CallShape'
  BY DEF CallShape
<1>5. BootShape'
  BY DEF BootShape, Live, Ended
<1>6. WorkSafe'
  BY DEF WorkSafe, BootShape
<1>7. StaysDown'
  BY DEF StaysDown, Live
<1>8. Due'
  BY DEF Due, Live, Ended
<1>9. Consumed'
  BY DEF Consumed, Live
<1>10. Named'
  BY DEF Named, Live
<1>11. OneAtATime'
  BY DEF OneAtATime, Orderly, Counted, Live
<1> QED
  BY <1>2, <1>3, <1>4, <1>5, <1>6, <1>7, <1>8, <1>9, <1>10, <1>11

\* The agent is started again; what its ref still holds is noted.
LEMMA BootCreateStep ==
    ASSUME SessionInv, BootCreate
    PROVE  SessionInv'
<1> USE DEF SessionInv
<1>0. SessionTypes
  OBVIOUS
<1>1. /\ boot.at = "create" /\ Counted
      /\ \/ /\ BootsOn("launch") /\ worktree /\ runtime = "none" /\ runtime' = "agent"
            /\ notes' = notes \cup Unreplayed /\ due' = due
         \/ BootsOn("returned") /\ ~due' /\ due' \in BOOLEAN /\ UNCHANGED <<runtime, notes>>
      /\ UNCHANGED <<row, marker, worktree, work, preserved, kept, wrote, late, op, seen,
                      calls, crashes, stopped>>
  BY BootMoves, Counting, RowsWritten, <1>0 DEF BootCreate, CanCreate, Note, db, disk, agent,
     bounds, ghost
<1> USE <1>1 DEF BootsOn, Unreplayed
<1>2. SessionTypes'
  BY DEF SessionTypes, Counted, Notes
<1>3. RowShape'
  BY DEF RowShape, Live, BootShape
<1>4. CallShape'
  BY DEF CallShape, BootShape
<1>5. BootShape'
  BY DEF BootShape, Live, Ended
<1>6. WorkSafe'
  BY DEF WorkSafe
<1>7. StaysDown'
  BY DEF StaysDown, Live
<1>8. Due'
  BY DEF Due, Live, Ended
<1>9. Consumed'
  BY DEF Consumed, Live, RowShape, CallShape, BootShape, Ended
<1>10. Named'
  BY DEF Named, Live, RowShape, CallShape, BootShape, Ended
<1>11. OneAtATime'
  BY DEF OneAtATime, Orderly, Counted, Live, BootShape
<1> QED
  BY <1>2, <1>3, <1>4, <1>5, <1>6, <1>7, <1>8, <1>9, <1>10, <1>11

\* What a relaunch of Reconcile that fails leaves.
Abandons ==
    /\ BootsOn("returned") /\ Counted /\ failures' # 0 /\ runtime' \in {runtime, "none"}
    /\ ~due' /\ due' \in BOOLEAN
    /\ notes \subseteq notes' /\ notes' \subseteq notes \cup {"leaked", "carried"}
    /\ runtime' # "none" /\ row'.life # "live" => "leaked" \in notes'
    /\ row'.life = "live" => "carried" \in notes'

\* A relaunch that fails notes what it leaves.
LEMMA LaunchAbandoned ==
    ASSUME SessionTypes, BootLaunchFails PROVE Abandons
<1>1. BootsOn("returned") /\ Counted /\ failures' # 0
  BY BootMoves, Counting DEF BootLaunchFails
<1>2. /\ notes \subseteq notes' /\ notes' \subseteq notes \cup {"leaked", "carried"}
      /\ runtime' # "none" /\ row'.life # "live" => "leaked" \in notes'
      /\ row'.life = "live" => "carried" \in notes'
  BY DEF BootLaunchFails, Note
<1> QED
  BY <1>1, <1>2 DEF BootLaunchFails, Destroyed, Abandons

\* The row is spawned again, or the runtime is destroyed or left.
LEMMA BootLaunchStep ==
    ASSUME SessionInv, BootLaunch
    PROVE  SessionInv'
<1> USE DEF SessionInv
<1>0. SessionTypes
  OBVIOUS
<1>1. /\ boot.at = "launch" /\ Counted
      /\ \/ /\ BootsOn("prompt") /\ Spawns /\ seen' \in {seen, "stale"}
            /\ UNCHANGED <<runtime, due, notes>>
         \/ Abandons /\ UNCHANGED <<row, seen>>
      /\ UNCHANGED <<marker, worktree, work, preserved, kept, wrote, late, op, calls, crashes,
                      stopped>>
  BY BootMoves, Counting, RowsWritten, LaunchAbandoned, <1>0 DEF BootLaunch, Abandons, Launched,
     db, disk, agent, bounds, ghost
<1> USE <1>1 DEF BootsOn, Spawns, Abandons
<1>2. SessionTypes'
  BY DEF SessionTypes, Counted, Notes
<1>3. RowShape'
  BY DEF RowShape, Live
<1>4. CallShape'
  BY DEF CallShape, BootShape
<1>5. BootShape'
  BY DEF BootShape, Live, Ended
<1>6. WorkSafe'
  BY DEF WorkSafe
<1>7. StaysDown'
  BY DEF StaysDown, Live
<1>8. Due'
  BY DEF Due, Live, Ended
<1>9. Consumed'
  BY DEF Consumed, Live, RowShape, CallShape, BootShape, Ended
<1>10. Named'
  BY DEF Named, Live
<1>11. OneAtATime'
  BY DEF OneAtATime, Orderly, Counted, Live, BootShape
<1> QED
  BY <1>2, <1>3, <1>4, <1>5, <1>6, <1>7, <1>8, <1>9, <1>10, <1>11

\* The prompt is delivered, or the runtime is destroyed or left.
LEMMA BootPromptStep ==
    ASSUME SessionInv, BootPrompt
    PROVE  SessionInv'
<1> USE DEF SessionInv
<1>0. SessionTypes
  OBVIOUS
<1>1. /\ boot.at = "prompt" /\ Counted
      /\ \/ BootsOn("unmark") /\ UNCHANGED <<row, runtime, due, notes>>
         \/ Abandons /\ (row' = row \/ Ends)
      /\ UNCHANGED <<marker, worktree, work, preserved, kept, wrote, late, op, seen, calls,
                      crashes, stopped>>
  BY BootMoves, Counting, RowsWritten, LaunchAbandoned, <1>0 DEF BootPrompt, Abandons, db, disk,
     agent, bounds, ghost
<1> USE <1>1 DEF BootsOn, Ends, Abandons
<1>2. SessionTypes'
  BY DEF SessionTypes, Counted, Notes
<1>3. RowShape'
  BY DEF RowShape, Live
<1>4. CallShape'
  BY DEF CallShape, BootShape
<1>5. BootShape'
  BY DEF BootShape, Live, Ended
<1>6. WorkSafe'
  BY DEF WorkSafe
<1>7. StaysDown'
  BY DEF StaysDown, Live
<1>8. Due'
  BY DEF Due, Live, Ended
<1>9. Consumed'
  BY DEF Consumed, Live, RowShape, CallShape, BootShape, Ended
<1>10. Named'
  BY DEF Named, Live
<1>11. OneAtATime'
  BY DEF OneAtATime, Orderly, Counted, Live, BootShape
<1> QED
  BY <1>2, <1>3, <1>4, <1>5, <1>6, <1>7, <1>8, <1>9, <1>10, <1>11

\* The marker that was used is deleted, or stays.
LEMMA BootUnmarkStep ==
    ASSUME SessionInv, BootUnmark
    PROVE  SessionInv'
<1> USE DEF SessionInv
<1>0. SessionTypes
  OBVIOUS
<1>1. /\ boot.at = "unmark" /\ Counted
      /\ BootsOn("returned")
      /\ \/ marker' = "none" /\ notes' = notes
         \/ marker' = marker /\ notes' = notes \cup {"carried"}
      /\ UNCHANGED <<row, runtime, worktree, work, preserved, kept, wrote, late, op, seen,
                      calls, crashes, stopped, due>>
  BY BootMoves, Counting, RowsWritten, <1>0 DEF BootUnmark, Note, db, disk, agent, bounds, ghost
<1> USE <1>1 DEF BootsOn
<1>2. SessionTypes'
  BY DEF SessionTypes, Counted, Notes
<1>3. RowShape'
  BY DEF RowShape, Live
<1>4. CallShape'
  BY DEF CallShape
<1>5. BootShape'
  BY DEF BootShape, Live, Ended
<1>6. WorkSafe'
  BY DEF WorkSafe
<1>7. StaysDown'
  BY DEF StaysDown, Live
<1>8. Due'
  BY DEF Due, Live, Ended
<1>9. Consumed'
  BY DEF Consumed, Live
<1>10. Named'
  BY DEF Named, Live
<1>11. OneAtATime'
  BY DEF OneAtATime, Orderly, Counted, Live
<1> QED
  BY <1>2, <1>3, <1>4, <1>5, <1>6, <1>7, <1>8, <1>9, <1>10, <1>11

\* Reconcile is over.
LEMMA BootServeStep ==
    ASSUME SessionInv, BootServe
    PROVE  SessionInv'
<1> USE DEF SessionInv
<1>0. SessionTypes
  OBVIOUS
<1>1. /\ boot.at = "returned" /\ boot' \in BootRecord /\ boot'.at = "served" /\ ~due' /\ due' \in BOOLEAN
      /\ UNCHANGED <<row, marker, runtime, worktree, work, preserved, kept, wrote, late, op,
                      seen, calls, crashes, failures, stopped, notes>>
  BY <1>0 DEF BootServe, BootRecord, Rows, Unborn, db, disk, agent, bounds, ghost
<1> USE <1>1
<1>2. SessionTypes'
  BY DEF SessionTypes, Counted, Notes
<1>3. RowShape'
  BY DEF RowShape, Live
<1>4. CallShape'
  BY DEF CallShape
<1>5. BootShape'
  BY DEF BootShape, Live, Ended
<1>6. WorkSafe'
  BY DEF WorkSafe
<1>7. StaysDown'
  BY DEF StaysDown, Live
<1>8. Due'
  BY DEF Due, Live, Ended
<1>9. Consumed'
  BY DEF Consumed, Live
<1>10. Named'
  BY DEF Named, Live
<1>11. OneAtATime'
  BY DEF OneAtATime, Orderly, Counted, Live
<1> QED
  BY <1>2, <1>3, <1>4, <1>5, <1>6, <1>7, <1>8, <1>9, <1>10, <1>11

\* The first state satisfies the invariant: nothing has been spawned.
LEMMA InitInv == Init => SessionInv
<1> SUFFICES ASSUME Init PROVE SessionInv
  OBVIOUS
<1> USE DEF Init
<1>0. Unborn \in Rows /\ \A h \in Handlers : op[h] = Idle
  BY DEF Unborn, Rows
<1>1. SessionTypes
  <2>1. op \in [Handlers -> OpRecord]
    BY <1>0 DEF Idle, OpRecord
  <2>2. boot \in BootRecord
    BY <1>0 DEF BootRecord
  <2>3. /\ calls \in 0..MaxCalls /\ crashes \in 0..MaxCrashes /\ failures \in 0..MaxFailures
        /\ wrote \in 0..MaxUnits
    BY SessionManagerAssumption
  <2>4. /\ worktree \in BOOLEAN /\ stopped \in BOOLEAN /\ due \in BOOLEAN
    OBVIOUS
  <2>5. /\ work \subseteq Units /\ preserved \subseteq Units /\ kept \subseteq Units /\ late \subseteq Units
        /\ notes \subseteq Notes /\ work = {}
    OBVIOUS
  <2> QED
    BY <1>0, <2>1, <2>2, <2>3, <2>4, <2>5 DEF SessionTypes
<1>2. RowShape /\ CallShape /\ BootShape
  BY <1>0 DEF RowShape, CallShape, BootShape, Unborn, Idle, Live
<1>3. WorkSafe
  BY <1>0 DEF WorkSafe, Idle
<1>4. StaysDown /\ Due /\ Consumed /\ Named
  BY <1>0 DEF StaysDown, Due, Consumed, Named, Unborn, Idle, Live
<1>5. OneAtATime
  BY <1>0 DEF OneAtATime, Orderly, Unborn, Idle, Live
<1> QED
  BY <1>1, <1>2, <1>3, <1>4, <1>5 DEF SessionInv

\* A step of a call keeps the invariant.
LEMMA ServeStep ==
    ASSUME SessionInv, NEW h \in Handlers, Serve(h)
    PROVE  SessionInv'
  BY SpawnSeedStep, SpawnWorkspaceStep, SpawnCreateStep, SpawnMarkStep, SpawnPromptStep,
     KillBeginStep, KillRuntimeStep, KillWorkspaceStep, KillUnmarkStep, StopMarkStep,
     RetireBeginStep, RetireStashStep, RetireRuntimeStep, RetireForceStep, RetireUnmarkStep,
     RestoreBeginStep, RestoreWorkspaceStep, RestoreCreateStep, RelaunchMarkStep,
     RelaunchPromptStep, ResumeBeginStep, ResumeRestartStep, CleanupBeginStep, CleanupRuntimeStep,
     CleanupWorkspaceStep DEF Serve

\* A step of Reconcile keeps the invariant.
LEMMA ReconcileStep ==
    ASSUME SessionInv, Reconcile
    PROVE  SessionInv'
  BY BootListStep, BootLiveStep, BootStashStep, BootMarkerStep, BootMarkStep, BootForceStep,
     BootReapStep, BootRestoreStep, BootApplyStep, BootCreateStep, BootLaunchStep,
     BootPromptStep, BootUnmarkStep, BootServeStep DEF Reconcile

\* Nothing happens.
LEMMA StutterStep ==
    ASSUME SessionInv, UNCHANGED vars
    PROVE  SessionInv'
<1> USE DEF SessionInv, vars, db, disk, agent, bounds, ghost
<1>1. SessionTypes' /\ RowShape'
  BY DEF SessionTypes, RowShape, Live
<1>2. CallShape'
  BY DEF CallShape
<1>3. BootShape'
  BY DEF BootShape, Ended
<1>4. WorkSafe'
  BY DEF WorkSafe
<1>5. StaysDown'
  BY DEF StaysDown
<1>6. Due' /\ Consumed'
  BY DEF Due, Consumed, Live, Ended
<1>7. Named'
  BY DEF Named, Live
<1>8. OneAtATime'
  BY DEF OneAtATime, Orderly, Live
<1> QED
  BY <1>1, <1>2, <1>3, <1>4, <1>5, <1>6, <1>7, <1>8

\* The invariant holds in every state of the session.
THEOREM SessionInvHolds == Spec => []SessionInv
<1>1. ASSUME SessionInv, [Next]_vars
      PROVE  SessionInv'
  <2>1. ASSUME NEW h \in Handlers, Serve(h)
        PROVE  SessionInv'
    BY <1>1, <2>1, ServeStep
  <2>2. CASE AgentWrites \/ AgentCommits \/ AgentExits \/ ExitReported \/ RuntimeDies
    BY <1>1, <2>2, AgentWritesStep, AgentCommitsStep, AgentExitsStep, ExitReportedStep, RuntimeDiesStep
  <2>3. CASE Probe \/ ApplyRuntimeObservation
    BY <1>1, <2>3, ProbeStep, ApplyRuntimeObservationStep
  <2>4. CASE Crash \/ Reconcile
    BY <1>1, <2>4, CrashStep, ReconcileStep
  <2>5. CASE UNCHANGED vars
    BY <1>1, <2>5, StutterStep
  <2> QED
    BY <1>1, <2>1, <2>2, <2>3, <2>4, <2>5 DEF Next
<1> QED
  BY <1>1, InitInv, PTL DEF Spec

\* The state of a session has its types, and uncommitted work has a worktree
\* (Manager and the tables it writes).
THEOREM SessionTypeCorrect == Spec => []TypeOK
<1>1. SessionInv => TypeOK
  <2> SUFFICES ASSUME SessionTypes PROVE TypeOK
    BY DEF SessionInv
  <2>1. \A h \in Handlers : op[h] \in OpRecord
    BY DEF SessionTypes
  <2> QED
    BY <2>1 DEF SessionTypes, TypeOK, OpRecord, BootRecord
<1> QED
  BY <1>1, SessionInvHolds, PTL

\* Uncommitted work leaves the worktree only after its capture, whatever calls
\* are served together, wherever steps fail and however often the daemon dies:
\* what is lost was written while a retirement was between its capture and its
\* removal, or lay in a preserve ref when an agent was started without it
\* (StashUncommitted, ForceDestroy and the relaunches).
THEOREM WorkIsKept == Spec => []WorkKept
<1>1. SessionInv => WorkKept
  BY DEF SessionInv, WorkSafe, WorkKept, Lost
<1> QED
  BY <1>1, SessionInvHolds, PTL

\* A session that was killed or retired while nothing launched it is not live
\* again before a restore is asked for, unless its marker could not be deleted
\* (Kill, RetireForReplacement and RestoreAll).
THEOREM StoppedIsDown == Spec => []StoppedStaysDown
<1>1. SessionInv => StoppedStaysDown
  BY DEF SessionInv, StaysDown, StoppedStaysDown, Live
<1> QED
  BY <1>1, SessionInvHolds, PTL

\* A boot resumes what the end of the daemon interrupted, wherever in Reconcile
\* the daemon dies again, and the marker of a shutdown is consumed once
\* (saveAndTeardownOne and RestoreAll).
THEOREM ResumedOnlyOnce == Spec => []ResumedOnce
<1>1. SessionInv => ResumedOnce
  BY DEF SessionInv, Due, Consumed, ResumedOnce, Quiet, Live
<1> QED
  BY <1>1, SessionInvHolds, PTL

\* When Reconcile returns, a runtime belongs to a live row that names it, but
\* for the two ways to leave one behind that are told (reconcileLive,
\* reconcileReap and RestoreAll).
THEOREM RealityIsReconciled == Spec => []RealityMatchesRow
<1>1. SessionInv => RealityMatchesRow
  BY DEF SessionInv, Named, RealityMatchesRow, Live
<1> QED
  BY <1>1, SessionInvHolds, PTL

\* Calls served one at a time, none of whose steps fails, leave no live session
\* without the worktree its row names, wherever the daemon dies.
THEOREM WorktreeIsThere == Spec => []LiveHasWorktree
<1>1. SessionInv => LiveHasWorktree
  <2> SUFFICES ASSUME SessionInv, Quiet, Live, row.path, failures = 0, "overlap" \notin notes
               PROVE  worktree
    BY DEF LiveHasWorktree
  <2>1. Orderly /\ CallShape
    BY DEF SessionInv, OneAtATime
  <2>2. \A h \in Handlers : op[h].call = "none"
    BY <2>1 DEF CallShape, Quiet
  <2> QED
    BY <2>1, <2>2 DEF Orderly, Quiet
<1> QED
  BY <1>1, SessionInvHolds, PTL
=============================================================================
