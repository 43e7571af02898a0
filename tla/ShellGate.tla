------------------------------ MODULE ShellGate ------------------------------
(***************************************************************************)
(* The shell terminals of one session and the gate between opening or      *)
(* closing one and removing the session's worktree.  A call holds the gate *)
(* for its whole length; it waits for it at most thirty seconds.  The      *)
(* terminals themselves are processes that outlive the daemon, and their   *)
(* rows are what a later teardown, or the sweep of the next boot, finds    *)
(* them by: a row may only go once its process is known to be dead.        *)
(***************************************************************************)
EXTENDS Integers

CONSTANTS
    Shells,     \* handles, each used once
    Calls,      \* requests that may be in progress at the same time
    NoCall,
    MaxCrashes  \* bound: crashes of the daemon

VARIABLES
    gate,       \* the call that holds the session's gate
    call,       \* per call: [kind, at, shell, dir, todo, failed]
    shell,      \* per handle: [live, row, dir, old]; old: of an earlier app run
    worktree,   \* the session's worktree is on disk
    sweep,      \* rows the boot has still to reap, before it serves
    crashes,
    untracked,  \* handles that run and that the daemon never recorded, or holds for dead
    undone      \* a failed spawn took its worktree back without the gate

shellVars == <<gate, call, shell, worktree, sweep, crashes, untracked, undone>>

Rest == [kind |-> "none", at |-> "rest", shell |-> {}, dir |-> "none",
         todo |-> {}, failed |-> FALSE]

Recorded == {s \in Shells : shell[s].row}
Creating == UNION {call[c].shell : c \in {d \in Calls : call[d].at = "insert"}}

ShellInit ==
    /\ gate = NoCall /\ call = [c \in Calls |-> Rest]
    /\ shell = [s \in Shells |-> [live |-> FALSE, row |-> FALSE, dir |-> "none", old |-> FALSE]]
    /\ worktree = TRUE
    /\ sweep = {} /\ crashes = 0 /\ untracked = {} /\ undone = FALSE

-----------------------------------------------------------------------------
(* The gate                                                                *)

Ask(c, kind, on) ==
    /\ call[c].at = "rest" /\ sweep = {}
    /\ call' = [call EXCEPT ![c] = [Rest EXCEPT !.kind = kind, !.at = "wait", !.shell = on]]
    /\ UNCHANGED <<gate, shell, worktree, sweep, crashes, untracked, undone>>

\* Close looks its row up before it asks for the gate.
OpenShellTerminal(c) == Ask(c, "open", {})
CloseShellTerminal(c, s) == s \in Recorded /\ Ask(c, "close", {s})
BeginSessionTeardown(c) == Ask(c, "teardown", {})

FirstStep(kind) == CASE kind = "open" -> "resolve" [] kind = "close" -> "destroy"
                 [] OTHER -> "list"

Acquire(c) ==
    /\ call[c].at = "wait" /\ gate = NoCall
    /\ gate' = c
    /\ call' = [call EXCEPT ![c].at = FirstStep(call[c].kind)]
    /\ UNCHANGED <<shell, worktree, sweep, crashes, untracked, undone>>

\* The wait budget is spent, or the client has gone.
GiveUp(c) ==
    /\ call[c].at = "wait"
    /\ call' = [call EXCEPT ![c] = Rest]
    /\ UNCHANGED <<gate, shell, worktree, sweep, crashes, untracked, undone>>

Release(c) == gate' = NoCall /\ call' = [call EXCEPT ![c] = Rest]

-----------------------------------------------------------------------------
(* Opening                                                                 *)

\* A path that is recorded but gone falls back to the project root.
ResolvedDir == IF worktree THEN "worktree" ELSE "root"

ResolveDir(c) ==
    /\ call[c].at = "resolve"
    /\ call' = [call EXCEPT ![c].at = "create", ![c].dir = ResolvedDir]
    /\ UNCHANGED <<gate, shell, worktree, sweep, crashes, untracked, undone>>

\* The pane must come up in its directory.
Create(c, s) ==
    /\ call[c].at = "create" /\ shell[s].dir = "none"
    /\ call[c].dir = "worktree" => worktree
    /\ shell' = [shell EXCEPT ![s].live = TRUE, ![s].dir = call[c].dir]
    /\ call' = [call EXCEPT ![c].at = "insert", ![c].shell = {s}]
    /\ UNCHANGED <<gate, worktree, sweep, crashes, untracked, undone>>

\* The directory cannot be resolved, the pane not started, or, in a teardown,
\* the rows not listed.
Fails(c) ==
    /\ call[c].at \in {"resolve", "create", "list"}
    /\ Release(c)
    /\ UNCHANGED <<shell, worktree, sweep, crashes, untracked, undone>>

Insert(c) ==
    /\ call[c].at = "insert"
    /\ shell' = [s \in Shells |->
           [shell[s] EXCEPT !.row = shell[s].row \/ s \in call[c].shell]]
    /\ Release(c)
    /\ UNCHANGED <<worktree, sweep, crashes, untracked, undone>>

\* The row cannot be written: the process is taken down again, and orphaned
\* when that fails too.
InsertFails(c, killed) ==
    /\ call[c].at = "insert"
    /\ shell' = [s \in Shells |->
           [shell[s] EXCEPT !.live = shell[s].live /\ ~(killed /\ s \in call[c].shell)]]
    /\ untracked' = untracked \cup {s \in call[c].shell : shell[s].live /\ ~killed}
    /\ Release(c)
    /\ UNCHANGED <<worktree, sweep, crashes, undone>>

-----------------------------------------------------------------------------
(* Destroying                                                              *)

\* What a destroy reports.  "hidden": the tmux server cannot be reached, which
\* kill-session counts as gone although the process may have outlived it.
Outcomes(s) == {"gone", "error"} \cup (IF shell[s].live THEN {"hidden"} ELSE {})

\* What the probe after an error may say; a probe that fails says nothing.
Probes(s, outcome) ==
    IF outcome = "error" THEN {"unknown", IF shell[s].live THEN "alive" ELSE "dead"}
    ELSE {"unasked"}

\* Seeded fault: a probe that fails counts as death.
ConfirmedUnlessAlive(outcome, probe) == outcome # "error" \/ probe # "alive"

Confirmed(outcome, probe) == outcome # "error" \/ probe = "dead"

\* The row is deleted once death is confirmed; stays says that the delete failed.
DestroyConfirmed(s, outcome, probe, stays) ==
    /\ outcome \in Outcomes(s) /\ probe \in Probes(s, outcome)
    /\ shell' = [shell EXCEPT ![s] =
           [shell[s] EXCEPT !.live = shell[s].live /\ outcome # "gone",
                            !.row = shell[s].row /\ (~Confirmed(outcome, probe) \/ stays)]]
    /\ untracked' = CASE outcome = "hidden" -> untracked \cup {s}
                      [] outcome = "gone" -> untracked \ {s}
                      [] OTHER -> untracked

Destroy(c, s, outcome, probe, stays) ==
    /\ call[c].at = "destroy" /\ s \in call[c].shell
    /\ DestroyConfirmed(s, outcome, probe, stays)
    /\ Release(c)
    /\ UNCHANGED <<worktree, sweep, crashes, undone>>

-----------------------------------------------------------------------------
(* Tearing down                                                            *)

List(c) ==
    /\ call[c].at = "list"
    /\ call' = [call EXCEPT ![c].at = "drain", ![c].todo = Recorded]
    /\ UNCHANGED <<gate, shell, worktree, sweep, crashes, untracked, undone>>

Drain(c, s, outcome, probe, stays) ==
    /\ call[c].at = "drain" /\ s \in call[c].todo
    /\ DestroyConfirmed(s, outcome, probe, stays)
    /\ call' = [call EXCEPT ![c] =
           [call[c] EXCEPT !.todo = call[c].todo \ {s},
                           !.failed = call[c].failed \/ ~Confirmed(outcome, probe)]]
    /\ UNCHANGED <<gate, worktree, sweep, crashes, undone>>

\* A terminal that may be alive: the worktree is left alone.
Refuse(c) ==
    /\ call[c].at = "drain" /\ call[c].todo = {} /\ call[c].failed
    /\ Release(c)
    /\ UNCHANGED <<shell, worktree, sweep, crashes, untracked, undone>>

Drained(c) == call[c].at = "drain" /\ call[c].todo = {} /\ ~call[c].failed

\* Seeded fault: the gate is given back before the worktree is removed.
BeginRemovalReleased(c) ==
    /\ Drained(c)
    /\ call' = [call EXCEPT ![c].at = "remove"]
    /\ gate' = NoCall
    /\ UNCHANGED <<shell, worktree, sweep, crashes, untracked, undone>>

\* The caller goes on to its own work with the gate still held.
BeginRemoval(c) ==
    /\ Drained(c)
    /\ call' = [call EXCEPT ![c].at = "remove"]
    /\ UNCHANGED <<gate, shell, worktree, sweep, crashes, untracked, undone>>

\* The removal succeeds, or refuses a dirty worktree; the gate goes back.
Remove(c, removed) ==
    /\ call[c].at = "remove"
    /\ worktree' = (worktree /\ ~removed)
    /\ Release(c)
    /\ UNCHANGED <<shell, sweep, crashes, untracked, undone>>

-----------------------------------------------------------------------------
(* What happens without the gate                                           *)

\* The list drops the rows of terminals that are dead: the ones whose probe
\* fails stay.
Prune(s) ==
    /\ sweep = {} /\ shell[s].row /\ ~shell[s].old /\ ~shell[s].live
    /\ shell' = [shell EXCEPT ![s].row = FALSE]
    /\ UNCHANGED <<gate, call, worktree, sweep, crashes, untracked, undone>>

Exit(s) ==
    /\ shell[s].live
    /\ shell' = [shell EXCEPT ![s].live = FALSE]
    /\ untracked' = untracked \ {s}
    /\ UNCHANGED <<gate, call, worktree, sweep, crashes, undone>>

\* A relaunch brings the worktree back.
Restore ==
    /\ ~worktree /\ sweep = {}
    /\ worktree' = TRUE
    /\ UNCHANGED <<gate, call, shell, sweep, crashes, untracked, undone>>

\* A spawn that cannot deliver its first prompt takes its worktree back, in
\* the app run it began in.
RollBackSpawn ==
    /\ worktree /\ crashes = 0 /\ ~undone
    /\ worktree' = FALSE /\ undone' = TRUE
    /\ UNCHANGED <<gate, call, shell, sweep, crashes, untracked>>

\* The daemon dies with its calls and its gates; a new app run reaps what
\* earlier ones left before it serves.
ShellCrash(newRun) ==
    /\ crashes < MaxCrashes /\ crashes' = crashes + 1
    /\ gate' = NoCall /\ call' = [c \in Calls |-> Rest]
    /\ untracked' = untracked \cup {s \in Creating : shell[s].live}
    /\ shell' = [s \in Shells |-> [shell[s] EXCEPT !.old = shell[s].row /\ (shell[s].old \/ newRun)]]
    /\ sweep' = {s \in Recorded : shell[s].old \/ newRun}
    /\ UNCHANGED <<worktree, undone>>

Reap(s, outcome, probe, stays) ==
    /\ s \in sweep
    /\ DestroyConfirmed(s, outcome, probe, stays)
    /\ sweep' = sweep \ {s}
    /\ UNCHANGED <<gate, call, worktree, crashes, undone>>

Answers == ({"gone", "hidden"} \X {"unasked"} \X BOOLEAN)
               \cup ({"error"} \X {"alive", "dead", "unknown"} \X BOOLEAN)

ShellNext ==
    \/ \E c \in Calls :
         \/ OpenShellTerminal(c) \/ BeginSessionTeardown(c)
         \/ \E s \in Shells : CloseShellTerminal(c, s) \/ Create(c, s)
         \/ Acquire(c) \/ GiveUp(c) \/ ResolveDir(c) \/ Fails(c) \/ Insert(c)
         \/ \E killed \in BOOLEAN : InsertFails(c, killed)
         \/ \E s \in Shells, a \in Answers :
              Destroy(c, s, a[1], a[2], a[3]) \/ Drain(c, s, a[1], a[2], a[3])
         \/ List(c) \/ Refuse(c) \/ BeginRemoval(c)
         \/ \E removed \in BOOLEAN : Remove(c, removed)
    \/ \E s \in Shells : Prune(s) \/ Exit(s)
    \/ \E s \in Shells, a \in Answers : Reap(s, a[1], a[2], a[3])
    \/ Restore \/ RollBackSpawn
    \/ \E newRun \in BOOLEAN : ShellCrash(newRun)

ShellSpec == ShellInit /\ [][ShellNext]_shellVars

-----------------------------------------------------------------------------
ShellTypeOK ==
    /\ gate \in Calls \cup {NoCall}
    /\ call \in [Calls -> [kind : {"none", "open", "close", "teardown"},
                           at : {"rest", "wait", "resolve", "create", "insert", "destroy",
                                 "list", "drain", "remove"},
                           shell : SUBSET Shells, dir : {"none", "worktree", "root"},
                           todo : SUBSET Shells, failed : BOOLEAN]]
    /\ shell \in [Shells -> [live : BOOLEAN, row : BOOLEAN,
                             dir : {"none", "worktree", "root"}, old : BOOLEAN]]
    /\ worktree \in BOOLEAN /\ undone \in BOOLEAN
    /\ sweep \subseteq Shells /\ untracked \subseteq Shells
    /\ crashes \in 0..MaxCrashes

\* No teardown removes the worktree under a terminal that runs in it, whatever
\* opens, closes, lists and sweeps run beside it, unless the daemon had lost
\* that terminal.  The rollback of a spawn, which takes no gate, may.
ShellsRooted ==
    \A s \in Shells \ untracked :
        shell[s].live /\ shell[s].dir = "worktree" => worktree \/ undone

\* A terminal that runs is never forgotten: its row is there, or about to be,
\* unless the daemon died between the two, the rollback of a failed insert
\* failed, or the tmux server that is asked for it could not be reached.
ForgottenWereDead ==
    \A s \in Shells :
        shell[s].live /\ ~shell[s].row => s \in Creating \cup untracked
=============================================================================
