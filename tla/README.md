# Verification of the session daemon

The repository is a desktop application that runs coding agents: a Go daemon
(`backend/`) keeps one row per *session*, launches the agent of a session in a
terminal multiplexer over a git worktree, hears of its progress through hooks
the agent executes, and shows the user what needs them. This directory models
the parts of the daemon in which concurrency, crashes and lost messages decide
whether it is right, checks them with TLC on small instances and proves the most
important ones with TLAPS.

Paths below are relative to `src/backend/internal/`.

## 1. The system and its components

| component | state | operations | interacts with |
| --- | --- | --- | --- |
| lifecycle manager (`lifecycle/`) | the activity and termination columns of the session row; in memory: tool flights, pending launches | `ApplyActivitySignal`, `ApplyRuntimeObservation`, `MarkSpawned`, `MarkTerminated`, `PrepareLaunch`, `CancelLaunch` | the only writer of activity; called by hooks (HTTP), observers, session manager; calls notifications after its mutex is released |
| agent hooks (`cli/hooks.go`, `adapters/agent/`) | none | one HTTP request per agent event, sent once | lifecycle manager |
| activity observer, reaper (`observe/`) | timers; the breaker | poll terminals and processes, deliver an idle signal or a runtime observation | tmux, lifecycle manager |
| notifications (`notify/`, `service/notification/`, store) | `notifications` rows | `Notify`, `Resolve`, read, boot `Reconcile` | SSE hub, push |
| session manager (`session_manager/`) | row metadata, `session_worktrees` markers, git worktrees, preserve refs, tmux sessions | `Spawn`, `Kill`, `RetireForReplacement`, `Restore`, `Resume`, `Cleanup`, `Send`, boot `Reconcile` | lifecycle manager, git adapter, tmux adapter |
| session guard, `Send` (`sessionguard/`) | none | re-read the activity, paste, confirm with Enter | lifecycle row, tmux |
| supervised launches (`cli/agent_process.go`) | launch ids, pending launches | process-started and process-exited receipts | lifecycle manager |
| reactions, SCM observer | pull-request episodes, nudges | poll, diff, nudge | session manager `Send` |
| change data capture (`cdc/`) | cursor over the change log | poll, broadcast | SSE clients |
| review engine (`review/`) | review runs, launched reviewers | claim, launch, submit, startup reconciliation | session manager, store |
| DCP v2 engine and twin (`service/dcpv2/`) | task, command queue, leases, effect fences, admissions, external events, model actions | `Submit`, events, `Drain`, process exits, `Startup` | GitHub, git, model processes |
| DCP policy tasks (`service/dcptask/`) | policy tasks, a queue of model actions, slots | `SubmitPolicy`, `DrainModelActions`, exit and result handlers, startup | review engine, supervised launches, terminal merge |
| DCP terminal merge (`dcpterminalmerge/`) | a line of admissions, one claim, arbiter generations; a mutex per engine | `Try`, startup, arbiter launch, decision and exit | GitHub, policy tasks, arbiter processes |
| shell terminals (`service/shellterm/`) | a gate per session; terminal rows | open, close, teardown, sweep at boot | session manager, tmux |
| terminal attachment (`terminal/`) | per connection its attachments; per terminal its viewers and grid; per attachment a stream and pending keys | open, size, type, close; probe, attach, replay, flush, end | websocket clients, tmux |
| preview servers (`previewserver/`) | one process per session; a registry file | `Start`, `Stop`, wait for the exit, reap at boot | operating system, desktop |
| browser broker (`browserruntime/`) | one connection, pending requests | `Execute`, serve a connection | the link of the desktop (`src/frontend/src/main/browser-runtime-link.ts`) |
| daemon boot (`daemon/`) | none | reconcile everything in order, then serve | all |
| services, HTTP API, mobile bridge, CLI, push, import | rows of their own | decode, read, write | all |

The order of boot is part of the system's correctness (`daemon/daemon.go`):
notifications are reconciled, lifecycle and its observers start, the LAN
listener of paired phones is restored, sessions are reconciled, then the review
engine, the policy tasks, DCP v2 and the terminal merge, and only then the HTTP
server answers. Errors of these reconciliations are logged; the daemon serves
anyway. A shutdown leaves the sessions running on purpose.

### What is hard, and what correctness means

* **Activity.** Tool hooks of one agent overlap, carry only a tool *name*, may be
  lost, and survive no restart in the daemon's memory. A session that waits on a
  permission dialog must stay `blocked` while the dialog is on screen, and must
  not stay so after it was answered.
* **Notifications.** They are written after the reducer's mutex is released, so
  a resolution can overtake the creation it closes; the daemon may die between
  the two; a dedupe decides whether a pause becomes a row.
* **Sessions.** The calls of the API take no lock across their steps, every step
  may fail, the daemon may die between any two, and the next boot has only the
  rows, the markers and the disk. No uncommitted work may vanish, a session the
  user stopped must stay stopped, one that a crash took down must come back
  once, and rows must agree with what runs.
* **DCP v2.** A durable queue drives pushes, merges and model processes whose
  effects must not be repeated: a fence is written before the effect and a
  reconciliation after a crash decides from the outside world whether it
  happened.
* **Terminal merge.** Reviewed cards merge one at a time, in the order of their
  admission. A merge is asked of a provider whose answer may not arrive, a card
  that cannot merge is shown to one call of a model, and what that call was shown
  may have changed when it answers. A pull request must be merged once, and no
  card may pass another that still has a claim on its turn.

`PROJECT.json` lists every component with its status and every hazard at its
line, with the properties that cover it.

## 2. Modules

| module | models | composed with |
| --- | --- | --- |
| `Lifecycle` | the reducer of `lifecycle/manager.go` as pure operators on a row and a flight: tool precedence, launch fence, exit rules, runtime observations, `MarkSpawned`, `MarkTerminated` | extended by `ToolFlight` |
| `ToolFlight` | an agent with parallel tools, permission dialogs and turns; its hooks and their delivery; terminal-idle and runtime observations; a daemon restart | runs every step through `Lifecycle`; extended by `MCProgress` |
| `ToolFlightProofs` | the inductive invariant of `ToolFlight` and its theorems | extends `ToolFlight` |
| `NeedsInput` | the notification rows of one session and the writes that are under way after the mutex was released | the states and transitions of the reducer |
| `SessionManager` | one session, its marker, runtime, worktree and preserve ref; the API calls step by step; the reaper; `Crash`; `Reconcile` step by step | reducer steps that mark rows |
| `SessionManagerProofs` | the inductive invariant of `SessionManager` and its theorems | extends `SessionManager` |
| `TaskFlow` | a DCP v2 task as its submitter sees it: the law of its states, its budgets, at most one release per admission | implemented by `DcpV2` |
| `DcpV2` | the command queue of one task, the twin's processor and its effects, the drive of the models, the API requests, `Crash` and `Startup` | `Flow == INSTANCE TaskFlow` |
| `DcpV2Proofs` | the inductive invariant of `DcpV2`, its theorems and the refinement of `TaskFlow` | extends `DcpV2` |
| `ModelActions` | what the policy queue promises of a task's model actions: each at most once, in order, in one line, one slot each | implemented by `PolicyQueue` |
| `PolicyQueue` | the policy tasks, their model actions and slots; the drain; the review trigger; the exit and result handlers; the reaper; `Crash` and the boot stage by stage | `Promise == INSTANCE ModelActions` |
| `PolicyQueueProofs` | the inductive invariant of `PolicyQueue`, its theorems and the refinement of `ModelActions` | extends `PolicyQueue` |
| `ShellGate` | the terminals of one session and the gate between opening or closing one and removing the worktree; the sweep of the boot | runs inside `MCServices` |
| `SupervisedLaunch` | the launches of one session whose agent runs under a supervisor: registration, receipts, marks, the reaper's two-phase pass | every report and observation goes through `Lifecycle`; runs inside `MCServices` and `MCProgress` |
| `Feed` | the change log, its poller, one event stream with replay and live delivery, a client that reconnects | runs inside `MCServices` and `MCProgress` |
| `Reactions` | the observer's pass over one pull request and the nudges lifecycle sends for it | runs inside `MCServices` |
| `DaemonProofs` | the inductive invariants of the shell terminals, the feed and the reactions, and their theorems | extends `ShellGate`, `Feed`, `Reactions` |
| `AdmissionTrain` | the line of admissions of the reviewed policy cards, the engine that drains it and the arbiter it calls | runs inside `MCServices` |
| `TrainProofs` | the inductive invariant of the merge train and its theorems | extends `MCServices` |
| `PreviewServer` | the preview process of one session, its starts, stops and the goroutines that outlast them, the registry and the next boot | runs inside `MCServices` |
| `BrowserBroker` | commands on their way between the callers of the broker and the link of the desktop, over connections that come and go | runs inside `MCServices` |
| `TerminalMux` | the clients that view one terminal: attachments, the arbitration of the grid, the keys | runs inside `MCServices` |
| `MCServices` | the parts of the daemon that share no state, one per behaviour | extends `NeedsInput`, `ShellGate`, `Feed`, `Reactions`; the others are instances: `Launch`, `Train`, `Preview`, `Browser`, `Mux` |
| `MCProgress` | the three parts with a liveness property, one per behaviour | extends `ToolFlight` through `MCToolFlight`; `Launch` and `Changes` are instances of `SupervisedLaunch` and `Feed` |
| `ServicesProofs` | the inductive invariants of the notifications, the supervised launches and the previews, and their theorems; the types of every part | extends `DesktopProofs`, `TrainProofs`, `DaemonProofs` |
| `DesktopProofs` | those of the terminal views and the browser commands | extends `MCServices` |
| the other `MC*` | the constants of the TLC runs | |

### Lifecycle and ToolFlight

`row` is the session row (activity state, source of the last signal, whether it
is terminated, launch and agent ids); `flight` is `toolFlight`: `inflight`, the
tool names that began and did not end, and `decision`, the candidate of a
blocking dialog. `phase` and `dialog` are the truth on the agent's side that the
reducer never sees. The agent's actions (`PreToolUse`, `PermissionRequest`,
`PostToolUse`, `Stop`, `SessionEnd`...) each produce one hook; `Hook` is `runHook`, which either
reaches `Deliver` (the handler with its event order) or, with `LossyHooks`, is
dropped. Tools are model values with a name given by `NameOf`, so that two tools
share a name. `MaxInflight` is the cap of the map (128 in the code).

`reported`, `asked`, `alone` and `missed` are history: whether the reducer heard
of the dialog, which tool it is about, whether another open tool bore its name,
and whether the flight is incomplete (a hook lost, the map reset, the daemon
restarted).

### NeedsInput

`state` and `term` are the row; `calls` are the writes on their way, stamped in
the order their intents were formed; `rows` is the notification table of one
session. A write may land in any order (`Notify`, `Resolve`) or fail (`Fail`,
bounded by `MaxDropped`); `Restart` drops those under way and runs
`ReconcileResolvedNotifications`. `raced` records that a write landed before an
older one, `lost` that one failed, `muted` that the dedupe answered with a row
already resolved.

### SessionManager

`row`, `marker`, `runtime`, `worktree`, `work` (uncommitted units), `preserved`
(units under the preserve ref) and `kept` (committed units) are the durable
world; `op[h]` is the step a request has reached together with the row it read
when it began; `boot` is the step of `Reconcile`. Each action is the code between
two external calls, with its error path; `failures` bounds the steps that
return an error. What a failed launch leaves depends on more than one error: the code ignores
a `Destroy` of the runtime that fails too (`session_manager/manager.go:582`, 589, 1645, 1662),
so `SpawnUndone`, `RelaunchMark`, `RelaunchPrompt`, `BootLaunch` and `BootPrompt` may each
leave the runtime, and the row that `Parked` writes, or fails to write, names what was not
destroyed. `stopped`, `due`, `late` and `notes` are history the properties
refer to. The model has one session of a single-repository project and an
unsupervised harness, for which `PrepareLaunch` does nothing.

### TaskFlow and DcpV2

A task has one active command (`cmd`: pending or leased, fenced or not, the lease
it is held under and how often that was recovered), the model action it may own
(`action`), and its last admission (`adm`). `events` are the provider events that
were recorded and wait, `applied` those a transition consumed. `branch` and `tree`
are the heads of the branch on GitHub and of the worktree, numbered by the
revision that produced them; `sent` and `run` say how often the release of an
admission was ordered and what became of its workflow. Task, command, action,
admission and events are rows of the database; a transaction of the store is one
action. `op[p]` is what a request (or the boot of the daemon) is at, with the
copy of the command it read: between two of its steps any other request may run.

| actions | code |
| --- | --- |
| `Submit`, `WakeChecks`, `WakeRelease`, `ReportExit` | the four requests of `twin_service.go` and `direct_model.go`, from their checks to the first write |
| `RecordEvent`, `List`, `RecoverCommandLease`, `ReconcileModelCommands`, `ClaimNextCommand` | `Engine.Event`, `Engine.Startup` and `Engine.Drain` |
| `CompleteChecks`, `ObserveRelease`, `ObserveDeployment`, `VerifyTerminal` | commands without an effect: their answer, none, or an ambiguous one |
| `PrepareEffect`, `DispatchRelease`, `FenceAdmissionDispatch`, `FenceCommandEffect`, `Effect`, `EffectRefused`, `EffectFails`, `AdoptSuccessor`, `DispatchAdmission` | the four effects, from the fence to their landing; a failed call may have landed |
| `ApplyOutcome`, `FailClosed` | `TransitionDCPV2` and the fail-closed end |
| `Reconcile*` | `twinProcessor.ReconcileEffect`, per kind of command |
| `DriveModels`, `ReserveModelLaunch`, `Launch`, `StartModelRuntime`, `ImmediateTerminal`, `CompleteDirectModel`, `ReconcileDirectModels` | `direct_model.go` |
| `ModelEnds`, `ModelDies`, `ReleaseEnds`, `ReportLost`, `Crash` | what happens outside the daemon |

`passed`, `approved` and `shipped` are history: the revisions a check reported as
passed, a reviewer approved, and a release was ordered for. `excuse` is set when a
call returns an error or an exit report is lost, and cleared when the task moves
or the daemon starts: what is stuck then is stuck with an error somebody got.

### ModelActions and PolicyQueue

A policy task runs a worker, the review of the head it pushed, at most one repair
and the review of that. Each of the four is a row of one FIFO queue
(`act`, `queue`) and holds one of at most three slots while it is claimed or
running. `task` is the task's row, `row` the session row of its worker (launch id
and activity), `run` and `handle` the review runs and the review row. The world
is `proc` and `rproc`, the processes that live, and `pr`, the head of the pull
request: they outlive the daemon and answer to it over HTTP.

What runs inside the daemon holds a place in the state: `drain` is the drain that
holds `policyMu` and `wanted` whether others wait for the mutex (they are served
together); `trig[t]` is the review trigger that holds the lock of worker `t`;
`exit[t]` is the handler of the worker's exit and `report[t]` that of the
reviewer's result. The three use three different locks, or none, and meet only
in the transactions of the store, each of which is one action: the drain reads the action
it launched (`DrainLooks`) before it starts it (`DrainBinds`), the exit handler likewise
(`ExitReads`, `ExitBinds`), and either may find that the other was there in between.

| actions | code |
| --- | --- |
| `Submit`, `Provision` | `SubmitPolicy`: reserve the task with its queued action; provision the card, then drain |
| `DrainStart`, `DrainClaims`, `DrainEnds` | `DrainModelActions` and `ClaimNextDCPModelAction` |
| `DrainCreates`, `DrainMarks`, `DrainUnmarked`, `DrainReads`, `DrainLooks`, `DrainBinds`, `DrainRefuses`, `DrainCancelled` | `launchWorkerAction` between its external calls, with its failures |
| `DrainTriggers`, `DrainReviews` | `launchReviewAction`: wait for the trigger and judge what it said |
| `Nudge`, `Authorize*`, `InsertRun`, `SpawnReviewer`, `ReviewerUnlaunched`, `FailRun`, `MarkAction`, `MarkTask`, `NameReviewer` | `AutoTrigger` and the policy callbacks it makes |
| `WorkerExits`, `ExitReported`, `ExitUnreported`, `ExitReads`, `ExitBinds`, `ExitFinishes` | the supervisor's receipt, `ApplyActivitySignal` and the action handler |
| `ReviewerSubmits`, `ReviewerFails`, `ReviewerUnreported`, `ResultHandled`, `FailureHandled` | the review result and the reviewer's exit |
| `Crash`, `BootRuntime`, `BootReview`, `BootReviewed`, `BootProvisions` .. `BootDrains` | the death of the daemon; `ReconcileRuntime`, `ReconcileStartup` of the reviews, `ReconcilePolicyStartup` task by task |

A task's revision is stood for by its value, because no two revisions share one;
a run is named by the head it looks at, and a launch by its action. CI is a free
choice of `AuthorizePolicyReview`.

### ShellGate

`gate` is the call that holds the session's gate and `call[c]` what each request
is at: its step, the handle and directory it works on, the rows it has still to
destroy and whether one of them may be alive. `shell[s]` says of a handle whether
its process lives, whether it has a row, in which directory it runs and whether
the row is of an earlier app run. `sweep` are the rows the boot has to reap before
it serves. `untracked` and `undone` are history: terminals the daemon lost track
of, and a spawn that took its worktree back without asking for the gate.

| actions | code (`service/shellterm/service.go`) |
| --- | --- |
| `OpenShellTerminal`, `CloseShellTerminal`, `BeginSessionTeardown`, `Acquire`, `GiveUp` | the three calls that ask for the gate; the thirty seconds they wait |
| `ResolveDir`, `Create`, `Insert`, `InsertFails`, `Fails` | opening, with the rollback of a row that cannot be written |
| `Destroy`, `List`, `Drain`, `Refuse`, `BeginRemoval`, `Remove` | closing one, and the teardown whose caller removes the worktree before it gives the gate back |
| `Prune`, `Exit`, `Restore`, `RollBackSpawn` | what happens without the gate |
| `ShellCrash`, `Reap` | the death of the daemon; `ReapOrphanShellTerminals` |

What a destroy reports and what the probe after an error says are free choices
among the answers that the tmux adapter can give for a process that lives or not.

### SupervisedLaunch

`row` is the session row as `Lifecycle` keeps it, `pending` the launch registered
by `PrepareLaunch`, `proc` the process of each launch, `reports` the receipts of
the supervisor (`cli/agent_process.go`) that the daemon has still to handle, in any
order, and `seen` the facts the reaper gathered and has not applied. `Report` and
`Observe` are `ApplyActivitySignal` and `ApplyRuntimeObservation` of `Lifecycle`
itself; `Report` waits while its launch is registered and not marked. `served`
and `discarded` are history.

### Feed

`log` and `head` are `change_log`, `cursor` and `polled` the poller, `phase`,
`live`, `hand`, `sent`, `cut` and `wire` one SSE stream: its channel, the batch of
the replay it is about to write, the last event written, its cancelled context,
and what is under way to the client. `received` is the client's `Last-Event-ID`.
Events are named by their sequence number. `Poll` and `Publish` are `cdc/poller.go`
and `cdc/broadcast.go`; `Connect` .. `Close` are the handler of
`httpd/events.go`, which subscribes before it replays.

### Reactions

`pr` is the pull request at the provider per part (CI, review, conflict, and a
title that stands for the facts no nudge is about), `acked` the facts the row's
hashes stand for, `pass` the pass of the observer with the facts it fetched,
`memory` and `saved` the nudge signatures in the manager and in the row. `Fetch`
and `Acknowledge` are `observe/scm/observer.go`; `Enter`, `PassOver`, `Nudge`,
`NudgeFails`, `Persist` and `PersistFails` are `ApplyPRObservation` and `sendOnce`.
`told`, `latest`, `missed`, `spared`, `forgot` and `repeated` are history.

### AdmissionTrain

`card[c]` is a policy task with its admission: the state of each, the reason an
incident was recorded with (`stuck`: behind main or in conflict, which an arbiter
may look at; `other`), and whether a repair was already asked for. `line` is the
order of the admissions, `related` whether the cards touch the same paths. `facts`
and `main` are the provider's: a pull request is `clean`, waits for its checks
(`wait`), is `stuck`, is no longer what was reviewed (`drifted`), or `merged`.
A provider that does not answer or the store that fails ends a `Try` (`TryFails`), and one
that does not name the repository makes a claim left behind an incident (`DriftClaimed`).
`engine` is who holds the mutex of the engine and where in `Try` it is; one `Try` is
several actions because the arbiter, the policy drain and the provider go on
beside it. `arb[c]` is the latest generation of the card's arbiter with what it was
shown and the order it gave, `child` its process and `result` its file, which
outlive the daemon. `asked`, `unheard` and `called` are history: merges asked for,
cards whose answer was lost or whose claim was given up without one, arbiters started.

| actions | code (`dcpterminalmerge/`) |
| --- | --- |
| `Enrol`, `GiveUp`, `Rebind`, `TryOn` | `Try` to the end of its enrolment, on a commit signal or a repair |
| `Open`, `CannotDerive`, `Relaunch`, `FailMissing`, `Wedge`, `NothingToDo` | `reconcileFutureArbiters`, before the drain and after it |
| `Refuse`, `Claim`, `Ask`, `Record`, `Stops`, `ResolveClaimed`, `DriftClaimed` | `drain`, `processWaiting`, `mergeWaiting`, `reconcileClaimed` |
| `TryFails` | a call of the provider or the store that ends a `Try` with an error |
| `ClaimArbiter`, `StartArbiter`, `LaunchFuture`, `LaunchFails` | the policy drain's claim and `LaunchPolicyArbiterAction`, which take no mutex |
| `WriteResult`, `Decide`, `PostFails`, `Dies` | the arbiter's process, `SubmitFutureArbiterDecision`, `ReportFutureArbiterProcessExit` |
| `TrainCrash`, `Boot` | the death of the daemon; `ReconcileStartup` |
| `Reviewed`, `ProviderMoves`, `MainMoves` | what happens outside |

The policy queue of `PolicyQueue` appears here only as `Reviewed`: it brings a card
to an approved review, first and after a repair, or fails it.

### PreviewServer

`visit[v]` is what a request is at, `operation` who holds the lock of the session,
`current` the run in the manager's map and `server[i]` a `serverRun` of it: its
status, whether its command is still set, whether it was asked to stop, whether
its start time could be read, whether `done` is closed. `root` is the process,
`piped` the processes whose output a descendant still holds, so that their `Wait` does
not return, `grace[i]` the goroutine that finishes an abandoned stop, `registry` the file.
A write of the file that fails is logged, and leaves it as it was or cut off; `unsaved` says
that the last write, or the read at the start of the daemon, failed.
`stray` is history: processes the daemon that started them could not name to the
next, or could not kill there.

| actions | code (`previewserver/manager.go`) |
| --- | --- |
| `Acquire`, `Spawn`, `SpawnFails`, `Record` | `Start` to the release of the lock |
| `Answers`, `ProbeEnds`, `FailAndStop`, `FailKills` | its probe, which goes on without it |
| `StopNothing`, `Terminate`, `Reaped`, `ForceKill`, `Abandon`, `StopFails` | `stop`, of a `Stop` or at the beginning of a `Start` |
| `WaitForExit`, `Expire`, `GraceKills`, `GraceEnds` | the goroutines and the timer |
| `Keep` | `persistProcessesLocked`, with a write that fails |
| `Outage`, `ReapPersistedProcesses`, `RegistryUnread` | the death of the daemon and the next, which may not be able to read the file |

### BrowserBroker

`request[r]` is what a caller of `Execute` is at and `target[r]` the connection it
read when it began; `awaited` and `answered` are the map of pending requests and the
filled result channels. `link` is the broker's current connection and `socket[k]`
which of its two ends is closed. `outgoing` and `replies` are the frames under way,
`command` and `aborted` the actions in the desktop. `Execute` .. `WriteCancel`, `Accept`,
`DaemonNotices` and `Resolve` are the broker's, `Connect`, `RuntimeCloses`,
`RuntimeNotices`, `Consume`, `Run` and `Finish` the link's. A write that is cut leaves
the beginning of a frame (`torn`), which the next newline completes to a line that
cannot be read. The requests are of one session, whose commands take turns.

### TerminalMux

`opened[c]` is the attachment in a connection's map, `member[c]` its entry among the
viewers with the grid it asked for, `authority` the grid of the terminal. `tap[a]` is an
attachment with the step its loop is at, `screen[a]` the grid its stream has, `replay[a]`
the one `setPTY` read and has still to apply, `input[a]` the keys typed, waiting, in the
batch being written, and handed to a stream. A grid is one number, its area: the
arbitration compares nothing else. The connection's reader does `OpenTerminal`,
`UpdateTerminalSize`, `CloseTerminal` and `Write`; the loop does `Attach` .. `MarkExited`.
The cap on failures is a free choice between another attempt and the end. `evicted`
and `stale` are history: what two races of the code did.

## 3. Runs

| run | instance | shows |
| --- | --- | --- |
| `progress` | hooks: 3 tools under 2 names, cap 2, lossy hooks, 1 restart; launches and feed as in `services` | `NoSpuriousClear`, `PostLiftsBlock`, `BlockLifts`; `EndIsNoticed`; `CatchesUp` |
| `tool_flight_restart` | cap 3, no losses, 1 restart | `NeverASpuriousClear` is violated |
| `services` | notifications: 3 pauses, 2 failed or lost writes; shells: 1 handle, 3 calls at a time, 1 crash; launches: 2, with 2 lost reports or crashes; feed: 4 events, batches and buffers of 2, 2 mishaps; reactions: 2 results, 2 changes, 2 failures, a review budget of 1; train: 2 cards, 2 changes of a pull request or of main, 2 crashes, failed calls, lost answers or arbiters that die; previews: 2 requests, 2 processes, 2 setbacks; browser: 2 callers, 2 connections, 1 cut write; terminal: 2 clients, 2 grids, 2 attachments at a time, 3 frames | `OneOpenRow`, `ListTellsThePause`; `ShellsRooted`, `ForgottenWereDead`; `NeverDiscarded`, `RowTellsTheEnd`; `InOrder`; `ToldOnce`, `AcknowledgedWasHandled`; `OnceOnly`, `InTurn`; `OneServer`; `BothEnds`; `GridArbitrated`, `KeysInOrder` |
| `reactions_suppressed` | 1 result, 1 change, no failures | `SuppressedRefires` is violated |
| `needs_input_dedupe` | 3 pauses, 2 failed or lost writes | `ResolvingReopensDedupe` is violated |
| `session_manager` | 2 requests at a time, 3 calls, 2 crashes, 1 failing step, 2 units of work | `WorkKept`, `StoppedStaysDown`, `ResumedOnce`, `RealityMatchesRow`, `LiveHasWorktree` |
| `session_manager_captured` | no failing steps | `CapturedWorkKept` is violated |
| `session_manager_reality` | no failing steps | `HoweverTheDaemonDied` is violated |
| `dcp_v2` | 2 requests at a time, 1 readmission, 1 crash, 1 failed call, 2 recoveries of a lease, 2 check runs | `LaunchedOnce`, `DeployedAsChecked`, `NothingLeftBehind`, `Implements` |
| `dcp_v2_adopt` | 1 request, 1 readmission, 1 crash | `PublishedHeadAdopted` is violated |
| `policy_queue` | 2 tasks, 1 slot, 1 crash, 1 failure | `SlotsExclusive`, `PhaseOwnsAction`, `LiveHoldsSlot`, `AdmittedWasReviewed`, `NothingWaits`, `Implements` |
| `policy_startup` | the same without failures | `StartupFolds` is violated |

*Why the bounds are enough.* The tool precedence compares the dialog's name with
the entries of that name: two tools of one name give the ambiguous case, a third
of another name the sibling that must not matter, and a cap of two makes the map
overflow with tools still running. A notification can be overtaken by its own
resolution and by that of a later pause; three pauses give both. In the session
manager three calls suffice for spawn, stop and restore with any two
overlapping, and two crashes for a boot that is itself interrupted; two units of
work separate what was captured from what was written afterwards. A session
never consults another, so one is enough for these properties (the reaper's
breaker over many sessions is listed as not modelled).

The task of DCP v2 moves along a line with two loops. One repair is the budget of
the code; one readmission (the code allows two) gives a second round of checks, a
second review and a second admission on a rebased head, and its exhaustion is
reached by the second base that moves. Two requests give every pair of them on
one command; the requests are interchangeable, so their symmetry is used where
only safety is checked. One death of the daemon falls into every step of either,
and the Startup after it runs alone, as in the daemon, which serves only when it
has returned. With two check runs two answers can be retained for one command, so a
wake can be ambiguous.
`MaxRecoveries` is 32 in the code; two suffice for a recovery that is recovered
and for the refusal after them.

Two policy tasks and one slot make every pair of tasks compete: one holds the slot
while the other is the head of the queue, is reviewed, exits or is given up. The
heads are those of the worker and of its one repair. One crash falls between
any two steps of every handler, and the boot after it runs beside processes that
end and reports that arrive. One failure is enough for each error path and for
one combined with a crash. The tasks are interchangeable, and none of the
properties is a liveness property, so their symmetry is used.

The run `services` starts in one of nine parts, and `progress` in one of three, and
stays in it. The parts share no
variable, so a behaviour of the daemon is one of each, and a property of one part
cannot tell them from a behaviour in which the others rest; the state space is the
sum of theirs and not the product. Three calls at a gate are the one that holds
it, one that waits to open and one that waits to remove; one handle is enough
because a terminal is never compared with another one, and `Recorded` may be empty
or not. Two launches give a report or an observation of the launch before; two
mishaps a lost report and a crash. Four events against batches and buffers of two
give a full batch, a short one, an overlap of replay and channel, and an overflow
of the channel. Two results of a part give a condition that changes, ends or comes
back between two passes; a budget of one review nudge (three in the code) is
spent by the first result, and two failures give a failed write followed by a
crash. Two cards are one that is stuck at the head of the line and one behind it that
could merge, related or not; two changes make a pull request stuck and clean again, or
move main under an arbiter that was shown the old one; two faults are a lost answer,
or a late launch, and the crash after it. Two requests for a preview are a start and
what overtakes it; two processes the one that is replaced and its successor, and two
setbacks a descendant that holds the output, or a kill that fails, and the death of the
daemon after it. Two callers give a frame behind one that was cut; two connections a
command whose own is gone while another is current. Two clients give an arbitration,
two attachments one that ends late beside its successor, and three frames an open, a
close and an open, with a size or keys in between.

*Deadlock.* The parts of `services`, and with them the launches and the feed of
`progress`, stop when their bounds are exhausted, and so do notifications alone. The
session-manager instance stops when its bounds on calls and crashes are
exhausted, so its configurations say `CHECK_DEADLOCK FALSE`. A task of DCP v2 ends:
when it is deployed or failed and every call has returned nothing is left to
do, so those say it too. That it does not stop earlier is `NothingLeftBehind`.
The policy queue rests when every task waits for admission or was given up; that
it does not rest earlier is `NothingWaits`.

*Fairness.* The liveness properties are `BlockLifts`, `EndIsNoticed`, `CatchesUp`
and the violated `SuppressedRefires`. `EndIsNoticed` assumes only that the reaper's
ticker goes on (`Reaper`: `Probe`, then `Observe`), not that a report arrives.
`CatchesUp` assumes the poller's ticker (`Poller`: `Poll`, `Publish`), the goroutine
of a stream (`Stream`: `Connect` when the client asks, `ReplayRead`, `ReplayWrite`,
`Take`, and `Close` once its context is cancelled), and a client that reads and
reconnects, as `EventSource` does. Each is one process that takes some next step of
its own, and no step of it is promised in particular: a stream whose context is
cancelled may go on taking as long as there is something to take. Both properties
are stated as `[]<>`: time and again everything in the log has been read, and the
end of the launch that the row names is recorded. As events and launches are
bounded this is the same as that each of them arrives. `SuppressedRefires` is given
the poll loop of the observer with every pass running to its end, and is violated
all the same. `LiveSpec` of `ToolFlight`, which `Progress` has for its hooks,
assumes that an agent goes on with a tool it began, that the user answers a
dialog, and that a turn ends. It assumes nothing of the daemon, which reacts
within the action of the hook, and nothing of hook delivery: a lost hook is
excused by `missed`.

## 4. Findings

The runs that expect a violation show where the code and what the repository
says of it disagree.

1. *A restart can clear a dialog.* The comment on `toolFlight` promises "never a
   spurious clear" after a restart. A tool that began before the restart is not
   in the map; a sibling of its name that began afterwards looks like the only
   candidate for the dialog, and its post lifts the block.
2. *A resolved, unread row still answers the dedupe*, so the next pause of the
   session is neither listed nor pinged, although a test comment says that
   resolving reopens the dedupe.
3. *A preserve ref can be overwritten.* A restore by hand does not replay the
   capture of a retirement, and the next capture points the same ref elsewhere.
4. *An agent no row names.* A daemon that dies between `runtime.Create` and
   `MarkSpawned` leaves an agent that `Reconcile` does not find.
5. *A readmission that landed can fail its task.* The comment on
   `PublishReadmission` says that a restart adopts the exact published head. If
   the daemon died after the worktree was reset to it, the reconciliation asks
   for a worktree at the old head and fails the task.

6. *A startup that stops at the first task.* The comment on
   `ReconcilePolicyStartup` says that it adopts live generations, folds missed
   exits and drains. The runtime reconciliation before it marks the row of a dead
   worker `exited`, which the identity check then refuses: an error ends the whole
   pass, later tasks and the drain included, and the slot stays held.

7. *A suppressed nudge is lost.* A nudge that the guard refuses because the agent
   waits for its user "re-fires on the next observation", says the comment
   (`lifecycle/reactions.go:886`). The caller gets no error, so the observer stores
   the new hashes, and an observation that does not change is not delivered again.

Three cases came up that nothing in the repository contradicts; the properties
name them instead of hiding them. A wake of a release drains the queue without
driving models, so it can claim the command of a model that then waits for the
next request (last exception of `NothingLeftBehind`). A reconciliation that was
overtaken by the transition resets the worktree under the model that runs next
(`Refused`). A second review that asks for changes is refused as an error and
leaves its task in `review_queued`.

### What the session manager properties say

`WorkKept` says that uncommitted work survives every capture, removal and restore, except
what was written between a capture and the removal it was for (`late`), or lay in the
preserve ref when an agent was started without it (`unreplayed`). `StoppedStaysDown` relates a
stop to everything that follows, `ResumedOnce` the death of a daemon to the boots that
follow: what was interrupted is live when `Reconcile` returns, and its marker is gone
unless the boot died or failed between the launch and the deletion (`carried`).
`RealityMatchesRow` says that `Reconcile` leaves no runtime without a live row that names it.
Its exceptions are facts of the code: an agent that was started and not yet named when
the daemon died (`cut`, finding 4), and a runtime left behind (`leaked`) by an old
observation of the reaper, or by a `Destroy` that failed and whose error is ignored, either in
the boot that should have ended it, or for a launch whose row does not name the handle. One that a failed
`Destroy` leaves to a row that does name it, as after a prompt that could not be
delivered, is destroyed by the next boot, and the property includes it.
`LiveHasWorktree` holds for calls served one at a time without failures; overlapping
calls can break it, because no lock excludes them.

### What the DCP v2 properties say

`Implements` is the refinement: whatever two requests, a crash and a failed call do
to one command, the states follow the law of `AllowsTransition`, the budgets are
spent as the store allows, and the release of an admission is ordered at most
once before what follows it is reached. `DeployedAsChecked`
relates the end to what happened on the way: the very
revision that was sent was checked and reviewed, and a deployed task merged the
head of its last admission. `LaunchedOnce` is the launch fence.
`NothingLeftBehind` says that when all calls have returned the task waits for
something that can still come; its exceptions are errors somebody got
(`excuse`), an effect behind its fence that a crash, a failed call or a moved branch
cut off, and the release wake above.

### What the policy queue properties say

`Implements` is the refinement of `ModelActions`: whatever fails and whenever the
daemon dies, no action runs twice, none before its predecessor succeeded, and
each has a slot to itself. `PhaseOwnsAction` says that a task and its actions tell
one story although three handlers and the boot write them. `LiveHoldsSlot` says
that the cap is about real processes: what lives holds a slot. `NothingWaits` says
that no wakeup is lost between handlers that each drain once and a mutex that
serves waiting drains together, but for one race without any fault: the exit handler of
a very short worker reads its action as claimed (`service/dcptask/policy.go:230`), the
drain starts it (104), and the start of the handler (239) is refused. Its error is
only logged (`daemon/daemon.go:218`), the launch is already cleared, and the action
keeps its slot until the next start. `Overtaken` is such a handler; the property says
that nothing else holds a slot in a system at rest, and that nobody is queued beside a
free one. `AdmittedWasReviewed` relates the end to the head
of the pull request at that time. Four more facts about this code show up as exceptions
of these properties: a task that was given up keeps its action (a queued one blocks
the head of the line, since `ErrDCPPolicyStale` ends every drain there; an active one
keeps its slot); a reviewer that was started but not named when the daemon died
lives on after its run failed; a lost exit report holds its slot until a restart;
and the drain of an exit report dies with the request of a supervisor that waits
five seconds.

### What the services properties say

`OneOpenRow` and `ListTellsThePause` say of notifications that writes
which land in any order leave one open row per session, none for a session that
waits for nobody, and one for each that does.

`ShellsRooted` says that no teardown pulls the worktree from under a terminal,
which takes the gate, the listing under it and the caller that removes before it
releases; `ForgottenWereDead` that a row goes only with its process. Their
exceptions are facts of the code: the rollback of a spawn that could not deliver
its prompt removes the worktree without the gate (`undone`); a tmux server that
cannot be reached counts as a terminal that is gone, an insert that fails may leave
its process behind when the destroy fails too, and a daemon that dies between the
two leaves one no row names (`untracked`).

`NeverDiscarded` says that registering before the process starts does its work:
no receipt of the launch the row names is taken for another generation's.
`RowTellsTheEnd` relates the row to the process across receipts
out of order, a reaper whose facts are stale, cancelled launches and crashes.
`EndIsNoticed` is the reaper's purpose.

`InOrder` is an action property about what the client reads: nothing of the log is
skipped and nothing repeated although replay and live delivery overlap, a full
channel cuts the stream and the client returns. `CatchesUp` adds that every event
arrives. A deletion of the session takes its events with it, and a client that
starts afresh begins again.

`ToldOnce` says that the same thing is not said twice in a row; a nudge whose record
was lost (`forgot`: the message reached the agent but the paste was reported as
failed, or the daemon died between the message and the row) is the exception.
`AcknowledgedWasHandled` says that no failure is acknowledged. A condition that was
over the budget or left to an open parent is `spared`, one the agent could not
take is `missed`: what becomes of the latter is finding 7.

`OnceOnly` says that a claim, a request and a record that three transactions and one
external call make up survive whatever falls between them: the pull request is not
asked for twice, one that merged does not stay in the line, and a generation of the
arbiter is one call of the model although the drain, the reconciliation of a `Try` and
the boot can each start it. A merge whose answer was lost is excepted (`unheard`):
`mergeWaiting` records it as an incident, while the same claim left behind by a
crash is adopted as merged by `reconcileClaimed`. So is a claim left behind whose repository
the provider does not name at that moment: `reconcileClaimed` takes the failed call for a
foreign repository (`merge.go:1260`) and records `claimed_identity_drift` (697) without
asking whether the pull request merged. `InTurn` says that no card is merged
past one that waits, is claimed or is an incident nobody was asked about: the drain
chooses its card with `nextPending`, which steps over incidents, and the claim has
conditions of its own in SQL, which do not.

`OneServer` says that of all the processes started for a session the one that lives is
the one a stop would find and the registry names, although the lock is released before
the server is ready and a stop may return before its process is gone. The code keeps
it by comparing the run with the map before every write. What it does not keep: a process
whose descendant holds its output never finishes its `Wait`, so a stop of it fails
and with it every later start; a start that waits for the lock while its session is
killed starts a server for a session that is over; and a daemon that dies between the
start of a process and the write of the registry leaves one nobody names (`stray`).
Nor does it keep the registry when the file cannot be written (`previewserver/manager.go:887-898`)
or, at the start, read (835-843): from then to the next write it may name another process
or none (`unsaved`), and if the daemon dies before that write nobody finds what lives.

`BothEnds` says that neither side is left behind by the other. It needs the rule of
`write`, that a frame that is out counts as sent even if its caller is cancelled
(`browserruntime/broker.go:294`), and that of `disconnect`, that only the current
connection is given up. Its exception (`garbled`) is a frame that was cut: the
connection stays, the next frame is swallowed with it, and a cancel that fails
is not tried again. Nor is one that waits its whole second for the write gate while another
caller writes (`browserruntime/broker.go:259`).

`GridArbitrated` relates four pieces of state that no lock spans: the connection's
map, the viewers, the attachment's last size and the size of its stream. Two races
break it and are excepted by name. The end of an attachment leaves the
arbitration by connection (`terminal/manager.go:386`), after the check of identity that
its comment explains; late, it takes out the attachment that the client opened
meanwhile, whose size then counts no more and follows no one (`evicted`). And `setPTY`
applies the size it read after it released the lock, so a resize in between is set back
(`stale`) until the grid changes again. `KeysInOrder` says that what is typed while a
stream is opened, dropped or opened again is handed over in order and once, although the
pending keys are written without the lock.

What the model shows of progress is no property, because the code does not keep it. A
`Try` that finds the result of a running arbiter in its file submits it while it
holds the mutex the submission takes (`future_arbiter_engine.go:187`), so it never ends;
the supervisor writes the file before it posts it (`cli/arbiter.go:128`), and the boot
runs the same code before the daemon serves (`daemon/daemon.go:459`). `Wedge` is that
step. An arbiter that orders another card first keeps the lane shut until that card or
main moves, and one that failed keeps it shut for good. A card that was given up
before its admission keeps the cohort of every other open (`CohortPending`), so no
arbiter is called any more. A fence that is written before the process lets a `Try`
take the arbiter for dead (`FailMissing`); the late process is then harmless
(`Decide`).

## 5. Proofs

`ToolFlightProofs` proves, for any sets of tools and names, any naming, cap,
number of restarts and with or without losses,

* `TypeCorrect`: `Spec => []TypeOK`
* `DialogKeepsBlock`: `Spec => []NoSpuriousClear`
* `PostAnswers`: `Spec => PostLiftsBlock`

from `ToolFlightAssumption` and `ReducerAssumption` (the sentinels are not tools or
names, every tool has a name, the cap is positive). `NoSpuriousClear` is not
inductive: it says nothing of the flight. The invariant `Inv` adds

* `Entries`: an entry of the map bears the name of its tool;
* `Complete`: while nothing was missed, every tool that can still ask has its entry;
* `Dialog`: the dialog belongs to a tool that asks, and a reported dialog has a
  blocked, live row;
* `Candidacy`: the candidate the reducer keeps for a reported dialog is the
  dialog's own tool or one that can send no post any more.

The last is what makes the rule right: a post lifts the block only if it is the
candidate's, and no tool but the dialog's own can still send it. `Applied` and
`SignalType` give the types of what the reducer returns, `WithinTurn` and
`AtTurnBoundary` what one signal does to row and flight, `SnapshotIsOwn` that the
candidate computed at a permission request is the asking tool when its name is
unambiguous; then one lemma per action preserves `Inv`, `NextInv` combines them
and the theorems follow by temporal induction.

`PostLiftsBlock` is the converse, an action property: the post of the tool whose dialog
was reported last lifts the block. `Inv` does not give it, since it allows the candidate to be a tool
that has nothing more to send. `Answering` adds `Awaited`: as long as the row is blocked
and that tool has its post to come, it is the candidate, if it was alone with its name when
it asked. It became the candidate because what bears its name in the map is open and alone:
`Closed` (a post removes the entry of its tool use) and `Heard` (the dialog on screen is
the one the reducer was told of last) say why.

`DcpV2Proofs` proves, for any number of requests, readmissions, check runs,
recoveries, failing calls and deaths of the daemon,

* `DcpTypeCorrect`: `Spec => []TypeOK`
* `ModelLaunchedOnce`: `Spec => []LaunchedOnce`
* `DeploysWhatWasChecked`: `Spec => []DeployedAsChecked`
* `QueueImplementsFlow`: `Spec => Implements`
* `NothingIsLeftBehind`: `Spec => []NothingLeftBehind`

from `DcpV2Assumption` alone. The fourth is the refinement of `TaskFlow`, step by step.
None is inductive: a handler acts on a command it read before, and two requests, or
a request and an event, may have read the same one. `DcpInv` has, beside the types,

* `Queue`: the active command is the one the state requires, of the current
  revision, and a model's command owns the action, of which one process was started;
* `Train`: which admission each state belongs to, that its release was ordered or
  was not, that an unfenced release command has ordered nothing, and that every
  event of a merge answers an admission;
* `Evidence` and `Branch`: what the state says was checked and reviewed, and that the
  branch is at the task's head except around the two pushes;
* `Booting` and `Alone`: requests are served once Startup is over, and one handler runs
  a command, unless an event of the world can end it;
* for every handler `Serves` (while its command is the active one, it is still leased),
  `Launches`, `Orders`, `Pushes` and `Concludes`: what it knows of the process, the
  release, the head and the outcome it is about to act on.

The argument rests on the numbers of commands, which only grow: a transition makes
the command of every other handler an old one, and the claims of the invariant on a
handler speak of the current command. So a late handler is refused by the store. What
is not refused are effects. A late push is harmless because the head it pushes
is one the branch is at or has passed (`Pushes`, `PushStep`). A release is
ordered by the one handler that spent the fence of its lease (`Orders`, `OrderStep`).
`RestStep`, `TurnStep` and `OutcomeStep` cover the steps of a handler that change no
row; `AdvanceStep` and `FailStep` the two ways a command ends, under `Proper(out, ev)`,
what the outcome says is so, which `OutcomeHolds` and `VerdictHolds` derive from `Concludes`
and `Queue`. For the refinement every step is a stutter (`FlowStutters`) or
the step of `TaskFlow` of the same name (`FlowAdvances`, `FlowFails`, `FlowShips`).

`NothingLeftBehind` speaks of the states in which all calls have returned, and needs to
know of every other state who will still come. `Attended` says it: as long as no call has
failed since the task moved, its command waits for something outside (`Waits`), or a
handler is on duty (`OnDuty`): one that will find it pending (`Collects`), runs it
(`Answering`, `Carries`, `Concluding`), drives, starts or completes its model (`Drives`,
`Starts`, `Completes`), whose own command is over, so that it will return an error
(`Doomed`), or the boot. The hard case is a release
that reports before its order is recorded: the call that ordered it pauses after the
transition, and the merge it ordered is already retained. `Heard` says that another
handler then either lists the commands next, or reconciles the release and will
find its lease gone (`Recorder`); the step that records the event and the transition
(`RecordEventAttends`, `AdvanceAttends`) are where it is used. `Firm` is `Heard` and what a
handler on duty relies on: the command it reconciles is the active one, fenced (`Reads`), nobody
else fences the one it runs (`Unfenced`), the admission of a release is leased and
fenced before its command and settled once (`Settles`), and a report that was
made is of a process that has ended (`Fencing`). `Firm /\ Attended` is inductive relative to
`DcpInv`; the lemmas are one per action, over a few on steps that leave the rows alone
(`PassOn`, `RestsOn`, `TurnsOn`, `HasOn`, `BeginsOn`).

`PolicyQueueProofs` proves, for any set of tasks, any nonempty set of slots and any
number of crashes and failures,

* `PolicyTypes`: `Spec => []TypeOK`
* `PolicySlots`: `Spec => []SlotsExclusive`
* `PolicyPhases`: `Spec => []PhaseOwnsAction`
* `PolicyImplements`: `Spec => Implements`, the refinement of `ModelActions`
* `PolicyLive`: `Spec => []LiveHoldsSlot`
* `PolicyAdmits`: `Spec => []AdmittedWasReviewed`
* `PolicyNeverWaits`: `Spec => []NothingWaits`

from `PolicyQueueAssumption` alone (slots are positive numbers). `PhaseOwnsAction` is
not inductive: a handler acts on what it read before. The invariant `Inv` has four
parts beside the types:

* `Store`: slots and phases, and what makes the transactions of the store safe: a
  reserved task has its first action queued and an absent one none (`Fresh`), and a
  task in review owns the review of the very head its row names (`Reviewing`);
* `Triggered`: a trigger under way has a head to look at, and one started by a drain
  is the one that drain waits for;
* `Draining`: past its claim the drain has a task, and a launch it prepares is a
  worker's;
* `Reported`: a result under way is of a head.

The argument is that of `FinishDCPModelAction`: it compares the task with the copy
its caller read, so a caller that is late changes nothing, and one that is not
finds the task in the state that owns the action it ends. `Fresh` and `Reviewing` say
which action that is where the state alone does not. One lemma per action
preserves `Inv`, under it one step per part the action can disturb.

The next three need `Whole`, which adds to `Inv` what spans several components:

* `OnCourse` and `Heading`: which actions of a task succeeded before the one that is
  next, before and after its repair; the order in which `ModelActions` lets them run;
* `Alive` and `Launched`: a worker that lives has the action it works for active, a
  report of its end is on the way only after it, and what a launch may rely on between
  two of its steps, while hooks, the reaper and the boot move the same row;
* `Reviewed`: the same for the reviews; what a trigger that starts one still finds;
* `Awaiting`: the drain that waits for the trigger it asked for: as long as the task is
  as it saw it, the trigger is on its way to a reviewer, and one that is through
  has started none.

Every step makes at most one transaction of the store (`Transaction`, `StepMakes`), and a
transaction is a step of `ModelActions` or changes nothing it sees (`KeepsPromise`); so the
order of the actions is argued once per transaction and not once per handler.

`NothingWaits` looks only at states at rest, and says nothing of the steps on the way
there. `PolicyNeverWaits` carries `Attended` beside `Whole`, through every step of a daemon
in which nothing has failed yet (`Calm`); a budget that was spent is never given back, so a calm
step starts in a calm state (`Budgeted`), and what it can be is listed once (`CalmSteps`).
`Attended` says by whom every state that holds a slot is owed its next step:

* `Awake(t)`: an active worker has a process whose launch the row names (or a drain is
  about to name it), a handler that read its exit, or the drain that will launch it; if
  that handler was overtaken when it came to bind, it is `Doomed`, and its action one of
  those the property excepts;
* `Asked(t)`: a trigger past its authorization has its action claimed, then running,
  and a reviewer whose run is open;
* `Heard(t)`: a claimed reviewer has the drain that claimed it and saw the task as it
  is; a running one has its process, or a report that the task's row will accept;
* `Held`: a drain past its claim holds an active action that somebody will end, or
  another drain waits;
* `Watched`: a head that could be claimed has a drain under way or waiting, no free slot to
  be claimed with, or an active action whose end drains;
* `Serving`: the daemon serves, and a task that was given up holds no action.

The step that matters is the one that frees a slot or queues an action: it must leave a
drain behind it (`CalmWakes`), and the one drain that ends without claiming a head must
leave somebody active or waiting (`DrainPasses`, `WatchedOrHeld`, `BindTended`, `ReviewsTended`). `OneShift` keeps the
cases few: a task that works is not reviewed, and the other way round.

`DaemonProofs` proves of the shell terminals, for any terminals and calls and any number of crashes,

* `ShellsStayRooted`: `ShellSpec => []ShellsRooted`
* `NoneForgotten`: `ShellSpec => []ForgottenWereDead`

from `ShellAssumptions` (`NoCall` is not a call, the bound is a number). `ShellsRooted` is not inductive: it says nothing
of a removal that is under way. `ShellInv` adds `GateHeld`, that a call between its
acquisition and its release is the one that holds the gate, and `TeardownSeesAll`:
a teardown that has listed the rows has every live terminal still to destroy, or
has failed, and no terminal lives once it removes. That holds because nobody but the
holder of the gate can insert a row, and it needs `ForgottenWereDead`: what has no
row could not be listed.

Of the reactions it proves, for any budget and bounds,

* `NudgedOnce`: `ReactionSpec => []ToldOnce`
* `NothingSlips`: `ReactionSpec => []AcknowledgedWasHandled`

by `ReactionInv`, with `Remembered` (what the agent was told last is in the memory, or would be read
into it, unless its record was lost), `OnRecord` (what the memory and the row hold
was told), `Queued` and `Sending` (only conditions that stand are queued, and a
record is written after its nudge), and `DealtWith`: a pass that will acknowledge has
dealt with every condition it does not queue.

Of the change feed it proves, for any sizes of batch and buffer and any number of events and
mishaps,

* `FeedInOrder`: `FeedSpec => InOrder`

`FeedInv` says where an event of the log is that the client has not read. While
a stream is open it is on the wire (`Written`), in the batch at hand (`BatchWhole`),
still to be replayed, or in the channel or the poller's hands (`Covered`,
`PolledWhole`), unless the stream was cut after what it holds; `Idle` says that a
closed stream holds nothing.

`ServicesProofs` and `DesktopProofs` prove, of the very specification the run `services`
checks and for every value of its constants,

* `NoPauseTwice`: `Services => []OneOpenRow`
* `PausesAreListed`: `Services => []ListTellsThePause`
* `ReportsAreKept`: `Services => []NeverDiscarded`
* `EndIsTold`: `Services => []RowTellsTheEnd`
* `OnePreview`: `Services => []OneServer`
* `EveryPartTyped`: `Services => []ServicesTypeOK`
* `KeysArriveInOrder`: `Services => []KeysInOrder`
* `OneGrid`: `Services => []GridArbitrated`
* `NobodyLeftBehind`: `Services => []BothEnds`

from `NeedsInputAssumption`, `ServicesAssumption` (the bounds are numbers, there is a client,
and the lock that nobody holds is no request's) and, for the types, `DaemonAssumption` (the
same of the parts `DaemonProofs` is about). Every part has an invariant of its own, and since no step of another part touches its variables, the
invariant of the part is one of the whole.

* *Notifications* (`NeedsInputInv`). The two properties need `YoungestTells`: of the writes
  under way the youngest says how the session stands, unless one has overtaken another
  or was lost. `OneWrite` is the lemma behind it, that a step of the session owes the store
  at most one write, and that one the right one.
* *Launches* (`LaunchInv`). `Discarding` says that only launches that are over and done with
  are discarded: never the registered one, which a report waits for, nor the one the row
  names. `Processes` relates processes, registration, receipts and what the reaper has seen: what
  says of a launch that it ended is right. `Served` is `RowTellsTheEnd` with what makes
  the next report of a success count: an idle row that has had a signal names no launch.
* *Previews* (`PreviewInv`). `Locked`: what is at a step under the lock is the holder of the lock,
  and its process the current one. `Mapped`: the flags of a process agree with the map and
  the registry, unless that could not be written. `Single`: two processes that live, are not strays and whose daemon lives are one, and that
  one is the current one or still to be recorded by the holder. The goroutines that go on
  after the lock is given back change only a run the map still names; `Mapped` is where
  that comparison is needed.
* *Views* (`MuxInv`). `Owned`: an attachment belongs to the client whose map names it.
  `KeysKept`: what a client typed is what was delivered, then the batch in a writer's hands,
  then what waits, and a stream that copies has nothing waiting. `Arbitrated` is
  `GridArbitrated` with what each stream between its opening and its replay still
  has to be told (`StreamOf`). `LargestOf`, that a nonempty finite set of grids has a
  largest, comes from the least upper bound of the set: `<` is well-founded on the naturals.
* *Browser commands* (`BrokerInv`). `Awaited`: a pending caller is pending on the current connection.
  `FramesInOrder`: ahead of a command on its way there is no frame of the same caller that can be
  read, its command has not been seen, and a cancel is the last word of its caller. `Working`: the
  runtime gives a command up only for its caller or with its connection. `NotLeft` is
  `BothEnds` for one caller. The order of the frames is what makes a cancel sufficient: it is
  always behind the command it is for, so the runtime knows the command when it reads it.
* *Every part.* A behaviour of `Services` is one of a part whose name does not change
  (`PartStays`); `ShellsThroughout`, `FeedThroughout` and `NudgingThroughout` carry the invariants
  of `DaemonProofs` over to it, since a step of another part is a stutter of theirs. The nine
  invariants imply the nine type invariants; only the line of the train, the frames of a
  connection and the keys of a stream take an argument.

`SessionManagerProofs` proves, for any set of requests that are served together and any
number of calls, units of work, failing steps and deaths of the daemon,

* `SessionTypeCorrect`: `Spec => []TypeOK`
* `WorkIsKept`: `Spec => []WorkKept`
* `StoppedIsDown`: `Spec => []StoppedStaysDown`
* `ResumedOnlyOnce`: `Spec => []ResumedOnce`
* `RealityIsReconciled`: `Spec => []RealityMatchesRow`
* `WorktreeIsThere`: `Spec => []LiveHasWorktree`

from `SessionManagerAssumption`. None of the five is inductive: each speaks of a moment
when calls have returned, or of what is lost, and a call acts on the row it read when it
began. `SessionInv` says what holds at every step of a call and of `Reconcile`:

* `RowShape`, `CallShape`, `BootShape`: a live row with a worktree names its runtime, and
  so does one with a marker; a spawn that has not created its runtime is alone with a
  session nothing has run in; what `Reconcile` knows of row, runtime and capture at each step;
* `WorkSafe`: what a retirement is about to remove is in the ref or late, and the ref
  holds nothing that the worktree of a running agent does not, so that the next capture
  overwrites nothing;
* `StaysDown`: a stopped session has no marker and no launch under way, and no step of
  a boot but the ones that pass it over;
* `Due`: an interrupted session is live or has its marker, whichever step the daemon
  dies at; `Consumed`: a marker left beside a live row belongs to a boot that died,
  and then the runtime is gone;
* `Named`: a runtime is named by the row or by the launch that is about to write it, unless
  that launch failed and could not destroy it;
* `Orderly`: while calls come one at a time and nothing fails, a call knows the row as it is.

`Moves`, `Leaves`, `Begun` and `Undone` say what a handler's step, return, begin and
failed spawn do, `Parks`, `Deserts` and `Abandons` what a failed launch leaves of the row and the
runtime; one lemma per action states its effect in these terms and derives
each part of the invariant from it. The attempt to prove `WorkKept` corrected the model:
the note that captured work was not replayed (`unreplayed`) was taken when the row was
marked, and a second retirement between the start of the agent and that mark overwrote
the ref unnoted, with more calls than the run makes. The note is now taken when the
agent is started.

`TrainProofs` proves, for any number of cards, changes of the pull requests and of main,
crashes, lost answers and arbiters that die,

* `AskedAndCalledOnce`: `Services => []OnceOnly`
* `MergedInTurn`: `Services => []InTurn`

from `ServicesAssumption`. Neither is inductive: who may be asked is decided at the claim,
in SQL, and who is called at the claim of an action, long before the step that asks or
calls. `TrainInv` ties the two:

* `Lined`: the line is the cards with an admission, each once;
* `Ahead`: before a card that is claimed, or was asked for, every card has merged or is
  left to the owner, and that is for good (`Settled`). A claim establishes it: its SQL
  lets nobody past an admission that waits or is claimed, nor past an incident whose
  arbiter has not decided; the rebinding of a repaired head is the step that could break it, since it makes
  an incident wait again, and it is kept because nobody behind was let through meanwhile;
* `AskOnce`: a card that was asked for never waits again. The incident of a refused or
  lost answer has a code for which no arbiter is opened, and the arbiter such a card may
  have had from an earlier incident has nothing left to order;
* `MergedWasAsked`: what the engine knows of the answer between claim and record, so that
  a record tells the truth but for `unheard`, the answers that were lost and the claims
  nobody could identify;
* `CallOnce`: a generation that was not started has its one call still to come, either
  from the drain that claimed its action (`picked`) or from the pass that found the claim
  and starts it again (`due`), never from both.

`EngineStep`, `ArbiterStep` and `CardStep` say what a step may do to the engine, to an
arbiter or to a card so that the invariant is kept; each action's lemma shows that the action
is such a step, and does the rest by hand.

*Only model-checked*: the liveness properties `BlockLifts`, `EndIsNoticed` and
`CatchesUp`, which are out of the prover's reach. Every invariant and every other action or
temporal property of the passing runs is stated by a theorem.

## 6. What is not modelled, and why

`Send` to a user's session with the confirmation of its Enter, the reaper's breaker
over many sessions (at least five dead, and more than half of those probed:
`observe/reaper/reaper.go:162`) and the notification hub are not modelled. Of the
terminal streams, the write loop with the buffer that cuts a slow client, the heartbeat, the
sessions channel and the shutdown of the manager are left out, and that a runtime may die
between the probe and the attach; of the previews, the poller and its entry page, ports,
logs, configuration and Windows; of the browser commands, the limits on frames
(a megabyte for a command in the desktop, eight in the broker) and what an action does. Of
the terminal merge, `AdmissionTrain` leaves out the recoveries of single historical
cards, the handoff of a conflict to a readmission, the refresh of a stale branch, and
the recoveries of an arbiter whose schema or result was refused. Of the reactions, what a merged or closed
pull request does and the deliveries of the review engine are left out; of the
observers, discovery, schedules and the tracker.
Workspace and scratch projects, the restore quarantine and a tmux server that is
unreachable while its agents live are left out of `SessionManager`. Transport,
configuration, import, telemetry and push are plain input and output.
`SaveAndTeardownAll` is called by no part of the daemon; its per-session part is
modelled through `Reconcile`, which does call it. `DcpV2` has one task:
the three model slots and the FIFO of admissions that tasks share, the limit of
one Drain (`ErrDrainLimit`), the human gate and the arbiter (no command of the twin
leads there) and the activations and the adoption of stages 5 and 6 are left out,
and digests and manifests are taken to match unless a call fails.

Hazards that belong to the parts above, beyond those `PROJECT.json` lists: the
guard of `Send` takes no lock, so the session may block between its read and the
paste (`sessionguard/guard.go:77`) or before the Enter that confirms it
(`session_manager/manager.go:2519`); a full buffer drops notification events (`notify/hub.go:61`); `Kill` of a workspace project with
a dirty repository keeps its restore marker (`session_manager/manager.go:1240`); a
hundred and twenty-ninth tool forgets the entries of its siblings
(`lifecycle/manager.go:625`); a second review of DCP v2 that asks for changes is
refused as an error (`service/dcpv2/twin_processor.go:323`); a model that is killed
before it writes its artifact leaves its action running
(`service/dcpv2/direct_model.go:254`).

## 7. Plan

1. `Lifecycle`, `ToolFlight`, `ToolFlightProofs` (done).
2. `NeedsInput` and its theorems (done).
3. `SessionManager` and `SessionManagerProofs` (done). Next: supervised harnesses, whose
   launches are registered before they run.
4. `TaskFlow`, `DcpV2` and `DcpV2Proofs` (done). Next: the model slots and the FIFO of
   admissions that tasks share.
5. `ModelActions`, `PolicyQueue`, `PolicyQueueProofs` (done). Next: the readmissions.
6. `ShellGate`, `SupervisedLaunch`, `Feed`, `Reactions` and their proofs (done).
7. `AdmissionTrain` and `TrainProofs` (done). Next: the readmissions and the recoveries of
   a refused result.
8. `PreviewServer`, `BrowserBroker`, `TerminalMux`, `ServicesProofs`, `DesktopProofs` (done). Next:
   the shutdown of the three managers.
9. `Send` over the guard, the reaper's breaker over many sessions, the deliveries of
   the review engine.
