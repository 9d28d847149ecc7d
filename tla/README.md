# Verification of env-starter

`env-starter` runs development environments. A long-lived daemon owns an
*engine* that starts, watches, restarts and stops commands (services and tasks);
clients (CLI, terminal UI) talk to the daemon over a Unix socket. This directory
holds TLA+ models of that program, the TLC runs that check them, and proofs
checked by TLAPS. Paths below are relative to the repository.

Contents: [inventory](#inventory) · [hard behaviours](#what-is-hard-here) ·
[modules](#modules) · [runs](#runs) ·
[CommandSupervisor](#commandsupervisor) · [EnvironmentRun](#environmentrun) ·
[ConfigReload](#reloadwaves-and-configreload) · [EventMirror](#eventmirror) ·
[DaemonLifecycle](#daemonlifecycle) · [ConfigGate](#configrules-and-configgate) ·
[LogRing](#boundedlog-and-logring) · [SourceCache](#sourcecache) ·
[TerminalUI](#terminalui) ·
[disagreements](#where-the-code-and-its-documentation-disagree) ·
[proofs](#proofs) · [not modelled](#not-modelled) · [what is left](#what-is-left)

To check: `tlc -config reload.cfg MCConfigReload` (every `.cfg` of this directory; the
table of runs names the module), `tlapm CommandSupervisorProofs.tla` (about twenty
minutes), and likewise `EventMirrorProofs` (four), `LogRingProofs` and
`EnvironmentRunProofs` (three), `SourceCacheProofs`, `DaemonLifecycleProofs`,
`TerminalUIProofs` and `ConfigGateProofs` (one each). `PROJECT.json` lists runs,
properties, the mutations that each property detects, the hazards, and the source lines
behind every definition.

## Inventory

| Part | State it keeps | Operations | What makes it correct | Module |
| --- | --- | --- | --- | --- |
| **Life of a command** `internal/engine/supervisor.go`, `stop.go`, `state.go` | one `command` struct per name: state, holders, retries, `quit`, `startDone`, `monitorDone`, `exited`, `cmd`, `restartMu`, applied variables | start, join, adopt, take over, supervise, restart (automatic, by the user, for changed variables), retry, release, stop, shutdown | one episode and one process at a time; no start barrier closed twice; a healthy command is watched; no process without a holder; every wait ends; what is reported is what runs | `CommandSupervisor` |
| **Environments** `supervisor.go`, `stop.go`, `state.go` | `envState`, `authGate` | start, dependency graph, retry, roll-up, stop | dependencies come first; logins do not overlap; what is reported running is up; opposite orders do not deadlock | `EnvironmentRun` |
| **Configuration reload** `applyconfig.go`, `configdiff.go` | `cfg`, `cmdOf`, `envsOf`, `envEnvOf`, `applyMu` | diff, plan, waves, apply, final sweep | exactly the changed commands restart, once, dependents after dependencies; the engine ends up as the file says | `ReloadWaves`, `ConfigReload` |
| **Logs** `internal/logbuf`, the tail in `cmd/env-starter/main.go` | ring buffer, pending line; the tail's index | add, read, write, close; poll and print | the last *n* lines, whole, in order; the tail repeats and omits nothing | `BoundedLog`, `LogRing` |
| **Daemon: hub and client** `internal/daemon/server.go`, `client.go` | subscribers, buffers, mirror of the states | subscribe and snapshot, fan-out, event stream, wait for settled, reload, shutdown | a mirror is behind only for a known reason; no wait sleeps for ever | `EventMirror` |
| **Daemon: process** `spawn.go`, `server.go`, `main.go` | socket file, lock file, `done` | dial, lock, remove stale, spawn, poll; serve, signal, teardown, exit | one daemon, that a client reaches; nothing it launched outlives it | `DaemonLifecycle` |
| **Configuration** `internal/config`, `resolve_env.go` | – | load, merge, validate, layers of variables | rejects cycles and conflicts; the inspector shows what a launch uses | `ConfigRules` |
| **Trust and reload controller** `internal/trust`, `internal/tui/reload.go` | approved hashes; stamp, `dirty`, parse error | check, approve; scan, reload | nothing unapproved runs; no edit goes unnoticed | `ConfigGate` |
| **Source cache** `internal/source` | cache directories, two locks | clone, refresh, download, verify | one fetch at a time; what a fetch returns is whole and current | `SourceCache` |
| **Terminal UI** `internal/tui/model.go`, `run.go` | selection, focus, quit confirmation, anchor, inspector, shutdown screen | keys and messages | keys act on what is selected; two Ctrl+C quit; quit and reload end | `TerminalUI` |
| Probes, completion, self-update, small helpers | – | – | I/O and linear scripts, [not modelled](#not-modelled) | – |

How they interact: a client's request reaches `Engine` methods, each of which
starts a goroutine; engine goroutines call probes, the source cache and `sh -c`;
state changes are emitted as events, which the hub fans out to the clients'
mirrors. The reload controller loads files that the trust store approves and calls
`Engine.ApplyConfig`. The terminal UI reads the mirror and shares one RPC
connection between its keys, its reload and its shutdown.

## What is hard here

Everything hard is concurrency. In the engine every request runs in its own
goroutine, every healthy command has a supervisor, every process a reaper; they
share a struct under two locks of very different scope, `Engine.mu`, taken and
released dozens of times per operation, and `command.restartMu`, held across a
whole start. Facts read in one critical section are used in later ones; single-use
channels are swapped while others wait on them; a struct can be replaced in the map
while goroutines still work on the old one. Between engine and client lie six
bounded channels, each of which gives up when it is full. Daemons, clients and git
are processes that can die at any instruction and find each other only through
files. A reload works on a plan made earlier, a scan on a stamp taken later.
`PROJECT.json` ("hazards") lists each such place with the properties that watch it, or
with what the code does there against its own documentation.

## Modules

The modules above `CommandSupervisor` take from it that one episode of a command is in
flight at a time and, for liveness, that it ends. They do not take the rest from it:
`EnvironmentRun` has roll-ups of its own, section by section, and what goroutines of a
replaced struct do, or of a launch that failed (`KillsEnd`), is the subject of
`CommandSupervisor` alone. A run of a higher module says nothing of behaviours in which
the lower one breaks what is taken from it; the
[table](#where-the-code-and-its-documentation-disagree) lists those.

| Module | Builds on | Lines of the code it stands for |
| --- | --- | --- |
| `CommandSupervisor` | – | one command, every critical section |
| `EnvironmentRun` | "one episode of a command at a time" (`CommandSupervisor!OneEpisode`) | workflows, the gate, roll-up |
| `ReloadWaves`, `ConfigReload` | the same; a release, an acquisition, a restart is one action | diff, plan and its application |
| `EventMirror` | engine jobs that end (`OperationsEnd`) | from `emit` to the mirror and its waits |
| `DaemonLifecycle` | – | processes, socket, lock, signals |
| `ConfigRules`, `ConfigGate` (extends it) | – | files to engine; scan, approval, reload |
| `BoundedLog` (abstract), `LogRing` (implements it) | – | ring, writers, tail |
| `SourceCache` | – | one cache directory |
| `TerminalUI` | mirror and banner may change at any time (`EventMirror`, `ConfigGate`) | every Update |
| `MC…` | | instances for TLC: constants, sets of configurations, sometimes more initial states, all of them reachable |
| `…Proofs` | | theorems for TLAPS |

`ConfigGate` composes the rules of `ConfigRules` with the controller; `ConfigReload`
composes `ReloadWaves` with the engine; `LogRing` instantiates `BoundedLog`.

## Runs

Every property of a passing run has at least one mutation of the model
(`PROJECT.json`, "mutants"; "mistake" in the modules) that a plausible bug would
be, and under which that run reports it violated: a lock not taken, an exit code not
looked at, a buffer that is not buffered, a state not reset. Deadlock is not
checked: with no request and no fault left each system rests, legitimately. That
nobody waits for ever is the subject of the liveness properties.

| Run (module) | Question | Instance | States |
| --- | --- | --- | --- |
| `supervision` (`MCCommandSupervisor`) | Is a service that crashes, hangs or fails to start always watched by exactly one supervisor, over exactly one process, under `restartMu`? `LockInv`, `LaunchAfterExit`, `Watched` | 2 environments, 2 workers, 2 starts, 2 faults of any kind but the deadline | 463 k |
| `sharing` (`MCCommandSupervisor`) | Does a shared service run only while it is held, with the right variables; is what it reports, at rest, what its process is? `RunsOnlyHeld`, `EnvApplied`, `NoStuckState`, `RollupAgrees` | 2 environments with different variables, 1 worker, 4 operations of all kinds, 2 faults (preparation, launch, probe, shutdown deadline) | 180 k |
| `external` (`MCCommandSupervisor`) | Is the flag of an adopted command right from adoption to takeover to stop? `UnmanagedHasNoProcess` | 1 worker, 3 operations, 2 faults, no automatic restart | 318 k |
| `operations_end` (`MCCommandSupervisor`) | Does every operation end, or can the waits on barriers, supervisors and locks form a cycle? Is a barrier closed once, and a task up only for its last run? `TaskUpHasExited`, `BarrierClosedOnce`, `OperationsEnd` | a task with a liveness check, 2 workers, 2 operations, 1 fault (the launch included), fair | 47 k |
| `workflow` (`MCEnvironmentRun`) | Do dependencies come first, logins one by one, is what runs up, and does everything end, when environments share commands in opposite orders? `OneLogin`, `RunningMeansUp`, `DependenciesFirst`, `OperationsEnd` | 2 environments, 2 interactive commands, 2 workers, 2 operations, 1 fault, fair | 170 k |
| `reload` (`MCConfigReload`) | Does a reload restart what changed, once, in order, and nothing else; is the engine then as the file says? `Applied`, `UntouchedStays`, `RestartsInOrder`, `PlansEnd` | 7 configurations of 3 commands and 2 environments, 2 reloads, 1 operation of a client, which may overlap a plan, 1 failed launch, fair | 161 k |
| `daemon` (`MCEventMirror`) | When is a mirror behind, and does every wait end? `MirrorExplained`, `WaitsEnd`, `ShutdownSeen` | 1 client of each of 5 kinds, 1 environment of 1 command, channels of 1 or 2 places, fair | 351 k |
| `lifecycle` (`MCDaemonLifecycle`) | Which daemon serves, what is left when it goes, does every attempt end? `OneDaemon`, `TakenByLeavers`, `NothingLeft`, `WaitsEnd` | 2 clients, 2 daemons, 1 fault of 5 kinds at any point, fair | 108 k |
| `config` (`MCConfigGate`) | Does the engine only run what was approved and is sound, and is every client told the truth in the end? `RunsApproved`, `EngineSound`, `ControllerSettles` | hundreds of given configurations (every graph over 3 commands, every sharing of a variable, every field), 2 edits, 2 reloads, 2 clients, 1 `allow`, saves between any two looks at a file, fair | 43 k |
| `logs` (`MCLogRing`) | Are lines whole, none lost, and printed in order; is the ring a bounded log? `LinesKept`, `TailFaithful`, `KeepsNewest` | 2 writers, capacity 3, 5 bytes each, 2 rings | 770 k |
| `source` (`MCSourceCache`) | One fetch at a time, that delivers and ends? `OneFetcher`, `FetchIsCurrent`, `FetchesEnd` | 3 commands of 2 daemons, clone or download, 1 push, 1 fetch each, 1 death, fair | 318 k |
| `tui` (`MCTerminalUI`) | What do the keys act on, who shuts the daemon down, does quitting end? `UpdateSound`, `QuitConfirmed`, `SelectionFollows`, `TasksEnd` | 3 topologies, one of them empty, 1 reload, 2 timers, fair | 46 k |

Two larger instances stay beside the runs, for whoever changes this code; both hold.
`overlaps.cfg` has three starts, stops and restarts of two clients, one more than
`operations_end` and the number at which `monitorDone` can be closed twice:
`BarrierClosedOnce` and `LaunchAfterExit` (2.6 M states, three minutes).
`workflow_faults.cfg` lets a command fail in the environments that are under way at the
start (2.3 M). `reload` also holds with `MaxOps = 2` (820 k).

Properties that are conjunctions (`Applied`, `EngineSound`, `LinesKept`, …) name
their parts in the module. `TypeOK` of each module was checked on the same instances
while the model was written; for all modules with proofs it is a theorem.

Bounds are the constants named `Max…`; each limits how often something may begin
(operations, faults, edits, pushes, reloads, bytes), never what happens after. They
were chosen by the counterexamples: nearly every violation listed below needs at most
two or three operations and one or two faults, and the passing runs allow that many.
Further remarks on bounds stand with the modules. `SYMMETRY` is used for
interchangeable model values in runs without liveness only.

Fairness is weak fairness of goroutines and processes that can go on (the Go and
the OS schedulers run them), never of requests, faults, edits or users. It is stated
per thread, or for one disjunction of steps where these cannot starve each other
(plan and jobs of `ConfigReload`, tasks of `TerminalUI`, jobs of `EventMirror`).
`ConfigGate` needs strong fairness for a mutex; runs of safety only need none.

## CommandSupervisor

| Model | Code |
| --- | --- |
| `commands` (heap), `nobj`, `cur` | the `command` structs ever made; `e.commands[name]` |
| fields of a struct | the fields of `command`; `stopping` is `stopStartedAt` non-zero; `cmd` and `exited` name a process by the channel made for it; `startDone`, `monitorDone`, `quit` are channels; `restartMu` is its holder |
| `envState` | `e.envState` |
| `pc`, `loc` | the goroutines: workers (one public operation each) and monitors (supervisors) with their local variables; `ret`, `after`, `then`, `cont` say where a shared piece of code returns to |
| `fresh`, `closed` | channels made and channels closed (a channel is a number, nil is 0) |
| `alive`, `signalled`, `badExit` | the operating system: processes that run, that got SIGINT or SIGKILL, that exited with an error |
| `ops`, `faults` | counters that bound a behaviour |

Two details of the code are kept because properties depend on them:
`setCmdState` looks the struct up **by name** (`WithCmdState`), so a goroutine of
a replaced struct writes into its successor; and a goroutine keeps the pointer it
started with (`loc[t].obj`).

One action is one critical section of `Engine.mu` together with the local
computation around it, or one blocking wait (a channel, `restartMu`, a timer).
Two neighbouring critical sections are one action only where nothing another
goroutine does in between can be observed by either: the action then commutes to
one side. This is the case of (a) taking `restartMu` and the first write under it, (b) clearing
`stopStartedAt` with the `setCmdState(CmdStopped)` that follows, and (c) a read of
`c.exitErr` after the exit was seen, when it no longer changes. `cmd.Start` and the
assignment of `c.cmd` after it are one action too (`SpawnProcess`), since only the
goroutine itself knows of the process before. All other sections stay apart:
`LaunchEnv` (the variables) / `Launch` (the new `exited`) / `SpawnProcess`,
`RollupRead` / `RollupWrite`, `BackoffElapses` / `Relaunch`, `RestartCommand` /
`MarkRestarting`, `Release` / `CancelStop` / `StampStop` / `MarkStopping` /
`StopBarrier`, `Shutdown` / `ShutdownStop`, `MonitorBegin` / `Snapshot`, `EnvCheck` /
`EnvRead` / `EnvCompare` / `Cancel`.

| Actions | Code |
| --- | --- |
| `StartEnvironment`, `MarkStarting`, `ResetForRetry`, `AcquireNew`, `AcquireJoin`, `JoinWait`, `FinishRun` | `StartEnvironment`, `resetForRetry`, `acquireAndStart`, the end of `runEnvironment` |
| `EnvCheck`, `EnvRead`, `EnvCompare` | `maybeRestartForEnvChange` |
| `StartCommand`, `CheckUnmanaged`, `Adopt`, `WatchUnmanaged`, `Started` | `startCommand`, `checkUnmanaged`, `startUnmanagedMonitor` |
| `Prepare`, `PrepareFails`, `LaunchEnv`, `Launch`, `SpawnProcess`, `SpawnFails` | `doStart` (fetch, setup), `launchProcess` |
| `ServiceReady`, `ServiceTimesOut`, `ServiceExitsEarly`, `TaskExits`, `TaskReady`, `TaskTimesOut`, `Settle` | `handleService` / `waitReadyOrExit`, `handleTask` / `waitTaskReady`, `close(startDone)` |
| `StartMonitor`, `MonitorBegin`, `Snapshot`, `Supervise…`, `GiveUp`, `MonitorExit` | `startMonitor`, `superviseService`, `superviseTask`, `runLiveness` |
| `AttemptRestart`, `Retry`, `RetriesExhausted`, `BackoffQuit`, `BackoffElapses`, `Relaunch`, `Retried`, `RetryResume`, `RetryExit` | `attemptRestart`, `relaunch` |
| `UnmanagedBegin`, `UnmanagedQuit`, `UnmanagedProbeFails`, `TakeOver`, `TakeOverStart` | `superviseUnmanaged`, `takeOverUnmanaged` |
| `RestartCommand`, `MarkRestarting`, `Cancel`, `CancelWait`, `RestartLock`, `RestartBegin`, `Relaunched`, `Unlock`, `RestartInPlace` | `RestartCommand`, `restartCommandInPlace`, `restartInPlace` |
| `StopEnvironment`, `Release`, `CancelStop`, `StampStop`, `MarkStopping`, `StopBarrier`, `StopWait`, `Stop`, `Kill`, `AwaitExit`, `Stopped`, `EnvStopped` | `StopEnvironment`, `releaseCommand`, `stopCommand`, `terminate`, `killAndWait` |
| `Shutdown`, `ShutdownStop`, `ShutdownDeadline`, `ShutdownEnd` | `Shutdown` |
| `Rollup`, `RollupRead`, `RollupWrite` | `recomputeEnvsFor`, `recomputeEnvState`, `setEnvState` |
| `ProcessExits`, `ProcessCrashes` | the reaper goroutine of `launchProcess` |

`handleService` and `waitReadyOrExit` (and the two task functions) share actions
because they do the same and differ in what they report; `IsFreshStart` tells
them apart. An error of the probe other than a timeout needs no action of its
own: `probe.WaitReady` returns one only when its context is cancelled. The reaper
closes `c.exited`, read when it gets there; a process is named here by the channel
made for it, and the two are the same as long as no process is launched over a
running one, which is `LaunchAfterExit`.

`Operations` and `Faults` choose what clients and the world may do: a process
crashes, fetch or setup fails (`prepare`), the process cannot be started
(`launch`), a readiness probe times out (`probe`), a liveness probe fails, the
shutdown deadline passes. What configuration validation guarantees is
`ConstantsOK`. "At rest" (`Quiet`) means that no operation is under way,
supervisors only wait, and no signalled process is still running.

The scope of a passing run is part of its statement, since most of these properties fail
in a wider one (see [disagreements](#where-the-code-and-its-documentation-disagree)):
`sharing` has *one* client and no crash, so that the next operation starts when the
previous one has ended; `supervision` has *two* concurrent starts and no stop;
`operations_end` has two clients of a task, and holds for a probed service without
crashes as well (`IsTask` and `CheckLiveness` `FALSE`, `Faults = {"prepare", "launch",
"probe"}`, 48 k states). Its `OperationsEnd` makes one exception, which is the code's: a
goroutine that waits for the exit of a process that failed to start (`Stranded`).
`launchProcess` makes a new `exited` before `cmd.Start`; when that fails nobody closes
it, `c.cmd` still names the process of before, and the next `killAndWait` waits for ever
with `restartMu` in its hands (`stop.go:164`), as `stranded.cfg` shows. Every later restart
of the command, and a stop of it, then waits for ever as well. `MaxObjs` (structs) and
`MaxMonitors` (supervisors alive at once) are large enough that no goroutine ever waits
for a free one. `MaxChans` is needed elsewhere: the code has an endless behaviour, two
supervisors that restart each other's process for ever, and no new automatic episode
begins once that many channels were made. No passing run reaches it; all this was
checked as invariants. `MaxRetries = 1` gives both outcomes of the retry test.

Fairness: each goroutine, and processes that exit once they are signalled or are
tasks (SIGKILL follows SIGINT). `restartMu` needs no strong fairness, since it is
only starved by an endless succession of episodes, and the instances have none.

## EnvironmentRun

Commands are reduced to their episodes (`phase`, `episode`, `barrier`, holders);
`worker` is a public operation, whose `step` gives each entry of the workflow a
goroutine of its own, as `runEnvironment` does.

| Actions | Code |
| --- | --- |
| `StartEnvironment`, `StepOf` (waiting for the dependencies, acquiring, joining, skipping), `RunSums`, `RunEnds` | `StartEnvironment`, `runEnvironment`, `acquireAndStart` |
| `ResetSkip`, `ResetRelease`, `ResetShared`, `RestartInPlace`, `RetryDone`, `ResetDone` | `resetForRetry`, `restartInPlace` |
| `StopEnvironment`, `ReleaseShared`, `ReleaseLast`, `StopCommand`, `StopEnds` | `StopEnvironment`, `releaseWorkflow`, `releaseCommand` |
| `RestartCommand`, `RestartBegins` | `RestartCommand`, `restartCommandInPlace` |
| `Launch`, `StartUp`, `RelaunchUp`, `Publish`, `GiveUp`, `Retry`, `BackoffEnds` | the episodes, with `authGate` around the interactive ones |
| `PrepareFails`, `StartFails`, `RelaunchFails`, `Crash` | failures |
| `Tell`, `ReportActive`, `ReportSums`, `ReportWrites` (one environment after the other) | `recomputeEnvsFor`: `isEnvActive`; `recomputeEnvState`: the reading, the writing |

A roll-up has the three sections of the code, and anything may happen between them: a
state may be out of date when it is written. `overtaken` is history, the environments
whose state was so when it was last written; `RunningMeansUp` excuses these and nothing
else, and `RunningMeansUpEver`, which excuses none, fails (`overtaken.cfg`). The end of
a start reads and writes in two actions as well (`RunSums`, `RunEnds`).

What is coarser than the code: a user restart asks and cancels the automatic cycle in
one step; every command has its automatic restart enabled; `AcquireNew` replaces a
struct only when its last episode is over, where the code does not wait for that
(`supervisor.go:117-141`): what the goroutines of a replaced struct then do is modelled
in `CommandSupervisor` (`replaced.cfg`).

`DependenciesFirst` compares a step with a history variable (`upSince`: what a run
has seen up); `OperationsEnd` covers the opposite orders of two environments, where
each waits for a command the other starts, and logins that queue for the gate while
holding `restartMu`. `MCEnvironmentRun` starts from nothing, from two running
environments, and from one that failed on a command the other one shares.

## ReloadWaves and ConfigReload

`ReloadWaves` is `computeDependentWaves` as functions: the affected commands (a
breadth-first search over the edges of all environments) and Kahn's algorithm on
them, where a cycle across environments goes in one last wave. `ConfigReload` is
`ApplyConfig`: it diffs, plans and swaps in one step (all under `Engine.mu`), and
plans are carried out one at a time.

| Actions | Code |
| --- | --- |
| `ApplyConfig` (`ChangedCommands`, `Seeds`, `Waves`) | `ApplyConfig`, `diffConfig`, `planReloadLocked`, `computeDependentWaves` |
| `BeginPlan`, `RestartWorkflows`, `PurgeBegins`, `PurgeReleases`, `PurgeForgets`, `PurgeEnds` (a release per holder), `RestartMember`, `PropagateEnv`, `FinalSweep` | the six phases of `applyReloadPlan`; `restartCommandWithNewConfig` |
| `StartEnvironment`, `StopEnvironment` and the jobs they and the plan leave behind (`JobReleases`, `JobAcquires`, `JobSkips`, `JobEnds`) | clients; `runEnvironment`, `releaseWorkflow` |

A launch may fail at any restart or start. `Applied` says that, once all plans
are carried out, what is up runs the definition and the merged variables of the
current configuration, held by those who use it; `UntouchedStays` bounds what a
plan may disturb by an independent definition (`Touched`); `RestartsInOrder` is the
purpose of the waves. The seven configurations of the run change a definition at the
head of a chain, change one while its environment drops it, rewire, remove, change
variables, or only a description. `Races = {"clients"}`: a client may act at any time,
also while a plan waits or is carried out; `crossed` is history, that this has happened.
Only then is `Applied` excused, which fails there (see below): a plan is made for what
ran when the configuration was swapped. With `"plans"`, where plans may also overtake
each other, it fails without a client. Fairness: the plan and the jobs go on.

## EventMirror

| Model | Code |
| --- | --- |
| `truth`, `writes`, `jobs` | the states in the engine, each with the number of its last change; goroutines that change them, then announce (`setCmdState`, `emit`) |
| `events`, `hubCmds`, `subCh`, `stream`, `inbox` | `Engine.events`, `server.hubCmds`, the channel of a subscriber, its socket, `c.events` of the client |
| `subscribers`, `handler`, `snap` | `runHub`, `handleSubscribe`, `buildSnapshot` (read key by key) |
| `mirror`, `forwarding`, `client` | the mirror; the wait of `run`, `stop`, a restart, a shutdown, a reload |
| `unseen` | history: changes a client can no longer learn of, and why |

Sends on every channel but the socket give up when it is full. `MirrorExplained`
says that this, an announcement out of order, a change during the subscription and
a reload's snapshot are *all* the ways a mirror can fall behind; `WaitsEnd` that a
wait never sleeps through what did reach the mirror, although the wakeup itself can be
dropped; `ShutdownSeen` that every client sees the end of its stream. Channels have
one or two places, so that each fills; `MaxWrites` bounds changes that the engine
makes by itself. One look at the mirror is one action, although it takes the lock
per key. `ShutdownByAnother` is the request of a client outside the instance. Nothing makes
a client connect, a user give up or the engine act.

## DaemonLifecycle

Each client is an `EnsureDaemon` or `DialOnly` (dial, handshake, lock, dial again,
remove a stale file, spawn, poll, unlock) and then a session; each daemon is
`runDaemon` and `Serve` (load, remove the old file, bind, `Notify`, serve, teardown,
close, remove the path, exit). The file at the socket's path belongs to the daemon
that bound it; the flock to a client, and the kernel frees it when the client dies.
Faults: a daemon refuses its configuration, a daemon or a client is killed, a
signal arrives (at any point, the context of `runDaemon` included), a daemon is so
slow that polling ends. Work is reduced to which client asked for it and whether it
is up, collected by the shutdown, or launched after the collection.

`OneDaemon` says exactly when two daemons can be at work: when a client gave up on
one, or one lost its file; `TakenByLeavers` who can have taken it. `Polls = 1`
suffices, since a poll ends when it may. Liveness needs as many daemons as clients,
so that each may spawn one.

## ConfigRules and ConfigGate

`ConfigRules` translates `Validate`, `Merge`, `Load`, `buildIndexes`,
`effectiveEnv` and `ResolveEnv`; of sources, probes and restart blocks only the
cases the rules tell apart are kept. `ConfigGate` adds the files, the trust store
and the controller.

| Actions | Code |
| --- | --- |
| `Save` | an edit of either file; `edits` is also the stamp that a scan compares |
| `Allow`, `Answer`, `ApproveHash`, `Approve` | `doAllow`, `runAllow`, `trust.Approve`, which hashes the files anew, one after the other, and then writes the store |
| `LoadStore`, `HashBase`, `HashOverlay`; `ReadBase`, `ReadOverlay` | `trust.Check` and `Status`, then `loadMerged`, file by file, in the start, a scan and a reload |
| `StartFails`, `StartEngine`, `NewController` | `runDaemon`, `resolveConfig` |
| `ScanUnchanged`, `ScanLoads`, `ScanFails`, `ScanCompares` | `ConfigChanged`, under the controller's mutex |
| `Reload`, `ReloadFails`, `Apply`, `Install` | `Reload`, which takes the mutex only to install what it loaded |

Saves may fall between any two of these steps. Taken at one instant are only the two
`stat` calls of a scan and the preview that `allow` shows before its question.

The code reads a file a second time after it has hashed it, and the two files one after
the other, so that what runs need not be a pair that was ever approved, nor one that was
ever on disk. `RunsApproved` says what does hold: one store had approved both texts,
except that a text may also be one that was saved between *its own* hash and *its own*
reading (`slipped`, history). An edit that was there before the check never runs
unapproved, and no load takes its base from one approval and its overlay from another.
`EngineSound` is what validation is for: the graph of every started environment
can be carried out, variables do not depend on the order of holders, the inspector
agrees with a launch; it is checked on the given and edited pairs of texts, merged
ones included. `ControllerSettles`: every request ends, and when nothing changes any
more every client is told the truth, unless the last change fell into a load that had
already hashed its file or read its store, was an approval, or followed an error a
reload kept (`unread`).

Fairness is strong for scans and reloads, because the mutex is contended for ever
by TUIs that scan every second, and Go's `sync.Mutex` does not starve a waiter.

## BoundedLog and LogRing

`BoundedLog` is the promise: a log that keeps its newest `Capacity` lines and may be
forgotten when a command is made anew. `LogRing` has `buf`, `head` and `count`, the
writers with their pending text, the splitting of a write into lines with readers
in between, and the tail with its index (`seen`). `KeepsNewest` is the refinement
`log <- Lines(ring)`.

| Actions | Code |
| --- | --- |
| `NewWriter`, `Write`, `WriteLine`, `Close` | `NewWriter`, `Writer.Write` (one action per line it adds), `Writer.Close` |
| `Add`, `Lines` | `Ring.Add`, `Ring.Lines` |
| `Recreate` | a new struct of the command, with a new ring |
| `Flush` | one poll of `tailStartupLogs`, the final one included |

Capacity 3 wraps within the bytes of one writer. Left out: when the log file
cannot be written, `Write` returns an error and `os/exec` stops copying, although
"the ring always receives the data" (`logbuf.go:90-92`); a relaunch that fails
never closes its writer.

## SourceCache

One directory, a clone or a download for a whole behaviour, with its two locks
(`mutex`: `pathLocks` of a daemon; `flock`: the `.lock` file), the git process or
the body being written, upstream, and the commands that fetch, set up, run and stop.
A daemon may exit at any point: its locks are freed, its git goes on.

| Actions | Code |
| --- | --- |
| `Begin`, `LockMutex`, `LockFile`, `LockFileFails`, `Refused`, `NotLocked`, `Return` | `doStart`, `lockPath`, the unlock function |
| `Look`, `StartGit`, `GitSucceeds`, `GitFails`, `GitKilled`, `After`, `NextMethod`, `SubdirMissing` | `GitHub.Fetch`, `refresh`, `clone` |
| `Get`, `GetFails`, `Create`, `Copy`, `CopyFails`, `Verify` | `URL.Fetch`, `writeAndVerify` |
| `Setup`, `Launch`, `Stop`, `Push`, `Exit` | setup steps, launch; upstream; a daemon's death |

The files of the directory are tracked, untracked or ignored: `git clean -fd` takes the
untracked ones away and leaves what git ignores, the `node_modules` of a setup step
among it. `FetchIsCurrent`: a fetch that returns leaves the directory whole, not older
than upstream when it began, matching its checksum, and a clone rid of the untracked
files of earlier setups. Daemons may exit at any point; excepted are only fetches during
which a git process that an exited daemon left behind was at work (`since.alone`), which
holds no lock (`OneWriter`, below). That a refresh leaves "a pristine checkout"
(`PristineCheckout`) fails. A local source has no cache. Fairness is that of the steps
of a fetch, without its refusals before the lock (`NotLocked`): a fetch that waits may
only end by getting the lock, so `FetchesEnd` depends on every path's giving it back. It
is weak, since starts are bounded and no waiter can starve.

## TerminalUI

One action is one `Update` (a key or a message); the goroutines of a reload and of
the shutdown have steps of their own. `Busy` is the RPC connection held by a
reload: keys that need it wait. A snapshot replaces `mirror` behind the UI, its
message comes later. `window` is history: which timers belong to the last first
Ctrl+C.

| Actions | Code |
| --- | --- |
| `FirstCtrlC`, `SecondCtrlC`, `Detach`, `NextPane`, `PreviousPane`, `MoveCursor…`, `Request`, `OtherKey`, `OpenInspector`, `InspectorKey` | `handleKey`, the inspector's keys |
| `StartReload`, `AskReload`, `Reloaded`, `ReloadFails`, `FetchSnapshot`, `SeedMirror`, `ReloadDone` | `c`, `reloadCmd`, `ClientController.Reload`, `reloadDoneMsg` with `reanchorSelection` and `clampCursors` |
| `QuitReset`, `EngineEvent`, `DaemonGone`, `RefreshShutdownLogs`, `ShutdownDone`, `AskShutdown`, `ShutdownEnds`, `Signalled` | messages; `shutdownCmd`, `Shutdown`; `run.go` |

The run has one reload at a time; that the safety properties hold with several at once
is proved (`TerminalUIProofs`). Fairness is that of the one
disjunction `Progress`: some goroutine of a reload or of the shutdown goes on. Users
need not press anything.

## Where the code and its documentation disagree

Each row below is a property of a module, stating what a comment, the
documentation or a test says, and an instance on which TLC finds a behaviour of the
model that violates it. They are no runs of `PROJECT.json`; to see one, check the
`.cfg` named in the table, or the property (as `INVARIANT`, or as `PROPERTY` if it is
temporal) with the constants stated. The passing runs stay inside the scopes where none
of this occurs, or, like `OperationsEnd`, `RunningMeansUp` and `MirrorExplained`, name it
in the property as its only exception.

**`CommandSupervisor`**, on the instance *base* of `MCCommandSupervisor`: `Envs = {e1}`,
`EnvVars <- NoVars`, `Workers = {w1}`, `Operations = {"start", "stop"}`, `Faults =
{"crash"}`, `IsTask`, `HasProbe`, `Adoptable` and `CheckLiveness` `FALSE`,
`RestartEnabled = TRUE`, `MaxRetries = 1`, `MaxOps = 2`, `MaxFaults = 1`, `MaxObjs =
3`, `MaxChans = 30`, `MaxMonitors = 2`, `SPECIFICATION Spec`. Lines are of
`internal/engine`.

| Property | What happens | Where | Instead of *base* |
| --- | --- | --- | --- |
| `KillsEnd` | A relaunch renews `exited` and fails to start the process: the next attempt, like any later restart or stop, waits for ever for the exit of a process that never was, with `restartMu` held (`stop.go:160`: "waits up to GracePeriod for the process to exit, then SIGKILLs it") | `supervisor.go:356`, `stop.go:164` | `FairSpec`, `Operations = {"start"}, Faults = {"crash", "launch"}, MaxRetries = 2, MaxOps = 1, MaxFaults = 2`; `stranded.cfg` |
| `NoOrphan` | A stop between the last look at `userStopped` and the swap of the barrier in `relaunch`: the supervisor then starts a process for a released command (`stop.go:61` says it cannot) | `supervisor.go:692`, 741 | –; `orphan.cfg` |
| `StopCompletes` | A stop between the two halves of `launchProcess` signals the dead process and waits for the new one, for ever | `supervisor.go:356`, `stop.go:166` | `FairSpec`; `missed.cfg` |
| `OneSupervisor` | A restart during the first start notes a nil `monitorDone`, and does not wait for the first supervisor | `stop.go:320` | `Workers = {w1, w2}, Operations = {"start", "restart"}, Faults = {}, MaxFaults = 0`; `two_supervisors.cfg` |
| `StopsOnlyUnheld` | An environment joins after the release decided to stop: its process is killed | `stop.go:50` | `Envs = {e1, e2}, Workers = {w1, w2}, Faults = {}, MaxOps = 3, MaxFaults = 0`; `released.cfg` |
| `StoppedHasNoProcess` | With auto-restart off, a failed liveness check leaves the process running in state `error`; the stop skips the kill | `stop.go:135` | `Faults = {"liveness"}, HasProbe = TRUE, RestartEnabled = FALSE, CheckLiveness = TRUE`; `left_running.cfg` |
| `LaunchAfterExit` | The same state, retried by one of two environments: a second process over the first | `stop.go:262` | `Envs = {e1, e2}, Operations = {"start"}, Faults = {"liveness"}, HasProbe = TRUE, RestartEnabled = FALSE, CheckLiveness = TRUE, MaxOps = 3` |
| `NoOrphan` | A stop while the probe of an adopted command is failing: the takeover starts a process for a released command | `supervisor.go:268` | `Faults = {"liveness"}, HasProbe = TRUE, Adoptable = TRUE` |
| `NoStuckState` | The supervisor publishes `restarting` after the stop reported `stopped`, then exits | `supervisor.go:676` | – |
| `NoOrphan` | A stop overtakes the start of the same environment: stopped, yet holding a running command | `stop.go:24` | `Workers = {w1, w2}, Faults = {}, MaxFaults = 0` |
| `MonitorDoneClosedOnce` | Two supervisors started in a row read the same `monitorDone`: both close it | `supervisor.go:512` | `Workers = {w1, w2}, Operations = {"start", "restart"}, Faults = {}, MaxOps = 3, MaxFaults = 0, MaxChans = 12`; `closed_twice.cfg` |
| `NoStuckState` | A service without a probe that exits during a restart stays `restarting` | `supervisor.go:791` | `Operations = {"start", "restart"}`; `stuck.cfg` |
| `RollupAgrees` | A failed takeover is not rolled up: environments stay `running` | `supervisor.go:290` | `Operations = {"start"}, Faults = {"prepare", "liveness"}, HasProbe = TRUE, Adoptable = TRUE, MaxOps = 1, MaxFaults = 2` |
| `RollupAgrees` | A roll-up that read `healthy` overwrites the later `error` | `state.go:101` | `Operations = {"start"}, RestartEnabled = FALSE, MaxOps = 1` |
| `EnvApplied` | An environment that joins during an automatic relaunch never gets its variables applied | `supervisor.go:1056` | `Envs = {e1, e2}, EnvVars <- OneVar, Operations = {"start"}`; `late_joiner.cfg` |
| `UnmanagedHasNoProcess` | A restart of an adopted command launches a process and keeps the flag | `stop.go:331` | `Operations = {"start", "restart"}, Faults = {}, HasProbe = TRUE, Adoptable = TRUE, MaxFaults = 0`; `adopted.cfg` |
| `TaskUpHasExited` | A goroutine of a replaced struct reports its outcome on the new one | `state.go:11` | `Faults = {"liveness"}, IsTask = TRUE, HasProbe = TRUE, CheckLiveness = TRUE, MaxOps = 3`; `replaced.cfg` |

**The other modules**, starting from the constants of the run named:

| Property | What happens | Where | Instance |
| --- | --- | --- | --- |
| `RetryLeavesHealthyAlone` | A retry restarts a command that became healthy since the look at its state ("running untouched", `supervisor.go:37`) | `stop.go:262` | `workflow`: `Commands = {a}, Workflow <- OneWorkflow, DependsOn <- NoDependency, Interactive = {}, Operations = {"start"}, Faults = {"start"}, MaxOps = 4, MaxFaults = 1`, `Spec`; `retried.cfg` |
| `RunningMeansUpEver` | A command fails between the reading and the writing of a roll-up: `running`, out of date, is written over what its supervisor reported, and stays (`state.go:81`) | `state.go:101` | `workflow`, `MCSpec`; `overtaken.cfg` |
| `StoppedStaysStopped` | An environment is stopped between `isEnvActive` and the writing of a roll-up: it is reported running or degraded again (`state.go:63`: "never resurrect them") | `state.go:49` | `workflow`, `MCSpec`; `resurrected.cfg` |
| `RunningMeansAllUp` | An environment that failed skipped a command which another one runs; what failed is restarted and it becomes `running` (`docs/configuration.md:827`); then the other one stops the command it never held | `state.go:84` | `workflow`: `Interactive = {}, Workers = {w1}, Faults = {}`, `MCSpec` |
| `RunsCurrent` | All environments that hold a changed command are rewired: it is left to their restarts, each of which finds it held by the other, and it keeps its old definition (`docs/configuration.md:68`) | `applyconfig.go:110` | `reload`: `Configs <- BothRewired, MaxReloads = 1, MaxOps = 0, MaxFaults = 0`, `MCSpec` |
| `HeldByUsers` | Plans run in the order in which their goroutines get `applyMu`: an older one brings back what a newer one removed | `applyconfig.go:75` | `reload`: `Races = {"plans"}, MaxOps = 0, MaxFaults = 0`, `MCSpec` |
| `RunsCurrent`, `HeldByUsers` | A client starts or stops an environment while a plan made before is carried out | `applyconfig.go:14` | `reload`: `Races = {"clients"}, MaxReloads = 1, MaxOps = 2, MaxFaults = 0`, `Spec` |
| `NothingMissed` | With room in every channel: a change is announced before the hub takes the subscription, after its key was read | `server.go:236` | `daemon`: `Sessions = {"run"}`, every buffer 9, `InOrder = TRUE, MaxWrites = 3, MaxJobs = 2`, `Spec` |
| `NoEarlyVerdict` | `run` takes the event of an older change for the start it asked for | `client.go:508` | the same |
| `SameDaemon` | A daemon that leaves removes the socket file of its successor: the next client starts a third (`docs/usage.md:25`) | `server.go:440` | `lifecycle`: 3 clients, 3 daemons, `Sessions = {"tui", "shutdown"}, Polls = 2, Faults = {}, MaxFaults = 0`, `Spec`, `SYMMETRY Processes`; 42 steps |
| `ShutdownStopsAll` | A start under way launches its process after the shutdown has collected what to stop (`docs/usage.md:66`) | `stop.go:359` | `lifecycle`: 1 client, 1 daemon, `Spec` |
| `ApprovalUnblocks` | After the approval of an edit that was refused nobody is told that it can be loaded now (`docs/configuration.md:56`) | `reload.go:119` | `config`: `Given <- EditedPairs, Clients = {c1}, MaxEdits = 1, MaxReloads = 0`, `FairSpec` |
| `MergedUnambiguous` | The overlay makes two environments set a variable of a shared command differently; what was merged is not validated ("guarantees the holder union never has a real conflict") | `supervisor.go:996` | `config`, `Spec` |
| `SecretsOverlayLoads` | An overlay that only adds variables, as documented (`docs/configuration.md:111`), is refused, since it is validated alone | `main.go:1186` | `config`, `Spec` |
| `NewestPrinted` | Once the ring is full its length stays, and the tail prints nothing any more (`main.go:75`) | `main.go:141` | `logs` |
| `TailSurvives` | The ring was replaced by a shorter one, or the daemon did not answer: `lines[start:]` panics, and `run` dies in a start-up that would have succeeded ("a final flush in either case", `main.go:81`) | `main.go:141` | `logs`, also with `LogsFail = FALSE` |
| `PristineCheckout` | A refresh keeps what git ignores, and nested repositories, of the setup of an earlier version (`github.go:200`: "so the run dir is a pristine checkout"; `docs/configuration.md:214` has `yarn install` as a setup) | `github.go:211` | `source`, `Spec` |
| `LaunchesWhatItSetUp` | The refresh for one command resets and cleans the clone between the set-up and the launch of another (`docs/configuration.md:364`) | `github.go:208` | `source`: `MaxFaults = 0`, `Spec` |
| `OneWriter` | The git process of a daemon that exited works on without the lock | `github.go:166` | `source`, `Spec` |
| `ConfirmationLasts` | The timer of an earlier first Ctrl+C withdraws the confirmation of a later one (`docs/usage.md:88`) | `model.go:389` | `tui`, `Spec` |
| `SelectionIsShown` | A reload replaces the mirror before the UI hears of it: a key in between acts on another row than the one on the screen | `client.go:393` | `tui`, `Spec` |
| `PanelSurvives` | The shutdown screen slices the logs of its commands as the tail does, and panics like it | `model.go:1568` | `tui`, `Spec` |

Met while reading, not properties of a module: `Shutdown` over RPC has no deadline,
and `stop` from the command line has no timeout; a SIGTERM also cancels the context of
the teardown it triggers, which then kills at once (`main.go:415`, against the
"graceful shutdown" of `docs/configuration.md:856`); between
`NotifyContext` and `signal.Notify` a daemon is deaf to signals; the command
`shutdown` returns before the daemon is gone; a workflow that names a command twice
is accepted (`validate.go:93`) and closes its `readyCh` twice (`supervisor.go:102`);
`NotApprovedError` loses its type on its way over RPC; two `allow` at once can lose
one approval; a second `c` overwrites the anchor of the first; the inspector swallows
Ctrl+C; a download that fails its checksum has already removed the verified file;
a killed clone leaves a directory behind that later starts take for a clone; a save
between the reading of the base and that of the overlay can make a pair run that was
never on disk together, each file of it having passed or followed its own check.

## Proofs

All are for **every** value of the constants that satisfies the module's named
assumption. Four theorems of `CommandSupervisorProofs` have further hypotheses on
behaviours and two on constants, given below; the others have none. Each has the shape
`Init => IInv`, `IInv /\ [Next]_vars => IInv'`, combined with PTL, with one lemma per
action; each `IInv` was checked by TLC on the instance of its run first.

**`CommandSupervisorProofs`** (`ConstantsOK`: variables typed, bounds natural,
workers no numbers): `TypeCorrect`, `LockDiscipline` (`restartMu` of a struct is
held by a goroutine if and only if that goroutine drives an episode of that
struct), `SingleEpisode` (the claim of the comment on `restartMu` in `engine.go`).
The invariant is `IndInv == Typed /\ ControlInv /\ LockInv`. `LockInv` alone is not
inductive: an action such as `Settle` goes where `loc.ret` says, and `Kill` where
`loc.after` says; whether the goroutine is still inside its episode afterwards
depends on which continuations are possible there. `ControlInv` (one predicate
`Flow(t)` per goroutine) states them: workers and monitors keep to their labels, an
episode's continuation leads to a label of the episode, and the unlocking labels
are reached only from inside. It also says that a goroutine past its first lookup
points to an allocated struct, without which an update of "its" struct would say
nothing of the lock, and that pointers stay at most `nobj`, without which the
struct written by `AcquireNew` could be one whose lock is held.

`ChannelsSound` goes on from there, with no hypothesis: `Spec => []Sound`, where `Sound
== IndInv /\ ChannelInv`. `OnePurpose` says that there is a way to name one purpose and one
struct for every channel made so far which all fields, notes of goroutines and processes
agree with. It is what excludes that closing *this* quit, barrier or exited channel
closes that one too. `ExitsFit` keeps the two halves of `launchProcess` together: a
struct's exited channel is closed, or names a running process, only if it is that of its
last process.

The other properties of a command the code does not guarantee in every behaviour (the
[table](#where-the-code-and-its-documentation-disagree) shows how each breaks). Their
theorems say that nothing else breaks them: each excludes, as a state predicate that
always holds or a constant, the situations the table shows and no more.

| Theorem | Property | As long as |
| --- | --- | --- |
| `BarriersCloseOnce` | `BarrierClosedOnce` | `NoRetryInPlace` |
| `LaunchesAfterExit` | `LaunchAfterExit` | `NoRetryInPlace`, `~Adoptable` |
| `AdoptedHasNoProcess` | `UnmanagedHasNoProcess` | `NoUserRestart` |
| `TasksUpHaveExited` | `TaskUpHasExited` | `NoRetryInPlace`, `NoLateEpisode` |

`NoRetryInPlace`: no `StartEnvironment` is at the restart of a failed command that
another environment holds (`resetForRetry`). Such a retry waits for `restartMu` without
having waited for anything else, so that it may get ahead of the first start of a struct
that a goroutine of an older one marked failed, and launches over a process that is only
reported failed. Any number of clients, stops, joins, restarts, shutdowns and automatic
retries remain. It always holds with one environment, which is proved:
`OneEnvironmentSound` has hypotheses on constants only. That there is one supervisor,
and that `monitorDone` is closed once, is proved for one client only (`OneClientSound`:
one worker, one environment, `~Adoptable`): a restart that overlaps a first start or
another restart is exactly what breaks both (`two_supervisors.cfg`, `closed_twice.cfg`),
and the theorem says that with operations that follow one another nothing else does. It
rests on lemmas about any number of workers of which no two restart or first start a
struct at a time (`TakeTurns`). `NoUserRestart`: nobody restarts the command by hand, as
in `external`, whose only environment starts and stops a command without variables.
`NoLateEpisode`: no goroutine drives an episode of a struct that has been replaced.
`~Adoptable`: no process outside the engine answers the probe; otherwise a goroutine
that is about to take over an adopted command may do so after a restart of it by hand,
and launch over the process of that restart.

The invariants, in the order in which they rest on one another. `StartInv`: before
`startCommand` takes the lock nobody may drive an episode of the new struct, so whoever
points to it waits for its barrier or is on the way to that wait (`FirstStart`,
`Bystanding`), and the barrier of every episode that is to close one is open
(`BarrierOpen`); `Settle` is the only step that closes it, and it belongs to the
episode's owner. `LaunchInv`: from the wait for the last process on, no process of the
struct runs (`BeforeLaunch`), and a goroutine that waits waits for the channel of the
process that runs, not for one of an earlier launch. `SupervisorInv`: a struct has one
monitor, whose `done` is the struct's open `monitorDone` (`MonitorsNoted`), and a worker
from its wait for that channel to the `startMonitor` it ends with is alone
(`UnwatchedAlone`). `FlagInv`: a flagged struct has no process, and no goroutine that
will launch or watch one finds the flag (`Managed`); before that, a struct that may
still be adopted has neither process nor monitor (`AdoptsNew`). `TaskInv`: a goroutine
that has seen the task exit with code 0 and has not reported it yet is still right when
it does (`SeenDone`), which needs that nobody launches the task in between, and a task
that is being run again is not up (`Rerunning`), which needs that nobody else reports it
up. `NoLateEpisode` is there for the last, since `setCmdState` writes what the name
stands for *now*.

**`LogRingProofs`** (`RingAssumption`: a capacity of at least one; writers, rings and
bytes are arbitrary sets): `LinesAreKept` (lines are never torn, and no text a writer
was given is lost before the ring forgets it), `TailIsFaithful` (the tail prints in
order, without gap or repetition within a ring), and `RingIsBoundedLog`, the refinement
`Spec => KeepsNewest`, where `KeepsNewest` is `BoundedLog`'s `Spec` with `log <-
Lines(ring)`: initial states map to initial states, each step to an append, a forgetting
or a stutter. `IInv` says where each line came from (`GivenByPlace`, `LinesPast`), that
what is pending is the end of what was given (`PendingIsEnd`, `Flushed`), that slots in
use hold whole lines in order (`SlotsWhole`, `RingInOrder`, `PassedInRing`) and that
what the tail has not seen is later than what it printed (`UnseenIsLater`).

**`EnvironmentRunProofs`** (`WorkflowsOK`: at least one environment and one command;
no workflow names a command twice and dependencies have no cycle, which is what
validation guarantees): `LoginsAreApart`,
`RunningIsUp`, `DependenciesComeFirst`. `OneLogin` needs `GateHeld` (a launched
interactive command *has* the gate, not merely that one has). For `DependenciesFirst`
it must be known that a step that ended up was seen up in the run it belongs to
(`SeenUp`), and so that a worker's run, retries and stop do not share steps
(`WorkerControl`). `RunningMeansUp` speaks of rest only, so
that its invariant must say who will still report what is not at rest: `Reported` lists,
for each command that an environment reported running holds, the goroutine that owes the
roll-up (a start, a restart, the automatic cycle, or a roll-up that has the environment
still to come). Every roll-up has its three sections, with any step of anyone between
them; whenever the state that is written is no longer that of the commands the
environment is `overtaken`, and only then is it excused.

**`DaemonLifecycleProofs`** (`LifecycleConstants`: finitely many processes, `Nobody`
none of them, a poll is made at least once): `OneDaemonAtWork`, `OnlyLeaversRob`,
`NothingEarlyLeft`, for any number of clients and daemons that are killed or signalled
at any point. `OneDaemon` follows from the lock file by this argument: call a daemon
that is at work, was not abandoned by its spawner and did not lose its socket file
*blameless*. Whoever holds the lock knows all of them (`LockTells`): nobody before it
spawns, afterwards only the one it spawned; one that serves has the path
(`ServerHasPath`), so that the second dial would have found it; one on its way up has a
spawner that still waits under the lock (`SpawnerWaits`). `NothingLeft` needs what each
phase of a shutdown still has to stop (`LeftIsLate`).

**`EventMirrorProofs`** (`MirrorConstants`: every channel has room for at least one, all
else is arbitrary): `MirrorIsExplained` for any sizes, any number of clients and any
order of announcements. `MirrorExplained` only says that the newest change is somewhere
on its way, which no step preserves: an older event behind it would undo it.
`CatchesUp(c, k)` says instead that the *last* event of `k` between the engine and `c`
is the newest change, or that none is on its way and what `c` holds is newest, where a
client that is still connecting holds the keys of the snapshot being read, or the
snapshot in its socket. It depends on the order on the socket (`SnapshotFirst`), on the
hub's knowing every client that streams, or a command on its way to tell it (`HubKnows`,
and `Unheard` for those before), on numbers that name their key (`NumbersUnique`: which
event the job that emits was the newest of), and on a snapshot that has read nothing
newer than the engine (`SnapshotsRead`), without which a reload could not be told to
have overwritten something. The type theorem includes the capacity of every channel.

**`ConfigGateProofs`** (`GateConstants`: `None` is no thread, `NoOverlay` no text):
`OnlyApprovedRuns`, and `SingleFileValidated` (with no overlay what the engine runs
passed `Validate` as a whole, which the two files merged need not). The invariant
follows each file along its own hash and its own reading: what has passed its hash is as
the store of this load approved it, or was saved since (`Checked`), whoever saves and
approves between any two of these steps; a base that was read remembers that store
(`Vouched`), and what a thread carries to the engine is the merge of two texts vouched
for by the same one (`CarriesSound`).

**`TerminalUIProofs`** (`TerminalConstants`: topologies are sequences of environments
with names, an empty one included): `UpdatesAreSound`, `QuitsAreConfirmed`,
`SelectionIsKept`, for any topologies and any number of reloads under way. A pending
confirmation implies a running timer (`ConfirmingInWindow`), and a reload that began
alone is the one whose anchor the UI holds (`AnchorHolds`). Lemmas say what
`reanchorSelection` and `clampCursors` return for any lists.

**`SourceCacheProofs`** (`CacheAssumption`): `TypeCorrect`, `FetchesExclude` (one
fetch at a time over all daemons, whichever of them dies when: the two locks
together), and `FetchDelivers` (what a fetch returns is whole, no older than
upstream was when it began, matching its checksum, and rid of untracked files of earlier
setups, unless a git process without a lock was at work meanwhile). `IInv` ties both
locks to the step of their holder (`HolderIsInside`, `GoneIsDown`), the git process
to the step it serves (`GitAtItsStep`, `StepsOfKind`), and the directory to the
progress of the fetch (`FileIsThere`, `WorkIsOld`, `FetchesReach`).

Only model-checked, and why:

- liveness (`OperationsEnd`, `PlansEnd`, `WaitsEnd`, `ControllerSettles`, `FetchesEnd`,
  `TasksEnd`, `ShutdownSeen`) needs fairness and `ENABLED`, out of the prover's reach;
- `RunsOnlyHeld`, `EnvApplied`, `NoStuckState`, `RollupAgrees` and the half
  `HealthyIsWatched` of `Watched` speak of rest: their invariant must say, for each
  thing that is not yet as it should be, which goroutine will still see to it, over all
  episodes at once. They are false in general, hold in the scopes of their runs, and are
  not proved there;
- what `Waves`, `Merge` and `Validate` compute is defined by recursion over data (as
  recursive functions and folds), for which the provers have no induction; `reload` and
  `config` compare them with independent definitions (`Touched`, `Startable`,
  `Unambiguous`);
- `EngineSound` says what `Validate` and `Merge` guarantee of the graph and the
  variables, which the depth-first search of `DetectCycle` and the folds of `Merge`
  decide: induction over data again. `RunsApproved` and `EngineValidated` are the part
  of it that does not depend on what those functions compute;
- `Applied`, `UntouchedStays` and `RestartsInOrder` of `ConfigReload` rest on what
  `Waves` computes.

## Not modelled

- *Inside an action of these models:* the teardown script (it runs inside
  `stopCommand` and `teardownForRestart`, and changes no state of the engine); the
  critical sections inside `restartCommandWithNewConfig` (a restart of the plan is
  one action of `ConfigReload`, so that its races with other episodes of the same
  command are those of a restart in `CommandSupervisor` only); time, except that a
  timer may fire at any moment; a workflow that names a command twice; a signal that
  is lost, or a process that survives SIGKILL.
- *Readiness probes* (`internal/engine/probe`, `internal/httpx`): a probe succeeds,
  fails or times out at any moment; what it does is I/O.
- *Process groups, peer credentials, umask, owner-only directories*: system calls
  without state of their own.
- *The wire format* of the daemon, where messages are what the code encodes; log
  files and their purge; terminal rendering, links, file opening.
- *Command line*, beyond `run`, `stop`, `shutdown`, `allow` and the spawn: linear
  scripts over the same RPCs. *Self-update*: one download and one rename, without a
  second actor. *Shell completion*: generated text.

## What is left

In the order of their worth: the sections inside a reload's restart, composed with
`CommandSupervisor`; proofs of what `CommandSupervisor` guarantees at rest, in the
scopes of its runs, and of the parts of `Applied` that do not need the order of the
waves; a composition of `EventMirror` with the reload controller, whose snapshots it
takes as given; the races of `LogRing`'s file against a purge.
