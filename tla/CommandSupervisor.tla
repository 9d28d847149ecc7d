------------------------- MODULE CommandSupervisor -------------------------
(***************************************************************************)
(* The life of ONE globally shared command inside the engine               *)
(* (internal/engine: supervisor.go, stop.go, state.go).                    *)
(*                                                                         *)
(* Several environments may hold the command.  Every public operation runs *)
(* in a goroutine of its own (a worker), every launched service or probed  *)
(* task is watched by a supervisor goroutine (a monitor), and the operating*)
(* system lets processes exit.  All of them meet in the command struct,    *)
(* under two locks: Engine.mu, held for one critical section at a time --  *)
(* one action below is one such section, or the wait between two of them --*)
(* and command.restartMu, held for a whole start or restart episode.       *)
(*                                                                         *)
(* Channels are numbers: make(chan) takes the next one, close(ch) adds it  *)
(* to closed.  A launched process is named by the number of its exited     *)
(* channel.  acquireAndStart may replace the command struct while other    *)
(* goroutines still hold a pointer to the old one, so structs live on a    *)
(* heap (commands) and cur is what e.commands[name] points to.             *)
(***************************************************************************)
EXTENDS Integers, FiniteSets

CONSTANTS
  Envs,            \* environments whose workflow is this one command
  Vars,            \* environment variables
  EnvVars,         \* EnvVars[e]: the variables environment e declares
  Workers,         \* goroutines that serve public operations
  Operations,      \* the operations the clients use
  Faults,          \* the faults the world may show
  IsTask,          \* cfg.Type = "task"
  HasProbe,        \* cfg.Readiness is set
  Adoptable,       \* an external process may already satisfy the probe
  RestartEnabled,  \* policy.enabled
  MaxRetries,      \* policy.maxRetries
  CheckLiveness,   \* policy.checkInterval > 0
  \* Bounds of the model.
  MaxOps,          \* public operations in a behaviour
  MaxFaults,       \* faults in a behaviour
  MaxObjs,         \* command structs on the heap
  MaxChans,        \* channels made before an automatic restart episode
  MaxMonitors      \* supervisor goroutines alive at once

Monitors == 1 .. MaxMonitors
Threads  == Workers \cup Monitors
Objs     == 1 .. MaxObjs
NoThread == 0
NoObj    == 0
NilChan  == 0      \* a nil channel: a receive on it blocks for ever

AllOperations == {"start", "stop", "restart", "shutdown"}
AllFaults     == {"crash", "prepare", "launch", "probe", "liveness", "deadline"}

CmdStates == {"pending", "starting", "healthy", "done", "stopping", "error",
              "timeout", "stopped", "restarting"}
EnvStates == {"stopped", "starting", "running", "degraded", "stopping", "error"}

ASSUME ConstantsOK ==
  /\ EnvVars \in [Envs -> SUBSET Vars]
  /\ IsFiniteSet(Envs)
  /\ Workers \cap Nat = {}
  /\ Operations \subseteq AllOperations
  /\ Faults \subseteq AllFaults
  /\ {IsTask, HasProbe, Adoptable, RestartEnabled, CheckLiveness} \subseteq BOOLEAN
  /\ {MaxRetries, MaxOps, MaxFaults, MaxObjs, MaxChans, MaxMonitors} \subseteq Nat
  /\ Adoptable => HasProbe             \* checkUnmanaged needs a probe
  /\ CheckLiveness => HasProbe         \* resolveRestart zeroes checkInterval
  /\ IsTask /\ RestartEnabled => HasProbe  \* rejected by config validation

VARIABLES
  commands,   \* heap of command structs
  nobj,       \* structs allocated so far
  cur,        \* e.commands[name], NoObj when absent
  envState,   \* e.envState
  pc,         \* where each goroutine is
  loc,        \* its local variables
  fresh,      \* channels made so far
  closed,     \* channels closed so far
  alive,      \* processes running
  signalled,  \* processes sent SIGINT (and, after GracePeriod, SIGKILL)
  badExit,    \* processes whose exit error is not nil
  ops, faults \* operations and faults so far

heap  == <<commands, nobj, cur>>
procs == <<alive, signalled, badExit>>
chans == <<fresh, closed>>
vars  == <<commands, nobj, cur, envState, pc, loc, fresh, closed, alive,
           signalled, badExit, ops, faults>>

\* Labels a worker alone, a monitor alone, or either can be at.
WorkerLabels ==
  {"markStarting", "resetForRetry", "acquire", "joinWait", "envCheck", "envRead",
   "envCompare", "start", "checkUnmanaged", "adopt", "watchUnmanaged", "restartInPlace",
   "markRestarting", "cancel", "cancelWait", "restartLock", "restartBegin",
   "relaunched", "unlock", "finishRun", "release", "cancelStop", "stampStop",
   "markStopping", "stopBarrier", "stopWait", "stop", "stopped", "envStopped",
   "shutdownStop", "shutdownEnd"}
MonitorLabels ==
  {"monitorBegin", "snapshot", "supervise", "giveUp", "monitorExit",
   "attemptRestart", "retry", "backoff", "retried", "retryResume", "retryExit",
   "unmanagedBegin", "unmanaged", "takeOver", "takeOverStart"}
SharedLabels ==
  {"idle", "prepare", "launchEnv", "launch", "spawn", "awaitReady",
   "awaitTask", "probeTask", "startMonitor", "kill", "awaitExit", "settle", "started",
   "relaunch", "rollup", "rollupRead", "rollupWrite"}
Labels == WorkerLabels \cup MonitorLabels \cup SharedLabels

Command ==
  [state : CmdStates, unmanaged : BOOLEAN, holders : SUBSET Envs,
   retries : Nat, userStopped : BOOLEAN, quit : Nat, stopping : BOOLEAN,
   cmd : Nat, exited : Nat, startDone : Nat, monitorDone : Nat,
   restartMu : Threads \cup {NoThread},
   appliedEnv : SUBSET Vars]

\* Continuations: ret when the start barrier closes, after when a kill (or
\* startMonitor) is over, then when a rollup is over, cont when the operation's
\* current part is over.  env is the operation's environment, {} when none.
Locals ==
  [obj : Objs \cup {NoObj}, env : SUBSET Envs, ret : Labels, after : Labels,
   then : Labels, cont : Labels, chan : Nat, done : Nat, exited : Nat,
   quit : Nat, ok : BOOLEAN, todo : SUBSET Envs, roll : SUBSET Envs,
   sum : EnvStates, eff : SUBSET Vars]

Blank == [obj |-> NoObj, env |-> {}, ret |-> "idle", after |-> "idle",
          then |-> "idle", cont |-> "idle", chan |-> NilChan, done |-> NilChan,
          exited |-> NilChan, quit |-> NilChan, ok |-> FALSE, todo |-> {},
          roll |-> {}, sum |-> "stopped", eff |-> {}]

\* &command{...} of acquireAndStart, with its two fresh channels.
NewCommand(startDone, exited) ==
  [state |-> "pending", unmanaged |-> FALSE, holders |-> {}, retries |-> 0,
   userStopped |-> FALSE, quit |-> NilChan, stopping |-> FALSE,
   cmd |-> NilChan, exited |-> exited, startDone |-> startDone,
   monitorDone |-> NilChan, restartMu |-> NoThread, appliedEnv |-> {}]

Init ==
  /\ commands = [o \in Objs |-> NewCommand(NilChan, NilChan)]
  /\ nobj = 0 /\ cur = NoObj
  /\ envState = [e \in Envs |-> "stopped"]
  /\ pc = [t \in Threads |-> "idle"]
  /\ loc = [t \in Threads |-> Blank]
  /\ fresh = 0 /\ closed = {}
  /\ alive = {} /\ signalled = {} /\ badExit = {}
  /\ ops = 0 /\ faults = 0

-----------------------------------------------------------------------------
(* Helpers.                                                                *)

C(t) == commands[loc[t].obj]      \* the struct goroutine t has a pointer to

\* Two mistakes (see "Plausible mistakes" below): restartMu is not taken
\* (OneEpisode, LockInv), and the supervisor is not cancelled (OperationsEnd).
NeverBlocked(t) == TRUE
LeaveQuitOpen(o) == closed

\* c.restartMu.Lock() does not block.
Lockable(t) == C(t).restartMu = NoThread

Goto(t, label) == pc' = [pc EXCEPT ![t] = label]

\* Back to the caller; an operation that is over forgets its local variables.
Continue(t, label) ==
  /\ Goto(t, label)
  /\ loc' = IF label = "idle" THEN [loc EXCEPT ![t] = Blank] ELSE loc

\* setCmdState looks the command up by NAME: it writes the struct in the map.
WithCmdState(cs, s) == IF cur = NoObj THEN cs ELSE [cs EXCEPT ![cur].state = s]

IsHealthy == cur # NoObj /\ commands[cur].state \in {"healthy", "done"}

\* effectiveEnv: what the current holders declare (validation leaves no clash).
EffectiveEnv(o) == UNION {EnvVars[e] : e \in commands[o].holders}

\* quitOnce.Do(close(c.quit)), when c.quit is not nil.
CloseQuit(o) == closed \cup ({commands[o].quit} \ {NilChan})

\* One more goroutine: the first free monitor, at label.
Spawn(t, here, label) ==
  \E m \in Monitors :
    /\ pc[m] = "idle" /\ \A n \in Monitors : n < m => pc[n] # "idle"
    /\ pc' = [pc EXCEPT ![t] = here, ![m] = label]
    /\ loc' = [loc EXCEPT ![m] = [Blank EXCEPT !.obj = loc[t].obj]]

Fault(kind) == kind \in Faults /\ faults < MaxFaults /\ faults' = faults + 1

\* A worker takes the next public operation.
Begin(w, operation) ==
  /\ pc[w] = "idle"
  /\ operation \in Operations /\ ops < MaxOps
  /\ ops' = ops + 1
  /\ UNCHANGED <<alive, signalled, badExit, faults, nobj, cur, fresh>>

\* A fresh start (startCommand, takeOverUnmanaged) as opposed to a relaunch.
IsFreshStart(t) == loc[t].ret = "started"

-----------------------------------------------------------------------------
(* Plausible mistakes: each is a definition of the model as a bug of that   *)
(* code would have it.  No behaviour of Spec uses them; replacing the       *)
(* original by one of them violates the property named in its comment.      *)

\* restartCommandInPlace without restartMu (BarrierClosedOnce).
RestartUnserialized(w) ==
  /\ pc[w] = "restartLock"
  /\ commands' = [commands EXCEPT ![loc[w].obj].restartMu = w,
                                  ![loc[w].obj].userStopped = FALSE,
                                  ![loc[w].obj].quit = NilChan,
                                  ![loc[w].obj].retries = 0]
  /\ Goto(w, "restartBegin")
  /\ UNCHANGED <<loc, nobj, cur, envState, procs, chans, ops, faults>>

\* attemptRestart starts a monitor, as restartInPlace does (OneSupervisor).
RetriedAndMonitored(m) ==
  /\ pc[m] = "retried" /\ loc[m].ok
  /\ commands' = WithCmdState([commands EXCEPT ![loc[m].obj].retries = 0], "healthy")
  /\ loc' = [loc EXCEPT ![m].todo = Envs, ![m].then = "retryResume",
                        ![m].after = "rollup"]
  /\ Goto(m, "startMonitor")
  /\ UNCHANGED <<nobj, cur, envState, procs, chans, ops, faults>>

\* attemptRestart returns false on success (HealthyIsWatched).
RetriedAndGone(m) ==
  /\ pc[m] = "retried" /\ loc[m].ok
  /\ commands' = WithCmdState([commands EXCEPT ![loc[m].obj].retries = 0], "healthy")
  /\ loc' = [loc EXCEPT ![m].todo = Envs, ![m].then = "retryExit"]
  /\ Goto(m, "rollup")
  /\ UNCHANGED <<nobj, cur, envState, procs, chans, ops, faults>>

\* killAndWait does not wait (LaunchAfterExit).
KillAndGo(t) ==
  /\ pc[t] = "kill"
  /\ signalled' = signalled \cup ({C(t).cmd} \cap alive)
  /\ Goto(t, loc[t].after)
  /\ UNCHANGED <<heap, loc, envState, chans, alive, badExit, ops, faults>>

\* A spawn that fails is only reported by a fresh start (NoStuckState).
SpawnFailsUnreported(t) ==
  /\ pc[t] = "spawn" /\ Fault("launch")
  /\ commands' = IF IsFreshStart(t) THEN WithCmdState(commands, "error") ELSE commands
  /\ loc' = [loc EXCEPT ![t].ok = FALSE]
  /\ Goto(t, "settle")
  /\ UNCHANGED <<nobj, cur, envState, chans, procs, ops>>

\* The exit code of a task is not looked at (TaskUpHasExited).
TaskExitsUnchecked(t) ==
  /\ pc[t] = "awaitTask" /\ C(t).exited \in closed
  /\ loc' = [loc EXCEPT ![t].ok = ~HasProbe]
  /\ Goto(t, IF HasProbe THEN "probeTask" ELSE "settle")
  /\ UNCHANGED <<heap, envState, procs, chans, ops, faults>>

\* The flag of an adopted command survives the takeover (UnmanagedHasNoProcess).
TakeOverFlagged(m) ==
  /\ pc[m] = "takeOver" /\ Lockable(m)
  /\ fresh' = fresh + 1
  /\ commands' = [commands EXCEPT ![loc[m].obj].restartMu = m,
                                  ![loc[m].obj].startDone = fresh']
  /\ loc' = [loc EXCEPT ![m].ret = "started"]
  /\ Goto(m, "takeOverStart")
  /\ UNCHANGED <<nobj, cur, envState, closed, procs, ops, faults>>

\* Only variables that are missing restart the command (EnvApplied).
EnvCompareMissing(w) ==
  /\ pc[w] = "envCompare"
  /\ IF loc[w].eff \subseteq C(w).appliedEnv
     THEN Continue(w, loc[w].cont) ELSE Goto(w, "cancel") /\ loc' = loc
  /\ UNCHANGED <<heap, procs, chans, envState, ops, faults>>

\* The other holders are told of the outcome no more (RollupAgrees).
RelaunchedSilently(w) ==
  /\ pc[w] = "relaunched"
  /\ loc' = [loc EXCEPT ![w].todo = {}, ![w].then = "unlock", ![w].after = "rollup"]
  /\ IF loc[w].ok
     THEN commands' = WithCmdState(commands, "healthy") /\ Goto(w, "startMonitor")
     ELSE UNCHANGED commands /\ Goto(w, "rollup")
  /\ UNCHANGED <<nobj, cur, envState, procs, chans, ops, faults>>

\* The holders are counted before the release (NoOrphan).
ReleaseCountedBefore(w) ==
  /\ pc[w] = "release"
  /\ IF cur = NoObj
     THEN Continue(w, loc[w].cont) /\ UNCHANGED commands
     ELSE /\ commands' = [commands EXCEPT ![cur].holders = @ \ loc[w].env]
          /\ loc' = [loc EXCEPT ![w].obj = cur]
          /\ Goto(w, IF commands[cur].holders = {} THEN "cancelStop" ELSE "envCheck")
  /\ UNCHANGED <<nobj, cur, envState, procs, chans, ops, faults>>

\* Only a command that is still reported healthy is terminated
\* (StoppedHasNoProcess, and NoOrphan after a shutdown).
StopIfHealthy(w) ==
  /\ pc[w] = "stop"
  /\ Goto(w, IF C(w).cmd # NilChan /\ C(w).state = "healthy" THEN "kill" ELSE "stopped")
  /\ loc' = [loc EXCEPT ![w].after = "stopped"]
  /\ UNCHANGED <<heap, envState, chans, procs, ops, faults>>

-----------------------------------------------------------------------------
(* StartEnvironment, resetForRetry, acquireAndStart.                       *)

StartEnvironment(w, e) ==
  /\ Begin(w, "start")
  /\ loc' = [loc EXCEPT ![w] =
       [Blank EXCEPT !.env = {e},
                     !.cont = IF envState[e] \in {"error", "degraded"}
                              THEN "resetForRetry" ELSE "acquire"]]
  /\ Goto(w, "markStarting")
  /\ UNCHANGED <<commands, closed, envState>>

MarkStarting(w) ==
  /\ pc[w] = "markStarting"
  /\ envState' = [e \in Envs |-> IF e \in loc[w].env THEN "starting" ELSE envState[e]]
  /\ Goto(w, loc[w].cont)
  /\ UNCHANGED <<heap, loc, procs, chans, ops, faults>>

ResetForRetry(w) ==
  /\ pc[w] = "resetForRetry"
  /\ LET failed == cur # NoObj /\
                   commands[cur].state \in {"error", "timeout", "stopped"}
         label  == IF ~failed THEN "acquire"
                   ELSE IF Cardinality(commands[cur].holders) <= 1
                   THEN "release" ELSE "restartInPlace"
     IN  /\ Goto(w, label)
         /\ loc' = [loc EXCEPT ![w].obj = cur, ![w].cont = "acquire"]
  /\ UNCHANGED <<heap, procs, chans, envState, ops, faults>>

\* A struct without holders in a terminal state is replaced, not reused.
NeedsNewCommand ==
  cur # NoObj => /\ commands[cur].holders = {}
                 /\ commands[cur].state \in {"stopped", "error", "timeout", "done"}

AcquireNew(w) ==
  /\ pc[w] = "acquire" /\ NeedsNewCommand
  /\ nobj < MaxObjs
  /\ LET o == nobj + 1
     IN  /\ commands' = [commands EXCEPT ![o] =
              [NewCommand(fresh + 1, fresh + 2) EXCEPT !.holders = loc[w].env]]
         /\ nobj' = o /\ cur' = o
         /\ fresh' = fresh + 2
         /\ loc' = [loc EXCEPT ![w].obj = o, ![w].ret = "started"]
  /\ Goto(w, "start")
  /\ UNCHANGED <<envState, closed, procs, ops, faults>>

AcquireJoin(w) ==
  /\ pc[w] = "acquire" /\ ~NeedsNewCommand
  /\ commands' = [commands EXCEPT ![cur].holders = @ \cup loc[w].env]
  /\ loc' = [loc EXCEPT ![w].obj = cur, ![w].chan = commands[cur].startDone]
  /\ Goto(w, "joinWait")
  /\ UNCHANGED <<nobj, cur, envState, chans, procs, ops, faults>>

JoinWait(w) ==
  /\ pc[w] = "joinWait" /\ loc[w].chan \in closed
  /\ Goto(w, "envCheck")
  /\ loc' = [loc EXCEPT ![w].cont = "finishRun"]
  /\ UNCHANGED <<heap, procs, chans, envState, ops, faults>>

\* maybeRestartForEnvChange.
EnvCheck(w) ==
  /\ pc[w] = "envCheck"
  /\ IF IsHealthy THEN Goto(w, "envRead") /\ loc' = loc
                  ELSE Continue(w, loc[w].cont)
  /\ UNCHANGED <<heap, procs, chans, envState, ops, faults>>

EnvRead(w) ==
  /\ pc[w] = "envRead"
  /\ loc' = [loc EXCEPT ![w].eff = EffectiveEnv(loc[w].obj)]
  /\ Goto(w, "envCompare")
  /\ UNCHANGED <<heap, envState, procs, chans, ops, faults>>

\* The variables read before against what the process was launched with.
EnvCompare(w) ==
  /\ pc[w] = "envCompare"
  /\ IF C(w).appliedEnv = loc[w].eff
     THEN Continue(w, loc[w].cont) ELSE Goto(w, "cancel") /\ loc' = loc
  /\ UNCHANGED <<heap, procs, chans, envState, ops, faults>>

-----------------------------------------------------------------------------
(* A fresh start: startCommand, checkUnmanaged, doStart, launchProcess.    *)

StartCommand(w) ==
  /\ pc[w] = "start" /\ Lockable(w)
  /\ commands' = WithCmdState([commands EXCEPT ![loc[w].obj].restartMu = w],
                              "starting")
  /\ Goto(w, IF HasProbe THEN "checkUnmanaged" ELSE "prepare")
  /\ UNCHANGED <<loc, nobj, cur, envState, procs, chans, ops, faults>>

\* The probe passes before anything is spawned, or it does not.
CheckUnmanaged(w) ==
  /\ pc[w] = "checkUnmanaged"
  /\ \/ /\ Adoptable
        /\ commands' = [commands EXCEPT ![loc[w].obj].unmanaged = TRUE]
        /\ Goto(w, "adopt")
     \/ Goto(w, "prepare") /\ UNCHANGED commands
  /\ UNCHANGED <<loc, nobj, cur, envState, procs, chans, ops, faults>>

Adopt(w) ==
  /\ pc[w] = "adopt"
  /\ commands' = WithCmdState(commands, "healthy")
  /\ Goto(w, "watchUnmanaged")
  /\ UNCHANGED <<loc, nobj, cur, envState, procs, chans, ops, faults>>

\* startUnmanagedMonitor: c.quit is made lazily and no monitorDone is made.
WatchUnmanaged(w) ==
  /\ pc[w] = "watchUnmanaged"
  /\ IF C(w).quit = NilChan
     THEN /\ fresh' = fresh + 1
          /\ commands' = [commands EXCEPT ![loc[w].obj].quit = fresh']
     ELSE UNCHANGED <<commands, fresh>>
  /\ Spawn(w, "settle", "unmanagedBegin")
  /\ UNCHANGED <<nobj, cur, envState, closed, procs, ops, faults>>

\* fetchSource and runSetup.
Prepare(t) ==
  /\ pc[t] = "prepare"
  /\ Goto(t, "launchEnv")
  /\ UNCHANGED <<heap, loc, envState, procs, chans, ops, faults>>

PrepareFails(t) ==
  /\ pc[t] = "prepare" /\ Fault("prepare")
  /\ commands' = WithCmdState(commands, "error")
  /\ Goto(t, "settle")
  /\ UNCHANGED <<loc, nobj, cur, envState, procs, chans, ops>>

\* launchProcess computes the variables first.
LaunchEnv(t) ==
  /\ pc[t] = "launchEnv"
  /\ loc' = [loc EXCEPT ![t].eff = EffectiveEnv(loc[t].obj)]
  /\ Goto(t, "launch")
  /\ UNCHANGED <<heap, envState, procs, chans, ops, faults>>

\* It makes a fresh exited channel whether or not the process starts; c.cmd
\* changes only when it does, in a later critical section.
Launch(t) ==
  /\ pc[t] = "launch"
  /\ fresh' = fresh + 1
  /\ commands' = [commands EXCEPT ![loc[t].obj].exited = fresh',
                                  ![loc[t].obj].appliedEnv = loc[t].eff]
  /\ Goto(t, "spawn")
  /\ UNCHANGED <<loc, nobj, cur, envState, closed, procs, ops, faults>>

SpawnProcess(t) ==
  /\ pc[t] = "spawn"
  /\ alive' = alive \cup {C(t).exited}
  /\ commands' = [commands EXCEPT ![loc[t].obj].cmd = C(t).exited]
  /\ Goto(t, IF IsTask THEN "awaitTask" ELSE "awaitReady")
  /\ UNCHANGED <<loc, nobj, cur, envState, chans, signalled, badExit, ops, faults>>

SpawnFails(t) ==
  /\ pc[t] = "spawn" /\ Fault("launch")
  /\ commands' = WithCmdState(commands, "error")
  /\ loc' = [loc EXCEPT ![t].ok = FALSE]
  /\ Goto(t, "settle")
  /\ UNCHANGED <<nobj, cur, envState, chans, procs, ops>>

-----------------------------------------------------------------------------
(* The launched process settles: handleService / waitReadyOrExit and       *)
(* handleTask / waitTaskReady, which differ in what they report.           *)

ServiceExitsEarly(t) ==
  /\ pc[t] = "awaitReady" /\ C(t).exited \in closed
  /\ commands' = IF IsFreshStart(t) \/ HasProbe
                 THEN WithCmdState(commands, "error") ELSE commands
  /\ loc' = [loc EXCEPT ![t].ok = FALSE]
  /\ Goto(t, "settle")
  /\ UNCHANGED <<nobj, cur, envState, procs, chans, ops, faults>>

\* probe.ErrTimeout: the unhealthy process is terminated before settling.
ServiceTimesOut(t) ==
  /\ pc[t] = "awaitReady" /\ HasProbe /\ Fault("probe")
  /\ commands' = WithCmdState(commands, "timeout")
  /\ loc' = [loc EXCEPT ![t].ok = FALSE, ![t].after = "settle"]
  /\ Goto(t, "kill")
  /\ UNCHANGED <<nobj, cur, envState, procs, chans, ops>>

\* The probe passes, or noProbeGrace elapses without an exit being seen.
ServiceReady(t) ==
  /\ pc[t] = "awaitReady"
  /\ IF IsFreshStart(t)
     THEN /\ commands' = WithCmdState(commands, "healthy")
          /\ loc' = [loc EXCEPT ![t].after = "settle"]
          /\ Goto(t, "startMonitor")
     ELSE /\ loc' = [loc EXCEPT ![t].ok = TRUE]
          /\ Goto(t, "settle") /\ UNCHANGED commands
  /\ UNCHANGED <<nobj, cur, envState, procs, chans, ops, faults>>

TaskExits(t) ==
  /\ pc[t] = "awaitTask" /\ C(t).exited \in closed
  /\ LET bad  == C(t).exited \in badExit
         here == IF HasProbe /\ ~bad THEN "probeTask" ELSE "settle"
     IN  /\ commands' = IF bad THEN WithCmdState(commands, "error")
                        ELSE IF ~HasProbe /\ IsFreshStart(t)
                        THEN WithCmdState(commands, "done") ELSE commands
         /\ loc' = [loc EXCEPT ![t].ok = ~bad /\ ~HasProbe]
         /\ Goto(t, here)
  /\ UNCHANGED <<nobj, cur, envState, procs, chans, ops, faults>>

TaskTimesOut(t) ==
  /\ pc[t] = "probeTask" /\ Fault("probe")
  /\ commands' = WithCmdState(commands, "timeout")
  /\ Goto(t, "settle")
  /\ UNCHANGED <<loc, nobj, cur, envState, procs, chans, ops>>

TaskReady(t) ==
  /\ pc[t] = "probeTask"
  /\ IF IsFreshStart(t)
     THEN /\ commands' = WithCmdState(commands, "healthy")
          /\ loc' = [loc EXCEPT ![t].after = "settle"]
          /\ Goto(t, IF RestartEnabled /\ CheckLiveness THEN "startMonitor"
                                                        ELSE "settle")
     ELSE /\ loc' = [loc EXCEPT ![t].ok = TRUE]
          /\ Goto(t, "settle") /\ UNCHANGED commands
  /\ UNCHANGED <<nobj, cur, envState, procs, chans, ops, faults>>

\* startMonitor: quit lazily, monitorDone always.  The goroutine it starts
\* reads c.monitorDone by itself, later.
StartMonitor(t) ==
  /\ pc[t] = "startMonitor"
  /\ LET lazy == C(t).quit = NilChan
         quit == IF lazy THEN fresh + 1 ELSE C(t).quit
         done == IF lazy THEN fresh + 2 ELSE fresh + 1
     IN  /\ commands' = [commands EXCEPT ![loc[t].obj].quit = quit,
                                         ![loc[t].obj].monitorDone = done]
         /\ fresh' = done
  /\ Spawn(t, loc[t].after, "monitorBegin")
  /\ UNCHANGED <<nobj, cur, envState, closed, procs, ops, faults>>

\* killAndWait: signal the process group, then wait for c.exited.  The grace
\* period and the SIGKILL that ends it both leave a process that will exit.
Kill(t) ==
  /\ pc[t] = "kill"
  /\ IF C(t).cmd = NilChan
     THEN Goto(t, loc[t].after) /\ UNCHANGED <<loc, signalled>>
     ELSE /\ signalled' = signalled \cup ({C(t).cmd} \cap alive)
          /\ loc' = [loc EXCEPT ![t].exited = C(t).exited]
          /\ Goto(t, "awaitExit")
  /\ UNCHANGED <<heap, envState, chans, alive, badExit, ops, faults>>

AwaitExit(t) ==
  /\ pc[t] = "awaitExit" /\ loc[t].exited \in closed
  /\ Goto(t, loc[t].after)
  /\ UNCHANGED <<heap, loc, envState, procs, chans, ops, faults>>

\* close(c.startDone), the last step of every start and of every relaunch.
Settle(t) ==
  /\ pc[t] = "settle"
  /\ closed' = closed \cup {C(t).startDone}
  /\ Goto(t, loc[t].ret)
  /\ UNCHANGED <<heap, loc, envState, procs, fresh, ops, faults>>

\* startCommand or takeOverUnmanaged returns and unlocks restartMu.
Started(t) ==
  /\ pc[t] = "started"
  /\ commands' = [commands EXCEPT ![loc[t].obj].restartMu = NoThread]
  /\ Continue(t, IF t \in Monitors THEN "idle" ELSE "finishRun")
  /\ UNCHANGED <<nobj, cur, envState, procs, chans, ops, faults>>

-----------------------------------------------------------------------------
(* The unmanaged monitor: superviseUnmanaged, takeOverUnmanaged.           *)

UnmanagedBegin(m) ==
  /\ pc[m] = "unmanagedBegin"
  /\ loc' = [loc EXCEPT ![m].quit = C(m).quit]
  /\ Goto(m, "unmanaged")
  /\ UNCHANGED <<heap, envState, procs, chans, ops, faults>>

UnmanagedQuit(m) ==
  /\ pc[m] = "unmanaged" /\ loc[m].quit \in closed
  /\ Continue(m, "idle")
  /\ UNCHANGED <<heap, envState, procs, chans, ops, faults>>

UnmanagedProbeFails(m) ==
  /\ pc[m] = "unmanaged" /\ Fault("liveness")
  /\ Goto(m, "takeOver")
  /\ UNCHANGED <<heap, loc, envState, procs, chans, ops>>

TakeOver(m) ==
  /\ pc[m] = "takeOver" /\ Lockable(m)
  /\ fresh' = fresh + 1
  /\ commands' = [commands EXCEPT ![loc[m].obj].restartMu = m,
                                  ![loc[m].obj].unmanaged = FALSE,
                                  ![loc[m].obj].startDone = fresh']
  /\ loc' = [loc EXCEPT ![m].ret = "started"]
  /\ Goto(m, "takeOverStart")
  /\ UNCHANGED <<nobj, cur, envState, closed, procs, ops, faults>>

TakeOverStart(m) ==
  /\ pc[m] = "takeOverStart"
  /\ commands' = WithCmdState(commands, "starting")
  /\ Goto(m, "prepare")
  /\ UNCHANGED <<loc, nobj, cur, envState, procs, chans, ops, faults>>

-----------------------------------------------------------------------------
(* The monitor: superviseService and superviseTask.                        *)

MonitorBegin(m) ==
  /\ pc[m] = "monitorBegin"
  /\ loc' = [loc EXCEPT ![m].done = C(m).monitorDone]
  /\ Goto(m, "snapshot")
  /\ UNCHANGED <<heap, envState, procs, chans, ops, faults>>

Snapshot(m) ==
  /\ pc[m] = "snapshot"
  /\ loc' = [loc EXCEPT ![m].exited = C(m).exited, ![m].quit = C(m).quit]
  /\ Goto(m, "supervise")
  /\ UNCHANGED <<heap, envState, procs, chans, ops, faults>>

SuperviseQuit(m) ==
  /\ pc[m] = "supervise" /\ loc[m].quit \in closed
  /\ Goto(m, "monitorExit")
  /\ UNCHANGED <<heap, loc, envState, procs, chans, ops, faults>>

\* What both unhealthy signals lead to, userStopped read first.
Unhealthy(m) ==
  /\ Goto(m, IF C(m).userStopped THEN "monitorExit"
             ELSE IF RestartEnabled THEN "attemptRestart" ELSE "giveUp")
  /\ UNCHANGED <<heap, loc, envState, procs, chans, ops>>

SuperviseExit(m) ==
  /\ pc[m] = "supervise" /\ ~IsTask /\ loc[m].exited \in closed
  /\ Unhealthy(m) /\ UNCHANGED faults

SuperviseLiveness(m) ==
  /\ pc[m] = "supervise" /\ CheckLiveness /\ Fault("liveness")
  /\ Unhealthy(m)

\* Auto-restart is off: report the error, leave whatever runs running.
GiveUp(m) ==
  /\ pc[m] = "giveUp"
  /\ commands' = WithCmdState(commands, "error")
  /\ loc' = [loc EXCEPT ![m].todo = Envs, ![m].then = "monitorExit"]
  /\ Goto(m, "rollup")
  /\ UNCHANGED <<nobj, cur, envState, procs, chans, ops, faults>>

\* defer close(done).
MonitorExit(m) ==
  /\ pc[m] = "monitorExit"
  /\ closed' = closed \cup {loc[m].done}
  /\ Continue(m, "idle")
  /\ UNCHANGED <<heap, envState, procs, fresh, ops, faults>>

-----------------------------------------------------------------------------
(* One unhealthy episode: attemptRestart.                                  *)

AttemptRestart(m) ==
  /\ pc[m] = "attemptRestart" /\ Lockable(m)
  /\ fresh < MaxChans
  /\ commands' = [commands EXCEPT ![loc[m].obj].restartMu = m]
  /\ loc' = [loc EXCEPT ![m].ret = "retried"]
  /\ Goto(m, "retry")
  /\ UNCHANGED <<nobj, cur, envState, procs, chans, ops, faults>>

RetriesExhausted(m) ==
  /\ pc[m] = "retry" /\ C(m).retries >= MaxRetries
  /\ commands' = WithCmdState(commands, "error")
  /\ loc' = [loc EXCEPT ![m].todo = Envs, ![m].then = "retryExit"]
  /\ Goto(m, "rollup")
  /\ UNCHANGED <<nobj, cur, envState, procs, chans, ops, faults>>

\* CmdRestarting, then the teardown (teardownForRestart) of what still runs.
Retry(m) ==
  /\ pc[m] = "retry" /\ C(m).retries < MaxRetries
  /\ commands' = WithCmdState(commands, "restarting")
  /\ loc' = [loc EXCEPT ![m].quit = C(m).quit, ![m].after = "backoff"]
  /\ Goto(m, "kill")
  /\ UNCHANGED <<nobj, cur, envState, procs, chans, ops, faults>>

BackoffQuit(m) ==
  /\ pc[m] = "backoff" /\ loc[m].quit \in closed
  /\ Goto(m, "retryExit")
  /\ UNCHANGED <<heap, loc, envState, procs, chans, ops, faults>>

\* The timer fires; userStopped is read once, here, before the relaunch.
BackoffElapses(m) ==
  /\ pc[m] = "backoff"
  /\ Goto(m, IF C(m).userStopped THEN "retryExit" ELSE "relaunch")
  /\ UNCHANGED <<heap, loc, envState, procs, chans, ops, faults>>

Retried(m) ==
  /\ pc[m] = "retried"
  /\ LET o == loc[m].obj
     IN  IF loc[m].ok
         THEN /\ commands' = WithCmdState([commands EXCEPT ![o].retries = 0],
                                          "healthy")
              /\ loc' = [loc EXCEPT ![m].todo = Envs, ![m].then = "retryResume"]
              /\ Goto(m, "rollup")
         ELSE /\ commands' = [commands EXCEPT ![o].retries = @ + 1]
              /\ Goto(m, "retry") /\ UNCHANGED loc
  /\ UNCHANGED <<nobj, cur, envState, procs, chans, ops, faults>>

RetryResume(m) ==
  /\ pc[m] = "retryResume"
  /\ commands' = [commands EXCEPT ![loc[m].obj].restartMu = NoThread]
  /\ Goto(m, "snapshot")
  /\ UNCHANGED <<loc, nobj, cur, envState, procs, chans, ops, faults>>

RetryExit(m) ==
  /\ pc[m] = "retryExit"
  /\ commands' = [commands EXCEPT ![loc[m].obj].restartMu = NoThread]
  /\ Goto(m, "monitorExit")
  /\ UNCHANGED <<loc, nobj, cur, envState, procs, chans, ops, faults>>

\* relaunch: a fresh start barrier, then launchProcess.
Relaunch(t) ==
  /\ pc[t] = "relaunch"
  /\ fresh' = fresh + 1
  /\ commands' = [commands EXCEPT ![loc[t].obj].startDone = fresh']
  /\ Goto(t, "launchEnv")
  /\ UNCHANGED <<loc, nobj, cur, envState, closed, procs, ops, faults>>

-----------------------------------------------------------------------------
(* User restarts: restartInPlace, RestartCommand, restartCommandInPlace.   *)

RestartInPlace(w) ==
  /\ pc[w] = "restartInPlace" /\ Lockable(w)
  /\ commands' = WithCmdState([commands EXCEPT ![loc[w].obj].restartMu = w,
                                               ![loc[w].obj].retries = 0],
                              "restarting")
  /\ loc' = [loc EXCEPT ![w].ret = "relaunched"]
  /\ Goto(w, "relaunch")
  /\ UNCHANGED <<nobj, cur, envState, procs, chans, ops, faults>>

RestartCommand(w) ==
  /\ Begin(w, "restart")
  /\ cur # NoObj /\ commands[cur].holders # {}
  /\ loc' = [loc EXCEPT ![w] = [Blank EXCEPT !.obj = cur]]
  /\ Goto(w, "markRestarting")
  /\ UNCHANGED <<commands, closed, envState>>

\* CmdRestarting is published before the goroutine that does it starts, to
\* whatever struct the name has by then.
MarkRestarting(w) ==
  /\ pc[w] = "markRestarting"
  /\ commands' = WithCmdState(commands, "restarting")
  /\ Goto(w, "cancel")
  /\ UNCHANGED <<loc, nobj, cur, envState, procs, chans, ops, faults>>

\* Cancel the owner goroutine, note what to wait for.
Cancel(w) ==
  /\ pc[w] = "cancel"
  /\ closed' = CloseQuit(loc[w].obj)
  /\ commands' = [commands EXCEPT ![loc[w].obj].userStopped = TRUE]
  /\ loc' = [loc EXCEPT ![w].chan = C(w).startDone, ![w].done = C(w).monitorDone]
  /\ Goto(w, "cancelWait")
  /\ UNCHANGED <<nobj, cur, envState, fresh, procs, ops, faults>>

CancelWait(w) ==
  /\ pc[w] = "cancelWait"
  /\ loc[w].chan \in closed
  /\ loc[w].done = NilChan \/ loc[w].done \in closed
  /\ Goto(w, "restartLock")
  /\ UNCHANGED <<heap, loc, envState, procs, chans, ops, faults>>

\* The cancellation is undone for the next supervise cycle.
RestartLock(w) ==
  /\ pc[w] = "restartLock" /\ Lockable(w)
  /\ commands' = [commands EXCEPT ![loc[w].obj].restartMu = w,
                                  ![loc[w].obj].userStopped = FALSE,
                                  ![loc[w].obj].quit = NilChan,
                                  ![loc[w].obj].retries = 0]
  /\ Goto(w, "restartBegin")
  /\ UNCHANGED <<loc, nobj, cur, envState, procs, chans, ops, faults>>

RestartBegin(w) ==
  /\ pc[w] = "restartBegin"
  /\ commands' = WithCmdState(commands, "restarting")
  /\ loc' = [loc EXCEPT ![w].ret = "relaunched", ![w].after = "relaunch"]
  /\ Goto(w, "kill")
  /\ UNCHANGED <<nobj, cur, envState, procs, chans, ops, faults>>

\* Healthy again: a new monitor.  Either way every sharing environment's state
\* is recomputed before restartMu is released.
Relaunched(w) ==
  /\ pc[w] = "relaunched"
  /\ loc' = [loc EXCEPT ![w].todo = Envs, ![w].then = "unlock",
                        ![w].after = "rollup"]
  /\ IF loc[w].ok
     THEN commands' = WithCmdState(commands, "healthy") /\ Goto(w, "startMonitor")
     ELSE UNCHANGED commands /\ Goto(w, "rollup")
  /\ UNCHANGED <<nobj, cur, envState, procs, chans, ops, faults>>

Unlock(w) ==
  /\ pc[w] = "unlock"
  /\ commands' = [commands EXCEPT ![loc[w].obj].restartMu = NoThread]
  /\ Continue(w, loc[w].cont)
  /\ UNCHANGED <<nobj, cur, envState, procs, chans, ops, faults>>

-----------------------------------------------------------------------------
(* StopEnvironment, releaseCommand, stopCommand.                           *)

StopEnvironment(w, e) ==
  /\ Begin(w, "stop")
  /\ envState' = [envState EXCEPT ![e] = "stopping"]
  /\ loc' = [loc EXCEPT ![w] = [Blank EXCEPT !.env = {e}, !.cont = "envStopped"]]
  /\ Goto(w, "release")
  /\ UNCHANGED <<commands, closed>>

\* The decision to stop is taken here; it is not taken again later.
Release(w) ==
  /\ pc[w] = "release"
  /\ IF cur = NoObj
     THEN Continue(w, loc[w].cont) /\ UNCHANGED commands
     ELSE /\ commands' = [commands EXCEPT ![cur].holders = @ \ loc[w].env]
          /\ loc' = [loc EXCEPT ![w].obj = cur]
          /\ Goto(w, IF commands'[cur].holders = {} THEN "cancelStop"
                                                    ELSE "envCheck")
  /\ UNCHANGED <<nobj, cur, envState, procs, chans, ops, faults>>

\* userStopped and quit in one section, in the next one the stamp of
\* stopStartedAt when the command is active.
IsActive(o) == commands[o].state \in {"healthy", "starting", "restarting"}

CancelStop(w) ==
  /\ pc[w] = "cancelStop"
  /\ closed' = CloseQuit(loc[w].obj)
  /\ commands' = [commands EXCEPT ![loc[w].obj].userStopped = TRUE]
  /\ Goto(w, "stampStop")
  /\ UNCHANGED <<loc, nobj, cur, envState, fresh, procs, ops, faults>>

StampStop(w) ==
  /\ pc[w] = "stampStop"
  /\ commands' = [commands EXCEPT ![loc[w].obj].stopping = @ \/ IsActive(loc[w].obj)]
  /\ Goto(w, IF IsActive(loc[w].obj) THEN "markStopping" ELSE "stopBarrier")
  /\ UNCHANGED <<loc, nobj, cur, envState, chans, procs, ops, faults>>

\* Shutdown has captured startDone already, releaseCommand has not.
MarkStopping(w) ==
  /\ pc[w] = "markStopping"
  /\ commands' = WithCmdState(commands, "stopping")
  /\ Goto(w, IF loc[w].cont = "shutdownEnd" THEN "stopWait" ELSE "stopBarrier")
  /\ UNCHANGED <<loc, nobj, cur, envState, chans, procs, ops, faults>>

StopBarrier(w) ==
  /\ pc[w] = "stopBarrier"
  /\ loc' = [loc EXCEPT ![w].chan = C(w).startDone]
  /\ Goto(w, "stopWait")
  /\ UNCHANGED <<heap, envState, chans, procs, ops, faults>>

StopWait(w) ==
  /\ pc[w] = "stopWait" /\ loc[w].chan \in closed
  /\ Goto(w, "stop")
  /\ UNCHANGED <<heap, loc, envState, chans, procs, ops, faults>>

\* An unmanaged command and a task are only reported, and a task that is over
\* keeps its state; a service is terminated unless its state is CmdError.
Stop(w) ==
  /\ pc[w] = "stop"
  /\ LET o       == loc[w].obj
         managed == ~C(w).unmanaged
     IN  IF managed /\ IsTask /\ C(w).state \in {"done", "error"}
         THEN /\ commands' = [commands EXCEPT ![o].stopping = FALSE]
              /\ Continue(w, loc[w].cont)
         ELSE /\ Goto(w, IF managed /\ ~IsTask /\ C(w).cmd # NilChan
                            /\ C(w).state # "error"
                         THEN "kill" ELSE "stopped")
              /\ loc' = [loc EXCEPT ![w].after = "stopped"]
              /\ UNCHANGED commands
  /\ UNCHANGED <<nobj, cur, envState, chans, procs, ops, faults>>

Stopped(w) ==
  /\ pc[w] = "stopped"
  /\ commands' = WithCmdState([commands EXCEPT ![loc[w].obj].stopping = FALSE],
                              "stopped")
  /\ Continue(w, loc[w].cont)
  /\ UNCHANGED <<nobj, cur, envState, chans, procs, ops, faults>>

EnvStopped(w) ==
  /\ pc[w] = "envStopped"
  /\ envState' = [e \in Envs |-> IF e \in loc[w].env THEN "stopped" ELSE envState[e]]
  /\ Continue(w, "idle")
  /\ UNCHANGED <<heap, chans, procs, ops, faults>>

-----------------------------------------------------------------------------
(* Shutdown: every command of the map, here the one there is.              *)

Shutdown(w) ==
  /\ Begin(w, "shutdown")
  /\ loc' = [loc EXCEPT ![w] = [Blank EXCEPT !.obj = cur, !.cont = "shutdownEnd"]]
  /\ Goto(w, IF cur = NoObj THEN "shutdownEnd" ELSE "shutdownStop")
  /\ UNCHANGED <<commands, closed, envState>>

\* Per command: userStopped, quit, the stamp and startDone in one section.
ShutdownStop(w) ==
  /\ pc[w] = "shutdownStop"
  /\ closed' = CloseQuit(loc[w].obj)
  /\ commands' = [commands EXCEPT ![loc[w].obj].userStopped = TRUE,
                                  ![loc[w].obj].stopping = @ \/ IsActive(loc[w].obj)]
  /\ loc' = [loc EXCEPT ![w].chan = C(w).startDone]
  /\ Goto(w, IF IsActive(loc[w].obj) THEN "markStopping" ELSE "stopWait")
  /\ UNCHANGED <<nobj, cur, envState, fresh, procs, ops, faults>>

\* ctx is over before the command is stopped: its process is killed.
ShutdownDeadline(w) ==
  /\ loc[w].cont = "shutdownEnd" /\ pc[w] \in {"stopWait", "stop", "awaitExit", "stopped"}
  /\ C(w).cmd \in alive \ signalled
  /\ Fault("deadline")
  /\ signalled' = signalled \cup {C(w).cmd}
  /\ UNCHANGED <<heap, loc, pc, envState, chans, alive, badExit, ops>>

ShutdownEnd(w) ==
  /\ pc[w] = "shutdownEnd"
  /\ cur' = NoObj
  /\ envState' = [e \in Envs |-> "stopped"]
  /\ Continue(w, "idle")
  /\ UNCHANGED <<commands, nobj, chans, procs, ops, faults>>

-----------------------------------------------------------------------------
(* recomputeEnvsFor and recomputeEnvState: one workflow of one command.    *)

\* An environment that is stopped or stopping is passed over.
Rollup(t) ==
  /\ pc[t] = "rollup"
  /\ IF loc[t].todo = {}
     THEN Continue(t, loc[t].then)
     ELSE \E e \in loc[t].todo :
            LET active == envState[e] \notin {"stopped", "stopping"}
            IN  /\ loc' = [loc EXCEPT ![t].todo = @ \ {e}, ![t].roll = {e}]
                /\ Goto(t, IF active THEN "rollupRead" ELSE "rollup")
  /\ UNCHANGED <<heap, envState, chans, procs, ops, faults>>

\* up = total is running, up = 0 is error.
DerivedState == IF IsHealthy THEN "running" ELSE "error"

RollupRead(t) ==
  /\ pc[t] = "rollupRead"
  /\ loc' = [loc EXCEPT ![t].sum = DerivedState]
  /\ Goto(t, "rollupWrite")
  /\ UNCHANGED <<heap, envState, chans, procs, ops, faults>>

\* setEnvState, in a critical section of its own.
RollupWrite(t) ==
  /\ pc[t] = "rollupWrite"
  /\ envState' = [e \in Envs |-> IF e \in loc[t].roll THEN loc[t].sum ELSE envState[e]]
  /\ Goto(t, "rollup")
  /\ UNCHANGED <<heap, loc, chans, procs, ops, faults>>

\* The end of runEnvironment: its own environment, active or not.
FinishRun(w) ==
  /\ pc[w] = "finishRun"
  /\ loc' = [loc EXCEPT ![w].roll = loc[w].env, ![w].todo = {}, ![w].then = "idle",
                        ![w].sum = DerivedState]
  /\ Goto(w, "rollupWrite")
  /\ UNCHANGED <<heap, envState, chans, procs, ops, faults>>

-----------------------------------------------------------------------------
(* Processes exit: when signalled, when a task is done, or by a crash.  The *)
(* reaper closes c.exited, which is the channel the process is named by as  *)
(* long as no other one was launched over it: LaunchAfterExit.             *)

ProcessExits(p) ==
  /\ p \in alive /\ (p \in signalled \/ IsTask)
  /\ alive' = alive \ {p}
  /\ badExit' = IF p \in signalled THEN badExit \cup {p} ELSE badExit
  /\ closed' = closed \cup {p}
  /\ UNCHANGED <<heap, envState, pc, loc, fresh, signalled, ops, faults>>

ProcessCrashes(p) ==
  /\ p \in alive \ signalled /\ Fault("crash")
  /\ alive' = alive \ {p}
  /\ badExit' = badExit \cup {p}
  /\ closed' = closed \cup {p}
  /\ UNCHANGED <<heap, envState, pc, loc, fresh, signalled, ops>>

-----------------------------------------------------------------------------
WorkerStep(w) ==
  \/ MarkStarting(w) \/ ResetForRetry(w) \/ AcquireNew(w) \/ AcquireJoin(w) \/ JoinWait(w)
  \/ EnvCheck(w) \/ EnvRead(w) \/ EnvCompare(w) \/ StartCommand(w) \/ CheckUnmanaged(w)
  \/ Adopt(w) \/ WatchUnmanaged(w) \/ RestartInPlace(w) \/ MarkRestarting(w) \/ Cancel(w)
  \/ CancelWait(w) \/ RestartLock(w) \/ RestartBegin(w) \/ Relaunched(w)
  \/ Unlock(w) \/ Release(w) \/ CancelStop(w) \/ StampStop(w) \/ MarkStopping(w)
  \/ StopBarrier(w) \/ StopWait(w) \/ Stop(w) \/ Stopped(w) \/ EnvStopped(w)
  \/ ShutdownStop(w) \/ ShutdownEnd(w) \/ FinishRun(w)

MonitorStep(m) ==
  \/ UnmanagedBegin(m) \/ UnmanagedQuit(m) \/ TakeOver(m) \/ TakeOverStart(m)
  \/ MonitorBegin(m) \/ Snapshot(m) \/ SuperviseQuit(m) \/ SuperviseExit(m)
  \/ GiveUp(m) \/ MonitorExit(m) \/ AttemptRestart(m) \/ RetriesExhausted(m)
  \/ Retry(m) \/ BackoffQuit(m) \/ BackoffElapses(m) \/ Retried(m)
  \/ RetryResume(m) \/ RetryExit(m)

\* Code both run: a start, a relaunch, a kill, a rollup.
ThreadStep(t) ==
  \/ Prepare(t) \/ LaunchEnv(t) \/ Launch(t) \/ SpawnProcess(t)
  \/ ServiceExitsEarly(t) \/ ServiceReady(t)
  \/ TaskExits(t) \/ TaskReady(t) \/ StartMonitor(t) \/ Kill(t) \/ AwaitExit(t)
  \/ Settle(t) \/ Started(t) \/ Relaunch(t) \/ Rollup(t) \/ RollupRead(t)
  \/ RollupWrite(t)

Request(w) ==
  \/ \E e \in Envs : StartEnvironment(w, e) \/ StopEnvironment(w, e)
  \/ RestartCommand(w) \/ Shutdown(w)

FaultStep ==
  \/ \E t \in Threads : PrepareFails(t) \/ SpawnFails(t) \/ ServiceTimesOut(t)
                        \/ TaskTimesOut(t)
  \/ \E m \in Monitors : SuperviseLiveness(m) \/ UnmanagedProbeFails(m)
  \/ \E w \in Workers : ShutdownDeadline(w)
  \/ \E p \in alive : ProcessCrashes(p)

Next ==
  \/ \E w \in Workers : Request(w) \/ WorkerStep(w)
  \/ \E m \in Monitors : MonitorStep(m)
  \/ \E t \in Threads : ThreadStep(t)
  \/ \E p \in alive : ProcessExits(p)
  \/ FaultStep

Spec == Init /\ [][Next]_vars

\* Every goroutine is scheduled, every probe answers or times out, and a
\* process that is signalled (or a task) exits.  No request, and no fault, is
\* ever bound to happen.
Fairness ==
  /\ \A w \in Workers : WF_vars(WorkerStep(w))
  /\ \A m \in Monitors : WF_vars(MonitorStep(m))
  /\ \A t \in Threads : WF_vars(ThreadStep(t))
  /\ WF_vars(\E p \in alive : ProcessExits(p))

FairSpec == Spec /\ Fairness

-----------------------------------------------------------------------------
(* Properties.                                                             *)

\* Every struct, goroutine and channel has the shape the code gives it.
TypeOK ==
  /\ commands \in [Objs -> Command]
  /\ nobj \in 0 .. MaxObjs /\ cur \in 0 .. nobj
  /\ envState \in [Envs -> EnvStates]
  /\ pc \in [Threads -> Labels]
  /\ loc \in [Threads -> Locals]
  /\ fresh \in Nat /\ closed \subseteq Nat
  /\ alive \subseteq Nat /\ signalled \subseteq Nat /\ badExit \subseteq Nat
  /\ ops \in Nat /\ faults \in Nat

\* Where a goroutine is inside a start or restart episode, restartMu held.
EpisodeLabels ==
  {"checkUnmanaged", "adopt", "watchUnmanaged", "prepare", "launchEnv", "launch",
   "spawn", "awaitReady", "awaitTask", "probeTask", "startMonitor", "settle", "started",
   "takeOverStart", "retry", "backoff", "retried", "retryResume", "retryExit",
   "relaunch", "relaunched", "restartBegin", "unlock"}
InEpisode(t) ==
  \/ pc[t] \in EpisodeLabels
  \/ pc[t] \in {"kill", "awaitExit"} /\ loc[t].after # "stopped"
  \/ /\ pc[t] \in {"rollup", "rollupRead", "rollupWrite"}
     /\ loc[t].then \in {"unlock", "retryResume", "retryExit"}

\* restartMu is held by a goroutine exactly while it drives an episode of that
\* struct: no path leaves an episode with the lock, or enters one without it.
LockInv ==
  \A t \in Threads, o \in Objs :
    commands[o].restartMu = t <=> InEpisode(t) /\ loc[t].obj = o

\* At most one start or restart episode is in flight for a command, whoever
\* drives it (engine.go, comment of restartMu).
OneEpisode ==
  \A t, u \in Threads :
    InEpisode(t) /\ InEpisode(u) /\ loc[t].obj = loc[u].obj => t = u

\* No episode closes a start barrier that is closed already: that would be
\* "panic: close of closed channel" (engine.go, comment of restartMu).
BarrierClosedOnce ==
  \A t \in Threads : pc[t] = "settle" => C(t).startDone \notin closed

\* monitorDone is closed exactly once (engine.go, comment of monitorDone).
MonitorDoneClosedOnce ==
  \A m \in Monitors : pc[m] = "monitorExit" => loc[m].done \notin closed

\* No channel of a command is closed twice: the daemon would panic, and with it
\* every command.
ClosedOnce == BarrierClosedOnce /\ MonitorDoneClosedOnce

\* launchProcess is only called when the previous process has fully exited.
LaunchAfterExit ==
  \A t \in Threads : pc[t] \in {"launchEnv", "launch"} => C(t).cmd \notin alive

\* Never two supervisor goroutines for one command (stop.go,
\* restartCommandInPlace, on the monitorDone wait).
Supervising(m) == \/ pc[m] \in {"snapshot", "supervise", "attemptRestart"}
                  \/ InEpisode(m) /\ loc[m].ret = "retried"
OneSupervisor ==
  \A m, n \in Monitors :
    Supervising(m) /\ Supervising(n) /\ loc[m].obj = loc[n].obj => m = n

\* Nothing left to do unless a client asks or the world misbehaves.
Quiet ==
  /\ \A w \in Workers : pc[w] = "idle"
  /\ \A m \in Monitors :
       \/ pc[m] = "idle"
       \/ pc[m] = "unmanaged" /\ loc[m].quit \notin closed
       \/ /\ pc[m] = "supervise" /\ loc[m].quit \notin closed
          /\ IsTask \/ loc[m].exited \notin closed
  /\ alive \cap signalled = {} /\ (IsTask => alive = {})

\* A process that runs at rest is the current command's, and an environment that
\* is not stopped holds it (docs/configuration.md, shared commands).
NoOrphan ==
  Quiet => \A p \in alive :
    /\ cur # NoObj /\ commands[cur].cmd = p
    /\ \E e \in commands[cur].holders : envState[e] # "stopped"

\* A command reported stopped has no process (docs/configuration.md).
StoppedHasNoProcess ==
  Quiet /\ cur # NoObj /\ commands[cur].state = "stopped" => alive = {}

\* What runs at rest is held, and never reported stopped.
RunsOnlyHeld == NoOrphan /\ StoppedHasNoProcess

\* A service reported healthy at rest runs and is watched by a supervisor that
\* will see its exit.
HealthyIsWatched ==
  Quiet /\ ~IsTask /\ cur # NoObj /\ commands[cur].state = "healthy"
        /\ ~commands[cur].unmanaged
  => /\ commands[cur].cmd \in alive
     /\ \E m \in Monitors : /\ pc[m] = "supervise" /\ loc[m].obj = cur
                             /\ loc[m].exited = commands[cur].exited

\* A command has exactly one supervisor while it needs one.
Watched == OneSupervisor /\ HealthyIsWatched

\* At rest an environment is stopped, or reports what its command is.
RollupAgrees ==
  Quiet => \A e \in Envs : envState[e] # "stopped" => envState[e] = DerivedState

\* At rest no transient state is left behind.
NoStuckState ==
  Quiet /\ cur # NoObj =>
    /\ commands[cur].state \notin {"pending", "starting", "stopping", "restarting"}
    /\ ~commands[cur].stopping

\* An unmanaged command has no process of ours (engine.go, comment of unmanaged).
UnmanagedHasNoProcess ==
  cur # NoObj /\ commands[cur].unmanaged => commands[cur].cmd = NilChan

\* A task reported healthy or done has exited, with code 0 (its status in
\* docs/configuration.md), however often it has been run again.
TaskUpHasExited ==
  IsTask /\ IsHealthy => commands[cur].cmd \notin alive \cup badExit

\* At rest a healthy managed command runs with its current holders' variables.
EnvApplied ==
  Quiet /\ IsHealthy /\ ~commands[cur].unmanaged =>
    commands[cur].appliedEnv = EffectiveEnv(cur)

\* Stopping an environment signals a process only when no environment holds the
\* command; Shutdown stops every command whoever holds it.
SignalsOnlyUnheld ==
  \A w \in Workers :
    /\ pc[w] = "kill" /\ pc'[w] = "awaitExit"
    /\ loc[w].after = "stopped" /\ loc[w].cont = "envStopped"
    => C(w).holders = {}

\* No step signals a process some environment holds.
StopsOnlyUnheld == [][SignalsOnlyUnheld]_vars

\* Every environment that is being stopped ends up stopped.
StopCompletes ==
  \A e \in Envs : envState[e] = "stopping" ~> envState[e] # "stopping"

\* A goroutine waits for the exit of a process that nobody started: launchProcess
\* renews c.exited before cmd.Start fails, and leaves c.cmd as it was.
Stranded(t) ==
  /\ pc[t] = "awaitExit"
  /\ loc[t].exited \notin closed \cup alive
  /\ \A u \in Threads : pc[u] = "spawn" => C(u).exited # loc[t].exited

\* Every operation comes to an end, unless a goroutine is stranded, with restartMu
\* or a teardown in its hands.
OperationsEnd ==
  \A w \in Workers : pc[w] # "idle" ~> pc[w] = "idle" \/ \E t \in Threads : Stranded(t)

\* killAndWait ends: it "waits up to GracePeriod for the process to exit, then
\* SIGKILLs it" (stop.go, comment of killAndWait).
KillsEnd == \A t \in Threads : pc[t] = "awaitExit" ~> pc[t] # "awaitExit"
=============================================================================
