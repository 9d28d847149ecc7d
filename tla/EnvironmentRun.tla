-------------------------- MODULE EnvironmentRun --------------------------
(***************************************************************************)
(* Environments made of several commands (internal/engine: runEnvironment, *)
(* acquireAndStart, resetForRetry, releaseWorkflow, recomputeEnvState) and *)
(* the gate that keeps interactive logins apart (authGate).                *)
(*                                                                         *)
(* A worker is the goroutine of one public operation.  The worker of a     *)
(* start has one step per workflow entry, each a goroutine of its own: it  *)
(* waits for its dependencies, acquires its command and waits until that   *)
(* has settled.  A command is reduced to its episodes.  One start or       *)
(* restart episode at a time is what restartMu guarantees, and what        *)
(* CommandSupervisor!OneEpisode shows; the interleavings inside of one are *)
(* the subject of that module, the interplay of many commands is the       *)
(* subject of this one.                                                    *)
(***************************************************************************)
EXTENDS Integers, FiniteSets, Sequences

CONSTANTS
  Envs,         \* environments
  Commands,     \* commands, shared by the environments
  Workflow,     \* Workflow[e]: the commands of e, in the order of the file
  DependsOn,    \* DependsOn[e][c]: the dependencies of c in the workflow of e
  Interactive,  \* commands flagged interactive-auth
  Workers,      \* goroutines that serve public operations
  Operations,   \* the operations the clients use
  Faults,       \* "start": a command does not come up; "crash": it dies later
  MaxRetries,   \* policy.maxRetries of every command
  \* Bounds of the model.
  MaxOps, MaxFaults

Open == "open"      \* authGate is free

Steps(e) == {Workflow[e][i] : i \in 1 .. Len(Workflow[e])}

\* What config.Validate leaves: dependencies are in the same workflow and
\* have no cycle (a set closed under "has a dependency in the set" is empty).
\* That no command is named twice in a workflow is NOT validated; it is
\* assumed here, and so is that there is something to start.
ASSUME WorkflowsOK ==
  /\ Workflow \in [Envs -> Seq(Commands)]
  /\ \A e \in Envs :
       /\ \A i, j \in 1 .. Len(Workflow[e]) :
            Workflow[e][i] = Workflow[e][j] => i = j
       /\ \A c \in Commands : DependsOn[e][c] \subseteq Steps(e)
       /\ \A S \in SUBSET Steps(e) :
            (\A c \in S : DependsOn[e][c] \cap S # {}) => S = {}
  /\ Envs # {} /\ Commands # {} /\ Open \notin Commands
  /\ Interactive \subseteq Commands
  /\ Operations \subseteq {"start", "stop", "restart"}
  /\ Faults \subseteq {"start", "crash"}
  /\ MaxRetries \in Nat /\ MaxOps \in Nat /\ MaxFaults \in Nat

VARIABLES
  commands,  \* Engine.commands: what is known of each command
  envState,  \* Engine.envState
  report,    \* where recomputeEnvsFor is, per command that reports
  authGate,  \* Engine.authGate: the command whose login is under way
  worker,    \* the goroutines of the public operations
  ops,       \* operations requested so far
  faults,    \* faults so far
  upSince,   \* history: the commands seen up since a worker's run began
  overtaken  \* history: environments whose state was out of date when written

vars == <<commands, envState, report, authGate, worker, ops, faults, upSince, overtaken>>

Up     == {"healthy"}
Failed == {"error", "stopped"}
Active == {"healthy", "starting", "restarting"}
EnvStates == {"stopped", "starting", "running", "degraded", "stopping", "error"}

\* holders: environments; episode: who drives a start or restart ("none" if
\* restartMu is free) and phase: how far it is; barrier, settled: the current
\* startDone channel, by number, and whether it is closed; cancelled:
\* userStopped with quit closed.
CommandRecord ==
  [state     : {"pending", "starting", "healthy", "error", "stopping",
                "stopped", "restarting"},
   holders   : SUBSET Envs,
   episode   : {"none", "start", "crash", "user", "retry"},
   phase     : {"idle", "backoff", "gate", "launched", "publish", "again",
                "report", "sum", "write"},
   barrier   : Nat,
   settled   : BOOLEAN,
   retries   : 0 .. MaxRetries,
   cancelled : BOOLEAN]

\* Not in the map yet: e.commands has no such key.
Absent == [state |-> "pending", holders |-> {}, episode |-> "none",
           phase |-> "idle", barrier |-> 0, settled |-> TRUE, retries |-> 0,
           cancelled |-> FALSE]

\* A roll-up under way: the environments still to be told, the one it is at, and
\* the state derived for it.
ReportRecord == [todo : SUBSET Envs, env : Envs, sum : EnvStates]

WorkerRecord ==
  [pc   : {"idle", "reset", "retry", "retrying", "run", "write", "release", "barrier",
           "restart"},
   env  : Envs,
   i    : Nat,                  \* position in a loop over the workflow
   then : {"reset", "release"}, \* the loop that called releaseCommand
   cmd  : Commands,             \* the command of a user restart
   sum  : EnvStates,            \* the state its final roll-up has derived
   step : [Commands -> {"waiting", "starting", "joining", "up", "down"}],
   seen : [Commands -> Nat]]    \* the barrier a step waits for

Idle == [pc |-> "idle", env |-> CHOOSE e \in Envs : TRUE, i |-> 1,
         then |-> "release", cmd |-> CHOOSE c \in Commands : TRUE, sum |-> "stopped",
         step |-> [c \in Commands |-> "waiting"],
         seen |-> [c \in Commands |-> 0]]

NoReport == [todo |-> {}, env |-> CHOOSE e \in Envs : TRUE, sum |-> "stopped"]

Init ==
  /\ commands = [c \in Commands |-> Absent]
  /\ envState = [e \in Envs |-> "stopped"]
  /\ report = [c \in Commands |-> NoReport]
  /\ authGate = Open
  /\ worker = [w \in Workers |-> Idle]
  /\ ops = 0 /\ faults = 0
  /\ upSince = [w \in Workers |-> {}]
  /\ overtaken = {}

-----------------------------------------------------------------------------
Request(op) == op \in Operations /\ ops < MaxOps /\ ops' = ops + 1
Fault(f)    == f \in Faults /\ faults < MaxFaults /\ faults' = faults + 1
Unchanged   == UNCHANGED <<ops, faults>>
EnvsStay    == UNCHANGED <<envState, report, overtaken>>

-----------------------------------------------------------------------------
(* Plausible mistakes, each of which some property detects *)

\* Only one environment of a shared command is told of the outcome of a restart.
OneIsTold(c) == {CHOOSE e \in Envs : c \in Steps(e)}

\* A step starts although a dependency failed.
DepsIgnored(w, c) == TRUE

\* Only first starts take the gate.
GateOnFirstStart(c) == c \in Interactive /\ commands[c].episode = "start"

\* A failed setup leaves the start barrier open.
PrepareFailsUnsettled(c) ==
  /\ commands[c].phase = "gate" /\ commands[c].episode = "start"
  /\ Fault("start")
  /\ commands' = [commands EXCEPT ![c].phase = "idle", ![c].episode = "none",
                                  ![c].state = "error"]
  /\ UNCHANGED <<authGate, worker, ops>> /\ EnvsStay

-----------------------------------------------------------------------------
\* recomputeEnvState: the state of e derived from the commands cs.
Rollup(e, cs) ==
  LET up == Cardinality({c \in Steps(e) : cs[c].state \in Up})
  IN  IF up = Cardinality(Steps(e)) THEN "running"
      ELSE IF up = 0 THEN "error" ELSE "degraded"

\* isEnvActive: started and not stopped since.
IsEnvActive(e) == envState[e] \notin {"stopped", "stopping"}

\* envsOf: the environments that name c.
EnvsOf(c) == {e \in Envs : c \in Steps(e)}

\* setEnvState.  History: whether a derived state still was that of the commands.
SetEnvState(e, state) == envState' = [envState EXCEPT ![e] = state]
InTime(e)     == overtaken' = overtaken \ {e}
Derived(e, state) ==
  /\ SetEnvState(e, state)
  /\ overtaken' = IF state = Rollup(e, commands) THEN overtaken \ {e} ELSE overtaken \cup {e}

\* The command a loop of w has reached, and the loop moved on by one.
Reached(w) == Workflow[worker[w].env][worker[w].i]
InLoop(w)  == worker[w].i <= Len(Workflow[worker[w].env])
Goto(w, pc) == worker' = [worker EXCEPT ![w].pc = pc]
Forward(w) == worker' = [worker EXCEPT ![w].i = @ + 1]

-----------------------------------------------------------------------------
(* Starting an environment *)

\* StartEnvironment: a failed environment is reset before it is run.
StartEnvironment(w, e) ==
  /\ worker[w].pc = "idle"
  /\ Request("start")
  /\ worker' = [worker EXCEPT ![w] =
       [Idle EXCEPT !.env = e, !.then = "reset",
          !.pc = IF envState[e] \in {"error", "degraded"} THEN "reset"
                                                         ELSE "run"]]
  /\ SetEnvState(e, "starting") /\ InTime(e)
  /\ UNCHANGED <<commands, report, authGate, faults>>

\* resetForRetry: what is up or on its way is left alone, ...
ResetSkip(w) ==
  /\ worker[w].pc = "reset" /\ InLoop(w)
  /\ commands[Reached(w)].state \notin Failed
  /\ Forward(w)
  /\ Unchanged /\ UNCHANGED <<commands, authGate>> /\ EnvsStay

\* ... what failed is released by its only holder, to be created anew, ...
ResetRelease(w) ==
  /\ worker[w].pc = "reset" /\ InLoop(w)
  /\ commands[Reached(w)].state \in Failed
  /\ Cardinality(commands[Reached(w)].holders) <= 1
  /\ Goto(w, "release")
  /\ Unchanged /\ UNCHANGED <<commands, authGate>> /\ EnvsStay

\* ... or restarted in place where another environment holds it.
ResetShared(w) ==
  /\ worker[w].pc = "reset" /\ InLoop(w)
  /\ commands[Reached(w)].state \in Failed
  /\ Cardinality(commands[Reached(w)].holders) > 1
  /\ Goto(w, "retry")
  /\ Unchanged /\ UNCHANGED <<commands, authGate>> /\ EnvsStay

\* restartInPlace: under restartMu.
RestartInPlace(w) ==
  LET c == Reached(w) IN
  /\ worker[w].pc = "retry"
  /\ commands[c].episode = "none"
  /\ commands' = [commands EXCEPT ![c].episode = "retry", ![c].phase = "gate",
                                  ![c].retries = 0, ![c].state = "restarting"]
  /\ Goto(w, "retrying")
  /\ Unchanged /\ UNCHANGED authGate /\ EnvsStay

RetryDone(w) ==
  /\ worker[w].pc = "retrying"
  /\ commands[Reached(w)].episode # "retry"
  /\ worker' = [worker EXCEPT ![w].pc = "reset", ![w].i = @ + 1]
  /\ Unchanged /\ UNCHANGED <<commands, authGate>> /\ EnvsStay

ResetDone(w) ==
  /\ worker[w].pc = "reset" /\ ~InLoop(w)
  /\ Goto(w, "run")
  /\ Unchanged /\ UNCHANGED <<commands, authGate>> /\ EnvsStay

\* The dependencies of a step have all closed their readyCh.
DepsSettled(w, c) ==
  \A d \in DependsOn[worker[w].env][c] : worker[w].step[d] \in {"up", "down"}

DepsOK(w, c) ==
  \A d \in DependsOn[worker[w].env][c] : worker[w].step[d] = "up"

ReadyToAcquire(w, c) ==
  /\ worker[w].pc = "run" /\ c \in Steps(worker[w].env)
  /\ worker[w].step[c] = "waiting"
  /\ DepsSettled(w, c) /\ DepsOK(w, c)

\* A step one of whose dependencies failed does not start.
SkipStep(w, c) ==
  /\ worker[w].pc = "run" /\ c \in Steps(worker[w].env)
  /\ worker[w].step[c] = "waiting"
  /\ DepsSettled(w, c) /\ ~DepsOK(w, c)
  /\ worker' = [worker EXCEPT ![w].step[c] = "down"]
  /\ Unchanged /\ UNCHANGED <<commands, authGate>> /\ EnvsStay

\* acquireAndStart makes a new struct for a command that was never started
\* or is down and held by no one.
NeedsNewCommand(c) ==
  \/ commands[c].barrier = 0
  \/ commands[c].holders = {} /\ commands[c].state \in Failed

\* The first holder starts the command (startCommand).  A struct is replaced
\* here only once its last episode is over: what goroutines of a replaced
\* struct still do is modelled in CommandSupervisor.
AcquireNew(w, c) ==
  /\ ReadyToAcquire(w, c)
  /\ NeedsNewCommand(c) /\ commands[c].episode = "none"
  /\ commands' = [commands EXCEPT ![c] =
       [Absent EXCEPT !.state = "starting", !.holders = {worker[w].env},
          !.episode = "start", !.phase = "gate", !.settled = FALSE,
          !.barrier = commands[c].barrier + 1]]
  /\ worker' = [worker EXCEPT ![w].step[c] = "starting"]
  /\ Unchanged /\ UNCHANGED authGate /\ EnvsStay

\* Every other one becomes a holder and waits for the current start barrier.
AcquireJoin(w, c) ==
  /\ ReadyToAcquire(w, c)
  /\ ~NeedsNewCommand(c)
  /\ commands' = [commands EXCEPT ![c].holders = @ \cup {worker[w].env}]
  /\ worker' = [worker EXCEPT ![w].step[c] = "joining",
                              ![w].seen[c] = commands[c].barrier]
  /\ Unchanged /\ UNCHANGED authGate /\ EnvsStay

\* The step ends with what isHealthy says at that moment.
StepOutcome(c) == IF commands[c].state \in Up THEN "up" ELSE "down"

StepEnds(w, c) ==
  /\ worker[w].pc = "run"
  /\ \/ worker[w].step[c] = "starting" /\ commands[c].episode # "start"
     \/ /\ worker[w].step[c] = "joining"
        /\ commands[c].settled \/ commands[c].barrier # worker[w].seen[c]
  /\ worker' = [worker EXCEPT ![w].step[c] = StepOutcome(c)]
  /\ Unchanged /\ UNCHANGED <<commands, authGate>> /\ EnvsStay

\* wg.Wait and the final roll-up, whatever the environment's state is by now:
\* it reads the commands in one section and writes the environment in another.
RunSums(w) ==
  /\ worker[w].pc = "run"
  /\ \A c \in Steps(worker[w].env) : worker[w].step[c] \in {"up", "down"}
  /\ worker' = [worker EXCEPT ![w].pc = "write",
                              ![w].sum = Rollup(worker[w].env, commands)]
  /\ Unchanged /\ UNCHANGED <<commands, authGate>> /\ EnvsStay

RunEnds(w) ==
  /\ worker[w].pc = "write"
  /\ Derived(worker[w].env, worker[w].sum)
  /\ worker' = [worker EXCEPT ![w] = Idle]
  /\ Unchanged /\ UNCHANGED <<commands, report, authGate>>

-----------------------------------------------------------------------------
(* Episodes of a command *)

\* fetchSource or setup fails, before the gate is taken.  Their success alone
\* changes nothing anyone can see: it is part of Launch.
PrepareFails(c) ==
  /\ commands[c].phase = "gate" /\ commands[c].episode = "start"
  /\ Fault("start")
  /\ commands' = [commands EXCEPT ![c].phase = "idle", ![c].episode = "none",
                                  ![c].state = "error", ![c].settled = TRUE]
  /\ UNCHANGED <<authGate, worker, ops>> /\ EnvsStay

\* An interactive command takes authGate from just before its launch until
\* it has settled.
TakesGate(c)  == c \in Interactive
GateFreed(c)  == IF c \in Interactive THEN Open ELSE authGate

\* The gate, the fresh barrier of a relaunch, the launch.
Launch(c) ==
  /\ commands[c].phase = "gate"
  /\ TakesGate(c) => authGate = Open
  /\ authGate' = IF TakesGate(c) THEN c ELSE authGate
  /\ commands' = [commands EXCEPT
       ![c].phase = "launched",
       ![c].settled = FALSE,
       ![c].barrier = IF commands[c].episode = "start" THEN @ ELSE @ + 1]
  /\ Unchanged /\ UNCHANGED worker /\ EnvsStay

\* recomputeEnvsFor, under restartMu still.  One environment after the other, in a
\* fixed order, is looked at in three sections: is it active, what do its commands
\* amount to, and its new state.
Tell(c) == report' = [report EXCEPT ![c] = [NoReport EXCEPT !.todo = EnvsOf(c)]]

Pick(todo) == CHOOSE e \in todo : TRUE

\* The environment e is dealt with; after the last one restartMu is free.
Told(c, e) ==
  LET left == report[c].todo \ {e} IN
  /\ report' = [report EXCEPT ![c] = [NoReport EXCEPT !.todo = left]]
  /\ commands' = [commands EXCEPT ![c].phase = IF left = {} THEN "idle" ELSE "report",
                                  ![c].episode = IF left = {} THEN "none" ELSE @]

ReportActive(c) ==
  LET e == Pick(report[c].todo) IN
  /\ commands[c].phase = "report"
  /\ IF report[c].todo # {} /\ IsEnvActive(e)
       THEN /\ report' = [report EXCEPT ![c].env = e]
            /\ commands' = [commands EXCEPT ![c].phase = "sum"]
       ELSE Told(c, e)
  /\ Unchanged /\ UNCHANGED <<envState, overtaken, authGate, worker>>

ReportSums(c) ==
  /\ commands[c].phase = "sum"
  /\ report' = [report EXCEPT ![c].sum = Rollup(report[c].env, commands)]
  /\ commands' = [commands EXCEPT ![c].phase = "write"]
  /\ Unchanged /\ UNCHANGED <<envState, overtaken, authGate, worker>>

ReportWrites(c) ==
  /\ commands[c].phase = "write"
  /\ Derived(report[c].env, report[c].sum)
  /\ Told(c, report[c].env)
  /\ Unchanged /\ UNCHANGED <<authGate, worker>>

\* A first start that comes up, or does not.
Settle(c, state) ==
  /\ commands[c].phase = "launched" /\ commands[c].episode = "start"
  /\ commands' = [commands EXCEPT ![c].phase = "idle", ![c].episode = "none",
                                  ![c].state = state, ![c].settled = TRUE]
  /\ authGate' = GateFreed(c)
  /\ UNCHANGED <<worker, ops>> /\ EnvsStay

StartUp(c)    == Settle(c, "healthy") /\ UNCHANGED faults
StartFails(c) == Settle(c, "error") /\ Fault("start")

\* relaunch returns: the barrier closes and the gate opens before the caller
\* publishes the outcome.
RelaunchUp(c) ==
  /\ commands[c].phase = "launched" /\ commands[c].episode # "start"
  /\ commands' = [commands EXCEPT ![c].phase = "publish", ![c].settled = TRUE]
  /\ authGate' = GateFreed(c)
  /\ Unchanged /\ UNCHANGED worker /\ EnvsStay

\* A failed relaunch has reported its error; the automatic cycle goes on.
RelaunchFails(c) ==
  /\ commands[c].phase = "launched" /\ commands[c].episode # "start"
  /\ Fault("start")
  /\ authGate' = GateFreed(c)
  /\ IF commands[c].episode = "crash"
       THEN /\ commands' = [commands EXCEPT
                 ![c].phase = "again", ![c].state = "error",
                 ![c].settled = TRUE, ![c].retries = @ + 1]
            /\ UNCHANGED report
       ELSE /\ commands' = [commands EXCEPT
                 ![c].phase = "report", ![c].state = "error", ![c].settled = TRUE]
            /\ Tell(c)
  /\ UNCHANGED <<envState, overtaken, worker, ops>>

\* The caller of relaunch reports the success, then tells the environments.
Publish(c) ==
  /\ commands[c].phase = "publish"
  /\ commands' = [commands EXCEPT ![c].phase = "report", ![c].state = "healthy",
                                  ![c].retries = 0]
  /\ Tell(c)
  /\ Unchanged /\ UNCHANGED <<envState, overtaken, authGate, worker>>

\* A healthy command dies; its supervisor takes restartMu.
Crash(c) ==
  /\ commands[c].state = "healthy" /\ commands[c].episode = "none"
  /\ ~commands[c].cancelled
  /\ Fault("crash")
  /\ commands' = [commands EXCEPT ![c].episode = "crash", ![c].phase = "again"]
  /\ UNCHANGED <<authGate, worker, ops>> /\ EnvsStay

\* attemptRestart, top of the loop: give up, or tear down and back off.
GiveUp(c) ==
  /\ commands[c].phase = "again" /\ commands[c].retries >= MaxRetries
  /\ commands' = [commands EXCEPT ![c].phase = "report", ![c].state = "error"]
  /\ Tell(c)
  /\ Unchanged /\ UNCHANGED <<envState, overtaken, authGate, worker>>

Retry(c) ==
  /\ commands[c].phase = "again" /\ commands[c].retries < MaxRetries
  /\ commands' = [commands EXCEPT ![c].phase = "backoff",
                                  ![c].state = "restarting"]
  /\ Unchanged /\ UNCHANGED <<authGate, worker>> /\ EnvsStay

\* The backoff elapses, or a user stop or restart wins.
BackoffEnds(c) ==
  /\ commands[c].phase = "backoff"
  /\ commands' = IF commands[c].cancelled
       THEN [commands EXCEPT ![c].phase = "idle", ![c].episode = "none"]
       ELSE [commands EXCEPT ![c].phase = "gate"]
  /\ Unchanged /\ UNCHANGED <<authGate, worker>> /\ EnvsStay

-----------------------------------------------------------------------------
(* Restarting a command, stopping an environment *)

\* RestartCommand: refused unless held; cancels the supervisor.
RestartCommand(w, c) ==
  /\ worker[w].pc = "idle"
  /\ commands[c].holders # {}
  /\ Request("restart")
  /\ commands' = [commands EXCEPT ![c].state = "restarting",
                                  ![c].cancelled = TRUE]
  /\ worker' = [worker EXCEPT ![w] = [Idle EXCEPT !.pc = "restart", !.cmd = c]]
  /\ UNCHANGED <<authGate, faults>> /\ EnvsStay

\* restartCommandInPlace, once the barrier, the supervisor and restartMu let
\* it: teardown, then a relaunch.
RestartBegins(w) ==
  LET c == worker[w].cmd IN
  /\ worker[w].pc = "restart"
  /\ commands[c].settled /\ commands[c].episode = "none"
  /\ commands' = [commands EXCEPT ![c].state = "restarting",
                    ![c].cancelled = FALSE, ![c].retries = 0,
                    ![c].episode = "user", ![c].phase = "gate"]
  /\ worker' = [worker EXCEPT ![w] = Idle]
  /\ Unchanged /\ UNCHANGED authGate /\ EnvsStay

StopEnvironment(w, e) ==
  /\ worker[w].pc = "idle"
  /\ Request("stop")
  /\ worker' = [worker EXCEPT ![w] =
       [Idle EXCEPT !.pc = "release", !.env = e]]
  /\ SetEnvState(e, "stopping") /\ InTime(e)
  /\ UNCHANGED <<commands, report, authGate, faults>>

\* The holders that are left when the environment of w lets c go.
OtherHolders(w, c) == commands[c].holders \ {worker[w].env}

\* releaseCommand where others hold the command, or it was never started.
ReleaseShared(w) ==
  LET c == Reached(w) IN
  /\ worker[w].pc = "release" /\ InLoop(w)
  /\ commands[c].barrier = 0 \/ OtherHolders(w, c) # {}
  /\ commands' = [commands EXCEPT ![c].holders = OtherHolders(w, c)]
  /\ worker' = [worker EXCEPT ![w].pc = worker[w].then, ![w].i = @ + 1]
  /\ Unchanged /\ UNCHANGED authGate /\ EnvsStay

\* releaseCommand by the last holder: cancel, report, wait for the barrier.
ReleaseLast(w) ==
  LET c == Reached(w) IN
  /\ worker[w].pc = "release" /\ InLoop(w)
  /\ commands[c].barrier # 0 /\ OtherHolders(w, c) = {}
  /\ commands' = [commands EXCEPT
       ![c].holders = {}, ![c].cancelled = TRUE,
       ![c].state = IF @ \in Active THEN "stopping" ELSE @]
  /\ worker' = [worker EXCEPT ![w].pc = "barrier",
                              ![w].seen[c] = commands[c].barrier]
  /\ Unchanged /\ UNCHANGED authGate /\ EnvsStay

\* stopCommand, after the barrier.
StopCommand(w) ==
  LET c == Reached(w) IN
  /\ worker[w].pc = "barrier"
  /\ commands[c].settled \/ commands[c].barrier # worker[w].seen[c]
  /\ commands' = [commands EXCEPT ![c].state = "stopped"]
  /\ worker' = [worker EXCEPT ![w].pc = worker[w].then, ![w].i = @ + 1]
  /\ Unchanged /\ UNCHANGED authGate /\ EnvsStay

StopEnds(w) ==
  /\ worker[w].pc = "release" /\ ~InLoop(w)
  /\ SetEnvState(worker[w].env, "stopped") /\ InTime(worker[w].env)
  /\ worker' = [worker EXCEPT ![w] = Idle]
  /\ Unchanged /\ UNCHANGED <<commands, report, authGate>>

-----------------------------------------------------------------------------
WorkerStep(w) ==
  \/ ResetSkip(w) \/ ResetRelease(w) \/ ResetShared(w) \/ RestartInPlace(w)
  \/ RetryDone(w) \/ ResetDone(w) \/ RunSums(w) \/ RunEnds(w)
  \/ RestartBegins(w)
  \/ ReleaseShared(w) \/ ReleaseLast(w) \/ StopCommand(w) \/ StopEnds(w)

StepOf(w, c) ==
  SkipStep(w, c) \/ AcquireNew(w, c) \/ AcquireJoin(w, c) \/ StepEnds(w, c)

ReportStep(c) == ReportActive(c) \/ ReportSums(c) \/ ReportWrites(c)

\* The steps of an episode that need no fault and no request.
EpisodeStep(c) ==
  \/ Launch(c) \/ StartUp(c) \/ RelaunchUp(c) \/ Publish(c)
  \/ GiveUp(c) \/ Retry(c) \/ BackoffEnds(c) \/ ReportStep(c)

FaultStep(c) ==
  PrepareFails(c) \/ StartFails(c) \/ RelaunchFails(c) \/ Crash(c)

\* What each start has seen up since it began.
Observe ==
  upSince' = [w \in Workers |->
    IF worker'[w].pc # "idle" /\ worker'[w].then = "reset"
      THEN upSince[w] \cup {c \in Commands : commands'[c].state \in Up}
      ELSE {}]

Step ==
  \/ \E w \in Workers, e \in Envs : StartEnvironment(w, e) \/ StopEnvironment(w, e)
  \/ \E w \in Workers, c \in Commands : RestartCommand(w, c) \/ StepOf(w, c)
  \/ \E w \in Workers : WorkerStep(w)
  \/ \E c \in Commands : EpisodeStep(c) \/ FaultStep(c)

Next == Step /\ Observe

Spec == Init /\ [][Next]_vars

\* Every goroutine that can run does (weaker than what the Go scheduler gives:
\* the steps of a worker share one condition).  The gate needs no more: with
\* finitely many requests and faults no command can starve another one of it.
Fairness ==
  /\ \A w \in Workers :
       WF_vars((WorkerStep(w) \/ \E c \in Commands : StepOf(w, c)) /\ Observe)
  /\ \A c \in Commands : WF_vars(EpisodeStep(c) /\ Observe)

FairSpec == Spec /\ Fairness

-----------------------------------------------------------------------------
(* Correctness *)

TypeOK ==
  /\ commands \in [Commands -> CommandRecord]
  /\ envState \in [Envs -> EnvStates]
  /\ report \in [Commands -> ReportRecord]
  /\ authGate \in Commands \cup {Open}
  /\ worker \in [Workers -> WorkerRecord]
  /\ ops \in 0 .. MaxOps /\ faults \in 0 .. MaxFaults
  /\ upSince \in [Workers -> SUBSET Commands] /\ overtaken \subseteq Envs

\* "Each command waits for its dependencies to be healthy" (README.md): a run
\* acquires a command only after each of its dependencies was seen up in this
\* very run, whoever started, restarted or stopped commands meanwhile.
DependenciesFirst ==
  [][\A w \in Workers, c \in Commands :
       /\ worker[w].step[c] = "waiting"
       /\ worker'[w].step[c] \in {"starting", "joining"}
       => DependsOn[worker[w].env][c] \subseteq upSince[w]]_vars

\* Interactive logins never overlap (docs/configuration.md, interactive-auth),
\* in first starts, automatic and user restarts and retries alike.
OneLogin ==
  \A c, d \in Interactive :
    commands[c].phase = "launched" /\ commands[d].phase = "launched" => c = d

\* No operation under way and no episode.
Quiet ==
  /\ \A w \in Workers : worker[w].pc = "idle"
  /\ \A c \in Commands : commands[c].episode = "none"

\* At rest, what an environment reported running holds is up: no failure or
\* restart of a shared command went unreported, whoever rolls up what at the
\* same time.  The exceptions are a state that was out of date when it was
\* written, its roll-up having been overtaken between its two sections
\* (recomputeEnvState), and a command that a stop of another environment took
\* down while this one was joining it (CommandSupervisor!StopsOnlyUnheld).
RunningMeansUp ==
  Quiet => \A e \in Envs \ overtaken, c \in Commands :
    envState[e] = "running" /\ e \in commands[c].holders
      => commands[c].state \in Up \cup {"stopped"}

\* The same without that exception.
RunningMeansUpEver ==
  Quiet => \A e \in Envs, c \in Commands :
    envState[e] = "running" /\ e \in commands[c].holders
      => commands[c].state \in Up \cup {"stopped"}

\* "a shared command's state changes never resurrect" a stopped environment
\* (isEnvActive): only a client takes it out of "stopped", by a request or by a
\* start of it that was under way.
StoppedStaysStopped ==
  [][\A e \in Envs :
       /\ envState[e] = "stopped" /\ envState'[e] # "stopped"
       /\ \A w \in Workers : ~(worker[w].env = e /\ worker[w].then = "reset")
       => envState'[e] \in {"starting", "stopping"}]_envState

\* "running: all commands are healthy" (docs/configuration.md), at rest, for
\* every command of the workflow, held or not.
RunningMeansAllUp ==
  Quiet => \A e \in Envs : envState[e] = "running" =>
             \A c \in Steps(e) : commands[c].state \in Up

\* Every start, retry, stop and restart ends, also where environments order
\* the same commands in opposite ways and logins queue for the gate.
OperationsEnd ==
  \A w \in Workers : worker[w].pc # "idle" ~> worker[w].pc = "idle"

\* Starting a failed environment again leaves "healthy/done commands ...
\* running untouched" (StartEnvironment): what is healthy is never restarted
\* by a retry.
RetryLeavesHealthyAlone ==
  [][\A c \in Commands :
       commands[c].state = "healthy" /\ commands[c].episode = "none"
         => commands'[c].episode # "retry"]_vars
=============================================================================
