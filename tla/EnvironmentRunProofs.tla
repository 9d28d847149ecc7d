------------------------ MODULE EnvironmentRunProofs ------------------------
(***************************************************************************)
(* Proofs about environments made of several commands, for any number of   *)
(* environments, commands, clients, operations, retries and faults:        *)
(* dependencies come first, interactive logins do not overlap, and what an *)
(* environment reported running holds is up.                               *)
(***************************************************************************)
EXTENDS EnvironmentRun, FiniteSetTheorems, TLAPS

-----------------------------------------------------------------------------
(* The inductive invariant *)

\* A worker starts an environment from its request to the final roll-up, the
\* release of a failed command included; a loop over the workflow is inside of it
\* whenever a step acts on the command it has reached.
WorkerControl ==
  \A w \in Workers :
    /\ worker[w].i # 0
    /\ worker[w].pc \in {"reset", "retry", "retrying", "run", "write"}
         => worker[w].then = "reset"
    /\ worker[w].pc \in {"idle", "restart"} => worker[w].then = "release"
    /\ worker[w].pc \in {"retry", "retrying", "barrier"} => InLoop(w)
    /\ worker[w].pc = "release" /\ worker[w].then = "reset" => InLoop(w)

\* The phases of a roll-up, under restartMu.
Reporting == {"report", "sum", "write"}

\* Only the automatic cycle backs off, and only while it has a retry left.
CrashCycle ==
  \A c \in Commands :
    /\ commands[c].episode = "none" => commands[c].phase = "idle"
    /\ commands[c].phase \in {"again", "backoff"} => commands[c].episode = "crash"
    /\ commands[c].episode = "crash" /\ commands[c].phase \in {"backoff", "gate", "launched"}
         => commands[c].retries < MaxRetries

\* A login that is under way has the gate.
GateHeld ==
  \A c \in Interactive : commands[c].phase = "launched" => authGate = c

\* A step that ended up was seen up in its own run.
SeenUp ==
  \A w \in Workers, c \in Commands :
    worker[w].step[c] = "up" => worker[w].then = "reset" /\ c \in upSince[w]

\* A healthy command has no episode, or one that reports, or has just died.
UpAtRest ==
  \A c \in Commands :
    commands[c].state \in Up =>
      \/ commands[c].episode = "none" \/ commands[c].phase \in Reporting
      \/ commands[c].episode = "crash" /\ ~commands[c].cancelled

HoldersInPlan ==
  \A c \in Commands, e \in Envs : e \in commands[c].holders => c \in Steps(e)

\* A start of e is under way, and will roll it up; a restart of c is asked for.
Driven(e) == \E w \in Workers : worker[w].env = e /\ worker[w].then = "reset"
Asked(c)  == \E w \in Workers : worker[w].pc = "restart" /\ worker[w].cmd = c

\* Whatever happens to c next is told to e, or c is at rest, up or stopped.
Owed(e, c) ==
  \/ Driven(e) \/ Asked(c)
  \/ /\ commands[c].phase \notin Reporting
     /\ \/ commands[c].episode \in {"user", "retry"}
        \/ commands[c].episode = "crash" /\ ~commands[c].cancelled
  \/ commands[c].phase \in Reporting /\ e \in report[c].todo
  \/ /\ commands[c].episode = "none" \/ commands[c].phase \in Reporting
     /\ commands[c].state \in Up \cup {"stopped"}

\* It is to every environment that holds c and is reported running, unless that
\* report was out of date.
Reported ==
  \A e \in Envs \ overtaken, c \in Commands :
    envState[e] = "running" /\ e \in commands[c].holders => Owed(e, c)

IInv ==
  /\ TypeOK /\ WorkerControl /\ CrashCycle
  /\ GateHeld /\ SeenUp /\ UpAtRest /\ HoldersInPlan /\ Reported

-----------------------------------------------------------------------------
(* Types *)

LEMMA Constants ==
  /\ \A e \in Envs : Workflow[e] \in Seq(Commands)
  /\ Idle \in WorkerRecord
  /\ Idle.pc = "idle" /\ Idle.then = "release" /\ Idle.i = 1
  /\ \A c \in Commands : Idle.step[c] = "waiting"
  /\ Absent \in CommandRecord
  /\ \A t \in SUBSET Envs : [NoReport EXCEPT !.todo = t] \in ReportRecord
  /\ NoReport \in ReportRecord
<1>1. \A e \in Envs : Workflow[e] \in Seq(Commands)
  BY WorkflowsOK
<1>2. (CHOOSE e \in Envs : TRUE) \in Envs /\ (CHOOSE c \in Commands : TRUE) \in Commands
  BY WorkflowsOK
<1>3. Idle \in WorkerRecord
  BY <1>2 DEF Idle, WorkerRecord, EnvStates
<1>5. NoReport \in ReportRecord /\ \A t \in SUBSET Envs : [NoReport EXCEPT !.todo = t] \in ReportRecord
  BY <1>2 DEF NoReport, ReportRecord, EnvStates
<1>4. Absent \in CommandRecord
  BY WorkflowsOK DEF Absent, CommandRecord
<1> QED BY <1>1, <1>3, <1>4, <1>5 DEF Idle

LEMMA ReachedType ==
  ASSUME TypeOK, WorkerControl, NEW w \in Workers, InLoop(w)
  PROVE  /\ Reached(w) \in Commands
         /\ Reached(w) \in Steps(worker[w].env)
<1>1. worker[w].env \in Envs /\ worker[w].i \in Nat
  BY DEF TypeOK, WorkerRecord
<1>2. worker[w].i \in 1 .. Len(Workflow[worker[w].env])
  BY <1>1 DEF WorkerControl, InLoop
<1>3. Workflow[worker[w].env] \in Seq(Commands)
  BY <1>1, Constants
<1> QED BY <1>2, <1>3 DEF Reached, Steps

LEMMA StepsAreCommands == \A e \in Envs : Steps(e) \subseteq Commands
<1> SUFFICES ASSUME NEW e \in Envs PROVE Steps(e) \subseteq Commands
  OBVIOUS
<1>1. Workflow[e] \in Seq(Commands)
  BY Constants
<1> QED BY <1>1 DEF Steps

LEMMA RollupType == \A e, cs : Rollup(e, cs) \in EnvStates
  BY DEF Rollup, EnvStates

CommandsType == commands \in [Commands -> CommandRecord]
WorkersType  == worker \in [Workers -> WorkerRecord]
EnvTypes     == /\ envState \in [Envs -> EnvStates]
                /\ report \in [Commands -> ReportRecord]
                /\ overtaken \subseteq Envs

LEMMA DerivedType ==
  ASSUME EnvTypes, NEW e \in Envs, NEW state \in EnvStates, Derived(e, state)
  PROVE  envState' \in [Envs -> EnvStates] /\ overtaken' \subseteq Envs
BY DEF EnvTypes, Derived, SetEnvState

\* A step of an episode leaves the workers alone, ...
LEMMA EpisodeTypes ==
  ASSUME TypeOK, CrashCycle, NEW c \in Commands, EpisodeStep(c) \/ FaultStep(c)
  PROVE  /\ CommandsType' /\ EnvTypes' /\ UNCHANGED worker
         /\ authGate' \in Commands \cup {Open}
         /\ ops' \in 0 .. MaxOps /\ faults' \in 0 .. MaxFaults
<1> USE DEF CommandsType
<1>0. /\ commands \in [Commands -> CommandRecord] /\ EnvTypes
      /\ authGate \in Commands \cup {Open} /\ ops \in 0 .. MaxOps /\ faults \in 0 .. MaxFaults
  BY DEF TypeOK, EnvTypes
<1>a. GateFreed(c) \in Commands \cup {Open}
  BY <1>0 DEF GateFreed
<1>b. ASSUME NEW f, Fault(f) PROVE faults' \in 0 .. MaxFaults
  BY <1>0, <1>b, WorkflowsOK DEF Fault
<1>c. /\ EnvsStay => EnvTypes'
      /\ Tell(c) /\ UNCHANGED <<envState, overtaken>> => EnvTypes'
  <2>1. EnvsOf(c) \in SUBSET Envs
    BY DEF EnvsOf
  <2>2. [NoReport EXCEPT !.todo = EnvsOf(c)] \in ReportRecord
    BY <2>1, Constants
  <2> QED BY <1>0, <2>2 DEF EnvsStay, Tell, EnvTypes
<1>d. commands[c] \in CommandRecord /\ 0 \in 0 .. MaxRetries
  BY <1>0, WorkflowsOK
<1>1. CASE Launch(c)
  <2>1. commands[c].barrier \in Nat /\ commands[c].barrier + 1 \in Nat
    BY <1>d DEF CommandRecord
  <2>2. (IF commands[c].episode = "start" THEN commands[c].barrier
                                          ELSE commands[c].barrier + 1) \in Nat
    BY <2>1
  <2>3. CommandsType'
    BY <1>0, <1>1, <1>d, <2>2 DEF Launch, CommandRecord
  <2> QED BY <1>0, <1>1, <1>c, <2>3 DEF Launch, Unchanged
<1>2. CASE StartUp(c)
  BY <1>0, <1>2, <1>a, <1>c, <1>d DEF StartUp, Settle, CommandRecord
<1>3. CASE RelaunchUp(c)
  BY <1>0, <1>3, <1>a, <1>c, <1>d DEF RelaunchUp, Unchanged, CommandRecord
<1>4. CASE Publish(c)
  BY <1>0, <1>4, <1>c, <1>d DEF Publish, Unchanged, CommandRecord
<1>5. CASE GiveUp(c)
  BY <1>0, <1>5, <1>c, <1>d DEF GiveUp, Unchanged, CommandRecord
<1>6. CASE Retry(c)
  BY <1>0, <1>6, <1>c, <1>d DEF Retry, Unchanged, CommandRecord
<1>7. CASE BackoffEnds(c)
  BY <1>0, <1>7, <1>c, <1>d DEF BackoffEnds, Unchanged, CommandRecord
<1>8. CASE PrepareFails(c)
  BY <1>0, <1>8, <1>b, <1>c, <1>d DEF PrepareFails, CommandRecord
<1>9. CASE StartFails(c)
  BY <1>0, <1>9, <1>a, <1>b, <1>c, <1>d DEF StartFails, Settle, CommandRecord
<1>10. CASE RelaunchFails(c)
  <2>1. CASE commands[c].episode = "crash"
    <3>1. commands[c].retries + 1 \in 0 .. MaxRetries
      BY <1>10, <1>d, <2>1, WorkflowsOK DEF RelaunchFails, CrashCycle, CommandRecord
    <3>2. EnvsStay
      BY <1>10, <2>1 DEF RelaunchFails, EnvsStay
    <3> QED BY <1>0, <1>10, <1>a, <1>b, <1>c, <1>d, <2>1, <3>1, <3>2 DEF RelaunchFails, CommandRecord
  <2>2. CASE commands[c].episode # "crash"
    BY <1>0, <1>10, <1>a, <1>b, <1>c, <1>d, <2>2 DEF RelaunchFails, CommandRecord
  <2> QED BY <2>1, <2>2
<1>11. CASE Crash(c)
  BY <1>0, <1>11, <1>b, <1>c, <1>d DEF Crash, CommandRecord
<1>e. report[c] \in ReportRecord /\ report[c].todo \in SUBSET Envs /\ report[c].env \in Envs
      /\ report[c].sum \in EnvStates
  BY <1>0 DEF EnvTypes, ReportRecord
<1>f. ASSUME NEW e, Told(c, e)
      PROVE  CommandsType' /\ report' \in [Commands -> ReportRecord]
  <2> DEFINE left == report[c].todo \ {e}
             next == [commands[c] EXCEPT !.phase = IF left = {} THEN "idle" ELSE "report",
                                         !.episode = IF left = {} THEN "none" ELSE @]
  <2>1. left \in SUBSET Envs /\ next \in CommandRecord
    BY <1>d, <1>e DEF CommandRecord
  <2>2. [NoReport EXCEPT !.todo = left] \in ReportRecord
    BY <2>1, Constants
  <2>3. /\ commands' = [commands EXCEPT ![c] = next]
        /\ report' = [report EXCEPT ![c] = [NoReport EXCEPT !.todo = left]]
    BY <1>0, <1>f DEF Told
  <2> HIDE DEF left, next
  <2> QED BY <1>0, <2>1, <2>2, <2>3 DEF EnvTypes
<1>12. CASE ReportActive(c)
  <2>1. CASE Told(c, Pick(report[c].todo))
    BY <1>0, <1>12, <1>f, <2>1 DEF ReportActive, Unchanged, EnvTypes
  <2>2. CASE ~Told(c, Pick(report[c].todo))
    <3>1. /\ report[c].todo # {} /\ report' = [report EXCEPT ![c].env = Pick(report[c].todo)]
          /\ commands' = [commands EXCEPT ![c].phase = "sum"]
      BY <1>12, <2>2 DEF ReportActive
    <3>2. Pick(report[c].todo) \in Envs
      BY <1>e, <3>1 DEF Pick
    <3>3. report' \in [Commands -> ReportRecord] /\ CommandsType'
      BY <1>0, <1>d, <1>e, <3>1, <3>2 DEF ReportRecord, CommandRecord, EnvTypes
    <3> QED BY <1>0, <1>12, <3>3 DEF ReportActive, Unchanged, EnvTypes
  <2> QED BY <2>1, <2>2
<1>13. CASE ReportSums(c)
  <2>1. Rollup(report[c].env, commands) \in EnvStates
    BY RollupType
  <2>2. report' \in [Commands -> ReportRecord] /\ CommandsType'
    BY <1>0, <1>13, <1>d, <1>e, <2>1 DEF ReportSums, ReportRecord, CommandRecord, EnvTypes
  <2> QED BY <1>0, <1>13, <2>2 DEF ReportSums, Unchanged, EnvTypes
<1>14. CASE ReportWrites(c)
  <2>1. envState' \in [Envs -> EnvStates] /\ overtaken' \subseteq Envs
    BY <1>0, <1>14, <1>e, DerivedType DEF ReportWrites
  <2>2. CommandsType' /\ report' \in [Commands -> ReportRecord]
    BY <1>14, <1>f DEF ReportWrites
  <2> QED BY <1>0, <1>14, <2>1, <2>2 DEF ReportWrites, Unchanged, EnvTypes
<1> QED BY <1>1, <1>2, <1>3, <1>4, <1>5, <1>6, <1>7, <1>8, <1>9, <1>10, <1>11, <1>12, <1>13, <1>14
       DEF EpisodeStep, ReportStep, FaultStep

\* ... and so do its faults; a step of a worker changes at most one command.
LEMMA WorkerTypes ==
  ASSUME TypeOK, WorkerControl, NEW w \in Workers, WorkerStep(w)
  PROVE  /\ CommandsType' /\ WorkersType' /\ EnvTypes' /\ WorkerControl'
         /\ UNCHANGED <<authGate, ops, faults>>
<1> USE DEF CommandsType, WorkersType
<1>0. /\ commands \in [Commands -> CommandRecord] /\ WorkersType /\ EnvTypes
      /\ worker[w] \in WorkerRecord
  BY DEF TypeOK, EnvTypes
<1>1. /\ worker[w].env \in Envs /\ worker[w].i \in Nat /\ worker[w].i + 1 \in Nat
      /\ worker[w].i + 1 # 0 /\ worker[w].cmd \in Commands /\ worker[w].sum \in EnvStates
  BY <1>0 DEF WorkerRecord
<1>2. ASSUME InLoop(w) PROVE Reached(w) \in Commands
  BY <1>2, ReachedType
<1>c. ASSUME InLoop(w) PROVE commands[Reached(w)] \in CommandRecord
  BY <1>2, <1>c, <1>0
<1>3. /\ Rollup(worker[w].env, commands) \in EnvStates
      /\ EnvsStay => EnvTypes'
  BY <1>0, RollupType DEF EnvsStay, EnvTypes
<1>4. 0 \in 0 .. MaxRetries /\ 0 \in Nat
  BY WorkflowsOK
<1>a. CASE ResetSkip(w)
  BY <1>0, <1>1, <1>3, <1>a DEF ResetSkip, Forward, Unchanged, WorkerRecord, WorkerControl, InLoop
<1>b. CASE ResetRelease(w)
  BY <1>0, <1>1, <1>3, <1>b DEF ResetRelease, Goto, Unchanged, WorkerRecord, WorkerControl, InLoop
<1>d. CASE ResetShared(w)
  BY <1>0, <1>1, <1>3, <1>d DEF ResetShared, Goto, Unchanged, WorkerRecord, WorkerControl, InLoop
<1>e. CASE RestartInPlace(w)
  <2>1. InLoop(w)
    BY <1>e DEF RestartInPlace, WorkerControl
  <2>2. CommandsType'
    BY <1>0, <1>2, <1>4, <1>c, <1>e, <2>1 DEF RestartInPlace, CommandRecord
  <2> QED BY <1>0, <1>1, <1>3, <1>e, <2>2
          DEF RestartInPlace, Goto, Unchanged, WorkerRecord, WorkerControl, InLoop
<1>f. CASE RetryDone(w)
  BY <1>0, <1>1, <1>3, <1>f DEF RetryDone, Unchanged, WorkerRecord, WorkerControl, InLoop
<1>g. CASE ResetDone(w)
  BY <1>0, <1>1, <1>3, <1>g DEF ResetDone, Goto, Unchanged, WorkerRecord, WorkerControl, InLoop
<1>n. CASE RunSums(w)
  BY <1>0, <1>1, <1>3, <1>n DEF RunSums, Unchanged, WorkerRecord, WorkerControl, InLoop
<1>h. CASE RunEnds(w)
  <2>1. WorkersType' /\ WorkerControl'
    BY <1>0, <1>h, Constants DEF RunEnds, WorkerControl, InLoop
  <2>2. EnvTypes'
    BY <1>0, <1>1, <1>h, DerivedType DEF RunEnds, EnvTypes
  <2> QED BY <1>0, <1>1, <1>h, <2>1, <2>2 DEF RunEnds, Unchanged
<1>i. CASE RestartBegins(w)
  <2>1. WorkersType' /\ WorkerControl'
    BY <1>0, <1>i, Constants DEF RestartBegins, WorkerControl, InLoop
  <2>2. commands[worker[w].cmd] \in CommandRecord
    BY <1>0, <1>1
  <2>3. CommandsType'
    BY <1>0, <1>1, <1>4, <1>i, <2>2 DEF RestartBegins, CommandRecord
  <2> QED BY <1>0, <1>3, <1>i, <2>1, <2>3 DEF RestartBegins, Unchanged
<1>j. CASE ReleaseShared(w)
  <2>1. InLoop(w)
    BY <1>j DEF ReleaseShared
  <2>2. OtherHolders(w, Reached(w)) \in SUBSET Envs
    BY <1>c, <2>1 DEF OtherHolders, CommandRecord
  <2>3. CommandsType'
    BY <1>0, <1>2, <1>c, <1>j, <2>1, <2>2 DEF ReleaseShared, CommandRecord
  <2>4. WorkersType' /\ WorkerControl'
    BY <1>0, <1>1, <1>j DEF ReleaseShared, WorkerRecord, WorkerControl, InLoop
  <2> QED BY <1>0, <1>3, <1>j, <2>3, <2>4 DEF ReleaseShared, Unchanged
<1>k. CASE ReleaseLast(w)
  <2>1. InLoop(w)
    BY <1>k DEF ReleaseLast
  <2>2. commands[Reached(w)].barrier \in Nat
    BY <1>c, <2>1 DEF CommandRecord
  <2>3. CommandsType'
    BY <1>0, <1>2, <1>c, <1>k, <2>1 DEF ReleaseLast, CommandRecord
  <2>4. WorkersType' /\ WorkerControl'
    BY <1>0, <1>1, <1>2, <1>k, <2>1, <2>2 DEF ReleaseLast, WorkerRecord, WorkerControl, InLoop
  <2> QED BY <1>0, <1>3, <1>k, <2>3, <2>4 DEF ReleaseLast, Unchanged
<1>l. CASE StopCommand(w)
  <2>1. InLoop(w)
    BY <1>l DEF StopCommand, WorkerControl
  <2>2. CommandsType'
    BY <1>0, <1>2, <1>c, <1>l, <2>1 DEF StopCommand, CommandRecord
  <2>3. WorkersType' /\ WorkerControl'
    BY <1>0, <1>1, <1>l DEF StopCommand, WorkerRecord, WorkerControl, InLoop
  <2> QED BY <1>0, <1>3, <1>l, <2>2, <2>3 DEF StopCommand, Unchanged
<1>m. CASE StopEnds(w)
  <2>1. WorkersType' /\ WorkerControl'
    BY <1>0, <1>m, Constants DEF StopEnds, WorkerControl, InLoop
  <2>2. EnvTypes'
    BY <1>0, <1>1, <1>m DEF StopEnds, SetEnvState, InTime, EnvTypes, EnvStates
  <2> QED BY <1>0, <1>1, <1>m, <2>1, <2>2 DEF StopEnds, Unchanged
<1> QED BY <1>a, <1>b, <1>d, <1>e, <1>f, <1>g, <1>h, <1>i, <1>j, <1>k, <1>l, <1>m, <1>n
        DEF WorkerStep

LEMMA StepTypes ==
  ASSUME TypeOK, WorkerControl, NEW w \in Workers, NEW c \in Commands, StepOf(w, c)
  PROVE  /\ CommandsType' /\ WorkersType' /\ WorkerControl'
         /\ UNCHANGED <<envState, report, overtaken, authGate, ops, faults>>
<1> USE DEF CommandsType, WorkersType
<1>0. /\ commands \in [Commands -> CommandRecord] /\ WorkersType
      /\ worker[w] \in WorkerRecord /\ commands[c] \in CommandRecord
  BY DEF TypeOK
<1>1. worker[w].env \in Envs /\ commands[c].barrier \in Nat /\ commands[c].barrier + 1 \in Nat
  BY <1>0 DEF WorkerRecord, CommandRecord
<1>2. Absent \in CommandRecord /\ commands[c].holders \in SUBSET Envs
  BY <1>0, Constants DEF CommandRecord
<1>a. CASE SkipStep(w, c)
  BY <1>0, <1>a DEF SkipStep, Unchanged, EnvsStay, WorkerRecord, WorkerControl, InLoop
<1>b. CASE AcquireNew(w, c)
  <2>1. CommandsType'
    BY <1>0, <1>1, <1>2, <1>b DEF AcquireNew, CommandRecord
  <2> QED BY <1>0, <1>b, <2>1
          DEF AcquireNew, ReadyToAcquire, Unchanged, EnvsStay, WorkerRecord, WorkerControl, InLoop
<1>d. CASE AcquireJoin(w, c)
  <2>1. CommandsType'
    BY <1>0, <1>1, <1>2, <1>d DEF AcquireJoin, CommandRecord
  <2> QED BY <1>0, <1>1, <1>d, <2>1
          DEF AcquireJoin, ReadyToAcquire, Unchanged, EnvsStay, WorkerRecord, WorkerControl, InLoop
<1>e. CASE StepEnds(w, c)
  <2>1. StepOutcome(c) \in {"up", "down"}
    BY DEF StepOutcome
  <2> QED BY <1>0, <1>e, <2>1 DEF StepEnds, Unchanged, EnvsStay, WorkerRecord, WorkerControl, InLoop
<1> QED BY <1>a, <1>b, <1>d, <1>e DEF StepOf

\* The requests of the clients.
Requested(w) ==
  \/ \E e \in Envs : StartEnvironment(w, e) \/ StopEnvironment(w, e)
  \/ \E c \in Commands : RestartCommand(w, c)

\* What a request makes of an idle worker.
Fresh ==
  {r \in WorkerRecord :
     /\ r.i = 1 /\ r.step = Idle.step
     /\ \/ r.then = "reset" /\ r.pc \in {"reset", "run"}
        \/ r.then = "release" /\ r.pc \in {"release", "restart"}}

LEMMA FreshWorker ==
  ASSUME NEW w \in Workers, Requested(w)
  PROVE  \E next \in Fresh : worker' = [worker EXCEPT ![w] = next]
<1>0. Idle \in WorkerRecord /\ Idle.then = "release" /\ Idle.i = 1
  BY Constants
<1>1. ASSUME NEW e \in Envs, StartEnvironment(w, e)
      PROVE  \E next \in Fresh : worker' = [worker EXCEPT ![w] = next]
  <2> DEFINE next == [Idle EXCEPT !.env = e, !.then = "reset",
                        !.pc = IF envState[e] \in {"error", "degraded"} THEN "reset" ELSE "run"]
  <2>1. next \in Fresh
    BY <1>0 DEF Fresh, WorkerRecord
  <2>2. worker' = [worker EXCEPT ![w] = next]
    BY <1>1 DEF StartEnvironment
  <2> QED BY <2>1, <2>2
<1>2. ASSUME NEW e \in Envs, StopEnvironment(w, e)
      PROVE  \E next \in Fresh : worker' = [worker EXCEPT ![w] = next]
  <2> DEFINE next == [Idle EXCEPT !.pc = "release", !.env = e]
  <2>1. next \in Fresh
    BY <1>0 DEF Fresh, WorkerRecord
  <2>2. worker' = [worker EXCEPT ![w] = next]
    BY <1>2 DEF StopEnvironment
  <2> QED BY <2>1, <2>2
<1>3. ASSUME NEW c \in Commands, RestartCommand(w, c)
      PROVE  \E next \in Fresh : worker' = [worker EXCEPT ![w] = next]
  <2> DEFINE next == [Idle EXCEPT !.pc = "restart", !.cmd = c]
  <2>1. next \in Fresh
    BY <1>0 DEF Fresh, WorkerRecord
  <2>2. worker' = [worker EXCEPT ![w] = next]
    BY <1>3 DEF RestartCommand
  <2> QED BY <2>1, <2>2
<1> QED BY <1>1, <1>2, <1>3 DEF Requested

LEMMA RequestTypes ==
  ASSUME TypeOK, WorkerControl, NEW w \in Workers, Requested(w)
  PROVE  /\ CommandsType' /\ WorkersType' /\ EnvTypes' /\ WorkerControl'
         /\ UNCHANGED <<authGate, faults>> /\ ops' \in 0 .. MaxOps
<1> USE DEF CommandsType, WorkersType
<1>0. /\ commands \in [Commands -> CommandRecord] /\ WorkersType /\ EnvTypes
      /\ ops \in 0 .. MaxOps
  BY DEF TypeOK, EnvTypes
<1>1. ASSUME NEW op, Request(op) PROVE ops' \in 0 .. MaxOps
  BY <1>0, <1>1, WorkflowsOK DEF Request
<1>2. WorkersType' /\ WorkerControl'
  <2>1. PICK next \in Fresh : worker' = [worker EXCEPT ![w] = next]
    BY FreshWorker
  <2>2. next \in WorkerRecord
    BY DEF Fresh
  <2> QED BY <1>0, <2>1, <2>2 DEF Fresh, WorkerControl, InLoop
<1>a. ASSUME NEW e \in Envs, StartEnvironment(w, e) \/ StopEnvironment(w, e)
      PROVE  /\ CommandsType' /\ EnvTypes'
             /\ UNCHANGED <<authGate, faults>> /\ ops' \in 0 .. MaxOps
  BY <1>0, <1>1, <1>a
     DEF StartEnvironment, StopEnvironment, SetEnvState, InTime, EnvTypes, EnvStates
<1>b. ASSUME NEW c \in Commands, RestartCommand(w, c)
      PROVE  /\ CommandsType' /\ EnvTypes'
             /\ UNCHANGED <<authGate, faults>> /\ ops' \in 0 .. MaxOps
  <2> DEFINE down == [commands[c] EXCEPT !.state = "restarting", !.cancelled = TRUE]
  <2>1. commands[c] \in CommandRecord
    BY <1>0
  <2>2. down \in CommandRecord
    BY <2>1 DEF CommandRecord
  <2>3. commands' = [commands EXCEPT ![c] = down]
    BY <1>0, <1>b DEF RestartCommand
  <2> HIDE DEF down
  <2>4. CommandsType'
    BY <1>0, <2>2, <2>3
  <2> QED BY <1>0, <1>1, <1>b, <2>4 DEF RestartCommand, EnvsStay, EnvTypes
<1> QED BY <1>2, <1>a, <1>b DEF Requested

\* The four kinds of steps.
LEMMA StepCases ==
  ASSUME Step
  PROVE  \/ \E w \in Workers : Requested(w) \/ WorkerStep(w)
         \/ \E w \in Workers, c \in Commands : StepOf(w, c)
         \/ \E c \in Commands : EpisodeStep(c) \/ FaultStep(c)
  BY DEF Step, Requested

LEMMA TypeStep ==
  ASSUME TypeOK, WorkerControl, CrashCycle, Next
  PROVE  TypeOK' /\ WorkerControl'
<1>0. CommandsType /\ WorkersType /\ EnvTypes /\ authGate \in Commands \cup {Open}
      /\ ops \in 0 .. MaxOps /\ faults \in 0 .. MaxFaults
      /\ upSince \in [Workers -> SUBSET Commands]
  BY DEF TypeOK, CommandsType, WorkersType, EnvTypes
<1> DEFINE Rest == /\ CommandsType' /\ WorkersType' /\ EnvTypes' /\ WorkerControl'
                   /\ (authGate \in Commands \cup {Open})' /\ ops' \in 0 .. MaxOps
                   /\ faults' \in 0 .. MaxFaults
<1>1. Rest
  <2>1. ASSUME NEW c \in Commands, EpisodeStep(c) \/ FaultStep(c) PROVE Rest
    BY <1>0, <2>1, EpisodeTypes DEF WorkerControl, InLoop, WorkersType
  <2>2. ASSUME NEW w \in Workers, WorkerStep(w) PROVE Rest
    BY <1>0, <2>2, WorkerTypes
  <2>3. ASSUME NEW w \in Workers, NEW c \in Commands, StepOf(w, c) PROVE Rest
    BY <1>0, <2>3, StepTypes DEF EnvTypes
  <2>4. ASSUME NEW w \in Workers, Requested(w) PROVE Rest
    BY <1>0, <2>4, RequestTypes
  <2> QED BY <2>1, <2>2, <2>3, <2>4, StepCases DEF Next
<1>2. (upSince \in [Workers -> SUBSET Commands])'
  BY <1>0 DEF Next, Observe
<1> QED BY <1>1, <1>2 DEF TypeOK, CommandsType, WorkersType, EnvTypes

-----------------------------------------------------------------------------
(* Commands and their episodes *)

CommandInv == CrashCycle /\ GateHeld /\ UpAtRest /\ HoldersInPlan

\* One command changes; the gate stays with whoever has it, or with this command.
LEMMA OneCommand ==
  ASSUME TypeOK, CommandInv, NEW c \in Commands, NEW next,
         commands' = [commands EXCEPT ![c] = next],
         next.episode = "none" => next.phase = "idle",
         next.phase \in {"again", "backoff"} => next.episode = "crash",
         next.episode = "crash" /\ next.phase \in {"backoff", "gate", "launched"}
           => next.retries < MaxRetries,
         next.phase = "launched" /\ c \in Interactive => authGate' = c,
         \A d \in Interactive : authGate = d /\ d # c => authGate' = d,
         next.state \in Up =>
           \/ next.episode = "none" \/ next.phase \in Reporting
           \/ next.episode = "crash" /\ ~next.cancelled,
         \A e \in Envs : e \in next.holders => c \in Steps(e)
  PROVE  CommandInv'
<1>1. commands'[c] = next /\ \A d \in Commands : d # c => commands'[d] = commands[d]
  BY DEF TypeOK
<1>2. CrashCycle' /\ UpAtRest' /\ HoldersInPlan'
  BY <1>1 DEF CommandInv, CrashCycle, UpAtRest, HoldersInPlan
<1>3. GateHeld'
  BY <1>1, WorkflowsOK DEF CommandInv, GateHeld
<1> QED BY <1>2, <1>3 DEF CommandInv

LEMMA EpisodeCommands ==
  ASSUME TypeOK, CommandInv, NEW c \in Commands, EpisodeStep(c) \/ FaultStep(c)
  PROVE  CommandInv'
<1>0. /\ commands \in [Commands -> CommandRecord] /\ commands[c] \in CommandRecord
      /\ authGate \in Commands \cup {Open} /\ Open \notin Commands
      /\ Interactive \subseteq Commands
  BY WorkflowsOK DEF TypeOK
<1>1. /\ \A e \in Envs : e \in commands[c].holders => c \in Steps(e)
      /\ c \in Interactive /\ commands[c].phase = "launched" => authGate = c
      /\ commands[c].state \in Up => \/ commands[c].episode = "none"
                                     \/ commands[c].phase \in Reporting
                                     \/ commands[c].episode = "crash" /\ ~commands[c].cancelled
      /\ commands[c].episode = "none" => commands[c].phase = "idle"
      /\ commands[c].phase \in {"again", "backoff"} => commands[c].episode = "crash"
      /\ commands[c].episode = "crash" /\ commands[c].phase \in {"backoff", "gate", "launched"}
           => commands[c].retries < MaxRetries
  BY DEF CommandInv, CrashCycle, GateHeld, UpAtRest, HoldersInPlan
<1>2. ASSUME commands[c].phase = "launched", authGate' = GateFreed(c)
      PROVE  \A d \in Interactive : authGate = d /\ d # c => authGate' = d
  BY <1>0, <1>1, <1>2 DEF GateFreed
<1>3. MaxRetries \in Nat
  BY WorkflowsOK
<1>n. commands[c].phase # "idle" => commands[c].episode # "none"
  BY <1>1
<1>u. ASSUME commands[c].phase = "launched" \/ commands[c].phase = "backoff"
      PROVE  commands[c].phase \notin Reporting
  BY <1>u DEF Reporting
<1>a. CASE Launch(c)
  <2> DEFINE next == commands'[c]
  <2>1. /\ commands' = [commands EXCEPT ![c] = next]
        /\ next.phase = "launched" /\ next.state = commands[c].state
        /\ next.episode = commands[c].episode /\ next.cancelled = commands[c].cancelled
        /\ next.retries = commands[c].retries /\ next.holders = commands[c].holders
    BY <1>0, <1>a DEF Launch, CommandRecord
  <2>2. /\ c \in Interactive => authGate = Open /\ authGate' = c
        /\ c \notin Interactive => authGate' = authGate
        /\ commands[c].phase = "gate" /\ commands[c].phase \notin Reporting
    BY <1>a DEF Launch, TakesGate, Reporting
  <2> HIDE DEF next
  <2> QED BY <1>0, <1>1, <2>1, <2>2, OneCommand
<1>b. CASE PrepareFails(c)
  <2> DEFINE next == commands'[c]
  <2>1. /\ commands' = [commands EXCEPT ![c] = next]
        /\ next.phase = "idle" /\ next.state = "error" /\ next.holders = commands[c].holders
        /\ authGate' = authGate
    BY <1>0, <1>b DEF PrepareFails, CommandRecord
  <2> HIDE DEF next
  <2> QED BY <1>0, <1>1, <2>1, OneCommand DEF Up
<1>d. ASSUME NEW state \in {"healthy", "error"}, Settle(c, state) PROVE CommandInv'
  <2> DEFINE next == commands'[c]
  <2>1. /\ commands' = [commands EXCEPT ![c] = next]
        /\ next.phase = "idle" /\ next.episode = "none" /\ next.holders = commands[c].holders
        /\ authGate' = GateFreed(c) /\ commands[c].phase = "launched"
    BY <1>0, <1>d DEF Settle, CommandRecord
  <2> HIDE DEF next
  <2> QED BY <1>0, <1>1, <1>2, <2>1, OneCommand
<1>e. CASE RelaunchUp(c)
  <2> DEFINE next == commands'[c]
  <2>1. /\ commands' = [commands EXCEPT ![c] = next]
        /\ next.phase = "publish" /\ next.state = commands[c].state
        /\ next.episode = commands[c].episode /\ next.cancelled = commands[c].cancelled
        /\ next.holders = commands[c].holders
        /\ authGate' = GateFreed(c) /\ commands[c].phase = "launched"
    BY <1>0, <1>e DEF RelaunchUp, CommandRecord
  <2> HIDE DEF next
  <2> QED BY <1>0, <1>1, <1>2, <1>n, <1>u, <2>1, OneCommand
<1>f. CASE RelaunchFails(c)
  <2> DEFINE next == commands'[c]
  <2>1. /\ commands' = [commands EXCEPT ![c] = next]
        /\ next.phase \in {"report", "again"} /\ next.state = "error"
        /\ next.episode = commands[c].episode
        /\ next.phase = "again" => next.episode = "crash"
        /\ next.holders = commands[c].holders
        /\ authGate' = GateFreed(c) /\ commands[c].phase = "launched"
    BY <1>0, <1>f DEF RelaunchFails, CommandRecord
  <2> HIDE DEF next
  <2> QED BY <1>0, <1>1, <1>2, <1>n, <2>1, OneCommand DEF Up
<1>g. CASE Publish(c) \/ GiveUp(c)
  <2> DEFINE next == commands'[c]
  <2>1. /\ commands' = [commands EXCEPT ![c] = next]
        /\ next.phase = "report" /\ next.episode = commands[c].episode
        /\ next.holders = commands[c].holders
        /\ commands[c].phase # "idle" /\ authGate' = authGate
    BY <1>0, <1>g DEF Publish, GiveUp, CommandRecord
  <2> HIDE DEF next
  <2> QED BY <1>0, <1>1, <1>n, <2>1, OneCommand DEF Reporting
<1>k. CASE ReportStep(c)
  <2> DEFINE next == commands'[c]
  <2>1. /\ commands' = [commands EXCEPT ![c] = next]
        /\ next.state = commands[c].state /\ next.holders = commands[c].holders
        /\ \/ next.phase \in Reporting /\ next.episode = commands[c].episode
           \/ next.phase = "idle" /\ next.episode = "none"
        /\ commands[c].phase \in Reporting /\ authGate' = authGate
    BY <1>0, <1>k DEF ReportStep, ReportActive, ReportSums, ReportWrites, Told, CommandRecord,
       Reporting
  <2> HIDE DEF next
  <2> QED BY <1>0, <1>1, <1>n, <2>1, OneCommand DEF Reporting
<1>h. CASE Crash(c)
  <2> DEFINE next == commands'[c]
  <2>1. /\ commands' = [commands EXCEPT ![c] = next]
        /\ next.phase = "again" /\ next.episode = "crash" /\ ~next.cancelled
        /\ next.holders = commands[c].holders
        /\ authGate' = authGate
    BY <1>0, <1>h DEF Crash, CommandRecord
  <2> HIDE DEF next
  <2> QED BY <1>0, <1>1, <2>1, OneCommand
<1>i. CASE Retry(c)
  <2> DEFINE next == commands'[c]
  <2>1. /\ commands' = [commands EXCEPT ![c] = next]
        /\ next.phase = "backoff" /\ next.state = "restarting" /\ next.retries < MaxRetries
        /\ next.episode = commands[c].episode /\ commands[c].phase = "again"
        /\ next.holders = commands[c].holders
        /\ authGate' = authGate
    BY <1>0, <1>i DEF Retry, CommandRecord
  <2> HIDE DEF next
  <2> QED BY <1>0, <1>1, <1>n, <2>1, OneCommand DEF Up
<1>j. CASE BackoffEnds(c)
  <2> DEFINE next == commands'[c]
  <2>1. /\ commands' = [commands EXCEPT ![c] = next]
        /\ next.phase \in {"idle", "gate"} /\ next.state = commands[c].state
        /\ next.holders = commands[c].holders /\ next.cancelled = commands[c].cancelled
        /\ next.phase = "idle" <=> next.episode = "none"
        /\ next.episode \in {"none", commands[c].episode} /\ next.retries = commands[c].retries
        /\ commands[c].phase = "backoff" /\ authGate' = authGate
    BY <1>0, <1>1, <1>j DEF BackoffEnds, CommandRecord
  <2> HIDE DEF next
  <2> QED BY <1>0, <1>1, <1>u, <2>1, OneCommand
<1> QED BY <1>a, <1>b, <1>d, <1>e, <1>f, <1>g, <1>h, <1>i, <1>j, <1>k
        DEF EpisodeStep, FaultStep, StartUp, StartFails

LEMMA CommandsKept ==
  ASSUME CommandInv, UNCHANGED <<commands, authGate>>
  PROVE  CommandInv'
  BY DEF CommandInv, CrashCycle, GateHeld, UpAtRest, HoldersInPlan

\* A step of a worker launches nothing: no login begins or ends with it.
LEMMA WorkerCommands ==
  ASSUME TypeOK, WorkerControl, CommandInv, NEW w \in Workers, WorkerStep(w)
  PROVE  CommandInv'
<1>0. /\ commands \in [Commands -> CommandRecord] /\ worker[w] \in WorkerRecord
      /\ worker[w].cmd \in Commands
  BY DEF TypeOK, WorkerRecord
<1>1. \A c \in Commands :
        /\ \A e \in Envs : e \in commands[c].holders => c \in Steps(e)
        /\ c \in Interactive /\ commands[c].phase = "launched" => authGate = c
        /\ commands[c].state \in Up => \/ commands[c].episode = "none"
                                       \/ commands[c].phase \in Reporting
                                       \/ commands[c].episode = "crash" /\ ~commands[c].cancelled
        /\ commands[c].episode = "none" => commands[c].phase = "idle"
        /\ commands[c].phase \in {"again", "backoff"} => commands[c].episode = "crash"
        /\ commands[c].episode = "crash" /\ commands[c].phase \in {"backoff", "gate", "launched"}
             => commands[c].retries < MaxRetries
  BY DEF CommandInv, CrashCycle, GateHeld, UpAtRest, HoldersInPlan
<1>2. ASSUME InLoop(w) PROVE Reached(w) \in Commands
  BY <1>2, ReachedType
<1>a. CASE ResetSkip(w) \/ ResetRelease(w) \/ ResetShared(w) \/ RetryDone(w) \/ ResetDone(w)
             \/ RunSums(w) \/ RunEnds(w) \/ StopEnds(w)
  BY <1>a, CommandsKept
     DEF ResetSkip, ResetRelease, ResetShared, RetryDone, ResetDone, RunSums, RunEnds, StopEnds
<1>b. CASE RestartInPlace(w)
  <2> DEFINE c == Reached(w)  next == commands'[c]
  <2>1. c \in Commands
    BY <1>2, <1>b DEF RestartInPlace, WorkerControl
  <2> HIDE DEF c
  <2>2. /\ commands' = [commands EXCEPT ![c] = next]
        /\ next.phase = "gate" /\ next.episode = "retry" /\ next.state = "restarting"
        /\ next.holders = commands[c].holders /\ authGate' = authGate
    BY <1>0, <1>b, <2>1 DEF RestartInPlace, CommandRecord, c
  <2> HIDE DEF next
  <2> QED BY <1>1, <2>1, <2>2, OneCommand DEF Up
<1>d. CASE RestartBegins(w)
  <2> DEFINE c == worker[w].cmd
             next == [commands[c] EXCEPT !.state = "restarting", !.cancelled = FALSE,
                        !.retries = 0, !.episode = "user", !.phase = "gate"]
  <2>1. c \in Commands /\ commands[c] \in CommandRecord
    BY <1>0
  <2>2. commands' = [commands EXCEPT ![c] = next] /\ authGate' = authGate
    BY <1>0, <1>d DEF RestartBegins
  <2> HIDE DEF c
  <2>3. /\ next.phase = "gate" /\ next.episode = "user" /\ next.state = "restarting"
        /\ next.holders = commands[c].holders
    BY <2>1 DEF CommandRecord
  <2> HIDE DEF next
  <2> QED BY <1>1, <2>1, <2>2, <2>3, OneCommand DEF Up
<1>e. CASE ReleaseShared(w)
  <2> DEFINE c == Reached(w)  next == commands'[c]
  <2>1. c \in Commands
    BY <1>2, <1>e DEF ReleaseShared
  <2>2. OtherHolders(w, c) \subseteq commands[c].holders
    BY DEF OtherHolders
  <2> HIDE DEF c
  <2>3. /\ commands' = [commands EXCEPT ![c] = next]
        /\ next.holders \subseteq commands[c].holders
        /\ next.phase = commands[c].phase /\ next.state = commands[c].state
        /\ next.episode = commands[c].episode /\ next.cancelled = commands[c].cancelled
        /\ next.retries = commands[c].retries /\ authGate' = authGate
    BY <1>0, <1>e, <2>1, <2>2 DEF ReleaseShared, CommandRecord, c
  <2> HIDE DEF next
  <2> QED BY <1>1, <2>1, <2>3, OneCommand
<1>f. CASE ReleaseLast(w) \/ StopCommand(w)
  <2> DEFINE c == Reached(w)  next == commands'[c]
  <2>1. c \in Commands
    BY <1>2, <1>f DEF ReleaseLast, StopCommand, WorkerControl
  <2> HIDE DEF c
  <2>2. /\ commands' = [commands EXCEPT ![c] = next]
        /\ next.holders \subseteq commands[c].holders /\ next.state \notin Up
        /\ next.phase = commands[c].phase /\ next.episode = commands[c].episode
        /\ next.retries = commands[c].retries /\ authGate' = authGate
    BY <1>0, <1>f, <2>1 DEF ReleaseLast, StopCommand, CommandRecord, c, Up, Active
  <2> HIDE DEF next
  <2> QED BY <1>1, <2>1, <2>2, OneCommand
<1> QED BY <1>a, <1>b, <1>d, <1>e, <1>f DEF WorkerStep

\* Nor does a step of a workflow, or a request.
LEMMA StepCommands ==
  ASSUME TypeOK, WorkerControl, CommandInv, NEW w \in Workers, NEW c \in Commands,
         StepOf(w, c)
  PROVE  CommandInv'
<1>0. commands \in [Commands -> CommandRecord] /\ worker[w] \in WorkerRecord
  BY DEF TypeOK
<1>1. /\ \A e \in Envs : e \in commands[c].holders => c \in Steps(e)
      /\ c \in Interactive /\ commands[c].phase = "launched" => authGate = c
      /\ commands[c].state \in Up => \/ commands[c].episode = "none"
                                     \/ commands[c].phase \in Reporting
                                     \/ commands[c].episode = "crash" /\ ~commands[c].cancelled
      /\ commands[c].episode = "none" => commands[c].phase = "idle"
      /\ commands[c].phase \in {"again", "backoff"} => commands[c].episode = "crash"
      /\ commands[c].episode = "crash" /\ commands[c].phase \in {"backoff", "gate", "launched"}
           => commands[c].retries < MaxRetries
  BY DEF CommandInv, CrashCycle, GateHeld, UpAtRest, HoldersInPlan
<1> DEFINE next == commands'[c]
<1>a. CASE SkipStep(w, c) \/ StepEnds(w, c)
  BY <1>a, CommandsKept DEF SkipStep, StepEnds
<1>b. CASE AcquireNew(w, c)
  <2>1. /\ commands' = [commands EXCEPT ![c] = next]
        /\ next.phase = "gate" /\ next.episode = "start" /\ next.state = "starting"
        /\ next.holders = {worker[w].env} /\ c \in Steps(worker[w].env)
        /\ authGate' = authGate
    BY <1>0, <1>b, Constants DEF AcquireNew, ReadyToAcquire, CommandRecord
  <2> HIDE DEF next
  <2> QED BY <1>1, <2>1, OneCommand DEF Up
<1>d. CASE AcquireJoin(w, c)
  <2>1. /\ commands' = [commands EXCEPT ![c] = next]
        /\ next.holders = commands[c].holders \cup {worker[w].env}
        /\ c \in Steps(worker[w].env)
        /\ next.phase = commands[c].phase /\ next.state = commands[c].state
        /\ next.episode = commands[c].episode /\ next.cancelled = commands[c].cancelled
        /\ next.retries = commands[c].retries /\ authGate' = authGate
    BY <1>0, <1>d DEF AcquireJoin, ReadyToAcquire, CommandRecord
  <2> HIDE DEF next
  <2> QED BY <1>1, <2>1, OneCommand
<1> QED BY <1>a, <1>b, <1>d DEF StepOf

LEMMA RequestCommands ==
  ASSUME TypeOK, CommandInv, NEW w \in Workers, Requested(w)
  PROVE  CommandInv'
<1>0. commands \in [Commands -> CommandRecord]
  BY DEF TypeOK
<1>1. ASSUME NEW e \in Envs, StartEnvironment(w, e) \/ StopEnvironment(w, e)
      PROVE  CommandInv'
  BY <1>1, CommandsKept DEF StartEnvironment, StopEnvironment
<1>2. ASSUME NEW c \in Commands, RestartCommand(w, c) PROVE CommandInv'
  <2> DEFINE next == commands'[c]
  <2>1. /\ commands' = [commands EXCEPT ![c] = next]
        /\ next.state = "restarting" /\ next.holders = commands[c].holders
        /\ next.phase = commands[c].phase /\ next.episode = commands[c].episode
        /\ next.retries = commands[c].retries /\ authGate' = authGate
    BY <1>0, <1>2 DEF RestartCommand, CommandRecord
  <2>2. /\ \A e \in Envs : e \in commands[c].holders => c \in Steps(e)
        /\ commands[c].episode = "none" => commands[c].phase = "idle"
        /\ c \in Interactive /\ commands[c].phase = "launched" => authGate = c
        /\ commands[c].phase \in {"again", "backoff"} => commands[c].episode = "crash"
        /\ commands[c].episode = "crash" /\ commands[c].phase \in {"backoff", "gate", "launched"}
             => commands[c].retries < MaxRetries
    BY DEF CommandInv, CrashCycle, GateHeld, HoldersInPlan
  <2> HIDE DEF next
  <2> QED BY <2>1, <2>2, OneCommand DEF Up
<1> QED BY <1>1, <1>2 DEF Requested

LEMMA CommandStep ==
  ASSUME TypeOK, WorkerControl, CommandInv, Next
  PROVE  CommandInv'
  BY EpisodeCommands, WorkerCommands, StepCommands, RequestCommands, StepCases DEF Next

-----------------------------------------------------------------------------
(* Dependencies *)

\* A step is up now because it was, in the same run, or because its command is.
\* No step begins before its dependencies are up.
Kept(w) == \A c \in Commands :
  /\ worker'[w].step[c] = "up" =>
       \/ worker[w].step[c] = "up" /\ worker'[w].then = worker[w].then
       \/ worker'[w].then = "reset" /\ commands'[c].state \in Up
  /\ worker[w].step[c] = "waiting" /\ worker'[w].step[c] \in {"starting", "joining"}
       => DepsOK(w, c)

LEMMA SeenKept ==
  ASSUME SeenUp, WorkerControl', TypeOK, Observe, \A w \in Workers : Kept(w)
  PROVE  SeenUp'
<1> SUFFICES ASSUME NEW w \in Workers, NEW c \in Commands, worker'[w].step[c] = "up"
             PROVE  worker'[w].then = "reset" /\ c \in upSince'[w]
  BY DEF SeenUp
<1>1. worker'[w].then = "reset" /\ (c \in upSince[w] \/ commands'[c].state \in Up)
  BY DEF SeenUp, Kept
<1>2. worker'[w].pc # "idle"
  BY <1>1 DEF WorkerControl
<1> QED BY <1>1, <1>2 DEF Observe

\* One worker changes.
LEMMA OneWorker ==
  ASSUME TypeOK, NEW w \in Workers, NEW next, worker' = [worker EXCEPT ![w] = next]
  PROVE  worker'[w] = next /\ \A v \in Workers : v # w => worker'[v] = worker[v]
  BY DEF TypeOK

LEMMA WorkerKeeps ==
  ASSUME TypeOK, NEW w \in Workers, WorkerStep(w)
  PROVE  \A v \in Workers : Kept(v)
<1>0. worker \in [Workers -> WorkerRecord] /\ worker[w] \in WorkerRecord
  BY DEF TypeOK
<1>1. CASE worker' = [worker EXCEPT ![w] = Idle]
  BY <1>1, OneWorker, Constants DEF Kept
<1>2. CASE /\ \A v \in Workers : v # w => worker'[v] = worker[v]
           /\ worker'[w].step = worker[w].step /\ worker'[w].then = worker[w].then
  BY <1>2 DEF Kept
<1>3. CASE ResetSkip(w) \/ ResetRelease(w) \/ ResetShared(w) \/ RestartInPlace(w)
             \/ RetryDone(w) \/ ResetDone(w) \/ RunSums(w)
  BY <1>0, <1>2, <1>3 DEF ResetSkip, ResetRelease, ResetShared, RestartInPlace, RetryDone,
     ResetDone, RunSums, Goto, Forward, WorkerRecord
<1>4. CASE ReleaseShared(w) \/ StopCommand(w)
  BY <1>0, <1>2, <1>4 DEF ReleaseShared, StopCommand, WorkerRecord
<1>5. CASE ReleaseLast(w)
  BY <1>0, <1>2, <1>5 DEF ReleaseLast, WorkerRecord
<1>6. CASE RunEnds(w) \/ RestartBegins(w) \/ StopEnds(w)
  BY <1>1, <1>6 DEF RunEnds, RestartBegins, StopEnds
<1> QED BY <1>3, <1>4, <1>5, <1>6 DEF WorkerStep

LEMMA StepKeeps ==
  ASSUME TypeOK, WorkerControl, NEW w \in Workers, NEW c \in Commands, StepOf(w, c)
  PROVE  \A v \in Workers : Kept(v)
<1>0. worker \in [Workers -> WorkerRecord] /\ worker[w] \in WorkerRecord
  BY DEF TypeOK
<1> DEFINE next == worker'[w]
<1>1. CASE SkipStep(w, c) \/ AcquireNew(w, c) \/ AcquireJoin(w, c)
  <2>1. /\ \A v \in Workers : v # w => worker'[v] = worker[v]
        /\ next.then = worker[w].then
        /\ \A d \in Commands : next.step[d] = "up" => worker[w].step[d] = "up"
        /\ \A d \in Commands : d # c => next.step[d] = worker[w].step[d]
        /\ next.step[c] \in {"starting", "joining"} => DepsOK(w, c)
    BY <1>0, <1>1 DEF SkipStep, AcquireNew, AcquireJoin, ReadyToAcquire, WorkerRecord
  <2> QED BY <2>1 DEF Kept
<1>2. CASE StepEnds(w, c)
  <2>1. /\ \A v \in Workers : v # w => worker'[v] = worker[v]
        /\ next.then = worker[w].then
        /\ \A d \in Commands : d # c => next.step[d] = worker[w].step[d]
        /\ next.step[c] = StepOutcome(c)
    BY <1>0, <1>2 DEF StepEnds, WorkerRecord
  <2>2. worker[w].then = "reset" /\ commands' = commands
    BY <1>2 DEF StepEnds, WorkerControl
  <2> QED BY <2>1, <2>2 DEF Kept, StepOutcome
<1> QED BY <1>1, <1>2 DEF StepOf

LEMMA RequestKeeps ==
  ASSUME TypeOK, NEW w \in Workers, Requested(w)
  PROVE  \A v \in Workers : Kept(v)
<1>1. PICK next \in Fresh : worker' = [worker EXCEPT ![w] = next]
  BY FreshWorker
<1> QED BY <1>1, OneWorker, Constants DEF Kept, Fresh

LEMMA EpisodeKeepsWorkers ==
  ASSUME NEW c \in Commands, EpisodeStep(c) \/ FaultStep(c)
  PROVE  UNCHANGED worker
  BY DEF EpisodeStep, FaultStep, Launch, StartUp, StartFails, Settle, RelaunchUp, Publish,
     GiveUp, Retry, BackoffEnds, PrepareFails, RelaunchFails, Crash, ReportStep, ReportActive,
     ReportSums, ReportWrites

LEMMA AllKept ==
  ASSUME TypeOK, WorkerControl, Step
  PROVE  \A w \in Workers : Kept(w)
<1>1. ASSUME NEW c \in Commands, EpisodeStep(c) \/ FaultStep(c)
      PROVE  \A w \in Workers : Kept(w)
  BY <1>1, EpisodeKeepsWorkers DEF Kept
<1> QED BY <1>1, WorkerKeeps, StepKeeps, RequestKeeps, StepCases

LEMMA SeenStep ==
  ASSUME TypeOK, WorkerControl, WorkerControl', SeenUp, Next
  PROVE  SeenUp'
  BY AllKept, SeenKept DEF Next

LEMMA DependenciesStep ==
  ASSUME TypeOK, WorkerControl, SeenUp, NEW w \in Workers, NEW c \in Commands, Next,
         worker[w].step[c] = "waiting", worker'[w].step[c] \in {"starting", "joining"}
  PROVE  DependsOn[worker[w].env][c] \subseteq upSince[w]
<1>1. worker[w].env \in Envs
  BY DEF TypeOK, WorkerRecord
<1>2. DependsOn[worker[w].env][c] \subseteq Commands
  BY <1>1, WorkflowsOK, StepsAreCommands
<1>3. DepsOK(w, c)
  BY AllKept DEF Kept, Next
<1> QED BY <1>2, <1>3 DEF DepsOK, SeenUp

-----------------------------------------------------------------------------
(* Reports *)

AllUp(e) == \A c \in Steps(e) : commands[c].state \in Up

LEMMA RollupUp ==
  ASSUME NEW e \in Envs, NEW cs, Rollup(e, cs) = "running"
  PROVE  \A c \in Steps(e) : cs[c].state \in Up
<1> DEFINE up == {c \in Steps(e) : cs[c].state \in Up}
           f  == [i \in 1 .. Len(Workflow[e]) |-> Workflow[e][i]]
<1>1. Len(Workflow[e]) \in Nat
  BY Constants
<1>2. IsFiniteSet(1 .. Len(Workflow[e]))
  BY <1>1, FS_Interval
<1>3. f \in Surjection(1 .. Len(Workflow[e]), Steps(e))
  BY DEF Surjection, Steps
<1>4. IsFiniteSet(Steps(e))
  BY <1>2, <1>3, FS_Surjection
<1>5. Cardinality(up) = Cardinality(Steps(e))
  BY DEF Rollup
<1>6. up \in SUBSET Steps(e)
  OBVIOUS
<1>7. Steps(e) = up
  BY <1>4, <1>5, <1>6, FS_Subset
<1> QED BY <1>7

\* What is reported, and was not out of date when it was.
Trusted(e) == envState[e] = "running" /\ e \notin overtaken

\* An environment becomes running only with all its commands up; one that was
\* running before is owed what it was, or more.
LEMMA ReportedKept ==
  ASSUME CommandInv', Reported,
         \A e \in Envs : Trusted(e)' => Trusted(e) \/ AllUp(e)',
         \A e \in Envs, c \in Commands :
           Trusted(e) /\ Trusted(e)' /\ ~AllUp(e)' /\ e \in commands'[c].holders
           => \/ Owed(e, c)'
              \/ e \in commands[c].holders /\ (Owed(e, c) => Owed(e, c)')
  PROVE  Reported'
<1> SUFFICES ASSUME NEW e \in Envs, NEW c \in Commands, Trusted(e)',
                    e \in commands'[c].holders
             PROVE  Owed(e, c)'
  BY DEF Reported, Trusted
<1>1. CASE AllUp(e)'
  <2>1. commands'[c].state \in Up
    BY <1>1 DEF AllUp, CommandInv, HoldersInPlan
  <2>2. \/ commands'[c].episode = "none" \/ commands'[c].phase \in Reporting
        \/ commands'[c].episode = "crash" /\ ~commands'[c].cancelled
    BY <2>1 DEF CommandInv, UpAtRest
  <2> QED BY <2>1, <2>2 DEF Owed
<1>2. CASE ~AllUp(e)'
  BY <1>2 DEF Reported, Trusted
<1> QED BY <1>1, <1>2

\* The workers that drive a start, or were asked for a restart, still do.
LEMMA StillDriven ==
  ASSUME TypeOK, NEW w \in Workers, NEW next, worker' = [worker EXCEPT ![w] = next],
         worker[w].then = "reset" => next.then = "reset" /\ next.env = worker[w].env,
         worker[w].pc = "restart" => next.pc = "restart" /\ next.cmd = worker[w].cmd
  PROVE  /\ \A e \in Envs : Driven(e) => Driven(e)'
         /\ \A c \in Commands : Asked(c) => Asked(c)'
  BY OneWorker DEF Driven, Asked

\* A derived state that is running, and not out of date, is that of commands
\* that are all up; the other environments keep theirs.
LEMMA DerivedUp ==
  ASSUME TypeOK, NEW e \in Envs, NEW state, Derived(e, state), NEW o \in Envs, Trusted(o)'
  PROVE  IF o = e THEN AllUp(e) ELSE Trusted(o)
<1>1. CASE o = e
  <2>1. envState'[e] = state
    BY DEF TypeOK, Derived, SetEnvState
  <2>2. state = "running" /\ state = Rollup(e, commands)
    BY <1>1, <2>1 DEF Trusted, Derived
  <2> QED BY <1>1, <2>2, RollupUp DEF AllUp
<1>2. CASE o # e
  <2>1. envState'[o] = envState[o] /\ (o \in overtaken => o \in overtaken')
    BY <1>2 DEF TypeOK, Derived, SetEnvState
  <2> QED BY <1>2, <2>1 DEF Trusted
<1> QED BY <1>1, <1>2

\* The section of a roll-up moves on: whoever was still to be told is, or has been.
LEMMA ToldOwed ==
  ASSUME TypeOK, NEW c \in Commands, NEW o, Told(c, o), commands[c].phase \in Reporting,
         UNCHANGED worker, NEW e \in Envs, Owed(e, c), e # o
  PROVE  Owed(e, c)'
<1> DEFINE left == report[c].todo \ {o}
<1>0. commands[c] \in CommandRecord /\ NoReport \in ReportRecord
  BY Constants DEF TypeOK
<1>1. /\ report' = [report EXCEPT ![c] = [NoReport EXCEPT !.todo = left]]
      /\ commands'[c].state = commands[c].state
      /\ IF left = {} THEN commands'[c].phase = "idle" /\ commands'[c].episode = "none"
                      ELSE commands'[c].phase = "report"
  BY <1>0 DEF Told, TypeOK, CommandRecord
<1>2. report'[c].todo = left
  <2>1. report'[c] = [NoReport EXCEPT !.todo = left]
    BY <1>1 DEF TypeOK
  <2> QED BY <1>0, <2>1 DEF ReportRecord
<1>3. CASE Driven(e) \/ Asked(c)
  BY <1>3 DEF Owed, Driven, Asked
<1>4. CASE e \in report[c].todo
  <2>1. e \in left
    BY <1>4
  <2>2. commands'[c].phase = "report" /\ e \in report'[c].todo
    BY <1>1, <1>2, <2>1
  <2> HIDE DEF left
  <2> QED BY <2>2 DEF Owed, Reporting
<1>5. CASE commands[c].state \in Up \cup {"stopped"}
  <2>1. commands'[c].episode = "none" \/ commands'[c].phase \in Reporting
    BY <1>1 DEF Reporting
  <2> QED BY <1>1, <1>5, <2>1 DEF Owed
<1> QED BY <1>3, <1>4, <1>5 DEF Owed

LEMMA EpisodeReported ==
  ASSUME TypeOK, CommandInv, CommandInv', Reported, NEW c \in Commands,
         EpisodeStep(c) \/ FaultStep(c)
  PROVE  Reported'
<1>0. /\ commands \in [Commands -> CommandRecord] /\ commands[c] \in CommandRecord
      /\ report \in [Commands -> ReportRecord] /\ report[c] \in ReportRecord
  BY DEF TypeOK
<1>1. /\ UNCHANGED worker
      /\ \A e \in Envs, d \in Commands : (Driven(e)' <=> Driven(e)) /\ (Asked(d)' <=> Asked(d))
  BY EpisodeKeepsWorkers DEF Driven, Asked
<1>2. /\ \A d \in Commands : d # c => commands'[d] = commands[d] /\ report'[d] = report[d]
      /\ commands'[c].holders = commands[c].holders
  BY <1>0 DEF EpisodeStep, FaultStep, Launch, StartUp, StartFails, Settle, RelaunchUp, Publish,
     GiveUp, Retry, BackoffEnds, PrepareFails, RelaunchFails, Crash, ReportStep, ReportActive,
     ReportSums, ReportWrites, Told, Tell, EnvsStay, CommandRecord
<1>3. \A e \in Envs, d \in Commands : d # c /\ Owed(e, d) => Owed(e, d)'
  BY <1>1, <1>2 DEF Owed
<1>4. CASE ReportWrites(c)
  <2>1. PICK e \in Envs : e = report[c].env
    BY <1>0 DEF ReportRecord
  <2>2. Derived(e, report[c].sum) /\ Told(c, e) /\ commands[c].phase = "write"
    BY <1>4, <2>1 DEF ReportWrites
  <2>3. AllUp(e) => AllUp(e)'
    <3>1. \A d \in Commands : commands'[d].state = commands[d].state
      BY <1>0, <2>2 DEF Told, CommandRecord
    <3> QED BY <3>1, StepsAreCommands DEF AllUp
  <2>4. \A o \in Envs : Trusted(o)' => IF o = e THEN AllUp(e)' ELSE Trusted(o)
    BY <2>2, <2>3, DerivedUp
  <2>5. \A o \in Envs : o # e /\ Owed(o, c) => Owed(o, c)'
    BY <1>1, <2>2, ToldOwed DEF Reporting
  <2> QED BY <1>2, <1>3, <2>4, <2>5, ReportedKept
<1>5. CASE ~ReportWrites(c)
  <2>1. \A e \in Envs : Trusted(e)' <=> Trusted(e)
    BY <1>5 DEF EpisodeStep, FaultStep, Launch, StartUp, StartFails, Settle, RelaunchUp, Publish,
       GiveUp, Retry, BackoffEnds, PrepareFails, RelaunchFails, Crash, ReportStep, ReportActive,
       ReportSums, EnvsStay, Trusted
  <2>2. ASSUME NEW e \in Envs, e \in commands[c].holders, Trusted(e), Owed(e, c)
        PROVE  Owed(e, c)'
    <3>1. CASE Launch(c) \/ RelaunchUp(c)
      <4>1. /\ commands'[c].episode = commands[c].episode
            /\ commands'[c].cancelled = commands[c].cancelled
            /\ commands'[c].state = commands[c].state
            /\ commands[c].phase \notin Reporting /\ commands'[c].phase \notin Reporting
        BY <1>0, <3>1 DEF Launch, RelaunchUp, CommandRecord, Reporting
      <4> QED BY <1>1, <2>2, <4>1 DEF Owed
    <3>2. CASE StartUp(c)
      <4>1. commands'[c].episode = "none" /\ commands'[c].state = "healthy"
        BY <1>0, <3>2 DEF StartUp, Settle, CommandRecord
      <4> QED BY <4>1 DEF Owed, Up
    <3>3. CASE PrepareFails(c) \/ StartFails(c)
      <4>1. commands[c].episode = "start" /\ commands[c].phase \notin Reporting
        BY <3>3 DEF PrepareFails, StartFails, Settle, Reporting
      <4> QED BY <1>1, <2>2, <4>1 DEF Owed
    <3>4. CASE Publish(c) \/ GiveUp(c) \/ (RelaunchFails(c) /\ commands[c].episode # "crash")
      <4>1. Tell(c) /\ commands'[c].phase = "report"
        BY <1>0, <3>4 DEF Publish, GiveUp, RelaunchFails, CommandRecord
      <4>2. e \in EnvsOf(c) /\ EnvsOf(c) \in SUBSET Envs
        BY <2>2 DEF EnvsOf, CommandInv, HoldersInPlan
      <4>3. report'[c] = [NoReport EXCEPT !.todo = EnvsOf(c)]
        BY <1>0, <4>1 DEF Tell
      <4>4. e \in report'[c].todo
        BY <4>2, <4>3, Constants DEF ReportRecord
      <4> QED BY <4>1, <4>4 DEF Owed, Reporting
    <3>5. CASE Retry(c) \/ (RelaunchFails(c) /\ commands[c].episode = "crash")
      <4>1. commands[c].episode = "crash" /\ commands[c].phase \notin Reporting
        BY <3>5 DEF Retry, RelaunchFails, CommandInv, CrashCycle, Reporting
      <4>2. /\ commands'[c].episode = commands[c].episode
            /\ commands'[c].cancelled = commands[c].cancelled
            /\ commands'[c].phase \notin Reporting
        BY <1>0, <3>5, <4>1 DEF Retry, RelaunchFails, CommandRecord, Reporting
      <4> QED BY <1>1, <2>2, <4>1, <4>2 DEF Owed
    <3>6. CASE Crash(c)
      <4>1. commands'[c].episode = "crash" /\ ~commands'[c].cancelled
            /\ commands'[c].phase \notin Reporting
        BY <1>0, <3>6 DEF Crash, CommandRecord, Reporting
      <4> QED BY <4>1 DEF Owed
    <3>7. CASE BackoffEnds(c)
      <4>1. commands[c].episode = "crash" /\ commands[c].phase \notin Reporting
        BY <3>7 DEF BackoffEnds, CommandInv, CrashCycle, Reporting
      <4>2. \/ commands[c].cancelled
            \/ /\ ~commands'[c].cancelled /\ commands'[c].episode = "crash"
               /\ commands'[c].phase \notin Reporting
        BY <1>0, <3>7, <4>1 DEF BackoffEnds, CommandRecord, Reporting
      <4> QED BY <1>1, <2>2, <4>1, <4>2 DEF Owed
    <3>8. CASE ReportActive(c)
      <4>1. CASE report[c].todo # {} /\ IsEnvActive(Pick(report[c].todo))
        <5>1. /\ commands'[c].phase = "sum" /\ commands[c].phase = "report"
              /\ commands'[c].state = commands[c].state
              /\ report'[c].todo = report[c].todo
          BY <1>0, <3>8, <4>1 DEF ReportActive, CommandRecord, ReportRecord
        <5> QED BY <1>1, <2>2, <5>1 DEF Owed, Reporting
      <4>2. CASE ~(report[c].todo # {} /\ IsEnvActive(Pick(report[c].todo)))
        <5>1. Told(c, Pick(report[c].todo)) /\ commands[c].phase \in Reporting
          BY <3>8, <4>2 DEF ReportActive, Reporting
        <5>2. CASE e # Pick(report[c].todo)
          BY <1>1, <2>2, <5>1, <5>2, ToldOwed
        <5>3. CASE e = Pick(report[c].todo)
          <6>1. report[c].todo = {}
            BY <2>2, <4>2, <5>3 DEF Trusted, IsEnvActive
          <6>2. Told(c, e)
            BY <5>1, <5>3
          <6>3. /\ commands'[c].phase = "idle" /\ commands'[c].episode = "none"
                /\ commands'[c].state = commands[c].state
            BY <1>0, <6>1, <6>2 DEF Told, CommandRecord
          <6> QED BY <1>1, <2>2, <5>1, <6>1, <6>3 DEF Owed
        <5> QED BY <5>2, <5>3
      <4> QED BY <4>1, <4>2
    <3>9. CASE ReportSums(c)
      <4>1. /\ commands'[c].phase = "write" /\ commands[c].phase = "sum"
            /\ commands'[c].state = commands[c].state
            /\ report'[c].todo = report[c].todo
        BY <1>0, <3>9 DEF ReportSums, CommandRecord, ReportRecord
      <4> QED BY <1>1, <2>2, <4>1 DEF Owed, Reporting
    <3> QED BY <1>5, <3>1, <3>2, <3>3, <3>4, <3>5, <3>6, <3>7, <3>8, <3>9
            DEF EpisodeStep, FaultStep, ReportStep
  <2> QED BY <1>2, <1>3, <2>1, <2>2, ReportedKept DEF Reported, Trusted
<1> QED BY <1>4, <1>5

\* What a step of a worker does to the commands, where it changes one.
LEMMA WorkerReported ==
  ASSUME TypeOK, WorkerControl, CommandInv', Reported, NEW w \in Workers, WorkerStep(w)
  PROVE  Reported'
<1>0. /\ commands \in [Commands -> CommandRecord] /\ worker \in [Workers -> WorkerRecord]
      /\ worker[w] \in WorkerRecord /\ worker[w].env \in Envs /\ worker[w].cmd \in Commands
      /\ envState \in [Envs -> EnvStates]
  BY DEF TypeOK, WorkerRecord
<1>1. ASSUME NEW next, worker' = [worker EXCEPT ![w] = next],
             next.env = worker[w].env, next.then = worker[w].then, worker[w].pc # "restart"
      PROVE  /\ \A e \in Envs : Driven(e) => Driven(e)'
             /\ \A c \in Commands : Asked(c) => Asked(c)'
  BY <1>1, StillDriven
<1>2. ASSUME NEW c \in Commands,
             \A e \in Envs : Driven(e) => Driven(e)',
             \A d \in Commands : Asked(d) => Asked(d)',
             commands'[c] = commands[c], report' = report
      PROVE  \A e \in Envs : Owed(e, c) => Owed(e, c)'
  BY <1>2 DEF Owed
<1>3. ASSUME EnvsStay
      PROVE  report' = report /\ \A e \in Envs : Trusted(e)' <=> Trusted(e)
  BY <1>3 DEF EnvsStay, Trusted
<1> DEFINE next == worker'[w]
<1>a. CASE ResetSkip(w) \/ ResetRelease(w) \/ ResetShared(w) \/ RetryDone(w) \/ ResetDone(w)
             \/ RunSums(w)
  <2>1. /\ worker' = [worker EXCEPT ![w] = next] /\ worker[w].pc # "restart"
        /\ next.env = worker[w].env /\ next.then = worker[w].then
        /\ UNCHANGED commands /\ EnvsStay
    BY <1>0, <1>a DEF ResetSkip, ResetRelease, ResetShared, RetryDone, ResetDone, RunSums, Goto,
       Forward, WorkerRecord
  <2> HIDE DEF next
  <2> QED BY <1>1, <1>2, <1>3, <2>1, ReportedKept
<1>b. CASE RestartInPlace(w)
  <2>1. /\ worker' = [worker EXCEPT ![w] = next] /\ worker[w].pc # "restart"
        /\ next.env = worker[w].env /\ next.then = worker[w].then
        /\ EnvsStay
    BY <1>0, <1>b DEF RestartInPlace, Goto, WorkerRecord
  <2>2. PICK c \in Commands : c = Reached(w)
    BY <1>b, ReachedType DEF RestartInPlace, WorkerControl
  <2>3. /\ \A d \in Commands : d # c => commands'[d] = commands[d]
        /\ commands'[c].episode = "retry" /\ commands'[c].phase \notin Reporting
        /\ commands'[c].holders = commands[c].holders
    BY <1>0, <1>b, <2>2 DEF RestartInPlace, CommandRecord, Reporting
  <2>4. \A e \in Envs : Owed(e, c)'
    BY <2>3 DEF Owed
  <2> HIDE DEF next
  <2>5. /\ \A e \in Envs : Driven(e) => Driven(e)'
        /\ \A d \in Commands : Asked(d) => Asked(d)'
    BY <1>1, <2>1
  <2>6. \A e \in Envs, d \in Commands : d # c /\ Owed(e, d) => Owed(e, d)'
    BY <1>3, <2>1, <2>3, <2>5 DEF Owed
  <2> QED BY <1>3, <2>1, <2>3, <2>4, <2>6, ReportedKept
<1>c. CASE RunEnds(w)
  <2>0. PICK env \in Envs : env = worker[w].env
    BY <1>0
  <2>1. /\ worker' = [worker EXCEPT ![w] = Idle] /\ worker[w].pc = "write"
        /\ commands' = commands /\ report' = report /\ Derived(env, worker[w].sum)
    BY <1>c, <2>0 DEF RunEnds, Unchanged
  <2>2. \A e \in Envs : Trusted(e)' => IF e = env THEN AllUp(e)' ELSE Trusted(e)
    <3>1. AllUp(env)' <=> AllUp(env)
      BY <2>1 DEF AllUp
    <3> QED BY <2>1, <3>1, DerivedUp
  <2>3. \A v \in Workers : v # w => worker'[v] = worker[v]
    BY <1>0, <2>1
  <2>4. ASSUME NEW e \in Envs, NEW c \in Commands, e # env, Owed(e, c)
        PROVE  Owed(e, c)'
    <3>1. Driven(e) => Driven(e)'
      BY <2>0, <2>3, <2>4 DEF Driven
    <3>2. Asked(c) => Asked(c)'
      BY <2>1, <2>3 DEF Asked
    <3> QED BY <2>1, <2>4, <3>1, <3>2 DEF Owed
  <2> QED BY <2>1, <2>2, <2>4, ReportedKept
<1>d. CASE RestartBegins(w)
  <2>0. PICK c \in Commands : c = worker[w].cmd
    BY <1>0
  <2>1. /\ worker' = [worker EXCEPT ![w] = Idle] /\ worker[w].pc = "restart"
        /\ EnvsStay
    BY <1>d DEF RestartBegins
  <2>2. /\ \A d \in Commands : d # c => commands'[d] = commands[d]
        /\ commands'[c].episode = "user" /\ commands'[c].phase \notin Reporting
        /\ commands'[c].holders = commands[c].holders
    BY <1>0, <1>d, <2>0 DEF RestartBegins, CommandRecord, Reporting
  <2>3. \A v \in Workers : v # w => worker'[v] = worker[v]
    BY <1>0, <2>1
  <2>4. ASSUME NEW e \in Envs, NEW d \in Commands, d # c, Owed(e, d)
        PROVE  Owed(e, d)'
    <3>1. Driven(e) => Driven(e)'
      BY <2>1, <2>3 DEF Driven, WorkerControl
    <3>2. Asked(d) => Asked(d)'
      BY <2>0, <2>3, <2>4 DEF Asked
    <3> QED BY <1>3, <2>1, <2>2, <2>4, <3>1, <3>2 DEF Owed
  <2>5. \A e \in Envs : Owed(e, c)'
    BY <2>2 DEF Owed
  <2> QED BY <1>3, <2>1, <2>2, <2>4, <2>5, ReportedKept
<1>e. CASE ReleaseShared(w) \/ ReleaseLast(w) \/ StopCommand(w)
  <2>1. /\ worker' = [worker EXCEPT ![w] = next] /\ worker[w].pc # "restart"
        /\ next.env = worker[w].env /\ next.then = worker[w].then
        /\ EnvsStay
    BY <1>0, <1>e DEF ReleaseShared, ReleaseLast, StopCommand, WorkerRecord
  <2>2. PICK c \in Commands : c = Reached(w)
    BY <1>e, ReachedType DEF ReleaseShared, ReleaseLast, StopCommand, WorkerControl
  <2> HIDE DEF next
  <2>3. /\ \A e \in Envs : Driven(e) => Driven(e)'
        /\ \A d \in Commands : Asked(d) => Asked(d)'
    BY <1>1, <2>1
  <2>4. /\ \A d \in Commands : d # c => commands'[d] = commands[d]
        /\ commands'[c].holders \subseteq commands[c].holders
    BY <1>0, <1>e, <2>2
       DEF ReleaseShared, ReleaseLast, StopCommand, OtherHolders, CommandRecord
  <2>5. ASSUME NEW e \in Envs, e \in commands'[c].holders, Owed(e, c) PROVE Owed(e, c)'
    <3>1. CASE ReleaseShared(w)
      <4>1. /\ commands'[c].episode = commands[c].episode
            /\ commands'[c].phase = commands[c].phase
            /\ commands'[c].cancelled = commands[c].cancelled
            /\ commands'[c].state = commands[c].state
        BY <1>0, <2>2, <3>1 DEF ReleaseShared, CommandRecord
      <4> QED BY <1>3, <2>1, <2>3, <2>5, <4>1 DEF Owed
    <3>2. CASE ReleaseLast(w)
      <4>1. commands'[c].holders = {}
        BY <1>0, <2>2, <3>2 DEF ReleaseLast, CommandRecord
      <4> QED BY <2>5, <4>1
    <3>3. CASE StopCommand(w)
      <4>1. /\ commands'[c].episode = commands[c].episode
            /\ commands'[c].phase = commands[c].phase
            /\ commands'[c].cancelled = commands[c].cancelled
            /\ commands'[c].state = "stopped"
        BY <1>0, <2>2, <3>3 DEF StopCommand, CommandRecord
      <4> QED BY <1>3, <2>1, <2>3, <2>5, <4>1 DEF Owed
    <3> QED BY <1>e, <3>1, <3>2, <3>3
  <2>6. \A e \in Envs, d \in Commands : d # c /\ Owed(e, d) => Owed(e, d)'
    BY <1>3, <2>1, <2>3, <2>4 DEF Owed
  <2> QED BY <1>3, <2>1, <2>4, <2>5, <2>6, ReportedKept
<1>f. CASE StopEnds(w)
  <2>1. /\ worker' = [worker EXCEPT ![w] = Idle] /\ worker[w].pc = "release"
        /\ commands' = commands /\ report' = report
        /\ envState' = [envState EXCEPT ![worker[w].env] = "stopped"]
        /\ overtaken' = overtaken \ {worker[w].env}
    BY <1>f DEF StopEnds, SetEnvState, InTime, Unchanged
  <2>2. /\ \A e \in Envs : Trusted(e)' => e # worker[w].env /\ Trusted(e)
        /\ \A v \in Workers : v # w => worker'[v] = worker[v]
    BY <1>0, <2>1 DEF Trusted
  <2>3. ASSUME NEW e \in Envs, NEW c \in Commands, e # worker[w].env, Owed(e, c)
        PROVE  Owed(e, c)'
    <3>1. Driven(e) => Driven(e)'
      BY <2>2, <2>3 DEF Driven
    <3>2. Asked(c) => Asked(c)'
      BY <2>1, <2>2 DEF Asked
    <3> QED BY <2>1, <2>3, <3>1, <3>2 DEF Owed
  <2> QED BY <2>1, <2>2, <2>3, ReportedKept
<1> QED BY <1>a, <1>b, <1>c, <1>d, <1>e, <1>f DEF WorkerStep

LEMMA StepReported ==
  ASSUME TypeOK, WorkerControl, CommandInv', Reported, NEW w \in Workers,
         NEW c \in Commands, StepOf(w, c)
  PROVE  Reported'
<1>0. /\ commands \in [Commands -> CommandRecord] /\ worker \in [Workers -> WorkerRecord]
      /\ worker[w] \in WorkerRecord
  BY DEF TypeOK
<1>1. PICK env \in Envs : env = worker[w].env
  BY <1>0 DEF WorkerRecord
<1> DEFINE next == worker'[w]
<1>2. /\ worker' = [worker EXCEPT ![w] = next] /\ worker[w].pc = "run"
      /\ next.env = worker[w].env /\ next.then = worker[w].then
      /\ report' = report /\ \A e \in Envs : Trusted(e)' <=> Trusted(e)
  BY <1>0 DEF StepOf, SkipStep, AcquireNew, AcquireJoin, StepEnds, ReadyToAcquire, WorkerRecord,
     EnvsStay, Trusted
<1> HIDE DEF next
<1>3. /\ \A e \in Envs : Driven(e) => Driven(e)'
      /\ \A d \in Commands : Asked(d) => Asked(d)'
  BY <1>2, StillDriven
<1>4. Driven(env)
  BY <1>1, <1>2 DEF Driven, WorkerControl
<1>5. /\ \A d \in Commands : d # c => commands'[d] = commands[d]
      /\ \/ commands'[c] = commands[c]
         \/ commands'[c].holders = {env}
         \/ /\ commands'[c].holders = commands[c].holders \cup {env}
            /\ commands'[c].episode = commands[c].episode
            /\ commands'[c].phase = commands[c].phase
            /\ commands'[c].cancelled = commands[c].cancelled
            /\ commands'[c].state = commands[c].state
  <2>1. CASE SkipStep(w, c) \/ StepEnds(w, c)
    BY <2>1 DEF SkipStep, StepEnds
  <2>2. CASE AcquireNew(w, c)
    BY <1>0, <1>1, <2>2, Constants DEF AcquireNew, CommandRecord
  <2>3. CASE AcquireJoin(w, c)
    BY <1>0, <1>1, <2>3 DEF AcquireJoin, CommandRecord
  <2> QED BY <2>1, <2>2, <2>3 DEF StepOf
<1>6. \A e \in Envs, d \in Commands : d # c /\ Owed(e, d) => Owed(e, d)'
  BY <1>2, <1>3, <1>5 DEF Owed
<1>7. Owed(env, c)'
  BY <1>3, <1>4 DEF Owed
<1>8. ASSUME NEW e \in Envs, e # env, e \in commands'[c].holders
      PROVE  e \in commands[c].holders /\ (Owed(e, c) => Owed(e, c)')
  BY <1>2, <1>3, <1>5, <1>8 DEF Owed
<1> QED BY <1>2, <1>5, <1>6, <1>7, <1>8, ReportedKept

LEMMA RequestReported ==
  ASSUME TypeOK, WorkerControl, CommandInv', Reported, NEW w \in Workers, Requested(w)
  PROVE  Reported'
<1>0. /\ commands \in [Commands -> CommandRecord] /\ worker \in [Workers -> WorkerRecord]
      /\ envState \in [Envs -> EnvStates]
  BY DEF TypeOK
<1>1. PICK next \in Fresh : worker' = [worker EXCEPT ![w] = next]
  BY FreshWorker
<1>2. worker[w].pc = "idle" /\ worker[w].then = "release"
  BY DEF Requested, StartEnvironment, StopEnvironment, RestartCommand, WorkerControl
<1>3. /\ \A e \in Envs : Driven(e) => Driven(e)'
      /\ \A d \in Commands : Asked(d) => Asked(d)'
  BY <1>1, <1>2, StillDriven
<1>4. ASSUME NEW e \in Envs, StartEnvironment(w, e) \/ StopEnvironment(w, e)
      PROVE  Reported'
  <2>1. /\ commands' = commands /\ report' = report
        /\ \A o \in Envs : Trusted(o)' => Trusted(o)
    BY <1>0, <1>4 DEF StartEnvironment, StopEnvironment, SetEnvState, InTime, Trusted
  <2>2. \A o \in Envs, d \in Commands : Owed(o, d) => Owed(o, d)'
    BY <1>3, <2>1 DEF Owed
  <2> QED BY <2>1, <2>2, ReportedKept
<1>5. ASSUME NEW c \in Commands, RestartCommand(w, c) PROVE Reported'
  <2>1. /\ \A d \in Commands : d # c => commands'[d] = commands[d]
        /\ commands'[c].holders = commands[c].holders /\ report' = report
        /\ \A o \in Envs : Trusted(o)' <=> Trusted(o)
    BY <1>0, <1>5 DEF RestartCommand, EnvsStay, Trusted, CommandRecord
  <2>2. Asked(c)'
    <3>1. Idle \in WorkerRecord
      BY Constants
    <3>2. worker'[w] = [Idle EXCEPT !.pc = "restart", !.cmd = c]
      BY <1>0, <1>5 DEF RestartCommand
    <3>3. worker'[w].pc = "restart" /\ worker'[w].cmd = c
      BY <3>1, <3>2 DEF WorkerRecord
    <3> QED BY <3>3 DEF Asked
  <2>3. \A o \in Envs, d \in Commands : d # c /\ Owed(o, d) => Owed(o, d)'
    BY <1>3, <2>1 DEF Owed
  <2>4. \A o \in Envs : Owed(o, c)'
    BY <2>2 DEF Owed
  <2> QED BY <2>1, <2>3, <2>4, ReportedKept
<1> QED BY <1>4, <1>5 DEF Requested

LEMMA ReportedStep ==
  ASSUME TypeOK, WorkerControl, CommandInv, CommandInv', Reported, Next
  PROVE  Reported'
  BY EpisodeReported, WorkerReported, StepReported, RequestReported, StepCases DEF Next

-----------------------------------------------------------------------------
(* The theorems *)

LEMMA IInvInit == Init => IInv
<1> SUFFICES ASSUME Init PROVE IInv
  OBVIOUS
<1>1. /\ Idle \in WorkerRecord /\ Absent \in CommandRecord
      /\ 0 \in 0 .. MaxOps /\ 0 \in 0 .. MaxFaults
  BY Constants, WorkflowsOK
<1>2. TypeOK
  BY <1>1, Constants DEF Init, TypeOK, EnvStates
<1>3. \A c \in Commands : commands[c] = Absent
  BY DEF Init
<1>4. CrashCycle /\ GateHeld /\ UpAtRest /\ HoldersInPlan
  BY <1>3, WorkflowsOK DEF CrashCycle, GateHeld, UpAtRest, HoldersInPlan, Absent, Up
<1>5. \A w \in Workers : worker[w] = Idle
  BY DEF Init
<1>6. WorkerControl /\ SeenUp
  BY <1>5, Constants DEF WorkerControl, SeenUp, InLoop
<1>7. Reported
  BY DEF Init, Reported
<1> QED BY <1>2, <1>4, <1>6, <1>7 DEF IInv

LEMMA IInvStep == IInv /\ [Next]_vars => IInv'
<1> SUFFICES ASSUME IInv, [Next]_vars PROVE IInv'
  OBVIOUS
<1>1. CASE Next
  <2>1. TypeOK' /\ WorkerControl'
    BY <1>1, TypeStep DEF IInv
  <2>2. CommandInv'
    BY <1>1, CommandStep DEF IInv, CommandInv
  <2>3. SeenUp'
    BY <1>1, <2>1, SeenStep DEF IInv
  <2>4. Reported'
    BY <1>1, <2>2, ReportedStep DEF IInv, CommandInv
  <2> QED BY <2>1, <2>2, <2>3, <2>4 DEF IInv, CommandInv
<1>2. CASE UNCHANGED vars
  BY <1>2 DEF vars, IInv, TypeOK, WorkerControl, InLoop, CrashCycle, GateHeld, SeenUp, UpAtRest,
     HoldersInPlan, Reported, Owed, Driven, Asked
<1> QED BY <1>1, <1>2

\* The inductive invariant: how far workers and episodes are, who has the gate, what
\* each start has seen, and who will be told of what happens to a command.
THEOREM Invariant == Spec => []IInv
  BY IInvInit, IInvStep, PTL DEF Spec

\* Commands, workers and environments keep their shape, and no automatic restart
\* goes beyond maxRetries (attemptRestart).
THEOREM TypeCorrect == Spec => []TypeOK
  BY Invariant, PTL DEF IInv

\* Of all interactive commands at most one is between its launch and its readiness
\* (authGate), in starts, retries and restarts by anyone.
THEOREM LoginsAreApart == Spec => []OneLogin
<1>1. IInv => OneLogin
  BY DEF IInv, GateHeld, OneLogin
<1> QED BY <1>1, Invariant, PTL

\* At rest, what an environment reported running holds is up, or was stopped by
\* another one, unless the report was out of date when it was written: the sections
\* of the roll-ups, of starts, stops, restarts and crashes interleave in any way
\* (recomputeEnvsFor, recomputeEnvState).
THEOREM RunningIsUp == Spec => []RunningMeansUp
<1>1. IInv => RunningMeansUp
  <2> SUFFICES ASSUME IInv, Quiet, NEW e \in Envs, NEW c \in Commands,
                      envState[e] = "running", e \in commands[c].holders, e \notin overtaken
               PROVE  commands[c].state \in Up \cup {"stopped"}
    BY DEF RunningMeansUp
  <2>1. \A w \in Workers : worker[w].pc = "idle" /\ worker[w].then = "release"
    BY DEF Quiet, IInv, WorkerControl
  <2>2. /\ commands[c].episode = "none" /\ ~Driven(e) /\ ~Asked(c)
        /\ commands[c].phase \notin Reporting
    BY <2>1 DEF Quiet, Driven, Asked, IInv, CrashCycle, Reporting
  <2> QED BY <2>2 DEF IInv, Reported, Owed
<1> QED BY <1>1, Invariant, PTL

\* A start acquires a command only after it has seen all of its dependencies up in
\* this run (runEnvironment's readyCh).
THEOREM DependenciesComeFirst == Spec => DependenciesFirst
<1>1. IInv /\ [Next]_vars =>
        [\A w \in Workers, c \in Commands :
           /\ worker[w].step[c] = "waiting"
           /\ worker'[w].step[c] \in {"starting", "joining"}
           => DependsOn[worker[w].env][c] \subseteq upSince[w]]_vars
  <2>1. CASE Next
    BY <2>1, DependenciesStep DEF IInv
  <2>2. CASE UNCHANGED vars
    BY <2>2
  <2> QED BY <2>1, <2>2
<1> QED BY <1>1, Invariant, PTL DEF Spec, DependenciesFirst
=============================================================================
