----------------------- MODULE CommandSupervisorProofs -----------------------
(***************************************************************************)
(* Type correctness of CommandSupervisor, and the discipline of restartMu: *)
(* a goroutine holds the lock of a command exactly while it drives a start *)
(* or restart episode of it, so that one episode at a time is in flight.   *)
(*                                                                         *)
(* LockInv is not inductive alone.  An episode ends where its continuation *)
(* (ret, after, then) says, so ControlInv bounds what those can be at each *)
(* label; an action assigns to the struct its goroutine points to, so      *)
(* ControlInv also says that there is one; and AcquireNew writes a struct  *)
(* nobody points to yet, for which it says that pointers stay below nobj.  *)
(*                                                                         *)
(* Then the channels and processes of a command.  In every behaviour each  *)
(* channel has one purpose (ChannelsSound).  That none is closed twice,    *)
(* that a launch waits for the last process, that there is one supervisor, *)
(* that an adopted command has no process and that a task reported up is   *)
(* over, the code does not guarantee in every behaviour: those theorems    *)
(* name, as a state predicate that always holds, what must not happen.     *)
(***************************************************************************)
EXTENDS CommandSupervisor, FiniteSetTheorems, TLAPS

-----------------------------------------------------------------------------
(* The type invariant in four parts, and the facts about constants and     *)
(* labels that every proof below uses.                                     *)

HeapOK  == commands \in [Objs -> Command] /\ nobj \in 0 .. MaxObjs /\ cur \in 0 .. nobj
PcOK    == pc \in [Threads -> Labels]
LocOK   == loc \in [Threads -> Locals]
WorldOK ==
  /\ envState \in [Envs -> EnvStates]
  /\ fresh \in Nat /\ closed \subseteq Nat
  /\ alive \subseteq Nat /\ signalled \subseteq Nat /\ badExit \subseteq Nat
  /\ ops \in Nat /\ faults \in Nat

\* TypeOK is the conjunction of its four parts.
LEMMA TypeParts == TypeOK <=> HeapOK /\ PcOK /\ LocOK /\ WorldOK
BY DEF TypeOK, HeapOK, PcOK, LocOK, WorldOK

\* The same of the next state.
LEMMA TypePartsNext ==
  ASSUME HeapOK', PcOK', LocOK', WorldOK' PROVE TypeOK'
BY DEF TypeOK, HeapOK, PcOK, LocOK, WorldOK

\* Workers and monitors are goroutines, and no goroutine is NoThread.
LEMMA ThreadsAre ==
  /\ Workers \subseteq Threads /\ Monitors \subseteq Threads
  /\ Workers \cap Monitors = {} /\ NoThread \notin Threads
BY ConstantsOK DEF Threads, Monitors, NoThread

\* The three groups of labels are labels.
LEMMA LabelsAre ==
  WorkerLabels \subseteq Labels /\ MonitorLabels \subseteq Labels /\ SharedLabels \subseteq Labels
BY DEF Labels

\* The local variables of a goroutine that has not started are typed.
LEMMA BlankOK == Blank \in Locals
BY DEF Blank, Locals, Labels, SharedLabels, EnvStates, NoObj, NilChan

\* The command in the map is on the heap.
LEMMA CurObj == ASSUME HeapOK, cur # NoObj PROVE cur \in Objs
BY ConstantsOK DEF HeapOK, ConstantsOK, Objs, NoObj

-----------------------------------------------------------------------------
(* Updates of the heap: of one struct, of the state setCmdState finds by    *)
(* name, or of both.                                                       *)

\* The fields of a struct on the heap.
LEMMA FieldsOK ==
  ASSUME HeapOK, NEW o \in Objs
  PROVE  /\ commands[o] \in Command
         /\ commands[o].startDone \in Nat /\ commands[o].exited \in Nat
         /\ commands[o].monitorDone \in Nat /\ commands[o].quit \in Nat
         /\ commands[o].cmd \in Nat /\ commands[o].retries \in Nat
         /\ commands[o].holders \in SUBSET Envs
BY DEF HeapOK, Command

\* setCmdState keeps the heap typed and writes no lock.
LEMMA WithState ==
  ASSUME HeapOK, NEW cs \in [Objs -> Command], NEW s \in CmdStates
  PROVE  /\ WithCmdState(cs, s) \in [Objs -> Command]
         /\ \A o \in Objs : WithCmdState(cs, s)[o].restartMu = cs[o].restartMu
BY CurObj DEF WithCmdState, Command

\* An assignment to a struct.
LEMMA HeapSet ==
  ASSUME HeapOK, NEW o \in Objs, NEW c \in Command,
         commands' = [commands EXCEPT ![o] = c], UNCHANGED <<nobj, cur>>
  PROVE  HeapOK'
BY DEF HeapOK

\* A call of setCmdState.
LEMMA HeapState ==
  ASSUME HeapOK, NEW s \in CmdStates, commands' = WithCmdState(commands, s),
         UNCHANGED <<nobj, cur>>
  PROVE  HeapOK'
BY WithState DEF HeapOK

\* An assignment to a struct and a call of setCmdState.
LEMMA HeapSetState ==
  ASSUME HeapOK, NEW o \in Objs, NEW c \in Command, NEW s \in CmdStates,
         commands' = WithCmdState([commands EXCEPT ![o] = c], s),
         UNCHANGED <<nobj, cur>>
  PROVE  HeapOK'
<1>1. [commands EXCEPT ![o] = c] \in [Objs -> Command]
  BY DEF HeapOK
<1> QED BY <1>1, WithState DEF HeapOK

\* A jump to a label.
LEMMA GotoOK ==
  ASSUME PcOK, NEW t \in Threads, NEW l \in Labels, Goto(t, l) PROVE PcOK'
BY DEF PcOK, Goto

\* The return from an operation's part.
LEMMA ContinueOK ==
  ASSUME PcOK, LocOK, NEW t \in Threads, NEW l \in Labels, Continue(t, l)
  PROVE  PcOK' /\ LocOK'
BY BlankOK DEF PcOK, LocOK, Goto, Continue

\* The local variables of a goroutine.
LEMMA LocalsOK ==
  ASSUME LocOK, NEW t \in Threads
  PROVE  /\ loc[t] \in Locals /\ loc[t].obj \in Objs \cup {NoObj}
         /\ loc[t].ret \in Labels /\ loc[t].after \in Labels
         /\ loc[t].then \in Labels /\ loc[t].cont \in Labels
         /\ loc[t].env \in SUBSET Envs /\ loc[t].done \in Nat /\ loc[t].eff \in SUBSET Vars
         /\ loc[t].sum \in EnvStates
BY DEF LocOK, Locals

\* An assignment to the local variables of a goroutine.
LEMMA LocSet ==
  ASSUME LocOK, NEW t \in Threads, NEW l \in Locals, loc' = [loc EXCEPT ![t] = l]
  PROVE  LocOK'
BY DEF LocOK

\* A go statement.
LEMMA SpawnOK ==
  ASSUME PcOK, LocOK, NEW t \in Threads, NEW h \in Labels, NEW l \in Labels,
         Spawn(t, h, l)
  PROVE  PcOK' /\ LocOK'
<1>1. PICK m \in Monitors :
        /\ pc' = [pc EXCEPT ![t] = h, ![m] = l]
        /\ loc' = [loc EXCEPT ![m] = [Blank EXCEPT !.obj = loc[t].obj]]
  BY DEF Spawn
<1>2. [Blank EXCEPT !.obj = loc[t].obj] \in Locals
  BY BlankOK, LocalsOK DEF Locals
<1>3. m \in Threads
  BY ThreadsAre
<1>4. PcOK'
  BY <1>1, <1>3 DEF PcOK
<1>5. LocOK'
  BY <1>1, <1>2, <1>3, LocSet
<1> QED BY <1>4, <1>5

-----------------------------------------------------------------------------
(* Where a goroutine can be with which local variables.                    *)

RetLabels   == {"idle", "started", "relaunched", "retried"}
AfterLabels == {"idle", "settle", "rollup", "backoff", "relaunch", "stopped"}
ThenLabels  == {"idle", "unlock", "retryResume", "retryExit", "monitorExit"}
ContLabels  == {"idle", "acquire", "resetForRetry", "finishRun", "envStopped", "shutdownEnd"}

\* Labels at which no struct need be known.
FreeLabels == {"idle", "markStarting", "resetForRetry", "acquire", "release",
               "envStopped", "finishRun", "shutdownEnd"}
RollupLabels == {"rollup", "rollupRead", "rollupWrite"}

Flow(t) ==
  /\ loc[t].obj \in 0 .. nobj
  /\ loc[t].ret \in RetLabels /\ loc[t].after \in AfterLabels
  /\ loc[t].then \in ThenLabels /\ loc[t].cont \in ContLabels
  /\ pc[t] \notin FreeLabels \cup RollupLabels => loc[t].obj # NoObj
  /\ pc[t] \in RollupLabels /\ loc[t].then # "idle" => loc[t].obj # NoObj
  /\ InEpisode(t) /\ pc[t] # "restartBegin" => loc[t].ret # "idle"
  /\ pc[t] = "start" => loc[t].ret # "idle"
  /\ pc[t] \in {"kill", "awaitExit"} => loc[t].after \notin {"idle", "rollup"}
  /\ pc[t] = "startMonitor" =>
       \/ loc[t].after = "settle"
       \/ loc[t].after = "rollup" /\ loc[t].then = "unlock"

ControlInv == \A t \in Threads : Flow(t)

\* A goroutine past the labels that need no struct points to one on the heap.
LEMMA ObjOK ==
  ASSUME LocOK, ControlInv, NEW t \in Threads,
         pc[t] \notin FreeLabels, pc[t] \notin RollupLabels
  PROVE  loc[t].obj \in Objs
BY LocalsOK DEF ControlInv, Flow, NoObj

-----------------------------------------------------------------------------
(* The assignments to one struct keep its type.                            *)

\* c.holders[env] = true, delete(c.holders, env).
LEMMA SetHolders ==
  ASSUME NEW c \in Command, NEW h \in SUBSET Envs
  PROVE  [c EXCEPT !.holders = h] \in Command
BY DEF Command
\* c.restartMu.Lock().
LEMMA SetLock ==
  ASSUME NEW c \in Command, NEW t \in Threads
  PROVE  [c EXCEPT !.restartMu = t] \in Command
BY DEF Command
\* c.restartMu.Unlock().
LEMMA SetUnlock ==
  ASSUME NEW c \in Command
  PROVE  [c EXCEPT !.restartMu = NoThread] \in Command
BY DEF Command
\* The lock and the retry count of restartInPlace.
LEMMA SetLockRetries ==
  ASSUME NEW c \in Command, NEW t \in Threads
  PROVE  [c EXCEPT !.restartMu = t, !.retries = 0] \in Command
BY DEF Command
\* The lock and the cancellation undone by restartCommandInPlace.
LEMMA SetLockCancel ==
  ASSUME NEW c \in Command, NEW t \in Threads
  PROVE  [c EXCEPT !.restartMu = t, !.userStopped = FALSE, !.quit = NilChan,
                   !.retries = 0] \in Command
BY DEF Command, NilChan
\* The lock, the flag and the barrier of takeOverUnmanaged.
LEMMA SetTakeOver ==
  ASSUME NEW c \in Command, NEW t \in Threads, NEW n \in Nat
  PROVE  [c EXCEPT !.restartMu = t, !.unmanaged = FALSE, !.startDone = n] \in Command
BY DEF Command
\* c.unmanaged = true.
LEMMA SetUnmanaged ==
  ASSUME NEW c \in Command
  PROVE  [c EXCEPT !.unmanaged = TRUE] \in Command
BY DEF Command
\* c.quit = make(chan struct{}).
LEMMA SetQuit ==
  ASSUME NEW c \in Command, NEW n \in Nat
  PROVE  [c EXCEPT !.quit = n] \in Command
BY DEF Command
\* What launchProcess sets before the process is started.
LEMMA SetLaunched ==
  ASSUME NEW c \in Command, NEW n \in Nat, NEW v \in SUBSET Vars
  PROVE  [c EXCEPT !.exited = n, !.appliedEnv = v] \in Command
BY DEF Command
\* c.cmd = cmd.
LEMMA SetCmd ==
  ASSUME NEW c \in Command, NEW n \in Nat
  PROVE  [c EXCEPT !.cmd = n] \in Command
BY DEF Command
\* What startMonitor sets.
LEMMA SetMonitor ==
  ASSUME NEW c \in Command, NEW n \in Nat, NEW k \in Nat
  PROVE  [c EXCEPT !.quit = n, !.monitorDone = k] \in Command
BY DEF Command
\* c.retries = n.
LEMMA SetRetries ==
  ASSUME NEW c \in Command, NEW n \in Nat
  PROVE  [c EXCEPT !.retries = n] \in Command
BY DEF Command
\* c.startDone = make(chan struct{}).
LEMMA SetStartDone ==
  ASSUME NEW c \in Command, NEW n \in Nat
  PROVE  [c EXCEPT !.startDone = n] \in Command
BY DEF Command
\* c.userStopped = true.
LEMMA SetCancelled ==
  ASSUME NEW c \in Command
  PROVE  [c EXCEPT !.userStopped = TRUE] \in Command
BY DEF Command
\* c.stopStartedAt stamped or left.
LEMMA SetStamped ==
  ASSUME NEW c \in Command, NEW b \in BOOLEAN
  PROVE  [c EXCEPT !.stopping = b] \in Command
BY DEF Command
\* c.userStopped and c.stopStartedAt of Shutdown.
LEMMA SetStopMarked ==
  ASSUME NEW c \in Command, NEW b \in BOOLEAN
  PROVE  [c EXCEPT !.userStopped = TRUE, !.stopping = b] \in Command
BY DEF Command
\* c.stopStartedAt cleared.
LEMMA SetStopped ==
  ASSUME NEW c \in Command
  PROVE  [c EXCEPT !.stopping = FALSE] \in Command
BY DEF Command
\* The struct acquireAndStart allocates.
LEMMA NewCommandOK ==
  ASSUME NEW s \in Nat, NEW x \in Nat, NEW h \in SUBSET Envs
  PROVE  [NewCommand(s, x) EXCEPT !.holders = h] \in Command
BY DEF NewCommand, Command, CmdStates, NilChan, NoThread

\* The local variables of a rollup of every environment.
LEMMA SetRollup ==
  ASSUME NEW l \in Locals, NEW n \in Labels, NEW a \in Labels
  PROVE  /\ [l EXCEPT !.todo = Envs, !.then = n, !.after = a] \in Locals
         /\ [l EXCEPT !.todo = Envs, !.then = n] \in Locals
BY DEF Locals

\* The local variables of the rollup that ends a start.
LEMMA SetFinish ==
  ASSUME NEW l \in Locals, NEW h \in SUBSET Envs, NEW s \in EnvStates, NEW n \in Labels
  PROVE  [l EXCEPT !.roll = h, !.todo = {}, !.then = n, !.sum = s] \in Locals
BY DEF Locals

\* The local variables of a launch that has settled.
LEMMA SetOk ==
  ASSUME NEW l \in Locals, NEW b \in BOOLEAN, NEW a \in Labels
  PROVE  /\ [l EXCEPT !.ok = b] \in Locals
         /\ [l EXCEPT !.ok = b, !.after = a] \in Locals
BY DEF Locals
\* The local variables once the variables of the holders were read.
LEMMA SetEff ==
  ASSUME NEW l \in Locals, NEW v \in SUBSET Vars PROVE [l EXCEPT !.eff = v] \in Locals
BY DEF Locals
\* The local variables once a rollup has picked an environment.
LEMMA SetTodo ==
  ASSUME NEW l \in Locals, NEW h \in SUBSET Envs, NEW g \in SUBSET Envs
  PROVE  [l EXCEPT !.todo = h, !.roll = g] \in Locals
BY DEF Locals

\* The variables in force and the cancelled channels are typed.
LEMMA EnvOK == ASSUME HeapOK, NEW o \in Objs PROVE EffectiveEnv(o) \in SUBSET Vars
<1>1. commands[o].holders \subseteq Envs
  BY FieldsOK
<1> QED BY <1>1, ConstantsOK DEF EffectiveEnv, ConstantsOK
\* What closing c.quit adds to the closed channels.
LEMMA CloseQuitOK == ASSUME HeapOK, WorldOK, NEW o \in Objs PROVE CloseQuit(o) \subseteq Nat
BY FieldsOK DEF CloseQuit, WorldOK

-----------------------------------------------------------------------------
(* One lemma per group of actions: the step keeps the four parts.          *)

Typed == HeapOK /\ PcOK /\ LocOK /\ WorldOK

\* A public operation keeps the types.
LEMMA RequestTyped ==
  ASSUME Typed, ControlInv, NEW w \in Workers, Request(w) PROVE Typed'
<1> USE ThreadsAre, LabelsAre
<1>1. CASE \E e \in Envs : StartEnvironment(w, e)
  <2>1. PICK e \in Envs : StartEnvironment(w, e)
    BY <1>1
  <2>2. LocOK'
    BY <2>1, BlankOK DEF Typed, StartEnvironment, LocOK, Locals, WorkerLabels
  <2>3. PcOK'
    BY <2>1, GotoOK DEF Typed, StartEnvironment, WorkerLabels
  <2>4. HeapOK' /\ WorldOK'
    BY <2>1 DEF Typed, StartEnvironment, Begin, HeapOK, WorldOK
  <2> QED BY <2>2, <2>3, <2>4 DEF Typed
<1>2. CASE \E e \in Envs : StopEnvironment(w, e)
  <2>1. PICK e \in Envs : StopEnvironment(w, e)
    BY <1>2
  <2>2. LocOK'
    BY <2>1, BlankOK DEF Typed, StopEnvironment, LocOK, Locals, WorkerLabels
  <2>3. PcOK'
    BY <2>1, GotoOK DEF Typed, StopEnvironment, WorkerLabels
  <2>4. HeapOK' /\ WorldOK'
    BY <2>1 DEF Typed, StopEnvironment, Begin, HeapOK, WorldOK, EnvStates
  <2> QED BY <2>2, <2>3, <2>4 DEF Typed
<1>3. CASE RestartCommand(w)
  <2>1. cur \in Objs
    BY <1>3, CurObj DEF Typed, RestartCommand
  <2>2. LocOK'
    BY <1>3, <2>1, BlankOK DEF Typed, RestartCommand, LocOK, Locals
  <2>3. PcOK'
    BY <1>3, GotoOK DEF Typed, RestartCommand, WorkerLabels
  <2>4. HeapOK'
    BY <1>3 DEF Typed, RestartCommand, Begin, HeapOK
  <2>5. WorldOK'
    BY <1>3 DEF Typed, RestartCommand, Begin, WorldOK
  <2> QED BY <2>2, <2>3, <2>4, <2>5 DEF Typed
<1>4. CASE Shutdown(w)
  <2>1. cur \in Objs \cup {NoObj}
    BY CurObj DEF Typed
  <2>2. LocOK'
    BY <1>4, <2>1, BlankOK DEF Typed, Shutdown, LocOK, Locals, WorkerLabels
  <2>3. PcOK'
    BY <1>4, GotoOK DEF Typed, Shutdown, WorkerLabels
  <2>4. HeapOK' /\ WorldOK'
    BY <1>4 DEF Typed, Shutdown, Begin, HeapOK, WorldOK
  <2> QED BY <2>2, <2>3, <2>4 DEF Typed
<1> QED BY <1>1, <1>2, <1>3, <1>4 DEF Request

\* What a worker's step does to the heap.
LEMMA WorkerHeap ==
  ASSUME Typed, ControlInv, NEW w \in Workers, WorkerStep(w) PROVE HeapOK'
<1> USE ThreadsAre
<1> DEFINE o == loc[w].obj
<1>1. ASSUME pc[w] \notin FreeLabels, pc[w] \notin RollupLabels
      PROVE  o \in Objs /\ commands[o] \in Command
  BY <1>1, ObjOK, FieldsOK DEF Typed
<1>2. CASE \/ MarkStarting(w) \/ ResetForRetry(w) \/ JoinWait(w) \/ EnvCheck(w)
           \/ EnvRead(w) \/ EnvCompare(w) \/ CancelWait(w) \/ StopBarrier(w) \/ StopWait(w)
           \/ EnvStopped(w) \/ FinishRun(w)
  BY <1>2 DEF Typed, HeapOK, heap, MarkStarting, ResetForRetry, JoinWait, EnvCheck,
     EnvRead, EnvCompare, CancelWait, StopBarrier, StopWait, EnvStopped, FinishRun
<1>3. CASE ShutdownEnd(w)
  BY <1>3 DEF Typed, HeapOK, ShutdownEnd, NoObj
<1>4. CASE AcquireNew(w)
  <2> DEFINE c == [NewCommand(fresh + 1, fresh + 2) EXCEPT !.holders = loc[w].env]
  <2>1. nobj + 1 \in Objs /\ nobj + 1 \in 0 .. MaxObjs
    BY <1>4, ConstantsOK DEF Typed, AcquireNew, HeapOK, Objs, ConstantsOK
  <2>2. fresh + 1 \in Nat /\ fresh + 2 \in Nat /\ loc[w].env \in SUBSET Envs
    BY LocalsOK DEF Typed, WorldOK
  <2>3. c \in Command
    BY <2>2, NewCommandOK
  <2>4. commands' = [commands EXCEPT ![nobj + 1] = c]
    BY <1>4 DEF AcquireNew
  <2> HIDE DEF c
  <2> QED BY <1>4, <2>1, <2>3, <2>4 DEF Typed, AcquireNew, HeapOK
<1>5. CASE AcquireJoin(w)
  <2> DEFINE c == [commands[cur] EXCEPT !.holders = @ \cup loc[w].env]
  <2>1. cur \in Objs
    BY <1>5, CurObj DEF Typed, AcquireJoin, NeedsNewCommand
  <2>2. commands[cur].holders \cup loc[w].env \in SUBSET Envs
    BY <2>1, FieldsOK, LocalsOK DEF Typed
  <2>3. commands' = [commands EXCEPT ![cur] = c]
    BY <1>5 DEF AcquireJoin
  <2>4. c \in Command
    BY <2>1, <2>2, FieldsOK, SetHolders DEF Typed
  <2> QED BY <1>5, <2>1, <2>3, <2>4, HeapSet DEF Typed, AcquireJoin
<1>6. CASE StartCommand(w)
  <2> DEFINE c == [commands[o] EXCEPT !.restartMu = w]
  <2>1. c \in Command
    BY <1>1, <1>6, SetLock DEF StartCommand, FreeLabels, RollupLabels
  <2>2. commands' = WithCmdState([commands EXCEPT ![o] = c], "starting")
    BY <1>6 DEF StartCommand
  <2> QED BY <1>1, <1>6, <2>1, <2>2, HeapSetState
          DEF Typed, StartCommand, FreeLabels, RollupLabels, CmdStates
<1>7. CASE CheckUnmanaged(w)
  <2> DEFINE c == [commands[o] EXCEPT !.unmanaged = TRUE]
  <2>1. c \in Command
    BY <1>1, <1>7, SetUnmanaged DEF CheckUnmanaged, FreeLabels, RollupLabels
  <2>2. CASE commands' = [commands EXCEPT ![o] = c]
    BY <1>1, <1>7, <2>1, <2>2, HeapSet
    DEF Typed, CheckUnmanaged, FreeLabels, RollupLabels
  <2>3. CASE UNCHANGED commands
    BY <1>7, <2>3 DEF Typed, HeapOK, CheckUnmanaged
  <2> QED BY <1>7, <2>2, <2>3 DEF CheckUnmanaged
<1>8. CASE \/ Adopt(w) \/ RestartBegin(w) \/ MarkRestarting(w) \/ MarkStopping(w)
  BY <1>8, HeapState DEF Typed, Adopt, RestartBegin, MarkRestarting, MarkStopping, CmdStates
<1>9. CASE WatchUnmanaged(w)
  <2> DEFINE c == [commands[o] EXCEPT !.quit = fresh + 1]
  <2>1. c \in Command
    BY <1>1, <1>9, SetQuit DEF Typed, WorldOK, WatchUnmanaged, FreeLabels, RollupLabels
  <2>2. CASE commands' = [commands EXCEPT ![o] = c]
    BY <1>1, <1>9, <2>1, <2>2, HeapSet
    DEF Typed, WatchUnmanaged, FreeLabels, RollupLabels
  <2>3. CASE UNCHANGED commands
    BY <1>9, <2>3 DEF Typed, HeapOK, WatchUnmanaged
  <2> QED BY <1>9, <2>2, <2>3 DEF WatchUnmanaged
<1>10. CASE RestartInPlace(w)
  <2> DEFINE c == [commands[o] EXCEPT !.restartMu = w, !.retries = 0]
  <2>1. c \in Command
    BY <1>1, <1>10, SetLockRetries DEF RestartInPlace, FreeLabels, RollupLabels
  <2>2. commands' = WithCmdState([commands EXCEPT ![o] = c], "restarting")
    BY <1>10 DEF RestartInPlace
  <2> QED BY <1>1, <1>10, <2>1, <2>2, HeapSetState
          DEF Typed, RestartInPlace, FreeLabels, RollupLabels, CmdStates
<1>11. CASE Cancel(w)
  <2> DEFINE c == [commands[o] EXCEPT !.userStopped = TRUE]
  <2>1. c \in Command
    BY <1>1, <1>11, SetCancelled DEF Cancel, FreeLabels, RollupLabels
  <2>2. commands' = [commands EXCEPT ![o] = c]
    BY <1>11 DEF Cancel
  <2> QED BY <1>1, <1>11, <2>1, <2>2, HeapSet
          DEF Typed, Cancel, FreeLabels, RollupLabels
<1>12. CASE RestartLock(w)
  <2> DEFINE c == [commands[o] EXCEPT !.restartMu = w, !.userStopped = FALSE,
                                      !.quit = NilChan, !.retries = 0]
  <2>1. c \in Command
    BY <1>1, <1>12, SetLockCancel DEF RestartLock, FreeLabels, RollupLabels
  <2>2. commands' = [commands EXCEPT ![o] = c]
    BY <1>12 DEF RestartLock
  <2> QED BY <1>1, <1>12, <2>1, <2>2, HeapSet
          DEF Typed, RestartLock, FreeLabels, RollupLabels
<1>13. CASE Relaunched(w)
  <2>1. CASE commands' = WithCmdState(commands, "healthy")
    BY <1>13, <2>1, HeapState DEF Typed, Relaunched, CmdStates
  <2>2. CASE UNCHANGED commands
    BY <1>13, <2>2 DEF Typed, HeapOK, Relaunched
  <2> QED BY <1>13, <2>1, <2>2 DEF Relaunched
<1>14. CASE Unlock(w)
  <2> DEFINE c == [commands[o] EXCEPT !.restartMu = NoThread]
  <2>1. c \in Command
    BY <1>1, <1>14, SetUnlock DEF Unlock, FreeLabels, RollupLabels
  <2>2. commands' = [commands EXCEPT ![o] = c]
    BY <1>14 DEF Unlock
  <2> QED BY <1>1, <1>14, <2>1, <2>2, HeapSet
          DEF Typed, Unlock, FreeLabels, RollupLabels
<1>15. CASE Release(w)
  <2> DEFINE c == [commands[cur] EXCEPT !.holders = @ \ loc[w].env]
  <2>1. CASE cur = NoObj
    BY <1>15, <2>1 DEF Typed, HeapOK, Release
  <2>2. CASE cur # NoObj
    <3>1. cur \in Objs
      BY <2>2, CurObj DEF Typed
    <3>2. commands[cur].holders \ loc[w].env \in SUBSET Envs
      BY <3>1, FieldsOK DEF Typed
    <3>3. commands' = [commands EXCEPT ![cur] = c]
      BY <1>15, <2>2 DEF Release
    <3>4. c \in Command
      BY <3>1, <3>2, FieldsOK, SetHolders DEF Typed
    <3> QED BY <1>15, <3>1, <3>3, <3>4, HeapSet DEF Typed, Release
  <2> QED BY <2>1, <2>2
<1>16. CASE CancelStop(w)
  <2> DEFINE c == [commands[o] EXCEPT !.userStopped = TRUE]
  <2>1. c \in Command
    BY <1>1, <1>16, SetCancelled DEF CancelStop, FreeLabels, RollupLabels
  <2>2. commands' = [commands EXCEPT ![o] = c]
    BY <1>16 DEF CancelStop
  <2> QED BY <1>1, <1>16, <2>1, <2>2, HeapSet
          DEF Typed, CancelStop, FreeLabels, RollupLabels
<1>18. CASE StampStop(w) \/ ShutdownStop(w)
  <2> DEFINE b == commands[o].stopping \/ IsActive(o)
             c == [commands[o] EXCEPT !.stopping = b]
             d == [commands[o] EXCEPT !.userStopped = TRUE, !.stopping = b]
  <2>1. \/ commands' = [commands EXCEPT ![o] = c]
        \/ commands' = [commands EXCEPT ![o] = d]
    BY <1>18 DEF StampStop, ShutdownStop
  <2>2. b \in BOOLEAN
    BY <1>1, <1>18 DEF StampStop, ShutdownStop, FreeLabels, RollupLabels, Command
  <2> HIDE DEF b
  <2>3. o \in Objs /\ c \in Command /\ d \in Command
    BY <1>1, <1>18, <2>2, SetStopMarked, SetStamped
    DEF StampStop, ShutdownStop, FreeLabels, RollupLabels
  <2>4. UNCHANGED <<nobj, cur>>
    BY <1>18 DEF StampStop, ShutdownStop
  <2> HIDE DEF c, d
  <2> QED BY <2>1, <2>3, <2>4, HeapSet DEF Typed
<1>17. CASE Stop(w) \/ Stopped(w)
  <2> DEFINE c == [commands[o] EXCEPT !.stopping = FALSE]
  <2>1. o \in Objs /\ c \in Command
    BY <1>1, <1>17, SetStopped DEF Stop, Stopped, FreeLabels, RollupLabels
  <2>2. UNCHANGED <<nobj, cur>>
    BY <1>17 DEF Stop, Stopped
  <2>3. CASE commands' = [commands EXCEPT ![o] = c]
    BY <2>1, <2>2, <2>3, HeapSet DEF Typed
  <2>4. CASE commands' = WithCmdState([commands EXCEPT ![o] = c], "stopped")
    BY <2>1, <2>2, <2>4, HeapSetState DEF Typed, CmdStates
  <2>5. CASE UNCHANGED commands
    BY <2>2, <2>5 DEF Typed, HeapOK
  <2> QED BY <1>17, <2>3, <2>4, <2>5 DEF Stop, Stopped
<1> QED BY <1>2, <1>3, <1>4, <1>5, <1>6, <1>7, <1>8, <1>9, <1>10, <1>11, <1>12,
           <1>13, <1>14, <1>15, <1>16, <1>17, <1>18 DEF WorkerStep

\* Where a worker's step takes its goroutine, and which local variables it sets.
LEMMA WorkerPc ==
  ASSUME Typed, NEW w \in Workers, WorkerStep(w) PROVE PcOK'
<1> USE ThreadsAre, LabelsAre, GotoOK, LocalsOK
<1>1. CASE WatchUnmanaged(w)
  BY <1>1, SpawnOK DEF Typed, WatchUnmanaged, SharedLabels, MonitorLabels
<1>2. CASE EnvCheck(w) \/ EnvRead(w) \/ EnvCompare(w) \/ Unlock(w) \/ Release(w)
  BY <1>2, ContinueOK DEF Typed, EnvCheck, EnvRead, EnvCompare, Unlock, Release, WorkerLabels
<1>3. CASE Stop(w) \/ Stopped(w) \/ EnvStopped(w) \/ ShutdownEnd(w)
  BY <1>3, ContinueOK
  DEF Typed, Stop, Stopped, EnvStopped, ShutdownEnd, WorkerLabels, SharedLabels
<1>4. CASE \/ MarkStarting(w) \/ ResetForRetry(w) \/ AcquireNew(w)
           \/ AcquireJoin(w) \/ JoinWait(w)
  BY <1>4 DEF Typed, MarkStarting, ResetForRetry, AcquireNew, AcquireJoin, JoinWait,
     WorkerLabels
<1>5. CASE StartCommand(w) \/ CheckUnmanaged(w) \/ Adopt(w) \/ RestartInPlace(w)
  BY <1>5 DEF Typed, StartCommand, CheckUnmanaged, Adopt, RestartInPlace,
     WorkerLabels, SharedLabels
<1>6. CASE \/ Cancel(w) \/ CancelWait(w) \/ RestartLock(w) \/ RestartBegin(w)
  BY <1>6 DEF Typed, Cancel, CancelWait, RestartLock, RestartBegin,
     WorkerLabels, SharedLabels
<1>7. CASE Relaunched(w) \/ FinishRun(w)
  BY <1>7 DEF Typed, Relaunched, FinishRun, SharedLabels
<1>8. CASE \/ CancelStop(w) \/ StampStop(w) \/ ShutdownStop(w) \/ MarkRestarting(w)
           \/ MarkStopping(w) \/ StopBarrier(w) \/ StopWait(w)
  BY <1>8 DEF Typed, CancelStop, StampStop, ShutdownStop, MarkRestarting, MarkStopping,
     StopBarrier, StopWait, WorkerLabels
<1> QED BY <1>1, <1>2, <1>3, <1>4, <1>5, <1>6, <1>7, <1>8 DEF WorkerStep

\* The local variables a worker's step sets.
LEMMA WorkerLoc ==
  ASSUME Typed, ControlInv, NEW w \in Workers, WorkerStep(w) PROVE LocOK'
<1> USE ThreadsAre, LabelsAre
<1>1. CASE \/ MarkStarting(w) \/ StartCommand(w) \/ CheckUnmanaged(w) \/ Adopt(w)
           \/ CancelWait(w) \/ RestartLock(w) \/ CancelStop(w) \/ StampStop(w)
           \/ MarkRestarting(w) \/ MarkStopping(w) \/ StopWait(w)
  BY <1>1 DEF Typed, LocOK, MarkStarting, StartCommand, CheckUnmanaged, Adopt,
     CancelWait, RestartLock, CancelStop, StampStop, MarkRestarting, MarkStopping, StopWait
<1>2. CASE ResetForRetry(w)
  <2>1. cur \in Objs \cup {NoObj}
    BY CurObj DEF Typed
  <2> QED BY <1>2, <2>1 DEF Typed, LocOK, Locals, ResetForRetry, WorkerLabels
<1>3. CASE AcquireNew(w)
  <2>1. nobj + 1 \in Objs
    BY <1>3, ConstantsOK DEF Typed, AcquireNew, HeapOK, Objs, ConstantsOK
  <2> DEFINE k == nobj + 1
  <2>2. loc' = [loc EXCEPT ![w].obj = k, ![w].ret = "started"]
    BY <1>3 DEF AcquireNew
  <2> HIDE DEF k
  <2>3. k \in Objs
    BY <2>1 DEF k
  <2> QED BY <2>2, <2>3 DEF Typed, LocOK, Locals, SharedLabels
<1>4. CASE AcquireJoin(w)
  <2> DEFINE n == commands[cur].startDone
  <2>1. cur \in Objs
    BY <1>4, CurObj DEF Typed, AcquireJoin, NeedsNewCommand
  <2>2. n \in Nat
    BY <2>1, FieldsOK DEF Typed
  <2>3. loc' = [loc EXCEPT ![w].obj = cur, ![w].chan = n]
    BY <1>4 DEF AcquireJoin
  <2> HIDE DEF n
  <2> QED BY <2>1, <2>2, <2>3 DEF Typed, LocOK, Locals
<1>5. CASE JoinWait(w)
  BY <1>5 DEF Typed, LocOK, Locals, JoinWait, WorkerLabels
<1>6. CASE EnvCheck(w) \/ EnvCompare(w) \/ Unlock(w)
  <2>1. CASE Continue(w, loc[w].cont)
    BY <2>1, ContinueOK, LocalsOK DEF Typed
  <2>2. CASE loc' = loc
    BY <2>2 DEF Typed, LocOK
  <2> QED BY <1>6, <2>1, <2>2 DEF EnvCheck, EnvCompare, Unlock
<1>15. CASE EnvRead(w)
  <2> DEFINE l == [loc[w] EXCEPT !.eff = EffectiveEnv(loc[w].obj)]
  <2>1. loc[w].obj \in Objs
    BY <1>15, ObjOK DEF Typed, EnvRead, FreeLabels, RollupLabels
  <2>2. l \in Locals
    BY <2>1, EnvOK, SetEff, LocalsOK DEF Typed
  <2>3. loc' = [loc EXCEPT ![w] = l]
    BY <1>15 DEF EnvRead
  <2> QED BY <2>2, <2>3, LocSet DEF Typed
<1>7. CASE WatchUnmanaged(w)
  BY <1>7, SpawnOK DEF Typed, WatchUnmanaged, SharedLabels, MonitorLabels
<1>8. CASE RestartInPlace(w) \/ RestartBegin(w)
  BY <1>8 DEF Typed, LocOK, Locals, RestartInPlace, RestartBegin, WorkerLabels, SharedLabels
<1>9. CASE Cancel(w) \/ StopBarrier(w) \/ ShutdownStop(w)
  <2> DEFINE n == C(w).startDone
             k == C(w).monitorDone
  <2>1. n \in Nat /\ k \in Nat
    BY <1>9, ObjOK, FieldsOK
    DEF Typed, Cancel, StopBarrier, ShutdownStop, C, FreeLabels, RollupLabels
  <2>2. \/ loc' = [loc EXCEPT ![w].chan = n, ![w].done = k]
        \/ loc' = [loc EXCEPT ![w].chan = n]
    BY <1>9 DEF Cancel, StopBarrier, ShutdownStop
  <2> HIDE DEF n, k
  <2>3. CASE loc' = [loc EXCEPT ![w].chan = n, ![w].done = k]
    BY <2>1, <2>3 DEF Typed, LocOK, Locals
  <2>4. CASE loc' = [loc EXCEPT ![w].chan = n]
    BY <2>1, <2>4 DEF Typed, LocOK, Locals
  <2> QED BY <2>2, <2>3, <2>4
<1>10. CASE Relaunched(w)
  <2> DEFINE l == [loc[w] EXCEPT !.todo = Envs, !.then = "unlock", !.after = "rollup"]
  <2>1. loc' = [loc EXCEPT ![w] = l]
    BY <1>10 DEF Relaunched
  <2>2. l \in Locals
    BY SetRollup, LocalsOK DEF Typed, WorkerLabels, SharedLabels
  <2> QED BY <2>1, <2>2, LocSet DEF Typed
<1>11. CASE Release(w)
  <2>1. CASE cur = NoObj
    BY <1>11, <2>1, ContinueOK, LocalsOK DEF Typed, Release
  <2>2. CASE cur # NoObj
    <3>1. cur \in Objs
      BY <2>2, CurObj DEF Typed
    <3>2. loc' = [loc EXCEPT ![w].obj = cur]
      BY <1>11, <2>2 DEF Release
    <3> QED BY <3>1, <3>2 DEF Typed, LocOK, Locals
  <2> QED BY <2>1, <2>2
<1>12. CASE Stop(w)
  <2>1. CASE Continue(w, loc[w].cont)
    BY <2>1, ContinueOK, LocalsOK DEF Typed
  <2>2. CASE loc' = [loc EXCEPT ![w].after = "stopped"]
    BY <2>2 DEF Typed, LocOK, Locals, WorkerLabels
  <2> QED BY <1>12, <2>1, <2>2 DEF Stop
<1>13. CASE Stopped(w) \/ EnvStopped(w) \/ ShutdownEnd(w)
  BY <1>13, ContinueOK, LocalsOK DEF Typed, Stopped, EnvStopped, ShutdownEnd, SharedLabels
<1>14. CASE FinishRun(w)
  <2>1. DerivedState \in EnvStates
    BY DEF DerivedState, EnvStates
  <2> DEFINE l == [loc[w] EXCEPT !.roll = loc[w].env, !.todo = {}, !.then = "idle",
                                 !.sum = DerivedState]
  <2>2. loc' = [loc EXCEPT ![w] = l]
    BY <1>14 DEF FinishRun
  <2>3. l \in Locals
    BY <2>1, SetFinish, LocalsOK DEF Typed, SharedLabels
  <2> QED BY <2>2, <2>3, LocSet DEF Typed
<1> QED BY <1>1, <1>2, <1>3, <1>4, <1>5, <1>6, <1>7, <1>8, <1>9, <1>10, <1>11, <1>12,
           <1>13, <1>14, <1>15 DEF WorkerStep

\* What a worker's step does to environments, channels, processes and counters.
LEMMA WorkerWorld ==
  ASSUME Typed, ControlInv, NEW w \in Workers, WorkerStep(w) PROVE WorldOK'
<1> USE ThreadsAre
<1>1. CASE MarkStarting(w) \/ EnvStopped(w) \/ ShutdownEnd(w)
  BY <1>1 DEF Typed, WorldOK, MarkStarting, EnvStopped, ShutdownEnd, EnvStates, procs, chans
<1>2. CASE AcquireNew(w) \/ WatchUnmanaged(w)
  BY <1>2 DEF Typed, WorldOK, AcquireNew, WatchUnmanaged, procs
<1>3. CASE Cancel(w) \/ CancelStop(w) \/ ShutdownStop(w)
  <2>1. closed' \subseteq Nat
    BY <1>3, ObjOK, CloseQuitOK
    DEF Typed, Cancel, CancelStop, ShutdownStop, FreeLabels, RollupLabels
  <2> QED BY <1>3, <2>1 DEF Typed, WorldOK, Cancel, CancelStop, ShutdownStop, procs
<1>4. CASE \/ ResetForRetry(w) \/ AcquireJoin(w) \/ JoinWait(w) \/ EnvCheck(w)
           \/ EnvRead(w) \/ EnvCompare(w) \/ StartCommand(w) \/ CheckUnmanaged(w) \/ Adopt(w)
           \/ RestartInPlace(w) \/ CancelWait(w) \/ RestartLock(w) \/ RestartBegin(w)
  BY <1>4 DEF Typed, WorldOK, ResetForRetry, AcquireJoin, JoinWait, EnvCheck, EnvRead, EnvCompare,
     StartCommand, CheckUnmanaged, Adopt, RestartInPlace, CancelWait, RestartLock,
     RestartBegin, procs, chans
<1>5. CASE \/ Relaunched(w) \/ Unlock(w) \/ Release(w) \/ MarkRestarting(w)
           \/ StampStop(w) \/ MarkStopping(w) \/ StopBarrier(w) \/ StopWait(w) \/ Stop(w)
           \/ Stopped(w) \/ FinishRun(w)
  BY <1>5 DEF Typed, WorldOK, Relaunched, Unlock, Release, MarkRestarting, StampStop,
     MarkStopping, StopBarrier, StopWait, Stop, Stopped, FinishRun, procs, chans
<1> QED BY <1>1, <1>2, <1>3, <1>4, <1>5 DEF WorkerStep

\* What a monitor's step does.
LEMMA MonitorHeap ==
  ASSUME Typed, ControlInv, NEW m \in Monitors, MonitorStep(m) PROVE HeapOK'
<1> USE ThreadsAre
<1> DEFINE o == loc[m].obj
<1>1. ASSUME pc[m] \notin FreeLabels, pc[m] \notin RollupLabels
      PROVE  o \in Objs /\ commands[o] \in Command
  BY <1>1, ObjOK, FieldsOK DEF Typed
<1>2. CASE \/ UnmanagedBegin(m) \/ UnmanagedQuit(m) \/ MonitorBegin(m) \/ Snapshot(m)
           \/ SuperviseQuit(m) \/ SuperviseExit(m) \/ MonitorExit(m) \/ BackoffQuit(m)
           \/ BackoffElapses(m)
  BY <1>2 DEF Typed, HeapOK, heap, UnmanagedBegin, UnmanagedQuit, MonitorBegin, Snapshot,
     SuperviseQuit, SuperviseExit, Unhealthy, MonitorExit, BackoffQuit, BackoffElapses
<1>3. CASE TakeOverStart(m) \/ GiveUp(m) \/ RetriesExhausted(m) \/ Retry(m)
  BY <1>3, HeapState
  DEF Typed, TakeOverStart, GiveUp, RetriesExhausted, Retry, CmdStates
<1>4. CASE TakeOver(m)
  <2> DEFINE c == [commands[o] EXCEPT !.restartMu = m, !.unmanaged = FALSE,
                                      !.startDone = fresh + 1]
  <2>1. fresh + 1 \in Nat
    BY DEF Typed, WorldOK
  <2>2. c \in Command
    BY <1>1, <1>4, <2>1, SetTakeOver DEF TakeOver, FreeLabels, RollupLabels
  <2>3. commands' = [commands EXCEPT ![o] = c]
    BY <1>4 DEF TakeOver
  <2> QED BY <1>1, <1>4, <2>2, <2>3, HeapSet
          DEF Typed, TakeOver, FreeLabels, RollupLabels
<1>5. CASE AttemptRestart(m)
  <2> DEFINE c == [commands[o] EXCEPT !.restartMu = m]
  <2>1. c \in Command
    BY <1>1, <1>5, SetLock DEF AttemptRestart, FreeLabels, RollupLabels
  <2>2. commands' = [commands EXCEPT ![o] = c]
    BY <1>5 DEF AttemptRestart
  <2> QED BY <1>1, <1>5, <2>1, <2>2, HeapSet
          DEF Typed, AttemptRestart, FreeLabels, RollupLabels
<1>6. CASE Retried(m)
  <2>1. o \in Objs
    BY <1>1, <1>6 DEF Retried, FreeLabels, RollupLabels
  <2>2. CASE loc[m].ok
    <3> DEFINE c == [commands[o] EXCEPT !.retries = 0]
    <3>1. c \in Command
      BY <2>1, FieldsOK, SetRetries DEF Typed
    <3>2. commands' = WithCmdState([commands EXCEPT ![o] = c], "healthy")
      BY <1>6, <2>2 DEF Retried
    <3> QED BY <1>6, <2>1, <3>1, <3>2, HeapSetState DEF Typed, Retried, CmdStates
  <2>3. CASE ~loc[m].ok
    <3> DEFINE c == [commands[o] EXCEPT !.retries = @ + 1]
    <3>1. c \in Command
      BY <2>1, FieldsOK, SetRetries DEF Typed
    <3>2. commands' = [commands EXCEPT ![o] = c]
      BY <1>6, <2>3 DEF Retried
    <3> QED BY <1>6, <2>1, <3>1, <3>2, HeapSet DEF Typed, Retried
  <2> QED BY <2>2, <2>3
<1>7. CASE RetryResume(m) \/ RetryExit(m)
  <2> DEFINE c == [commands[o] EXCEPT !.restartMu = NoThread]
  <2>1. o \in Objs /\ c \in Command
    BY <1>1, <1>7, SetUnlock DEF RetryResume, RetryExit, FreeLabels, RollupLabels
  <2>2. commands' = [commands EXCEPT ![o] = c]
    BY <1>7 DEF RetryResume, RetryExit
  <2> QED BY <1>7, <2>1, <2>2, HeapSet DEF Typed, RetryResume, RetryExit
<1> QED BY <1>2, <1>3, <1>4, <1>5, <1>6, <1>7 DEF MonitorStep

\* Where a monitor's step takes it.
LEMMA MonitorPc ==
  ASSUME Typed, NEW m \in Monitors, MonitorStep(m) PROVE PcOK'
<1> USE ThreadsAre, LabelsAre, GotoOK
<1>1. CASE UnmanagedQuit(m) \/ MonitorExit(m)
  BY <1>1, ContinueOK DEF Typed, UnmanagedQuit, MonitorExit, SharedLabels
<1>2. CASE UnmanagedBegin(m) \/ TakeOver(m) \/ TakeOverStart(m) \/ MonitorBegin(m)
  BY <1>2 DEF Typed, UnmanagedBegin, TakeOver, TakeOverStart, MonitorBegin,
     MonitorLabels, SharedLabels
<1>3. CASE Snapshot(m) \/ SuperviseQuit(m) \/ SuperviseExit(m) \/ AttemptRestart(m)
  BY <1>3 DEF Typed, Snapshot, SuperviseQuit, SuperviseExit, Unhealthy, AttemptRestart,
     MonitorLabels
<1>4. CASE GiveUp(m) \/ RetriesExhausted(m) \/ Retry(m) \/ BackoffQuit(m)
  BY <1>4 DEF Typed, GiveUp, RetriesExhausted, Retry, BackoffQuit,
     MonitorLabels, SharedLabels
<1>5. CASE BackoffElapses(m) \/ Retried(m) \/ RetryResume(m) \/ RetryExit(m)
  BY <1>5 DEF Typed, BackoffElapses, Retried, RetryResume, RetryExit,
     MonitorLabels, SharedLabels
<1> QED BY <1>1, <1>2, <1>3, <1>4, <1>5 DEF MonitorStep

\* The local variables a monitor's step sets.
LEMMA MonitorLoc ==
  ASSUME Typed, ControlInv, NEW m \in Monitors, MonitorStep(m) PROVE LocOK'
<1> USE ThreadsAre, LabelsAre
<1>1. CASE UnmanagedQuit(m) \/ MonitorExit(m)
  BY <1>1, ContinueOK DEF Typed, UnmanagedQuit, MonitorExit, SharedLabels
<1>2. CASE \/ TakeOverStart(m) \/ SuperviseQuit(m) \/ SuperviseExit(m) \/ BackoffQuit(m)
           \/ BackoffElapses(m) \/ RetryResume(m) \/ RetryExit(m)
  BY <1>2 DEF Typed, LocOK, TakeOverStart, SuperviseQuit, SuperviseExit, Unhealthy,
     BackoffQuit, BackoffElapses, RetryResume, RetryExit
<1>3. CASE UnmanagedBegin(m) \/ MonitorBegin(m) \/ Snapshot(m) \/ Retry(m)
  <2> DEFINE q == C(m).quit
             d == C(m).monitorDone
             x == C(m).exited
  <2>1. q \in Nat /\ d \in Nat /\ x \in Nat
    BY <1>3, ObjOK, FieldsOK DEF Typed, UnmanagedBegin, MonitorBegin, Snapshot, Retry, C,
       FreeLabels, RollupLabels
  <2>2. \/ loc' = [loc EXCEPT ![m].quit = q]
        \/ loc' = [loc EXCEPT ![m].done = d]
        \/ loc' = [loc EXCEPT ![m].exited = x, ![m].quit = q]
        \/ loc' = [loc EXCEPT ![m].quit = q, ![m].after = "backoff"]
    BY <1>3 DEF UnmanagedBegin, MonitorBegin, Snapshot, Retry
  <2> HIDE DEF q, d, x
  <2>3. CASE loc' = [loc EXCEPT ![m].quit = q]
    BY <2>1, <2>3 DEF Typed, LocOK, Locals
  <2>4. CASE loc' = [loc EXCEPT ![m].done = d]
    BY <2>1, <2>4 DEF Typed, LocOK, Locals
  <2>5. CASE loc' = [loc EXCEPT ![m].exited = x, ![m].quit = q]
    BY <2>1, <2>5 DEF Typed, LocOK, Locals
  <2>6. CASE loc' = [loc EXCEPT ![m].quit = q, ![m].after = "backoff"]
    BY <2>1, <2>6 DEF Typed, LocOK, Locals, MonitorLabels
  <2> QED BY <2>2, <2>3, <2>4, <2>5, <2>6
<1>4. CASE TakeOver(m) \/ AttemptRestart(m)
  BY <1>4 DEF Typed, LocOK, Locals, TakeOver, AttemptRestart, MonitorLabels, SharedLabels
<1>5. CASE GiveUp(m) \/ RetriesExhausted(m) \/ Retried(m)
  <2>1. CASE UNCHANGED loc
    BY <2>1 DEF Typed, LocOK
  <2>2. CASE \E n \in MonitorLabels : loc' = [loc EXCEPT ![m].todo = Envs, ![m].then = n]
    <3>1. PICK n \in MonitorLabels : loc' = [loc EXCEPT ![m].todo = Envs, ![m].then = n]
      BY <2>2
    <3> DEFINE l == [loc[m] EXCEPT !.todo = Envs, !.then = n]
    <3>2. loc' = [loc EXCEPT ![m] = l]
      BY <3>1
    <3>3. l \in Locals
      BY SetRollup, LocalsOK DEF Typed
    <3> QED BY <3>2, <3>3, LocSet DEF Typed
  <2> QED BY <1>5, <2>1, <2>2 DEF GiveUp, RetriesExhausted, Retried, MonitorLabels
<1> QED BY <1>1, <1>2, <1>3, <1>4, <1>5 DEF MonitorStep

\* What a monitor's step does to channels and counters.
LEMMA MonitorWorld ==
  ASSUME Typed, ControlInv, NEW m \in Monitors, MonitorStep(m) PROVE WorldOK'
<1> USE ThreadsAre
<1>1. CASE MonitorExit(m)
  <2>1. loc[m].done \in Nat
    BY LocalsOK DEF Typed
  <2> QED BY <1>1, <2>1 DEF Typed, WorldOK, MonitorExit, procs
<1>2. CASE TakeOver(m)
  BY <1>2 DEF Typed, WorldOK, TakeOver, procs
<1>3. CASE \/ UnmanagedBegin(m) \/ UnmanagedQuit(m) \/ TakeOverStart(m) \/ MonitorBegin(m)
           \/ Snapshot(m) \/ SuperviseQuit(m) \/ SuperviseExit(m) \/ GiveUp(m)
  BY <1>3 DEF Typed, WorldOK, UnmanagedBegin, UnmanagedQuit, TakeOverStart, MonitorBegin,
     Snapshot, SuperviseQuit, SuperviseExit, Unhealthy, GiveUp, procs, chans
<1>4. CASE \/ AttemptRestart(m) \/ RetriesExhausted(m) \/ Retry(m) \/ BackoffQuit(m)
           \/ BackoffElapses(m) \/ Retried(m) \/ RetryResume(m) \/ RetryExit(m)
  BY <1>4 DEF Typed, WorldOK, AttemptRestart, RetriesExhausted, Retry, BackoffQuit,
     BackoffElapses, Retried, RetryResume, RetryExit, procs, chans
<1> QED BY <1>1, <1>2, <1>3, <1>4 DEF MonitorStep

\* What a step of the code workers and monitors share does.
LEMMA ThreadHeap ==
  ASSUME Typed, ControlInv, NEW t \in Threads, ThreadStep(t) PROVE HeapOK'
<1> DEFINE o == loc[t].obj
<1>1. ASSUME pc[t] \notin FreeLabels, pc[t] \notin RollupLabels
      PROVE  o \in Objs /\ commands[o] \in Command
  BY <1>1, ObjOK, FieldsOK DEF Typed
<1>2. CASE \/ Prepare(t) \/ LaunchEnv(t) \/ Kill(t) \/ AwaitExit(t) \/ Settle(t) \/ Rollup(t)
           \/ RollupRead(t) \/ RollupWrite(t)
  BY <1>2 DEF Typed, HeapOK, heap, Prepare, LaunchEnv, Kill, AwaitExit, Settle, Rollup, RollupRead,
     RollupWrite
<1>3. CASE Launch(t)
  <2> DEFINE v == loc[t].eff
             c == [commands[o] EXCEPT !.exited = fresh + 1, !.appliedEnv = v]
  <2>1. o \in Objs /\ fresh + 1 \in Nat
    BY <1>1, <1>3 DEF Typed, WorldOK, Launch, FreeLabels, RollupLabels
  <2>2. commands' = [commands EXCEPT ![o] = c]
    BY <1>3 DEF Launch
  <2>3. c \in Command
    BY <2>1, FieldsOK, LocalsOK, SetLaunched DEF Typed
  <2> QED BY <1>3, <2>1, <2>2, <2>3, HeapSet DEF Typed, Launch
<1>4. CASE SpawnProcess(t)
  <2> DEFINE c == [commands[o] EXCEPT !.cmd = C(t).exited]
  <2>1. o \in Objs
    BY <1>1, <1>4 DEF SpawnProcess, FreeLabels, RollupLabels
  <2>2. commands' = [commands EXCEPT ![o] = c]
    BY <1>4 DEF SpawnProcess
  <2>3. c \in Command
    BY <2>1, FieldsOK, SetCmd DEF Typed, C
  <2> QED BY <1>4, <2>1, <2>2, <2>3, HeapSet DEF Typed, SpawnProcess
<1>5. CASE ServiceExitsEarly(t) \/ ServiceReady(t) \/ TaskExits(t) \/ TaskReady(t)
  <2>1. UNCHANGED <<nobj, cur>>
    BY <1>5 DEF ServiceExitsEarly, ServiceReady, TaskExits, TaskReady
  <2>2. CASE UNCHANGED commands
    BY <2>1, <2>2 DEF Typed, HeapOK
  <2>3. CASE \E s \in CmdStates : commands' = WithCmdState(commands, s)
    BY <2>1, <2>3, HeapState DEF Typed
  <2> QED BY <1>5, <2>2, <2>3
          DEF ServiceExitsEarly, ServiceReady, TaskExits, TaskReady, CmdStates
<1>6. CASE StartMonitor(t)
  <2> DEFINE q == IF C(t).quit = NilChan THEN fresh + 1 ELSE C(t).quit
             d == IF C(t).quit = NilChan THEN fresh + 2 ELSE fresh + 1
             c == [commands[o] EXCEPT !.quit = q, !.monitorDone = d]
  <2>1. o \in Objs
    BY <1>1, <1>6 DEF StartMonitor, FreeLabels, RollupLabels
  <2>2. q \in Nat /\ d \in Nat
    BY <2>1, FieldsOK DEF Typed, WorldOK, C
  <2>3. commands' = [commands EXCEPT ![o] = c]
    BY <1>6 DEF StartMonitor
  <2> HIDE DEF q, d
  <2>4. c \in Command
    BY <2>1, <2>2, FieldsOK, SetMonitor DEF Typed
  <2> QED BY <1>6, <2>1, <2>3, <2>4, HeapSet DEF Typed, StartMonitor
<1>7. CASE Started(t)
  <2> DEFINE c == [commands[o] EXCEPT !.restartMu = NoThread]
  <2>1. c \in Command
    BY <1>1, <1>7, SetUnlock DEF Started, FreeLabels, RollupLabels
  <2>2. commands' = [commands EXCEPT ![o] = c]
    BY <1>7 DEF Started
  <2> QED BY <1>1, <1>7, <2>1, <2>2, HeapSet DEF Typed, Started, FreeLabels, RollupLabels
<1>8. CASE Relaunch(t)
  <2> DEFINE c == [commands[o] EXCEPT !.startDone = fresh + 1]
  <2>1. o \in Objs /\ fresh + 1 \in Nat
    BY <1>1, <1>8 DEF Typed, WorldOK, Relaunch, FreeLabels, RollupLabels
  <2>2. commands' = [commands EXCEPT ![o] = c]
    BY <1>8 DEF Relaunch
  <2>3. c \in Command
    BY <2>1, FieldsOK, SetStartDone DEF Typed
  <2> QED BY <1>8, <2>1, <2>2, <2>3, HeapSet DEF Typed, Relaunch
<1> QED BY <1>2, <1>3, <1>4, <1>5, <1>6, <1>7, <1>8 DEF ThreadStep

\* Where a step of the shared code takes its goroutine.
LEMMA ThreadPc ==
  ASSUME Typed, NEW t \in Threads, ThreadStep(t) PROVE PcOK'
<1> USE LabelsAre, GotoOK, LocalsOK
<1>1. CASE StartMonitor(t)
  BY <1>1, SpawnOK DEF Typed, StartMonitor, MonitorLabels
<1>2. CASE Started(t) \/ Rollup(t)
  BY <1>2, ContinueOK DEF Typed, Started, Rollup, WorkerLabels, SharedLabels
<1>3. CASE Prepare(t) \/ LaunchEnv(t) \/ Launch(t) \/ SpawnProcess(t) \/ ServiceExitsEarly(t)
  BY <1>3 DEF Typed, Prepare, LaunchEnv, Launch, SpawnProcess, ServiceExitsEarly, SharedLabels
<1>4. CASE ServiceReady(t) \/ TaskExits(t) \/ TaskReady(t) \/ Relaunch(t)
  BY <1>4 DEF Typed, ServiceReady, TaskExits, TaskReady, Relaunch, SharedLabels
<1>5. CASE Kill(t) \/ AwaitExit(t) \/ Settle(t) \/ RollupRead(t) \/ RollupWrite(t)
  BY <1>5 DEF Typed, Kill, AwaitExit, Settle, RollupRead, RollupWrite, SharedLabels
<1> QED BY <1>1, <1>2, <1>3, <1>4, <1>5 DEF ThreadStep

\* The local variables a step of the shared code sets.
LEMMA ThreadLoc ==
  ASSUME Typed, ControlInv, NEW t \in Threads, ThreadStep(t) PROVE LocOK'
<1> USE LabelsAre
<1>10. CASE LaunchEnv(t)
  <2> DEFINE l == [loc[t] EXCEPT !.eff = EffectiveEnv(loc[t].obj)]
  <2>1. loc[t].obj \in Objs
    BY <1>10, ObjOK DEF Typed, LaunchEnv, FreeLabels, RollupLabels
  <2>2. l \in Locals
    BY <2>1, EnvOK, SetEff, LocalsOK DEF Typed
  <2>3. loc' = [loc EXCEPT ![t] = l]
    BY <1>10 DEF LaunchEnv
  <2> QED BY <2>2, <2>3, LocSet DEF Typed
<1>1. CASE \/ Prepare(t) \/ Launch(t) \/ SpawnProcess(t) \/ AwaitExit(t) \/ Settle(t)
           \/ Relaunch(t) \/ RollupWrite(t)
  BY <1>1 DEF Typed, LocOK, Prepare, Launch, SpawnProcess, AwaitExit, Settle, Relaunch,
     RollupWrite
<1>2. CASE ServiceExitsEarly(t)
  <2>1. loc' = [loc EXCEPT ![t].ok = FALSE]
    BY <1>2 DEF ServiceExitsEarly
  <2> QED BY ZenonT(30), <2>1 DEF Typed, LocOK, Locals
<1>3. CASE ServiceReady(t) \/ TaskReady(t)
  <2>1. CASE loc' = [loc EXCEPT ![t].after = "settle"]
    BY <2>1 DEF Typed, LocOK, Locals, SharedLabels
  <2>2. CASE loc' = [loc EXCEPT ![t].ok = TRUE]
    BY <2>2, SetOk, LocalsOK, LocSet DEF Typed, SharedLabels
  <2> QED BY <1>3, <2>1, <2>2 DEF ServiceReady, TaskReady
<1>4. CASE TaskExits(t)
  <2> DEFINE b == C(t).exited \notin badExit /\ ~HasProbe
  <2>1. loc' = [loc EXCEPT ![t].ok = b]
    BY <1>4 DEF TaskExits
  <2>2. b \in BOOLEAN
    OBVIOUS
  <2> HIDE DEF b
  <2> QED BY <2>1, <2>2 DEF Typed, LocOK, Locals
<1>5. CASE StartMonitor(t)
  BY <1>5, SpawnOK, LocalsOK DEF Typed, StartMonitor, MonitorLabels
<1>6. CASE Kill(t)
  <2> DEFINE x == C(t).exited
  <2>1. x \in Nat
    BY <1>6, ObjOK, FieldsOK DEF Typed, Kill, C, FreeLabels, RollupLabels
  <2>2. UNCHANGED loc \/ loc' = [loc EXCEPT ![t].exited = x]
    BY <1>6 DEF Kill
  <2> HIDE DEF x
  <2> QED BY <2>1, <2>2 DEF Typed, LocOK, Locals
<1>7. CASE Started(t)
  BY <1>7, ContinueOK DEF Typed, Started, WorkerLabels, SharedLabels
<1>8. CASE Rollup(t)
  <2>1. CASE loc[t].todo = {}
    BY <1>8, <2>1, ContinueOK, LocalsOK DEF Typed, Rollup
  <2>2. CASE loc[t].todo # {}
    <3>1. PICK e \in loc[t].todo :
            loc' = [loc EXCEPT ![t].todo = @ \ {e}, ![t].roll = {e}]
      BY <1>8, <2>2 DEF Rollup
    <3> DEFINE l == [loc[t] EXCEPT !.todo = @ \ {e}, !.roll = {e}]
    <3>2. loc' = [loc EXCEPT ![t] = l]
      BY <3>1
    <3>3. loc[t].todo \ {e} \in SUBSET Envs /\ {e} \in SUBSET Envs
      BY LocalsOK DEF Typed, Locals
    <3>4. l \in Locals
      BY <3>3, SetTodo, LocalsOK DEF Typed
    <3> QED BY <3>2, <3>4, LocSet DEF Typed
  <2> QED BY <2>1, <2>2
<1>9. CASE RollupRead(t)
  <2> DEFINE s == DerivedState
  <2>1. loc' = [loc EXCEPT ![t].sum = s]
    BY <1>9 DEF RollupRead
  <2>2. s \in EnvStates
    BY DEF DerivedState, EnvStates
  <2> HIDE DEF s
  <2> QED BY <2>1, <2>2 DEF Typed, LocOK, Locals
<1> QED BY <1>1, <1>2, <1>3, <1>4, <1>5, <1>6, <1>7, <1>8, <1>9, <1>10 DEF ThreadStep

\* What a step of the shared code does to environments, channels and processes.
LEMMA ThreadWorld ==
  ASSUME Typed, ControlInv, NEW t \in Threads, ThreadStep(t) PROVE WorldOK'
<1>1. CASE Launch(t) \/ Relaunch(t)
  BY <1>1 DEF Typed, WorldOK, Launch, Relaunch, procs
<1>2. CASE SpawnProcess(t) \/ Kill(t) \/ Settle(t)
  <2>1. C(t).exited \in Nat /\ C(t).startDone \in Nat
    BY <1>2, ObjOK, FieldsOK
    DEF Typed, SpawnProcess, Kill, Settle, C, FreeLabels, RollupLabels
  <2> QED BY <1>2, <2>1 DEF Typed, WorldOK, SpawnProcess, Kill, Settle, procs, chans
<1>3. CASE StartMonitor(t)
  BY <1>3 DEF Typed, WorldOK, StartMonitor, procs
<1>4. CASE RollupWrite(t)
  <2>1. loc[t].sum \in EnvStates
    BY LocalsOK DEF Typed
  <2> QED BY <1>4, <2>1 DEF Typed, WorldOK, RollupWrite, procs, chans
<1>5. CASE \/ Prepare(t) \/ LaunchEnv(t) \/ ServiceExitsEarly(t) \/ ServiceReady(t) \/ TaskExits(t)
           \/ TaskReady(t) \/ AwaitExit(t) \/ Started(t) \/ Rollup(t) \/ RollupRead(t)
  BY <1>5 DEF Typed, WorldOK, Prepare, LaunchEnv, ServiceExitsEarly, ServiceReady, TaskExits,
     TaskReady, AwaitExit, Started, Rollup, RollupRead, procs, chans
<1> QED BY <1>1, <1>2, <1>3, <1>4, <1>5 DEF ThreadStep

\* What a fault does, and the exit of a process.
LEMMA FaultTyped ==
  ASSUME Typed, ControlInv, FaultStep PROVE Typed'
<1> USE ThreadsAre, LabelsAre
<1>1. ASSUME NEW t \in Threads,
             PrepareFails(t) \/ SpawnFails(t) \/ ServiceTimesOut(t) \/ TaskTimesOut(t)
      PROVE  Typed'
  <2>1. HeapOK'
    BY <1>1, HeapState
    DEF Typed, PrepareFails, SpawnFails, ServiceTimesOut, TaskTimesOut, CmdStates
  <2>2. PcOK'
    BY <1>1, GotoOK
    DEF Typed, PrepareFails, SpawnFails, ServiceTimesOut, TaskTimesOut, SharedLabels
  <2>3. LocOK'
    <3>1. CASE UNCHANGED loc
      BY <3>1 DEF Typed, LocOK
    <3>2. CASE loc' = [loc EXCEPT ![t].ok = FALSE]
      BY <3>2, SetOk, LocalsOK, LocSet DEF Typed, SharedLabels
    <3>3. CASE loc' = [loc EXCEPT ![t].ok = FALSE, ![t].after = "settle"]
      <4>1. "settle" \in Labels
        BY DEF SharedLabels
      <4>2. [loc[t] EXCEPT !.ok = FALSE, !.after = "settle"] \in Locals
        BY <4>1, SetOk, LocalsOK DEF Typed
      <4> QED BY <3>3, <4>2, LocSet DEF Typed
    <3> QED BY <1>1, <3>1, <3>2, <3>3
            DEF PrepareFails, SpawnFails, ServiceTimesOut, TaskTimesOut
  <2>4. WorldOK'
    BY <1>1 DEF Typed, WorldOK, PrepareFails, SpawnFails, ServiceTimesOut, TaskTimesOut,
       Fault, procs, chans
  <2> QED BY <2>1, <2>2, <2>3, <2>4 DEF Typed
<1>2. ASSUME NEW m \in Monitors, SuperviseLiveness(m) \/ UnmanagedProbeFails(m)
      PROVE  Typed'
  <2>1. HeapOK' /\ LocOK'
    BY <1>2 DEF Typed, HeapOK, LocOK, SuperviseLiveness, UnmanagedProbeFails, Unhealthy, heap
  <2>2. WorldOK'
    <3>1. faults' = faults + 1 /\ UNCHANGED <<envState, procs, chans, ops>>
      BY <1>2 DEF SuperviseLiveness, UnmanagedProbeFails, Unhealthy, Fault
    <3> QED BY <3>1 DEF Typed, WorldOK, procs, chans
  <2>3. PcOK'
    BY <1>2, GotoOK
    DEF Typed, SuperviseLiveness, UnmanagedProbeFails, Unhealthy, MonitorLabels
  <2> QED BY <2>1, <2>2, <2>3 DEF Typed
<1>3. ASSUME NEW w \in Workers, ShutdownDeadline(w) PROVE Typed'
  <2>1. HeapOK' /\ LocOK' /\ PcOK'
    BY <1>3 DEF Typed, HeapOK, LocOK, PcOK, ShutdownDeadline, heap
  <2>2. WorldOK'
    <3>1. C(w).cmd \in alive
      BY <1>3 DEF ShutdownDeadline
    <3>2. signalled' \subseteq Nat
      BY <1>3, <3>1 DEF Typed, WorldOK, ShutdownDeadline
    <3> QED BY <1>3, <3>2 DEF Typed, WorldOK, ShutdownDeadline, Fault, chans
  <2> QED BY <2>1, <2>2 DEF Typed
<1>4. ASSUME NEW p \in alive, ProcessCrashes(p) PROVE Typed'
  BY <1>4 DEF Typed, HeapOK, LocOK, PcOK, WorldOK, ProcessCrashes, Fault, heap
<1> QED BY <1>1, <1>2, <1>3, <1>4 DEF FaultStep

\* A process that exits keeps the types.
LEMMA ProcessTyped ==
  ASSUME Typed, NEW p \in alive, ProcessExits(p) PROVE Typed'
BY DEF Typed, HeapOK, LocOK, PcOK, WorldOK, ProcessExits, heap

\* So does a stuttering step.
LEMMA StutterTyped == ASSUME Typed, UNCHANGED vars PROVE Typed'
BY DEF Typed, HeapOK, LocOK, PcOK, WorldOK, vars

\* Every step keeps the types.
LEMMA NextTyped == ASSUME Typed, ControlInv, [Next]_vars PROVE Typed'
<1>1. ASSUME NEW w \in Workers, Request(w) PROVE Typed'
  BY <1>1, RequestTyped
<1>2. ASSUME NEW w \in Workers, WorkerStep(w) PROVE Typed'
  BY <1>2, WorkerHeap, WorkerPc, WorkerLoc, WorkerWorld DEF Typed
<1>3. ASSUME NEW m \in Monitors, MonitorStep(m) PROVE Typed'
  BY <1>3, MonitorHeap, MonitorPc, MonitorLoc, MonitorWorld DEF Typed
<1>4. ASSUME NEW t \in Threads, ThreadStep(t) PROVE Typed'
  BY <1>4, ThreadHeap, ThreadPc, ThreadLoc, ThreadWorld DEF Typed
<1>5. ASSUME NEW p \in alive, ProcessExits(p) PROVE Typed'
  BY <1>5, ProcessTyped
<1> QED BY <1>1, <1>2, <1>3, <1>4, <1>5, FaultTyped, StutterTyped DEF Next

\* The initial state is typed.
LEMMA InitTyped == Init => Typed
<1> SUFFICES ASSUME Init PROVE Typed
  OBVIOUS
<1>1. NewCommand(NilChan, NilChan) \in Command
  BY DEF NewCommand, Command, CmdStates, NilChan, NoThread
<1>2. HeapOK
  BY <1>1, ConstantsOK DEF Init, HeapOK, ConstantsOK, NoObj
<1>3. PcOK /\ LocOK
  BY BlankOK DEF Init, PcOK, LocOK, Labels, SharedLabels
<1>4. WorldOK
  BY DEF Init, WorldOK, EnvStates
<1> QED BY <1>2, <1>3, <1>4 DEF Typed

-----------------------------------------------------------------------------
(* The control invariant is inductive.                                     *)

\* A goroutine no step of which was taken keeps its flow.
LEMMA FlowKept ==
  ASSUME ControlInv, NEW u \in Threads, nobj \in Nat, nobj' \in Nat, nobj' >= nobj,
         pc'[u] = pc[u], loc'[u] = loc[u]
  PROVE  Flow(u)'
BY DEF ControlInv, Flow, InEpisode, FreeLabels, RollupLabels

\* A goroutine that is idle with blank locals, or has just been started.
LEMMA FlowBlank ==
  ASSUME NEW u \in Threads, nobj' \in Nat, loc'[u] = Blank, pc'[u] = "idle"
  PROVE  Flow(u)'
BY DEF Flow, Blank, NoObj, NilChan, InEpisode, EpisodeLabels, FreeLabels, RollupLabels,
   RetLabels, AfterLabels, ThenLabels, ContLabels

\* Only goroutine t moves.
OnlyMoves(t) == \A u \in Threads \ {t} : pc'[u] = pc[u] /\ loc'[u] = loc[u]

\* The control invariant after a step that moves one goroutine.
LEMMA FlowStep ==
  ASSUME Typed, ControlInv, Typed', nobj' >= nobj, NEW t \in Threads, OnlyMoves(t), Flow(t)'
  PROVE  ControlInv'
<1>1. nobj \in Nat /\ nobj' \in Nat
  BY ConstantsOK DEF Typed, HeapOK, ConstantsOK
<1>2. \A u \in Threads \ {t} : Flow(u)'
  BY <1>1, FlowKept DEF OnlyMoves
<1> QED BY <1>2 DEF ControlInv

\* Every step but a request, a go statement or a process exit moves one goroutine.
LEMMA WorkerMoves ==
  ASSUME Typed, NEW w \in Workers, WorkerStep(w), ~WatchUnmanaged(w) PROVE OnlyMoves(w)
<1> USE ThreadsAre DEF Typed, PcOK, LocOK, OnlyMoves, Goto, Continue
<1>1. CASE \/ MarkStarting(w) \/ ResetForRetry(w) \/ AcquireNew(w) \/ AcquireJoin(w)
           \/ JoinWait(w) \/ EnvCheck(w) \/ EnvRead(w) \/ EnvCompare(w) \/ StartCommand(w)
           \/ CheckUnmanaged(w) \/ Adopt(w)
  BY Zenon, <1>1 DEF MarkStarting, ResetForRetry, AcquireNew, AcquireJoin, JoinWait, EnvCheck,
     EnvRead, EnvCompare, StartCommand, CheckUnmanaged, Adopt
<1>2. CASE \/ RestartInPlace(w) \/ Cancel(w) \/ CancelWait(w) \/ RestartLock(w)
           \/ RestartBegin(w) \/ Relaunched(w) \/ Unlock(w) \/ Release(w)
           \/ CancelStop(w) \/ StampStop(w) \/ ShutdownStop(w) \/ MarkRestarting(w)
           \/ MarkStopping(w)
  BY <1>2 DEF RestartInPlace, Cancel, CancelWait, RestartLock, RestartBegin, Relaunched,
     Unlock, Release, CancelStop, StampStop, ShutdownStop, MarkRestarting, MarkStopping
<1>3. CASE \/ StopBarrier(w) \/ StopWait(w) \/ Stop(w) \/ Stopped(w) \/ EnvStopped(w)
           \/ ShutdownEnd(w) \/ FinishRun(w)
  BY <1>3 DEF StopBarrier, StopWait, Stop, Stopped, EnvStopped, ShutdownEnd, FinishRun
<1> QED BY <1>1, <1>2, <1>3 DEF WorkerStep

\* The same of a monitor's step.
LEMMA MonitorMoves ==
  ASSUME Typed, NEW m \in Monitors, MonitorStep(m) PROVE OnlyMoves(m)
<1> USE ThreadsAre DEF Typed, PcOK, LocOK, OnlyMoves, Goto, Continue
<1>1. CASE \/ UnmanagedBegin(m) \/ UnmanagedQuit(m) \/ TakeOver(m) \/ TakeOverStart(m)
           \/ MonitorBegin(m) \/ Snapshot(m) \/ SuperviseQuit(m) \/ SuperviseExit(m)
           \/ GiveUp(m)
  BY <1>1 DEF UnmanagedBegin, UnmanagedQuit, TakeOver, TakeOverStart, MonitorBegin,
     Snapshot, SuperviseQuit, SuperviseExit, Unhealthy, GiveUp
<1>2. CASE \/ MonitorExit(m) \/ AttemptRestart(m) \/ RetriesExhausted(m) \/ Retry(m)
           \/ BackoffQuit(m) \/ BackoffElapses(m) \/ Retried(m) \/ RetryResume(m)
           \/ RetryExit(m)
  BY <1>2 DEF MonitorExit, AttemptRestart, RetriesExhausted, Retry, BackoffQuit,
     BackoffElapses, Retried, RetryResume, RetryExit
<1> QED BY <1>1, <1>2 DEF MonitorStep

\* The same of a step of the shared code.
LEMMA ThreadMoves ==
  ASSUME Typed, NEW t \in Threads, ThreadStep(t), ~StartMonitor(t) PROVE OnlyMoves(t)
<1> USE DEF Typed, PcOK, LocOK, OnlyMoves, Goto, Continue
<1>1. CASE \/ Prepare(t) \/ LaunchEnv(t) \/ Launch(t) \/ SpawnProcess(t) \/ ServiceExitsEarly(t)
           \/ ServiceReady(t) \/ TaskExits(t) \/ TaskReady(t) \/ Kill(t)
  BY <1>1 DEF Prepare, LaunchEnv, Launch, SpawnProcess, ServiceExitsEarly, ServiceReady, TaskExits,
     TaskReady, Kill
<1>2. CASE \/ AwaitExit(t) \/ Settle(t) \/ Started(t) \/ Relaunch(t) \/ Rollup(t)
           \/ RollupRead(t) \/ RollupWrite(t)
  BY <1>2 DEF AwaitExit, Settle, Started, Relaunch, Rollup, RollupRead, RollupWrite
<1> QED BY <1>1, <1>2 DEF ThreadStep

\* Where a worker's step leaves that worker.
LEMMA WorkerFlow ==
  ASSUME Typed, ControlInv, Typed', NEW w \in Workers, WorkerStep(w), ~WatchUnmanaged(w)
  PROVE  Flow(w)'
<1> USE ThreadsAre
<1> USE DEF Typed, HeapOK, PcOK, LocOK, Locals, Goto, ControlInv, Flow, InEpisode,
            EpisodeLabels, FreeLabels, RollupLabels, RetLabels, AfterLabels,
            ThenLabels, ContLabels, NoObj
<1>1. CASE MarkStarting(w)
  BY <1>1 DEF MarkStarting, heap
<1>2. CASE ResetForRetry(w)
  BY <1>2 DEF ResetForRetry, heap
<1>3. CASE AcquireNew(w)
  BY <1>3 DEF AcquireNew
<1>4. CASE AcquireJoin(w)
  BY <1>4 DEF AcquireJoin, NeedsNewCommand
<1>5. CASE JoinWait(w)
  BY <1>5 DEF JoinWait, heap
<1>6. CASE EnvCheck(w)
  BY <1>6, FlowBlank DEF EnvCheck, Continue, heap
<1>28. CASE EnvRead(w)
  <2>1. \E v : /\ pc[w] = "envRead" /\ pc' = [pc EXCEPT ![w] = "envCompare"]
               /\ loc' = [loc EXCEPT ![w].eff = v] /\ UNCHANGED nobj
    BY <1>28 DEF EnvRead, heap
  <2> QED BY <2>1
<1>7. CASE EnvCompare(w)
  BY <1>7, FlowBlank DEF EnvCompare, Continue, heap
<1>8. CASE StartCommand(w)
  BY <1>8 DEF StartCommand
<1>9. CASE CheckUnmanaged(w)
  BY <1>9 DEF CheckUnmanaged
<1>10. CASE Adopt(w)
  BY <1>10 DEF Adopt
<1>11. CASE RestartInPlace(w)
  <2>1. /\ pc[w] = "restartInPlace" /\ pc' = [pc EXCEPT ![w] = "relaunch"]
        /\ loc' = [loc EXCEPT ![w].ret = "relaunched"] /\ UNCHANGED nobj
    BY <1>11 DEF RestartInPlace
  <2> QED BY <2>1
<1>12. CASE Cancel(w)
  <2>1. \E n, k : /\ pc[w] = "cancel" /\ pc' = [pc EXCEPT ![w] = "cancelWait"]
                  /\ loc' = [loc EXCEPT ![w].chan = n, ![w].done = k]
                  /\ UNCHANGED nobj
    BY <1>12 DEF Cancel
  <2> QED BY <2>1
<1>13. CASE CancelWait(w)
  BY <1>13 DEF CancelWait, heap
<1>14. CASE RestartLock(w)
  BY <1>14 DEF RestartLock
<1>15. CASE RestartBegin(w)
  BY <1>15 DEF RestartBegin
<1>16. CASE Relaunched(w)
  BY <1>16 DEF Relaunched
<1>17. CASE Unlock(w)
  BY <1>17, FlowBlank DEF Unlock, Continue
<1>18. CASE Release(w)
  BY <1>18, FlowBlank DEF Release, Continue
<1>19. CASE CancelStop(w) \/ StampStop(w)
  BY <1>19 DEF CancelStop, StampStop
<1>29. CASE ShutdownStop(w)
  <2>1. \E n, l : /\ l \in {"markStopping", "stopWait"} /\ pc[w] = "shutdownStop"
                  /\ pc' = [pc EXCEPT ![w] = l]
                  /\ loc' = [loc EXCEPT ![w].chan = n] /\ UNCHANGED nobj
    BY <1>29 DEF ShutdownStop
  <2> QED BY <2>1
<1>20. CASE MarkRestarting(w) \/ MarkStopping(w)
  BY <1>20 DEF MarkRestarting, MarkStopping
<1>21. CASE StopBarrier(w)
  BY <1>21 DEF StopBarrier, heap
<1>22. CASE StopWait(w)
  BY <1>22 DEF StopWait, heap
<1>23. CASE Stop(w)
  BY <1>23, FlowBlank DEF Stop, Continue
<1>24. CASE Stopped(w)
  BY <1>24, FlowBlank DEF Stopped, Continue
<1>25. CASE EnvStopped(w)
  BY <1>25, FlowBlank DEF EnvStopped, Continue
<1>26. CASE ShutdownEnd(w)
  BY <1>26, FlowBlank DEF ShutdownEnd, Continue
<1>27. CASE FinishRun(w)
  BY <1>27 DEF FinishRun, heap
<1> QED BY <1>1, <1>2, <1>3, <1>4, <1>5, <1>6, <1>7, <1>8, <1>9, <1>10, <1>11, <1>12,
           <1>13, <1>14, <1>15, <1>16, <1>17, <1>18, <1>19, <1>20, <1>21, <1>22, <1>23,
           <1>24, <1>25, <1>26, <1>27, <1>28, <1>29 DEF WorkerStep

\* Where a monitor's step leaves that monitor.
LEMMA MonitorFlow ==
  ASSUME Typed, ControlInv, Typed', NEW m \in Monitors, MonitorStep(m)
  PROVE  Flow(m)'
<1> USE ThreadsAre
<1> USE DEF Typed, HeapOK, PcOK, LocOK, Locals, Goto, ControlInv, Flow, InEpisode,
            EpisodeLabels, FreeLabels, RollupLabels, RetLabels, AfterLabels,
            ThenLabels, ContLabels, NoObj
<1>1. CASE UnmanagedBegin(m)
  BY <1>1 DEF UnmanagedBegin, heap
<1>2. CASE UnmanagedQuit(m)
  BY <1>2, FlowBlank DEF UnmanagedQuit, Continue, heap
<1>3. CASE TakeOver(m)
  <2>1. /\ pc[m] = "takeOver" /\ pc' = [pc EXCEPT ![m] = "takeOverStart"]
        /\ loc' = [loc EXCEPT ![m].ret = "started"] /\ UNCHANGED nobj
    BY <1>3 DEF TakeOver
  <2> QED BY <2>1
<1>4. CASE TakeOverStart(m)
  BY <1>4 DEF TakeOverStart
<1>5. CASE MonitorBegin(m)
  BY <1>5 DEF MonitorBegin, heap
<1>6. CASE Snapshot(m)
  BY <1>6 DEF Snapshot, heap
<1>7. CASE SuperviseQuit(m)
  BY <1>7 DEF SuperviseQuit, heap
<1>8. CASE SuperviseExit(m)
  BY <1>8 DEF SuperviseExit, Unhealthy, heap
<1>9. CASE GiveUp(m)
  BY <1>9 DEF GiveUp
<1>10. CASE MonitorExit(m)
  BY <1>10, FlowBlank DEF MonitorExit, Continue, heap
<1>11. CASE AttemptRestart(m)
  BY <1>11 DEF AttemptRestart
<1>12. CASE RetriesExhausted(m)
  BY SMTT(30), <1>12 DEF RetriesExhausted
<1>13. CASE Retry(m)
  BY <1>13 DEF Retry
<1>14. CASE BackoffQuit(m)
  BY <1>14 DEF BackoffQuit, heap
<1>15. CASE BackoffElapses(m)
  BY <1>15 DEF BackoffElapses, heap
<1>16. CASE Retried(m)
  <2>1. \/ /\ pc' = [pc EXCEPT ![m] = "rollup"]
           /\ loc' = [loc EXCEPT ![m].todo = Envs, ![m].then = "retryResume"]
        \/ pc' = [pc EXCEPT ![m] = "retry"] /\ UNCHANGED loc
    BY <1>16 DEF Retried
  <2>2. pc[m] = "retried" /\ UNCHANGED nobj
    BY <1>16 DEF Retried
  <2> QED BY <2>1, <2>2
<1>17. CASE RetryResume(m)
  BY <1>17 DEF RetryResume
<1>18. CASE RetryExit(m)
  BY <1>18 DEF RetryExit
<1> QED BY <1>1, <1>2, <1>3, <1>4, <1>5, <1>6, <1>7, <1>8, <1>9, <1>10, <1>11, <1>12,
           <1>13, <1>14, <1>15, <1>16, <1>17, <1>18 DEF MonitorStep

\* Where a step of the shared code leaves its goroutine.
LEMMA ThreadFlow ==
  ASSUME Typed, ControlInv, Typed', NEW t \in Threads, ThreadStep(t), ~StartMonitor(t)
  PROVE  Flow(t)'
<1> USE DEF Typed, HeapOK, PcOK, LocOK, Locals, Goto, ControlInv, Flow, InEpisode,
            EpisodeLabels, FreeLabels, RollupLabels, RetLabels, AfterLabels,
            ThenLabels, ContLabels, NoObj
<1>1. CASE Prepare(t)
  BY <1>1 DEF Prepare, heap
<1>16. CASE LaunchEnv(t)
  <2>1. \E v : /\ pc[t] = "launchEnv" /\ pc' = [pc EXCEPT ![t] = "launch"]
               /\ loc' = [loc EXCEPT ![t].eff = v] /\ UNCHANGED nobj
    BY <1>16 DEF LaunchEnv, heap
  <2> QED BY <2>1
<1>2. CASE Launch(t)
  BY <1>2 DEF Launch
<1>3. CASE SpawnProcess(t)
  BY <1>3 DEF SpawnProcess
<1>4. CASE ServiceExitsEarly(t)
  BY <1>4 DEF ServiceExitsEarly
<1>5. CASE ServiceReady(t)
  BY <1>5 DEF ServiceReady
<1>6. CASE TaskExits(t)
  BY <1>6 DEF TaskExits
<1>7. CASE TaskReady(t)
  BY <1>7 DEF TaskReady
<1>8. CASE Kill(t)
  BY <1>8 DEF Kill, heap
<1>9. CASE AwaitExit(t)
  BY <1>9 DEF AwaitExit, heap
<1>10. CASE Settle(t)
  BY <1>10 DEF Settle, heap
<1>11. CASE Started(t)
  BY <1>11, FlowBlank DEF Started, Continue
<1>12. CASE Relaunch(t)
  BY <1>12 DEF Relaunch
<1>13. CASE Rollup(t)
  <2>1. pc[t] = "rollup" /\ UNCHANGED nobj
    BY <1>13 DEF Rollup, heap
  <2>2. CASE loc[t].todo = {}
    BY <1>13, <2>1, <2>2, FlowBlank DEF Rollup, Continue
  <2>3. CASE loc[t].todo # {}
    <3>1. PICK e \in loc[t].todo :
            /\ loc' = [loc EXCEPT ![t].todo = @ \ {e}, ![t].roll = {e}]
            /\ \/ pc' = [pc EXCEPT ![t] = "rollup"]
               \/ pc' = [pc EXCEPT ![t] = "rollupRead"]
      BY <1>13, <2>3 DEF Rollup
    <3> QED BY <2>1, <3>1
  <2> QED BY <2>2, <2>3
<1>14. CASE RollupRead(t)
  BY <1>14 DEF RollupRead, heap
<1>15. CASE RollupWrite(t)
  BY <1>15 DEF RollupWrite, heap
<1> QED BY <1>1, <1>2, <1>3, <1>4, <1>5, <1>6, <1>7, <1>8, <1>9, <1>10, <1>11, <1>12,
           <1>13, <1>14, <1>15, <1>16 DEF ThreadStep

\* The two go statements: the goroutine that executes one, and the new one.
LEMMA SpawnFlow ==
  ASSUME Typed, ControlInv, Typed', NEW t \in Threads, WatchUnmanaged(t) \/ StartMonitor(t)
  PROVE  ControlInv'
<1>1. PICK m \in Monitors, l \in {"unmanagedBegin", "monitorBegin"}, h \in {"settle", "rollup"} :
        /\ pc[m] = "idle" /\ pc' = [pc EXCEPT ![t] = h, ![m] = l]
        /\ loc' = [loc EXCEPT ![m] = [Blank EXCEPT !.obj = loc[t].obj]]
        /\ h = "rollup" => pc[t] = "startMonitor" /\ loc[t].then = "unlock"
  BY DEF WatchUnmanaged, StartMonitor, Spawn, ControlInv, Flow
<1>2. pc[t] \in {"watchUnmanaged", "startMonitor"} /\ UNCHANGED nobj /\ m \in Threads /\ m # t
  BY <1>1, ThreadsAre DEF WatchUnmanaged, StartMonitor
<1>3. nobj \in Nat /\ loc[t].obj \in 0 .. nobj /\ loc[t].obj # NoObj
  BY <1>2, ConstantsOK DEF Typed, HeapOK, ConstantsOK, ControlInv, Flow, FreeLabels, RollupLabels
<1>4. ASSUME NEW u \in Threads, u # t, u # m PROVE Flow(u)'
  <2>1. pc'[u] = pc[u] /\ loc'[u] = loc[u]
    BY <1>1, <1>4 DEF Typed, PcOK, LocOK
  <2> QED BY <1>2, <1>3, <2>1, FlowKept
<1>5. Flow(m)'
  <2>1. pc'[m] = l /\ loc'[m] = [Blank EXCEPT !.obj = loc[t].obj]
    BY <1>1, <1>2 DEF Typed, PcOK, LocOK
  <2> QED BY <1>2, <1>3, <2>1 DEF Flow, Blank, NoObj, NilChan, InEpisode, EpisodeLabels,
     FreeLabels, RollupLabels, RetLabels, AfterLabels, ThenLabels, ContLabels
<1>6. Flow(t)'
  <2>1. pc'[t] = h /\ loc'[t] = loc[t]
    BY <1>1, <1>2 DEF Typed, PcOK, LocOK
  <2> QED BY <1>1, <1>2, <1>3, <2>1 DEF ControlInv, Flow, NoObj, InEpisode, EpisodeLabels,
     FreeLabels, RollupLabels
<1> QED BY <1>4, <1>5, <1>6 DEF ControlInv

\* The public operations start from an idle worker.
LEMMA RequestFlow ==
  ASSUME Typed, ControlInv, Typed', NEW w \in Workers, Request(w)
  PROVE  ControlInv'
<1> USE ThreadsAre
<1>1. UNCHANGED <<nobj, cur>> /\ nobj \in Nat
  <2>1. \E operation : Begin(w, operation)
    BY DEF Request, StartEnvironment, StopEnvironment, RestartCommand, Shutdown
  <2> QED BY SMTT(30), <2>1, ConstantsOK DEF Begin, Typed, HeapOK, ConstantsOK
<1>2. OnlyMoves(w)
  BY DEF Request, StartEnvironment, StopEnvironment, RestartCommand, Shutdown, Goto,
     OnlyMoves, Typed, PcOK, LocOK
<1>3. Flow(w)'
  <2> USE DEF Typed, HeapOK, PcOK, LocOK, Locals, Goto, ControlInv, Flow, InEpisode,
            EpisodeLabels, FreeLabels, RollupLabels, RetLabels, AfterLabels,
            ThenLabels, ContLabels, NoObj, NilChan, Blank
  <2>1. ASSUME NEW e \in Envs, StartEnvironment(w, e) PROVE Flow(w)'
    BY <1>1, <2>1 DEF StartEnvironment
  <2>2. ASSUME NEW e \in Envs, StopEnvironment(w, e) PROVE Flow(w)'
    BY <1>1, <2>2 DEF StopEnvironment
  <2>3. CASE RestartCommand(w)
    BY <1>1, <2>3 DEF RestartCommand
  <2>4. CASE Shutdown(w)
    BY <1>1, <2>4 DEF Shutdown
  <2> QED BY <2>1, <2>2, <2>3, <2>4 DEF Request
<1> QED BY <1>1, <1>2, <1>3, FlowStep

\* A fault keeps the control invariant.
LEMMA FaultFlow ==
  ASSUME Typed, ControlInv, Typed', FaultStep PROVE ControlInv'
<1> USE ThreadsAre
<1>1. ASSUME NEW t \in Threads,
             PrepareFails(t) \/ SpawnFails(t) \/ ServiceTimesOut(t) \/ TaskTimesOut(t)
      PROVE  ControlInv'
  <2>1. UNCHANGED nobj /\ nobj \in Nat
    BY <1>1, ConstantsOK DEF PrepareFails, SpawnFails, ServiceTimesOut, TaskTimesOut,
       Typed, HeapOK, ConstantsOK
  <2>2. OnlyMoves(t)
    BY <1>1 DEF PrepareFails, SpawnFails, ServiceTimesOut, TaskTimesOut, Goto, OnlyMoves,
       Typed, PcOK, LocOK
  <2>3. Flow(t)'
    BY <1>1, <2>1 DEF PrepareFails, SpawnFails, ServiceTimesOut, TaskTimesOut,
       Typed, HeapOK, PcOK, LocOK, Locals, Goto, ControlInv, Flow, InEpisode,
       EpisodeLabels, FreeLabels, RollupLabels, RetLabels, AfterLabels, NoObj
  <2> QED BY <2>1, <2>2, <2>3, FlowStep
<1>2. ASSUME NEW m \in Monitors, SuperviseLiveness(m) \/ UnmanagedProbeFails(m)
      PROVE  ControlInv'
  <2>1. UNCHANGED <<nobj, loc>> /\ nobj \in Nat
    BY <1>2, ConstantsOK DEF SuperviseLiveness, UnmanagedProbeFails, Unhealthy, heap,
       Typed, HeapOK, ConstantsOK
  <2>2. PICK l \in MonitorLabels :
          /\ pc' = [pc EXCEPT ![m] = l] /\ pc[m] \in {"supervise", "unmanaged"}
          /\ l \in {"monitorExit", "attemptRestart", "giveUp", "takeOver"}
    BY <1>2 DEF SuperviseLiveness, UnmanagedProbeFails, Unhealthy, Goto, MonitorLabels
  <2>3. OnlyMoves(m)
    BY <2>1, <2>2 DEF OnlyMoves, Typed, PcOK
  <2>4. Flow(m)'
    BY <2>1, <2>2 DEF Typed, PcOK, ControlInv, Flow, InEpisode,
       EpisodeLabels, FreeLabels, RollupLabels, NoObj
  <2> QED BY <2>1, <2>3, <2>4, FlowStep
<1>3. ASSUME NEW w \in Workers, ShutdownDeadline(w) PROVE ControlInv'
  <2>1. UNCHANGED <<nobj, pc, loc>> /\ nobj \in Nat
    BY <1>3, ConstantsOK DEF ShutdownDeadline, heap, Typed, HeapOK, ConstantsOK
  <2> QED BY <2>1, FlowKept DEF ControlInv
<1>4. ASSUME NEW p \in alive, ProcessCrashes(p) PROVE ControlInv'
  <2>1. UNCHANGED <<nobj, pc, loc>> /\ nobj \in Nat
    BY <1>4, ConstantsOK DEF ProcessCrashes, heap, Typed, HeapOK, ConstantsOK
  <2> QED BY <2>1, FlowKept DEF ControlInv
<1> QED BY <1>1, <1>2, <1>3, <1>4 DEF FaultStep

\* Every step keeps the control invariant.
LEMMA NextControl ==
  ASSUME Typed, ControlInv, Typed', [Next]_vars PROVE ControlInv'
<1>0. nobj \in Nat
  BY ConstantsOK DEF Typed, HeapOK, ConstantsOK
<1>1. ASSUME NEW w \in Workers, WorkerStep(w), ~WatchUnmanaged(w) PROVE ControlInv'
  <2>1. nobj' >= nobj
    <3>1. CASE AcquireNew(w)
      BY <1>0, <3>1 DEF AcquireNew
    <3>2. CASE \/ MarkStarting(w) \/ ResetForRetry(w) \/ AcquireJoin(w) \/ JoinWait(w)
               \/ EnvCheck(w) \/ EnvRead(w) \/ EnvCompare(w) \/ StartCommand(w) \/ CheckUnmanaged(w)
               \/ Adopt(w)
      BY <1>0, <3>2 DEF MarkStarting, ResetForRetry, AcquireJoin, JoinWait,
         EnvCheck, EnvRead, EnvCompare, StartCommand, CheckUnmanaged, Adopt, heap
    <3>3. CASE RestartInPlace(w) \/ Cancel(w) \/ CancelWait(w) \/ RestartLock(w)
      BY <1>0, <3>3 DEF RestartInPlace, Cancel, CancelWait, RestartLock, heap
    <3>5. CASE \/ RestartBegin(w) \/ Relaunched(w) \/ Unlock(w) \/ Release(w) \/ CancelStop(w)
               \/ StampStop(w) \/ ShutdownStop(w)
      <4>1. UNCHANGED nobj
        BY <3>5 DEF RestartBegin, Relaunched, Unlock, Release, CancelStop, StampStop, ShutdownStop
      <4> QED BY <1>0, <4>1
    <3>4. CASE \/ MarkRestarting(w) \/ MarkStopping(w) \/ StopBarrier(w) \/ StopWait(w) \/ Stop(w)
               \/ Stopped(w) \/ EnvStopped(w) \/ ShutdownEnd(w) \/ FinishRun(w)
      BY <1>0, <3>4 DEF MarkRestarting, MarkStopping, StopBarrier, StopWait, Stop, Stopped,
         EnvStopped, ShutdownEnd, FinishRun, heap
    <3> QED BY <1>1, <3>1, <3>2, <3>3, <3>4, <3>5 DEF WorkerStep
  <2> QED BY <1>1, <2>1, WorkerMoves, WorkerFlow, FlowStep, ThreadsAre
<1>2. ASSUME NEW m \in Monitors, MonitorStep(m) PROVE ControlInv'
  <2>1. nobj' >= nobj
    <3>1. CASE \/ UnmanagedBegin(m) \/ UnmanagedQuit(m) \/ TakeOver(m) \/ TakeOverStart(m)
               \/ MonitorBegin(m) \/ Snapshot(m) \/ SuperviseQuit(m) \/ SuperviseExit(m)
               \/ GiveUp(m)
      BY <1>0, <3>1 DEF UnmanagedBegin, UnmanagedQuit, TakeOver, TakeOverStart,
         MonitorBegin, Snapshot, SuperviseQuit, SuperviseExit, Unhealthy, GiveUp, heap
    <3>2. CASE \/ MonitorExit(m) \/ AttemptRestart(m) \/ RetriesExhausted(m) \/ Retry(m)
               \/ BackoffQuit(m) \/ BackoffElapses(m) \/ Retried(m) \/ RetryResume(m)
               \/ RetryExit(m)
      BY <1>0, <3>2 DEF MonitorExit, AttemptRestart, RetriesExhausted, Retry, BackoffQuit,
         BackoffElapses, Retried, RetryResume, RetryExit, heap
    <3> QED BY <1>2, <3>1, <3>2 DEF MonitorStep
  <2> QED BY <1>2, <2>1, MonitorMoves, MonitorFlow, FlowStep, ThreadsAre
<1>3. ASSUME NEW t \in Threads, ThreadStep(t), ~StartMonitor(t) PROVE ControlInv'
  <2>1. nobj' >= nobj
    BY <1>0, <1>3 DEF ThreadStep, Prepare, LaunchEnv, Launch, SpawnProcess, ServiceExitsEarly,
       ServiceReady, TaskExits, TaskReady, Kill, AwaitExit, Settle, Started, Relaunch,
       Rollup, RollupRead, RollupWrite, heap
  <2> QED BY <1>3, <2>1, ThreadMoves, ThreadFlow, FlowStep
<1>4. ASSUME NEW p \in alive, ProcessExits(p) PROVE ControlInv'
  <2>1. UNCHANGED <<nobj, pc, loc>>
    BY <1>4 DEF ProcessExits, heap
  <2> QED BY <1>0, <2>1, FlowKept DEF ControlInv
<1>5. CASE UNCHANGED vars
  BY <1>0, <1>5, FlowKept DEF ControlInv, vars
<1> QED BY <1>1, <1>2, <1>3, <1>4, <1>5, RequestFlow, FaultFlow, SpawnFlow, ThreadsAre
        DEF Next, WorkerStep, ThreadStep

\* The control invariant holds initially.
LEMMA InitControl == Init => ControlInv
BY ThreadsAre, ConstantsOK
DEF Init, ControlInv, Flow, Blank, NoObj, NilChan, InEpisode, EpisodeLabels, FreeLabels,
    RollupLabels, RetLabels, AfterLabels, ThenLabels, ContLabels

-----------------------------------------------------------------------------
(* The lock invariant is inductive.                                        *)

SameLocks == \A o \in Objs : commands'[o].restartMu = commands[o].restartMu

\* Goroutine u enters no episode, leaves none, and drives the same one.
SameEpisode(u) ==
  /\ InEpisode(u)' <=> InEpisode(u)
  /\ InEpisode(u) => loc'[u].obj = loc[u].obj

\* A step that touches neither a lock nor an episode.
LEMMA LockKept ==
  ASSUME LockInv, SameLocks, \A u \in Threads : SameEpisode(u)
  PROVE  LockInv'
BY DEF LockInv, SameLocks, SameEpisode

\* The goroutines that do not move keep their episodes.
LEMMA EpisodeKept ==
  ASSUME NEW t \in Threads, OnlyMoves(t)
  PROVE  \A u \in Threads \ {t} : SameEpisode(u)
BY DEF OnlyMoves, SameEpisode, InEpisode

\* A step that moves goroutine t only.
LEMMA LockStep ==
  ASSUME LockInv, NEW t \in Threads, OnlyMoves(t), SameLocks, SameEpisode(t)
  PROVE  LockInv'
BY EpisodeKept, LockKept

\* restartMu.Lock(), on the way into an episode.
LEMMA LockTaken ==
  ASSUME LockInv, NEW t \in Threads, NEW o \in Objs, OnlyMoves(t),
         commands[o].restartMu = NoThread, commands'[o].restartMu = t,
         \A p \in Objs \ {o} : commands'[p].restartMu = commands[p].restartMu,
         ~InEpisode(t), InEpisode(t)', loc'[t].obj = o
  PROVE  LockInv'
<1>1. \A u \in Threads \ {t} : SameEpisode(u)
  BY EpisodeKept
<1>2. NoThread \notin Threads
  BY ThreadsAre
<1> QED BY <1>1, <1>2 DEF LockInv, SameEpisode

\* restartMu.Unlock(), on the way out of one.
LEMMA LockFreed ==
  ASSUME LockInv, NEW t \in Threads, NEW o \in Objs, OnlyMoves(t),
         InEpisode(t), loc[t].obj = o, ~(InEpisode(t)'), commands'[o].restartMu = NoThread,
         \A p \in Objs \ {o} : commands'[p].restartMu = commands[p].restartMu
  PROVE  LockInv'
<1>1. \A u \in Threads \ {t} : SameEpisode(u)
  BY EpisodeKept
<1>2. NoThread \notin Threads
  BY ThreadsAre
<1> QED BY <1>1, <1>2 DEF LockInv, SameEpisode

\* setCmdState leaves the locks alone.
LEMMA StateLocks ==
  ASSUME HeapOK, NEW s \in CmdStates, commands' = WithCmdState(commands, s)
  PROVE  SameLocks
BY WithState DEF SameLocks, HeapOK

\* An assignment to another field of a struct leaves the locks alone.
LEMMA SetLocks ==
  ASSUME HeapOK, NEW o \in Objs, NEW c \in Command, c.restartMu = commands[o].restartMu,
         commands' = [commands EXCEPT ![o] = c]
  PROVE  SameLocks
BY DEF SameLocks, HeapOK

\* So does an assignment followed by a call of setCmdState.
LEMMA SetStateLocks ==
  ASSUME HeapOK, NEW o \in Objs, NEW c \in Command, NEW s \in CmdStates,
         c.restartMu = commands[o].restartMu,
         commands' = WithCmdState([commands EXCEPT ![o] = c], s)
  PROVE  SameLocks
<1>1. [commands EXCEPT ![o] = c] \in [Objs -> Command]
  BY DEF HeapOK
<1> QED BY <1>1, WithState DEF SameLocks, HeapOK

\* A worker's step that starts or ends no episode.
Unlocked(w) == ~(StartCommand(w) \/ RestartInPlace(w) \/ RestartLock(w) \/ Unlock(w))

\* A step of the rest of a worker leaves every lock alone.
LEMMA WorkerLocks ==
  ASSUME Typed, ControlInv, LockInv, NEW w \in Workers, WorkerStep(w), Unlocked(w)
  PROVE  SameLocks
<1> USE ThreadsAre
<1> DEFINE o == loc[w].obj
<1>1. CASE \/ MarkStarting(w) \/ ResetForRetry(w) \/ JoinWait(w) \/ EnvCheck(w)
           \/ EnvRead(w) \/ EnvCompare(w) \/ CancelWait(w) \/ StopBarrier(w) \/ StopWait(w)
           \/ EnvStopped(w) \/ FinishRun(w) \/ ShutdownEnd(w)
  BY <1>1 DEF SameLocks, heap, MarkStarting, ResetForRetry, JoinWait, EnvCheck, EnvRead, EnvCompare,
     CancelWait, StopBarrier, StopWait, EnvStopped, FinishRun, ShutdownEnd
<1>2. CASE AcquireNew(w)
  <2>1. nobj + 1 \in Objs /\ \A t \in Threads : loc[t].obj # nobj + 1
    BY <1>2, ConstantsOK
    DEF Typed, AcquireNew, HeapOK, Objs, ConstantsOK, ControlInv, Flow
  <2>2. commands[nobj + 1].restartMu = NoThread
    BY <2>1, FieldsOK DEF LockInv, Typed, Command
  <2>3. commands'[nobj + 1].restartMu = NoThread
    BY <1>2, <2>1 DEF AcquireNew, NewCommand, Typed, HeapOK
  <2>4. \A p \in Objs \ {nobj + 1} : commands'[p] = commands[p]
    BY <1>2 DEF AcquireNew, Typed, HeapOK
  <2> QED BY <2>2, <2>3, <2>4 DEF SameLocks
<1>3. CASE \/ AcquireJoin(w) \/ CheckUnmanaged(w) \/ WatchUnmanaged(w) \/ Cancel(w)
           \/ Release(w) \/ CancelStop(w) \/ StampStop(w) \/ ShutdownStop(w)
  BY <1>3 DEF SameLocks, Typed, HeapOK, Command, AcquireJoin, CheckUnmanaged,
     WatchUnmanaged, Cancel, Release, CancelStop, StampStop, ShutdownStop
<1>4. CASE \/ Adopt(w) \/ RestartBegin(w) \/ MarkRestarting(w) \/ MarkStopping(w)
  BY <1>4, StateLocks DEF Typed, CmdStates, Adopt, RestartBegin, MarkRestarting, MarkStopping
<1>5. CASE Relaunched(w)
  <2>1. CASE commands' = WithCmdState(commands, "healthy")
    BY <2>1, StateLocks DEF Typed, CmdStates
  <2>2. CASE UNCHANGED commands
    BY <2>2 DEF SameLocks
  <2> QED BY <1>5, <2>1, <2>2 DEF Relaunched
<1>6. CASE Stop(w) \/ Stopped(w)
  <2> DEFINE c == [commands[o] EXCEPT !.stopping = FALSE]
  <2>1. o \in Objs
    BY <1>6, ObjOK DEF Typed, Stop, Stopped, FreeLabels, RollupLabels
  <2>2. c \in Command /\ c.restartMu = commands[o].restartMu
    BY <2>1, FieldsOK, SetStopped DEF Typed, Command
  <2>3. CASE commands' = [commands EXCEPT ![o] = c]
    BY <2>1, <2>2, <2>3, SetLocks DEF Typed
  <2>4. CASE commands' = WithCmdState([commands EXCEPT ![o] = c], "stopped")
    BY <2>1, <2>2, <2>4, SetStateLocks DEF Typed, CmdStates
  <2>5. CASE UNCHANGED commands
    BY <2>5 DEF SameLocks
  <2> QED BY <1>6, <2>3, <2>4, <2>5 DEF Stop, Stopped
<1> QED BY <1>1, <1>2, <1>3, <1>4, <1>5, <1>6 DEF WorkerStep, Unlocked

\* A worker's step that takes or frees no lock enters and leaves no episode.
LEMMA WorkerEpisode ==
  ASSUME Typed, ControlInv, NEW w \in Workers, WorkerStep(w), Unlocked(w),
         ~WatchUnmanaged(w)
  PROVE  SameEpisode(w)
<1> USE ThreadsAre
<1> USE DEF Typed, PcOK, LocOK, Locals, Goto, ControlInv, Flow, SameEpisode, InEpisode,
            EpisodeLabels, ContLabels
<1>1. CASE MarkStarting(w)
  BY <1>1 DEF MarkStarting
<1>2. CASE ResetForRetry(w)
  BY <1>2 DEF ResetForRetry
<1>3. CASE AcquireNew(w) \/ AcquireJoin(w)
  BY <1>3 DEF AcquireNew, AcquireJoin
<1>4. CASE JoinWait(w) \/ EnvCheck(w) \/ EnvRead(w) \/ EnvCompare(w)
  BY <1>4 DEF JoinWait, EnvCheck, EnvRead, EnvCompare, Continue
<1>5. CASE CheckUnmanaged(w) \/ Adopt(w)
  BY <1>5 DEF CheckUnmanaged, Adopt
<1>6. CASE Cancel(w) \/ CancelWait(w)
  BY <1>6 DEF Cancel, CancelWait
<1>7. CASE RestartBegin(w)
  BY <1>7 DEF RestartBegin
<1>8. CASE Relaunched(w)
  BY <1>8 DEF Relaunched
<1>9. CASE Release(w)
  BY <1>9 DEF Release, Continue
<1>10. CASE \/ CancelStop(w) \/ StampStop(w) \/ ShutdownStop(w) \/ MarkRestarting(w)
            \/ MarkStopping(w) \/ StopBarrier(w) \/ StopWait(w)
  BY <1>10 DEF CancelStop, StampStop, ShutdownStop, MarkRestarting, MarkStopping, StopBarrier,
     StopWait
<1>11. CASE Stop(w)
  BY <1>11 DEF Stop, Continue
<1>12. CASE Stopped(w) \/ EnvStopped(w) \/ ShutdownEnd(w)
  BY <1>12 DEF Stopped, EnvStopped, ShutdownEnd, Continue
<1>13. CASE FinishRun(w)
  BY <1>13 DEF FinishRun
<1> QED BY <1>1, <1>2, <1>3, <1>4, <1>5, <1>6, <1>7, <1>8, <1>9, <1>10, <1>11, <1>12,
           <1>13 DEF WorkerStep, Unlocked

\* The three places where a worker takes restartMu, and the one where it frees it.
LEMMA WorkerTakes ==
  ASSUME Typed, ControlInv, LockInv, NEW w \in Workers,
         StartCommand(w) \/ RestartInPlace(w) \/ RestartLock(w)
  PROVE  LockInv'
<1> USE ThreadsAre
<1> DEFINE o == loc[w].obj
<1>1. o \in Objs /\ commands[o] \in Command
  BY Zenon, ObjOK, FieldsOK DEF Typed, StartCommand, RestartInPlace, RestartLock, FreeLabels,
     RollupLabels
<1>2. OnlyMoves(w)
  BY WorkerMoves DEF WorkerStep, StartCommand, RestartInPlace, RestartLock, WatchUnmanaged
<1>3. ~InEpisode(w) /\ InEpisode(w)' /\ loc'[w].obj = o
  BY DEF StartCommand, RestartInPlace, RestartLock, Goto, InEpisode, EpisodeLabels, Typed,
     PcOK, LocOK, Locals
<1>4. commands[o].restartMu = NoThread
  BY DEF StartCommand, RestartInPlace, RestartLock, Lockable, C
<1>5. ASSUME NEW cs \in [Objs -> Command], cs[o].restartMu = w,
             \A p \in Objs \ {o} : cs[p].restartMu = commands[p].restartMu,
             commands' = cs \/ \E s \in CmdStates : commands' = WithCmdState(cs, s)
      PROVE  LockInv'
  <2>1. \A p \in Objs : commands'[p].restartMu = cs[p].restartMu
    BY <1>5, WithState DEF Typed
  <2> QED BY <1>1, <1>2, <1>3, <1>4, <1>5, <2>1, LockTaken
<1>6. CASE StartCommand(w)
  <2> DEFINE c == [commands[o] EXCEPT !.restartMu = w]
             cs == [commands EXCEPT ![o] = c]
  <2>1. c \in Command /\ c.restartMu = w
    BY <1>1, SetLock DEF Command
  <2>2. commands' = WithCmdState(cs, "starting")
    BY <1>6 DEF StartCommand
  <2> HIDE DEF c
  <2>3. cs \in [Objs -> Command] /\ cs[o] = c /\ \A p \in Objs \ {o} : cs[p] = commands[p]
    BY <1>1, <2>1 DEF Typed, HeapOK
  <2> HIDE DEF cs
  <2> QED BY <1>5, <2>1, <2>2, <2>3 DEF CmdStates
<1>7. CASE RestartInPlace(w)
  <2> DEFINE c == [commands[o] EXCEPT !.restartMu = w, !.retries = 0]
             cs == [commands EXCEPT ![o] = c]
  <2>1. c \in Command /\ c.restartMu = w
    BY <1>1, SetLockRetries DEF Command
  <2>2. commands' = WithCmdState(cs, "restarting")
    BY <1>7 DEF RestartInPlace
  <2> HIDE DEF c
  <2>3. cs \in [Objs -> Command] /\ cs[o] = c /\ \A p \in Objs \ {o} : cs[p] = commands[p]
    BY <1>1, <2>1 DEF Typed, HeapOK
  <2> HIDE DEF cs
  <2> QED BY <1>5, <2>1, <2>2, <2>3 DEF CmdStates
<1>8. CASE RestartLock(w)
  <2> DEFINE c == [commands[o] EXCEPT !.restartMu = w, !.userStopped = FALSE,
                                      !.quit = NilChan, !.retries = 0]
             cs == [commands EXCEPT ![o] = c]
  <2>1. c \in Command /\ c.restartMu = w
    BY <1>1, SetLockCancel DEF Command
  <2>2. commands' = cs
    BY <1>8 DEF RestartLock
  <2> HIDE DEF c
  <2>3. cs \in [Objs -> Command] /\ cs[o] = c /\ \A p \in Objs \ {o} : cs[p] = commands[p]
    BY <1>1, <2>1 DEF Typed, HeapOK
  <2> HIDE DEF cs
  <2> QED BY <1>5, <2>1, <2>2, <2>3
<1> QED BY <1>6, <1>7, <1>8

\* The end of restartInPlace and of restartCommandInPlace.
LEMMA WorkerFrees ==
  ASSUME Typed, ControlInv, LockInv, NEW w \in Workers, Unlock(w)
  PROVE  LockInv'
<1> USE ThreadsAre
<1> DEFINE o == loc[w].obj
<1>1. o \in Objs
  BY ObjOK DEF Typed, Unlock, FreeLabels, RollupLabels
<1>2. OnlyMoves(w)
  BY WorkerMoves DEF WorkerStep, Unlock, WatchUnmanaged
<1>3. InEpisode(w) /\ ~(InEpisode(w)')
  BY DEF Unlock, Continue, Goto, InEpisode, EpisodeLabels, Typed, PcOK, ControlInv, Flow,
     ContLabels
<1>4. /\ commands'[o].restartMu = NoThread
      /\ \A p \in Objs \ {o} : commands'[p].restartMu = commands[p].restartMu
  BY <1>1 DEF Unlock, Typed, HeapOK, Command
<1> QED BY <1>1, <1>2, <1>3, <1>4, LockFreed

\* The same of a monitor.
LEMMA MonitorLocks ==
  ASSUME Typed, ControlInv, NEW m \in Monitors, MonitorStep(m),
         ~(TakeOver(m) \/ AttemptRestart(m) \/ RetryResume(m) \/ RetryExit(m))
  PROVE  SameLocks
<1> USE ThreadsAre
<1> DEFINE o == loc[m].obj
<1>1. CASE \/ UnmanagedBegin(m) \/ UnmanagedQuit(m) \/ MonitorBegin(m) \/ Snapshot(m)
           \/ SuperviseQuit(m) \/ SuperviseExit(m) \/ MonitorExit(m) \/ BackoffQuit(m)
           \/ BackoffElapses(m)
  BY <1>1 DEF SameLocks, heap, UnmanagedBegin, UnmanagedQuit, MonitorBegin, Snapshot,
     SuperviseQuit, SuperviseExit, Unhealthy, MonitorExit, BackoffQuit, BackoffElapses
<1>2. CASE TakeOverStart(m) \/ GiveUp(m) \/ RetriesExhausted(m) \/ Retry(m)
  BY <1>2, StateLocks
  DEF Typed, TakeOverStart, GiveUp, RetriesExhausted, Retry, CmdStates
<1>3. CASE Retried(m)
  <2>1. o \in Objs
    BY <1>3, ObjOK DEF Typed, Retried, FreeLabels, RollupLabels
  <2>2. CASE loc[m].ok
    <3> DEFINE c == [commands[o] EXCEPT !.retries = 0]
    <3>1. c \in Command /\ c.restartMu = commands[o].restartMu
      BY <2>1, FieldsOK, SetRetries DEF Typed, Command
    <3>2. commands' = WithCmdState([commands EXCEPT ![o] = c], "healthy")
      BY <1>3, <2>2 DEF Retried
    <3> QED BY <2>1, <3>1, <3>2, SetStateLocks DEF Typed, CmdStates
  <2>3. CASE ~loc[m].ok
    <3> DEFINE c == [commands[o] EXCEPT !.retries = @ + 1]
    <3>1. c \in Command /\ c.restartMu = commands[o].restartMu
      BY <2>1, FieldsOK, SetRetries DEF Typed, Command
    <3>2. commands' = [commands EXCEPT ![o] = c]
      BY <1>3, <2>3 DEF Retried
    <3> QED BY <2>1, <3>1, <3>2, SetLocks DEF Typed
  <2> QED BY <2>2, <2>3
<1> QED BY <1>1, <1>2, <1>3 DEF MonitorStep

\* A monitor's step that takes or frees no lock enters and leaves no episode.
LEMMA MonitorEpisode ==
  ASSUME Typed, ControlInv, NEW m \in Monitors, MonitorStep(m),
         ~(TakeOver(m) \/ AttemptRestart(m) \/ RetryResume(m) \/ RetryExit(m))
  PROVE  SameEpisode(m)
<1> USE ThreadsAre
<1> USE DEF Typed, PcOK, LocOK, Locals, Goto, SameEpisode, InEpisode, EpisodeLabels
<1>1. CASE UnmanagedBegin(m) \/ UnmanagedQuit(m) \/ MonitorBegin(m) \/ Snapshot(m)
  BY <1>1 DEF UnmanagedBegin, UnmanagedQuit, MonitorBegin, Snapshot, Continue
<1>2. CASE SuperviseQuit(m) \/ SuperviseExit(m)
  BY <1>2 DEF SuperviseQuit, SuperviseExit, Unhealthy
<1>3. CASE GiveUp(m)
  BY <1>3 DEF GiveUp
<1>4. CASE MonitorExit(m)
  BY <1>4 DEF MonitorExit, Continue
<1>5. CASE TakeOverStart(m) \/ BackoffQuit(m) \/ BackoffElapses(m)
  BY <1>5 DEF TakeOverStart, BackoffQuit, BackoffElapses
<1>6. CASE RetriesExhausted(m)
  BY <1>6 DEF RetriesExhausted
<1>7. CASE Retry(m)
  BY <1>7 DEF Retry
<1>8. CASE Retried(m)
  <2>1. \/ /\ pc' = [pc EXCEPT ![m] = "rollup"]
           /\ loc' = [loc EXCEPT ![m].todo = Envs, ![m].then = "retryResume"]
        \/ pc' = [pc EXCEPT ![m] = "retry"] /\ UNCHANGED loc
    BY <1>8 DEF Retried
  <2>2. pc[m] = "retried"
    BY <1>8 DEF Retried
  <2> QED BY <2>1, <2>2
<1> QED BY <1>1, <1>2, <1>3, <1>4, <1>5, <1>6, <1>7, <1>8 DEF MonitorStep

\* takeOverUnmanaged and attemptRestart take restartMu.
LEMMA MonitorTakes ==
  ASSUME Typed, ControlInv, LockInv, NEW m \in Monitors, TakeOver(m) \/ AttemptRestart(m)
  PROVE  LockInv'
<1> USE ThreadsAre
<1> DEFINE o == loc[m].obj
<1>1. o \in Objs /\ commands[o] \in Command
  BY ObjOK, FieldsOK DEF Typed, TakeOver, AttemptRestart, FreeLabels, RollupLabels
<1>2. OnlyMoves(m)
  BY MonitorMoves DEF MonitorStep
<1>3. ~InEpisode(m) /\ InEpisode(m)' /\ loc'[m].obj = o
  BY DEF TakeOver, AttemptRestart, Goto, InEpisode, EpisodeLabels, Typed, PcOK, LocOK, Locals
<1>4. commands[o].restartMu = NoThread
  BY DEF TakeOver, AttemptRestart, Lockable, C
<1>5. commands'[o].restartMu = m /\ \A p \in Objs \ {o} : commands'[p] = commands[p]
  <2>1. CASE TakeOver(m)
    BY <1>1, <2>1 DEF TakeOver, Typed, HeapOK, Command
  <2>2. CASE AttemptRestart(m)
    BY <1>1, <2>2 DEF AttemptRestart, Typed, HeapOK, Command
  <2> QED BY <2>1, <2>2
<1> QED BY <1>1, <1>2, <1>3, <1>4, <1>5, LockTaken

\* attemptRestart frees it on its way out.
LEMMA MonitorFrees ==
  ASSUME Typed, ControlInv, LockInv, NEW m \in Monitors, RetryResume(m) \/ RetryExit(m)
  PROVE  LockInv'
<1> USE ThreadsAre
<1> DEFINE o == loc[m].obj
<1>1. o \in Objs
  BY ObjOK DEF Typed, RetryResume, RetryExit, FreeLabels, RollupLabels
<1>2. OnlyMoves(m)
  BY MonitorMoves DEF MonitorStep
<1>3. InEpisode(m) /\ ~(InEpisode(m)')
  BY DEF RetryResume, RetryExit, Goto, InEpisode, EpisodeLabels, Typed, PcOK
<1>4. commands'[o].restartMu = NoThread /\ \A p \in Objs \ {o} : commands'[p] = commands[p]
  BY <1>1 DEF RetryResume, RetryExit, Typed, HeapOK, Command
<1> QED BY <1>1, <1>2, <1>3, <1>4, LockFreed

\* The same of the shared code, which frees the lock of a fresh start.
LEMMA ThreadLocks ==
  ASSUME Typed, ControlInv, NEW t \in Threads, ThreadStep(t), ~Started(t) PROVE SameLocks
<1> DEFINE o == loc[t].obj
<1>1. CASE \/ Prepare(t) \/ LaunchEnv(t) \/ Kill(t) \/ AwaitExit(t) \/ Settle(t) \/ Rollup(t)
           \/ RollupRead(t) \/ RollupWrite(t)
  BY <1>1 DEF SameLocks, heap, Prepare, LaunchEnv, Kill, AwaitExit, Settle, Rollup, RollupRead,
     RollupWrite
<1>2. CASE Launch(t) \/ SpawnProcess(t) \/ Relaunch(t) \/ StartMonitor(t)
  BY <1>2 DEF SameLocks, Typed, HeapOK, Command, Launch, SpawnProcess, Relaunch, StartMonitor
<1>3. CASE ServiceExitsEarly(t) \/ ServiceReady(t) \/ TaskExits(t) \/ TaskReady(t)
  <2>1. CASE UNCHANGED commands
    BY <2>1 DEF SameLocks
  <2>2. CASE \E s \in CmdStates : commands' = WithCmdState(commands, s)
    BY <2>2, StateLocks DEF Typed
  <2> QED BY <1>3, <2>1, <2>2
          DEF ServiceExitsEarly, ServiceReady, TaskExits, TaskReady, CmdStates
<1> QED BY <1>1, <1>2, <1>3 DEF ThreadStep

\* A step of the shared code that frees no lock leaves no episode.
LEMMA ThreadEpisode ==
  ASSUME Typed, ControlInv, NEW t \in Threads, ThreadStep(t), ~Started(t), ~StartMonitor(t)
  PROVE  SameEpisode(t)
<1> USE DEF Typed, PcOK, LocOK, Locals, Goto, SameEpisode, InEpisode, EpisodeLabels
<1>1. CASE Prepare(t) \/ LaunchEnv(t) \/ Launch(t) \/ SpawnProcess(t) \/ Relaunch(t)
  BY <1>1 DEF Prepare, LaunchEnv, Launch, SpawnProcess, Relaunch
<1>2. CASE ServiceExitsEarly(t)
  BY <1>2 DEF ServiceExitsEarly
<1>3. CASE ServiceReady(t)
  BY <1>3 DEF ServiceReady
<1>4. CASE TaskExits(t)
  BY <1>4 DEF TaskExits
<1>5. CASE TaskReady(t)
  BY <1>5 DEF TaskReady
<1>6. CASE Kill(t) \/ AwaitExit(t)
  BY <1>6 DEF Kill, AwaitExit, ControlInv, Flow, AfterLabels
<1>7. CASE Settle(t)
  BY <1>7 DEF Settle, ControlInv, Flow, RetLabels
<1>8. CASE Rollup(t)
  <2>1. pc[t] = "rollup"
    BY <1>8 DEF Rollup
  <2>2. CASE loc[t].todo = {}
    BY <1>8, <2>1, <2>2 DEF Rollup, Continue, ControlInv, Flow, ThenLabels
  <2>3. CASE loc[t].todo # {}
    <3>1. PICK e \in loc[t].todo :
            /\ loc' = [loc EXCEPT ![t].todo = @ \ {e}, ![t].roll = {e}]
            /\ \/ pc' = [pc EXCEPT ![t] = "rollup"]
               \/ pc' = [pc EXCEPT ![t] = "rollupRead"]
      BY <1>8, <2>3 DEF Rollup
    <3> QED BY <2>1, <3>1
  <2> QED BY <2>2, <2>3
<1>9. CASE RollupRead(t) \/ RollupWrite(t)
  BY <1>9 DEF RollupRead, RollupWrite
<1> QED BY <1>1, <1>2, <1>3, <1>4, <1>5, <1>6, <1>7, <1>8, <1>9 DEF ThreadStep

\* The end of startCommand and of takeOverUnmanaged.
LEMMA ThreadFrees ==
  ASSUME Typed, ControlInv, LockInv, NEW t \in Threads, Started(t) PROVE LockInv'
<1> DEFINE o == loc[t].obj
<1>1. o \in Objs
  BY ObjOK DEF Typed, Started, FreeLabels, RollupLabels
<1>2. OnlyMoves(t)
  BY ThreadMoves DEF ThreadStep, Started, StartMonitor
<1>3. InEpisode(t) /\ ~(InEpisode(t)')
  BY DEF Started, Continue, Goto, InEpisode, EpisodeLabels, Typed, PcOK
<1>4. commands'[o].restartMu = NoThread /\ \A p \in Objs \ {o} : commands'[p] = commands[p]
  BY <1>1 DEF Started, Typed, HeapOK, Command
<1> QED BY <1>1, <1>2, <1>3, <1>4, LockFreed

\* A go statement: the new goroutine is in no episode.
LEMMA SpawnLocks ==
  ASSUME Typed, ControlInv, LockInv, NEW t \in Threads,
         WatchUnmanaged(t) \/ StartMonitor(t), SameLocks
  PROVE  LockInv'
<1>1. PICK m \in Monitors, l \in {"unmanagedBegin", "monitorBegin"}, h \in {"settle", "rollup"} :
        /\ pc[m] = "idle" /\ pc' = [pc EXCEPT ![t] = h, ![m] = l]
        /\ loc' = [loc EXCEPT ![m] = [Blank EXCEPT !.obj = loc[t].obj]]
        /\ h = "rollup" => loc[t].then = "unlock"
  BY DEF WatchUnmanaged, StartMonitor, Spawn, ControlInv, Flow
<1>2. pc[t] \in {"watchUnmanaged", "startMonitor"} /\ m \in Threads /\ m # t
  BY <1>1, ThreadsAre DEF WatchUnmanaged, StartMonitor
<1>3. \A u \in Threads : SameEpisode(u)
  BY <1>1, <1>2 DEF SameEpisode, InEpisode, EpisodeLabels, Typed, PcOK, LocOK
<1> QED BY <1>3, LockKept

\* Requests, faults and process exits touch neither locks nor episodes.
LEMMA RequestLocks ==
  ASSUME Typed, ControlInv, LockInv, NEW w \in Workers, Request(w) PROVE LockInv'
<1> USE ThreadsAre
<1>1. OnlyMoves(w)
  BY DEF Request, StartEnvironment, StopEnvironment, RestartCommand, Shutdown, Goto,
     OnlyMoves, Typed, PcOK, LocOK
<1>2. ASSUME NEW e \in Envs, StartEnvironment(w, e) \/ StopEnvironment(w, e)
      PROVE  SameLocks /\ SameEpisode(w)
  BY <1>2 DEF StartEnvironment, StopEnvironment, Begin, Goto, SameLocks, SameEpisode,
     InEpisode, EpisodeLabels, Typed, PcOK
<1>3. CASE RestartCommand(w)
  <2>1. SameLocks
    BY <1>3 DEF RestartCommand, Begin, SameLocks
  <2>2. SameEpisode(w)
    BY <1>3 DEF RestartCommand, Begin, Goto, SameEpisode, InEpisode, EpisodeLabels, Typed, PcOK
  <2> QED BY <1>1, <2>1, <2>2, LockStep
<1>4. CASE Shutdown(w)
  BY <1>1, <1>4, LockStep DEF Shutdown, Begin, Goto, SameLocks, SameEpisode, InEpisode,
     EpisodeLabels, Typed, PcOK
<1> QED BY Zenon, <1>1, <1>2, <1>3, <1>4, LockStep DEF Request

\* A fault touches neither a lock nor an episode.
LEMMA FaultLocks ==
  ASSUME Typed, ControlInv, LockInv, FaultStep PROVE LockInv'
<1> USE ThreadsAre
<1>1. ASSUME NEW t \in Threads,
             PrepareFails(t) \/ SpawnFails(t) \/ ServiceTimesOut(t) \/ TaskTimesOut(t)
      PROVE  LockInv'
  <2>1. SameLocks
    BY <1>1, StateLocks
    DEF Typed, PrepareFails, SpawnFails, ServiceTimesOut, TaskTimesOut, CmdStates
  <2>2. OnlyMoves(t)
    BY <1>1 DEF PrepareFails, SpawnFails, ServiceTimesOut, TaskTimesOut, Goto, OnlyMoves,
       Typed, PcOK, LocOK
  <2>3. SameEpisode(t)
    BY <1>1 DEF PrepareFails, SpawnFails, ServiceTimesOut, TaskTimesOut, Typed, PcOK, LocOK,
       Locals, Goto, SameEpisode, InEpisode, EpisodeLabels
  <2> QED BY <2>1, <2>2, <2>3, LockStep
<1>2. ASSUME NEW m \in Monitors, SuperviseLiveness(m) \/ UnmanagedProbeFails(m)
      PROVE  LockInv'
  <2>1. SameLocks
    BY <1>2 DEF SameLocks, SuperviseLiveness, UnmanagedProbeFails, Unhealthy, heap
  <2>2. OnlyMoves(m) /\ SameEpisode(m)
    BY <1>2 DEF SuperviseLiveness, UnmanagedProbeFails, Unhealthy, Goto, OnlyMoves,
       SameEpisode, InEpisode, EpisodeLabels, Typed, PcOK
  <2> QED BY <2>1, <2>2, LockStep
<1>3. ASSUME NEW w \in Workers, ShutdownDeadline(w) PROVE LockInv'
  <2>1. UNCHANGED <<commands, pc, loc>>
    BY <1>3 DEF ShutdownDeadline, heap
  <2> QED BY <2>1 DEF LockInv, InEpisode
<1>4. ASSUME NEW p \in alive, ProcessCrashes(p) PROVE LockInv'
  <2>1. UNCHANGED <<commands, pc, loc>>
    BY <1>4 DEF ProcessCrashes, heap
  <2> QED BY <2>1 DEF LockInv, InEpisode
<1> QED BY <1>1, <1>2, <1>3, <1>4 DEF FaultStep

\* Every step keeps the lock invariant.
LEMMA NextLocks ==
  ASSUME Typed, ControlInv, LockInv, [Next]_vars PROVE LockInv'
<1>1. ASSUME NEW w \in Workers, WorkerStep(w) PROVE LockInv'
  <2>1. CASE StartCommand(w) \/ RestartInPlace(w) \/ RestartLock(w)
    BY <2>1, WorkerTakes
  <2>2. CASE Unlock(w)
    BY <2>2, WorkerFrees
  <2>3. CASE Unlocked(w) /\ WatchUnmanaged(w)
    BY <1>1, <2>3, WorkerLocks, SpawnLocks, ThreadsAre
  <2>4. CASE Unlocked(w) /\ ~WatchUnmanaged(w)
    BY <1>1, <2>4, WorkerLocks, WorkerMoves, WorkerEpisode, LockStep, ThreadsAre
  <2> QED BY <2>1, <2>2, <2>3, <2>4 DEF Unlocked
<1>2. ASSUME NEW m \in Monitors, MonitorStep(m) PROVE LockInv'
  <2>1. CASE TakeOver(m) \/ AttemptRestart(m)
    BY <2>1, MonitorTakes
  <2>2. CASE RetryResume(m) \/ RetryExit(m)
    BY <2>2, MonitorFrees
  <2>3. CASE ~(TakeOver(m) \/ AttemptRestart(m) \/ RetryResume(m) \/ RetryExit(m))
    BY <1>2, <2>3, MonitorLocks, MonitorMoves, MonitorEpisode, LockStep, ThreadsAre
  <2> QED BY <2>1, <2>2, <2>3
<1>3. ASSUME NEW t \in Threads, ThreadStep(t) PROVE LockInv'
  <2>1. CASE Started(t)
    BY <2>1, ThreadFrees
  <2>2. CASE StartMonitor(t) /\ ~Started(t)
    BY <1>3, <2>2, ThreadLocks, SpawnLocks
  <2>3. CASE ~Started(t) /\ ~StartMonitor(t)
    BY <1>3, <2>3, ThreadLocks, ThreadMoves, ThreadEpisode, LockStep
  <2> QED BY <2>1, <2>2, <2>3
<1>4. ASSUME NEW p \in alive, ProcessExits(p) PROVE LockInv'
  <2>1. UNCHANGED <<commands, pc, loc>>
    BY <1>4 DEF ProcessExits, heap
  <2> QED BY <2>1 DEF LockInv, InEpisode
<1>5. CASE UNCHANGED vars
  BY <1>5 DEF LockInv, InEpisode, vars
<1> QED BY <1>1, <1>2, <1>3, <1>4, <1>5, RequestLocks, FaultLocks DEF Next

\* No lock is held initially.
LEMMA InitLocks == Init => LockInv
BY ThreadsAre DEF Init, LockInv, InEpisode, EpisodeLabels, NewCommand, Blank

-----------------------------------------------------------------------------
(* The theorems.                                                           *)

IndInv == Typed /\ ControlInv /\ LockInv

\* The inductive invariant: types, the flow of control and the restart lock.
THEOREM Inductive == Spec => []IndInv
<1>1. Init => IndInv
  BY InitTyped, InitControl, InitLocks DEF IndInv
<1>2. IndInv /\ [Next]_vars => IndInv'
  BY NextTyped, NextControl, NextLocks DEF IndInv
<1> QED BY <1>1, <1>2, PTL DEF Spec

\* Every struct, goroutine and channel of the engine has its shape, whatever
\* the environments, the number of clients and the order they run in.
THEOREM TypeCorrect == Spec => []TypeOK
<1>1. IndInv => TypeOK
  BY TypeParts DEF IndInv, Typed
<1> QED BY <1>1, Inductive, PTL

\* restartMu is held by a goroutine exactly while it drives a start or restart
\* episode of that command (engine.go, restartMu).
THEOREM LockDiscipline == Spec => []LockInv
<1>1. IndInv => LockInv
  BY DEF IndInv
<1> QED BY <1>1, Inductive, PTL

\* One start or restart episode per command at a time, whoever drives it.
THEOREM SingleEpisode == Spec => []OneEpisode
<1>1. IndInv => OneEpisode
  <2>1. ASSUME IndInv, NEW t \in Threads, NEW u \in Threads,
               InEpisode(t), InEpisode(u), loc[t].obj = loc[u].obj
        PROVE  t = u
    <3>1. loc[t].obj \in Objs
      BY <2>1 DEF IndInv, Typed, ControlInv, Flow, LocOK, Locals, InEpisode, EpisodeLabels,
         FreeLabels, RollupLabels, NoObj
    <3> QED BY <2>1, <3>1 DEF IndInv, LockInv
  <2> QED BY <2>1 DEF OneEpisode
<1> QED BY <1>1, Inductive, PTL

-----------------------------------------------------------------------------
(* Channels and processes: every channel is made for one purpose, and       *)
(* launchProcess keeps the exited channel and the process together.        *)

Kinds == {"barrier", "exit", "quit", "done"}

\* Every channel was made for one purpose of one struct: kind and owner say
\* which.  A struct's fields, a goroutine's notes and the processes keep to it.
Fits(kind, owner) ==
  /\ \A o \in Objs :
       /\ commands[o].startDone # NilChan =>
            kind[commands[o].startDone] = "barrier" /\ owner[commands[o].startDone] = o
       /\ commands[o].exited # NilChan =>
            kind[commands[o].exited] = "exit" /\ owner[commands[o].exited] = o
       /\ commands[o].cmd # NilChan =>
            kind[commands[o].cmd] = "exit" /\ owner[commands[o].cmd] = o
       /\ commands[o].quit # NilChan =>
            kind[commands[o].quit] = "quit" /\ owner[commands[o].quit] = o
       /\ commands[o].monitorDone # NilChan =>
            kind[commands[o].monitorDone] = "done" /\ owner[commands[o].monitorDone] = o
  /\ \A t \in Threads : loc[t].done # NilChan => kind[loc[t].done] = "done"
  /\ \A p \in alive : kind[p] = "exit"
OnePurpose == \E kind \in [1 .. fresh -> Kinds], owner \in [1 .. fresh -> Objs] : Fits(kind, owner)

\* Channels that a struct, a goroutine or the world knows have been made, and
\* acquireAndStart makes two for every struct.
ChannelsMade ==
  /\ \A o \in Objs :
       /\ commands[o].startDone \in 0 .. fresh /\ commands[o].exited \in 0 .. fresh
       /\ commands[o].cmd \in 0 .. fresh /\ commands[o].quit \in 0 .. fresh
       /\ commands[o].monitorDone \in 0 .. fresh
  /\ \A o \in 1 .. nobj : commands[o].startDone # NilChan /\ commands[o].exited # NilChan
  /\ \A t \in Threads : loc[t].done \in 0 .. fresh
  /\ closed \subseteq 0 .. fresh /\ alive \subseteq 1 .. fresh

\* The exited channel of a struct is closed, or names a process that runs, only
\* if it is the one of the struct's process; between the two halves of
\* launchProcess it is not.
ExitsFit ==
  /\ alive \cap closed = {}
  /\ \A o \in Objs : commands[o].exited \in (closed \cup alive) \ {NilChan} =>
                       commands[o].cmd = commands[o].exited
  /\ \A t \in Threads : pc[t] = "spawn" =>
       C(t).exited # C(t).cmd /\ C(t).exited # NilChan

\* Only Shutdown, which does not release, ends with shutdownEnd.
StopsFit ==
  \A t \in Threads :
    pc[t] \in {"release", "cancelStop", "stampStop"} => loc[t].cont # "shutdownEnd"

ChannelInv == ChannelsMade /\ OnePurpose /\ ExitsFit /\ StopsFit

\* Where the barrier of the goroutine's episode is still to be closed.
Opening(t) ==
  \/ pc[t] \in {"start", "checkUnmanaged", "adopt", "watchUnmanaged", "takeOverStart",
                "prepare", "launchEnv", "launch", "spawn", "awaitReady", "awaitTask",
                "probeTask", "settle"}
  \/ pc[t] \in {"kill", "awaitExit", "startMonitor"} /\ loc[t].after = "settle"

-----------------------------------------------------------------------------
(* What a step does to the channels, for the guarantees below: which steps  *)
(* assign a channel to a struct, which ones close one, which notes are      *)
(* taken.                                                                  *)

\* The struct keeps its channels, its process and its flag.
SameLinks(o) ==
  /\ commands'[o].startDone = commands[o].startDone
  /\ commands'[o].exited = commands[o].exited
  /\ commands'[o].cmd = commands[o].cmd
  /\ commands'[o].quit = commands[o].quit
  /\ commands'[o].monitorDone = commands[o].monitorDone
  /\ commands'[o].unmanaged = commands[o].unmanaged

\* The steps that assign one of them.
WorkerLinks(w) == AcquireNew(w) \/ CheckUnmanaged(w) \/ WatchUnmanaged(w) \/ RestartLock(w)
ThreadLinks(t) == Launch(t) \/ SpawnProcess(t) \/ StartMonitor(t) \/ Relaunch(t)
LinkStep ==
  \/ \E w \in Workers : WorkerLinks(w)
  \/ \E m \in Monitors : TakeOver(m)
  \/ \E t \in Threads : ThreadLinks(t)

\* The steps that close a channel.
CloseStep ==
  \/ \E t \in Threads : Settle(t)
  \/ \E m \in Monitors : MonitorExit(m)
  \/ \E w \in Workers : Cancel(w) \/ CancelStop(w) \/ ShutdownStop(w)
  \/ \E p \in alive : ProcessExits(p) \/ ProcessCrashes(p)

\* No struct changes its channels, no channel is made and no struct.
LinksKept == (\A o \in Objs : SameLinks(o)) /\ UNCHANGED <<fresh, nobj>>

\* setCmdState changes no channel.
LEMMA StateLinks ==
  ASSUME HeapOK, NEW cs \in [Objs -> Command], NEW s \in CmdStates, NEW o \in Objs
  PROVE  /\ WithCmdState(cs, s)[o].startDone = cs[o].startDone
         /\ WithCmdState(cs, s)[o].exited = cs[o].exited
         /\ WithCmdState(cs, s)[o].cmd = cs[o].cmd
         /\ WithCmdState(cs, s)[o].quit = cs[o].quit
         /\ WithCmdState(cs, s)[o].monitorDone = cs[o].monitorDone
         /\ WithCmdState(cs, s)[o].unmanaged = cs[o].unmanaged
         /\ WithCmdState(cs, s)[o].retries = cs[o].retries
         /\ WithCmdState(cs, s)[o].userStopped = cs[o].userStopped
         /\ WithCmdState(cs, s)[o].holders = cs[o].holders
BY CurObj DEF WithCmdState, Command

\* A write that keeps the channels keeps them also when setCmdState follows.
LEMMA StateLinksKept ==
  ASSUME HeapOK, NEW cs \in [Objs -> Command], NEW s \in CmdStates, NEW o \in Objs,
         commands' = WithCmdState(cs, s),
         cs[o].startDone = commands[o].startDone, cs[o].exited = commands[o].exited,
         cs[o].cmd = commands[o].cmd, cs[o].quit = commands[o].quit,
         cs[o].monitorDone = commands[o].monitorDone, cs[o].unmanaged = commands[o].unmanaged
  PROVE  SameLinks(o)
BY StateLinks DEF SameLinks

\* A step that only calls setCmdState changes no channel.
LEMMA StateOnly ==
  ASSUME HeapOK, NEW s \in CmdStates, commands' = WithCmdState(commands, s)
  PROVE  \A o \in Objs : SameLinks(o)
BY StateLinksKept DEF HeapOK

\* The other steps of a worker assign no channel.
LEMMA WorkerKeepsLinks ==
  ASSUME Typed, ControlInv, NEW w \in Workers, WorkerStep(w), ~WorkerLinks(w)
  PROVE  LinksKept
<1> USE ThreadsAre
<1> DEFINE o == loc[w].obj
<1>1. CASE \/ MarkStarting(w) \/ ResetForRetry(w) \/ JoinWait(w) \/ EnvCheck(w)
           \/ EnvRead(w) \/ EnvCompare(w) \/ CancelWait(w) \/ StopBarrier(w) \/ StopWait(w)
           \/ EnvStopped(w) \/ FinishRun(w) \/ ShutdownEnd(w)
  BY <1>1 DEF LinksKept, SameLinks, heap, chans, MarkStarting, ResetForRetry, JoinWait,
     EnvCheck, EnvRead, EnvCompare, CancelWait, StopBarrier, StopWait, EnvStopped, FinishRun,
     ShutdownEnd
<1>2. CASE \/ AcquireJoin(w) \/ Cancel(w) \/ Release(w) \/ CancelStop(w) \/ StampStop(w)
           \/ ShutdownStop(w) \/ Unlock(w)
  BY <1>2 DEF LinksKept, SameLinks, chans, Typed, HeapOK, Command, AcquireJoin, Cancel, Release,
     CancelStop, StampStop, ShutdownStop, Unlock
<1>3. CASE \/ Adopt(w) \/ RestartBegin(w) \/ MarkRestarting(w) \/ MarkStopping(w)
  BY <1>3, StateOnly DEF LinksKept, chans, Typed, CmdStates, Adopt, RestartBegin,
     MarkRestarting, MarkStopping
<1>4. CASE Relaunched(w)
  <2>1. CASE commands' = WithCmdState(commands, "healthy")
    BY <1>4, <2>1, StateOnly DEF LinksKept, chans, Typed, CmdStates, Relaunched
  <2>2. CASE UNCHANGED commands
    BY <1>4, <2>2 DEF LinksKept, chans, SameLinks, Relaunched
  <2> QED BY <1>4, <2>1, <2>2 DEF Relaunched
<1>5. CASE Stop(w)
  BY <1>5 DEF LinksKept, SameLinks, chans, Typed, HeapOK, Command, Stop
<1>6. CASE StartCommand(w) \/ RestartInPlace(w) \/ Stopped(w)
  <2>0. o \in Objs /\ commands[o] \in Command /\ commands \in [Objs -> Command]
    BY <1>6, ObjOK, FieldsOK DEF Typed, HeapOK, StartCommand, RestartInPlace, Stopped, FreeLabels,
       RollupLabels
  <2> DEFINE Keeps(c) ==
        /\ c \in Command
        /\ c.startDone = commands[o].startDone /\ c.exited = commands[o].exited
        /\ c.cmd = commands[o].cmd /\ c.quit = commands[o].quit
        /\ c.monitorDone = commands[o].monitorDone /\ c.unmanaged = commands[o].unmanaged
  <2>1. PICK c \in Command, s \in CmdStates :
          commands' = WithCmdState([commands EXCEPT ![o] = c], s) /\ Keeps(c)
    <3>1. CASE StartCommand(w)
      <4>1. Keeps([commands[o] EXCEPT !.restartMu = w])
        BY Zenon, <2>0, SetLock DEF Command
      <4> QED BY <3>1, <4>1 DEF StartCommand, CmdStates
    <3>2. CASE RestartInPlace(w)
      <4>1. Keeps([commands[o] EXCEPT !.restartMu = w, !.retries = 0])
        BY <2>0, SetLockRetries DEF Command
      <4> QED BY <3>2, <4>1 DEF RestartInPlace, CmdStates
    <3>3. CASE Stopped(w)
      <4>1. Keeps([commands[o] EXCEPT !.stopping = FALSE])
        BY <2>0, SetStopped DEF Command
      <4> QED BY <3>3, <4>1 DEF Stopped, CmdStates
    <3> QED BY <1>6, <3>1, <3>2, <3>3
  <2> DEFINE cs == [commands EXCEPT ![o] = c]
  <2>11. cs \in [Objs -> Command] /\ cs[o] = c /\ \A q \in Objs \ {o} : cs[q] = commands[q]
    BY <2>0
  <2>2. \A q \in Objs : SameLinks(q)
    BY <2>1, <2>11, StateLinksKept DEF Typed
  <2> QED BY <1>6, <2>2 DEF LinksKept, chans, StartCommand, RestartInPlace, Stopped
<1> QED BY <1>1, <1>2, <1>3, <1>4, <1>5, <1>6 DEF WorkerStep, WorkerLinks

\* Nor do the other steps of a monitor.
LEMMA MonitorKeepsLinks ==
  ASSUME Typed, ControlInv, NEW m \in Monitors, MonitorStep(m), ~TakeOver(m)
  PROVE  LinksKept
<1> USE ThreadsAre
<1> DEFINE o == loc[m].obj
<1>1. CASE \/ UnmanagedBegin(m) \/ UnmanagedQuit(m) \/ MonitorBegin(m) \/ Snapshot(m)
           \/ SuperviseQuit(m) \/ SuperviseExit(m) \/ MonitorExit(m) \/ BackoffQuit(m)
           \/ BackoffElapses(m)
  BY <1>1 DEF LinksKept, SameLinks, heap, chans, UnmanagedBegin, UnmanagedQuit, MonitorBegin,
     Snapshot, SuperviseQuit, SuperviseExit, Unhealthy, MonitorExit, BackoffQuit, BackoffElapses
<1>2. CASE TakeOverStart(m) \/ GiveUp(m) \/ RetriesExhausted(m) \/ Retry(m)
  BY <1>2, StateOnly DEF LinksKept, chans, Typed, TakeOverStart, GiveUp, RetriesExhausted,
     Retry, CmdStates
<1>3. CASE AttemptRestart(m) \/ RetryResume(m) \/ RetryExit(m)
  BY <1>3 DEF LinksKept, SameLinks, chans, Typed, HeapOK, Command, AttemptRestart, RetryResume,
     RetryExit
<1>4. CASE Retried(m)
  <2>0. o \in Objs /\ commands[o] \in Command /\ commands \in [Objs -> Command]
    BY <1>4, ObjOK, FieldsOK DEF Typed, HeapOK, Retried, FreeLabels, RollupLabels
  <2>1. CASE loc[m].ok
    <3> DEFINE c == [commands[o] EXCEPT !.retries = 0]
               cs == [commands EXCEPT ![o] = c]
    <3>1. c \in Command
      BY <2>0, SetRetries
    <3>2. /\ c.startDone = commands[o].startDone /\ c.exited = commands[o].exited
          /\ c.cmd = commands[o].cmd /\ c.quit = commands[o].quit
          /\ c.monitorDone = commands[o].monitorDone /\ c.unmanaged = commands[o].unmanaged
      BY <2>0 DEF Command
    <3>3. commands' = WithCmdState(cs, "healthy")
      BY <1>4, <2>1 DEF Retried
    <3> HIDE DEF c
    <3>4. cs \in [Objs -> Command] /\ cs[o] = c /\ \A q \in Objs \ {o} : cs[q] = commands[q]
      BY <2>0, <3>1
    <3> HIDE DEF cs
    <3>5. \A q \in Objs : SameLinks(q)
      BY <3>2, <3>3, <3>4, StateLinksKept DEF Typed, CmdStates
    <3> QED BY <1>4, <3>5 DEF LinksKept, chans, Retried
  <2>2. CASE ~loc[m].ok
    BY <1>4, <2>0, <2>2 DEF LinksKept, SameLinks, chans, Command, Retried
  <2> QED BY <2>1, <2>2
<1> QED BY <1>1, <1>2, <1>3, <1>4 DEF MonitorStep

\* Nor those of the shared code.
LEMMA ThreadKeepsLinks ==
  ASSUME Typed, ControlInv, NEW t \in Threads, ThreadStep(t), ~ThreadLinks(t)
  PROVE  LinksKept
<1>1. CASE \/ Prepare(t) \/ LaunchEnv(t) \/ Kill(t) \/ AwaitExit(t) \/ Settle(t) \/ Rollup(t)
           \/ RollupRead(t) \/ RollupWrite(t)
  BY <1>1 DEF LinksKept, SameLinks, heap, chans, Prepare, LaunchEnv, Kill, AwaitExit, Settle,
     Rollup, RollupRead, RollupWrite
<1>2. CASE Started(t)
  BY <1>2 DEF LinksKept, SameLinks, chans, Typed, HeapOK, Command, Started
<1>3. CASE ServiceExitsEarly(t) \/ ServiceReady(t) \/ TaskExits(t) \/ TaskReady(t)
  <2>1. \A o \in Objs : SameLinks(o)
    <3>1. CASE UNCHANGED commands
      BY <3>1 DEF SameLinks
    <3>2. CASE \E s \in CmdStates : commands' = WithCmdState(commands, s)
      BY <3>2, StateOnly DEF Typed
    <3> QED BY <1>3, <3>1, <3>2
            DEF ServiceExitsEarly, ServiceReady, TaskExits, TaskReady, CmdStates
  <2> QED BY <1>3, <2>1 DEF LinksKept, chans, ServiceExitsEarly, ServiceReady, TaskExits, TaskReady
<1> QED BY <1>1, <1>2, <1>3 DEF ThreadStep, ThreadLinks

\* Requests, faults and exits assign none either.
LEMMA RequestKeepsLinks ==
  ASSUME Typed, NEW w \in Workers, Request(w) PROVE LinksKept
<1>0. UNCHANGED <<fresh, nobj>>
  BY DEF Request, StartEnvironment, StopEnvironment, RestartCommand, Shutdown, Begin
<1>1. \A o \in Objs : SameLinks(o)
  BY DEF SameLinks, Request, StartEnvironment, StopEnvironment, RestartCommand, Shutdown
<1> QED BY Zenon, <1>0, <1>1 DEF LinksKept

\* Nor do the steps of the world.
LEMMA FaultKeepsLinks ==
  ASSUME Typed, FaultStep PROVE LinksKept
<1>1. ASSUME NEW t \in Threads,
             PrepareFails(t) \/ SpawnFails(t) \/ ServiceTimesOut(t) \/ TaskTimesOut(t)
      PROVE  LinksKept
  BY <1>1, StateOnly DEF LinksKept, chans, Typed, CmdStates, PrepareFails, SpawnFails,
     ServiceTimesOut, TaskTimesOut
<1>2. ASSUME NEW m \in Monitors, SuperviseLiveness(m) \/ UnmanagedProbeFails(m)
      PROVE  LinksKept
  BY <1>2 DEF LinksKept, SameLinks, heap, chans, SuperviseLiveness, UnmanagedProbeFails, Unhealthy
<1>3. ASSUME NEW w \in Workers, ShutdownDeadline(w) PROVE LinksKept
  BY <1>3 DEF LinksKept, SameLinks, heap, chans, ShutdownDeadline
<1>4. ASSUME NEW p \in alive, ProcessCrashes(p) PROVE LinksKept
  BY <1>4 DEF LinksKept, SameLinks, heap, ProcessCrashes
<1> QED BY <1>1, <1>2, <1>3, <1>4 DEF FaultStep

\* Every step but those of LinkStep leaves all channels of all structs alone.
LEMMA OtherSteps ==
  ASSUME Typed, ControlInv, [Next]_vars, ~LinkStep PROVE LinksKept
<1>1. ASSUME NEW p \in alive, ProcessExits(p) PROVE LinksKept
  BY <1>1 DEF LinksKept, SameLinks, heap, ProcessExits
<1>2. CASE UNCHANGED vars
  BY <1>2 DEF LinksKept, SameLinks, vars
<1> QED BY <1>1, <1>2, WorkerKeepsLinks, MonitorKeepsLinks, ThreadKeepsLinks,
           RequestKeepsLinks, FaultKeepsLinks DEF Next, LinkStep

\* What a step does to the control of one goroutine: which notes it takes, and
\* how it comes to the labels that matter below.
Arrives(u) ==
  /\ \/ loc'[u].done \in {loc[u].done, NilChan}
     \/ loc[u].obj \in Objs /\ loc'[u].done = C(u).monitorDone
  /\ pc'[u] = "spawn" => Launch(u) \/ (pc[u] = "spawn" /\ loc'[u].obj = loc[u].obj)
  /\ pc'[u] \in {"release", "cancelStop", "stampStop"} => loc'[u].cont # "shutdownEnd"
  /\ Opening(u)' =>
       \/ Opening(u) /\ loc'[u].obj = loc[u].obj
       \/ AcquireNew(u) \/ Relaunch(u) \/ TakeOver(u)
  /\ pc'[u] = "start" => AcquireNew(u) \/ (pc[u] = "start" /\ loc'[u].obj = loc[u].obj)
  /\ pc'[u] = "restartInPlace" => ResetForRetry(u) \/ pc[u] = "restartInPlace"

\* A goroutine that does not move.
LEMMA StaysArrives ==
  ASSUME StopsFit, NEW u \in Threads, pc'[u] = pc[u], loc'[u] = loc[u]
  PROVE  Arrives(u)
BY DEF Arrives, StopsFit, Opening

\* The steps of a worker.
LEMMA WorkerArrives ==
  ASSUME Typed, ControlInv, StopsFit, NEW w \in Workers, WorkerStep(w), ~WatchUnmanaged(w)
  PROVE  Arrives(w)
<1> USE ThreadsAre
<1> USE DEF Typed, PcOK, LocOK, Locals, Goto, ControlInv, Flow, StopsFit, Arrives, Opening,
            ContLabels
<1>1. CASE MarkStarting(w) \/ ResetForRetry(w)
  BY <1>1 DEF MarkStarting, ResetForRetry
<1>2. CASE AcquireNew(w) \/ AcquireJoin(w)
  <2>1. pc'[w] \in {"start", "joinWait"}
    BY <1>2 DEF AcquireNew, AcquireJoin
  <2>2. CASE AcquireNew(w)
    <3>1. pc'[w] = "start" /\ loc'[w].done = loc[w].done
      BY <2>2 DEF AcquireNew
    <3> QED BY <2>2, <3>1
  <2>3. CASE AcquireJoin(w)
    BY <2>1, <2>3 DEF AcquireJoin
  <2> QED BY <1>2, <2>2, <2>3
<1>3. CASE JoinWait(w) \/ EnvCheck(w) \/ EnvRead(w) \/ EnvCompare(w)
  BY <1>3 DEF JoinWait, EnvCheck, EnvRead, EnvCompare, Continue, Blank
<1>4. CASE StartCommand(w) \/ CheckUnmanaged(w) \/ Adopt(w)
  BY <1>4 DEF StartCommand, CheckUnmanaged, Adopt
<1>5. CASE Cancel(w)
  BY ZenonT(30), <1>5, ObjOK DEF Cancel, FreeLabels, RollupLabels
<1>6. CASE CancelWait(w) \/ RestartLock(w) \/ RestartBegin(w) \/ RestartInPlace(w)
  BY <1>6 DEF CancelWait, RestartLock, RestartBegin, RestartInPlace
<1>7. CASE Relaunched(w)
  BY <1>7 DEF Relaunched
<1>8. CASE Unlock(w) \/ Release(w)
  BY <1>8 DEF Unlock, Release, Continue, Blank
<1>9. CASE \/ CancelStop(w) \/ StampStop(w) \/ ShutdownStop(w) \/ MarkRestarting(w)
           \/ MarkStopping(w) \/ StopBarrier(w) \/ StopWait(w)
  BY <1>9 DEF CancelStop, StampStop, ShutdownStop, MarkRestarting, MarkStopping, StopBarrier,
     StopWait
<1>10. CASE Stop(w) \/ Stopped(w) \/ EnvStopped(w) \/ ShutdownEnd(w)
  BY <1>10 DEF Stop, Stopped, EnvStopped, ShutdownEnd, Continue, Blank
<1>11. CASE FinishRun(w)
  BY <1>11 DEF FinishRun
<1> QED BY <1>1, <1>2, <1>3, <1>4, <1>5, <1>6, <1>7, <1>8, <1>9, <1>10, <1>11 DEF WorkerStep

\* The steps of a supervisor.
LEMMA MonitorArrives ==
  ASSUME Typed, ControlInv, StopsFit, NEW m \in Monitors, MonitorStep(m)
  PROVE  Arrives(m)
<1> USE ThreadsAre
<1> USE DEF Typed, PcOK, LocOK, Locals, Goto, StopsFit, Arrives, Opening
<1>1. CASE UnmanagedBegin(m) \/ UnmanagedQuit(m) \/ TakeOver(m) \/ TakeOverStart(m)
  BY <1>1 DEF UnmanagedBegin, UnmanagedQuit, TakeOver, TakeOverStart, Continue, Blank
<1>2. CASE MonitorBegin(m)
  BY <1>2, ObjOK DEF MonitorBegin, FreeLabels, RollupLabels
<1>3. CASE Snapshot(m) \/ SuperviseQuit(m) \/ SuperviseExit(m) \/ GiveUp(m) \/ MonitorExit(m)
  BY <1>3 DEF Snapshot, SuperviseQuit, SuperviseExit, Unhealthy, GiveUp, MonitorExit, Continue,
     Blank
<1>4. CASE AttemptRestart(m) \/ RetriesExhausted(m) \/ Retry(m) \/ BackoffQuit(m)
  BY <1>4 DEF AttemptRestart, RetriesExhausted, Retry, BackoffQuit
<1>5. CASE BackoffElapses(m) \/ RetryResume(m) \/ RetryExit(m)
  BY <1>5 DEF BackoffElapses, RetryResume, RetryExit
<1>6. CASE Retried(m)
  <2>1. \/ /\ pc' = [pc EXCEPT ![m] = "rollup"]
           /\ loc' = [loc EXCEPT ![m].todo = Envs, ![m].then = "retryResume"]
        \/ pc' = [pc EXCEPT ![m] = "retry"] /\ UNCHANGED loc
    BY <1>6 DEF Retried
  <2> QED BY <2>1
<1> QED BY <1>1, <1>2, <1>3, <1>4, <1>5, <1>6 DEF MonitorStep

\* The steps of the code both run.
LEMMA ThreadArrives ==
  ASSUME Typed, ControlInv, StopsFit, NEW t \in Threads, ThreadStep(t), ~StartMonitor(t)
  PROVE  Arrives(t)
<1> USE DEF Typed, PcOK, LocOK, Locals, Goto, StopsFit, Arrives, Opening, ControlInv, Flow
<1>1. CASE Prepare(t) \/ LaunchEnv(t) \/ Launch(t) \/ SpawnProcess(t) \/ Relaunch(t)
  BY <1>1 DEF Prepare, LaunchEnv, Launch, SpawnProcess, Relaunch
<1>2. CASE ServiceExitsEarly(t) \/ ServiceReady(t)
  BY <1>2 DEF ServiceExitsEarly, ServiceReady
<1>3. CASE TaskExits(t) \/ TaskReady(t)
  BY <1>3 DEF TaskExits, TaskReady
<1>4. CASE Kill(t) \/ AwaitExit(t)
  BY <1>4 DEF Kill, AwaitExit, AfterLabels
<1>5. CASE Settle(t) \/ Started(t)
  BY <1>5 DEF Settle, Started, Continue, Blank, RetLabels
<1>6. CASE Rollup(t)
  <2>1. CASE loc[t].todo = {}
    BY <1>6, <2>1 DEF Rollup, Continue, Blank, ThenLabels
  <2>2. CASE loc[t].todo # {}
    <3>1. PICK e \in loc[t].todo :
            /\ loc' = [loc EXCEPT ![t].todo = @ \ {e}, ![t].roll = {e}]
            /\ \/ pc' = [pc EXCEPT ![t] = "rollup"]
               \/ pc' = [pc EXCEPT ![t] = "rollupRead"]
      BY <1>6, <2>2 DEF Rollup
    <3> QED BY <3>1
  <2> QED BY <2>1, <2>2
<1>7. CASE RollupRead(t) \/ RollupWrite(t)
  BY <1>7 DEF RollupRead, RollupWrite
<1> QED BY <1>1, <1>2, <1>3, <1>4, <1>5, <1>6, <1>7 DEF ThreadStep

\* A new request.
LEMMA RequestArrives ==
  ASSUME Typed, StopsFit, NEW w \in Workers, Request(w) PROVE Arrives(w)
<1> USE ThreadsAre
<1> USE DEF Typed, PcOK, LocOK, Locals, Goto, StopsFit, Arrives, Opening, Blank, Begin
<1>1. ASSUME NEW e \in Envs, StartEnvironment(w, e) PROVE Arrives(w)
  BY <1>1 DEF StartEnvironment
<1>2. ASSUME NEW e \in Envs, StopEnvironment(w, e) PROVE Arrives(w)
  BY <1>2 DEF StopEnvironment
<1>3. CASE RestartCommand(w)
  BY <1>3 DEF RestartCommand
<1>4. CASE Shutdown(w)
  BY <1>4 DEF Shutdown
<1> QED BY <1>1, <1>2, <1>3, <1>4 DEF Request

\* The steps of the world.
LEMMA FaultArrives ==
  ASSUME Typed, StopsFit, FaultStep PROVE \A u \in Threads : Arrives(u)
<1> USE ThreadsAre
<1>1. ASSUME NEW t \in Threads,
             PrepareFails(t) \/ SpawnFails(t) \/ ServiceTimesOut(t) \/ TaskTimesOut(t)
      PROVE  OnlyMoves(t) /\ Arrives(t)
  BY <1>1 DEF PrepareFails, SpawnFails, ServiceTimesOut, TaskTimesOut, Goto, OnlyMoves,
     Typed, PcOK, LocOK, Locals, Arrives, Opening
<1>2. ASSUME NEW m \in Monitors, SuperviseLiveness(m) \/ UnmanagedProbeFails(m)
      PROVE  OnlyMoves(m) /\ Arrives(m)
  BY <1>2 DEF SuperviseLiveness, UnmanagedProbeFails, Unhealthy, Goto, OnlyMoves, Typed, PcOK,
     LocOK, Locals, Arrives, Opening
<1>3. ASSUME NEW w \in Workers, ShutdownDeadline(w) PROVE UNCHANGED <<pc, loc>>
  BY <1>3 DEF ShutdownDeadline
<1>4. ASSUME NEW p \in alive, ProcessCrashes(p) PROVE UNCHANGED <<pc, loc>>
  BY <1>4 DEF ProcessCrashes
<1>5. ASSUME NEW t \in Threads, OnlyMoves(t), Arrives(t) PROVE \A u \in Threads : Arrives(u)
  BY <1>5, StaysArrives DEF OnlyMoves
<1>6. CASE UNCHANGED <<pc, loc>>
  BY <1>6, StaysArrives
<1> QED BY <1>1, <1>2, <1>3, <1>4, <1>5, <1>6 DEF FaultStep

\* The two go statements.
LEMMA SpawnArrives ==
  ASSUME Typed, ControlInv, StopsFit, NEW t \in Threads, WatchUnmanaged(t) \/ StartMonitor(t)
  PROVE  \A u \in Threads : Arrives(u)
<1>1. PICK m \in Monitors, l \in {"unmanagedBegin", "monitorBegin"}, h \in {"settle", "rollup"} :
        /\ pc[m] = "idle" /\ pc' = [pc EXCEPT ![t] = h, ![m] = l]
        /\ loc' = [loc EXCEPT ![m] = [Blank EXCEPT !.obj = loc[t].obj]]
        /\ h = "settle" => WatchUnmanaged(t) \/ loc[t].after = "settle"
  BY DEF WatchUnmanaged, StartMonitor, Spawn, ControlInv, Flow
<1>2. pc[t] \in {"watchUnmanaged", "startMonitor"} /\ m \in Threads /\ m # t
  BY <1>1, ThreadsAre DEF WatchUnmanaged, StartMonitor
<1>3. \A u \in Threads \ {t, m} : Arrives(u)
  BY <1>1, <1>2, StaysArrives DEF Typed, PcOK, LocOK
<1>4. Arrives(m)
  BY <1>1, <1>2 DEF Arrives, Opening, Typed, PcOK, LocOK, Blank
<1>5. Arrives(t)
  <2>1. pc'[t] = h /\ loc'[t] = loc[t]
    BY <1>1, <1>2 DEF Typed, PcOK, LocOK
  <2> QED BY <1>1, <1>2, <2>1 DEF Arrives, Opening, WatchUnmanaged, StartMonitor
<1> QED BY <1>3, <1>4, <1>5

\* What every step does to every goroutine.
LEMMA NextArrives ==
  ASSUME Typed, ControlInv, StopsFit, [Next]_vars PROVE \A u \in Threads : Arrives(u)
<1> USE ThreadsAre
<1>1. ASSUME NEW t \in Threads, OnlyMoves(t), Arrives(t) PROVE \A u \in Threads : Arrives(u)
  BY Zenon, <1>1, StaysArrives DEF OnlyMoves
<1>2. ASSUME NEW w \in Workers, Request(w) PROVE OnlyMoves(w)
  BY <1>2 DEF Request, StartEnvironment, StopEnvironment, RestartCommand, Shutdown, Goto,
     OnlyMoves, Typed, PcOK, LocOK
<1>3. ASSUME NEW p \in alive, ProcessExits(p) PROVE UNCHANGED <<pc, loc>>
  BY <1>3 DEF ProcessExits
<1>4. CASE UNCHANGED <<pc, loc>>
  BY <1>4, StaysArrives
<1>5. ASSUME NEW w \in Workers, Request(w) PROVE \A u \in Threads : Arrives(u)
  BY <1>1, <1>2, <1>5, RequestArrives
<1>6. ASSUME NEW w \in Workers, WorkerStep(w) PROVE \A u \in Threads : Arrives(u)
  BY <1>1, <1>6, WorkerMoves, WorkerArrives, SpawnArrives
<1>7. ASSUME NEW m \in Monitors, MonitorStep(m) PROVE \A u \in Threads : Arrives(u)
  BY <1>1, <1>7, MonitorMoves, MonitorArrives
<1>8. ASSUME NEW t \in Threads, ThreadStep(t) PROVE \A u \in Threads : Arrives(u)
  BY <1>1, <1>8, ThreadMoves, ThreadArrives, SpawnArrives
<1>9. CASE UNCHANGED vars
  BY <1>4, <1>9 DEF vars
<1> QED BY <1>3, <1>4, <1>5, <1>6, <1>7, <1>8, <1>9, FaultArrives DEF Next

\* The closed channels and the processes, a step at a time.
LEMMA Undisturbed ==
  ASSUME [Next]_vars, ~LinkStep, ~CloseStep PROVE closed' = closed /\ alive' = alive
<1>1. ASSUME NEW w \in Workers, Request(w) PROVE closed' = closed /\ alive' = alive
  BY <1>1 DEF Request, StartEnvironment, StopEnvironment, RestartCommand, Shutdown, Begin
<1>2. ASSUME NEW w \in Workers, WorkerStep(w) PROVE closed' = closed /\ alive' = alive
  <2>1. CASE \/ MarkStarting(w) \/ ResetForRetry(w) \/ AcquireJoin(w) \/ JoinWait(w)
             \/ EnvCheck(w) \/ EnvRead(w) \/ EnvCompare(w) \/ StartCommand(w) \/ Adopt(w)
    BY <2>1 DEF procs, chans, MarkStarting, ResetForRetry, AcquireJoin, JoinWait, EnvCheck,
       EnvRead, EnvCompare, StartCommand, Adopt
  <2>2. CASE RestartInPlace(w) \/ CancelWait(w)
    BY <2>2 DEF procs, chans, RestartInPlace, CancelWait
  <2>3. CASE RestartBegin(w) \/ Relaunched(w) \/ Unlock(w) \/ Release(w)
    BY <2>3 DEF procs, chans, RestartBegin, Relaunched, Unlock, Release
  <2>4. CASE \/ MarkRestarting(w) \/ StampStop(w) \/ MarkStopping(w) \/ StopBarrier(w)
             \/ StopWait(w) \/ Stop(w) \/ Stopped(w)
    BY <2>4 DEF procs, chans, MarkRestarting, StampStop, MarkStopping, StopBarrier, StopWait,
       Stop, Stopped
  <2>5. CASE EnvStopped(w) \/ ShutdownEnd(w) \/ FinishRun(w)
    BY <2>5 DEF procs, chans, EnvStopped, ShutdownEnd, FinishRun
  <2> QED BY <1>2, <2>1, <2>2, <2>3, <2>4, <2>5 DEF WorkerStep, LinkStep, WorkerLinks, CloseStep
<1>3. ASSUME NEW m \in Monitors, MonitorStep(m) PROVE closed' = closed /\ alive' = alive
  <2>1. CASE \/ UnmanagedBegin(m) \/ UnmanagedQuit(m) \/ TakeOverStart(m) \/ MonitorBegin(m)
             \/ Snapshot(m) \/ SuperviseQuit(m) \/ SuperviseExit(m) \/ GiveUp(m)
    BY <2>1 DEF procs, chans, UnmanagedBegin, UnmanagedQuit, TakeOverStart, MonitorBegin,
       Snapshot, SuperviseQuit, SuperviseExit, Unhealthy, GiveUp
  <2>2. CASE \/ AttemptRestart(m) \/ RetriesExhausted(m) \/ Retry(m) \/ BackoffQuit(m)
             \/ BackoffElapses(m) \/ RetryResume(m) \/ RetryExit(m)
    BY <2>2 DEF procs, chans, AttemptRestart, RetriesExhausted, Retry, BackoffQuit,
       BackoffElapses, RetryResume, RetryExit
  <2>3. CASE Retried(m)
    BY <2>3 DEF procs, chans, Retried
  <2> QED BY <1>3, <2>1, <2>2, <2>3 DEF MonitorStep, LinkStep, CloseStep
<1>4. ASSUME NEW t \in Threads, ThreadStep(t) PROVE closed' = closed /\ alive' = alive
  <2>1. CASE \/ Prepare(t) \/ LaunchEnv(t) \/ ServiceExitsEarly(t) \/ ServiceReady(t)
             \/ TaskExits(t) \/ TaskReady(t)
    BY <2>1 DEF procs, chans, Prepare, LaunchEnv, ServiceExitsEarly, ServiceReady, TaskExits,
       TaskReady
  <2>2. CASE \/ Kill(t) \/ AwaitExit(t) \/ Started(t) \/ Rollup(t) \/ RollupRead(t)
             \/ RollupWrite(t)
    BY <2>2 DEF procs, chans, Kill, AwaitExit, Started, Rollup, RollupRead, RollupWrite
  <2> QED BY <1>4, <2>1, <2>2 DEF ThreadStep, LinkStep, ThreadLinks, CloseStep
<1>5. CASE FaultStep
  BY <1>5 DEF FaultStep, procs, chans, PrepareFails, SpawnFails, ServiceTimesOut, TaskTimesOut,
     SuperviseLiveness, UnmanagedProbeFails, Unhealthy, ShutdownDeadline, CloseStep
<1>6. CASE UNCHANGED vars
  BY <1>6 DEF vars
<1> QED BY Zenon, <1>1, <1>2, <1>3, <1>4, <1>5, <1>6 DEF Next, CloseStep

\* A channel field keeps its channel, becomes nil, or takes one that was just
\* made for that purpose.
Taken(x, y, new, k, k1, k2) ==
  \/ x = y \/ x = NilChan
  \/ new /\ x = fresh + 1 /\ fresh' >= fresh + 1 /\ k1 = k
  \/ new /\ x = fresh + 2 /\ fresh' >= fresh + 2 /\ k2 = k

TakenBy(q, o, k1, k2) ==
  /\ Taken(commands'[q].startDone, commands[q].startDone, q = o, "barrier", k1, k2)
  /\ Taken(commands'[q].exited, commands[q].exited, q = o, "exit", k1, k2)
  /\ Taken(commands'[q].quit, commands[q].quit, q = o, "quit", k1, k2)
  /\ Taken(commands'[q].monitorDone, commands[q].monitorDone, q = o, "done", k1, k2)
  /\ commands'[q].cmd \in {commands[q].cmd, commands[q].exited, NilChan}

\* Where the new notes and the new processes come from.
NotesTaken ==
  \A t \in Threads : \/ loc'[t].done \in {loc[t].done, NilChan}
                     \/ \E q \in Objs : loc'[t].done = commands[q].monitorDone
NewProcess ==
  \A p \in alive' : p \in alive \/ (p # NilChan /\ \E q \in Objs : p = commands[q].exited)

\* The channels that exist are those below fresh.
LEMMA MadeAre ==
  ASSUME ChannelsMade, fresh \in Nat
  PROVE  /\ closed \subseteq 0 .. fresh /\ alive \subseteq 0 .. fresh /\ NilChan \notin alive
         /\ \A o \in Objs :
              /\ commands[o].startDone \in 0 .. fresh /\ commands[o].exited \in 0 .. fresh
              /\ commands[o].cmd \in 0 .. fresh /\ commands[o].quit \in 0 .. fresh
              /\ commands[o].monitorDone \in 0 .. fresh
         /\ \A t \in Threads : loc[t].done \in 0 .. fresh
<1>1. alive \subseteq 1 .. fresh
  BY DEF ChannelsMade
<1>2. alive \subseteq 0 .. fresh /\ NilChan \notin alive
  BY <1>1 DEF NilChan
<1> QED BY <1>2 DEF ChannelsMade

\* The purposes of the channels grow with the channels.
LEMMA PurposeGrown ==
  ASSUME ChannelsMade, OnePurpose, fresh \in Nat, fresh' \in {fresh, fresh + 1, fresh + 2},
         NEW k1 \in Kinds, NEW k2 \in Kinds, NEW o, fresh' # fresh => o \in Objs,
         \A q \in Objs : TakenBy(q, o, k1, k2), NotesTaken, NewProcess
  PROVE  OnePurpose'
<1>1. PICK kind \in [1 .. fresh -> Kinds], owner \in [1 .. fresh -> Objs] : Fits(kind, owner)
  BY DEF OnePurpose
<1>2. PICK K \in [1 .. fresh' -> Kinds], W \in [1 .. fresh' -> Objs] :
        /\ \A c \in 0 .. fresh : c # NilChan => K[c] = kind[c] /\ W[c] = owner[c]
        /\ fresh' >= fresh + 1 => K[fresh + 1] = k1 /\ W[fresh + 1] = o
        /\ fresh' >= fresh + 2 => K[fresh + 2] = k2 /\ W[fresh + 2] = o
  <2> DEFINE KK == [c \in 1 .. fresh' |-> IF c \in 1 .. fresh THEN kind[c]
                                          ELSE IF c = fresh + 1 THEN k1 ELSE k2]
             WW == [c \in 1 .. fresh' |-> IF c \in 1 .. fresh THEN owner[c] ELSE o]
  <2>1. KK \in [1 .. fresh' -> Kinds] /\ WW \in [1 .. fresh' -> Objs]
    OBVIOUS
  <2>2. /\ \A c \in 0 .. fresh : c # NilChan => KK[c] = kind[c] /\ WW[c] = owner[c]
        /\ fresh' >= fresh + 1 => KK[fresh + 1] = k1 /\ WW[fresh + 1] = o
        /\ fresh' >= fresh + 2 => KK[fresh + 2] = k2 /\ WW[fresh + 2] = o
    BY DEF NilChan
  <2> QED BY <2>1, <2>2
<1>4. ASSUME NEW q \in Objs
      PROVE  /\ commands'[q].startDone # NilChan =>
                  K[commands'[q].startDone] = "barrier" /\ W[commands'[q].startDone] = q
             /\ commands'[q].exited # NilChan =>
                  K[commands'[q].exited] = "exit" /\ W[commands'[q].exited] = q
             /\ commands'[q].cmd # NilChan =>
                  K[commands'[q].cmd] = "exit" /\ W[commands'[q].cmd] = q
             /\ commands'[q].quit # NilChan =>
                  K[commands'[q].quit] = "quit" /\ W[commands'[q].quit] = q
             /\ commands'[q].monitorDone # NilChan =>
                  K[commands'[q].monitorDone] = "done" /\ W[commands'[q].monitorDone] = q
  <2>1. TakenBy(q, o, k1, k2)
    OBVIOUS
  <2>2. ASSUME NEW x, NEW y \in 0 .. fresh, NEW k, Taken(x, y, q = o, k, k1, k2), x # NilChan,
               y # NilChan => kind[y] = k /\ owner[y] = q
        PROVE  K[x] = k /\ W[x] = q
    BY <1>2, <2>2 DEF Taken
  <2>3. \A y \in 0 .. fresh : y # NilChan => K[y] = kind[y] /\ W[y] = owner[y]
    BY <1>2
  <2>4. /\ commands[q].startDone \in 0 .. fresh /\ commands[q].exited \in 0 .. fresh
        /\ commands[q].cmd \in 0 .. fresh /\ commands[q].quit \in 0 .. fresh
        /\ commands[q].monitorDone \in 0 .. fresh
    BY MadeAre
  <2>5. /\ commands[q].startDone # NilChan =>
             kind[commands[q].startDone] = "barrier" /\ owner[commands[q].startDone] = q
        /\ commands[q].exited # NilChan =>
             kind[commands[q].exited] = "exit" /\ owner[commands[q].exited] = q
        /\ commands[q].cmd # NilChan =>
             kind[commands[q].cmd] = "exit" /\ owner[commands[q].cmd] = q
        /\ commands[q].quit # NilChan =>
             kind[commands[q].quit] = "quit" /\ owner[commands[q].quit] = q
        /\ commands[q].monitorDone # NilChan =>
             kind[commands[q].monitorDone] = "done" /\ owner[commands[q].monitorDone] = q
    BY <1>1 DEF Fits
  <2>6. /\ Taken(commands'[q].startDone, commands[q].startDone, q = o, "barrier", k1, k2)
        /\ Taken(commands'[q].exited, commands[q].exited, q = o, "exit", k1, k2)
        /\ Taken(commands'[q].quit, commands[q].quit, q = o, "quit", k1, k2)
        /\ Taken(commands'[q].monitorDone, commands[q].monitorDone, q = o, "done", k1, k2)
        /\ commands'[q].cmd \in {commands[q].cmd, commands[q].exited, NilChan}
    BY <2>1 DEF TakenBy
  <2>7. commands'[q].startDone # NilChan =>
          K[commands'[q].startDone] = "barrier" /\ W[commands'[q].startDone] = q
    BY <2>2, <2>4, <2>5, <2>6
  <2>8. commands'[q].exited # NilChan =>
          K[commands'[q].exited] = "exit" /\ W[commands'[q].exited] = q
    BY <2>2, <2>4, <2>5, <2>6
  <2>9. commands'[q].quit # NilChan =>
          K[commands'[q].quit] = "quit" /\ W[commands'[q].quit] = q
    BY <2>2, <2>4, <2>5, <2>6
  <2>10. commands'[q].monitorDone # NilChan =>
          K[commands'[q].monitorDone] = "done" /\ W[commands'[q].monitorDone] = q
    BY <2>2, <2>4, <2>5, <2>6
  <2>11. commands'[q].cmd # NilChan =>
           K[commands'[q].cmd] = "exit" /\ W[commands'[q].cmd] = q
    BY <2>3, <2>4, <2>5, <2>6
  <2> QED BY <2>7, <2>8, <2>9, <2>10, <2>11
<1>5. \A t \in Threads : loc'[t].done # NilChan => K[loc'[t].done] = "done"
  <2>1. ASSUME NEW t \in Threads, loc[t].done # NilChan PROVE K[loc[t].done] = "done"
    BY <1>1, <1>2, <2>1, MadeAre DEF Fits
  <2>2. ASSUME NEW q \in Objs, commands[q].monitorDone # NilChan
        PROVE  K[commands[q].monitorDone] = "done"
    BY <1>1, <1>2, <2>2, MadeAre DEF Fits
  <2> QED BY <2>1, <2>2 DEF NotesTaken
<1>6. \A p \in alive' : K[p] = "exit"
  <2>1. ASSUME NEW p \in alive PROVE K[p] = "exit"
    <3>1. p \in 0 .. fresh /\ p # NilChan
      BY <2>1, MadeAre
    <3> QED BY <1>1, <1>2, <3>1 DEF Fits
  <2>2. ASSUME NEW q \in Objs, commands[q].exited # NilChan PROVE K[commands[q].exited] = "exit"
    BY <1>1, <1>2, <2>2 DEF Fits, ChannelsMade
  <2> QED BY <2>1, <2>2 DEF NewProcess
<1>7. Fits(K, W)'
  BY <1>4, <1>5, <1>6 DEF Fits
<1> QED BY <1>7 DEF OnePurpose

\* The channels stay below those that have been made.
LEMMA ChannelsGrown ==
  ASSUME ChannelsMade, fresh \in Nat, fresh' \in {fresh, fresh + 1, fresh + 2},
         NEW k1, NEW k2, NEW o,
         \A q \in Objs : TakenBy(q, o, k1, k2), NotesTaken, NewProcess,
         closed' \subseteq 0 .. fresh,
         \A q \in 1 .. nobj' : commands'[q].startDone # NilChan /\ commands'[q].exited # NilChan
  PROVE  ChannelsMade'
<1>0. NilChan = 0
  BY DEF NilChan
<1>1. ASSUME NEW q \in Objs
      PROVE  /\ commands'[q].startDone \in 0 .. fresh' /\ commands'[q].exited \in 0 .. fresh'
             /\ commands'[q].cmd \in 0 .. fresh' /\ commands'[q].quit \in 0 .. fresh'
             /\ commands'[q].monitorDone \in 0 .. fresh'
  <2>1. TakenBy(q, o, k1, k2)
    OBVIOUS
  <2> QED BY <1>0, <2>1 DEF TakenBy, Taken, ChannelsMade
<1>2. \A t \in Threads : loc'[t].done \in 0 .. fresh'
  BY <1>0 DEF NotesTaken, ChannelsMade
<1>3. closed' \subseteq 0 .. fresh'
  OBVIOUS
<1>4. ASSUME NEW p \in alive' PROVE p \in 1 .. fresh'
  <2>1. p \in 0 .. fresh /\ p # 0
    <3>1. CASE p \in alive
      BY <1>0, <3>1, MadeAre
    <3>2. CASE p # NilChan /\ \E q \in Objs : p = commands[q].exited
      BY <1>0, <3>2 DEF ChannelsMade
    <3> QED BY <3>1, <3>2 DEF NewProcess
  <2> QED BY <2>1
<1> QED BY <1>1, <1>2, <1>3, <1>4 DEF ChannelsMade

\* The channels a step makes go where they were made for.
Links(o, k1, k2) ==
  /\ fresh' \in {fresh, fresh + 1, fresh + 2}
  /\ fresh' # fresh => o \in Objs
  /\ \A q \in Objs : TakenBy(q, o, k1, k2)
  /\ \A q \in 1 .. nobj' : commands'[q].startDone # NilChan /\ commands'[q].exited # NilChan
  /\ NewProcess

\* A struct that is not written keeps its channels, and none is made for it.
LEMMA NotTaken ==
  ASSUME NEW q, NEW o, NEW k1, NEW k2, commands'[q].startDone = commands[q].startDone,
         commands'[q].exited = commands[q].exited, commands'[q].cmd = commands[q].cmd,
         commands'[q].quit = commands[q].quit,
         commands'[q].monitorDone = commands[q].monitorDone
  PROVE  TakenBy(q, o, k1, k2)
BY DEF TakenBy, Taken

\* A step that assigns channels to one struct.
LEMMA LinksSet ==
  ASSUME Typed, ChannelsMade, NEW o \in Objs, NEW k1, NEW k2,
         \A q \in Objs \ {o} : commands'[q] = commands[q], nobj' = nobj,
         fresh' \in {fresh, fresh + 1, fresh + 2}, TakenBy(o, o, k1, k2),
         commands'[o].startDone # NilChan, commands'[o].exited # NilChan, NewProcess
  PROVE  Links(o, k1, k2)
<1>1. \A q \in Objs : TakenBy(q, o, k1, k2)
  BY NotTaken
<1>2. 1 .. nobj \subseteq Objs
  BY ConstantsOK DEF Typed, HeapOK, Objs, ConstantsOK
<1>3. \A q \in 1 .. nobj' : commands'[q].startDone # NilChan /\ commands'[q].exited # NilChan
  BY <1>2 DEF ChannelsMade
<1> QED BY <1>1, <1>3 DEF Links

\* The struct a goroutine in an episode points to has its two channels.
LEMMA ObjMade ==
  ASSUME Typed, ControlInv, ChannelsMade, NEW t \in Threads,
         pc[t] \notin FreeLabels, pc[t] \notin RollupLabels
  PROVE  /\ loc[t].obj \in Objs /\ loc[t].obj \in 1 .. nobj
         /\ C(t).startDone # NilChan /\ C(t).exited # NilChan
<1>1. nobj \in Nat /\ loc[t].obj \in 0 .. nobj /\ loc[t].obj # 0
  BY ConstantsOK DEF Typed, HeapOK, ConstantsOK, ControlInv, Flow, NoObj
<1>2. loc[t].obj \in 1 .. nobj
  BY <1>1
<1> QED BY <1>2, ObjOK DEF ChannelsMade, C, Typed

\* The steps that assign channels: what they assign was made for that, no channel
\* is closed, and a process starts only over the exited channel it is named by.
LEMMA LinkEffect ==
  ASSUME Typed, ControlInv, ChannelsMade, ExitsFit, LinkStep
  PROVE  closed' = closed /\ \E k1 \in Kinds, k2 \in Kinds, o \in Objs : Links(o, k1, k2)
<1> USE ThreadsAre
<1>0. ASSUME alive' = alive PROVE NewProcess
  BY <1>0 DEF NewProcess
<1>1. ASSUME NEW w \in Workers, AcquireNew(w)
      PROVE  closed' = closed /\ Links(nobj + 1, "barrier", "exit")
  <2> DEFINE o == nobj + 1
  <2>1. o \in Objs /\ nobj \in Nat /\ fresh \in Nat /\ nobj' = o /\ fresh' = fresh + 2
    BY <1>1, ConstantsOK DEF Typed, HeapOK, WorldOK, AcquireNew, Objs, ConstantsOK
  <2>2. /\ commands'[o] = [NewCommand(fresh + 1, fresh + 2) EXCEPT !.holders = loc[w].env]
        /\ \A q \in Objs \ {o} : commands'[q] = commands[q]
    BY <1>1, <2>1 DEF AcquireNew, Typed, HeapOK
  <2>3. /\ commands'[o].startDone = fresh + 1 /\ commands'[o].exited = fresh + 2
        /\ commands'[o].cmd = NilChan /\ commands'[o].quit = NilChan
        /\ commands'[o].monitorDone = NilChan
    BY <2>2 DEF NewCommand
  <2>4. TakenBy(o, o, "barrier", "exit")
    BY <2>1, <2>3 DEF TakenBy, Taken
  <2>5. \A q \in Objs : TakenBy(q, o, "barrier", "exit")
    BY <2>2, <2>4, NotTaken
  <2>6. \A q \in 1 .. nobj' : commands'[q].startDone # NilChan /\ commands'[q].exited # NilChan
    <3>1. ASSUME NEW q \in 1 .. nobj' PROVE q = o \/ q \in (1 .. nobj) \cap (Objs \ {o})
      BY <2>1, ConstantsOK DEF Objs, ConstantsOK
    <3>2. \A q \in 1 .. nobj : commands[q].startDone # NilChan /\ commands[q].exited # NilChan
      BY DEF ChannelsMade
    <3>3. fresh + 1 # NilChan /\ fresh + 2 # NilChan
      BY <2>1 DEF NilChan
    <3> QED BY <2>2, <2>3, <3>1, <3>2, <3>3
  <2>7. closed' = closed /\ alive' = alive
    BY Zenon, <1>1 DEF AcquireNew, procs
  <2> QED BY <1>0, <2>1, <2>5, <2>6, <2>7 DEF Links
<1>2. ASSUME NEW t \in Threads,
             \/ CheckUnmanaged(t) \/ WatchUnmanaged(t) \/ RestartLock(t) \/ TakeOver(t)
             \/ ThreadLinks(t)
      PROVE  /\ loc[t].obj \in Objs /\ loc[t].obj \in 1 .. nobj /\ fresh \in Nat
             /\ C(t).startDone # NilChan /\ C(t).exited # NilChan
  BY <1>2, ObjMade DEF FreeLabels, RollupLabels, CheckUnmanaged, WatchUnmanaged, RestartLock,
     TakeOver, ThreadLinks, Launch, SpawnProcess, StartMonitor, Relaunch, Typed, WorldOK
<1>3. ASSUME NEW w \in Workers, CheckUnmanaged(w) \/ RestartLock(w)
      PROVE  closed' = closed /\ Links(loc[w].obj, "quit", "done")
  <2> DEFINE o == loc[w].obj
  <2>1. \A q \in Objs \ {o} : commands'[q] = commands[q]
    BY <1>2, <1>3 DEF CheckUnmanaged, RestartLock, Typed, HeapOK
  <2>2. /\ commands'[o].startDone = commands[o].startDone
        /\ commands'[o].exited = commands[o].exited /\ commands'[o].cmd = commands[o].cmd
        /\ commands'[o].quit \in {commands[o].quit, NilChan}
        /\ commands'[o].monitorDone = commands[o].monitorDone
    <3>1. CASE CheckUnmanaged(w)
      BY <1>2, <3>1 DEF CheckUnmanaged, Typed, HeapOK, Command
    <3>2. CASE RestartLock(w)
      <4> DEFINE c == [commands[o] EXCEPT !.restartMu = w, !.userStopped = FALSE,
                                          !.quit = NilChan, !.retries = 0]
      <4>1. /\ c.startDone = commands[o].startDone /\ c.exited = commands[o].exited
            /\ c.cmd = commands[o].cmd /\ c.quit = NilChan
            /\ c.monitorDone = commands[o].monitorDone
        BY <1>2, <3>2, FieldsOK DEF Typed, Command, WorkerLinks
      <4>2. commands' = [commands EXCEPT ![o] = c]
        BY <3>2 DEF RestartLock
      <4> HIDE DEF c
      <4>3. commands'[o] = c
        BY <1>2, <3>2, <4>2 DEF Typed, HeapOK
      <4> QED BY <4>1, <4>3
    <3> QED BY <1>3, <3>1, <3>2
  <2>3. UNCHANGED <<fresh, nobj, closed, alive>>
    BY <1>3 DEF CheckUnmanaged, RestartLock, chans, procs
  <2>4. TakenBy(o, o, "quit", "done")
    BY <2>2 DEF TakenBy, Taken
  <2> QED BY Zenon, <1>0, <1>2, <1>3, <2>1, <2>2, <2>3, <2>4, LinksSet DEF C
<1>4. ASSUME NEW w \in Workers, WatchUnmanaged(w)
      PROVE  closed' = closed /\ Links(loc[w].obj, "quit", "done")
  <2> DEFINE o == loc[w].obj
  <2>1. \A q \in Objs \ {o} : commands'[q] = commands[q]
    BY <1>2, <1>4 DEF WatchUnmanaged, Typed, HeapOK
  <2>2. /\ commands'[o].startDone = commands[o].startDone
        /\ commands'[o].exited = commands[o].exited /\ commands'[o].cmd = commands[o].cmd
        /\ commands'[o].monitorDone = commands[o].monitorDone
    BY <1>2, <1>4 DEF WatchUnmanaged, Typed, HeapOK, Command
  <2>3. \/ commands'[o].quit = commands[o].quit /\ fresh' = fresh
        \/ commands'[o].quit = fresh + 1 /\ fresh' = fresh + 1
    BY <1>2, <1>4 DEF WatchUnmanaged, Typed, HeapOK, Command
  <2>4. UNCHANGED <<nobj, closed, alive>>
    BY <1>4 DEF WatchUnmanaged, procs
  <2>5. TakenBy(o, o, "quit", "done")
    BY <1>2, <1>4, <2>2, <2>3 DEF TakenBy, Taken
  <2> QED BY <1>0, <1>2, <1>4, <2>1, <2>2, <2>3, <2>4, <2>5, LinksSet DEF C
<1>5. ASSUME NEW t \in Threads, TakeOver(t) \/ Relaunch(t)
      PROVE  closed' = closed /\ Links(loc[t].obj, "barrier", "done")
  <2> DEFINE o == loc[t].obj
  <2>0. /\ loc[t].obj \in Objs /\ fresh \in Nat
        /\ C(t).startDone # NilChan /\ C(t).exited # NilChan
    BY <1>2, <1>5 DEF ThreadLinks
  <2>1. \A q \in Objs \ {o} : commands'[q] = commands[q]
    BY <2>0, <1>5 DEF TakeOver, Relaunch, Typed, HeapOK
  <2>2. /\ commands'[o].startDone = fresh + 1 /\ fresh' = fresh + 1
        /\ commands'[o].exited = commands[o].exited /\ commands'[o].cmd = commands[o].cmd
        /\ commands'[o].quit = commands[o].quit
        /\ commands'[o].monitorDone = commands[o].monitorDone
    BY <2>0, <1>5 DEF TakeOver, Relaunch, Typed, HeapOK, Command
  <2>3. UNCHANGED <<nobj, closed, alive>>
    BY <1>5 DEF TakeOver, Relaunch, procs
  <2>4. TakenBy(o, o, "barrier", "done") /\ fresh + 1 # NilChan
    BY <2>0, <2>2 DEF TakenBy, Taken, NilChan
  <2> QED BY <1>0, <2>0, <2>1, <2>2, <2>3, <2>4, LinksSet DEF C
<1>6. ASSUME NEW t \in Threads, Launch(t)
      PROVE  closed' = closed /\ Links(loc[t].obj, "exit", "done")
  <2> DEFINE o == loc[t].obj
  <2>0. /\ loc[t].obj \in Objs /\ fresh \in Nat
        /\ C(t).startDone # NilChan /\ C(t).exited # NilChan
    BY <1>2, <1>6 DEF ThreadLinks
  <2>1. \A q \in Objs \ {o} : commands'[q] = commands[q]
    BY <2>0, <1>6 DEF Launch, Typed, HeapOK
  <2>2. /\ commands'[o].exited = fresh + 1 /\ fresh' = fresh + 1
        /\ commands'[o].startDone = commands[o].startDone /\ commands'[o].cmd = commands[o].cmd
        /\ commands'[o].quit = commands[o].quit
        /\ commands'[o].monitorDone = commands[o].monitorDone
    BY <2>0, <1>6 DEF Launch, Typed, HeapOK, Command
  <2>3. UNCHANGED <<nobj, closed, alive>>
    BY <1>6 DEF Launch, procs
  <2>4. TakenBy(o, o, "exit", "done") /\ fresh + 1 # NilChan
    BY <2>0, <2>2 DEF TakenBy, Taken, NilChan
  <2> QED BY <1>0, <2>0, <2>1, <2>2, <2>3, <2>4, LinksSet DEF C
<1>7. ASSUME NEW t \in Threads, SpawnProcess(t)
      PROVE  closed' = closed /\ Links(loc[t].obj, "exit", "done")
  <2> DEFINE o == loc[t].obj
  <2>0. /\ loc[t].obj \in Objs /\ fresh \in Nat
        /\ C(t).startDone # NilChan /\ C(t).exited # NilChan
    BY <1>2, <1>7 DEF ThreadLinks
  <2>1. \A q \in Objs \ {o} : commands'[q] = commands[q]
    BY <2>0, <1>7 DEF SpawnProcess, Typed, HeapOK
  <2>2. /\ commands'[o].exited = commands[o].exited /\ fresh' = fresh
        /\ commands'[o].startDone = commands[o].startDone
        /\ commands'[o].cmd = commands[o].exited
        /\ commands'[o].quit = commands[o].quit
        /\ commands'[o].monitorDone = commands[o].monitorDone
    BY <2>0, <1>7 DEF SpawnProcess, Typed, HeapOK, Command, C, chans
  <2>3. UNCHANGED <<nobj, closed>> /\ alive' = alive \cup {commands[o].exited}
    BY <1>7 DEF SpawnProcess, chans, C
  <2>4. TakenBy(o, o, "exit", "done")
    BY <2>0, <2>2 DEF TakenBy, Taken
  <2>5. NewProcess
    BY <2>0, <2>3 DEF NewProcess, C
  <2> QED BY <2>0, <2>1, <2>2, <2>3, <2>4, <2>5, LinksSet DEF C
<1>8. ASSUME NEW t \in Threads, StartMonitor(t)
      PROVE  closed' = closed /\ \E k1, k2 \in Kinds : Links(loc[t].obj, k1, k2)
  <2> DEFINE o == loc[t].obj
  <2>0. /\ loc[t].obj \in Objs /\ fresh \in Nat
        /\ C(t).startDone # NilChan /\ C(t).exited # NilChan
    BY <1>2, <1>8 DEF ThreadLinks
  <2>1. \A q \in Objs \ {o} : commands'[q] = commands[q]
    BY <2>0, <1>8 DEF StartMonitor, Typed, HeapOK
  <2>2. /\ commands'[o].exited = commands[o].exited /\ commands'[o].cmd = commands[o].cmd
        /\ commands'[o].startDone = commands[o].startDone
    BY <2>0, <1>8 DEF StartMonitor, Typed, HeapOK, Command
  <2>3. \/ /\ commands'[o].quit = commands[o].quit
           /\ commands'[o].monitorDone = fresh + 1 /\ fresh' = fresh + 1
        \/ /\ commands'[o].quit = fresh + 1
           /\ commands'[o].monitorDone = fresh + 2 /\ fresh' = fresh + 2
    BY <2>0, <1>8 DEF StartMonitor, Typed, HeapOK, Command, C
  <2>4. UNCHANGED <<nobj, closed, alive>>
    BY <1>8 DEF StartMonitor, procs
  <2>5. TakenBy(o, o, "done", "done") \/ TakenBy(o, o, "quit", "done")
    BY <2>0, <2>2, <2>3 DEF TakenBy, Taken
  <2>6. Links(o, "done", "done") \/ Links(o, "quit", "done")
    BY <1>0, <2>0, <2>1, <2>2, <2>3, <2>4, <2>5, LinksSet DEF C
  <2> QED BY <2>4, <2>6 DEF Kinds
<1>9. ASSUME NEW w \in Workers, AcquireNew(w) PROVE nobj + 1 \in Objs
  BY <1>9, ConstantsOK DEF Typed, HeapOK, AcquireNew, Objs, ConstantsOK
<1> HIDE DEF Links
<1> QED BY <1>1, <1>2, <1>3, <1>4, <1>5, <1>6, <1>7, <1>8, <1>9
        DEF LinkStep, WorkerLinks, ThreadLinks, Kinds

\* What one purpose per channel excludes: a barrier, an exited channel, a quit and a
\* monitorDone are four different channels, and two structs share none.
LEMMA PurposesApart ==
  ASSUME OnePurpose, NEW o \in Objs
  PROVE  /\ commands[o].startDone # NilChan =>
              /\ commands[o].startDone \notin alive
              /\ \A t \in Threads : loc[t].done # commands[o].startDone
              /\ \A q \in Objs : /\ commands[q].quit # commands[o].startDone
                                 /\ commands[q].startDone = commands[o].startDone => q = o
         /\ commands[o].exited # NilChan =>
              /\ \A t \in Threads : loc[t].done # commands[o].exited
              /\ \A q \in Objs : /\ commands[q].quit # commands[o].exited
                                 /\ commands[q].startDone # commands[o].exited
                                 /\ commands[q].exited = commands[o].exited => q = o
                                 /\ commands[q].cmd = commands[o].exited => q = o
         /\ commands[o].quit # NilChan =>
              /\ commands[o].quit \notin alive
              /\ \A t \in Threads : loc[t].done # commands[o].quit
         /\ commands[o].monitorDone # NilChan =>
              /\ commands[o].monitorDone \notin alive
              /\ \A q \in Objs : /\ commands[q].quit # commands[o].monitorDone
                                 /\ commands[q].startDone # commands[o].monitorDone
                                 /\ commands[q].monitorDone = commands[o].monitorDone => q = o
         /\ \A t \in Threads : loc[t].done # NilChan => loc[t].done \notin alive
<1>1. PICK kind \in [1 .. fresh -> Kinds], owner \in [1 .. fresh -> Objs] : Fits(kind, owner)
  BY DEF OnePurpose
<1>2. ASSUME NEW q \in Objs
      PROVE  /\ commands[q].startDone # NilChan =>
                  kind[commands[q].startDone] = "barrier" /\ owner[commands[q].startDone] = q
             /\ commands[q].exited # NilChan =>
                  kind[commands[q].exited] = "exit" /\ owner[commands[q].exited] = q
             /\ commands[q].cmd # NilChan =>
                  kind[commands[q].cmd] = "exit" /\ owner[commands[q].cmd] = q
             /\ commands[q].quit # NilChan =>
                  kind[commands[q].quit] = "quit" /\ owner[commands[q].quit] = q
             /\ commands[q].monitorDone # NilChan =>
                  kind[commands[q].monitorDone] = "done" /\ owner[commands[q].monitorDone] = q
  BY <1>1 DEF Fits
<1>3. /\ \A t \in Threads : loc[t].done # NilChan => kind[loc[t].done] = "done"
      /\ \A p \in alive : kind[p] = "exit"
  BY <1>1 DEF Fits
<1>4. commands[o].startDone # NilChan =>
              /\ commands[o].startDone \notin alive
              /\ \A t \in Threads : loc[t].done # commands[o].startDone
              /\ \A q \in Objs : /\ commands[q].quit # commands[o].startDone
                                 /\ commands[q].startDone = commands[o].startDone => q = o
  BY <1>2, <1>3
<1>5. commands[o].exited # NilChan =>
              /\ \A t \in Threads : loc[t].done # commands[o].exited
              /\ \A q \in Objs : /\ commands[q].quit # commands[o].exited
                                 /\ commands[q].startDone # commands[o].exited
                                 /\ commands[q].exited = commands[o].exited => q = o
                                 /\ commands[q].cmd = commands[o].exited => q = o
  BY <1>2, <1>3
<1>6. commands[o].quit # NilChan =>
              /\ commands[o].quit \notin alive
              /\ \A t \in Threads : loc[t].done # commands[o].quit
  BY <1>2, <1>3
<1>7. commands[o].monitorDone # NilChan =>
              /\ commands[o].monitorDone \notin alive
              /\ \A q \in Objs : /\ commands[q].quit # commands[o].monitorDone
                                 /\ commands[q].startDone # commands[o].monitorDone
                                 /\ commands[q].monitorDone = commands[o].monitorDone => q = o
  BY <1>2, <1>3
<1>8. \A t \in Threads : loc[t].done # NilChan => loc[t].done \notin alive
  BY <1>3
<1> QED BY <1>4, <1>5, <1>6, <1>7, <1>8

\* Which channel a step closes, and who closes it.
Closes(c) ==
  \/ /\ alive' = alive
     /\ \/ \E t \in Threads : Settle(t) /\ loc[t].obj \in 1 .. nobj /\ loc[t].obj \in Objs
                              /\ c = C(t).startDone
        \/ \E m \in Monitors : MonitorExit(m) /\ c = loc[m].done
        \/ c # NilChan /\ \E o \in Objs : c = commands[o].quit
  \/ c \in alive /\ alive' = alive \ {c}

\* Four kinds of steps close a channel, one at a time.
LEMMA CloseEffect ==
  ASSUME Typed, ControlInv, ChannelsMade, [Next]_vars, ~LinkStep
  PROVE  \/ closed' = closed /\ alive' = alive
         \/ \E c : closed' = closed \cup {c} /\ Closes(c)
<1> USE ThreadsAre
<1>1. ASSUME NEW t \in Threads, Settle(t) PROVE \E c : closed' = closed \cup {c} /\ Closes(c)
  <2>1. /\ loc[t].obj \in 1 .. nobj /\ loc[t].obj \in Objs
        /\ closed' = closed \cup {C(t).startDone} /\ alive' = alive
    BY <1>1, ObjMade DEF Settle, procs, FreeLabels, RollupLabels
  <2> QED BY <1>1, <2>1 DEF Closes
<1>2. ASSUME NEW m \in Monitors, MonitorExit(m)
      PROVE  \E c : closed' = closed \cup {c} /\ Closes(c)
  <2>1. closed' = closed \cup {loc[m].done} /\ alive' = alive
    BY <1>2 DEF MonitorExit, procs
  <2> QED BY <1>2, <2>1 DEF Closes
<1>3. ASSUME NEW o \in Objs, closed' = CloseQuit(o), alive' = alive
      PROVE  \/ closed' = closed /\ alive' = alive
             \/ \E c : closed' = closed \cup {c} /\ Closes(c)
  <2>1. CASE commands[o].quit = NilChan
    BY <1>3, <2>1 DEF CloseQuit
  <2>2. CASE commands[o].quit # NilChan
    <3>1. closed' = closed \cup {commands[o].quit}
      BY <1>3, <2>2 DEF CloseQuit
    <3> QED BY <1>3, <2>2, <3>1 DEF Closes
  <2> QED BY <2>1, <2>2
<1>4. ASSUME NEW w \in Workers, Cancel(w) \/ CancelStop(w) \/ ShutdownStop(w)
      PROVE  \/ closed' = closed /\ alive' = alive
             \/ \E c : closed' = closed \cup {c} /\ Closes(c)
  <2>1. loc[w].obj \in Objs /\ closed' = CloseQuit(loc[w].obj) /\ alive' = alive
    BY <1>4, ObjMade DEF Cancel, CancelStop, ShutdownStop, procs, FreeLabels, RollupLabels
  <2> QED BY <1>3, <2>1
<1>5. ASSUME NEW p \in alive, ProcessExits(p) \/ ProcessCrashes(p)
      PROVE  \E c : closed' = closed \cup {c} /\ Closes(c)
  <2>1. closed' = closed \cup {p} /\ alive' = alive \ {p}
    BY <1>5 DEF ProcessExits, ProcessCrashes
  <2> QED BY <2>1 DEF Closes
<1> QED BY <1>1, <1>2, <1>4, <1>5, Undisturbed DEF CloseStep

\* Channels stay what they were made for, whatever the step.
LEMMA NextMade ==
  ASSUME Typed, ControlInv, ChannelInv, [Next]_vars
  PROVE  ChannelsMade' /\ OnePurpose' /\ StopsFit'
<1>0. ChannelsMade /\ OnePurpose /\ ExitsFit /\ StopsFit /\ fresh \in Nat
  BY DEF ChannelInv, Typed, WorldOK
<1>1. \A u \in Threads : Arrives(u)
  BY <1>0, NextArrives
<1>2. NotesTaken
  BY <1>1 DEF NotesTaken, Arrives, C
<1>3. StopsFit'
  BY <1>1 DEF StopsFit, Arrives
<1>4. CASE LinkStep
  <2>1. PICK k1 \in Kinds, k2 \in Kinds, o \in Objs : closed' = closed /\ Links(o, k1, k2)
    BY <1>0, <1>4, LinkEffect
  <2>2. closed' \subseteq 0 .. fresh
    BY <1>0, <2>1 DEF ChannelsMade
  <2>3. OnePurpose'
    BY <1>0, <1>2, <2>1, PurposeGrown DEF Links
  <2>4. ChannelsMade'
    BY <1>0, <1>2, <2>1, <2>2, ChannelsGrown DEF Links
  <2> QED BY <1>3, <2>3, <2>4
<1>5. CASE ~LinkStep
  <2>1. LinksKept
    BY <1>5, OtherSteps
  <2>2. \A q \in Objs : TakenBy(q, 0, "exit", "exit")
    BY <2>1, NotTaken DEF LinksKept, SameLinks
  <2>3. alive' \subseteq alive /\ closed' \subseteq 0 .. fresh
    <3>1. CASE closed' = closed /\ alive' = alive
      BY <1>0, <3>1 DEF ChannelsMade
    <3>2. ASSUME NEW c, closed' = closed \cup {c}, Closes(c)
          PROVE  alive' \subseteq alive /\ closed' \subseteq 0 .. fresh
      <4>1. alive' \subseteq alive
        BY <3>2 DEF Closes
      <4>2. c \in 0 .. fresh
        BY <1>0, <3>2, MadeAre, ThreadsAre DEF Closes, C
      <4> QED BY <1>0, <3>2, <4>1, <4>2, MadeAre
    <3> QED BY <1>0, <1>5, <3>1, <3>2, CloseEffect
  <2>4. NewProcess
    BY <2>3 DEF NewProcess
  <2>5. \A q \in 1 .. nobj' : commands'[q].startDone # NilChan /\ commands'[q].exited # NilChan
    <3>1. 1 .. nobj \subseteq Objs
      BY ConstantsOK DEF Typed, HeapOK, Objs, ConstantsOK
    <3> QED BY <1>0, <2>1, <3>1 DEF LinksKept, SameLinks, ChannelsMade
  <2>6. fresh' = fresh
    BY <2>1 DEF LinksKept
  <2>7. OnePurpose'
    BY <1>0, <1>2, <2>2, <2>4, <2>6, PurposeGrown DEF Kinds
  <2>8. ChannelsMade'
    BY <1>0, <1>2, <2>2, <2>3, <2>4, <2>5, <2>6, ChannelsGrown
  <2> QED BY <1>3, <2>7, <2>8
<1> QED BY <1>4, <1>5

\* Two goroutines in episodes of one struct are one.
LEMMA EpisodeAlone ==
  ASSUME LockInv, NEW t \in Threads, NEW u \in Threads, InEpisode(t), InEpisode(u),
         loc[t].obj = loc[u].obj, loc[t].obj \in Objs
  PROVE  t = u
BY DEF LockInv

\* launchProcess and the reaper keep the exited channel and the process together:
\* a step that assigns neither.
LEMMA ExitsKept ==
  ASSUME ExitsFit, OnePurpose, ChannelsMade, Typed, ControlInv, [Next]_vars,
         \A q \in Objs : /\ commands'[q].exited = commands[q].exited
                         /\ commands'[q].cmd = commands[q].cmd,
         \A t \in Threads : ~Launch(t),
         \/ closed' = closed /\ alive' = alive
         \/ \E c : closed' = closed \cup {c} /\ Closes(c),
         \A u \in Threads : Arrives(u)
  PROVE  ExitsFit'
<1>1. ASSUME NEW t \in Threads, pc'[t] = "spawn"
      PROVE  C(t)'.exited # C(t)'.cmd /\ C(t)'.exited # NilChan
  <2>1. pc[t] = "spawn" /\ loc'[t].obj = loc[t].obj
    BY <1>1 DEF Arrives
  <2>2. loc[t].obj \in Objs
    BY <2>1, ObjOK DEF Typed, FreeLabels, RollupLabels
  <2> QED BY <2>1, <2>2 DEF ExitsFit, C
<1>2. CASE closed' = closed /\ alive' = alive
  BY <1>1, <1>2 DEF ExitsFit
<1>3. ASSUME NEW c, closed' = closed \cup {c}, Closes(c) PROVE ExitsFit'
  <2>0. fresh \in Nat
    BY DEF Typed, WorldOK
  <2>1. alive' \subseteq alive
    BY <1>3 DEF Closes
  <2>2. c \notin alive'
    <3>1. CASE c \in alive /\ alive' = alive \ {c}
      BY <3>1
    <3>2. ASSUME NEW o \in Objs, c = commands[o].quit, c # NilChan PROVE c \notin alive
      BY <3>2, PurposesApart
    <3>3. ASSUME NEW o \in Objs, o \in 1 .. nobj, c = commands[o].startDone PROVE c \notin alive
      BY <3>3, PurposesApart DEF ChannelsMade
    <3>4. ASSUME NEW m \in Monitors, c = loc[m].done, NEW o \in Objs PROVE c \notin alive
      BY <2>0, <3>4, PurposesApart, MadeAre, ThreadsAre
    <3>5. ASSUME NEW m \in Monitors, MonitorExit(m) PROVE loc[m].obj \in Objs
      BY <3>5, ObjOK, ThreadsAre DEF MonitorExit, Typed, FreeLabels, RollupLabels
    <3> QED BY <1>3, <2>1, <3>1, <3>2, <3>3, <3>4, <3>5 DEF Closes, C
  <2>3. ASSUME NEW o \in Objs, c = commands[o].exited, c # NilChan PROVE c \in alive
    <3>1. \A t \in Threads : loc[t].done # c
      BY <2>3, PurposesApart
    <3>2. \A q \in Objs : commands[q].quit # c /\ commands[q].startDone # c
      BY <2>3, PurposesApart
    <3> QED BY <1>3, <3>1, <3>2, ThreadsAre DEF Closes, C
  <2>4. alive' \cap closed' = {}
    BY <1>3, <2>1, <2>2 DEF ExitsFit
  <2>5. \A o \in Objs : commands'[o].exited \in (closed' \cup alive') \ {NilChan} =>
                          commands'[o].cmd = commands'[o].exited
    BY <1>3, <2>1, <2>3 DEF ExitsFit
  <2> QED BY <1>1, <2>4, <2>5 DEF ExitsFit
<1> QED BY <1>2, <1>3

\* The two halves of launchProcess.
LEMMA LaunchExits ==
  ASSUME ExitsFit, ChannelsMade, Typed, ControlInv, LockInv, NEW t \in Threads, Launch(t),
         \A u \in Threads : Arrives(u)
  PROVE  ExitsFit'
<1> DEFINE o == loc[t].obj
<1>1. o \in Objs /\ fresh \in Nat
  BY ObjMade DEF Launch, FreeLabels, RollupLabels, Typed, WorldOK
<1>2. /\ commands'[o].exited = fresh + 1 /\ commands'[o].cmd = commands[o].cmd
      /\ \A q \in Objs \ {o} : commands'[q] = commands[q]
      /\ closed' = closed /\ alive' = alive
  BY <1>1 DEF Launch, Typed, HeapOK, Command, procs
<1>3. fresh + 1 \notin closed \cup alive /\ commands[o].cmd # fresh + 1 /\ fresh + 1 # NilChan
  BY <1>1, MadeAre DEF NilChan
<1>4. OnlyMoves(t) /\ loc' = loc
  BY ThreadMoves DEF ThreadStep, Launch, StartMonitor
<1>5. ASSUME NEW u \in Threads, u # t, pc'[u] = "spawn" PROVE pc[u] = "spawn" /\ loc[u].obj # o
  <2>1. pc[u] = "spawn"
    BY <1>4, <1>5 DEF OnlyMoves
  <2>2. InEpisode(u) /\ InEpisode(t)
    BY <2>1 DEF Launch, InEpisode, EpisodeLabels
  <2> QED BY <1>1, <1>5, <2>1, <2>2, EpisodeAlone
<1>6. ASSUME NEW u \in Threads, pc'[u] = "spawn"
      PROVE  C(u)'.exited # C(u)'.cmd /\ C(u)'.exited # NilChan
  <2>1. CASE u = t
    BY <1>2, <1>3, <1>4, <2>1 DEF C
  <2>2. CASE u # t
    <3>1. pc[u] = "spawn" /\ loc[u].obj # o
      BY <1>5, <1>6, <2>2
    <3>2. loc[u].obj \in Objs
      BY <3>1, ObjOK DEF Typed, FreeLabels, RollupLabels
    <3> QED BY <1>2, <1>4, <3>1, <3>2 DEF ExitsFit, C
  <2> QED BY <2>1, <2>2
<1>7. \A q \in Objs : commands'[q].exited \in (closed' \cup alive') \ {NilChan} =>
                        commands'[q].cmd = commands'[q].exited
  BY <1>2, <1>3 DEF ExitsFit
<1> QED BY <1>2, <1>6, <1>7 DEF ExitsFit

\* The second half of launchProcess makes the process that of the exited channel.
LEMMA SpawnExits ==
  ASSUME ExitsFit, ChannelsMade, OnePurpose, Typed, ControlInv, LockInv,
         NEW t \in Threads, SpawnProcess(t)
  PROVE  ExitsFit'
<1> DEFINE o == loc[t].obj
<1>1. o \in Objs /\ fresh \in Nat
  BY ObjMade DEF SpawnProcess, FreeLabels, RollupLabels, Typed, WorldOK
<1>2. /\ commands'[o].exited = commands[o].exited /\ commands'[o].cmd = commands[o].exited
      /\ \A q \in Objs \ {o} : commands'[q] = commands[q]
      /\ closed' = closed /\ alive' = alive \cup {commands[o].exited}
  BY <1>1 DEF SpawnProcess, Typed, HeapOK, Command, chans, C
<1>3. commands[o].exited # NilChan /\ commands[o].exited \notin closed
  BY <1>1 DEF ExitsFit, SpawnProcess, C
<1>4. OnlyMoves(t) /\ loc' = loc /\ pc'[t] # "spawn"
  BY ThreadMoves DEF ThreadStep, SpawnProcess, StartMonitor, Goto, Typed, PcOK
<1>6. ASSUME NEW u \in Threads, pc'[u] = "spawn"
      PROVE  C(u)'.exited # C(u)'.cmd /\ C(u)'.exited # NilChan
  <2>1. u # t /\ pc[u] = "spawn"
    BY <1>4, <1>6 DEF OnlyMoves
  <2>2. InEpisode(u) /\ InEpisode(t)
    BY <2>1 DEF SpawnProcess, InEpisode, EpisodeLabels
  <2>3. loc[u].obj # o
    BY <1>1, <2>1, <2>2, EpisodeAlone
  <2>4. loc[u].obj \in Objs
    BY <2>1, ObjOK DEF Typed, FreeLabels, RollupLabels
  <2> QED BY <1>2, <1>4, <2>1, <2>3, <2>4 DEF ExitsFit, C
<1>7. \A q \in Objs : commands'[q].exited \in (closed' \cup alive') \ {NilChan} =>
                        commands'[q].cmd = commands'[q].exited
  <2>1. \A q \in Objs \ {o} : commands[q].exited # commands[o].exited
    BY <1>1, <1>3, PurposesApart
  <2> QED BY <1>2, <2>1 DEF ExitsFit
<1>8. alive' \cap closed' = {}
  BY <1>2, <1>3 DEF ExitsFit
<1> QED BY <1>6, <1>7, <1>8 DEF ExitsFit

\* A new struct has an exited channel nobody knows.
LEMMA AcquireExits ==
  ASSUME ExitsFit, ChannelsMade, Typed, ControlInv, NEW w \in Workers, AcquireNew(w),
         \A u \in Threads : Arrives(u)
  PROVE  ExitsFit'
<1> DEFINE o == nobj + 1
<1>1. o \in Objs /\ nobj \in Nat /\ fresh \in Nat
  BY ConstantsOK DEF Typed, HeapOK, WorldOK, AcquireNew, Objs, ConstantsOK
<1>2. /\ commands'[o].exited = fresh + 2
      /\ \A q \in Objs \ {o} : commands'[q] = commands[q]
      /\ closed' = closed /\ alive' = alive
  BY <1>1 DEF AcquireNew, NewCommand, Typed, HeapOK, procs
<1>3. fresh + 2 \notin closed \cup alive
  BY <1>1, MadeAre
<1>4. ASSUME NEW u \in Threads, pc'[u] = "spawn"
      PROVE  C(u)'.exited # C(u)'.cmd /\ C(u)'.exited # NilChan
  <2>1. pc[u] = "spawn" /\ loc'[u].obj = loc[u].obj
    <3>1. ~Launch(u)
      <4>1. pc'[w] = "start" /\ OnlyMoves(w)
        BY WorkerMoves, ThreadsAre DEF WorkerStep, AcquireNew, WatchUnmanaged, Goto, Typed, PcOK
      <4> QED BY <1>4, <4>1 DEF Launch, OnlyMoves
    <3> QED BY <1>4, <3>1 DEF Arrives
  <2>2. loc[u].obj \in Objs /\ loc[u].obj # o
    BY <1>1, <2>1, ObjOK DEF Typed, FreeLabels, RollupLabels, ControlInv, Flow
  <2> QED BY <1>2, <2>1, <2>2 DEF ExitsFit, C
<1>5. \A q \in Objs : commands'[q].exited \in (closed' \cup alive') \ {NilChan} =>
                        commands'[q].cmd = commands'[q].exited
  BY <1>2, <1>3 DEF ExitsFit
<1> QED BY <1>2, <1>4, <1>5 DEF ExitsFit

\* The steps that assign a channel but for AcquireNew and the two halves of
\* launchProcess.
ProcessLinks(t) ==
  \/ CheckUnmanaged(t) \/ WatchUnmanaged(t) \/ RestartLock(t) \/ TakeOver(t)
  \/ StartMonitor(t) \/ Relaunch(t)

\* They write neither the exited channel nor the process of a struct.
LEMMA ProcessKept ==
  ASSUME Typed, ControlInv, NEW t \in Threads, ProcessLinks(t), NEW q \in Objs
  PROVE  /\ commands'[q].exited = commands[q].exited
         /\ commands'[q].cmd = commands[q].cmd
<1> DEFINE o == loc[t].obj
<1>1. CASE CheckUnmanaged(t) \/ WatchUnmanaged(t)
  BY <1>1 DEF CheckUnmanaged, WatchUnmanaged, Typed, HeapOK, Command
<1>2. CASE TakeOver(t)
  BY <1>2 DEF TakeOver, Typed, HeapOK, Command
<1>3. CASE Relaunch(t)
  BY <1>3 DEF Relaunch, Typed, HeapOK, Command
<1>4. CASE StartMonitor(t)
  <2>1. PICK n, k : commands' = [commands EXCEPT ![o].quit = n, ![o].monitorDone = k]
    BY <1>4 DEF StartMonitor
  <2> QED BY <2>1 DEF Typed, HeapOK, Command
<1>5. CASE RestartLock(t)
  <2> DEFINE c == [commands[o] EXCEPT !.restartMu = t, !.userStopped = FALSE,
                                      !.quit = NilChan, !.retries = 0]
  <2>1. o \in Objs
    BY <1>5, ObjOK DEF Typed, RestartLock, FreeLabels, RollupLabels
  <2>2. c.exited = commands[o].exited /\ c.cmd = commands[o].cmd
    BY <2>1, FieldsOK DEF Typed, Command
  <2>3. commands' = [commands EXCEPT ![o] = c]
    BY <1>5 DEF RestartLock
  <2> HIDE DEF c
  <2> QED BY <2>1, <2>2, <2>3 DEF Typed, HeapOK
<1> QED BY <1>1, <1>2, <1>3, <1>4, <1>5 DEF ProcessLinks

\* Whatever the step, launchProcess and the reaper keep them together.
LEMMA NextExits ==
  ASSUME Typed, ControlInv, LockInv, ChannelInv, [Next]_vars PROVE ExitsFit'
<1>0. ChannelsMade /\ OnePurpose /\ ExitsFit /\ StopsFit
  BY DEF ChannelInv
<1>1. \A u \in Threads : Arrives(u)
  BY <1>0, NextArrives
<1>2. ASSUME NEW t \in Threads, Launch(t) PROVE ExitsFit'
  BY <1>0, <1>1, <1>2, LaunchExits
<1>3. CASE ~LinkStep
  <2>1. \A q \in Objs : /\ commands'[q].exited = commands[q].exited
                        /\ commands'[q].cmd = commands[q].cmd
    BY <1>3, OtherSteps DEF LinksKept, SameLinks
  <2>2. \A t \in Threads : ~Launch(t)
    BY <1>3 DEF LinkStep, ThreadLinks
  <2>3. \/ closed' = closed /\ alive' = alive
        \/ \E c : closed' = closed \cup {c} /\ Closes(c)
    BY <1>0, <1>3, CloseEffect
  <2> QED BY <1>0, <1>1, <2>1, <2>2, <2>3, ExitsKept
<1>4. ASSUME NEW t \in Threads,
             CheckUnmanaged(t) \/ WatchUnmanaged(t) \/ RestartLock(t) \/ TakeOver(t)
             \/ StartMonitor(t) \/ Relaunch(t)
      PROVE  ExitsFit'
  <2>1. \A q \in Objs : /\ commands'[q].exited = commands[q].exited
                        /\ commands'[q].cmd = commands[q].cmd
    BY Zenon, <1>0, <1>4, ProcessKept DEF ProcessLinks
  <2>2. closed' = closed /\ alive' = alive
    BY <1>4 DEF CheckUnmanaged, WatchUnmanaged, RestartLock, TakeOver, StartMonitor, Relaunch,
       procs, chans
  <2> QED BY <1>0, <1>1, <1>2, <2>1, <2>2, ExitsKept
<1> QED BY <1>0, <1>1, <1>2, <1>3, <1>4, SpawnExits, AcquireExits, ThreadsAre
        DEF LinkStep, WorkerLinks, ThreadLinks

\* The channel invariant is inductive, whatever the clients and the world do.
LEMMA NextChannels ==
  ASSUME Typed, ControlInv, LockInv, ChannelInv, [Next]_vars PROVE ChannelInv'
BY NextMade, NextExits DEF ChannelInv

\* In the initial state no channel has been made.
LEMMA InitChannels == Init => ChannelInv
<1> SUFFICES ASSUME Init PROVE ChannelInv
  OBVIOUS
<1>1. ChannelsMade
  BY DEF Init, ChannelsMade, NewCommand, Blank, NilChan
<1>2. ExitsFit /\ StopsFit
  BY DEF Init, ExitsFit, StopsFit, NewCommand, NilChan
<1>3. OnePurpose
  <2>1. [c \in 1 .. fresh |-> "exit"] \in [1 .. fresh -> Kinds]
    BY DEF Kinds
  <2>2. [c \in 1 .. fresh |-> 1] \in [1 .. fresh -> Objs]
    BY DEF Init
  <2>3. \A k, w : Fits(k, w)
    BY DEF Init, Fits, NewCommand, Blank, NilChan
  <2> QED BY <2>1, <2>2, <2>3 DEF OnePurpose
<1> QED BY <1>1, <1>2, <1>3 DEF ChannelInv

\* Types, control, the restart lock and the channels.
Sound == IndInv /\ ChannelInv

\* In every behaviour, with no assumption: every channel has one purpose and is known
\* to one struct, and the exited channel of a struct is closed, or names a process that
\* runs, only if it is the one of the struct's process (launchProcess).
THEOREM ChannelsSound == Spec => []Sound
<1>1. Init => ChannelInv
  BY InitChannels
<1>2. IndInv /\ ChannelInv /\ [Next]_vars => ChannelInv'
  BY NextChannels DEF IndInv
<1> QED BY <1>1, <1>2, Inductive, PTL DEF Spec, Sound

-----------------------------------------------------------------------------
(* The first start of a struct.  An episode that closes a start barrier has *)
(* made it itself, but for one: the barrier of the first start is made with *)
(* the struct, before startCommand takes restartMu.  Until then nobody else *)
(* may drive an episode of that struct, or its barrier would be closed, and *)
(* the first start would close it again.                                   *)

\* No failed command is being retried in place: where such a retry waits for
\* restartMu, setCmdState and the start of a replaced struct may get ahead of it.
NoRetryInPlace == \A w \in Workers : pc[w] # "restartInPlace"

\* Between acquireAndStart and the lock of startCommand, others may only wait for
\* the barrier of that start, or be on their way to that wait.
Bystanding(u, o) ==
  /\ u \in Workers
  /\ pc[u] \in FreeLabels \cup RollupLabels \cup
       {"joinWait", "envCheck", "envRead", "envCompare", "markRestarting", "cancel",
        "cancelWait", "cancelStop", "stampStop", "shutdownStop", "markStopping",
        "stopBarrier", "stopWait"}
  /\ pc[u] \in RollupLabels => loc[u].then = "idle"
  /\ pc[u] = "stopWait" \/ (pc[u] = "markStopping" /\ loc[u].cont = "shutdownEnd")
       => loc[u].chan = commands[o].startDone
  /\ pc[u] \in {"joinWait", "cancelWait"} => loc[u].chan = commands[o].startDone

FirstStart ==
  \A t \in Threads : pc[t] = "start" =>
    /\ C(t).cmd = NilChan /\ ~C(t).unmanaged
    /\ \A u \in Threads \ {t} : loc[u].obj = loc[t].obj => Bystanding(u, loc[t].obj)

BarrierOpen == \A t \in Threads : Opening(t) => C(t).startDone \notin closed

StartInv == FirstStart /\ BarrierOpen

\* No step of another goroutine closes the barrier of an episode.
LEMMA NextBarrier ==
  ASSUME Sound, FirstStart, BarrierOpen, [Next]_vars PROVE BarrierOpen'
<1>0. /\ Typed /\ ControlInv /\ LockInv /\ ChannelsMade /\ OnePurpose /\ ExitsFit /\ StopsFit
      /\ fresh \in Nat
  BY DEF Sound, IndInv, ChannelInv, Typed, WorldOK
<1>1. \A u \in Threads : Arrives(u)
  BY <1>0, NextArrives
<1>2. ASSUME NEW t \in Threads, Opening(t) PROVE loc[t].obj \in Objs /\ loc[t].obj \in 1 .. nobj
  BY <1>0, <1>2, ObjMade DEF Opening, FreeLabels, RollupLabels
<1>3. ASSUME NEW t \in Threads, Opening(t)', Opening(t), loc'[t].obj = loc[t].obj, ~LinkStep
      PROVE  C(t)'.startDone \notin closed'
  <2> DEFINE o == loc[t].obj
  <2>1. o \in Objs /\ commands[o].startDone # NilChan /\ commands[o].startDone \notin closed
    BY <1>0, <1>2, <1>3 DEF ChannelsMade, BarrierOpen, C
  <2>2. commands'[o].startDone = commands[o].startDone
    BY <1>0, <1>3, <2>1, OtherSteps DEF LinksKept, SameLinks
  <2>3. ASSUME NEW c, Closes(c) PROVE c # commands[o].startDone
    <3>1. ASSUME NEW u \in Threads, Settle(u), loc[u].obj \in Objs,
                 C(u).startDone = commands[o].startDone
          PROVE  FALSE
      <4>1. loc[u].obj = o
        BY <1>0, <2>1, <3>1, PurposesApart DEF C
      <4>2. u # t
        BY <1>0, <1>3, <3>1 DEF Settle, Goto, Typed, PcOK, ControlInv, Flow, RetLabels, Opening
      <4>3. pc[t] # "start"
        BY <3>1, <4>1, <4>2 DEF FirstStart, Bystanding, Settle, FreeLabels, RollupLabels
      <4>4. InEpisode(t) /\ InEpisode(u)
        BY <1>3, <3>1, <4>3 DEF Opening, Settle, InEpisode, EpisodeLabels
      <4> QED BY <1>0, <2>1, <4>1, <4>2, <4>4, EpisodeAlone
    <3>2. /\ commands[o].startDone \notin alive
          /\ \A m \in Threads : loc[m].done # commands[o].startDone
          /\ \A q \in Objs : commands[q].quit # commands[o].startDone
      BY <1>0, <2>1, PurposesApart
    <3> QED BY <2>3, <3>1, <3>2, ThreadsAre DEF Closes
  <2> QED BY <1>0, <1>3, <2>1, <2>2, <2>3, CloseEffect DEF C
<1>4. ASSUME NEW t \in Threads, AcquireNew(t) \/ Relaunch(t) \/ TakeOver(t)
      PROVE  C(t)'.startDone = fresh + 1 /\ closed' = closed
  <2>1. CASE AcquireNew(t)
    <3>1. nobj + 1 \in Objs
      BY <1>0, <2>1, ConstantsOK DEF Typed, HeapOK, AcquireNew, Objs, ConstantsOK
    <3> QED BY <1>0, <2>1, <3>1 DEF AcquireNew, NewCommand, Typed, HeapOK, LocOK, Locals, C
  <2>2. CASE Relaunch(t) \/ TakeOver(t)
    <3>1. loc[t].obj \in Objs
      BY <1>0, <2>2, ObjOK DEF Typed, Relaunch, TakeOver, FreeLabels, RollupLabels
    <3>2. loc'[t].obj = loc[t].obj
      BY <1>0, <2>2 DEF Relaunch, TakeOver, Typed, LocOK, Locals
    <3>3. commands'[loc[t].obj].startDone = fresh + 1
      BY <1>0, <2>2, <3>1 DEF Relaunch, TakeOver, Typed, HeapOK, Command
    <3> QED BY <2>2, <3>2, <3>3 DEF Relaunch, TakeOver, C
  <2> QED BY <1>4, <2>1, <2>2
<1>5. fresh + 1 \notin closed
  BY <1>0, MadeAre
<1>6. ASSUME NEW t \in Threads, Opening(t)', Opening(t), loc'[t].obj = loc[t].obj, LinkStep
      PROVE  C(t)'.startDone \notin closed'
  <2> DEFINE o == loc[t].obj
  <2>1. o \in Objs /\ o \in 1 .. nobj /\ commands[o].startDone \notin closed /\ nobj \in Nat
    BY <1>0, <1>2, <1>6, ConstantsOK DEF BarrierOpen, C, Typed, HeapOK, ConstantsOK
  <2>2. PICK k1 \in Kinds, k2 \in Kinds, q \in Objs : closed' = closed /\ Links(q, k1, k2)
    BY <1>0, <1>6, LinkEffect
  <2>3. TakenBy(o, q, k1, k2) /\ commands'[o].startDone # NilChan
    <3>1. nobj' = nobj \/ nobj' = nobj + 1
      <4>1. ASSUME NEW u, TakeOver(u) \/ ThreadLinks(u) PROVE nobj' = nobj
        BY <4>1 DEF ThreadLinks, TakeOver, Launch, SpawnProcess, StartMonitor, Relaunch
      <4>2. ASSUME NEW u, WorkerLinks(u) PROVE nobj' = nobj \/ nobj' = nobj + 1
        BY <4>2 DEF WorkerLinks, AcquireNew, CheckUnmanaged, WatchUnmanaged, RestartLock
      <4> QED BY Zenon, <1>6, <4>1, <4>2 DEF LinkStep
    <3>2. o \in 1 .. nobj'
      BY <2>1, <3>1
    <3> QED BY <2>1, <2>2, <3>2 DEF Links
  <2>4. commands'[o].startDone = commands[o].startDone \/ commands'[o].startDone \notin 0 .. fresh
    BY <1>0, <2>3 DEF TakenBy, Taken
  <2>5. closed \subseteq 0 .. fresh
    BY <1>0 DEF ChannelsMade
  <2> QED BY <1>6, <2>1, <2>2, <2>4, <2>5 DEF C
<1>7. ASSUME NEW t \in Threads, Opening(t)' PROVE C(t)'.startDone \notin closed'
  BY <1>1, <1>3, <1>4, <1>5, <1>6, <1>7 DEF Arrives
<1> QED BY <1>7 DEF BarrierOpen

\* Where a goroutine that waits for the first start of struct o may go next, or
\* how it comes to point to that struct.
Approaches(u, o) == loc'[u].obj = o => Bystanding(u, o)'

\* A goroutine that stays where it is.
LEMMA StaysBystanding ==
  ASSUME NEW u, NEW o, pc'[u] = pc[u], loc'[u] = loc[u],
         commands'[o].startDone = commands[o].startDone, loc[u].obj = o => Bystanding(u, o)
  PROVE  Approaches(u, o)
BY DEF Approaches, Bystanding

\* The steps of a worker, while the barrier of o is open.
LEMMA WorkerApproaches ==
  ASSUME Typed, ControlInv, StopsFit, NoRetryInPlace', NEW w \in Workers, WorkerStep(w),
         ~WatchUnmanaged(w), NEW o \in 1 .. nobj, commands[o].startDone \notin closed,
         commands'[o].startDone = commands[o].startDone, loc[w].obj = o => Bystanding(w, o)
  PROVE  Approaches(w, o)
<1> USE ThreadsAre
<1>0. o # NoObj /\ o # nobj + 1
  BY ConstantsOK DEF NoObj, Typed, HeapOK, ConstantsOK
<1> USE <1>0 DEF Typed, PcOK, LocOK, Locals, Goto, ControlInv, Flow, Approaches, Bystanding,
                 FreeLabels, RollupLabels, ContLabels, Blank
<1>1. CASE MarkStarting(w)
  BY <1>1 DEF MarkStarting
<1>2. CASE ResetForRetry(w)
  <2>1. pc'[w] \in {"acquire", "release", "restartInPlace"}
    BY <1>2 DEF ResetForRetry
  <2> QED BY <2>1 DEF NoRetryInPlace
<1>3. CASE AcquireNew(w)
  BY <1>3 DEF AcquireNew
<1>4. CASE AcquireJoin(w)
  BY <1>4 DEF AcquireJoin
<1>5. CASE JoinWait(w) \/ EnvCheck(w) \/ EnvRead(w) \/ EnvCompare(w)
  BY <1>5 DEF JoinWait, EnvCheck, EnvRead, EnvCompare, Continue
<1>6. CASE StartCommand(w) \/ CheckUnmanaged(w) \/ Adopt(w)
  BY <1>6 DEF StartCommand, CheckUnmanaged, Adopt
<1>7. CASE Cancel(w)
  BY SMTT(30), <1>7 DEF Cancel, C
<1>8. CASE CancelWait(w) \/ RestartLock(w) \/ RestartBegin(w) \/ RestartInPlace(w)
  BY <1>8 DEF CancelWait, RestartLock, RestartBegin, RestartInPlace
<1>9. CASE Relaunched(w)
  BY <1>9 DEF Relaunched
<1>10. CASE Unlock(w) \/ EnvStopped(w) \/ ShutdownEnd(w)
  BY <1>10 DEF Unlock, EnvStopped, ShutdownEnd, Continue
<1>11. CASE Release(w)
  BY <1>11 DEF Release, Continue
<1>12. CASE CancelStop(w) \/ StampStop(w)
  BY <1>12 DEF CancelStop, StampStop, StopsFit
<1>13. CASE ShutdownStop(w)
  <2>1. pc'[w] \in {"markStopping", "stopWait"}
    BY <1>13 DEF ShutdownStop
  <2>2. loc'[w] = [loc[w] EXCEPT !.chan = commands[loc[w].obj].startDone]
    BY <1>13 DEF ShutdownStop, C
  <2> QED BY <2>1, <2>2
<1>14. CASE MarkRestarting(w) \/ MarkStopping(w) \/ StopBarrier(w) \/ StopWait(w)
  BY <1>14 DEF MarkRestarting, MarkStopping, StopBarrier, StopWait, C
<1>15. CASE Stop(w) \/ Stopped(w)
  BY <1>15 DEF Stop, Stopped, Continue
<1>16. CASE FinishRun(w)
  BY <1>16 DEF FinishRun
<1> QED BY <1>1, <1>2, <1>3, <1>4, <1>5, <1>6, <1>7, <1>8, <1>9, <1>10, <1>11, <1>12, <1>13,
           <1>14, <1>15, <1>16 DEF WorkerStep

\* A monitor keeps its struct or forgets it.
LEMMA MonitorApproaches ==
  ASSUME Typed, NEW m \in Monitors, MonitorStep(m), NEW o \in 1 .. nobj,
         loc[m].obj = o => Bystanding(m, o)
  PROVE  Approaches(m, o)
<1>1. m \notin Workers /\ m \in Threads /\ o # NoObj
  BY ThreadsAre DEF NoObj
<1>2. loc[m].obj # o
  BY <1>1 DEF Bystanding
<1>3. loc'[m].obj \in {loc[m].obj, NoObj}
  <2> USE <1>1 DEF Typed, LocOK, Locals, Continue, Blank
  <2>1. CASE \/ UnmanagedBegin(m) \/ UnmanagedQuit(m) \/ TakeOver(m) \/ TakeOverStart(m)
             \/ MonitorBegin(m) \/ Snapshot(m) \/ SuperviseQuit(m) \/ SuperviseExit(m)
             \/ GiveUp(m) \/ MonitorExit(m)
    BY <2>1 DEF UnmanagedBegin, UnmanagedQuit, TakeOver, TakeOverStart, MonitorBegin, Snapshot,
       SuperviseQuit, SuperviseExit, Unhealthy, GiveUp, MonitorExit
  <2>2. CASE \/ AttemptRestart(m) \/ RetriesExhausted(m) \/ Retry(m) \/ BackoffQuit(m)
             \/ BackoffElapses(m) \/ Retried(m) \/ RetryResume(m) \/ RetryExit(m)
    BY <2>2 DEF AttemptRestart, RetriesExhausted, Retry, BackoffQuit, BackoffElapses, Retried,
       RetryResume, RetryExit
  <2> QED BY <2>1, <2>2 DEF MonitorStep
<1> QED BY <1>1, <1>2, <1>3 DEF Approaches

\* Of the shared code a bystander runs the rollup that ends its own operation.
LEMMA ThreadApproaches ==
  ASSUME Typed, NEW t \in Threads, ThreadStep(t), ~StartMonitor(t), NEW o \in 1 .. nobj,
         loc[t].obj = o => Bystanding(t, o)
  PROVE  Approaches(t, o)
<1>0. o # NoObj
  BY DEF NoObj
<1> USE <1>0 DEF Typed, PcOK, LocOK, Locals, Goto, Approaches, Bystanding, FreeLabels,
                 RollupLabels, Blank
<1>1. CASE Prepare(t) \/ LaunchEnv(t) \/ Launch(t) \/ SpawnProcess(t) \/ Relaunch(t)
  BY <1>1 DEF Prepare, LaunchEnv, Launch, SpawnProcess, Relaunch
<1>2. CASE ServiceExitsEarly(t) \/ ServiceReady(t) \/ TaskExits(t) \/ TaskReady(t)
  BY <1>2 DEF ServiceExitsEarly, ServiceReady, TaskExits, TaskReady
<1>3. CASE Kill(t) \/ AwaitExit(t) \/ Settle(t)
  BY <1>3 DEF Kill, AwaitExit, Settle
<1>4. CASE Started(t)
  BY <1>4 DEF Started, Continue
<1>5. CASE Rollup(t)
  <2>1. CASE loc[t].todo = {}
    BY <1>5, <2>1 DEF Rollup, Continue
  <2>2. CASE loc[t].todo # {}
    <3>1. PICK e \in loc[t].todo :
            /\ loc' = [loc EXCEPT ![t].todo = @ \ {e}, ![t].roll = {e}]
            /\ \/ pc' = [pc EXCEPT ![t] = "rollup"]
               \/ pc' = [pc EXCEPT ![t] = "rollupRead"]
      BY <1>5, <2>2 DEF Rollup
    <3>2. /\ loc'[t].obj = loc[t].obj /\ loc'[t].then = loc[t].then
          /\ pc'[t] \in {"rollup", "rollupRead"}
      BY <3>1
    <3>3. pc[t] = "rollup"
      BY <1>5 DEF Rollup
    <3> QED BY <3>2, <3>3
  <2> QED BY <2>1, <2>2
<1>6. CASE RollupRead(t) \/ RollupWrite(t)
  BY <1>6 DEF RollupRead, RollupWrite
<1> QED BY <1>1, <1>2, <1>3, <1>4, <1>5, <1>6 DEF ThreadStep

\* A request for the command leads to a wait for its barrier.
LEMMA RequestApproaches ==
  ASSUME Typed, NEW w \in Workers, Request(w), NEW o \in 1 .. nobj,
         commands'[o].startDone = commands[o].startDone, loc[w].obj = o => Bystanding(w, o)
  PROVE  Approaches(w, o)
<1> USE ThreadsAre
<1>0. o # NoObj
  BY DEF NoObj
<1> USE <1>0 DEF Typed, PcOK, LocOK, Locals, Goto, Approaches, Bystanding, FreeLabels,
                 RollupLabels, Blank, Begin
<1>1. ASSUME NEW e \in Envs, StartEnvironment(w, e) PROVE Approaches(w, o)
  BY <1>1 DEF StartEnvironment
<1>2. ASSUME NEW e \in Envs, StopEnvironment(w, e) PROVE Approaches(w, o)
  BY <1>2 DEF StopEnvironment
<1>3. CASE RestartCommand(w)
  BY <1>3 DEF RestartCommand
<1>4. CASE Shutdown(w)
  BY <1>4 DEF Shutdown
<1> QED BY <1>1, <1>2, <1>3, <1>4 DEF Request

\* Faults happen to goroutines that are not bystanding, or to none.
LEMMA FaultApproaches ==
  ASSUME Typed, FaultStep, NEW o \in 1 .. nobj, NEW u \in Threads,
         commands'[o].startDone = commands[o].startDone, loc[u].obj = o => Bystanding(u, o)
  PROVE  Approaches(u, o)
<1> USE ThreadsAre
<1>1. ASSUME NEW t \in Threads,
             PrepareFails(t) \/ SpawnFails(t) \/ ServiceTimesOut(t) \/ TaskTimesOut(t)
      PROVE  OnlyMoves(t) /\ loc'[t].obj = loc[t].obj /\ ~Bystanding(t, o)
  BY <1>1 DEF PrepareFails, SpawnFails, ServiceTimesOut, TaskTimesOut, Goto, OnlyMoves,
     Typed, PcOK, LocOK, Locals, Bystanding, FreeLabels, RollupLabels
<1>2. ASSUME NEW m \in Monitors, SuperviseLiveness(m) \/ UnmanagedProbeFails(m)
      PROVE  OnlyMoves(m) /\ loc'[m].obj = loc[m].obj /\ ~Bystanding(m, o)
  BY <1>2 DEF SuperviseLiveness, UnmanagedProbeFails, Unhealthy, Goto, OnlyMoves, Typed, PcOK,
     LocOK, Locals, Bystanding
<1>3. ASSUME NEW w \in Workers, ShutdownDeadline(w) PROVE UNCHANGED <<pc, loc>>
  BY <1>3 DEF ShutdownDeadline
<1>4. ASSUME NEW p \in alive, ProcessCrashes(p) PROVE UNCHANGED <<pc, loc>>
  BY <1>4 DEF ProcessCrashes
<1>5. ASSUME NEW t \in Threads, OnlyMoves(t), loc'[t].obj = loc[t].obj, ~Bystanding(t, o)
      PROVE  Approaches(u, o)
  BY <1>5, StaysBystanding DEF OnlyMoves, Approaches
<1>6. CASE UNCHANGED <<pc, loc>>
  BY <1>6, StaysBystanding
<1> QED BY <1>1, <1>2, <1>3, <1>4, <1>5, <1>6 DEF FaultStep

\* What every step does to every goroutine, seen from a struct whose first start
\* has not begun.
LEMMA NextApproaches ==
  ASSUME Sound, NoRetryInPlace', [Next]_vars, NEW o \in 1 .. nobj,
         commands[o].startDone \notin closed, commands'[o].startDone = commands[o].startDone,
         NEW x \in Threads, loc[x].obj = o, pc[x] = "start",
         \A u \in Threads \ {x} : loc[u].obj = o => Bystanding(u, o), NEW u \in Threads \ {x}
  PROVE  Approaches(u, o)
<1> USE ThreadsAre
<1>0. /\ Typed /\ ControlInv /\ StopsFit
      /\ loc[u].obj = o => Bystanding(u, o)
  BY DEF Sound, IndInv, ChannelInv
<1>1. ASSUME NEW t \in Threads, OnlyMoves(t), t = u => Approaches(u, o) PROVE Approaches(u, o)
  BY <1>0, <1>1, StaysBystanding DEF OnlyMoves
<1>2. ASSUME NEW w \in Workers, Request(w) PROVE Approaches(u, o)
  <2>1. OnlyMoves(w)
    BY <1>0, <1>2 DEF Request, StartEnvironment, StopEnvironment, RestartCommand, Shutdown, Goto,
       OnlyMoves, Typed, PcOK, LocOK
  <2> QED BY Zenon, <1>0, <1>1, <1>2, <2>1, RequestApproaches
<1>3. ASSUME NEW w \in Workers, WorkerStep(w), ~WatchUnmanaged(w) PROVE Approaches(u, o)
  BY <1>0, <1>1, <1>3, WorkerMoves, WorkerApproaches
<1>4. ASSUME NEW m \in Monitors, MonitorStep(m) PROVE Approaches(u, o)
  BY <1>0, <1>1, <1>4, MonitorMoves, MonitorApproaches
<1>5. ASSUME NEW t \in Threads, ThreadStep(t), ~StartMonitor(t) PROVE Approaches(u, o)
  BY <1>0, <1>1, <1>5, ThreadMoves, ThreadApproaches
<1>6. ASSUME NEW t \in Threads, WatchUnmanaged(t) \/ StartMonitor(t) PROVE Approaches(u, o)
  <2>1. PICK m \in Monitors, h \in {"settle", loc[t].after},
            l \in {"unmanagedBegin", "monitorBegin"} :
          /\ pc' = [pc EXCEPT ![t] = h, ![m] = l]
          /\ loc' = [loc EXCEPT ![m] = [Blank EXCEPT !.obj = loc[t].obj]]
    BY <1>6 DEF WatchUnmanaged, StartMonitor, Spawn
  <2>2. pc[t] \in {"watchUnmanaged", "startMonitor"}
    BY <1>6 DEF WatchUnmanaged, StartMonitor
  <2>3. loc[t].obj # o
    BY <2>2 DEF Bystanding, FreeLabels, RollupLabels
  <2>4. CASE u = m
    BY <1>0, <2>1, <2>3, <2>4 DEF Approaches, Typed, LocOK, Blank
  <2>5. CASE u # m
    <3>1. loc'[u] = loc[u]
      BY <1>0, <2>1, <2>5 DEF Typed, LocOK
    <3>2. CASE u = t
      BY <2>3, <3>1, <3>2 DEF Approaches
    <3>3. CASE u # t
      BY <1>0, <2>1, <2>5, <3>1, <3>3, StaysBystanding DEF Typed, PcOK
    <3> QED BY <3>2, <3>3
  <2> QED BY <2>4, <2>5
<1>7. CASE UNCHANGED <<pc, loc>>
  BY <1>0, <1>7, StaysBystanding
<1>8. ASSUME NEW p \in alive, ProcessExits(p) PROVE UNCHANGED <<pc, loc>>
  BY <1>8 DEF ProcessExits
<1>9. CASE FaultStep
  BY <1>0, <1>9, FaultApproaches
<1>10. CASE UNCHANGED vars
  BY <1>7, <1>10 DEF vars
<1> QED BY <1>2, <1>3, <1>4, <1>5, <1>6, <1>7, <1>8, <1>9, <1>10 DEF Next

\* A struct is written by the goroutines that point to it, and by AcquireNew when it
\* is made.
LEMMA LinkOwner ==
  ASSUME Typed, ControlInv, LinkStep, NEW o \in 1 .. nobj
  PROVE  \/ commands'[o] = commands[o]
         \/ \E t \in Threads :
              /\ loc[t].obj = o
              /\ pc[t] \in {"checkUnmanaged", "watchUnmanaged", "restartLock", "takeOver",
                            "launch", "spawn", "startMonitor", "relaunch"}
<1> USE ThreadsAre
<1>1. o # nobj + 1
  BY ConstantsOK DEF Typed, HeapOK, ConstantsOK
<1>2. o \in Objs
  BY ConstantsOK DEF Typed, HeapOK, ConstantsOK, Objs
<1>3. ASSUME NEW w \in Workers, AcquireNew(w) PROVE commands'[o] = commands[o]
  BY Zenon, <1>1, <1>2, <1>3 DEF AcquireNew, Typed, HeapOK
<1>4. ASSUME NEW t, CheckUnmanaged(t) \/ WatchUnmanaged(t) \/ RestartLock(t) \/ TakeOver(t)
      PROVE  /\ loc[t].obj # o => commands'[o] = commands[o]
             /\ pc[t] \in {"checkUnmanaged", "watchUnmanaged", "restartLock", "takeOver"}
  BY <1>2, <1>4 DEF CheckUnmanaged, WatchUnmanaged, RestartLock, TakeOver, Typed, HeapOK
<1>5. ASSUME NEW t, ThreadLinks(t)
      PROVE  /\ loc[t].obj # o => commands'[o] = commands[o]
             /\ pc[t] \in {"launch", "spawn", "startMonitor", "relaunch"}
  BY <1>2, <1>5 DEF ThreadLinks, Launch, SpawnProcess, StartMonitor, Relaunch, Typed, HeapOK
<1> QED BY <1>3, <1>4, <1>5 DEF LinkStep, WorkerLinks

\* The first start stays undisturbed.
LEMMA NextFirstStart ==
  ASSUME Sound, FirstStart, BarrierOpen, NoRetryInPlace', [Next]_vars PROVE FirstStart'
<1>0. Typed /\ ControlInv /\ StopsFit /\ ChannelsMade /\ nobj \in Nat
  BY ConstantsOK DEF Sound, IndInv, ChannelInv, Typed, HeapOK, ConstantsOK
<1>1. \A u \in Threads : Arrives(u)
  BY <1>0, NextArrives
<1>2. ASSUME NEW t \in Threads, AcquireNew(t), NEW u \in Threads \ {t}
      PROVE  /\ loc'[u].obj # loc'[t].obj
             /\ C(t)'.cmd = NilChan /\ ~C(t)'.unmanaged
  <2>1. nobj + 1 \in Objs /\ loc[u].obj \in 0 .. nobj
    BY <1>0, <1>2, ConstantsOK DEF AcquireNew, Objs, ConstantsOK, ControlInv, Flow, Typed, HeapOK
  <2>2. loc'[t].obj = nobj + 1 /\ loc'[u] = loc[u]
    BY <1>0, <1>2 DEF AcquireNew, Typed, LocOK, Locals
  <2>3. commands'[nobj + 1] = [NewCommand(fresh + 1, fresh + 2) EXCEPT !.holders = loc[t].env]
    BY <1>0, <1>2, <2>1 DEF AcquireNew, Typed, HeapOK
  <2>4. commands'[nobj + 1].cmd = NilChan /\ ~commands'[nobj + 1].unmanaged
    BY <2>3 DEF NewCommand
  <2> QED BY <1>0, <2>1, <2>2, <2>4 DEF C
<1>3. ASSUME NEW t \in Threads, AcquireNew(t) PROVE C(t)'.cmd = NilChan /\ ~C(t)'.unmanaged
  <2>1. nobj + 1 \in Objs
    BY <1>0, <1>3, ConstantsOK DEF AcquireNew, Objs, ConstantsOK, Typed, HeapOK
  <2>2. loc'[t].obj = nobj + 1
    BY <1>0, <1>3 DEF AcquireNew, Typed, LocOK, Locals
  <2>3. commands'[nobj + 1] = [NewCommand(fresh + 1, fresh + 2) EXCEPT !.holders = loc[t].env]
    BY <1>0, <1>3, <2>1 DEF AcquireNew, Typed, HeapOK
  <2> QED BY <2>2, <2>3 DEF NewCommand, C
<1>4. ASSUME NEW t \in Threads, pc'[t] = "start", pc[t] = "start", loc'[t].obj = loc[t].obj
      PROVE  /\ C(t)'.cmd = NilChan /\ ~C(t)'.unmanaged
             /\ \A u \in Threads \ {t} : loc'[u].obj = loc'[t].obj => Bystanding(u, loc[t].obj)'
  <2> DEFINE o == loc[t].obj
  <2>1. /\ o \in Objs /\ o \in 1 .. nobj /\ commands[o].startDone \notin closed
        /\ commands[o].cmd = NilChan /\ ~commands[o].unmanaged
        /\ \A u \in Threads \ {t} : loc[u].obj = o => Bystanding(u, o)
    BY <1>0, <1>4, ObjMade DEF FreeLabels, RollupLabels, BarrierOpen, Opening, FirstStart, C
  <2>2. SameLinks(o)
    <3>1. CASE ~LinkStep
      BY <2>1, <3>1, <1>0, OtherSteps DEF LinksKept
    <3>2. CASE LinkStep
      <4>1. ASSUME NEW u \in Threads, loc[u].obj = o,
                   pc[u] \in {"checkUnmanaged", "watchUnmanaged", "restartLock", "takeOver",
                              "launch", "spawn", "startMonitor", "relaunch"}
            PROVE  FALSE
        BY <1>4, <2>1, <4>1 DEF Bystanding, FreeLabels, RollupLabels
      <4> QED BY <1>0, <2>1, <3>2, <4>1, LinkOwner DEF SameLinks
    <3> QED BY <3>1, <3>2
  <2>3. \A u \in Threads \ {t} : Approaches(u, o)
    BY <1>4, <2>1, <2>2, NextApproaches DEF SameLinks
  <2> QED BY <1>4, <2>1, <2>2, <2>3 DEF SameLinks, Approaches, C
<1>5. ASSUME NEW t \in Threads, pc'[t] = "start"
      PROVE  (/\ C(t).cmd = NilChan /\ ~C(t).unmanaged
              /\ \A u \in Threads \ {t} : loc[u].obj = loc[t].obj => Bystanding(u, loc[t].obj))'
  <2>1. AcquireNew(t) \/ (pc[t] = "start" /\ loc'[t].obj = loc[t].obj)
    BY <1>1, <1>5 DEF Arrives
  <2>2. CASE AcquireNew(t)
    BY <1>2, <1>3, <2>2
  <2>3. CASE pc[t] = "start" /\ loc'[t].obj = loc[t].obj
    BY <1>4, <1>5, <2>3 DEF Bystanding
  <2> QED BY <2>1, <2>2, <2>3
<1> QED BY <1>5 DEF FirstStart

\* In the initial state no start is under way.
LEMMA InitStart == Init => StartInv
BY DEF Init, StartInv, FirstStart, BarrierOpen, Opening, Blank

\* The start barriers of every behaviour in which no retry happens in place.
LEMMA StartsSound == Spec /\ []NoRetryInPlace => [](Sound /\ StartInv)
<1>1. Sound /\ StartInv /\ NoRetryInPlace' /\ [Next]_vars => StartInv'
  BY NextBarrier, NextFirstStart DEF StartInv
<1> QED BY <1>1, InitStart, ChannelsSound, PTL DEF Spec

\* What settles is an opening.
LEMMA SettleOpens == StartInv => BarrierClosedOnce
BY DEF StartInv, BarrierOpen, Opening, BarrierClosedOnce

\* No start barrier is closed twice, whatever the clients do and the world does, as
\* long as no failed command is retried in place.
THEOREM BarriersCloseOnce == Spec /\ []NoRetryInPlace => []BarrierClosedOnce
BY StartsSound, SettleOpens, PTL

-----------------------------------------------------------------------------
(* Launches of a command whose process is always the engine's own.         *)

\* No goroutine adopts or takes over.
UnmanagedLabels == {"adopt", "watchUnmanaged", "unmanagedBegin", "unmanaged", "takeOver",
                    "takeOverStart"}
AlwaysManaged == \A t \in Threads : pc[t] \notin UnmanagedLabels

\* On the way to a launch the last process has exited; a goroutine that waits for
\* that waits for the right one.
LaunchLabels == {"start", "checkUnmanaged", "prepare", "backoff", "relaunch", "launchEnv",
                 "launch"}
BeforeLaunch ==
  \A t \in Threads :
    /\ pc[t] \in LaunchLabels => C(t).cmd \notin alive
    /\ pc[t] = "awaitExit" /\ InEpisode(t) => loc[t].exited = C(t).exited

LaunchInv == AlwaysManaged /\ BeforeLaunch

\* How a goroutine comes to a launch, or to the wait before one.
Readies(u) ==
  /\ pc'[u] \in LaunchLabels =>
       \/ AcquireNew(u)
       \/ pc[u] \in LaunchLabels /\ loc'[u].obj = loc[u].obj
       \/ Kill(u) /\ C(u).cmd = NilChan /\ loc'[u].obj = loc[u].obj
       \/ AwaitExit(u) /\ InEpisode(u) /\ loc'[u].obj = loc[u].obj
  /\ pc'[u] = "awaitExit" =>
       \/ Kill(u) /\ loc'[u].obj = loc[u].obj /\ loc'[u].exited = C(u).exited
       \/ pc[u] = "awaitExit" /\ loc'[u] = loc[u]
  /\ pc'[u] \notin UnmanagedLabels

\* A goroutine that does not move.
LEMMA StaysReady ==
  ASSUME AlwaysManaged, NEW u \in Threads, pc'[u] = pc[u], loc'[u] = loc[u] PROVE Readies(u)
BY DEF Readies, AlwaysManaged

\* The steps of a worker.
LEMMA WorkerReadies ==
  ASSUME Typed, ControlInv, AlwaysManaged, ~Adoptable, NoRetryInPlace, NEW w \in Workers,
         WorkerStep(w)
  PROVE  Readies(w)
<1> USE ThreadsAre
<1>0. pc[w] \notin {"adopt", "watchUnmanaged", "restartInPlace"}
  BY DEF AlwaysManaged, UnmanagedLabels, NoRetryInPlace
<1> USE DEF Typed, PcOK, LocOK, Locals, Goto, ControlInv, Flow, ContLabels, Readies,
            LaunchLabels, UnmanagedLabels
<1>1. CASE MarkStarting(w) \/ ResetForRetry(w) \/ AcquireNew(w) \/ AcquireJoin(w)
  BY <1>1 DEF MarkStarting, ResetForRetry, AcquireNew, AcquireJoin
<1>2. CASE JoinWait(w) \/ EnvCheck(w) \/ EnvRead(w) \/ EnvCompare(w)
  BY <1>2 DEF JoinWait, EnvCheck, EnvRead, EnvCompare, Continue
<1>3. CASE StartCommand(w) \/ CheckUnmanaged(w) \/ Adopt(w) \/ WatchUnmanaged(w)
  BY Zenon, <1>0, <1>3 DEF StartCommand, CheckUnmanaged, Adopt, WatchUnmanaged
<1>4. CASE \/ RestartInPlace(w) \/ Cancel(w) \/ CancelWait(w) \/ RestartLock(w)
           \/ RestartBegin(w)
  BY <1>0, <1>4 DEF RestartInPlace, Cancel, CancelWait, RestartLock, RestartBegin
<1>5. CASE Relaunched(w)
  BY <1>5 DEF Relaunched
<1>6. CASE Unlock(w) \/ Release(w)
  BY <1>6 DEF Unlock, Release, Continue
<1>7. CASE \/ CancelStop(w) \/ StampStop(w) \/ ShutdownStop(w) \/ MarkRestarting(w)
           \/ MarkStopping(w) \/ StopBarrier(w) \/ StopWait(w)
  BY <1>7 DEF CancelStop, StampStop, ShutdownStop, MarkRestarting, MarkStopping, StopBarrier,
     StopWait
<1>8. CASE Stop(w) \/ Stopped(w) \/ EnvStopped(w) \/ ShutdownEnd(w) \/ FinishRun(w)
  BY <1>8 DEF Stop, Stopped, EnvStopped, ShutdownEnd, FinishRun, Continue
<1> QED BY <1>1, <1>2, <1>3, <1>4, <1>5, <1>6, <1>7, <1>8 DEF WorkerStep

\* The steps of a supervisor.
LEMMA MonitorReadies ==
  ASSUME Typed, ControlInv, AlwaysManaged, NEW m \in Monitors, MonitorStep(m)
  PROVE  Readies(m)
<1> USE ThreadsAre
<1>0. pc[m] \notin UnmanagedLabels
  BY DEF AlwaysManaged
<1> USE DEF Typed, PcOK, LocOK, Locals, Goto, Readies, LaunchLabels, UnmanagedLabels
<1>1. CASE UnmanagedBegin(m) \/ UnmanagedQuit(m) \/ TakeOver(m) \/ TakeOverStart(m)
  BY <1>0, <1>1 DEF UnmanagedBegin, UnmanagedQuit, TakeOver, TakeOverStart
<1>2. CASE \/ MonitorBegin(m) \/ Snapshot(m) \/ SuperviseQuit(m) \/ SuperviseExit(m)
           \/ GiveUp(m) \/ MonitorExit(m)
  BY <1>2 DEF MonitorBegin, Snapshot, SuperviseQuit, SuperviseExit, Unhealthy, GiveUp,
     MonitorExit, Continue
<1>3. CASE AttemptRestart(m) \/ RetriesExhausted(m) \/ Retry(m) \/ BackoffQuit(m)
  BY <1>3 DEF AttemptRestart, RetriesExhausted, Retry, BackoffQuit
<1>4. CASE BackoffElapses(m) \/ RetryResume(m) \/ RetryExit(m)
  BY <1>4 DEF BackoffElapses, RetryResume, RetryExit
<1>5. CASE Retried(m)
  <2>1. pc' = [pc EXCEPT ![m] = "rollup"] \/ pc' = [pc EXCEPT ![m] = "retry"]
    BY <1>5 DEF Retried
  <2> QED BY <2>1
<1> QED BY <1>1, <1>2, <1>3, <1>4, <1>5 DEF MonitorStep

\* The steps of the code both run.
LEMMA ThreadReadies ==
  ASSUME Typed, ControlInv, AlwaysManaged, NEW t \in Threads, ThreadStep(t), ~StartMonitor(t)
  PROVE  Readies(t)
<1> USE DEF Typed, PcOK, LocOK, Locals, Goto, Readies, ControlInv, Flow, LaunchLabels,
            UnmanagedLabels
<1>1. CASE Prepare(t) \/ LaunchEnv(t) \/ Launch(t) \/ SpawnProcess(t) \/ Relaunch(t)
  BY <1>1 DEF Prepare, LaunchEnv, Launch, SpawnProcess, Relaunch
<1>2. CASE ServiceExitsEarly(t) \/ ServiceReady(t)
  BY <1>2 DEF ServiceExitsEarly, ServiceReady
<1>3. CASE TaskExits(t) \/ TaskReady(t)
  BY <1>3 DEF TaskExits, TaskReady
<1>4. CASE Kill(t)
  BY <1>4 DEF Kill, AfterLabels, C
<1>5. CASE AwaitExit(t)
  BY <1>5 DEF AwaitExit, AfterLabels, InEpisode
<1>6. CASE Settle(t) \/ Started(t)
  BY <1>6 DEF Settle, Started, Continue, RetLabels
<1>7. CASE Rollup(t)
  <2>1. CASE loc[t].todo = {}
    BY <1>7, <2>1 DEF Rollup, Continue, ThenLabels
  <2>2. CASE loc[t].todo # {}
    <3>1. pc' = [pc EXCEPT ![t] = "rollup"] \/ pc' = [pc EXCEPT ![t] = "rollupRead"]
      BY <1>7, <2>2 DEF Rollup
    <3> QED BY <3>1
  <2> QED BY <2>1, <2>2
<1>8. CASE RollupRead(t) \/ RollupWrite(t)
  BY <1>8 DEF RollupRead, RollupWrite
<1> QED BY <1>1, <1>2, <1>3, <1>4, <1>5, <1>6, <1>7, <1>8 DEF ThreadStep

\* A new request.
LEMMA RequestReadies ==
  ASSUME Typed, NEW w \in Workers, Request(w) PROVE Readies(w)
<1> USE ThreadsAre
<1> USE DEF Typed, PcOK, LocOK, Locals, Goto, Readies, Begin, LaunchLabels, UnmanagedLabels
<1>1. ASSUME NEW e \in Envs, StartEnvironment(w, e) PROVE Readies(w)
  BY <1>1 DEF StartEnvironment
<1>2. ASSUME NEW e \in Envs, StopEnvironment(w, e) PROVE Readies(w)
  BY <1>2 DEF StopEnvironment
<1>3. CASE RestartCommand(w)
  BY <1>3 DEF RestartCommand
<1>4. CASE Shutdown(w)
  BY <1>4 DEF Shutdown
<1> QED BY <1>1, <1>2, <1>3, <1>4 DEF Request

\* The steps of the world.
LEMMA FaultReadies ==
  ASSUME Typed, AlwaysManaged, FaultStep PROVE \A u \in Threads : Readies(u)
<1> USE ThreadsAre
<1> USE DEF LaunchLabels, UnmanagedLabels
<1>1. ASSUME NEW t \in Threads,
             PrepareFails(t) \/ SpawnFails(t) \/ ServiceTimesOut(t) \/ TaskTimesOut(t)
      PROVE  OnlyMoves(t) /\ Readies(t)
  BY <1>1 DEF PrepareFails, SpawnFails, ServiceTimesOut, TaskTimesOut, Goto, OnlyMoves,
     Typed, PcOK, LocOK, Locals, Readies
<1>2. ASSUME NEW m \in Monitors, SuperviseLiveness(m) \/ UnmanagedProbeFails(m)
      PROVE  OnlyMoves(m) /\ Readies(m)
  BY <1>2 DEF SuperviseLiveness, UnmanagedProbeFails, Unhealthy, Goto, OnlyMoves, Typed, PcOK,
     LocOK, Locals, Readies, AlwaysManaged
<1>3. ASSUME NEW w \in Workers, ShutdownDeadline(w) PROVE UNCHANGED <<pc, loc>>
  BY <1>3 DEF ShutdownDeadline
<1>4. ASSUME NEW p \in alive, ProcessCrashes(p) PROVE UNCHANGED <<pc, loc>>
  BY <1>4 DEF ProcessCrashes
<1>5. ASSUME NEW t \in Threads, OnlyMoves(t), Readies(t) PROVE \A u \in Threads : Readies(u)
  BY <1>5, StaysReady DEF OnlyMoves
<1>6. CASE UNCHANGED <<pc, loc>>
  BY <1>6, StaysReady
<1> QED BY <1>1, <1>2, <1>3, <1>4, <1>5, <1>6 DEF FaultStep

\* What every step does to every goroutine on its way to a launch.
LEMMA NextReadies ==
  ASSUME Typed, ControlInv, AlwaysManaged, ~Adoptable, NoRetryInPlace, [Next]_vars
  PROVE  \A u \in Threads : Readies(u)
<1> USE ThreadsAre
<1>1. ASSUME NEW t \in Threads, OnlyMoves(t), Readies(t) PROVE \A u \in Threads : Readies(u)
  BY Zenon, <1>1, StaysReady DEF OnlyMoves
<1>2. ASSUME NEW w \in Workers, Request(w) PROVE OnlyMoves(w)
  BY <1>2 DEF Request, StartEnvironment, StopEnvironment, RestartCommand, Shutdown, Goto,
     OnlyMoves, Typed, PcOK, LocOK
<1>3. ASSUME NEW p \in alive, ProcessExits(p) PROVE UNCHANGED <<pc, loc>>
  BY <1>3 DEF ProcessExits
<1>4. CASE UNCHANGED <<pc, loc>>
  BY <1>4, StaysReady
<1>5. ASSUME NEW w \in Workers, Request(w) PROVE \A u \in Threads : Readies(u)
  BY <1>1, <1>2, <1>5, RequestReadies
<1>6. ASSUME NEW w \in Workers, WorkerStep(w) PROVE \A u \in Threads : Readies(u)
  <2>1. ~WatchUnmanaged(w)
    BY DEF WatchUnmanaged, AlwaysManaged, UnmanagedLabels
  <2> QED BY <1>1, <1>6, <2>1, WorkerMoves, WorkerReadies
<1>7. ASSUME NEW m \in Monitors, MonitorStep(m) PROVE \A u \in Threads : Readies(u)
  BY <1>1, <1>7, MonitorMoves, MonitorReadies
<1>8. ASSUME NEW t \in Threads, StartMonitor(t) PROVE \A u \in Threads : Readies(u)
  <2>1. PICK m \in Monitors, h \in {"settle", "rollup"} :
          /\ pc' = [pc EXCEPT ![t] = h, ![m] = "monitorBegin"]
          /\ loc' = [loc EXCEPT ![m] = [Blank EXCEPT !.obj = loc[t].obj]]
    BY <1>8 DEF StartMonitor, Spawn, ControlInv, Flow
  <2>2. ASSUME NEW u \in Threads \ {m, t} PROVE pc'[u] = pc[u] /\ loc'[u] = loc[u]
    BY <2>1 DEF Typed, PcOK, LocOK
  <2>3. /\ pc'[t] \in {"settle", "rollup", "monitorBegin"}
        /\ pc'[m] \in {"settle", "rollup", "monitorBegin"}
    BY <2>1 DEF Typed, PcOK
  <2>4. Readies(t) /\ Readies(m)
    BY <2>3 DEF Readies, LaunchLabels, UnmanagedLabels
  <2> QED BY <2>2, <2>4, StaysReady
<1>9. ASSUME NEW t \in Threads, ThreadStep(t) PROVE \A u \in Threads : Readies(u)
  BY <1>1, <1>8, <1>9, ThreadMoves, ThreadReadies
<1>10. CASE UNCHANGED vars
  BY <1>4, <1>10 DEF vars
<1> QED BY <1>3, <1>4, <1>5, <1>6, <1>7, <1>9, <1>10, FaultReadies DEF Next

\* The process of a struct that is down stays down until somebody launches it.
LEMMA StillDown ==
  ASSUME Sound, [Next]_vars, NEW o \in 1 .. nobj, commands[o].cmd \notin alive,
         \A t \in Threads : pc[t] = "spawn" => loc[t].obj # o
  PROVE  commands'[o].cmd \notin alive'
<1> USE ThreadsAre
<1>0. /\ Typed /\ ControlInv /\ ChannelsMade /\ OnePurpose /\ ExitsFit
      /\ o \in Objs /\ o # nobj + 1
  BY ConstantsOK DEF Sound, IndInv, ChannelInv, Typed, HeapOK, Objs, ConstantsOK
<1>1. CASE ~LinkStep
  <2>1. commands'[o].cmd = commands[o].cmd
    BY <1>0, <1>1, OtherSteps DEF LinksKept, SameLinks
  <2>2. alive' \subseteq alive
    BY <1>0, <1>1, CloseEffect DEF Closes
  <2> QED BY <2>1, <2>2
<1>2. ASSUME NEW w \in Workers, AcquireNew(w) PROVE commands'[o].cmd \notin alive'
  BY <1>0, <1>2 DEF AcquireNew, Typed, HeapOK, procs
<1>3. ASSUME NEW t \in Threads, ProcessLinks(t) PROVE commands'[o].cmd \notin alive'
  <2>1. alive' = alive
    BY <1>3 DEF ProcessLinks, CheckUnmanaged, WatchUnmanaged, RestartLock, TakeOver, StartMonitor,
       Relaunch, procs
  <2> QED BY Zenon, <1>0, <1>3, <2>1, ProcessKept
<1>4. ASSUME NEW t \in Threads, Launch(t) PROVE commands'[o].cmd \notin alive'
  BY <1>0, <1>4 DEF Launch, Typed, HeapOK, Command, procs
<1>5. ASSUME NEW t \in Threads, SpawnProcess(t) PROVE commands'[o].cmd \notin alive'
  <2> DEFINE q == loc[t].obj
  <2>1. q \in Objs /\ q # o /\ commands[q].exited # NilChan
    BY <1>0, <1>5, ObjMade DEF SpawnProcess, FreeLabels, RollupLabels, C
  <2>2. commands'[o] = commands[o] /\ alive' = alive \cup {commands[q].exited}
    BY <1>0, <1>5, <2>1 DEF SpawnProcess, Typed, HeapOK, C
  <2>3. commands[o].cmd # commands[q].exited
    BY <1>0, <2>1, PurposesApart
  <2> QED BY <2>2, <2>3
<1> QED BY <1>1, <1>2, <1>3, <1>4, <1>5 DEF LinkStep, WorkerLinks, ThreadLinks, ProcessLinks

\* The exited channel of a struct is assigned by launchProcess.
LEMMA ExitedKept ==
  ASSUME Sound, [Next]_vars, NEW o \in 1 .. nobj,
         \A t \in Threads : pc[t] = "launch" => loc[t].obj # o
  PROVE  commands'[o].exited = commands[o].exited
<1> USE ThreadsAre
<1>0. Typed /\ ControlInv /\ o \in Objs /\ o # nobj + 1
  BY ConstantsOK DEF Sound, IndInv, Typed, HeapOK, Objs, ConstantsOK
<1>1. CASE ~LinkStep
  BY <1>0, <1>1, OtherSteps DEF LinksKept, SameLinks
<1>2. ASSUME NEW w \in Workers, AcquireNew(w) PROVE commands'[o].exited = commands[o].exited
  BY <1>0, <1>2 DEF AcquireNew, Typed, HeapOK
<1>3. ASSUME NEW t \in Threads, ProcessLinks(t) PROVE commands'[o].exited = commands[o].exited
  BY <1>0, <1>3, ProcessKept
<1>4. ASSUME NEW t \in Threads, Launch(t) PROVE commands'[o].exited = commands[o].exited
  BY <1>0, <1>4 DEF Launch, Typed, HeapOK
<1>5. ASSUME NEW t \in Threads, SpawnProcess(t) PROVE commands'[o].exited = commands[o].exited
  BY <1>0, <1>5 DEF SpawnProcess, Typed, HeapOK, Command
<1> QED BY <1>1, <1>2, <1>3, <1>4, <1>5 DEF LinkStep, WorkerLinks, ThreadLinks, ProcessLinks

\* Nobody else launches the process of a goroutine on its way to a launch.
LEMMA LaunchesAlone ==
  ASSUME Sound, FirstStart, NEW t \in Threads, NEW x \in Threads, x # t,
         pc[x] \in {"checkUnmanaged", "watchUnmanaged", "launch", "spawn", "startMonitor"},
         InEpisode(t) \/ pc[t] = "start", loc[t].obj \in Objs
  PROVE  loc[x].obj # loc[t].obj
<1>1. InEpisode(x)
  BY DEF InEpisode, EpisodeLabels
<1>2. CASE InEpisode(t)
  BY <1>1, <1>2, EpisodeAlone DEF Sound, IndInv
<1>3. CASE pc[t] = "start"
  BY <1>3 DEF FirstStart, Bystanding, FreeLabels, RollupLabels
<1> QED BY <1>2, <1>3

\* On the way to a launch the last process stays down.
LEMMA NextLaunch ==
  ASSUME Sound, StartInv, LaunchInv, ~Adoptable, NoRetryInPlace, [Next]_vars PROVE LaunchInv'
<1>0. /\ Typed /\ ControlInv /\ ChannelsMade /\ OnePurpose /\ ExitsFit /\ FirstStart
      /\ AlwaysManaged /\ BeforeLaunch
  BY DEF Sound, IndInv, ChannelInv, StartInv, LaunchInv
<1>1. \A u \in Threads : Readies(u)
  BY <1>0, NextReadies
<1>2. AlwaysManaged'
  BY <1>1 DEF Readies, AlwaysManaged
<1>3. NilChan \notin alive'
  <2>1. ChannelsMade' /\ fresh' \in Nat
    BY NextChannels, NextTyped DEF Sound, IndInv, ChannelInv, Typed, WorldOK
  <2> QED BY <2>1 DEF ChannelsMade, NilChan
<1>4. ASSUME NEW t \in Threads, pc[t] \in LaunchLabels \/ pc[t] = "awaitExit"
      PROVE  loc[t].obj \in Objs /\ loc[t].obj \in 1 .. nobj
  BY <1>0, <1>4, ObjMade DEF LaunchLabels, FreeLabels, RollupLabels
<1>5. ASSUME NEW t \in Threads, pc'[t] \in LaunchLabels PROVE C(t)'.cmd \notin alive'
  <2>1. CASE AcquireNew(t)
    <3>1. nobj + 1 \in Objs
      BY <1>0, <2>1, ConstantsOK DEF Typed, HeapOK, AcquireNew, Objs, ConstantsOK
    <3>2. loc'[t].obj = nobj + 1
      BY <1>0, <2>1 DEF AcquireNew, Typed, LocOK, Locals
    <3>3. commands'[nobj + 1] = [NewCommand(fresh + 1, fresh + 2) EXCEPT !.holders = loc[t].env]
      BY <1>0, <2>1, <3>1 DEF AcquireNew, Typed, HeapOK
    <3> QED BY <1>3, <3>2, <3>3 DEF NewCommand, C
  <2>2. CASE pc[t] \in LaunchLabels /\ loc'[t].obj = loc[t].obj
    <3>1. InEpisode(t) \/ pc[t] = "start"
      BY <2>2 DEF InEpisode, EpisodeLabels, LaunchLabels
    <3>2. \A x \in Threads : pc[x] = "spawn" => loc[x].obj # loc[t].obj
      BY <1>0, <1>4, <2>2, <3>1, LaunchesAlone DEF LaunchLabels
    <3>3. commands[loc[t].obj].cmd \notin alive
      BY <1>0, <2>2 DEF BeforeLaunch, C
    <3> QED BY <1>4, <2>2, <3>2, <3>3, StillDown DEF C
  <2>3. CASE Kill(t) /\ C(t).cmd = NilChan /\ loc'[t].obj = loc[t].obj
    BY <1>3, <2>3 DEF Kill, heap, C
  <2>4. CASE AwaitExit(t) /\ InEpisode(t) /\ loc'[t].obj = loc[t].obj
    <3>1. C(t).exited \in closed /\ loc[t].obj \in Objs /\ C(t).exited # NilChan
      BY <1>0, <1>4, <2>4, ObjMade DEF AwaitExit, BeforeLaunch, FreeLabels, RollupLabels
    <3>2. C(t).cmd \notin alive
      BY <1>0, <3>1 DEF ExitsFit, C
    <3> QED BY <2>4, <3>2 DEF AwaitExit, heap, procs, C
  <2> QED BY <1>1, <1>5, <2>1, <2>2, <2>3, <2>4 DEF Readies
<1>6. ASSUME NEW t \in Threads, pc'[t] = "awaitExit", InEpisode(t)'
      PROVE  loc'[t].exited = C(t)'.exited
  <2>1. CASE Kill(t) /\ loc'[t].obj = loc[t].obj /\ loc'[t].exited = C(t).exited
    BY <2>1 DEF Kill, heap, C
  <2>2. CASE pc[t] = "awaitExit" /\ loc'[t] = loc[t]
    <3>1. InEpisode(t)
      BY <1>6, <2>2 DEF InEpisode, EpisodeLabels
    <3>2. \A x \in Threads : pc[x] = "launch" => loc[x].obj # loc[t].obj
      BY <1>0, <1>4, <2>2, <3>1, LaunchesAlone
    <3>3. commands'[loc[t].obj].exited = commands[loc[t].obj].exited
      BY <1>4, <2>2, <3>2, ExitedKept
    <3> QED BY <1>0, <2>2, <3>1, <3>3 DEF BeforeLaunch, C
  <2> QED BY <1>1, <1>6, <2>1, <2>2 DEF Readies
<1> QED BY <1>2, <1>5, <1>6 DEF LaunchInv, BeforeLaunch

\* In the initial state no launch is under way.
LEMMA InitLaunch == Init => LaunchInv
BY DEF Init, LaunchInv, AlwaysManaged, UnmanagedLabels, BeforeLaunch, LaunchLabels

\* The launches of every behaviour of a command that is never adopted and never
\* retried in place.
LEMMA LaunchesSound ==
  ASSUME ~Adoptable
  PROVE  Spec /\ []NoRetryInPlace => [](Sound /\ StartInv /\ LaunchInv)
<1>1. Sound /\ StartInv /\ LaunchInv /\ NoRetryInPlace /\ [Next]_vars => LaunchInv'
  BY NextLaunch
<1> QED BY <1>1, InitLaunch, StartsSound, PTL DEF Spec

\* A process is only launched when the last one has exited.
THEOREM LaunchesAfterExit ==
  ASSUME ~Adoptable PROVE Spec /\ []NoRetryInPlace => []LaunchAfterExit
<1>1. LaunchInv => LaunchAfterExit
  BY DEF LaunchInv, BeforeLaunch, LaunchLabels, LaunchAfterExit
<1> QED BY <1>1, LaunchesSound, PTL

-----------------------------------------------------------------------------
(* The supervisor of a command whose process is always the engine's own.    *)

\* One public operation at a time restarts, or first starts, a struct; any number
\* may stop it, join it or look at it meanwhile.
Driving(w) == InEpisode(w) \/ pc[w] \in {"start", "cancel", "cancelWait", "restartLock"}
TakeTurns ==
  \A v, w \in Workers :
    Driving(v) /\ Driving(w) /\ loc[v].obj = loc[w].obj => v = w

\* Only a worker starts a supervisor.
MonitorsRetry == \A m \in Monitors : loc[m].ret # "started" /\ pc[m] # "startMonitor"

\* A struct has one supervisor.
MonitorsApart ==
  \A m, n \in Monitors :
    pc[m] # "idle" /\ pc[n] # "idle" /\ loc[m].obj = loc[n].obj => m = n

\* monitorDone is that of the supervisor that runs, and is open as long as it runs.
MonitorsNoted ==
  \A m \in Monitors : pc[m] # "idle" =>
    /\ loc[m].obj # NoObj
    /\ C(m).monitorDone # NilChan /\ C(m).monitorDone \notin closed
    /\ pc[m] # "monitorBegin" => loc[m].done = C(m).monitorDone

\* From the lock of an episode of its own to the supervisor it ends with, a worker
\* is alone: a first start, or a restart that has waited for the last supervisor.
Unwatched(w) ==
  \/ pc[w] \in {"start", "restartLock", "restartBegin", "checkUnmanaged", "prepare",
                "launchEnv", "launch", "spawn", "awaitReady", "awaitTask", "probeTask", "relaunch",
                "relaunched", "startMonitor"}
  \/ pc[w] \in {"kill", "awaitExit"} /\ InEpisode(w)
  \/ pc[w] = "settle" /\ loc[w].ret = "relaunched"
UnwatchedAlone ==
  \A w \in Workers : Unwatched(w) =>
    \A m \in Monitors : pc[m] # "idle" => loc[m].obj # loc[w].obj

\* A restart waits for the supervisor there is, and a first start that has its
\* supervisor is over.
RestartsWait ==
  \A w \in Workers :
    /\ pc[w] = "cancelWait" => loc[w].done = C(w).monitorDone
    /\ pc[w] = "startMonitor" /\ loc[w].after = "settle" => loc[w].ret = "started"

SupervisorInv ==
  MonitorsRetry /\ MonitorsApart /\ MonitorsNoted /\ UnwatchedAlone /\ RestartsWait

\* How a supervisor goes on, and how a worker comes to where it must be alone.
Watches(u) ==
  /\ u \in Monitors =>
       /\ pc'[u] # "idle" => pc[u] # "idle" /\ loc'[u].obj = loc[u].obj
       /\ loc'[u].ret # "started" /\ pc'[u] # "startMonitor"
       /\ pc'[u] \notin {"idle", "monitorBegin"} =>
            \/ loc'[u].done = C(u).monitorDone
            \/ pc[u] # "monitorBegin" /\ loc'[u].done = loc[u].done
  /\ u \in Workers =>
       /\ Unwatched(u)' =>
            \/ Unwatched(u) /\ loc'[u].obj = loc[u].obj
            \/ AcquireNew(u)
            \/ CancelWait(u) /\ loc'[u].obj = loc[u].obj
       /\ pc'[u] = "cancelWait" =>
            \/ /\ pc[u] = "cancel" /\ loc'[u].obj = loc[u].obj
               /\ loc'[u].done = C(u).monitorDone
            \/ pc[u] = "cancelWait" /\ loc'[u] = loc[u]
       /\ pc'[u] = "startMonitor" /\ loc'[u].after = "settle" => loc'[u].ret = "started"

\* A goroutine that does not move.
LEMMA StaysWatching ==
  ASSUME MonitorsRetry, RestartsWait, NEW u \in Threads, pc'[u] = pc[u], loc'[u] = loc[u]
  PROVE  Watches(u)
BY DEF Watches, MonitorsRetry, RestartsWait, Unwatched, InEpisode

\* The steps of a worker.
LEMMA WorkerWatches ==
  ASSUME Typed, ControlInv, AlwaysManaged, NoRetryInPlace, RestartsWait, NEW w \in Workers,
         WorkerStep(w)
  PROVE  Watches(w)
<1> USE ThreadsAre
<1>0. pc[w] \notin {"adopt", "watchUnmanaged", "restartInPlace"}
  BY DEF AlwaysManaged, UnmanagedLabels, NoRetryInPlace
<1> USE DEF Typed, PcOK, LocOK, Locals, Goto, ControlInv, Flow, ContLabels, Watches,
            Unwatched, InEpisode, EpisodeLabels
<1>1. CASE MarkStarting(w) \/ ResetForRetry(w) \/ AcquireNew(w) \/ AcquireJoin(w)
  BY <1>1 DEF MarkStarting, ResetForRetry, AcquireNew, AcquireJoin
<1>2. CASE JoinWait(w) \/ EnvCheck(w) \/ EnvRead(w) \/ EnvCompare(w)
  BY <1>2 DEF JoinWait, EnvCheck, EnvRead, EnvCompare, Continue
<1>3. CASE StartCommand(w) \/ CheckUnmanaged(w) \/ Adopt(w) \/ WatchUnmanaged(w)
  BY Zenon, <1>0, <1>3 DEF StartCommand, CheckUnmanaged, Adopt, WatchUnmanaged
<1>4. CASE \/ RestartInPlace(w) \/ Cancel(w) \/ CancelWait(w) \/ RestartLock(w)
           \/ RestartBegin(w)
  BY <1>0, <1>4 DEF RestartInPlace, Cancel, CancelWait, RestartLock, RestartBegin
<1>5. CASE Relaunched(w)
  BY <1>5 DEF Relaunched
<1>6. CASE Unlock(w) \/ Release(w)
  BY <1>6 DEF Unlock, Release, Continue
<1>7. CASE \/ CancelStop(w) \/ StampStop(w) \/ ShutdownStop(w) \/ MarkRestarting(w)
           \/ MarkStopping(w) \/ StopBarrier(w) \/ StopWait(w)
  BY <1>7 DEF CancelStop, StampStop, ShutdownStop, MarkRestarting, MarkStopping, StopBarrier,
     StopWait
<1>8. CASE Stop(w) \/ Stopped(w) \/ EnvStopped(w) \/ ShutdownEnd(w) \/ FinishRun(w)
  BY <1>8 DEF Stop, Stopped, EnvStopped, ShutdownEnd, FinishRun, Continue
<1> QED BY <1>1, <1>2, <1>3, <1>4, <1>5, <1>6, <1>7, <1>8 DEF WorkerStep

\* The steps of a supervisor.
LEMMA MonitorWatches ==
  ASSUME Typed, ControlInv, AlwaysManaged, MonitorsRetry, NEW m \in Monitors, MonitorStep(m)
  PROVE  Watches(m)
<1> USE ThreadsAre
<1>0. pc[m] \notin UnmanagedLabels /\ loc[m].ret # "started"
  BY DEF AlwaysManaged, MonitorsRetry
<1> USE DEF Typed, PcOK, LocOK, Locals, Goto, Watches, Unwatched, InEpisode, EpisodeLabels
<1>1. CASE UnmanagedBegin(m) \/ UnmanagedQuit(m) \/ TakeOver(m) \/ TakeOverStart(m)
  BY <1>0, <1>1 DEF UnmanagedLabels, UnmanagedBegin, UnmanagedQuit, TakeOver, TakeOverStart
<1> USE <1>0
<1>2. CASE \/ MonitorBegin(m) \/ Snapshot(m) \/ SuperviseQuit(m) \/ SuperviseExit(m)
           \/ GiveUp(m) \/ MonitorExit(m)
  BY <1>2 DEF MonitorBegin, Snapshot, SuperviseQuit, SuperviseExit, Unhealthy, GiveUp,
     MonitorExit, Continue, Blank
<1>3. CASE AttemptRestart(m) \/ RetriesExhausted(m) \/ Retry(m) \/ BackoffQuit(m)
  BY <1>3 DEF AttemptRestart, RetriesExhausted, Retry, BackoffQuit
<1>4. CASE BackoffElapses(m) \/ RetryResume(m) \/ RetryExit(m)
  BY <1>4 DEF BackoffElapses, RetryResume, RetryExit
<1>5. CASE Retried(m)
  <2>1. \/ /\ pc' = [pc EXCEPT ![m] = "rollup"]
           /\ loc' = [loc EXCEPT ![m].todo = Envs, ![m].then = "retryResume"]
        \/ pc' = [pc EXCEPT ![m] = "retry"] /\ UNCHANGED loc
    BY <1>5 DEF Retried
  <2>2. pc[m] = "retried"
    BY <1>5 DEF Retried
  <2> QED BY <2>1, <2>2
<1> QED BY <1>1, <1>2, <1>3, <1>4, <1>5 DEF MonitorStep

\* The steps of the code both run.
LEMMA ThreadWatches ==
  ASSUME Typed, ControlInv, MonitorsRetry, RestartsWait, NEW t \in Threads, ThreadStep(t),
         ~StartMonitor(t)
  PROVE  Watches(t)
<1>0. /\ t \in Monitors => loc[t].ret # "started" /\ pc[t] # "startMonitor"
      /\ ~(t \in Monitors /\ t \in Workers)
  BY ThreadsAre DEF MonitorsRetry
<1> USE <1>0 DEF Typed, PcOK, LocOK, Locals, Goto, Watches, ControlInv, Flow, Unwatched,
            InEpisode, EpisodeLabels
<1>1. CASE Prepare(t) \/ LaunchEnv(t) \/ Launch(t) \/ SpawnProcess(t) \/ Relaunch(t)
  BY <1>1 DEF Prepare, LaunchEnv, Launch, SpawnProcess, Relaunch
<1>2. CASE ServiceExitsEarly(t) \/ TaskExits(t)
  BY <1>2 DEF ServiceExitsEarly, TaskExits
<1>3. CASE ServiceReady(t) \/ TaskReady(t)
  <2>1. /\ pc[t] \in {"awaitReady", "probeTask"} /\ pc'[t] \in {"startMonitor", "settle"}
        /\ pc'[t] = "startMonitor" => loc[t].ret = "started"
    BY <1>3 DEF ServiceReady, TaskReady, IsFreshStart
  <2>2. \/ loc' = [loc EXCEPT ![t].after = "settle"]
        \/ loc' = [loc EXCEPT ![t].ok = TRUE]
    BY <1>3 DEF ServiceReady, TaskReady
  <2> QED BY <2>1, <2>2
<1>4. CASE Kill(t)
  BY <1>4 DEF Kill, AfterLabels, C
<1>5. CASE AwaitExit(t)
  BY <1>5 DEF AwaitExit, AfterLabels, InEpisode
<1>6. CASE Settle(t) \/ Started(t)
  BY <1>6 DEF Settle, Started, Continue, RetLabels, Blank
<1>7. CASE Rollup(t)
  <2>1. CASE loc[t].todo = {}
    BY <1>7, <2>1 DEF Rollup, Continue, ThenLabels, Blank
  <2>2. CASE loc[t].todo # {}
    <3>1. PICK e \in loc[t].todo :
            /\ loc' = [loc EXCEPT ![t].todo = @ \ {e}, ![t].roll = {e}]
            /\ \/ pc' = [pc EXCEPT ![t] = "rollup"]
               \/ pc' = [pc EXCEPT ![t] = "rollupRead"]
      BY <1>7, <2>2 DEF Rollup
    <3>2. pc[t] = "rollup"
      BY <1>7 DEF Rollup
    <3> QED BY <3>1, <3>2
  <2> QED BY <2>1, <2>2
<1>8. CASE RollupRead(t) \/ RollupWrite(t)
  BY <1>8 DEF RollupRead, RollupWrite
<1> QED BY <1>1, <1>2, <1>3, <1>4, <1>5, <1>6, <1>7, <1>8 DEF ThreadStep

\* A new request.
LEMMA RequestWatches ==
  ASSUME Typed, NEW w \in Workers, Request(w) PROVE Watches(w)
<1> USE ThreadsAre
<1> USE DEF Typed, PcOK, LocOK, Locals, Goto, Watches, Begin, Unwatched, InEpisode, EpisodeLabels
<1>1. ASSUME NEW e \in Envs, StartEnvironment(w, e) PROVE Watches(w)
  BY <1>1 DEF StartEnvironment
<1>2. ASSUME NEW e \in Envs, StopEnvironment(w, e) PROVE Watches(w)
  BY <1>2 DEF StopEnvironment
<1>3. CASE RestartCommand(w)
  BY <1>3 DEF RestartCommand
<1>4. CASE Shutdown(w)
  BY <1>4 DEF Shutdown
<1> QED BY <1>1, <1>2, <1>3, <1>4 DEF Request

\* The steps of the world.
LEMMA FaultWatches ==
  ASSUME Typed, MonitorsRetry, RestartsWait, FaultStep PROVE \A u \in Threads : Watches(u)
<1> USE ThreadsAre
<1> USE DEF Unwatched, InEpisode, EpisodeLabels
<1>1. ASSUME NEW t \in Threads,
             PrepareFails(t) \/ SpawnFails(t) \/ ServiceTimesOut(t) \/ TaskTimesOut(t)
      PROVE  OnlyMoves(t) /\ Watches(t)
  BY <1>1 DEF MonitorsRetry, PrepareFails, SpawnFails, ServiceTimesOut, TaskTimesOut, Goto,
     OnlyMoves,
     Typed, PcOK, LocOK, Locals, Watches
<1>2. ASSUME NEW m \in Monitors, SuperviseLiveness(m) \/ UnmanagedProbeFails(m)
      PROVE  OnlyMoves(m) /\ Watches(m)
  BY <1>2 DEF SuperviseLiveness, UnmanagedProbeFails, Unhealthy, Goto, OnlyMoves, Typed, PcOK,
     LocOK, Locals, Watches, MonitorsRetry
<1>3. ASSUME NEW w \in Workers, ShutdownDeadline(w) PROVE UNCHANGED <<pc, loc>>
  BY <1>3 DEF ShutdownDeadline
<1>4. ASSUME NEW p \in alive, ProcessCrashes(p) PROVE UNCHANGED <<pc, loc>>
  BY <1>4 DEF ProcessCrashes
<1>5. ASSUME NEW t \in Threads, OnlyMoves(t), Watches(t) PROVE \A u \in Threads : Watches(u)
  BY <1>5, StaysWatching DEF OnlyMoves
<1>6. CASE UNCHANGED <<pc, loc>>
  BY <1>6, StaysWatching
<1> QED BY <1>1, <1>2, <1>3, <1>4, <1>5, <1>6 DEF FaultStep

\* What a step that starts no supervisor does to every goroutine.
LEMMA NextWatches ==
  ASSUME Typed, ControlInv, AlwaysManaged, NoRetryInPlace, MonitorsRetry, RestartsWait, [Next]_vars,
         \A t \in Threads : ~StartMonitor(t)
  PROVE  \A u \in Threads : Watches(u)
<1> USE ThreadsAre
<1>1. ASSUME NEW t \in Threads, OnlyMoves(t), Watches(t) PROVE \A u \in Threads : Watches(u)
  BY Zenon, <1>1, StaysWatching DEF OnlyMoves
<1>2. ASSUME NEW w \in Workers, Request(w) PROVE OnlyMoves(w)
  BY <1>2 DEF Request, StartEnvironment, StopEnvironment, RestartCommand, Shutdown, Goto,
     OnlyMoves, Typed, PcOK, LocOK
<1>3. ASSUME NEW p \in alive, ProcessExits(p) PROVE UNCHANGED <<pc, loc>>
  BY <1>3 DEF ProcessExits
<1>4. CASE UNCHANGED <<pc, loc>>
  BY <1>4, StaysWatching
<1>5. ASSUME NEW w \in Workers, Request(w) PROVE \A u \in Threads : Watches(u)
  BY <1>1, <1>2, <1>5, RequestWatches
<1>6. ASSUME NEW w \in Workers, WorkerStep(w) PROVE \A u \in Threads : Watches(u)
  <2>1. ~WatchUnmanaged(w)
    BY DEF WatchUnmanaged, AlwaysManaged, UnmanagedLabels
  <2> QED BY <1>1, <1>6, <2>1, WorkerMoves, WorkerWatches
<1>7. ASSUME NEW m \in Monitors, MonitorStep(m) PROVE \A u \in Threads : Watches(u)
  BY <1>1, <1>7, MonitorMoves, MonitorWatches
<1>8. ASSUME NEW t \in Threads, ThreadStep(t) PROVE \A u \in Threads : Watches(u)
  BY <1>1, <1>8, ThreadMoves, ThreadWatches
<1>9. CASE UNCHANGED vars
  BY <1>4, <1>9 DEF vars
<1> QED BY <1>3, <1>4, <1>5, <1>6, <1>7, <1>8, <1>9, FaultWatches DEF Next

\* monitorDone is assigned by startMonitor alone.
LEMMA MonitorDoneKept ==
  ASSUME Typed, ControlInv, [Next]_vars, \A t \in Threads : ~StartMonitor(t), NEW o \in 1 .. nobj
  PROVE  commands'[o].monitorDone = commands[o].monitorDone
<1> USE ThreadsAre
<1>0. o \in Objs /\ o # nobj + 1
  BY ConstantsOK DEF Typed, HeapOK, Objs, ConstantsOK
<1>1. CASE ~LinkStep
  BY <1>0, <1>1, OtherSteps DEF LinksKept, SameLinks
<1>2. ASSUME NEW w \in Workers, AcquireNew(w)
      PROVE  commands'[o].monitorDone = commands[o].monitorDone
  BY <1>0, <1>2 DEF AcquireNew, Typed, HeapOK
<1>3. ASSUME NEW t \in Threads,
             CheckUnmanaged(t) \/ WatchUnmanaged(t) \/ TakeOver(t) \/ Relaunch(t)
      PROVE  commands'[o].monitorDone = commands[o].monitorDone
  BY <1>0, <1>3 DEF CheckUnmanaged, WatchUnmanaged, TakeOver, Relaunch, Typed, HeapOK, Command
<1>4. ASSUME NEW t \in Threads, Launch(t) \/ SpawnProcess(t)
      PROVE  commands'[o].monitorDone = commands[o].monitorDone
  BY <1>0, <1>4 DEF Launch, SpawnProcess, Typed, HeapOK, Command
<1>5. ASSUME NEW w \in Workers, RestartLock(w)
      PROVE  commands'[o].monitorDone = commands[o].monitorDone
  <2> DEFINE q == loc[w].obj
  <2> DEFINE c == [commands[q] EXCEPT !.restartMu = w, !.userStopped = FALSE,
                                      !.quit = NilChan, !.retries = 0]
  <2>1. q \in Objs
    BY <1>5, ObjOK DEF Typed, RestartLock, FreeLabels, RollupLabels
  <2>2. c.monitorDone = commands[q].monitorDone
    BY <2>1, FieldsOK DEF Typed, Command
  <2>3. commands' = [commands EXCEPT ![q] = c]
    BY <1>5 DEF RestartLock
  <2> HIDE DEF c
  <2> QED BY <1>0, <2>1, <2>2, <2>3 DEF Typed, HeapOK
<1> QED BY <1>1, <1>2, <1>3, <1>4, <1>5 DEF LinkStep, WorkerLinks, ThreadLinks

\* The supervisor's monitorDone is closed by the supervisor alone.
LEMMA MonitorDoneOpen ==
  ASSUME Sound, MonitorsApart, MonitorsNoted, [Next]_vars, NEW m \in Monitors, pc[m] # "idle",
         loc[m].obj \in 1 .. nobj, ~MonitorExit(m)
  PROVE  C(m).monitorDone \notin closed'
<1> DEFINE o == loc[m].obj
<1>0. /\ Typed /\ ControlInv /\ ChannelsMade /\ OnePurpose /\ ExitsFit /\ o \in Objs
      /\ commands[o].monitorDone # NilChan /\ commands[o].monitorDone \notin closed
  BY ConstantsOK DEF Sound, IndInv, ChannelInv, Typed, HeapOK, Objs, ConstantsOK, MonitorsNoted, C
<1>1. CASE LinkStep
  BY <1>0, <1>1, LinkEffect DEF C
<1>2. ASSUME NEW c, Closes(c) PROVE c # commands[o].monitorDone
  <2>1. ASSUME NEW n \in Monitors, MonitorExit(n), commands[o].monitorDone = loc[n].done
        PROVE  FALSE
    <3>1. /\ pc[n] # "idle" /\ loc[n].done = C(n).monitorDone /\ loc[n].obj \in Objs
      BY <1>0, <2>1, ObjOK, ThreadsAre DEF MonitorExit, MonitorsNoted, Typed, FreeLabels,
         RollupLabels
    <3>2. loc[n].obj = o
      BY <1>0, <2>1, <3>1, PurposesApart DEF C
    <3> QED BY <2>1, <3>1, <3>2 DEF MonitorsApart
  <2>2. /\ commands[o].monitorDone \notin alive
        /\ \A q \in Objs : /\ commands[q].quit # commands[o].monitorDone
                           /\ commands[q].startDone # commands[o].monitorDone
    BY <1>0, PurposesApart
  <2> QED BY <1>2, <2>1, <2>2 DEF Closes, C
<1>3. CASE ~LinkStep
  BY <1>0, <1>2, <1>3, CloseEffect DEF C
<1> QED BY <1>1, <1>3

\* Every step but startMonitor keeps the supervisors apart and open.
LEMMA SupervisorKept ==
  ASSUME Sound, SupervisorInv, AlwaysManaged, NoRetryInPlace, [Next]_vars,
         \A t \in Threads : ~StartMonitor(t)
  PROVE  SupervisorInv'
<1> USE ThreadsAre
<1>0. /\ Typed /\ ControlInv /\ MonitorsRetry /\ MonitorsApart /\ MonitorsNoted
      /\ UnwatchedAlone /\ RestartsWait
  BY DEF Sound, IndInv, SupervisorInv
<1>1. \A u \in Threads : Watches(u)
  BY <1>0, NextWatches
<1>2. MonitorsRetry' /\ MonitorsApart'
  BY <1>0, <1>1 DEF Watches, MonitorsRetry, MonitorsApart
<1>3. ASSUME NEW t \in Threads, loc[t].obj # NoObj PROVE loc[t].obj \in 1 .. nobj
  <2>1. loc[t].obj \in 0 .. nobj /\ nobj \in Nat
    BY <1>0, ConstantsOK DEF ControlInv, Flow, Typed, HeapOK, ConstantsOK
  <2> QED BY <1>3, <2>1 DEF NoObj
<1>4. ASSUME NEW m \in Monitors, pc'[m] # "idle"
      PROVE  /\ loc'[m].obj # NoObj
             /\ C(m)'.monitorDone # NilChan /\ C(m)'.monitorDone \notin closed'
             /\ pc'[m] # "monitorBegin" => loc'[m].done = C(m)'.monitorDone
  <2>1. pc[m] # "idle" /\ loc'[m].obj = loc[m].obj /\ ~MonitorExit(m)
    BY <1>0, <1>1, <1>4 DEF Watches, MonitorExit, Continue, Goto, Typed, PcOK
  <2>2. loc[m].obj \in 1 .. nobj
    BY <1>0, <1>3, <2>1 DEF MonitorsNoted
  <2>3. C(m)'.monitorDone = C(m).monitorDone
    BY <1>0, <2>1, <2>2, MonitorDoneKept DEF C
  <2>4. C(m).monitorDone \notin closed'
    BY <1>0, <2>1, <2>2, MonitorDoneOpen
  <2> QED BY <1>0, <1>1, <1>4, <2>1, <2>3, <2>4 DEF MonitorsNoted, Watches
<1>5. ASSUME NEW w \in Workers, Unwatched(w)', NEW m \in Monitors, pc'[m] # "idle"
      PROVE  loc'[m].obj # loc'[w].obj
  <2>1. pc[m] # "idle" /\ loc'[m].obj = loc[m].obj
    BY <1>1, <1>5 DEF Watches
  <2>2. CASE Unwatched(w) /\ loc'[w].obj = loc[w].obj
    BY <1>0, <2>1, <2>2 DEF UnwatchedAlone
  <2>3. CASE AcquireNew(w)
    <3>1. loc'[w].obj = nobj + 1
      BY <1>0, <2>3 DEF AcquireNew, Typed, LocOK, Locals
    <3>2. loc[m].obj \in 0 .. nobj /\ nobj \in Nat
      BY <1>0, ConstantsOK DEF ControlInv, Flow, Typed, HeapOK, ConstantsOK
    <3> QED BY <2>1, <3>1, <3>2
  <2>4. CASE CancelWait(w) /\ loc'[w].obj = loc[w].obj
    <3>1. loc[w].done = C(w).monitorDone /\ (loc[w].done = NilChan \/ loc[w].done \in closed)
      BY <1>0, <2>4 DEF CancelWait, RestartsWait
    <3> QED BY <1>0, <2>1, <2>4, <3>1 DEF MonitorsNoted, C
  <2> QED BY <1>1, <1>5, <2>2, <2>3, <2>4 DEF Watches
<1>6. ASSUME NEW w \in Workers, pc'[w] = "cancelWait" PROVE loc'[w].done = C(w)'.monitorDone
  <2>1. /\ pc[w] \in {"cancel", "cancelWait"} /\ loc'[w].obj = loc[w].obj
        /\ loc'[w].done = C(w).monitorDone
    BY <1>0, <1>1, <1>6 DEF Watches, RestartsWait
  <2>2. loc[w].obj \in 1 .. nobj
    BY <1>0, <1>3, <2>1 DEF ControlInv, Flow, FreeLabels, RollupLabels
  <2> QED BY <1>0, <2>1, <2>2, MonitorDoneKept DEF C
<1>7. MonitorsNoted' /\ UnwatchedAlone'
  BY <1>4, <1>5 DEF MonitorsNoted, UnwatchedAlone
<1>8. RestartsWait'
  BY <1>1, <1>6 DEF RestartsWait, Watches
<1> QED BY <1>2, <1>7, <1>8 DEF SupervisorInv

\* startMonitor starts the supervisor of a struct that has none.
LEMMA SupervisorStarts ==
  ASSUME Sound, SupervisorInv, TakeTurns, NEW t \in Threads, StartMonitor(t)
  PROVE  SupervisorInv'
<1> USE ThreadsAre
<1>0. /\ Typed /\ ControlInv /\ ChannelsMade /\ MonitorsRetry /\ MonitorsApart /\ MonitorsNoted
      /\ UnwatchedAlone /\ RestartsWait /\ fresh \in Nat
  BY DEF Sound, IndInv, ChannelInv, SupervisorInv, Typed, WorldOK
<1> DEFINE o == loc[t].obj
<1>1. PICK s \in Monitors, h \in {"settle", "rollup"} :
        /\ pc[s] = "idle" /\ pc' = [pc EXCEPT ![t] = h, ![s] = "monitorBegin"]
        /\ loc' = [loc EXCEPT ![s] = [Blank EXCEPT !.obj = loc[t].obj]]
        /\ h = "settle" => loc[t].after = "settle"
  BY <1>0 DEF StartMonitor, Spawn, ControlInv, Flow
<1>2. /\ t \in Workers /\ pc[t] = "startMonitor" /\ s # t
      /\ loc[t].after = "settle" => loc[t].ret = "started"
  BY <1>0, <1>1 DEF StartMonitor, MonitorsRetry, RestartsWait, Threads
<1>3. o \in Objs
  BY <1>0, <1>2, ObjOK DEF Typed, FreeLabels, RollupLabels
<1>4. /\ \A u \in Threads \ {s, t} : pc'[u] = pc[u]
      /\ \A u \in Threads \ {s} : loc'[u] = loc[u]
      /\ pc'[t] = h /\ pc'[s] = "monitorBegin"
      /\ loc'[s].obj = o /\ loc'[s].ret = "idle"
  BY <1>0, <1>1, <1>2 DEF Typed, PcOK, LocOK, Blank
<1>5. /\ \A q \in Objs \ {o} : commands'[q] = commands[q]
      /\ commands'[o].monitorDone \in {fresh + 1, fresh + 2} /\ closed' = closed
  BY <1>0, <1>3 DEF StartMonitor, Typed, HeapOK, Command, C
<1>6. \A m \in Monitors : pc[m] # "idle" => loc[m].obj # o
  BY <1>0, <1>2 DEF UnwatchedAlone, Unwatched
<1>7. MonitorsRetry'
  BY <1>0, <1>2, <1>4 DEF MonitorsRetry
<1>8. MonitorsApart'
  BY <1>0, <1>1, <1>2, <1>4, <1>6 DEF MonitorsApart
<1>9. ASSUME NEW m \in Monitors, pc'[m] # "idle"
      PROVE  /\ loc'[m].obj # NoObj
             /\ C(m)'.monitorDone # NilChan /\ C(m)'.monitorDone \notin closed'
             /\ pc'[m] # "monitorBegin" => loc'[m].done = C(m)'.monitorDone
  <2>1. CASE m = s
    <3>1. fresh + 1 # NilChan /\ fresh + 2 # NilChan /\ o # NoObj
      BY <1>0, <1>3 DEF NilChan, NoObj, Objs
    <3> QED BY <1>0, <1>4, <1>5, <2>1, <3>1, MadeAre DEF C
  <2>2. CASE m # s
    <3>1. m # t /\ pc[m] # "idle" /\ pc'[m] = pc[m] /\ loc'[m] = loc[m] /\ loc[m].obj # o
      BY <1>2, <1>4, <1>6, <1>9, <2>2
    <3>2. loc[m].obj \in Objs \ {o}
      BY <1>0, <3>1, LocalsOK DEF Typed, MonitorsNoted
    <3> QED BY <1>0, <1>5, <3>1, <3>2 DEF MonitorsNoted, C
  <2> QED BY <2>1, <2>2
<1>10. ASSUME NEW w \in Workers \ {t}, Driving(w) PROVE loc[w].obj # o
  <2>1. Driving(t)
    BY <1>2 DEF Driving, InEpisode, EpisodeLabels
  <2> QED BY <1>2, <1>10, <2>1 DEF TakeTurns
<1>11. ASSUME NEW w \in Workers, Unwatched(w)', NEW m \in Monitors, pc'[m] # "idle"
       PROVE  loc'[m].obj # loc'[w].obj
  <2>1. w # t
    BY <1>1, <1>2, <1>4, <1>11 DEF Unwatched
  <2>2. pc'[w] = pc[w] /\ loc'[w] = loc[w] /\ Unwatched(w)
    BY <1>4, <1>11, <2>1 DEF Unwatched, InEpisode
  <2>3. CASE m = s
    <3>1. Driving(w)
      BY <2>2 DEF Unwatched, Driving, InEpisode, EpisodeLabels
    <3> QED BY <1>4, <1>10, <2>1, <2>2, <2>3, <3>1
  <2>4. CASE m # s
    BY <1>0, <1>2, <1>4, <1>11, <2>2, <2>4 DEF UnwatchedAlone
  <2> QED BY <2>3, <2>4
<1>12. ASSUME NEW w \in Workers, pc'[w] = "cancelWait" PROVE loc'[w].done = C(w)'.monitorDone
  <2>1. w # t /\ pc[w] = "cancelWait" /\ loc'[w] = loc[w]
    BY <1>1, <1>4, <1>12
  <2>2. loc[w].obj \in Objs \ {o}
    BY <1>0, <1>10, <2>1, ObjOK DEF Driving, Typed, FreeLabels, RollupLabels
  <2> QED BY <1>0, <1>5, <2>1, <2>2 DEF RestartsWait, C
<1>13. RestartsWait'
  BY <1>0, <1>1, <1>4, <1>12 DEF RestartsWait
<1> QED BY <1>7, <1>8, <1>9, <1>11, <1>13
        DEF SupervisorInv, MonitorsNoted, UnwatchedAlone

\* In the initial state there is no supervisor.
LEMMA InitSupervisor == Init => SupervisorInv
BY DEF Init, SupervisorInv, MonitorsRetry, MonitorsApart, MonitorsNoted, UnwatchedAlone,
   Unwatched, RestartsWait, Blank, Threads

\* The supervisors of every behaviour of a command that is never adopted, and never
\* restarted by two goroutines at once.
LEMMA SupervisorsSound ==
  ASSUME ~Adoptable
  PROVE  Spec /\ []NoRetryInPlace /\ []TakeTurns => [](Sound /\ SupervisorInv)
<1>1. Sound /\ LaunchInv /\ SupervisorInv /\ NoRetryInPlace /\ TakeTurns /\ [Next]_vars
        => SupervisorInv'
  BY SupervisorKept, SupervisorStarts DEF LaunchInv
<1> QED BY <1>1, InitSupervisor, LaunchesSound, PTL DEF Spec

\* While its starts take turns, a command has at most one supervisor.
LEMMA SingleSupervisor ==
  ASSUME ~Adoptable
  PROVE  Spec /\ []NoRetryInPlace /\ []TakeTurns => []OneSupervisor
<1>1. SupervisorInv => OneSupervisor
  BY DEF SupervisorInv, MonitorsApart, OneSupervisor, Supervising, InEpisode, EpisodeLabels
<1> QED BY <1>1, SupervisorsSound, PTL

\* While its starts take turns, no channel of a command is closed twice.
LEMMA ChannelsCloseOnce ==
  ASSUME ~Adoptable
  PROVE  Spec /\ []NoRetryInPlace /\ []TakeTurns => []ClosedOnce
<1>1. SupervisorInv => MonitorDoneClosedOnce
  BY DEF SupervisorInv, MonitorsNoted, MonitorDoneClosedOnce
<1> QED BY <1>1, BarriersCloseOnce, SupervisorsSound, PTL DEF ClosedOnce

\* Only a command that another environment holds as well is retried in place: with one
\* environment it never happens.
LEMMA OneEnvironment == Cardinality(Envs) <= 1 /\ Spec => []NoRetryInPlace
<1> USE ThreadsAre
<1>1. ASSUME Cardinality(Envs) <= 1, Sound, NoRetryInPlace, [Next]_vars PROVE NoRetryInPlace'
  <2>1. \A u \in Threads : Arrives(u)
    BY <1>1, NextArrives DEF Sound, IndInv, ChannelInv
  <2>2. ASSUME NEW w \in Workers, ResetForRetry(w), pc'[w] = "restartInPlace" PROVE FALSE
    <3>1. cur # NoObj /\ ~(Cardinality(commands[cur].holders) <= 1)
      BY <1>1, <2>2 DEF ResetForRetry, Goto, Sound, IndInv, Typed, PcOK
    <3>2. commands[cur].holders \in SUBSET Envs
      <4>1. cur \in Objs /\ commands[cur] \in Command
        BY <1>1, <3>1, ConstantsOK DEF Sound, IndInv, Typed, HeapOK, Objs, ConstantsOK, NoObj
      <4> QED BY <4>1 DEF Command
    <3>3. IsFiniteSet(Envs)
      BY ConstantsOK DEF ConstantsOK
    <3>4. /\ Cardinality(commands[cur].holders) <= Cardinality(Envs)
          /\ Cardinality(commands[cur].holders) \in Nat /\ Cardinality(Envs) \in Nat
      BY <3>2, <3>3, FS_Subset, FS_CardinalityType
    <3>5. Cardinality(Envs) <= 1
      BY <1>1
    <3> DEFINE k == Cardinality(commands[cur].holders)
    <3> DEFINE n == Cardinality(Envs)
    <3>6. k \in Nat /\ n \in Nat /\ k <= n /\ n <= 1 /\ ~(k <= 1)
      BY <3>1, <3>4, <3>5
    <3> HIDE DEF k, n
    <3> QED BY <3>6
  <2> QED BY <1>1, <2>1, <2>2 DEF NoRetryInPlace, Arrives
<1>2. Init => NoRetryInPlace
  BY DEF Init, NoRetryInPlace
<1>3. CASE Cardinality(Envs) <= 1
  <2>1. Sound /\ NoRetryInPlace /\ [Next]_vars => NoRetryInPlace'
    BY <1>1, <1>3
  <2> QED BY <1>2, <2>1, ChannelsSound, PTL DEF Spec
<1> QED BY <1>3

\* A command that one environment has, and that is always the engine's own process, is
\* launched only after its last process has exited, and its barriers close once.
THEOREM OneEnvironmentSound ==
  ~Adoptable /\ Cardinality(Envs) <= 1 /\ Spec => [](BarrierClosedOnce /\ LaunchAfterExit)
<1>1. CASE ~Adoptable /\ Cardinality(Envs) <= 1
  <2>1. Spec => []NoRetryInPlace
    BY <1>1, OneEnvironment
  <2>2. Spec /\ []NoRetryInPlace => []LaunchAfterExit
    BY <1>1, LaunchesAfterExit
  <2> QED BY <2>1, <2>2, BarriersCloseOnce, PTL
<1> QED BY <1>1

\* If moreover its operations are called one after the other, it has one supervisor and
\* no channel of its own is closed twice.
THEOREM OneClientSound ==
  /\ ~Adoptable /\ Cardinality(Envs) <= 1
  /\ \A v, w \in Workers : v = w
  /\ Spec
  => [](ClosedOnce /\ OneSupervisor)
<1>1. CASE /\ ~Adoptable /\ Cardinality(Envs) <= 1
           /\ \A v, w \in Workers : v = w
  <2>1. TakeTurns
    BY <1>1 DEF TakeTurns
  <2>2. Spec => []NoRetryInPlace
    BY <1>1, OneEnvironment
  <2>3. Spec /\ []NoRetryInPlace /\ []TakeTurns => []OneSupervisor
    BY <1>1, SingleSupervisor
  <2>4. Spec /\ []NoRetryInPlace /\ []TakeTurns => []ClosedOnce
    BY <1>1, ChannelsCloseOnce
  <2> QED BY <2>1, <2>2, <2>3, <2>4, PTL
<1> QED BY <1>1

-----------------------------------------------------------------------------
(* Adopted commands, and tasks.  What a goroutine has been told, or has     *)
(* seen, still holds of the struct when it acts on it.                     *)

\* Nobody restarts the command by hand: every launch that follows an adoption is that
\* of a takeover, which clears the flag.
NoUserRestart == \A w \in Workers : pc[w] \notin {"restartLock", "restartInPlace"}

\* No goroutine drives an episode of a struct that has been replaced: setCmdState
\* would write the outcome on the new one.
NoLateEpisode ==
  \A t \in Threads : InEpisode(t) /\ cur # NoObj => loc[t].obj = cur

\* Where a first start still is, or a takeover.
FreshLabels == {"start", "checkUnmanaged", "adopt", "watchUnmanaged", "takeOverStart", "prepare"}

\* A goroutine that will launch the process, has launched it, or watches it.
Managed(t) ==
  \/ pc[t] \in {"takeOverStart", "prepare", "launchEnv", "launch", "spawn", "awaitReady",
                "awaitTask", "probeTask", "startMonitor", "retry", "backoff", "retried",
                "retryResume", "relaunch", "relaunched", "restartBegin"}
  \/ t \in Monitors /\ pc[t] \in {"monitorBegin", "snapshot", "supervise", "attemptRestart"}
  \/ pc[t] \in {"kill", "awaitExit"} /\ loc[t].after # "stopped"
  \/ pc[t] = "settle" /\ loc[t].ret \in {"retried", "relaunched"}
  \/ pc[t] \in RollupLabels /\ loc[t].then = "retryResume"

\* A task that is being started again: its state is not up.
Rerunning(t) ==
  \/ pc[t] \in {"checkUnmanaged", "prepare", "launchEnv", "launch", "spawn", "awaitTask",
                "backoff", "relaunch"}
  \/ pc[t] \in {"kill", "awaitExit"} /\ loc[t].after # "stopped"

\* A goroutine that has seen the task exit with code 0 and may report it.
SeenDone(t) ==
  \/ pc[t] = "probeTask"
  \/ loc[t].ok /\ \/ pc[t] \in {"retried", "relaunched"}
                  \/ pc[t] = "settle" /\ loc[t].ret \in {"retried", "relaunched"}

FreshRet ==
  \A t \in Threads :
    /\ pc[t] \in FreshLabels => loc[t].ret = "started"
    /\ pc[t] = "startMonitor" /\ loc[t].after = "settle" => loc[t].ret = "started"

\* A struct that may be adopted has no process and no supervisor.
AdoptsNew ==
  \A t \in Threads :
    /\ pc[t] \in {"checkUnmanaged", "adopt"} => C(t).cmd = NilChan
    /\ pc[t] = "checkUnmanaged" =>
         ~C(t).unmanaged /\ \A m \in Monitors : loc[m].obj # loc[t].obj

FlagInv ==
  /\ \A o \in 1 .. nobj : commands[o].unmanaged => commands[o].cmd = NilChan
  /\ \A t \in Threads : Managed(t) => ~C(t).unmanaged

Up(o) == commands[o].state \in {"healthy", "done"}
Over(o) == commands[o].cmd \notin alive \cup badExit

TaskPath ==
  \A t \in Threads :
    /\ pc[t] # "awaitReady"
    /\ pc[t] \in {"kill", "awaitExit"} => loc[t].after # "settle"

TaskInv ==
  /\ NilChan \notin badExit
  /\ \A t \in Threads : /\ Rerunning(t) /\ loc[t].obj = cur => ~Up(cur)
                        /\ SeenDone(t) => Over(loc[t].obj)
  /\ IsHealthy => Over(cur)

\* How a goroutine comes to where it may adopt the command, or must not find it adopted.
Proceeds(u) ==
  /\ u \in Monitors => loc'[u].obj \in {loc[u].obj, NoObj}
  /\ pc'[u] = "checkUnmanaged" =>
       /\ loc'[u].obj = loc[u].obj
       /\ (u \in Workers /\ StartCommand(u)) \/ pc[u] = "checkUnmanaged"
  /\ pc'[u] = "adopt" =>
       loc'[u].obj = loc[u].obj /\ pc[u] \in {"checkUnmanaged", "adopt"}
  /\ pc'[u] \in FreshLabels => loc'[u].ret = "started"
  /\ pc'[u] = "startMonitor" /\ loc'[u].after = "settle" => loc'[u].ret = "started"
  /\ Managed(u)' =>
       /\ loc'[u].obj = loc[u].obj
       /\ \/ Managed(u) \/ StartCommand(u) \/ CheckUnmanaged(u) \/ TakeOver(u)
          \/ u \in Workers /\ (RestartLock(u) \/ RestartInPlace(u))

\* A goroutine that does not move.
LEMMA StaysProceeding ==
  ASSUME FreshRet, NEW u \in Threads, pc'[u] = pc[u], loc'[u] = loc[u] PROVE Proceeds(u)
BY DEF Proceeds, FreshRet, Managed

\* The steps of a worker.
LEMMA WorkerProceeds ==
  ASSUME Typed, ControlInv, FreshRet, NEW w \in Workers, WorkerStep(w), ~WatchUnmanaged(w)
  PROVE  Proceeds(w)
<1> USE ThreadsAre
<1> USE DEF Typed, PcOK, LocOK, Locals, Goto, ControlInv, Flow, FreshRet, Proceeds, ContLabels,
            FreshLabels, Managed, RollupLabels
<1>1. CASE MarkStarting(w) \/ ResetForRetry(w) \/ AcquireNew(w) \/ AcquireJoin(w)
  BY <1>1 DEF MarkStarting, ResetForRetry, AcquireNew, AcquireJoin
<1>2. CASE JoinWait(w) \/ EnvCheck(w) \/ EnvRead(w) \/ EnvCompare(w)
  BY <1>2 DEF JoinWait, EnvCheck, EnvRead, EnvCompare, Continue
<1>3. CASE StartCommand(w) \/ CheckUnmanaged(w) \/ Adopt(w)
  BY <1>3 DEF StartCommand, CheckUnmanaged, Adopt
<1>4. CASE Cancel(w) \/ CancelWait(w)
  BY <1>4 DEF Cancel, CancelWait
<1>9. CASE RestartInPlace(w) \/ RestartLock(w)
  <2>1. pc'[w] \in {"relaunch", "restartBegin"} /\ loc'[w].obj = loc[w].obj
    BY <1>9 DEF RestartInPlace, RestartLock
  <2> QED BY <1>9, <2>1
<1>5. CASE RestartBegin(w) \/ Relaunched(w)
  BY <1>5 DEF RestartBegin, Relaunched
<1>6. CASE Unlock(w) \/ Release(w)
  BY <1>6 DEF Unlock, Release, Continue
<1>7. CASE \/ CancelStop(w) \/ StampStop(w) \/ ShutdownStop(w) \/ MarkRestarting(w)
           \/ MarkStopping(w) \/ StopBarrier(w) \/ StopWait(w)
  BY <1>7 DEF CancelStop, StampStop, ShutdownStop, MarkRestarting, MarkStopping, StopBarrier,
     StopWait
<1>8. CASE Stop(w) \/ Stopped(w) \/ EnvStopped(w) \/ ShutdownEnd(w) \/ FinishRun(w)
  BY <1>8 DEF Stop, Stopped, EnvStopped, ShutdownEnd, FinishRun, Continue
<1> QED BY <1>1, <1>2, <1>3, <1>4, <1>5, <1>6, <1>7, <1>8, <1>9 DEF WorkerStep

\* The steps of a supervisor.
LEMMA MonitorProceeds ==
  ASSUME Typed, ControlInv, FreshRet, NEW m \in Monitors, MonitorStep(m) PROVE Proceeds(m)
<1> USE ThreadsAre
<1> USE DEF Typed, PcOK, LocOK, Locals, Goto, FreshRet, Proceeds, FreshLabels, Managed,
            RollupLabels
<1>1. CASE UnmanagedBegin(m) \/ UnmanagedQuit(m) \/ TakeOver(m) \/ TakeOverStart(m)
  BY <1>1 DEF UnmanagedBegin, UnmanagedQuit, TakeOver, TakeOverStart, Continue, Blank
<1>2. CASE \/ MonitorBegin(m) \/ Snapshot(m) \/ SuperviseQuit(m) \/ SuperviseExit(m)
           \/ GiveUp(m) \/ MonitorExit(m)
  BY <1>2 DEF MonitorBegin, Snapshot, SuperviseQuit, SuperviseExit, Unhealthy, GiveUp,
     MonitorExit, Continue, Blank
<1>3. CASE AttemptRestart(m) \/ RetriesExhausted(m) \/ Retry(m) \/ BackoffQuit(m)
  BY <1>3 DEF AttemptRestart, RetriesExhausted, Retry, BackoffQuit
<1>4. CASE BackoffElapses(m) \/ RetryResume(m) \/ RetryExit(m)
  BY <1>4 DEF BackoffElapses, RetryResume, RetryExit
<1>5. CASE Retried(m)
  <2>1. /\ pc[m] = "retried"
        /\ \/ /\ pc' = [pc EXCEPT ![m] = "rollup"]
              /\ loc' = [loc EXCEPT ![m].todo = Envs, ![m].then = "retryResume"]
           \/ pc' = [pc EXCEPT ![m] = "retry"] /\ UNCHANGED loc
    BY <1>5 DEF Retried
  <2> QED BY <2>1
<1> QED BY <1>1, <1>2, <1>3, <1>4, <1>5 DEF MonitorStep

\* The steps of the code both run.
LEMMA ThreadProceeds ==
  ASSUME Typed, ControlInv, FreshRet, NEW t \in Threads, ThreadStep(t), ~StartMonitor(t)
  PROVE  Proceeds(t)
<1> USE DEF Typed, PcOK, LocOK, Locals, Goto, ControlInv, Flow, FreshRet, Proceeds, FreshLabels,
            Managed, RollupLabels
<1>1. CASE Prepare(t) \/ LaunchEnv(t) \/ Launch(t) \/ SpawnProcess(t) \/ Relaunch(t)
  BY <1>1 DEF Prepare, LaunchEnv, Launch, SpawnProcess, Relaunch
<1>2. CASE ServiceExitsEarly(t) \/ TaskExits(t)
  BY <1>2 DEF ServiceExitsEarly, TaskExits
<1>3. CASE ServiceReady(t) \/ TaskReady(t)
  <2>1. /\ pc[t] \in {"awaitReady", "probeTask"} /\ pc'[t] \in {"startMonitor", "settle"}
        /\ pc'[t] = "startMonitor" => loc[t].ret = "started"
    BY <1>3 DEF ServiceReady, TaskReady, IsFreshStart
  <2>2. \/ loc' = [loc EXCEPT ![t].after = "settle"]
        \/ loc' = [loc EXCEPT ![t].ok = TRUE]
    BY <1>3 DEF ServiceReady, TaskReady
  <2> QED BY <2>1, <2>2
<1>4. CASE Kill(t)
  BY <1>4 DEF Kill, AfterLabels, C
<1>5. CASE AwaitExit(t)
  BY <1>5 DEF AwaitExit, AfterLabels
<1>6. CASE Settle(t) \/ Started(t)
  BY <1>6 DEF Settle, Started, Continue, RetLabels, Blank
<1>7. CASE Rollup(t)
  <2>1. CASE loc[t].todo = {}
    BY <1>7, <2>1 DEF Rollup, Continue, ThenLabels, Blank
  <2>2. CASE loc[t].todo # {}
    <3>1. PICK e \in loc[t].todo :
            /\ loc' = [loc EXCEPT ![t].todo = @ \ {e}, ![t].roll = {e}]
            /\ \/ pc' = [pc EXCEPT ![t] = "rollup"]
               \/ pc' = [pc EXCEPT ![t] = "rollupRead"]
      BY <1>7, <2>2 DEF Rollup
    <3>2. pc[t] = "rollup"
      BY <1>7 DEF Rollup
    <3> QED BY <3>1, <3>2
  <2> QED BY <2>1, <2>2
<1>8. CASE RollupRead(t) \/ RollupWrite(t)
  BY <1>8 DEF RollupRead, RollupWrite
<1> QED BY <1>1, <1>2, <1>3, <1>4, <1>5, <1>6, <1>7, <1>8 DEF ThreadStep

\* A new request.
LEMMA RequestProceeds ==
  ASSUME Typed, NEW w \in Workers, Request(w) PROVE Proceeds(w)
<1> USE ThreadsAre
<1> USE DEF Typed, PcOK, LocOK, Locals, Goto, Proceeds, Begin, FreshLabels, Managed, RollupLabels
<1>1. ASSUME NEW e \in Envs, StartEnvironment(w, e) PROVE Proceeds(w)
  BY <1>1 DEF StartEnvironment
<1>2. ASSUME NEW e \in Envs, StopEnvironment(w, e) PROVE Proceeds(w)
  BY <1>2 DEF StopEnvironment
<1>3. CASE RestartCommand(w)
  BY <1>3 DEF RestartCommand
<1>4. CASE Shutdown(w)
  BY <1>4 DEF Shutdown
<1> QED BY <1>1, <1>2, <1>3, <1>4 DEF Request

\* The steps of the world.
LEMMA FaultProceeds ==
  ASSUME Typed, FreshRet, FaultStep PROVE \A u \in Threads : Proceeds(u)
<1> USE ThreadsAre
<1> USE DEF FreshLabels, Managed, RollupLabels
<1>1. ASSUME NEW t \in Threads,
             PrepareFails(t) \/ SpawnFails(t) \/ ServiceTimesOut(t) \/ TaskTimesOut(t)
      PROVE  OnlyMoves(t) /\ Proceeds(t)
  BY <1>1 DEF FreshRet, PrepareFails, SpawnFails, ServiceTimesOut, TaskTimesOut, Goto, OnlyMoves,
     Typed, PcOK, LocOK, Locals, Proceeds
<1>2. ASSUME NEW m \in Monitors, SuperviseLiveness(m) \/ UnmanagedProbeFails(m)
      PROVE  OnlyMoves(m) /\ Proceeds(m)
  BY <1>2 DEF SuperviseLiveness, UnmanagedProbeFails, Unhealthy, Goto, OnlyMoves, Typed, PcOK,
     LocOK, Locals, Proceeds
<1>3. ASSUME NEW w \in Workers, ShutdownDeadline(w) PROVE UNCHANGED <<pc, loc>>
  BY <1>3 DEF ShutdownDeadline
<1>4. ASSUME NEW p \in alive, ProcessCrashes(p) PROVE UNCHANGED <<pc, loc>>
  BY <1>4 DEF ProcessCrashes
<1>5. ASSUME NEW t \in Threads, OnlyMoves(t), Proceeds(t) PROVE \A u \in Threads : Proceeds(u)
  BY <1>5, StaysProceeding DEF OnlyMoves
<1>6. CASE UNCHANGED <<pc, loc>>
  BY <1>6, StaysProceeding
<1> QED BY <1>1, <1>2, <1>3, <1>4, <1>5, <1>6 DEF FaultStep

\* The two steps that start a goroutine.
Spawning(t) == StartMonitor(t) \/ WatchUnmanaged(t)

\* Every other step.
LEMMA NextProceeds ==
  ASSUME Typed, ControlInv, FreshRet, [Next]_vars, \A t \in Threads : ~Spawning(t)
  PROVE  \A u \in Threads : Proceeds(u)
<1> USE ThreadsAre DEF Spawning
<1>1. ASSUME NEW t \in Threads, OnlyMoves(t), Proceeds(t) PROVE \A u \in Threads : Proceeds(u)
  BY Zenon, <1>1, StaysProceeding DEF OnlyMoves
<1>2. ASSUME NEW w \in Workers, Request(w) PROVE OnlyMoves(w)
  BY <1>2 DEF Request, StartEnvironment, StopEnvironment, RestartCommand, Shutdown, Goto,
     OnlyMoves, Typed, PcOK, LocOK
<1>3. ASSUME NEW p \in alive, ProcessExits(p) PROVE UNCHANGED <<pc, loc>>
  BY <1>3 DEF ProcessExits
<1>4. CASE UNCHANGED <<pc, loc>>
  BY <1>4, StaysProceeding
<1>5. ASSUME NEW w \in Workers, Request(w) PROVE \A u \in Threads : Proceeds(u)
  BY <1>1, <1>2, <1>5, RequestProceeds
<1>6. ASSUME NEW w \in Workers, WorkerStep(w) PROVE \A u \in Threads : Proceeds(u)
  BY <1>1, <1>6, WorkerMoves, WorkerProceeds
<1>7. ASSUME NEW m \in Monitors, MonitorStep(m) PROVE \A u \in Threads : Proceeds(u)
  BY <1>1, <1>7, MonitorMoves, MonitorProceeds
<1>8. ASSUME NEW t \in Threads, ThreadStep(t) PROVE \A u \in Threads : Proceeds(u)
  BY <1>1, <1>8, ThreadMoves, ThreadProceeds
<1>9. CASE UNCHANGED vars
  BY <1>4, <1>9 DEF vars
<1> QED BY <1>3, <1>4, <1>5, <1>6, <1>7, <1>8, <1>9, FaultProceeds DEF Next

\* The process of a struct is assigned by its launch.
LEMMA CmdKept ==
  ASSUME Sound, [Next]_vars, NEW o \in 1 .. nobj,
         \A t \in Threads : SpawnProcess(t) => loc[t].obj # o
  PROVE  commands'[o].cmd = commands[o].cmd
<1> USE ThreadsAre
<1>0. Typed /\ ControlInv /\ o \in Objs /\ o # nobj + 1
  BY ConstantsOK DEF Sound, IndInv, Typed, HeapOK, Objs, ConstantsOK
<1>1. CASE ~LinkStep
  BY <1>0, <1>1, OtherSteps DEF LinksKept, SameLinks
<1>2. ASSUME NEW w \in Workers, AcquireNew(w) PROVE commands'[o].cmd = commands[o].cmd
  BY <1>0, <1>2 DEF AcquireNew, Typed, HeapOK
<1>3. ASSUME NEW t \in Threads, ProcessLinks(t) PROVE commands'[o].cmd = commands[o].cmd
  BY <1>0, <1>3, ProcessKept
<1>4. ASSUME NEW t \in Threads, Launch(t) PROVE commands'[o].cmd = commands[o].cmd
  BY <1>0, <1>4 DEF Launch, Typed, HeapOK, Command
<1>5. ASSUME NEW t \in Threads, SpawnProcess(t) PROVE commands'[o].cmd = commands[o].cmd
  BY <1>0, <1>5 DEF SpawnProcess, Typed, HeapOK
<1> QED BY <1>1, <1>2, <1>3, <1>4, <1>5 DEF LinkStep, WorkerLinks, ThreadLinks, ProcessLinks

\* The flag of a struct is set by its adoption.
LEMMA FlagSet ==
  ASSUME Sound, [Next]_vars, NEW o \in 1 .. nobj, commands'[o].unmanaged
  PROVE  \/ commands[o].unmanaged
         \/ \E w \in Workers : /\ pc[w] = "checkUnmanaged" /\ pc'[w] = "adopt"
                               /\ loc[w].obj = o /\ CheckUnmanaged(w)
<1> USE ThreadsAre
<1>0. Typed /\ ControlInv /\ o \in Objs /\ o # nobj + 1
  BY ConstantsOK DEF Sound, IndInv, Typed, HeapOK, Objs, ConstantsOK
<1>1. CASE ~LinkStep
  BY <1>0, <1>1, OtherSteps DEF LinksKept, SameLinks
<1>2. ASSUME NEW w \in Workers, AcquireNew(w) PROVE commands[o].unmanaged
  BY <1>0, <1>2 DEF AcquireNew, Typed, HeapOK
<1>3. ASSUME NEW w \in Workers, CheckUnmanaged(w), ~commands[o].unmanaged
      PROVE  pc[w] = "checkUnmanaged" /\ pc'[w] = "adopt" /\ loc[w].obj = o
  BY <1>0, <1>3 DEF CheckUnmanaged, Goto, Typed, HeapOK, PcOK
<1>4. ASSUME NEW t \in Threads, WatchUnmanaged(t) \/ TakeOver(t) \/ Relaunch(t)
      PROVE  commands[o].unmanaged
  BY <1>0, <1>4 DEF WatchUnmanaged, TakeOver, Relaunch, Typed, HeapOK, Command
<1>5. ASSUME NEW t \in Threads, Launch(t) \/ SpawnProcess(t) PROVE commands[o].unmanaged
  BY <1>0, <1>5 DEF Launch, SpawnProcess, Typed, HeapOK, Command
<1>6. ASSUME NEW t \in Threads, StartMonitor(t) PROVE commands[o].unmanaged
  <2>1. PICK n, k : commands' = [commands EXCEPT ![loc[t].obj].quit = n,
                                                 ![loc[t].obj].monitorDone = k]
    BY <1>6 DEF StartMonitor
  <2> QED BY <1>0, <2>1 DEF Typed, HeapOK, Command
<1>7. ASSUME NEW w \in Workers, RestartLock(w) PROVE commands[o].unmanaged
  <2> DEFINE q == loc[w].obj
  <2> DEFINE c == [commands[q] EXCEPT !.restartMu = w, !.userStopped = FALSE,
                                      !.quit = NilChan, !.retries = 0]
  <2>1. q \in Objs
    BY <1>0, <1>7, ObjOK DEF Typed, RestartLock, FreeLabels, RollupLabels
  <2>2. c.unmanaged = commands[q].unmanaged
    BY SMTT(30), <1>0, <2>1, FieldsOK DEF Typed, Command
  <2>3. commands' = [commands EXCEPT ![q] = c]
    BY <1>7 DEF RestartLock
  <2> HIDE DEF c
  <2> QED BY <1>0, <2>1, <2>2, <2>3 DEF Typed, HeapOK
<1> QED BY <1>1, <1>2, <1>3, <1>4, <1>5, <1>6, <1>7 DEF LinkStep, WorkerLinks, ThreadLinks

\* A struct that is made is neither adopted nor launched.
LEMMA MadeBlank ==
  ASSUME Typed, NEW w \in Workers, AcquireNew(w)
  PROVE  /\ nobj + 1 \in Objs /\ loc'[w].obj = nobj + 1 /\ nobj' = nobj + 1
         /\ ~commands'[nobj + 1].unmanaged /\ commands'[nobj + 1].cmd = NilChan
         /\ commands'[nobj + 1].state = "pending"
<1>1. nobj + 1 \in Objs
  BY ConstantsOK DEF Typed, HeapOK, AcquireNew, Objs, ConstantsOK
<1>2. loc'[w].obj = nobj + 1 /\ nobj' = nobj + 1
  BY ThreadsAre DEF AcquireNew, Typed, LocOK, Locals
<1>3. commands'[nobj + 1] = [NewCommand(fresh + 1, fresh + 2) EXCEPT !.holders = loc[w].env]
  BY <1>1 DEF AcquireNew, Typed, HeapOK
<1> QED BY <1>1, <1>2, <1>3 DEF NewCommand

\* What a goroutine has a pointer to is on the heap.
LEMMA ManagedObj ==
  ASSUME Sound, NEW t \in Threads, Managed(t) \/ pc[t] \in {"start", "checkUnmanaged", "adopt"}
  PROVE  loc[t].obj \in Objs /\ loc[t].obj \in 1 .. nobj
<1>1. nobj \in Nat /\ loc[t].obj \in 0 .. nobj /\ loc[t].obj # NoObj
  BY ConstantsOK DEF Sound, IndInv, Typed, HeapOK, ConstantsOK, ControlInv, Flow, Managed,
     FreeLabels, RollupLabels
<1>2. loc[t].obj \in 1 .. nobj /\ 1 .. nobj \subseteq Objs
  BY <1>1, ConstantsOK DEF NoObj, Sound, IndInv, Typed, HeapOK, Objs, ConstantsOK
<1> QED BY <1>2

\* Structs are made by acquireAndStart, one at a time.
LEMMA NewStruct ==
  ASSUME Typed, ControlInv, [Next]_vars, NEW o \in 1 .. nobj', o \notin 1 .. nobj
  PROVE  \E w \in Workers : AcquireNew(w) /\ o = nobj + 1
<1>0. nobj \in Nat
  BY ConstantsOK DEF Typed, HeapOK, ConstantsOK
<1>1. LinkStep
  BY Zenon, OtherSteps DEF LinksKept
<1>2. ASSUME NEW t, TakeOver(t) \/ ThreadLinks(t) PROVE nobj' = nobj
  BY <1>2 DEF ThreadLinks, TakeOver, Launch, SpawnProcess, StartMonitor, Relaunch
<1>3. ASSUME NEW w \in Workers, WorkerLinks(w)
      PROVE  nobj' = nobj \/ (AcquireNew(w) /\ nobj' = nobj + 1)
  BY <1>3 DEF WorkerLinks, AcquireNew, CheckUnmanaged, WatchUnmanaged, RestartLock
<1>4. PICK w \in Workers : AcquireNew(w) /\ nobj' = nobj + 1
  BY <1>1, <1>2, <1>3 DEF LinkStep
<1> QED BY <1>0, <1>4

\* A struct is adopted by the first start, which nobody disturbs.
LEMMA AdoptsKept ==
  ASSUME Sound, FirstStart, FreshRet, AdoptsNew, [Next]_vars, \A t \in Threads : ~Spawning(t)
  PROVE  FreshRet' /\ AdoptsNew'
<1> USE ThreadsAre
<1>0. Typed /\ ControlInv
  BY DEF Sound, IndInv
<1>1. \A u \in Threads : Proceeds(u)
  BY <1>0, NextProceeds
<1>2. FreshRet'
  BY <1>1 DEF FreshRet, Proceeds
<1>3. ASSUME NEW t \in Threads, pc'[t] \in {"checkUnmanaged", "adopt"}
      PROVE  /\ loc'[t].obj = loc[t].obj /\ loc[t].obj \in Objs /\ loc[t].obj \in 1 .. nobj
             /\ pc[t] \in {"start", "checkUnmanaged", "adopt"} /\ C(t).cmd = NilChan
             /\ InEpisode(t) \/ pc[t] = "start"
  <2>1. loc'[t].obj = loc[t].obj /\ pc[t] \in {"start", "checkUnmanaged", "adopt"}
    BY <1>1, <1>3 DEF Proceeds, StartCommand
  <2> QED BY <2>1, ManagedObj DEF FirstStart, AdoptsNew, InEpisode, EpisodeLabels
<1>4. ASSUME NEW t \in Threads, pc'[t] \in {"checkUnmanaged", "adopt"}
      PROVE  C(t)'.cmd = NilChan
  <2>1. \A x \in Threads : SpawnProcess(x) => loc[x].obj # loc[t].obj
    <3>1. ASSUME NEW x \in Threads, SpawnProcess(x) PROVE loc[x].obj # loc[t].obj
      <4>1. pc[x] = "spawn" /\ x # t
        BY <1>3, <1>4, <3>1 DEF SpawnProcess
      <4> QED BY <1>3, <1>4, <4>1, LaunchesAlone
    <3> QED BY <3>1
  <2>2. commands'[loc[t].obj].cmd = commands[loc[t].obj].cmd
    BY <1>3, <1>4, <2>1, CmdKept
  <2> QED BY <1>3, <1>4, <2>2 DEF C
<1>5. ASSUME NEW t \in Threads, pc'[t] = "checkUnmanaged"
      PROVE  ~C(t)'.unmanaged /\ \A m \in Monitors : loc'[m].obj # loc'[t].obj
  <2>1. /\ pc[t] = "checkUnmanaged" \/ (t \in Workers /\ pc[t] = "start")
        /\ loc[t].obj # NoObj
    BY <1>0, <1>1, <1>5 DEF Proceeds, StartCommand, ControlInv, Flow, FreeLabels, RollupLabels
  <2>2. /\ ~commands[loc[t].obj].unmanaged
        /\ \A m \in Monitors : loc[m].obj # loc[t].obj
    BY <2>1 DEF FirstStart, AdoptsNew, Bystanding, C
  <2>3. ASSUME NEW w \in Workers, pc[w] = "checkUnmanaged", pc'[w] = "adopt"
        PROVE  loc[w].obj # loc[t].obj
    BY <1>3, <1>5, <2>3, LaunchesAlone
  <2>4. ~commands'[loc[t].obj].unmanaged
    BY <1>3, <1>5, <2>2, <2>3, FlagSet
  <2>5. \A m \in Monitors : loc'[m].obj # loc[t].obj
    BY <1>1, <2>1, <2>2 DEF Proceeds
  <2> QED BY <1>3, <1>5, <2>4, <2>5 DEF C
<1> QED BY <1>2, <1>4, <1>5 DEF AdoptsNew

\* What a step that starts a goroutine does.
LEMMA SpawnEffect ==
  ASSUME Sound, NEW t \in Threads, Spawning(t)
  PROVE  /\ loc[t].obj \in Objs /\ loc[t].obj \in 1 .. nobj /\ InEpisode(t)
         /\ UNCHANGED <<nobj, cur, alive, badExit>>
         /\ \A o \in Objs : /\ commands'[o].cmd = commands[o].cmd
                            /\ commands'[o].unmanaged = commands[o].unmanaged
                            /\ commands'[o].state = commands[o].state
         /\ \E s \in Monitors :
              /\ pc[s] = "idle" /\ s # t /\ pc'[s] \in {"monitorBegin", "unmanagedBegin"}
              /\ loc'[s] = [Blank EXCEPT !.obj = loc[t].obj]
              /\ pc'[s] = "monitorBegin" => pc[t] = "startMonitor"
              /\ pc'[t] \in {"settle", "rollup"} /\ loc'[t] = loc[t]
              /\ pc[t] = "startMonitor" =>
                   \/ pc'[t] = "settle" /\ loc[t].after = "settle"
                   \/ pc'[t] = "rollup" /\ loc[t].then = "unlock"
              /\ \A u \in Threads \ {s, t} : pc'[u] = pc[u] /\ loc'[u] = loc[u]
<1> USE ThreadsAre
<1>0. Typed /\ ControlInv /\ ChannelsMade
  BY DEF Sound, IndInv, ChannelInv
<1>1. pc[t] \in {"startMonitor", "watchUnmanaged"}
  BY DEF Spawning, StartMonitor, WatchUnmanaged
<1>2. loc[t].obj \in Objs /\ loc[t].obj \in 1 .. nobj /\ InEpisode(t)
  BY <1>0, <1>1, ObjMade DEF FreeLabels, RollupLabels, InEpisode, EpisodeLabels
<1>3. UNCHANGED <<nobj, cur, alive, badExit>>
  BY DEF Spawning, StartMonitor, WatchUnmanaged, procs
<1>4. ASSUME NEW o \in Objs
      PROVE  /\ commands'[o].cmd = commands[o].cmd
             /\ commands'[o].unmanaged = commands[o].unmanaged
             /\ commands'[o].state = commands[o].state
  <2>1. CASE StartMonitor(t)
    <3>1. PICK n, k : commands' = [commands EXCEPT ![loc[t].obj].quit = n,
                                                   ![loc[t].obj].monitorDone = k]
      BY <2>1 DEF StartMonitor
    <3> QED BY <1>0, <3>1 DEF Typed, HeapOK, Command
  <2>2. CASE WatchUnmanaged(t)
    BY <1>0, <2>2 DEF WatchUnmanaged, Typed, HeapOK, Command
  <2> QED BY <2>1, <2>2 DEF Spawning
<1>5. PICK s \in Monitors, h \in {"settle", "rollup"}, l \in {"monitorBegin", "unmanagedBegin"} :
        /\ pc[s] = "idle" /\ pc' = [pc EXCEPT ![t] = h, ![s] = l]
        /\ loc' = [loc EXCEPT ![s] = [Blank EXCEPT !.obj = loc[t].obj]]
        /\ l = "monitorBegin" => pc[t] = "startMonitor"
        /\ pc[t] = "startMonitor" => \/ h = "settle" /\ loc[t].after = "settle"
                                     \/ h = "rollup" /\ loc[t].then = "unlock"
  BY <1>0 DEF Spawning, StartMonitor, WatchUnmanaged, Spawn, ControlInv, Flow
<1>6. s # t
  BY <1>1, <1>5
<1>7. /\ pc'[s] = l /\ pc'[t] = h /\ loc'[t] = loc[t]
      /\ loc'[s] = [Blank EXCEPT !.obj = loc[t].obj]
      /\ \A u \in Threads \ {s, t} : pc'[u] = pc[u] /\ loc'[u] = loc[u]
  BY <1>0, <1>5, <1>6 DEF Typed, PcOK, LocOK
<1> QED BY <1>2, <1>3, <1>4, <1>5, <1>6, <1>7

\* A goroutine that is started takes up a struct that is no longer to be adopted.
LEMMA AdoptsSpawn ==
  ASSUME Sound, FirstStart, FreshRet, AdoptsNew, NEW t \in Threads, Spawning(t)
  PROVE  FreshRet' /\ AdoptsNew'
<1>1. PICK s \in Monitors :
        /\ pc'[s] \in {"monitorBegin", "unmanagedBegin"}
        /\ loc'[s] = [Blank EXCEPT !.obj = loc[t].obj]
        /\ pc'[t] \in {"settle", "rollup"} /\ loc'[t] = loc[t]
        /\ \A u \in Threads \ {s, t} : pc'[u] = pc[u] /\ loc'[u] = loc[u]
  BY SpawnEffect
<1>2. FreshRet'
  BY <1>1 DEF FreshRet, FreshLabels
<1>3. ASSUME NEW x \in Threads, pc'[x] \in {"checkUnmanaged", "adopt"}
      PROVE  /\ C(x)'.cmd = NilChan
             /\ pc'[x] = "checkUnmanaged" =>
                  ~C(x)'.unmanaged /\ \A m \in Monitors : loc'[m].obj # loc'[x].obj
  <2>1. x # t /\ pc'[x] = pc[x] /\ loc'[x] = loc[x]
    BY <1>1, <1>3
  <2>2. loc[x].obj \in Objs /\ InEpisode(x)
    BY <1>3, <2>1, ManagedObj DEF InEpisode, EpisodeLabels
  <2>3. loc[t].obj # loc[x].obj
    BY <2>1, <2>2, SpawnEffect, EpisodeAlone DEF Sound, IndInv
  <2>4. \A m \in Monitors : loc'[m].obj \in {loc[m].obj, loc[t].obj}
    BY <1>1, ThreadsAre DEF Blank
  <2>5. /\ C(x)'.cmd = C(x).cmd /\ C(x)'.unmanaged = C(x).unmanaged
    <3>1. \A o \in Objs : /\ commands'[o].cmd = commands[o].cmd
                          /\ commands'[o].unmanaged = commands[o].unmanaged
      BY SpawnEffect
    <3> QED BY <2>1, <2>2, <3>1 DEF C
  <2>6. /\ C(x).cmd = NilChan
        /\ pc[x] = "checkUnmanaged" =>
             ~C(x).unmanaged /\ \A m \in Monitors : loc[m].obj # loc[x].obj
    BY <1>3, <2>1 DEF AdoptsNew
  <2> QED BY <2>1, <2>3, <2>4, <2>5, <2>6
<1> QED BY <1>2, <1>3 DEF AdoptsNew

\* Every step keeps what is known of a struct that may be adopted.
LEMMA NextAdopts ==
  ASSUME Sound, FirstStart, FreshRet, AdoptsNew, [Next]_vars PROVE FreshRet' /\ AdoptsNew'
BY AdoptsKept, AdoptsSpawn

\* Whoever launches or watches the process of a struct does not find it adopted.
LEMMA FlagKept ==
  ASSUME Sound, FirstStart, FreshRet, AdoptsNew, FlagInv, NoUserRestart, [Next]_vars,
         \A t \in Threads : ~Spawning(t)
  PROVE  FlagInv'
<1> USE ThreadsAre
<1>0. Typed /\ ControlInv
  BY DEF Sound, IndInv
<1>1. \A u \in Threads : Proceeds(u)
  BY <1>0, NextProceeds
<1>2. ASSUME NEW o \in 1 .. nobj', commands'[o].unmanaged PROVE commands'[o].cmd = NilChan
  <2>1. o \in 1 .. nobj
    BY <1>0, <1>2, NewStruct, MadeBlank
  <2>2. ASSUME NEW x \in Threads, SpawnProcess(x) PROVE loc[x].obj # o
    <3>1. ~C(x).unmanaged /\ pc[x] = "spawn"
      BY <2>2 DEF FlagInv, Managed, SpawnProcess
    <3>2. CASE commands[o].unmanaged
      BY <3>1, <3>2 DEF C
    <3>3. ASSUME NEW w \in Workers, pc[w] = "checkUnmanaged", loc[w].obj = o
          PROVE  loc[x].obj # o
      BY <3>1, <3>3, LaunchesAlone, ManagedObj DEF InEpisode, EpisodeLabels
    <3> QED BY <1>2, <2>1, <3>2, <3>3, FlagSet
  <2>3. commands[o].cmd = NilChan
    BY <1>2, <2>1, FlagSet DEF FlagInv, AdoptsNew, C
  <2> QED BY <2>1, <2>2, <2>3, CmdKept
<1>3. ASSUME NEW t \in Threads, Managed(t)' PROVE ~C(t)'.unmanaged
  <2>1. /\ loc'[t].obj = loc[t].obj /\ pc'[t] # "adopt"
        /\ Managed(t) \/ StartCommand(t) \/ CheckUnmanaged(t) \/ TakeOver(t)
    BY <1>1, <1>3 DEF Proceeds, NoUserRestart, RestartLock, RestartInPlace, Managed, RollupLabels
  <2>2. CASE TakeOver(t)
    <3>1. loc[t].obj \in Objs
      BY <1>0, <2>2, ObjOK DEF Typed, TakeOver, FreeLabels, RollupLabels
    <3> QED BY <1>0, <2>1, <2>2, <3>1 DEF TakeOver, Typed, HeapOK, Command, C
  <2>3. CASE Managed(t) \/ StartCommand(t) \/ CheckUnmanaged(t)
    <3>1. Managed(t) \/ pc[t] \in {"start", "checkUnmanaged"}
      BY <2>3 DEF StartCommand, CheckUnmanaged
    <3>2. /\ loc[t].obj \in Objs /\ loc[t].obj \in 1 .. nobj
          /\ ~commands[loc[t].obj].unmanaged
      BY <3>1, ManagedObj DEF FlagInv, FirstStart, AdoptsNew, C
    <3>3. ASSUME NEW w \in Workers, pc[w] = "checkUnmanaged", pc'[w] = "adopt"
          PROVE  loc[w].obj # loc[t].obj
      <4>1. CASE t \in Monitors
        BY <3>3, <4>1 DEF AdoptsNew
      <4>2. CASE t \notin Monitors
        <5>1. InEpisode(t) \/ pc[t] = "start"
          BY <3>1, <4>2 DEF Managed, InEpisode, EpisodeLabels, RollupLabels
        <5> QED BY <2>1, <3>2, <3>3, <5>1, LaunchesAlone
      <4> QED BY <4>1, <4>2
    <3> QED BY <2>1, <3>2, <3>3, FlagSet DEF C
  <2> QED BY Zenon, <2>1, <2>2, <2>3
<1> QED BY <1>2, <1>3 DEF FlagInv

\* So does a supervisor when it starts.
LEMMA FlagSpawn ==
  ASSUME Sound, FreshRet, FlagInv, NEW t \in Threads, Spawning(t) PROVE FlagInv'
<1> USE ThreadsAre
<1>1. PICK s \in Monitors :
        /\ pc'[s] \in {"monitorBegin", "unmanagedBegin"}
        /\ loc'[s] = [Blank EXCEPT !.obj = loc[t].obj]
        /\ pc'[s] = "monitorBegin" => pc[t] = "startMonitor"
        /\ pc'[t] \in {"settle", "rollup"} /\ loc'[t] = loc[t]
        /\ pc[t] = "startMonitor" => \/ pc'[t] = "settle" /\ loc[t].after = "settle"
                                     \/ pc'[t] = "rollup" /\ loc[t].then = "unlock"
        /\ \A u \in Threads \ {s, t} : pc'[u] = pc[u] /\ loc'[u] = loc[u]
  BY SpawnEffect
<1>2. /\ nobj' = nobj /\ loc[t].obj \in Objs
      /\ \A o \in Objs : /\ commands'[o].cmd = commands[o].cmd
                         /\ commands'[o].unmanaged = commands[o].unmanaged
  BY SpawnEffect
<1>3. 1 .. nobj \subseteq Objs
  BY ConstantsOK DEF Sound, IndInv, Typed, HeapOK, Objs, ConstantsOK
<1>4. ASSUME NEW x \in Threads, Managed(x)' PROVE ~C(x)'.unmanaged
  <2>1. CASE x \in Threads \ {s, t}
    <3>1. Managed(x) /\ loc'[x] = loc[x]
      BY <1>1, <1>4, <2>1 DEF Managed
    <3> QED BY <1>2, <3>1, ManagedObj DEF FlagInv, C
  <2>2. CASE x = s
    <3>1. pc[t] = "startMonitor" /\ loc'[x].obj = loc[t].obj
      BY <1>1, <1>4, <2>2 DEF Managed, RollupLabels, Blank
    <3>2. ~C(t).unmanaged
      BY <3>1 DEF FlagInv, Managed
    <3> QED BY <1>2, <3>1, <3>2 DEF C
  <2>3. CASE x = t
    <3>1. pc[t] \in {"startMonitor", "watchUnmanaged"}
      BY DEF Spawning, StartMonitor, WatchUnmanaged
    <3>2. CASE pc[t] = "startMonitor"
      BY <1>1, <1>2, <2>3, <3>2 DEF FlagInv, Managed, C
    <3>3. CASE pc[t] = "watchUnmanaged"
      <4>1. loc[t].ret = "started"
        BY <3>3 DEF FreshRet, FreshLabels
      <4>2. pc'[t] = "settle"
        BY <3>3, ThreadsAre DEF Spawning, StartMonitor, WatchUnmanaged, Spawn, Sound, IndInv,
           Typed, PcOK
      <4> QED BY <1>1, <1>4, <2>3, <4>1, <4>2 DEF Managed, RollupLabels
    <3> QED BY <3>1, <3>2, <3>3
  <2> QED BY <2>1, <2>2, <2>3
<1>5. ASSUME NEW o \in 1 .. nobj', commands'[o].unmanaged PROVE commands'[o].cmd = NilChan
  BY <1>2, <1>3, <1>5 DEF FlagInv
<1> QED BY <1>4, <1>5 DEF FlagInv

\* Every step but a restart by hand keeps what is known of the flag.
LEMMA NextFlag ==
  ASSUME Sound, FirstStart, FreshRet, AdoptsNew, FlagInv, NoUserRestart, [Next]_vars
  PROVE  FlagInv'
BY FlagKept, FlagSpawn

\* In the initial state nothing has been adopted.
LEMMA InitFlag == Init => FreshRet /\ AdoptsNew /\ FlagInv
BY DEF Init, FreshRet, FreshLabels, AdoptsNew, FlagInv, Managed, NewCommand, RollupLabels, Blank

\* Adoption, in every behaviour in which no retry happens in place.
LEMMA AdoptionSound ==
  Spec /\ []NoRetryInPlace => [](Sound /\ StartInv /\ FreshRet /\ AdoptsNew)
<1>1. Sound /\ StartInv /\ FreshRet /\ AdoptsNew /\ [Next]_vars => FreshRet' /\ AdoptsNew'
  BY NextAdopts DEF StartInv
<1> QED BY <1>1, InitFlag, StartsSound, PTL DEF Spec

\* An adopted command has no process of the engine's own, as long as nobody restarts
\* the command by hand.
THEOREM AdoptedHasNoProcess == Spec /\ []NoUserRestart => []UnmanagedHasNoProcess
<1>1. NoUserRestart => NoRetryInPlace
  BY DEF NoUserRestart, NoRetryInPlace
<1>2. /\ Sound /\ StartInv /\ FreshRet /\ AdoptsNew /\ FlagInv /\ NoUserRestart /\ [Next]_vars
      => FlagInv'
  BY NextFlag DEF StartInv
<1>3. Sound /\ FlagInv => UnmanagedHasNoProcess
  <2>1. ASSUME Sound, cur # NoObj PROVE cur \in 1 .. nobj
    BY <2>1, ConstantsOK DEF Sound, IndInv, Typed, HeapOK, ConstantsOK, NoObj
  <2> QED BY <2>1 DEF FlagInv, UnmanagedHasNoProcess
<1> QED BY <1>1, <1>2, <1>3, InitFlag, AdoptionSound, PTL DEF Spec

\* How a goroutine comes to run a task again, and to report it.
Reports(u) ==
  /\ pc'[u] # "awaitReady"
  /\ pc'[u] \in {"kill", "awaitExit"} => loc'[u].after # "settle"
  /\ Rerunning(u)' =>
       /\ loc'[u].obj = loc[u].obj
       /\ \/ Rerunning(u) \/ StartCommand(u) \/ TakeOverStart(u) \/ Retry(u)
          \/ RestartBegin(u) \/ (u \in Workers /\ RestartInPlace(u))
  /\ SeenDone(u)' =>
       /\ loc'[u].obj = loc[u].obj
       /\ SeenDone(u) \/ (TaskExits(u) /\ C(u).exited \notin badExit)

\* A goroutine that does not move.
LEMMA StaysReporting ==
  ASSUME TaskPath, NEW u \in Threads, pc'[u] = pc[u], loc'[u] = loc[u] PROVE Reports(u)
BY DEF Reports, TaskPath, Rerunning, SeenDone

\* The steps of a worker.
LEMMA WorkerReports ==
  ASSUME Typed, ControlInv, TaskPath, FreshRet, NEW w \in Workers, WorkerStep(w),
         ~WatchUnmanaged(w)
  PROVE  Reports(w)
<1> USE ThreadsAre
<1> USE DEF Typed, PcOK, LocOK, Locals, Goto, ControlInv, Flow, TaskPath, Reports, ContLabels,
            Rerunning, SeenDone
<1>1. CASE MarkStarting(w) \/ ResetForRetry(w) \/ AcquireNew(w) \/ AcquireJoin(w)
  BY <1>1 DEF MarkStarting, ResetForRetry, AcquireNew, AcquireJoin
<1>2. CASE JoinWait(w) \/ EnvCheck(w) \/ EnvRead(w) \/ EnvCompare(w)
  BY <1>2 DEF JoinWait, EnvCheck, EnvRead, EnvCompare, Continue
<1>3. CASE CheckUnmanaged(w) \/ Adopt(w)
  BY <1>3 DEF CheckUnmanaged, Adopt
<1>4. CASE Cancel(w) \/ CancelWait(w) \/ RestartLock(w)
  <2>1. pc'[w] \in {"cancelWait", "restartLock", "restartBegin"}
    BY <1>4 DEF Cancel, CancelWait, RestartLock
  <2> QED BY <2>1
<1>5. CASE RestartInPlace(w) \/ StartCommand(w)
  <2>1. pc'[w] \in {"relaunch", "checkUnmanaged", "prepare"} /\ loc'[w].obj = loc[w].obj
    BY <1>5 DEF RestartInPlace, StartCommand
  <2> QED BY <1>5, <2>1
<1>6. CASE RestartBegin(w)
  <2>1. pc'[w] = "kill" /\ loc'[w].obj = loc[w].obj /\ loc'[w].after = "relaunch"
    BY <1>6 DEF RestartBegin
  <2> QED BY <1>6, <2>1
<1>7. CASE Relaunched(w)
  BY <1>7 DEF Relaunched
<1>8. CASE Unlock(w) \/ Release(w)
  BY <1>8 DEF Unlock, Release, Continue
<1>9. CASE \/ CancelStop(w) \/ StampStop(w) \/ ShutdownStop(w) \/ MarkRestarting(w)
           \/ MarkStopping(w) \/ StopBarrier(w) \/ StopWait(w)
  BY <1>9 DEF CancelStop, StampStop, ShutdownStop, MarkRestarting, MarkStopping, StopBarrier,
     StopWait
<1>10. CASE Stop(w) \/ Stopped(w) \/ EnvStopped(w) \/ ShutdownEnd(w) \/ FinishRun(w)
  BY <1>10 DEF Stop, Stopped, EnvStopped, ShutdownEnd, FinishRun, Continue
<1> QED BY <1>1, <1>2, <1>3, <1>4, <1>5, <1>6, <1>7, <1>8, <1>9, <1>10 DEF WorkerStep

\* The steps of a supervisor.
LEMMA MonitorReports ==
  ASSUME Typed, ControlInv, TaskPath, NEW m \in Monitors, MonitorStep(m) PROVE Reports(m)
<1> USE ThreadsAre
<1> USE DEF Typed, PcOK, LocOK, Locals, Goto, TaskPath, Reports, Rerunning, SeenDone
<1>1. CASE UnmanagedBegin(m) \/ UnmanagedQuit(m) \/ TakeOver(m)
  BY <1>1 DEF UnmanagedBegin, UnmanagedQuit, TakeOver, Continue
<1>2. CASE \/ MonitorBegin(m) \/ Snapshot(m) \/ SuperviseQuit(m) \/ SuperviseExit(m)
           \/ GiveUp(m) \/ MonitorExit(m)
  BY <1>2 DEF MonitorBegin, Snapshot, SuperviseQuit, SuperviseExit, Unhealthy, GiveUp,
     MonitorExit, Continue
<1>3. CASE AttemptRestart(m) \/ RetriesExhausted(m) \/ BackoffQuit(m)
  BY <1>3 DEF AttemptRestart, RetriesExhausted, BackoffQuit
<1>4. CASE BackoffElapses(m) \/ RetryResume(m) \/ RetryExit(m)
  BY <1>4 DEF BackoffElapses, RetryResume, RetryExit
<1>5. CASE Retried(m)
  <2>1. pc' = [pc EXCEPT ![m] = "rollup"] \/ pc' = [pc EXCEPT ![m] = "retry"]
    BY <1>5 DEF Retried
  <2> QED BY <2>1
<1>6. CASE TakeOverStart(m) \/ Retry(m)
  <2>1. /\ pc'[m] = "prepare" \/ (pc'[m] = "kill" /\ loc'[m].after = "backoff")
        /\ loc'[m].obj = loc[m].obj
    BY <1>6 DEF TakeOverStart, Retry
  <2> QED BY <1>6, <2>1
<1> QED BY <1>1, <1>2, <1>3, <1>4, <1>5, <1>6 DEF MonitorStep

\* The steps of the code both run.
LEMMA ThreadReports ==
  ASSUME Typed, ControlInv, TaskPath, FreshRet, IsTask, NEW t \in Threads, ThreadStep(t),
         ~StartMonitor(t)
  PROVE  Reports(t)
<1> USE DEF Typed, PcOK, LocOK, Locals, Goto, ControlInv, Flow, TaskPath, Reports, Rerunning,
            SeenDone
<1>1. CASE Prepare(t) \/ LaunchEnv(t) \/ Launch(t) \/ SpawnProcess(t) \/ Relaunch(t)
  BY <1>1 DEF Prepare, LaunchEnv, Launch, SpawnProcess, Relaunch
<1>2. CASE ServiceExitsEarly(t) \/ ServiceReady(t)
  BY <1>2 DEF ServiceExitsEarly, ServiceReady
<1>3. CASE TaskExits(t)
  <2>1. /\ pc'[t] \in {"probeTask", "settle"} /\ loc'[t].obj = loc[t].obj
        /\ pc'[t] = "probeTask" \/ loc'[t].ok => C(t).exited \notin badExit
    BY <1>3 DEF TaskExits
  <2> QED BY <1>3, <2>1
<1>4. CASE TaskReady(t)
  <2>1. pc[t] = "probeTask" /\ pc'[t] \in {"startMonitor", "settle"} /\ loc'[t].obj = loc[t].obj
    BY <1>4 DEF TaskReady
  <2> QED BY <2>1
<1>5. CASE Kill(t)
  BY <1>5 DEF Kill, AfterLabels, C
<1>6. CASE AwaitExit(t)
  BY <1>6 DEF AwaitExit, AfterLabels
<1>7. CASE Settle(t) \/ Started(t)
  BY <1>7 DEF Settle, Started, Continue, RetLabels, Blank
<1>8. CASE Rollup(t)
  <2>1. CASE loc[t].todo = {}
    BY <1>8, <2>1 DEF Rollup, Continue, ThenLabels
  <2>2. CASE loc[t].todo # {}
    <3>1. pc' = [pc EXCEPT ![t] = "rollup"] \/ pc' = [pc EXCEPT ![t] = "rollupRead"]
      BY <1>8, <2>2 DEF Rollup
    <3> QED BY <3>1
  <2> QED BY <2>1, <2>2
<1>9. CASE RollupRead(t) \/ RollupWrite(t)
  BY <1>9 DEF RollupRead, RollupWrite
<1> QED BY <1>1, <1>2, <1>3, <1>4, <1>5, <1>6, <1>7, <1>8, <1>9 DEF ThreadStep

\* A new request.
LEMMA RequestReports ==
  ASSUME Typed, NEW w \in Workers, Request(w) PROVE Reports(w)
<1> USE ThreadsAre
<1> USE DEF Typed, PcOK, LocOK, Locals, Goto, Reports, Begin, Rerunning, SeenDone
<1>1. ASSUME NEW e \in Envs, StartEnvironment(w, e) PROVE Reports(w)
  BY <1>1 DEF StartEnvironment
<1>2. ASSUME NEW e \in Envs, StopEnvironment(w, e) PROVE Reports(w)
  BY <1>2 DEF StopEnvironment
<1>3. CASE RestartCommand(w)
  BY <1>3 DEF RestartCommand
<1>4. CASE Shutdown(w)
  BY <1>4 DEF Shutdown
<1> QED BY <1>1, <1>2, <1>3, <1>4 DEF Request

\* The steps of the world: a start that fails before the launch has seen nothing.
LEMMA FaultReports ==
  ASSUME Typed, TaskPath, FreshRet, FaultStep PROVE \A u \in Threads : Reports(u)
<1> USE ThreadsAre
<1> USE DEF Rerunning, SeenDone
<1>1. ASSUME NEW t \in Threads, PrepareFails(t)
      PROVE  OnlyMoves(t) /\ Reports(t)
  BY <1>1 DEF FreshRet, FreshLabels, PrepareFails, Goto, OnlyMoves, Typed, PcOK, LocOK, Locals,
     Reports
<1>2. ASSUME NEW t \in Threads, SpawnFails(t) \/ ServiceTimesOut(t) \/ TaskTimesOut(t)
      PROVE  OnlyMoves(t) /\ Reports(t)
  BY <1>2 DEF TaskPath, SpawnFails, ServiceTimesOut, TaskTimesOut, Goto, OnlyMoves, Typed, PcOK,
     LocOK, Locals, Reports
<1>3. ASSUME NEW m \in Monitors, SuperviseLiveness(m) \/ UnmanagedProbeFails(m)
      PROVE  OnlyMoves(m) /\ Reports(m)
  BY <1>3 DEF SuperviseLiveness, UnmanagedProbeFails, Unhealthy, Goto, OnlyMoves, Typed, PcOK,
     LocOK, Locals, Reports
<1>4. ASSUME NEW w \in Workers, ShutdownDeadline(w) PROVE UNCHANGED <<pc, loc>>
  BY <1>4 DEF ShutdownDeadline
<1>5. ASSUME NEW p \in alive, ProcessCrashes(p) PROVE UNCHANGED <<pc, loc>>
  BY <1>5 DEF ProcessCrashes
<1>6. ASSUME NEW t \in Threads, OnlyMoves(t), Reports(t) PROVE \A u \in Threads : Reports(u)
  BY <1>6, StaysReporting DEF OnlyMoves
<1>7. CASE UNCHANGED <<pc, loc>>
  BY <1>7, StaysReporting
<1> QED BY <1>1, <1>2, <1>3, <1>4, <1>5, <1>6, <1>7 DEF FaultStep

\* Every step but the two that start a goroutine.
LEMMA NextReports ==
  ASSUME Typed, ControlInv, TaskPath, FreshRet, IsTask, [Next]_vars,
         \A t \in Threads : ~Spawning(t)
  PROVE  \A u \in Threads : Reports(u)
<1> USE ThreadsAre DEF Spawning
<1>1. ASSUME NEW t \in Threads, OnlyMoves(t), Reports(t) PROVE \A u \in Threads : Reports(u)
  BY Zenon, <1>1, StaysReporting DEF OnlyMoves
<1>2. ASSUME NEW w \in Workers, Request(w) PROVE OnlyMoves(w)
  BY <1>2 DEF Request, StartEnvironment, StopEnvironment, RestartCommand, Shutdown, Goto,
     OnlyMoves, Typed, PcOK, LocOK
<1>3. ASSUME NEW p \in alive, ProcessExits(p) PROVE UNCHANGED <<pc, loc>>
  BY <1>3 DEF ProcessExits
<1>4. CASE UNCHANGED <<pc, loc>>
  BY <1>4, StaysReporting
<1>5. ASSUME NEW w \in Workers, Request(w) PROVE \A u \in Threads : Reports(u)
  BY <1>1, <1>2, <1>5, RequestReports
<1>6. ASSUME NEW w \in Workers, WorkerStep(w) PROVE \A u \in Threads : Reports(u)
  BY <1>1, <1>6, WorkerMoves, WorkerReports
<1>7. ASSUME NEW m \in Monitors, MonitorStep(m) PROVE \A u \in Threads : Reports(u)
  BY <1>1, <1>7, MonitorMoves, MonitorReports
<1>8. ASSUME NEW t \in Threads, ThreadStep(t) PROVE \A u \in Threads : Reports(u)
  BY <1>1, <1>8, ThreadMoves, ThreadReports
<1>9. CASE UNCHANGED vars
  BY <1>4, <1>9 DEF vars
<1> QED BY <1>3, <1>4, <1>5, <1>6, <1>7, <1>8, <1>9, FaultReports DEF Next

\* The steps that may report a command up.
UpStep(t) ==
  \/ Adopt(t) \/ ServiceReady(t) \/ TaskExits(t) \/ TaskReady(t) \/ Retried(t) \/ Relaunched(t)

\* A call of setCmdState with another state reports nothing up.
LEMMA StateDown ==
  ASSUME HeapOK, NEW cs \in [Objs -> Command], NEW s \in CmdStates \ {"healthy", "done"},
         commands' = WithCmdState(cs, s), \A q \in Objs : cs[q].state = commands[q].state
  PROVE  \A q \in Objs : Up(q)' => Up(q)
BY CurObj DEF WithCmdState, Command, Up

\* The other steps of a worker report nothing up.
LEMMA WorkerDown ==
  ASSUME Typed, ControlInv, NEW w \in Workers, WorkerStep(w), ~UpStep(w)
  PROVE  \A q \in Objs : Up(q)' => Up(q)
<1> USE ThreadsAre
<1> DEFINE o == loc[w].obj
<1>1. CASE \/ MarkStarting(w) \/ ResetForRetry(w) \/ JoinWait(w) \/ EnvCheck(w)
           \/ EnvRead(w) \/ EnvCompare(w) \/ CancelWait(w) \/ StopBarrier(w) \/ StopWait(w)
           \/ EnvStopped(w) \/ FinishRun(w) \/ ShutdownEnd(w)
  BY <1>1 DEF Up, heap, MarkStarting, ResetForRetry, JoinWait, EnvCheck, EnvRead, EnvCompare,
     CancelWait, StopBarrier, StopWait, EnvStopped, FinishRun, ShutdownEnd
<1>2. CASE \/ AcquireJoin(w) \/ Cancel(w) \/ Release(w) \/ CancelStop(w) \/ StampStop(w)
           \/ ShutdownStop(w) \/ Unlock(w)
  BY <1>2 DEF Up, Typed, HeapOK, Command, AcquireJoin, Cancel, Release, CancelStop, StampStop,
     ShutdownStop, Unlock
<1>3. CASE CheckUnmanaged(w) \/ WatchUnmanaged(w) \/ Stop(w)
  BY <1>3 DEF Up, Typed, HeapOK, Command, CheckUnmanaged, WatchUnmanaged, Stop
<1>4. CASE RestartBegin(w) \/ MarkRestarting(w) \/ MarkStopping(w)
  BY <1>4, StateDown DEF Typed, HeapOK, CmdStates, RestartBegin, MarkRestarting, MarkStopping
<1>5. CASE AcquireNew(w)
  <2>1. nobj + 1 \in Objs /\ commands'[nobj + 1].state = "pending"
    BY <1>5, MadeBlank
  <2>2. \A q \in Objs \ {nobj + 1} : commands'[q] = commands[q]
    BY <1>5, <2>1 DEF AcquireNew, Typed, HeapOK
  <2> QED BY <2>1, <2>2 DEF Up
<1>6. CASE StartCommand(w) \/ RestartInPlace(w) \/ Stopped(w) \/ RestartLock(w)
  <2>0. o \in Objs /\ commands[o] \in Command /\ commands \in [Objs -> Command]
    BY <1>6, ObjOK, FieldsOK DEF Typed, HeapOK, StartCommand, RestartInPlace, Stopped, RestartLock,
       FreeLabels, RollupLabels
  <2>1. ASSUME NEW c \in Command, c.state = commands[o].state,
               NEW s \in CmdStates \ {"healthy", "done"},
               \/ commands' = WithCmdState([commands EXCEPT ![o] = c], s)
               \/ commands' = [commands EXCEPT ![o] = c]
        PROVE  \A q \in Objs : Up(q)' => Up(q)
    <3> DEFINE cs == [commands EXCEPT ![o] = c]
    <3>1. cs \in [Objs -> Command] /\ \A q \in Objs : cs[q].state = commands[q].state
      BY <2>0, <2>1
    <3>2. commands' = WithCmdState(cs, s) \/ commands' = cs
      BY <2>1
    <3> HIDE DEF cs
    <3> QED BY <3>1, <3>2, StateDown DEF Typed, Up
  <2>2. CASE StartCommand(w)
    <3> DEFINE c == [commands[o] EXCEPT !.restartMu = w]
    <3>1. c \in Command /\ c.state = commands[o].state
      BY <2>0, SetLock DEF Command
    <3>2. commands' = WithCmdState([commands EXCEPT ![o] = c], "starting")
      BY <2>2 DEF StartCommand
    <3> HIDE DEF c
    <3> QED BY <2>1, <3>1, <3>2 DEF CmdStates
  <2>3. CASE RestartInPlace(w)
    <3> DEFINE c == [commands[o] EXCEPT !.restartMu = w, !.retries = 0]
    <3>1. c \in Command /\ c.state = commands[o].state
      BY <2>0, SetLockRetries DEF Command
    <3>2. commands' = WithCmdState([commands EXCEPT ![o] = c], "restarting")
      BY <2>3 DEF RestartInPlace
    <3> HIDE DEF c
    <3> QED BY <2>1, <3>1, <3>2 DEF CmdStates
  <2>4. CASE Stopped(w)
    <3> DEFINE c == [commands[o] EXCEPT !.stopping = FALSE]
    <3>1. c \in Command /\ c.state = commands[o].state
      BY <2>0, SetStopped DEF Command
    <3>2. commands' = WithCmdState([commands EXCEPT ![o] = c], "stopped")
      BY <2>4 DEF Stopped
    <3> HIDE DEF c
    <3> QED BY <2>1, <3>1, <3>2 DEF CmdStates
  <2>5. CASE RestartLock(w)
    <3> DEFINE c == [commands[o] EXCEPT !.restartMu = w, !.userStopped = FALSE,
                                        !.quit = NilChan, !.retries = 0]
    <3>1. c.state = commands[o].state
      BY <2>0 DEF Command
    <3>2. commands' = [commands EXCEPT ![o] = c]
      BY <2>5 DEF RestartLock
    <3> HIDE DEF c
    <3> QED BY <2>0, <3>1, <3>2 DEF Up
  <2> QED BY <1>6, <2>2, <2>3, <2>4, <2>5
<1> QED BY <1>1, <1>2, <1>3, <1>4, <1>5, <1>6 DEF WorkerStep, UpStep

\* Nor do the other steps of a supervisor.
LEMMA MonitorDown ==
  ASSUME Typed, ControlInv, NEW m \in Monitors, MonitorStep(m), ~UpStep(m)
  PROVE  \A q \in Objs : Up(q)' => Up(q)
<1>1. CASE \/ UnmanagedBegin(m) \/ UnmanagedQuit(m) \/ MonitorBegin(m) \/ Snapshot(m)
           \/ SuperviseQuit(m) \/ SuperviseExit(m) \/ MonitorExit(m) \/ BackoffQuit(m)
           \/ BackoffElapses(m)
  BY <1>1 DEF Up, heap, UnmanagedBegin, UnmanagedQuit, MonitorBegin, Snapshot, SuperviseQuit,
     SuperviseExit, Unhealthy, MonitorExit, BackoffQuit, BackoffElapses
<1>2. CASE TakeOverStart(m) \/ GiveUp(m) \/ RetriesExhausted(m) \/ Retry(m)
  BY <1>2, StateDown DEF Typed, HeapOK, TakeOverStart, GiveUp, RetriesExhausted, Retry, CmdStates
<1>3. CASE AttemptRestart(m) \/ RetryResume(m) \/ RetryExit(m) \/ TakeOver(m)
  BY <1>3 DEF Up, Typed, HeapOK, Command, AttemptRestart, RetryResume, RetryExit, TakeOver
<1> QED BY <1>1, <1>2, <1>3 DEF MonitorStep, UpStep

\* Nor those of the code both run.
LEMMA ThreadDown ==
  ASSUME Typed, ControlInv, NEW t \in Threads, ThreadStep(t), ~UpStep(t)
  PROVE  \A q \in Objs : Up(q)' => Up(q)
<1>1. CASE \/ Prepare(t) \/ LaunchEnv(t) \/ Kill(t) \/ AwaitExit(t) \/ Settle(t) \/ Rollup(t)
           \/ RollupRead(t) \/ RollupWrite(t)
  BY <1>1 DEF Up, heap, Prepare, LaunchEnv, Kill, AwaitExit, Settle, Rollup, RollupRead, RollupWrite
<1>2. CASE Started(t) \/ Launch(t) \/ SpawnProcess(t) \/ Relaunch(t)
  BY <1>2 DEF Up, Typed, HeapOK, Command, Started, Launch, SpawnProcess, Relaunch
<1>3. CASE StartMonitor(t)
  <2>1. PICK n, k : commands' = [commands EXCEPT ![loc[t].obj].quit = n,
                                                 ![loc[t].obj].monitorDone = k]
    BY <1>3 DEF StartMonitor
  <2> QED BY <2>1 DEF Up, Typed, HeapOK, Command
<1>4. CASE ServiceExitsEarly(t)
  BY <1>4, StateDown DEF Up, Typed, HeapOK, CmdStates, ServiceExitsEarly
<1> QED BY <1>1, <1>2, <1>3, <1>4 DEF ThreadStep, UpStep

\* A command that goes up was reported up.
LEMMA UpSet ==
  ASSUME Typed, ControlInv, [Next]_vars, \A t \in Threads : ~UpStep(t)
  PROVE  \A q \in Objs : Up(q)' => Up(q)
<1> USE ThreadsAre
<1>1. ASSUME NEW w \in Workers, Request(w) PROVE \A q \in Objs : Up(q)' => Up(q)
  BY <1>1 DEF Up, Request, StartEnvironment, StopEnvironment, RestartCommand, Shutdown
<1>2. ASSUME NEW t \in Threads,
             PrepareFails(t) \/ SpawnFails(t) \/ ServiceTimesOut(t) \/ TaskTimesOut(t)
      PROVE  \A q \in Objs : Up(q)' => Up(q)
  BY <1>2, StateDown DEF Typed, HeapOK, CmdStates, PrepareFails, SpawnFails, ServiceTimesOut,
     TaskTimesOut
<1>3. ASSUME \/ \E m \in Monitors : SuperviseLiveness(m) \/ UnmanagedProbeFails(m)
             \/ \E w \in Workers : ShutdownDeadline(w)
             \/ \E p \in alive : ProcessCrashes(p) \/ ProcessExits(p)
             \/ UNCHANGED vars
      PROVE  \A q \in Objs : Up(q)' => Up(q)
  <2>1. UNCHANGED commands
    BY <1>3 DEF heap, vars, SuperviseLiveness, UnmanagedProbeFails, Unhealthy, ShutdownDeadline,
       ProcessCrashes, ProcessExits
  <2> QED BY <2>1 DEF Up
<1> QED BY <1>1, <1>2, <1>3, WorkerDown, MonitorDown, ThreadDown DEF Next, FaultStep

\* Only an exit adds to the bad exits, and the map changes with a new struct and with
\* Shutdown.
MapKept == badExit' \subseteq badExit \cup alive /\ cur' \in {cur, NoObj}

\* The steps of a worker.
LEMMA WorkerKeepsMap ==
  ASSUME NEW w \in Workers, WorkerStep(w), ~AcquireNew(w) PROVE MapKept
<1> USE DEF MapKept, heap, procs
<1>1. CASE \/ MarkStarting(w) \/ ResetForRetry(w) \/ AcquireJoin(w) \/ JoinWait(w)
           \/ EnvCheck(w) \/ EnvRead(w) \/ EnvCompare(w) \/ StartCommand(w)
  BY Zenon, <1>1 DEF MarkStarting, ResetForRetry, AcquireJoin, JoinWait, EnvCheck, EnvRead,
     EnvCompare, StartCommand
<1>2. CASE \/ CheckUnmanaged(w) \/ Adopt(w) \/ WatchUnmanaged(w) \/ RestartInPlace(w)
           \/ Cancel(w) \/ CancelWait(w) \/ RestartLock(w)
  BY <1>2 DEF CheckUnmanaged, Adopt, WatchUnmanaged, RestartInPlace, Cancel, CancelWait,
     RestartLock
<1>3. CASE \/ RestartBegin(w) \/ Relaunched(w) \/ Unlock(w) \/ Release(w) \/ CancelStop(w)
           \/ StampStop(w) \/ ShutdownStop(w) \/ MarkRestarting(w) \/ MarkStopping(w)
           \/ StopBarrier(w)
  BY <1>3 DEF RestartBegin, Relaunched, Unlock, Release, CancelStop, StampStop, ShutdownStop,
     MarkRestarting, MarkStopping, StopBarrier
<1>4. CASE StopWait(w) \/ Stop(w) \/ Stopped(w) \/ EnvStopped(w) \/ ShutdownEnd(w) \/ FinishRun(w)
  BY <1>4 DEF StopWait, Stop, Stopped, EnvStopped, ShutdownEnd, FinishRun
<1> QED BY <1>1, <1>2, <1>3, <1>4 DEF WorkerStep

\* The steps of a supervisor.
LEMMA MonitorKeepsMap ==
  ASSUME NEW m \in Monitors, MonitorStep(m) PROVE MapKept
<1> USE DEF MapKept, heap, procs
<1>1. CASE \/ UnmanagedBegin(m) \/ UnmanagedQuit(m) \/ TakeOver(m) \/ TakeOverStart(m)
           \/ MonitorBegin(m) \/ Snapshot(m) \/ SuperviseQuit(m) \/ SuperviseExit(m)
  BY <1>1 DEF UnmanagedBegin, UnmanagedQuit, TakeOver, TakeOverStart, MonitorBegin, Snapshot,
     SuperviseQuit, SuperviseExit, Unhealthy
<1>2. CASE \/ GiveUp(m) \/ MonitorExit(m) \/ AttemptRestart(m) \/ RetriesExhausted(m)
           \/ Retry(m) \/ BackoffQuit(m) \/ BackoffElapses(m) \/ Retried(m)
           \/ RetryResume(m) \/ RetryExit(m)
  BY <1>2 DEF GiveUp, MonitorExit, AttemptRestart, RetriesExhausted, Retry, BackoffQuit,
     BackoffElapses, Retried, RetryResume, RetryExit
<1> QED BY <1>1, <1>2 DEF MonitorStep

\* Every step but the making of a struct.
LEMMA NextKeepsMap ==
  ASSUME [Next]_vars, \A w \in Workers : ~AcquireNew(w) PROVE MapKept
<1> USE DEF MapKept, heap, procs
<1>1. ASSUME NEW w \in Workers, Request(w) PROVE MapKept
  BY <1>1 DEF Request, Begin, StartEnvironment, StopEnvironment, RestartCommand, Shutdown
<1>2. ASSUME NEW t \in Threads, ThreadStep(t) PROVE MapKept
  BY <1>2 DEF ThreadStep, Prepare, LaunchEnv, Launch, SpawnProcess, ServiceExitsEarly, ServiceReady,
     TaskExits, TaskReady, StartMonitor, Kill, AwaitExit, Settle, Started, Relaunch, Rollup,
     RollupRead, RollupWrite
<1>3. ASSUME NEW t \in Threads,
             PrepareFails(t) \/ SpawnFails(t) \/ ServiceTimesOut(t) \/ TaskTimesOut(t)
      PROVE  MapKept
  BY <1>3 DEF PrepareFails, SpawnFails, ServiceTimesOut, TaskTimesOut
<1>4. ASSUME \/ \E m \in Monitors : SuperviseLiveness(m) \/ UnmanagedProbeFails(m)
             \/ \E w \in Workers : ShutdownDeadline(w)
      PROVE  MapKept
  BY <1>4 DEF SuperviseLiveness, UnmanagedProbeFails, Unhealthy, ShutdownDeadline
<1>5. ASSUME NEW p \in alive, ProcessExits(p) \/ ProcessCrashes(p) PROVE MapKept
  BY <1>5 DEF ProcessExits, ProcessCrashes
<1>6. CASE UNCHANGED vars
  BY <1>6 DEF vars
<1> QED BY Zenon, <1>1, <1>2, <1>3, <1>4, <1>5, <1>6, WorkerKeepsMap, MonitorKeepsMap
        DEF Next, FaultStep

\* A process that is over stays so until somebody launches its command again.
LEMMA OverKept ==
  ASSUME Sound, [Next]_vars, NEW o \in 1 .. nobj, Over(o),
         \A t \in Threads : pc[t] = "spawn" => loc[t].obj # o
  PROVE  Over(o)'
<1>1. commands'[o].cmd = commands[o].cmd
  BY CmdKept DEF SpawnProcess
<1>2. commands'[o].cmd \notin alive'
  BY StillDown DEF Over
<1>3. badExit' \subseteq badExit \cup alive
  BY NextKeepsMap DEF MapKept, AcquireNew, procs
<1> QED BY <1>1, <1>2, <1>3 DEF Over

\* Who reports a command up holds its lock, and is not running it again.
LEMMA UpStepEffect ==
  ASSUME Typed, TaskPath, NEW t \in Threads, UpStep(t)
  PROVE  InEpisode(t) /\ ~Rerunning(t)' /\ pc[t] # "spawn" /\ cur' = cur
<1> USE ThreadsAre DEF Typed, PcOK, Goto, Rerunning, InEpisode, EpisodeLabels
<1>1. CASE Adopt(t)
  BY <1>1 DEF Adopt
<1>2. CASE ServiceReady(t)
  BY <1>2 DEF ServiceReady, TaskPath
<1>3. CASE TaskExits(t) \/ TaskReady(t)
  <2>1. /\ pc[t] \in {"awaitTask", "probeTask"} /\ cur' = cur
        /\ pc'[t] \in {"probeTask", "settle", "startMonitor"}
    BY <1>3 DEF TaskExits, TaskReady
  <2> QED BY <2>1
<1>4. CASE Retried(t) \/ Relaunched(t)
  <2>1. /\ pc[t] \in {"retried", "relaunched"} /\ cur' = cur
        /\ pc'[t] \in {"rollup", "retry", "startMonitor"}
    BY <1>4 DEF Retried, Relaunched
  <2> QED BY <2>1
<1> QED BY <1>1, <1>2, <1>3, <1>4 DEF UpStep

\* A task that is being run again is not reported up: whoever reports it up would drive
\* another episode of the same struct.
LEMMA RerunningKept ==
  ASSUME Sound, TaskPath, FreshRet, TaskInv, IsTask, NoLateEpisode, NoRetryInPlace,
         [Next]_vars, \A t \in Threads : ~Spawning(t),
         NEW t \in Threads, Rerunning(t)', loc'[t].obj = cur'
  PROVE  ~Up(cur)'
<1> USE ThreadsAre
<1>0. Typed /\ ControlInv /\ LockInv
  BY DEF Sound, IndInv
<1>1. Reports(t)
  BY <1>0, NextReports
<1>2. /\ loc'[t].obj = loc[t].obj
      /\ Rerunning(t) \/ StartCommand(t) \/ TakeOverStart(t) \/ Retry(t) \/ RestartBegin(t)
  BY <1>1 DEF Reports, NoRetryInPlace, RestartInPlace
<1>3. InEpisode(t) \/ pc[t] = "start"
  BY <1>2 DEF Rerunning, StartCommand, TakeOverStart, Retry, RestartBegin, InEpisode,
     EpisodeLabels
<1>4. loc[t].obj \in Objs /\ loc[t].obj \in 1 .. nobj
  BY <1>2, ManagedObj DEF Rerunning, Managed, StartCommand, TakeOverStart, Retry, RestartBegin
<1>5. cur' = cur /\ cur = loc[t].obj /\ cur # NoObj
  <2>1. ASSUME NEW w \in Workers, AcquireNew(w) PROVE FALSE
    <3>1. cur' = nobj + 1 /\ nobj \in Nat
      BY <1>0, <2>1, ConstantsOK DEF AcquireNew, Typed, HeapOK, ConstantsOK
    <3>2. cur' \in 1 .. nobj
      BY <1>2, <1>4
    <3> HIDE <1>2, <1>4
    <3> QED BY <3>1, <3>2
  <2>2. cur' \in {cur, NoObj}
    BY <2>1, NextKeepsMap DEF MapKept
  <2> QED BY <1>2, <1>4, <2>2 DEF NoObj
<1>6. CASE Rerunning(t)
  <2>1. ~Up(cur) /\ InEpisode(t)
    BY <1>5, <1>6 DEF TaskInv, Rerunning, InEpisode, EpisodeLabels
  <2>2. ASSUME NEW x \in Threads, UpStep(x) PROVE FALSE
    <3>1. InEpisode(x) /\ ~Rerunning(x)'
      BY <1>0, <2>2, UpStepEffect
    <3>2. loc[x].obj = loc[t].obj
      BY <1>5, <3>1 DEF NoLateEpisode
    <3>3. x = t
      BY <1>0, <1>4, <2>1, <3>1, <3>2, EpisodeAlone
    <3> QED BY <3>1, <3>3
  <2>3. Up(cur)' => Up(cur)
    <3>1. \A q \in Objs : commands'[q].state \in {"healthy", "done"} => Up(q)
      BY <1>0, <2>2, UpSet DEF Up
    <3> QED BY <1>4, <1>5, <3>1 DEF Up
  <2> QED BY <2>1, <2>3
<1>7. CASE StartCommand(t) \/ TakeOverStart(t) \/ Retry(t) \/ RestartBegin(t)
  <2> DEFINE c == [commands[loc[t].obj] EXCEPT !.restartMu = t]
  <2> DEFINE ls == [commands EXCEPT ![loc[t].obj] = c]
  <2>1. commands \in [Objs -> Command] /\ ls \in [Objs -> Command]
    <3>1. c \in Command /\ commands \in [Objs -> Command]
      BY <1>0, <1>4, SetLock DEF Typed, HeapOK
    <3> QED BY <3>1
  <2>2. \/ commands' = WithCmdState(ls, "starting")
        \/ \E s \in {"starting", "restarting"} : commands' = WithCmdState(commands, s)
    BY <1>7 DEF StartCommand, TakeOverStart, Retry, RestartBegin
  <2> HIDE DEF ls
  <2>3. commands'[cur].state \in {"starting", "restarting"}
    BY <1>4, <1>5, <2>1, <2>2 DEF WithCmdState, Command
  <2> QED BY <1>5, <2>3 DEF Up
<1> QED BY <1>2, <1>6, <1>7

\* What a goroutine has seen of the task still holds when it reports it.
LEMMA SeenKept ==
  ASSUME Sound, TaskPath, FreshRet, TaskInv, IsTask, [Next]_vars,
         \A t \in Threads : ~Spawning(t), NEW t \in Threads, SeenDone(t)'
  PROVE  Over(loc[t].obj)' /\ loc'[t].obj = loc[t].obj
<1> USE ThreadsAre
<1>0. Typed /\ ControlInv /\ LockInv /\ ChannelsMade /\ ExitsFit
  BY DEF Sound, IndInv, ChannelInv
<1>1. /\ loc'[t].obj = loc[t].obj
      /\ SeenDone(t) \/ (TaskExits(t) /\ C(t).exited \notin badExit)
  BY <1>0, NextReports DEF Reports
<1>2. InEpisode(t) /\ pc[t] # "spawn" /\ pc[t] \notin FreeLabels \cup RollupLabels
  BY <1>1 DEF SeenDone, TaskExits, InEpisode, EpisodeLabels, FreeLabels, RollupLabels
<1>3. loc[t].obj \in Objs /\ loc[t].obj \in 1 .. nobj /\ C(t).exited # NilChan
  BY <1>0, <1>2, ObjMade
<1>4. Over(loc[t].obj)
  <2>1. CASE TaskExits(t) /\ C(t).exited \notin badExit
    <3>1. C(t).exited \in closed
      BY <2>1 DEF TaskExits
    <3>2. C(t).cmd = C(t).exited
      BY <1>0, <1>3, <3>1 DEF ExitsFit, C
    <3> QED BY <1>0, <2>1, <3>1, <3>2 DEF ExitsFit, Over, C
  <2> QED BY <1>1, <2>1 DEF TaskInv
<1>5. ASSUME NEW x \in Threads, pc[x] = "spawn" PROVE loc[x].obj # loc[t].obj
  <2>1. InEpisode(x) /\ x # t
    BY <1>2, <1>5 DEF InEpisode, EpisodeLabels
  <2> QED BY <1>0, <1>2, <1>3, <2>1, EpisodeAlone
<1> QED BY <1>1, <1>3, <1>4, <1>5, OverKept

\* A command that is reported up is over.
LEMMA UpKept ==
  ASSUME Sound, TaskPath, FreshRet, AdoptsNew, TaskInv, IsTask, NoLateEpisode, [Next]_vars,
         \A t \in Threads : ~Spawning(t), IsHealthy'
  PROVE  Over(cur)'
<1> USE ThreadsAre
<1>0. /\ Typed /\ ControlInv /\ LockInv /\ ChannelsMade /\ ExitsFit /\ nobj \in Nat
      /\ cur \in 0 .. nobj /\ 1 .. nobj \subseteq Objs
  BY ConstantsOK DEF Sound, IndInv, ChannelInv, Typed, HeapOK, Objs, ConstantsOK
<1>1. cur' # NoObj /\ commands'[cur'].state \in {"healthy", "done"}
  BY DEF IsHealthy
<1>2. cur' = cur /\ cur \in 1 .. nobj /\ cur \in Objs
  <2>1. ASSUME NEW w \in Workers, AcquireNew(w) PROVE FALSE
    BY <1>0, <1>1, <2>1, MadeBlank DEF AcquireNew
  <2>2. cur' \in {cur, NoObj}
    BY <2>1, NextKeepsMap DEF MapKept
  <2> QED BY <1>0, <1>1, <2>2 DEF NoObj
<1>3. CASE Up(cur)
  <2>1. Over(cur)
    BY <1>1, <1>2, <1>3 DEF TaskInv, IsHealthy, Up
  <2>2. ASSUME NEW x \in Threads, pc[x] = "spawn" PROVE loc[x].obj # cur
    BY <1>3, <2>2 DEF TaskInv, Rerunning
  <2>3. commands'[cur].cmd \notin alive' \cup badExit'
    BY <1>2, <2>1, <2>2, OverKept DEF Over
  <2> QED BY <1>2, <2>3 DEF Over
<1>4. CASE ~Up(cur)
  <2>1. PICK x \in Threads : UpStep(x)
    BY <1>0, <1>1, <1>2, <1>4, UpSet DEF Up
  <2>2. InEpisode(x) /\ pc[x] # "spawn" /\ loc[x].obj = cur
    BY <1>0, <1>1, <1>2, <2>1, UpStepEffect DEF NoLateEpisode
  <2>3. ASSUME NEW y \in Threads, pc[y] = "spawn" PROVE loc[y].obj # cur
    <3>1. InEpisode(y) /\ y # x
      BY <2>2, <2>3 DEF InEpisode, EpisodeLabels
    <3> QED BY <1>0, <1>2, <2>2, <3>1, EpisodeAlone
  <2>4. Over(cur)
    <3>1. CASE Adopt(x)
      <4>1. C(x).cmd = NilChan
        BY <3>1 DEF Adopt, AdoptsNew
      <4> QED BY <1>0, <2>2, <4>1 DEF Over, C, TaskInv, ChannelsMade, NilChan
    <3>2. CASE ServiceReady(x)
      BY <3>2 DEF ServiceReady, TaskPath
    <3>3. CASE TaskExits(x)
      <4>1. C(x).exited \in closed /\ C(x).exited \notin badExit
        <5>1. C(x).exited \in closed
          BY <3>3 DEF TaskExits
        <5>2. C(x).exited \in badExit => commands' = WithCmdState(commands, "error")
          BY <3>3 DEF TaskExits
        <5> QED BY <1>0, <1>1, <1>2, <5>1, <5>2 DEF WithCmdState, Typed, HeapOK, Command
      <4>2. C(x).cmd = C(x).exited
        <5>1. C(x).exited # NilChan
          BY <1>0, <1>2, <2>2 DEF ChannelsMade, C
        <5> QED BY <1>0, <1>2, <2>2, <4>1, <5>1 DEF ExitsFit, C
      <4> QED BY <1>0, <2>2, <4>1, <4>2 DEF ExitsFit, Over, C
    <3>4. CASE TaskReady(x)
      BY <2>2, <3>4 DEF TaskReady, TaskInv, SeenDone
    <3>5. CASE Retried(x) \/ Relaunched(x)
      <4>1. CASE loc[x].ok
        <5>1. pc[x] \in {"retried", "relaunched"}
          BY <3>5 DEF Retried, Relaunched
        <5> QED BY <2>2, <4>1, <5>1 DEF TaskInv, SeenDone
      <4>2. CASE ~loc[x].ok
        <5>1. commands' = commands \/ commands' = [commands EXCEPT ![loc[x].obj].retries = @ + 1]
          BY <3>5, <4>2 DEF Retried, Relaunched
        <5> QED BY <1>0, <1>1, <1>2, <1>4, <5>1 DEF Up, Typed, HeapOK, Command
      <4> QED BY <4>1, <4>2
    <3> QED BY <2>1, <3>1, <3>2, <3>3, <3>4, <3>5 DEF UpStep
  <2>5. commands'[cur].cmd \notin alive' \cup badExit'
    BY <1>2, <2>3, <2>4, OverKept DEF Over
  <2> QED BY <1>2, <2>5 DEF Over
<1> QED BY <1>3, <1>4

\* Every step but the two that start a goroutine.
LEMMA TaskKept ==
  ASSUME Sound, TaskPath, FreshRet, AdoptsNew, TaskInv, IsTask, NoLateEpisode,
         NoRetryInPlace, [Next]_vars, \A t \in Threads : ~Spawning(t)
  PROVE  TaskPath' /\ TaskInv'
<1>0. Typed /\ ControlInv /\ ChannelsMade
  BY DEF Sound, IndInv, ChannelInv
<1>1. TaskPath'
  <2>1. \A u \in Threads : Reports(u)
    BY <1>0, NextReports
  <2> QED BY <2>1 DEF TaskPath, Reports
<1>2. NilChan \notin badExit'
  <2>1. badExit' \subseteq badExit \cup alive
    BY NextKeepsMap DEF MapKept, AcquireNew, procs
  <2> QED BY <1>0, <2>1 DEF TaskInv, ChannelsMade, NilChan
<1>3. ASSUME NEW t \in Threads, SeenDone(t)' PROVE Over(loc[t].obj)'
  BY <1>3, SeenKept
<1>4. ASSUME NEW t \in Threads, Rerunning(t)', loc'[t].obj = cur' PROVE ~Up(cur)'
  BY <1>4, RerunningKept
<1>5. IsHealthy' => Over(cur)'
  BY UpKept
<1> QED BY <1>1, <1>2, <1>3, <1>4, <1>5 DEF TaskInv

\* A goroutine that is started neither runs the task nor has seen it exit, and the one
\* that starts it is done with the task.
LEMMA TaskSpawn ==
  ASSUME Sound, TaskPath, FreshRet, TaskInv, NEW t \in Threads, Spawning(t)
  PROVE  TaskPath' /\ TaskInv'
<1> USE ThreadsAre
<1>1. PICK s \in Monitors :
        /\ pc'[s] \in {"monitorBegin", "unmanagedBegin"}
        /\ loc'[s] = [Blank EXCEPT !.obj = loc[t].obj]
        /\ pc'[t] \in {"settle", "rollup"} /\ loc'[t] = loc[t]
        /\ pc[t] = "startMonitor" => \/ pc'[t] = "settle" /\ loc[t].after = "settle"
                                     \/ pc'[t] = "rollup" /\ loc[t].then = "unlock"
        /\ \A u \in Threads \ {s, t} : pc'[u] = pc[u] /\ loc'[u] = loc[u]
  BY SpawnEffect
<1>2. /\ cur' = cur /\ alive' = alive /\ badExit' = badExit
      /\ \A o \in Objs : /\ commands'[o].cmd = commands[o].cmd
                         /\ commands'[o].state = commands[o].state
  BY SpawnEffect
<1>3. /\ cur # NoObj => cur \in Objs
      /\ \A u \in Threads : loc[u].obj \in Objs \cup {NoObj}
  BY ConstantsOK DEF Sound, IndInv, Typed, HeapOK, LocOK, Locals, Objs, ConstantsOK, NoObj
<1>4. ~SeenDone(t)' /\ ~Rerunning(t)' /\ ~SeenDone(s)' /\ ~Rerunning(s)'
  <2>1. pc[t] \in {"startMonitor", "watchUnmanaged"}
    BY DEF Spawning, StartMonitor, WatchUnmanaged
  <2>2. pc'[t] = "settle" => loc[t].ret = "started"
    BY <1>1, <2>1 DEF FreshRet, FreshLabels
  <2> QED BY <1>1, <2>2 DEF SeenDone, Rerunning, Blank
<1>5. TaskPath'
  BY <1>1 DEF TaskPath
<1>6. ASSUME NEW x \in Threads, SeenDone(x)' PROVE Over(loc[x].obj)'
  <2>1. loc'[x] = loc[x] /\ SeenDone(x)
    BY <1>1, <1>4, <1>6 DEF SeenDone
  <2>2. loc[x].obj \in Objs
    <3>1. pc[x] \notin FreeLabels \cup RollupLabels
      BY <2>1 DEF SeenDone, FreeLabels, RollupLabels
    <3> QED BY <3>1, ObjMade DEF Sound, IndInv, ChannelInv
  <2>3. commands'[loc[x].obj].cmd \notin alive' \cup badExit'
    BY <1>2, <2>1, <2>2 DEF TaskInv, Over
  <2> QED BY <2>1, <2>3 DEF Over
<1>7. ASSUME NEW x \in Threads, Rerunning(x)', loc'[x].obj = cur' PROVE ~Up(cur)'
  <2>1. loc'[x] = loc[x] /\ Rerunning(x)
    BY <1>1, <1>4, <1>7 DEF Rerunning
  <2>2. loc[x].obj \in Objs
    BY <2>1, ManagedObj DEF Rerunning, Managed
  <2>3. commands'[cur].state \notin {"healthy", "done"}
    BY <1>2, <1>7, <2>1, <2>2 DEF TaskInv, Up
  <2> QED BY <1>2, <2>3 DEF Up
<1>8. ASSUME IsHealthy' PROVE Over(cur)'
  <2>1. cur \in Objs /\ IsHealthy
    BY <1>2, <1>3, <1>8 DEF IsHealthy
  <2>2. commands'[cur].cmd \notin alive' \cup badExit'
    BY <1>2, <2>1 DEF TaskInv, Over
  <2> QED BY <1>2, <2>2 DEF Over
<1> QED BY <1>2, <1>5, <1>6, <1>7, <1>8 DEF TaskInv

\* In the initial state no task has been run.
LEMMA InitTask == Init => TaskPath /\ TaskInv
BY DEF Init, TaskPath, TaskInv, Rerunning, SeenDone, IsHealthy, Blank, NilChan

\* A task that is reported up has exited with code 0, as long as no goroutine reports
\* on the struct that has replaced its own and no retry happens in place.
THEOREM TasksUpHaveExited ==
  Spec /\ []NoRetryInPlace /\ []NoLateEpisode => []TaskUpHasExited
<1>1. CASE IsTask
  <2>1. /\ Sound /\ StartInv /\ FreshRet /\ AdoptsNew /\ TaskPath /\ TaskInv
        /\ NoRetryInPlace /\ NoLateEpisode /\ [Next]_vars
        => TaskPath' /\ TaskInv'
    BY <1>1, TaskKept, TaskSpawn
  <2>2. TaskInv => TaskUpHasExited
    BY DEF TaskInv, TaskUpHasExited, Over
  <2> QED BY <2>1, <2>2, InitTask, AdoptionSound, PTL DEF Spec
<1>2. CASE ~IsTask
  <2>1. TaskUpHasExited
    BY <1>2 DEF TaskUpHasExited
  <2> QED BY <2>1, PTL
<1> QED BY <1>1, <1>2
=============================================================================
