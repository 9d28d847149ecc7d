--------------------------- MODULE ConfigReload ---------------------------
(***************************************************************************)
(* Reloading the configuration of a running engine (internal/engine:       *)
(* applyconfig.go, configdiff.go).  ApplyConfig swaps the configuration in *)
(* at once and plans, from the difference and from what runs, which        *)
(* commands to stop, restart or start; the plans are carried out one at a  *)
(* time (applyMu), each in six phases, next to the starts and stops of     *)
(* clients.                                                                *)
(*                                                                         *)
(* A command is what it runs with: its definition and its variables.  One  *)
(* release, acquisition or restart of a command is one action here; their  *)
(* inner interleavings are the subject of CommandSupervisor.               *)
(***************************************************************************)
EXTENDS Integers, FiniteSets, Sequences, SequencesExt, ReloadWaves

CONSTANTS
  Configs,     \* the configurations the file may hold
  FirstConfig, \* the one the engine was made with
  Commands,    \* names of commands in any of them
  Envs,        \* names of environments in any of them
  Races,       \* what may overlap: "clients" start and stop environments
               \* during a reload, "plans" overtake each other
  MaxReloads, MaxOps, MaxFaults   \* bounds

\* cfg.def maps the commands to (versions of) their definition, cfg.env the
\* environments to their workflow (steps, with the dependencies of each), the
\* variables they declare and their description.
ASSUME ConfigsOK ==
  /\ FirstConfig \in Configs
  /\ \A cfg \in Configs :
       /\ DOMAIN cfg.def \subseteq Commands
       /\ DOMAIN cfg.env \subseteq Envs

VARIABLES
  cfg,       \* Engine.cfg with cmdOf, envsOf, envEnvOf
  commands,  \* Engine.commands
  envState,  \* Engine.envState
  plans,     \* reload plans that wait for applyMu, oldest first
  active,    \* the plan that holds it, with its phase
  jobs,      \* goroutines at work on a whole environment
  cycled,    \* history: what the active plan's waves have restarted
  crossed,   \* history: a client was at work on an environment during a plan
  reloads, ops, faults   \* what has been used of the bounds

vars == <<cfg, commands, envState, plans, active, jobs, cycled, crossed,
          reloads, ops, faults>>

State(e) == IF e \in DOMAIN envState THEN envState[e] ELSE "stopped"
IsEnvActive(e) == e \in DOMAIN envState /\ envState[e] # "stopped"
                                        /\ envState[e] # "stopping"

StepsOf(env) == {env.steps[i] : i \in 1 .. Len(env.steps)}

\* A command that is not in e.commands.
Forgotten == [state |-> "pending", def |-> 0, vars |-> {}, holders |-> {}]

NoPlan == [phase |-> 0]

Init ==
  /\ cfg = FirstConfig
  /\ commands = [c \in Commands |-> Forgotten]
  /\ envState = [e \in DOMAIN cfg.env |-> "stopped"]
  /\ plans = <<>> /\ active = NoPlan /\ jobs = {}
  /\ cycled = {} /\ crossed = FALSE
  /\ reloads = 0 /\ ops = 0 /\ faults = 0

-----------------------------------------------------------------------------
(* diffConfig *)

\* Mistake: the description of an environment counts (UntouchedStays).
ChangedAnyhow(old, new) ==
  {c \in DOMAIN old.def \cap DOMAIN new.def :
     old.def[c] # new.def[c] \/ \E e \in DOMAIN old.env \cap DOMAIN new.env :
        c \in StepsOf(new.env[e]) /\ old.env[e].about # new.env[e].about}

WorkflowChanged(old, new) == old.steps # new.steps \/ old.deps # new.deps

RemovedEnvs(old, new)     == DOMAIN old.env \ DOMAIN new.env
RemovedCommands(old, new) == DOMAIN old.def \ DOMAIN new.def
ChangedCommands(old, new) ==
  {c \in DOMAIN old.def \cap DOMAIN new.def : old.def[c] # new.def[c]}
RewiredEnvs(old, new) ==
  {e \in DOMAIN old.env \cap DOMAIN new.env :
     WorkflowChanged(old.env[e], new.env[e])}
Wholesale(old, new) == RemovedEnvs(old, new) \cup RewiredEnvs(old, new)
RevaluedEnvs(old, new) ==
  {e \in (DOMAIN old.env \cap DOMAIN new.env) \ RewiredEnvs(old, new) :
     old.env[e].vars # new.env[e].vars}

Depends(new) == [e \in DOMAIN new.env |->
                   [c \in StepsOf(new.env[e]) |-> new.env[e].deps[c]]]

\* Mistake: a changed command is left to the environments that are restarted
\* although others hold it too (RunsCurrent).
SeedsUnlessRewired(old, new) ==
  {c \in ChangedCommands(old, new) :
     commands[c].holders # {} /\ commands[c].holders \cap Wholesale(old, new) = {}}

\* planReloadLocked: changed commands that are held, unless only environments
\* that are stopped or restarted as a whole hold them.
Seeds(old, new) ==
  {c \in ChangedCommands(old, new) :
     ~(commands[c].holders \subseteq Wholesale(old, new))}

\* A plan keeps names and values of its time, never what is running.
Plan(old, new) ==
  [phase    |-> 0,
   removed  |-> [e \in RemovedEnvs(old, new) |-> old.env[e]],
   rewired  |-> [e \in RewiredEnvs(old, new) |->
                   [old |-> old.env[e], new |-> new.env[e]]],
   gone     |-> RemovedCommands(old, new),
   purge    |-> <<>>,
   waves    |-> Waves(Seeds(old, new),
                      Forward(Depends(new), RewiredEnvs(old, new))),
   changed  |-> Seeds(old, new),
   revalued |-> UNION {{<<e, c>> : c \in StepsOf(new.env[e])} :
                         e \in RevaluedEnvs(old, new)},
   old |-> old, new |-> new]    \* history

ClientJobs == {job \in jobs : job.kind \in {"start", "stop"}}
PlanJobs   == jobs \ ClientJobs

\* ApplyConfig: the swap; an environment that is new starts out stopped.
ApplyConfig(new) ==
  /\ reloads < MaxReloads /\ reloads' = reloads + 1
  /\ new # cfg
  /\ "clients" \in Races \/ ClientJobs = {}
  /\ plans' = Append(plans, Plan(cfg, new))
  /\ cfg' = new
  /\ envState' = [e \in DOMAIN envState \cup DOMAIN new.env |-> State(e)]
  /\ UNCHANGED <<commands, active, jobs, cycled, ops, faults>>

-----------------------------------------------------------------------------
(* What happens to a single command *)

Up(cs, c) == cs[c].state = "healthy"

\* effectiveEnv: the union of what the holders declare now.
EffectiveEnv(cs, c) ==
  UNION {cfg.env[e].vars : e \in cs[c].holders \cap DOMAIN cfg.env}

\* cmdOf[c], the zero value for a command the configuration has no more.
ZeroConfig == 0
CmdOf(c) == IF c \in DOMAIN cfg.def THEN cfg.def[c] ELSE ZeroConfig

\* recomputeEnvState and recomputeEnvsFor.
Rollup(env, cs) ==
  LET up == {c \in StepsOf(env) : Up(cs, c)}
  IN  IF up = StepsOf(env) THEN "running"
      ELSE IF up = {} THEN "error" ELSE "degraded"

RecomputeEnvsFor(c, cs) ==
  [e \in DOMAIN envState |->
     IF e \in DOMAIN cfg.env /\ IsEnvActive(e) /\ c \in StepsOf(cfg.env[e])
       THEN Rollup(cfg.env[e], cs) ELSE envState[e]]

\* Mistake: a command keeps the variables it was first started with
\* (NotRestartedTwice).
LaunchWithOldVars(cs, c) ==
  \E state \in {"healthy", "error"} :
    /\ (state = "error") => (faults < MaxFaults)
    /\ faults' = faults + (IF state = "error" THEN 1 ELSE 0)
    /\ commands' = [cs EXCEPT ![c].state = state]

\* Command c of cs runs anew, or fails to.  The zero configuration has no name
\* and so reports its state to nobody.
Launch(cs, c) ==
  \E state \in IF cs[c].def = ZeroConfig THEN {cs[c].state}
                                         ELSE {"healthy", "error"} :
    /\ (state = "error") => (faults < MaxFaults)
    /\ faults' = faults + (IF state = "error" THEN 1 ELSE 0)
    /\ commands' = [cs EXCEPT ![c].state = state,
                              ![c].vars  = EffectiveEnv(cs, c)]

\* restartCommandInPlace and restartCommandWithNewConfig.
Restart(cs, c) ==
  Launch(cs, c) /\ envState' = RecomputeEnvsFor(c, commands')

\* A holder joined or left: a running command is restarted if its variables
\* are different now (maybeRestartForEnvChange).
VarsChanged(cs, c) == Up(cs, c) /\ cs[c].vars # EffectiveEnv(cs, c)

HoldersChanged(cs, c) ==
  IF VarsChanged(cs, c) THEN Restart(cs, c)
  ELSE commands' = cs /\ UNCHANGED <<envState, faults>>

\* acquireAndStart by environment e.
IsNew(c) ==
  commands[c] = Forgotten \/ (commands[c].holders = {} /\ ~Up(commands, c))

Acquire(c, e) ==
  IF IsNew(c)
    THEN /\ Launch([commands EXCEPT ![c] = [Forgotten EXCEPT !.def = CmdOf(c),
                                                            !.holders = {e}]], c)
         /\ UNCHANGED envState
    ELSE HoldersChanged([commands EXCEPT ![c].holders = @ \cup {e}], c)

\* releaseCommand by environment e: without a holder the command stops.
Release(c, e) ==
  LET left == [commands EXCEPT ![c].holders = @ \ {e}] IN
  IF left[c].holders = {}
    THEN /\ commands' = IF commands[c] = Forgotten THEN commands
                        ELSE [left EXCEPT ![c].state = "stopped"]
         /\ UNCHANGED <<envState, faults>>
    ELSE HoldersChanged(left, c)

-----------------------------------------------------------------------------
(* Goroutines at work on a whole environment: the starts and stops of      *)
(* clients, and those of a plan.  Each releases the commands in "release", *)
(* then runs the workflow in "run", then ends as its kind says.            *)

Job(kind, e, release, run) ==
  [kind |-> kind, env |-> e, release |-> release, run |-> run,
   up |-> {}, down |-> {}]

NoWorkflow == [steps |-> <<>>, deps |-> <<>>, vars |-> {}, about |-> 0]

Setting(e, state) == [x \in DOMAIN envState \cup {e} |->
                        IF x = e THEN state ELSE envState[x]]

\* One operation of a client at a time; the retry of a failed environment is
\* left to EnvironmentRun.
MayOperate ==
  /\ ops < MaxOps /\ ClientJobs = {}
  /\ "clients" \in Races \/ (plans = <<>> /\ active = NoPlan)

StartEnvironment(e) ==
  /\ MayOperate /\ ops' = ops + 1
  /\ e \in DOMAIN cfg.env /\ State(e) = "stopped"
  /\ envState' = Setting(e, "starting")
  /\ jobs' = jobs \cup {Job("start", e, <<>>, cfg.env[e])}
  /\ UNCHANGED <<cfg, commands, plans, active, cycled, reloads, faults>>

StopEnvironment(e) ==
  /\ MayOperate /\ ops' = ops + 1
  /\ e \in DOMAIN cfg.env /\ IsEnvActive(e)
  /\ envState' = Setting(e, "stopping")
  /\ jobs' = jobs \cup {Job("stop", e, cfg.env[e].steps, NoWorkflow)}
  /\ UNCHANGED <<cfg, commands, plans, active, cycled, reloads, faults>>

Become(job, next) == jobs' = (jobs \ {job}) \cup {next}

\* releaseWorkflow, one command after the other.
JobReleases(job) ==
  /\ job.release # <<>>
  /\ Release(Head(job.release), job.env)
  /\ Become(job, [job EXCEPT !.release = Tail(@)])
  /\ UNCHANGED <<cfg, plans, active, cycled, reloads, ops>>

Waiting(job) == StepsOf(job.run) \ (job.up \cup job.down)

\* runEnvironment: a step whose dependencies are up acquires its command, ...
JobAcquires(job, c) ==
  /\ job.release = <<>> /\ c \in Waiting(job)
  /\ job.run.deps[c] \subseteq job.up
  /\ Acquire(c, job.env)
  /\ Become(job, IF Up(commands', c) THEN [job EXCEPT !.up = @ \cup {c}]
                                     ELSE [job EXCEPT !.down = @ \cup {c}])
  /\ UNCHANGED <<cfg, plans, active, cycled, reloads, ops>>

\* ... one that follows a failure does not.
JobSkips(job, c) ==
  /\ job.release = <<>> /\ c \in Waiting(job)
  /\ job.run.deps[c] \subseteq job.up \cup job.down
  /\ job.run.deps[c] \cap job.down # {}
  /\ Become(job, [job EXCEPT !.down = @ \cup {c}])
  /\ UNCHANGED <<cfg, commands, envState, plans, active, cycled, reloads, ops,
                 faults>>

JobEnds(job) ==
  /\ job.release = <<>> /\ Waiting(job) = {}
  /\ jobs' = jobs \ {job}
  /\ envState' = CASE job.kind = "stop" -> Setting(job.env, "stopped")
                   [] job.kind = "removed" ->
                        [e \in DOMAIN envState \ {job.env} |-> envState[e]]
                   [] OTHER -> Setting(job.env, Rollup(job.run, commands))
  /\ UNCHANGED <<cfg, commands, plans, active, cycled, reloads, ops, faults>>

-----------------------------------------------------------------------------
(* applyReloadPlan, phase by phase *)

Phase(n) == active.phase = n /\ PlanJobs = {}

\* A plan takes applyMu, which is free, and any that waits may be the one.  Phase
\* 1 stops the removed environments and forgets their state.
BeginPlan ==
  /\ active = NoPlan
  /\ \E i \in DOMAIN plans :
       LET plan    == plans[i]
           stopped == {e \in DOMAIN plan.removed : IsEnvActive(e)} IN
       /\ i = 1 \/ "plans" \in Races
       /\ plans' = RemoveAt(plans, i)
       /\ active' = [plan EXCEPT !.phase = 1]
       /\ jobs' = jobs \cup
            {Job("removed", e, plan.removed[e].steps, NoWorkflow) : e \in stopped}
       /\ envState' = [e \in DOMAIN envState \ (DOMAIN plan.removed \ stopped) |->
                         IF e \in stopped THEN "stopping" ELSE envState[e]]
  /\ cycled' = {}
  /\ UNCHANGED <<cfg, commands, reloads, ops, faults>>

\* Mistake: the new workflow is what is released (HeldByUsers).
RestartWorkflowsReleaseNew ==
  /\ Phase(1)
  /\ LET due == {e \in DOMAIN active.rewired : IsEnvActive(e)} IN
       /\ jobs' = jobs \cup
            {Job("rewired", e, active.rewired[e].new.steps, active.rewired[e].new) :
               e \in due}
       /\ envState' = [e \in DOMAIN envState |->
                         IF e \in due THEN "starting" ELSE envState[e]]
  /\ active' = [active EXCEPT !.phase = 2]
  /\ UNCHANGED <<cfg, commands, plans, cycled, reloads, ops, faults>>

\* Phase 2: environments whose workflow changed release the old one and run
\* the new one, all at the same time.
RestartWorkflows ==
  /\ Phase(1)
  /\ LET due == {e \in DOMAIN active.rewired : IsEnvActive(e)} IN
       /\ jobs' = jobs \cup
            {Job("rewired", e, active.rewired[e].old.steps, active.rewired[e].new) :
               e \in due}
       /\ envState' = [e \in DOMAIN envState |->
                         IF e \in due THEN "starting" ELSE envState[e]]
  /\ active' = [active EXCEPT !.phase = 2]
  /\ UNCHANGED <<cfg, commands, plans, cycled, reloads, ops, faults>>

\* Phase 3: removed commands, one after the other, are released by whoever held
\* them when their turn came, one holder after the other, and forgotten.
PurgeBegins(c) ==
  /\ Phase(2) /\ active.purge = <<>> /\ c \in active.gone
  /\ active' = [active EXCEPT !.gone = @ \ {c}, !.purge = <<c, commands[c].holders>>]
  /\ UNCHANGED <<cfg, commands, envState, plans, jobs, cycled, reloads, ops, faults>>

PurgeReleases(e) ==
  /\ Phase(2) /\ active.purge # <<>> /\ e \in active.purge[2]
  /\ Release(active.purge[1], e)
  /\ active' = [active EXCEPT !.purge[2] = @ \ {e}]
  /\ UNCHANGED <<cfg, plans, jobs, cycled, reloads, ops>>

PurgeForgets ==
  /\ Phase(2) /\ active.purge # <<>> /\ active.purge[2] = {}
  /\ commands' = [commands EXCEPT ![active.purge[1]] = Forgotten]
  /\ active' = [active EXCEPT !.purge = <<>>]
  /\ UNCHANGED <<cfg, envState, plans, jobs, cycled, reloads, ops, faults>>

PurgeEnds ==
  /\ Phase(2) /\ active.purge = <<>> /\ active.gone = {}
  /\ active' = [active EXCEPT !.phase = 3]
  /\ UNCHANGED <<cfg, commands, envState, plans, jobs, cycled, reloads, ops, faults>>

\* Mistake: the wave waits for a member nobody holds any more (PlansEnd).
RestartMemberHeld(c) ==
  /\ Phase(3) /\ active.waves # <<>>
  /\ c \in Head(active.waves)
  /\ commands[c].holders # {}
  /\ Restart(IF c \in active.changed
               THEN [commands EXCEPT ![c].def = CmdOf(c)] ELSE commands, c)
  /\ cycled' = cycled \cup {c}
  /\ active' = [active EXCEPT !.waves =
                   IF Head(@) = {c} THEN Tail(@) ELSE <<Head(@) \ {c}>> \o Tail(@)]
  /\ UNCHANGED <<cfg, plans, jobs, reloads, ops>>

\* Phase 4: the waves.  A member that is not held any more is left alone, a
\* changed one gets the definition of the current configuration.
RestartMember(c) ==
  /\ Phase(3) /\ active.waves # <<>>
  /\ c \in Head(active.waves)
  /\ IF commands[c].holders = {}
       THEN UNCHANGED <<commands, envState, cycled, faults>>
       ELSE /\ Restart(IF c \in active.changed
                         THEN [commands EXCEPT ![c].def = CmdOf(c)] ELSE commands, c)
            /\ cycled' = cycled \cup {c}
  /\ active' = [active EXCEPT !.waves =
                   IF Head(@) = {c} THEN Tail(@) ELSE <<Head(@) \ {c}>> \o Tail(@)]
  /\ UNCHANGED <<cfg, plans, jobs, reloads, ops>>

\* Phase 5: changed variables, command by command.
WavesOver == Phase(3) /\ active.waves = <<>>

PropagateEnv(e, c) ==
  /\ WavesOver /\ <<e, c>> \in active.revalued
  /\ IF IsEnvActive(e) THEN HoldersChanged(commands, c)
                       ELSE UNCHANGED <<commands, envState, faults>>
  /\ active' = [active EXCEPT !.revalued = @ \ {<<e, c>>}]
  /\ UNCHANGED <<cfg, plans, jobs, cycled, reloads, ops>>

\* Phase 6: the final sweep, and the end of the plan.
FinalSweep ==
  /\ WavesOver /\ active.revalued = {}
  /\ envState' = [e \in DOMAIN envState |->
       IF e \in DOMAIN cfg.env /\ IsEnvActive(e)
         THEN Rollup(cfg.env[e], commands) ELSE envState[e]]
  /\ active' = NoPlan
  /\ UNCHANGED <<cfg, commands, plans, jobs, cycled, reloads, ops, faults>>

-----------------------------------------------------------------------------
PlanStep ==
  \/ BeginPlan \/ RestartWorkflows \/ PurgeForgets \/ PurgeEnds
  \/ \E c \in Commands : PurgeBegins(c) \/ RestartMember(c)
  \/ \E e \in Envs : PurgeReleases(e)
  \/ \E e \in Envs, c \in Commands : PropagateEnv(e, c)
  \/ FinalSweep

JobStep ==
  \E job \in jobs :
    \/ JobReleases(job) \/ JobEnds(job)
    \/ \E c \in Commands : JobAcquires(job, c) \/ JobSkips(job, c)

\* Whether a start or stop of a client has overlapped a plan that waits or is
\* being carried out.
Observe ==
  crossed' = (crossed \/ (ClientJobs' # {} /\ (plans' # <<>> \/ active' # NoPlan)))

Step ==
  \/ \E new \in Configs : ApplyConfig(new)
  \/ \E e \in Envs : StartEnvironment(e) \/ StopEnvironment(e)
  \/ PlanStep \/ JobStep

Next == Step /\ Observe

Spec == Init /\ [][Next]_vars

\* A goroutine that can go on does.
Fairness == WF_vars(PlanStep /\ Observe) /\ WF_vars(JobStep /\ Observe)

FairSpec == Spec /\ Fairness

-----------------------------------------------------------------------------
(* Properties *)

TypeOK ==
  /\ cfg \in Configs
  /\ \A c \in Commands :
       /\ commands[c].state \in {"pending", "healthy", "error", "stopped"}
       /\ commands[c].holders \subseteq Envs
  /\ DOMAIN envState \subseteq Envs /\ crossed \in BOOLEAN
  /\ \A e \in DOMAIN envState :
       envState[e] \in {"stopped", "starting", "running", "degraded", "error",
                       "stopping"}
  /\ active.phase \in 0 .. 3
  /\ \A job \in jobs : job.env \in Envs /\ job.up \cap job.down = {}

Quiet == plans = <<>> /\ active = NoPlan /\ jobs = {}

\* Once every plan is applied, what is up runs the definition and the merged
\* variables that the configuration gives it: no change was lost between the
\* phases, whoever holds the command.
RunsCurrent ==
  Quiet => \A c \in Commands : Up(commands, c) =>
             /\ c \in DOMAIN cfg.def /\ commands[c].def = cfg.def[c]
             /\ commands[c].vars = EffectiveEnv(commands, c)

\* Once every plan is applied, a command is held by environments that use it:
\* none that was removed or rewired keeps a hold, and nothing that is no longer
\* configured is up.
HeldByUsers ==
  Quiet => \A c \in Commands : \A e \in commands[c].holders :
             /\ e \in DOMAIN cfg.env
             /\ c \in StepsOf(cfg.env[e])
             /\ IsEnvActive(e)

\* Once every plan is applied the engine is as the configuration says, unless a
\* client started or stopped an environment while a plan was pending: that plan
\* knows what ran when it was made (see also RunsCurrent and HeldByUsers alone).
Applied == ~crossed => RunsCurrent /\ HeldByUsers

\* What the difference of two configurations may disturb: changed commands with
\* all that depends on them, and the commands of environments that are removed,
\* rewired or have new variables.
Touched(old, new) ==
  LET used(config, es) == UNION {StepsOf(config.env[e]) : e \in es}
      both == DOMAIN old.env \cap DOMAIN new.env
  IN  Reachable({c \in DOMAIN old.def \cap DOMAIN new.def :
                   old.def[c] # new.def[c]}, Forward(Depends(new), {}))
      \cup (DOMAIN old.def \ DOMAIN new.def)
      \cup used(old, DOMAIN old.env \ both)
      \cup used(old, {e \in both : old.env[e].steps # new.env[e].steps})
      \cup used(new, {e \in both : \/ old.env[e].steps # new.env[e].steps
                                   \/ old.env[e].deps # new.env[e].deps
                                   \/ old.env[e].vars # new.env[e].vars})

\* Applying a plan leaves every command alone that its difference does not
\* touch: a description, or the definition of a command that nothing held
\* depends on, restarts nothing.
UntouchedStays ==
  [][(active # NoPlan /\ (PlanStep \/ \E job \in PlanJobs : job \notin jobs')) =>
       \A c \in Commands \ Touched(active.old, active.new) :
         commands'[c] = commands[c]]_vars

\* The waves restart a command after everything it depends on that they restart
\* too, in any environment, unless they are on or behind a cycle.
RestartsAfterDependencies ==
  [][\A c \in cycled' \ cycled :
       LET edges == Forward(Depends(active.new), DOMAIN active.rewired)
           later == UNION {active'.waves[i] : i \in DOMAIN active'.waves}
       IN  \A d \in later :
             <<d, c>> \in edges =>
               c \in Entangled(Reachable(active.changed, edges), edges)]_vars

\* A command that the waves have restarted is not restarted again for changed
\* variables by the same plan.
NotRestartedTwice ==
  [][\A e \in Envs, c \in cycled :
       PropagateEnv(e, c) /\ cfg = active.new => commands'[c] = commands[c]]_vars

\* The waves restart each command once, and after what it depends on.
RestartsInOrder == RestartsAfterDependencies /\ NotRestartedTwice

\* Every plan is carried out.
PlansEnd == (plans # <<>> \/ active # NoPlan) ~> (plans = <<>> /\ active = NoPlan)
=============================================================================
