-------------------------- MODULE MCConfigReload --------------------------
\* Instances of ConfigReload.
EXTENDS ConfigReload, TLC

CONSTANTS e1, e2, a, b, c, v

Env(steps, deps, declared, about) ==
  [steps |-> steps, deps |-> deps, vars |-> declared, about |-> about]

\* The chain a <- b <- c, declared by two environments that share b.
AB == a :> {} @@ b :> {a}
BC == b :> {} @@ c :> {b}
Versions(x, y, z) == a :> x @@ b :> y @@ c :> z

Base == [def |-> Versions(1, 1, 1),
         env |-> e1 :> Env(<<a, b>>, AB, {}, 1) @@ e2 :> Env(<<b, c>>, BC, {}, 1)]

OneConfigs ==
  {Base,
   \* a changes, and with it all that depends on it
   [Base EXCEPT !.def[a] = 2],
   \* b changes and e1 drops a: e2 keeps the changed command
   [Base EXCEPT !.def[b] = 2, !.env[e1].steps = <<b>>, !.env[e1].deps = b :> {}],
   \* a changes and only the rewired e1 holds it
   [Base EXCEPT !.def[a] = 2, !.env[e1].steps = <<b, a>>],
   \* e2 and its command are removed, e1 is renewed
   [def |-> a :> 1 @@ b :> 1, env |-> e1 :> Env(<<a, b>>, AB, {v}, 1)],
   \* new variables for the shared command, which changes as well
   [Base EXCEPT !.def[b] = 2, !.env[e2].vars = {v}],
   \* another description
   [Base EXCEPT !.env[e1].about = 2]}

\* Both environments are rewired and the command they share changes.
BothRewired ==
  {Base, [Base EXCEPT !.def[b] = 2, !.env[e1].deps[b] = {}, !.env[e2].deps[c] = {}]}

\* Besides Init: both environments run.
Running ==
  /\ cfg = FirstConfig
  /\ commands = [x \in Commands |->
       [state |-> "healthy", def |-> cfg.def[x],
        vars |-> UNION {cfg.env[e].vars : e \in Envs},
        holders |-> {e \in Envs : x \in StepsOf(cfg.env[e])}]]
  /\ envState = [e \in Envs |-> "running"]
  /\ plans = <<>> /\ active = NoPlan /\ jobs = {} /\ cycled = {} /\ crossed = FALSE
  /\ reloads = 0 /\ ops = 0 /\ faults = 0

MCSpec     == (Init \/ Running) /\ [][Next]_vars
MCFairSpec == MCSpec /\ Fairness
=============================================================================
