------------------------- MODULE MCEnvironmentRun -------------------------
\* Instances of EnvironmentRun.
EXTENDS EnvironmentRun, TLC

CONSTANTS e1, e2, a, b, w1, w2

\* Two environments that order the commands they share in opposite ways.
PairWorkflow == e1 :> <<a, b>> @@ e2 :> <<b, a>>
PairOrder == e1 :> (a :> {} @@ b :> {a}) @@ e2 :> (a :> {b} @@ b :> {})

\* Two environments of one command.
OneWorkflow  == e1 :> <<a>> @@ e2 :> <<a>>
NoDependency == e1 :> (a :> {}) @@ e2 :> (a :> {})

WorkerSymmetry == Permutations(Workers)

\* Two reachable states to start from besides Init, so that two operations
\* get far: all is up, and e1 failed on a before e2 was started.
Settled(state, holders) ==
  [Absent EXCEPT !.state = state, !.holders = holders, !.barrier = 1]

InitFrom(cs, es, failed) ==
  /\ commands = cs /\ envState = es
  /\ report = [k \in Commands |-> NoReport]
  /\ authGate = Open
  /\ worker = [w \in Workers |-> Idle]
  /\ ops = 0 /\ faults = failed
  /\ upSince = [w \in Workers |-> {}]
  /\ overtaken = {}

Ongoing(failed) ==
  \/ InitFrom([k \in Commands |-> Settled("healthy", Envs)],
              [e \in Envs |-> "running"], failed)
  \/ InitFrom(a :> Settled("error", Envs) @@ b :> Settled("healthy", {e2}),
              e1 :> "error" @@ e2 :> "degraded", failed)

MCInit == Init \/ Ongoing(0)
MCSpec == MCInit /\ [][Next]_vars

\* The same for liveness; from the states under way no further fault.
EndInit == Init \/ Ongoing(MaxFaults)
EndSpec == EndInit /\ [][Next]_vars /\ Fairness
=============================================================================
