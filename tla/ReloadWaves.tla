---------------------------- MODULE ReloadWaves ----------------------------
(***************************************************************************)
(* Which commands a configuration reload restarts, and in which order      *)
(* (internal/engine/applyconfig.go, computeDependentWaves): the changed    *)
(* commands (seeds) with everything that depends on them, in waves.  An    *)
(* edge <<d, c>> says that some workflow declares "c depends on d".        *)
(***************************************************************************)
EXTENDS Naturals, FiniteSets

\* forward: the edges of every environment but the excluded ones.
Forward(depends, excluded) ==
  UNION {UNION {{<<d, c>> : d \in depends[e][c]} : c \in DOMAIN depends[e]} :
           e \in DOMAIN depends \ excluded}

Dependents(S, edges) == {edge[2] : edge \in {x \in edges : x[1] \in S}}

\* A mistake: everything restarts at once (RestartsAfterDependencies).
NextWaveAll(rest, edges) == rest

\* The breadth-first search from the seeds, one round after the other.
Affected(seeds, edges) ==
  LET reached[n \in Nat] ==
        IF n = 0 THEN seeds
        ELSE reached[n - 1] \cup Dependents(reached[n - 1], edges)
  IN  reached[Cardinality(edges)]

\* Those of the rest that depend on nothing else in the rest; all of the rest
\* where a cycle across environments leaves none.
NextWave(rest, edges) ==
  LET free == rest \ Dependents(rest, edges)
  IN  IF free = {} THEN rest ELSE free

\* Kahn's algorithm on the affected commands.
Waves(seeds, edges) ==
  LET affected == Affected(seeds, edges)
      rest[n \in Nat] == IF n = 0 THEN affected
                         ELSE rest[n - 1] \ NextWave(rest[n - 1], edges)
      rounds == {n \in 0 .. Cardinality(affected) : rest[n] # {}}
  IN  [n \in 1 .. Cardinality(rounds) |-> NextWave(rest[n - 1], edges)]

-----------------------------------------------------------------------------
(* The reference *)

\* Everything the seeds reach: the least set that contains them and the
\* dependents of its members.
Reachable(seeds, edges) ==
  LET nodes == seeds \cup {edge[2] : edge \in edges}
  IN  {c \in nodes : \A S \in SUBSET nodes :
         (seeds \subseteq S /\ Dependents(S, edges) \subseteq S) => c \in S}

\* c depends on itself, through others.
OnCycle(c, edges) == c \in Reachable(Dependents({c}, edges), edges)

\* Among the affected, downstream of a dependency cycle: no order exists.
Entangled(affected, edges) ==
  LET inner == {edge \in edges : edge[1] \in affected /\ edge[2] \in affected}
  IN  Reachable({c \in affected : OnCycle(c, inner)}, inner)
=============================================================================
