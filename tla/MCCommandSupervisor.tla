------------------------ MODULE MCCommandSupervisor ------------------------
(* Model values for the runs of CommandSupervisor.                         *)
EXTENDS CommandSupervisor, TLC

CONSTANTS e1, e2, w1, w2, v1

\* Only the first environment declares a variable.
OneVar == [e \in Envs |-> IF e = e1 THEN {v1} ELSE {}]
NoVars == [e \in Envs |-> {}]

WorkerSymmetry == Permutations(Workers)
=============================================================================
