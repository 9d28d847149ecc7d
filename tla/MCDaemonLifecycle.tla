------------------------- MODULE MCDaemonLifecycle -------------------------
(* Small instances of DaemonLifecycle for TLC.  Clients and daemons are    *)
(* model values; the safety runs use their symmetry.                       *)
EXTENDS DaemonLifecycle, TLC

Processes == Permutations(Clients) \cup Permutations(Daemons)
=============================================================================
