----------------------------- MODULE MCTerminalUI -----------------------------
(* Topologies for the runs of TerminalUI.                                  *)
EXTENDS TerminalUI

CONSTANTS r1, r2

Listed(env, cmds) == [env |-> env, cmds |-> cmds]

\* An environment that goes and comes back, and one that moves and whose commands
\* do; or the last environment has gone.
MCTopologies == {
  <<>>,
  <<Listed("dev", <<"api", "db">>), Listed("test", <<"db">>)>>,
  <<Listed("test", <<"api", "db">>)>> }
=============================================================================
