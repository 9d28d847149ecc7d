-------------------------- MODULE DaemonLifecycle --------------------------
(***************************************************************************)
(* How the daemon process comes and goes (internal/daemon: EnsureDaemon,   *)
(* DialOnly, Serve, shutdown; cmd/env-starter: runDaemon and the commands  *)
(* that need a daemon).                                                    *)
(*                                                                         *)
(* A client that finds no daemon takes a file lock, looks again, removes a *)
(* stale socket file, spawns a daemon and polls for it a bounded number of *)
(* times.  A daemon removes whatever is at the socket's path, binds it,    *)
(* serves, and on a shutdown tears the engine down, closes the listener    *)
(* (which removes the path again, whoever has bound it meanwhile) and      *)
(* exits.  Its commands run in process groups of their own: what it does   *)
(* not stop outlives it.                                                   *)
(***************************************************************************)
EXTENDS Integers, FiniteSets

CONSTANTS
  Clients,   \* client processes, one session each
  Daemons,   \* the processes that may be spawned
  Nobody,
  Sessions,  \* what clients come for: "tui", "run", "shutdown"
  Polls,     \* pollAttempts
  Faults,    \* subset of AllFaults
  MaxFaults  \* bound: faults and signals in a behaviour

\* A daemon that refuses its configuration, a killed or signalled process, a
\* poll that ends before a slow daemon listens.
AllFaults == {"refuse", "kill", "killClient", "signal", "slow"}

ASSUME LifecycleConstants ==
  /\ Nobody \notin Clients \cup Daemons
  /\ IsFiniteSet(Daemons) /\ IsFiniteSet(Clients)
  /\ Sessions \subseteq {"tui", "run", "shutdown"}
  /\ Polls \in Nat \ {0} /\ Faults \subseteq AllFaults
  /\ MaxFaults \in Nat

VARIABLES
  daemon,  \* each daemon process: pc, whether runDaemon's ctx is cancelled, its work
  socket,  \* the daemon that bound the file at socketPath, Nobody: no such file
  lock,    \* the client that holds the flock on lockPath
  client,  \* each client: session, pc, the daemon it dialled or spawned, polls left
  faults,  \* faults so far
  orphans, \* history: the kinds of work that outlived a daemon which exited by
           \* itself: launched before ("early") or after ("late") the collection
  strays,  \* history: daemons whose spawner left before they answered
  robbed   \* history: [victim, by]: a live daemon's socket file removed by another:
           \* a "client", a daemon "starting" or a daemon "leaving"

vars == <<daemon, socket, lock, client, faults, orphans, strays, robbed>>
histories == <<orphans, strays, robbed>>

Unborn == [pc |-> "unborn", cancelled |-> FALSE,
           asked |-> {}, up |-> {}, doomed |-> {}, late |-> {}]

Init ==
  /\ daemon = [d \in Daemons |-> Unborn]
  /\ socket = Nobody /\ lock = Nobody
  /\ client \in [Clients -> {[session |-> s, pc |-> "off", from |-> "first", at |-> Nobody,
                              spawned |-> Nobody, polls |-> Polls] : s \in Sessions}]
  /\ faults = 0 /\ orphans = {} /\ strays = {} /\ robbed = {}

Goto(c, pc) == client' = [client EXCEPT ![c].pc = pc]
Leave(c, pc) == client' = [client EXCEPT ![c].pc = pc, ![c].from = "first",
                             ![c].at = Nobody, ![c].spawned = Nobody, ![c].polls = Polls]
Become(d, pc) == daemon' = [daemon EXCEPT ![d].pc = pc]
Die(d) == daemon' = [daemon EXCEPT ![d] = [Unborn EXCEPT !.pc = "gone"]]

-----------------------------------------------------------------------------
(* The daemon process                                                      *)

Alive(d)     == daemon[d].pc \notin {"unborn", "gone"}
Listening(d) == daemon[d].pc \in {"bound", "serving", "teardown", "stopping", "closing"}
Ending(d)    == daemon[d].pc \in {"closing", "removing"}  \* s.done is closed
Live(d)      == Alive(d) /\ daemon[d].pc \notin {"teardown", "stopping", "closing", "removing"}
                         /\ ~daemon[d].cancelled

\* os.Remove, or the unlink of the listener: the file goes, whoever bound it.
RemovePath(by) ==
  /\ socket' = Nobody
  /\ robbed' = robbed \cup {[victim |-> d, by |-> by] : d \in {x \in Daemons : x = socket /\ Live(x)}}

\* resolveConfig and engine.New; no signal handler is installed yet.
Load(d) ==
  /\ daemon[d].pc = "loading"
  /\ Become(d, "starting")
  /\ UNCHANGED <<socket, lock, client, histories>>

RefuseConfig(d) ==
  /\ "refuse" \in Faults /\ daemon[d].pc = "loading"
  /\ Die(d)
  /\ UNCHANGED <<socket, lock, client, histories>>

\* Serve removes any stale socket file ...
RemoveOld(d) ==
  /\ daemon[d].pc = "starting" /\ Become(d, "binding")
  /\ RemovePath("starting")
  /\ UNCHANGED <<lock, client, orphans, strays>>

\* ... and binds the path, or fails because somebody else did.
Listen(d) ==
  /\ daemon[d].pc = "binding"
  /\ IF socket = Nobody THEN socket' = d /\ Become(d, "bound")
                        ELSE UNCHANGED socket /\ Die(d)
  /\ UNCHANGED <<lock, client, histories>>

\* os.Chmod of the path fails when the file is gone; then Serve accepts.
Accept(d) ==
  /\ daemon[d].pc = "bound"
  /\ IF socket = Nobody THEN Die(d) ELSE Become(d, "serving")
  /\ UNCHANGED <<socket, lock, client, histories>>

\* shutdown, once: engine.Shutdown collects the commands it knows ...
Shutdown(d) == daemon' = [daemon EXCEPT ![d].pc = "stopping", ![d].doomed = daemon[d].up]

\* Mutant: s.done is closed first.
CloseDoneFirst(d) ==
  /\ daemon[d].pc = "teardown" /\ Become(d, "closing")
  /\ UNCHANGED <<socket, lock, client, histories>>

\* Mutant: a cancelled context stops the shutdown.
TeardownUnlessCancelled(d) ==
  /\ daemon[d].pc = "teardown" /\ ~daemon[d].cancelled /\ Shutdown(d)
  /\ UNCHANGED <<socket, lock, client, histories>>

BeginTeardown(d) ==
  /\ daemon[d].pc = "teardown" /\ Shutdown(d)
  /\ UNCHANGED <<socket, lock, client, histories>>

\* ... and returns when they are stopped, then s.done is closed.
EndTeardown(d) ==
  /\ daemon[d].pc = "stopping"
  /\ daemon' = [daemon EXCEPT ![d].pc = "closing", ![d].up = @ \ daemon[d].doomed,
                                       ![d].doomed = {}]
  /\ UNCHANGED <<socket, lock, client, histories>>

\* ln.Close: Go's listener unlinks the path it was created with.
CloseListener(d) ==
  /\ daemon[d].pc = "closing" /\ Become(d, "removing")
  /\ RemovePath("leaving")
  /\ UNCHANGED <<lock, client, orphans, strays>>

\* The accept loop ends and runDaemon returns, before or after os.Remove.
Exit(d) ==
  /\ daemon[d].pc = "removing" /\ Die(d)
  /\ orphans' = orphans \cup {IF c \in daemon[d].late THEN "late" ELSE "early" :
                              c \in daemon[d].up}
  /\ \/ RemovePath("leaving")
     \/ UNCHANGED <<socket, robbed>>
  /\ UNCHANGED <<lock, client, strays>>

\* The goroutines of StartEnvironment create and start the commands of c, at
\* any time while the process exists.
Launch(d, c) ==
  /\ Alive(d) /\ c \in daemon[d].asked
  /\ daemon' = [daemon EXCEPT ![d].asked = @ \ {c}, ![d].up = @ \cup {c},
                  ![d].late = IF daemon[d].pc \in {"serving", "teardown"} THEN @ ELSE @ \cup {c}]
  /\ UNCHANGED <<socket, lock, client, histories>>

\* SIGINT or SIGTERM: runDaemon's NotifyContext and Serve's signal.Notify both
\* get it; before the first the process dies, between the two only the context
\* is cancelled.
Signal(d) ==
  /\ "signal" \in Faults /\ Alive(d) /\ ~daemon[d].cancelled
  /\ IF daemon[d].pc = "loading"
       THEN Die(d)
       ELSE daemon' = [daemon EXCEPT ![d].cancelled = TRUE,
                                     ![d].pc = IF @ = "serving" THEN "teardown" ELSE @]
  /\ UNCHANGED <<socket, lock, client, histories>>

\* SIGKILL or a crash: the socket file and the commands stay.
Kill(d) ==
  /\ "kill" \in Faults /\ Alive(d) /\ Die(d)
  /\ UNCHANGED <<socket, lock, client, histories>>

DaemonStep(d) ==
  /\ \/ Load(d) \/ RemoveOld(d) \/ Listen(d) \/ Accept(d)
     \/ BeginTeardown(d) \/ EndTeardown(d) \/ CloseListener(d) \/ Exit(d)
     \/ \E c \in Clients : Launch(d, c)
  /\ UNCHANGED faults

-----------------------------------------------------------------------------
(* Connect: a dial of the path and the subscribe handshake.               *)

\* from: "only" DialOnly; "first" the optimistic dial, "again" the one under the
\* lock, "poll" the polling of EnsureDaemon.
Finished == {"done", "failed"}
Connect(c, from) ==
  client' = [client EXCEPT ![c].pc = "dial", ![c].from = from, ![c].at = Nobody]

\* Mutant: the polls are not counted.
PollsForever(c, refused) ==
  CASE client[c].from = "only"  -> Leave(c, "done")
    [] client[c].from = "first" -> Goto(c, "lock")
    [] client[c].from = "again" ->
         client' = [client EXCEPT ![c].pc = IF refused THEN "stale" ELSE "spawn",
                                  ![c].at = Nobody]
    [] client[c].from = "poll"  ->
         client' = [client EXCEPT ![c].pc = "dial", ![c].at = Nobody]

\* Where the client goes when Connect fails; `refused`: the file is there and
\* nobody listens on it, the one error that makes it stale.
ConnectFails(c, refused) ==
  CASE client[c].from = "only"  -> Leave(c, "done")
    [] client[c].from = "first" -> Goto(c, "lock")
    [] client[c].from = "again" ->
         client' = [client EXCEPT ![c].pc = IF refused THEN "stale" ELSE "spawn",
                                  ![c].at = Nobody]
    [] client[c].from = "poll"  ->
         client' = [client EXCEPT ![c].pc = IF client[c].polls = 1 THEN "givesUp"
                                                                   ELSE "dial",
                                  ![c].polls = @ - 1, ![c].at = Nobody]

\* A poll finds nobody before the daemon listens only if that takes 10 s.
TooEarly(c) ==
  /\ client[c].from = "poll" /\ "slow" \notin Faults
  /\ daemon[client[c].spawned].pc \in {"loading", "starting", "binding"}

DialPath(c) ==
  /\ client[c].pc = "dial"
  /\ IF socket # Nobody /\ Listening(socket)
       THEN client' = [client EXCEPT ![c].pc = "handshake", ![c].at = socket]
       ELSE ~TooEarly(c) /\ ConnectFails(c, socket # Nobody)
  /\ UNCHANGED <<daemon, socket, lock, histories>>

\* The handler of the subscription answers with a snapshot.  With s.done closed
\* or the context cancelled it may as well return at once; with the listener
\* closed the connection may never have been accepted.
Answered(c) ==
  /\ client[c].pc = "handshake"
  /\ Alive(client[c].at) /\ daemon[client[c].at].pc # "bound"
  /\ Goto(c, IF client[c].from \in {"again", "poll"} THEN "unlock" ELSE "connected")
  /\ UNCHANGED <<daemon, socket, lock, histories>>

\* What ends the event streams of a daemon.
StreamEnded(d) == ~Alive(d) \/ Ending(d) \/ daemon[d].cancelled

HungUp(c) ==
  /\ client[c].pc = "handshake"
  /\ StreamEnded(client[c].at) /\ daemon[client[c].at].pc # "bound"
  /\ ConnectFails(c, FALSE)
  /\ UNCHANGED <<daemon, socket, lock, histories>>

-----------------------------------------------------------------------------
(* EnsureDaemon, and what the client does with its daemon                  *)

Begin(c) ==
  /\ client[c].pc = "off"
  /\ Connect(c, IF client[c].session = "shutdown" THEN "only" ELSE "first")
  /\ UNCHANGED <<daemon, socket, lock, histories>>

\* Mutant: no second look under the lock.
SpawnAtOnce(c) ==
  /\ client[c].pc = "lock" /\ lock = Nobody
  /\ lock' = c /\ Goto(c, "spawn")
  /\ UNCHANGED <<daemon, socket, histories>>

\* Mutant: a shared lock.
AcquireShared(c) ==
  /\ client[c].pc = "lock"
  /\ lock' = c /\ Connect(c, "again")
  /\ UNCHANGED <<daemon, socket, histories>>

AcquireLock(c) ==
  /\ client[c].pc = "lock" /\ lock = Nobody
  /\ lock' = c /\ Connect(c, "again")
  /\ UNCHANGED <<daemon, socket, histories>>

\* isStaleSocket looks for the file again.  The removal of one it found may fail,
\* because it is gone by then or may not be removed: EnsureDaemon gives up.
RemoveStale(c) ==
  /\ client[c].pc = "stale"
  /\ \/ Goto(c, "spawn") /\ RemovePath("client")
     \/ Goto(c, "givesUp") /\ UNCHANGED <<socket, robbed>>
  /\ UNCHANGED <<daemon, lock, orphans, strays>>

Spawn(c) ==
  /\ client[c].pc = "spawn"
  /\ \E d \in Daemons :
       /\ daemon[d].pc = "unborn" /\ Become(d, "loading")
       /\ client' = [client EXCEPT ![c].pc = "dial", ![c].from = "poll", ![c].spawned = d]
  /\ UNCHANGED <<socket, lock, histories>>

\* The daemon a client leaves behind on its way to the lock's release.
Abandoned(c) == ({client[c].spawned} \cap {d \in Daemons : Alive(d)}) \ {client[c].at}

\* The deferred UnlockFile.
Unlock(c) ==
  /\ client[c].pc \in {"unlock", "givesUp"} /\ lock' = Nobody
  /\ IF client[c].pc = "unlock" THEN Goto(c, "connected") ELSE Leave(c, "failed")
  /\ strays' = strays \cup Abandoned(c)
  /\ UNCHANGED <<daemon, socket, orphans, robbed>>

\* StartEnvironment of the TUI and of `run`.
Start(c) ==
  /\ client[c].pc = "connected" /\ client[c].session # "shutdown"
  /\ IF Alive(client[c].at)
       THEN Goto(c, "started")
            /\ daemon' = [daemon EXCEPT ![client[c].at].asked = @ \cup {c}]
       ELSE Leave(c, "failed") /\ UNCHANGED daemon
  /\ UNCHANGED <<socket, lock, histories>>

\* `shutdown`, and Ctrl+C in the TUI: the RPC, answered before the teardown.
AskShutdown(c) ==
  /\ \/ client[c].session = "shutdown" /\ client[c].pc = "connected"
     \/ client[c].session = "tui" /\ client[c].pc \in {"connected", "started"}
  /\ Goto(c, "waiting")
  /\ IF daemon[client[c].at].pc = "serving"
       THEN Become(client[c].at, "teardown") ELSE UNCHANGED daemon
  /\ UNCHANGED <<socket, lock, histories>>

\* Shutdown of the client returns when its event stream has ended.
WaitOver(c) ==
  /\ client[c].pc = "waiting" /\ StreamEnded(client[c].at)
  /\ Leave(c, "done")
  /\ UNCHANGED <<daemon, socket, lock, histories>>

\* Detach, or the end of `run`.
Detach(c) ==
  /\ client[c].pc = "started" /\ Leave(c, "done")
  /\ UNCHANGED <<daemon, socket, lock, histories>>

\* The client is interrupted or killed on the way; the kernel drops its lock.
KillClient(c) ==
  /\ "killClient" \in Faults /\ client[c].pc \notin {"off"} \cup Finished
  /\ Leave(c, "failed")
  /\ lock' = IF lock = c THEN Nobody ELSE lock
  /\ strays' = strays \cup Abandoned(c)
  /\ UNCHANGED <<daemon, socket, orphans, robbed>>

ClientStep(c) ==
  /\ \/ DialPath(c) \/ Answered(c) \/ HungUp(c)
     \/ AcquireLock(c) \/ RemoveStale(c) \/ Spawn(c) \/ Unlock(c)
     \/ Start(c) \/ WaitOver(c)
  /\ UNCHANGED faults

Failure ==
  \/ \E d \in Daemons : RefuseConfig(d) \/ Signal(d) \/ Kill(d)
  \/ \E c \in Clients : KillClient(c)

Next ==
  \/ \E d \in Daemons : DaemonStep(d)
  \/ \E c \in Clients : ClientStep(c)
  \/ \E c \in Clients : (Begin(c) \/ AskShutdown(c) \/ Detach(c)) /\ UNCHANGED faults
  \/ Failure /\ faults < MaxFaults /\ faults' = faults + 1

Spec == Init /\ [][Next]_vars

\* The kernel schedules every process; nobody has to ask for a shutdown, to
\* detach, to send a signal or to fail.
FairSpec == /\ Spec
            /\ \A d \in Daemons : WF_vars(DaemonStep(d))
            /\ \A c \in Clients : WF_vars(ClientStep(c))

-----------------------------------------------------------------------------
(* Properties                                                              *)

\* Types, and: the flock is held exactly between AcquireLock and Unlock.
TypeOK ==
  /\ daemon \in [Daemons ->
       [pc : {"unborn", "loading", "starting", "binding", "bound", "serving", "teardown",
              "stopping", "closing", "removing", "gone"},
        cancelled : BOOLEAN, asked : SUBSET Clients, up : SUBSET Clients,
        doomed : SUBSET Clients, late : SUBSET Clients]]
  /\ socket \in Daemons \cup {Nobody}
  /\ \A c \in Clients :
       lock = c <=> \/ client[c].pc \in {"stale", "spawn", "unlock", "givesUp"}
                    \/ /\ client[c].pc \in {"dial", "handshake"}
                       /\ client[c].from \in {"again", "poll"}

\* Two daemons are at work at one time only if a client gave up on the first
\* before it answered, or if the first had lost its socket file to another
\* process (EnsureDaemon, steps 2a to 2d).
OneDaemon ==
  \A d1, d2 \in Daemons : Live(d1) /\ Live(d2) /\ d1 # d2 =>
    {d1, d2} \cap (strays \cup {r.victim : r \in robbed}) # {}

\* Only a daemon on its way out takes the socket file of a daemon that serves,
\* as long as no daemon was left behind by its spawner: neither the removal of
\* a stale file nor a starting daemon does (EnsureDaemon step 3, Serve).
TakenByLeavers ==
  strays = {} => \A r \in robbed : r.by = "leaving"

\* What a daemon had launched when its shutdown collected the commands does not
\* outlive it (Serve, shutdown).
NothingLeft == "early" \notin orphans

\* EnsureDaemon and DialOnly end, whatever dies, is slow or is signalled.
ConnectEnds ==
  \A c \in Clients : client[c].pc = "dial" ~> client[c].pc \in Finished \cup {"connected"}

\* A daemon that has begun its shutdown exits, and `shutdown` returns.
ShutdownEnds ==
  /\ \A d \in Daemons : daemon[d].pc = "teardown" ~> daemon[d].pc = "gone"
  /\ \A c \in Clients : client[c].pc = "waiting" ~> client[c].pc \in Finished

\* Whatever a client or a leaving daemon waits for, it does not wait for ever.
WaitsEnd == ConnectEnds /\ ShutdownEnds

-----------------------------------------------------------------------------
(* What the documentation says                                             *)

\* "multiple TUI instances and headless run commands all connect to the same
\* daemon and see the same state" (docs/usage.md), with nobody killed, slow or
\* signalled.
SameDaemon ==
  \A c1, c2 \in Clients :
    {client[c1].pc, client[c2].pc} \subseteq {"connected", "started"}
      /\ Live(client[c1].at) /\ Live(client[c2].at)
      => client[c1].at = client[c2].at

\* "Stop all environments and shut down the daemon" (docs/usage.md, shutdown).
ShutdownStopsAll == orphans = {}
=============================================================================
