----------------------- MODULE DaemonLifecycleProofs -----------------------
(***************************************************************************)
(* Proofs about the processes of the daemon, for any number of clients and *)
(* daemons, any sessions, polls and faults: at most one daemon is at work  *)
(* that was neither abandoned by the client that spawned it nor robbed of  *)
(* its socket file, only a daemon on its way out robs another one, and a   *)
(* daemon leaves nothing behind that it knew of when it collected its      *)
(* commands.                                                               *)
(***************************************************************************)
EXTENDS DaemonLifecycle, TLAPS

-----------------------------------------------------------------------------
(* The inductive invariant *)

Phases == {"unborn", "loading", "starting", "binding", "bound", "serving", "teardown",
           "stopping", "closing", "removing", "gone"}

\* Not yet bound to the path.
Rising == {"loading", "starting", "binding"}
Past(d) == daemon[d].pc \notin {"unborn"} \cup Rising

Places == {"off", "dial", "handshake", "lock", "stale", "spawn", "unlock", "givesUp",
           "connected", "started", "waiting"} \cup Finished

ClientType ==
  client \in [Clients ->
    [session : Sessions, pc : Places, from : {"only", "first", "again", "poll"},
     at : Daemons \cup {Nobody}, spawned : Daemons \cup {Nobody}, polls : Int]]

\* A client that waits under the lock for the daemon it spawned.
Awaiting(c) ==
  /\ client[c].from = "poll"
  /\ client[c].pc \in {"dial", "handshake", "unlock", "givesUp"}

\* The daemon a client talks to, and where it has none.
Connected == {"handshake", "unlock", "connected", "started", "waiting"}
ClientPointers ==
  \A c \in Clients :
    /\ client[c].pc \in Connected => client[c].at \in Daemons /\ Past(client[c].at)
    /\ client[c].pc \in {"dial", "givesUp", "spawn", "stale"} => client[c].at = Nobody
    /\ client[c].pc = "givesUp" => client[c].from \in {"again", "poll"}
    /\ client[c].pc \in {"spawn", "stale"} => client[c].from = "again"
    /\ client[c].from = "poll" => client[c].spawned \in Daemons

RobberyType ==
  /\ strays \subseteq Daemons
  /\ robbed \subseteq [victim : Daemons, by : {"client", "starting", "leaving"}]

\* The daemons that were robbed of their socket file.
Victims == {r.victim : r \in robbed}

\* At work, with nothing in its history that would excuse a second one.
Blameless(d) == Live(d) /\ d \notin strays \cup Victims

\* Who has the path, or has lost it, has bound it once.
PathBound ==
  /\ \A d \in Daemons : socket = d \/ d \in Victims => Past(d)
  /\ socket \notin Victims

\* A daemon that serves has the path.
ServerHasPath ==
  \A d \in Daemons :
    Blameless(d) /\ daemon[d].pc \in {"bound", "serving"} => socket = d

\* The spawner of a daemon on its way up waits for it, or has abandoned it.
SpawnerWaits ==
  \A d \in Daemons :
    daemon[d].pc \in Rising /\ d \notin strays =>
      \E c \in Clients : Awaiting(c) /\ client[c].spawned = d

\* What a client knows that holds the lock: before it spawns, nobody is at work;
\* at its second look, nobody but the daemon it reached; afterwards, nobody but
\* the daemon it has spawned.
LockTells ==
  \A c \in Clients, d \in Daemons :
    Blameless(d) =>
      /\ client[c].pc \notin {"stale", "spawn"}
      /\ client[c].pc = "handshake" /\ client[c].from = "again" => client[c].at = d
      /\ Awaiting(c) => client[c].spawned = d

\* What a daemon that has collected its commands still runs is late, or doomed.
LeftIsLate ==
  \A d \in Daemons :
    /\ daemon[d].pc = "stopping" => daemon[d].up \subseteq daemon[d].doomed \cup daemon[d].late
    /\ daemon[d].pc \in {"closing", "removing"} => daemon[d].up \subseteq daemon[d].late

IInv ==
  /\ TypeOK /\ ClientType /\ ClientPointers /\ RobberyType
  /\ PathBound /\ ServerHasPath /\ SpawnerWaits /\ LockTells
  /\ OneDaemon /\ TakenByLeavers
  /\ LeftIsLate /\ NothingLeft

-----------------------------------------------------------------------------
(* Types *)

DaemonRecord ==
  [pc : Phases, cancelled : BOOLEAN, asked : SUBSET Clients, up : SUBSET Clients,
   doomed : SUBSET Clients, late : SUBSET Clients]
DaemonType == daemon \in [Daemons -> DaemonRecord]

LockHeld(c) ==
  \/ client[c].pc \in {"stale", "spawn", "unlock", "givesUp"}
  \/ client[c].pc \in {"dial", "handshake"} /\ client[c].from \in {"again", "poll"}

\* The parts of TypeOK under the names the proofs use.
LEMMA TypeParts ==
  TypeOK <=> /\ DaemonType
             /\ socket \in Daemons \cup {Nobody}
             /\ \A c \in Clients : lock = c <=> LockHeld(c)
  BY DEF TypeOK, DaemonType, DaemonRecord, Phases, LockHeld

LEMMA TypeInit == Init => TypeOK /\ ClientType /\ ClientPointers /\ RobberyType
<1> SUFFICES ASSUME Init PROVE TypeOK /\ ClientType /\ ClientPointers /\ RobberyType
  OBVIOUS
<1>1. Unborn \in DaemonRecord
  BY DEF Unborn, DaemonRecord, Phases
<1>2. DaemonType
  BY <1>1 DEF Init, DaemonType
<1>3. ClientType
  BY LifecycleConstants DEF Init, ClientType, Places
<1>4. \A c \in Clients : client[c].pc = "off" /\ client[c].from = "first"
  BY DEF Init
<1>5. \A c \in Clients : lock # c
  BY LifecycleConstants DEF Init
<1>6. TypeOK
  BY <1>2, <1>4, <1>5, TypeParts DEF Init, LockHeld
<1> QED BY <1>3, <1>4, <1>6 DEF Init, ClientPointers, RobberyType, Connected

\* What Die leaves of a daemon.
LEMMA Dead ==
  /\ [Unborn EXCEPT !.pc = "gone"] \in DaemonRecord
  /\ [Unborn EXCEPT !.pc = "gone"].pc = "gone"
  /\ [Unborn EXCEPT !.pc = "gone"].up = {}
  BY DEF Unborn, DaemonRecord, Phases

\* The steps of a daemon, its faults included: its record stays a record, and it
\* rises, serves and ends in this order.
Fate(d) == Load(d) \/ RefuseConfig(d) \/ RemoveOld(d) \/ Listen(d) \/ Accept(d)
             \/ BeginTeardown(d) \/ EndTeardown(d) \/ CloseListener(d) \/ Exit(d)
             \/ Signal(d) \/ Kill(d) \/ (\E c \in Clients : Launch(d, c))

Onwards ==
  \A d \in Daemons :
    /\ Past(d) => Past(d)'
    /\ daemon'[d].pc \in Rising => daemon[d].pc \in Rising
    /\ Live(d)' => Live(d)
    /\ Live(d)' /\ daemon'[d].pc \in {"bound", "serving"} =>
         daemon[d].pc \in {"bound", "serving"} \/ socket' = d

LEMMA FateMoves ==
  ASSUME DaemonType, RobberyType, NEW d \in Daemons, Fate(d)
  PROVE  DaemonType' /\ Onwards
<1> USE DEF DaemonType, Become, Die, Onwards, Past, Live, Alive, Rising
<1>0. /\ daemon[d] \in DaemonRecord
      /\ daemon[d].pc \in Phases /\ daemon[d].asked \subseteq Clients
      /\ daemon[d].up \subseteq Clients /\ daemon[d].late \subseteq Clients
  BY DEF DaemonRecord
<1>1. \A pc \in Phases : [daemon[d] EXCEPT !.pc = pc] \in DaemonRecord
  BY <1>0 DEF DaemonRecord
<1>2. ASSUME NEW from \in Phases, NEW to \in Phases,
             daemon[d].pc = from, daemon' = [daemon EXCEPT ![d].pc = to],
             <<from, to>> \in {<<"loading", "starting">>, <<"starting", "binding">>,
                               <<"bound", "serving">>, <<"closing", "removing">>}
                \/ (from = "binding" /\ to = "bound" /\ socket' = d)
      PROVE  DaemonType' /\ Onwards
  <2>1. DaemonType'
    BY <1>1, <1>2
  <2>2. \A d2 \in Daemons : d2 # d => daemon'[d2] = daemon[d2]
    BY <1>2
  <2>3. daemon'[d].pc = to /\ daemon'[d].cancelled = daemon[d].cancelled
    BY <1>0, <1>2 DEF DaemonRecord
  <2> QED BY <1>2, <2>1, <2>2, <2>3
<1>8. ASSUME Die(d) PROVE DaemonType' /\ Onwards
  BY <1>8, Dead
<1>9. CASE Load(d) \/ RemoveOld(d) \/ Listen(d) \/ Accept(d) \/ CloseListener(d)
  BY <1>2, <1>8, <1>9 DEF Load, RemoveOld, Listen, Accept, CloseListener, Phases
<1>3. CASE RefuseConfig(d) \/ Exit(d) \/ Kill(d)
  BY <1>3, Dead DEF RefuseConfig, Exit, Kill
<1>4. CASE BeginTeardown(d)
  <2>1. [daemon[d] EXCEPT !.pc = "stopping", !.doomed = daemon[d].up] \in DaemonRecord
    BY <1>0 DEF DaemonRecord, Phases
  <2> QED BY <1>4, <2>1 DEF BeginTeardown, Shutdown
<1>5. CASE EndTeardown(d)
  <2>1. [daemon[d] EXCEPT !.pc = "closing", !.up = @ \ daemon[d].doomed, !.doomed = {}]
          \in DaemonRecord
    BY <1>0 DEF DaemonRecord, Phases
  <2> QED BY <1>5, <2>1 DEF EndTeardown
<1>6. CASE Signal(d)
  <2>1. CASE daemon[d].pc = "loading"
    BY <1>6, <2>1, Dead DEF Signal
  <2>2. CASE daemon[d].pc # "loading"
    <3> DEFINE pc == IF daemon[d].pc = "serving" THEN "teardown" ELSE daemon[d].pc
    <3>1. daemon' = [daemon EXCEPT ![d].cancelled = TRUE, ![d].pc = pc]
      BY <1>6, <2>2 DEF Signal
    <3>2. [daemon[d] EXCEPT !.cancelled = TRUE, !.pc = pc] \in DaemonRecord
      BY <1>0 DEF DaemonRecord, Phases
    <3>3. DaemonType'
      BY <3>1, <3>2
    <3>4. \A d2 \in Daemons : d2 # d => daemon'[d2] = daemon[d2]
      BY <3>1
    <3>5. daemon'[d].cancelled /\ daemon'[d].pc = pc
      BY <3>1, <1>0 DEF DaemonRecord
    <3> QED BY <3>3, <3>4, <3>5
  <2> QED BY <2>1, <2>2
<1>7. ASSUME NEW c \in Clients, Launch(d, c) PROVE DaemonType' /\ Onwards
  <2> DEFINE late == IF daemon[d].pc \in {"serving", "teardown"} THEN daemon[d].late
                     ELSE daemon[d].late \cup {c}
  <2>1. daemon' = [daemon EXCEPT ![d].asked = @ \ {c}, ![d].up = @ \cup {c}, ![d].late = late]
    BY <1>7 DEF Launch
  <2>2. [daemon[d] EXCEPT !.asked = @ \ {c}, !.up = @ \cup {c}, !.late = late] \in DaemonRecord
    BY <1>0 DEF DaemonRecord
  <2> QED BY <2>1, <2>2
<1> QED BY <1>3, <1>4, <1>5, <1>6, <1>7, <1>9 DEF Fate

-----------------------------------------------------------------------------
(* The path *)

\* Removing the path of a daemon at work makes it a victim.
LEMMA Removal ==
  ASSUME RobberyType, socket \in Daemons \cup {Nobody},
         NEW by \in {"client", "starting", "leaving"}, RemovePath(by)
  PROVE  /\ robbed' \subseteq [victim : Daemons, by : {"client", "starting", "leaving"}]
         /\ robbed \subseteq robbed' /\ Victims \subseteq Victims'
         /\ \A d \in Victims' : d \in Victims \/ d = socket
         /\ socket \in Daemons /\ Live(socket) => socket \in Victims'
         /\ \A r \in robbed' : r \in robbed \/ (r.by = by /\ socket \in Daemons /\ Live(socket))
<1> DEFINE new == {[victim |-> d, by |-> by] : d \in {x \in Daemons : x = socket /\ Live(x)}}
<1>1. robbed' = robbed \cup new
  BY DEF RemovePath
<1>2. \A r \in new : /\ r \in [victim : Daemons, by : {"client", "starting", "leaving"}]
                    /\ r.by = by /\ r.victim = socket /\ socket \in Daemons /\ Live(socket)
  OBVIOUS
<1>3. Victims' = Victims \cup {r.victim : r \in new}
  BY <1>1 DEF Victims
<1>4. socket \in Daemons /\ Live(socket) => socket \in {r.victim : r \in new}
  <2> SUFFICES ASSUME socket \in Daemons, Live(socket) PROVE socket \in {r.victim : r \in new}
    OBVIOUS
  <2>1. [victim |-> socket, by |-> by] \in new
    OBVIOUS
  <2>2. [victim |-> socket, by |-> by].victim = socket
    OBVIOUS
  <2> HIDE DEF new
  <2> QED BY <2>1, <2>2
<1> HIDE DEF new
<1> QED BY <1>1, <1>2, <1>3, <1>4 DEF RobberyType

\* What may happen to the path: nothing, a removal, a bind.
PathMoves(d) ==
  \/ socket' = socket /\ robbed' = robbed
  \/ RemovePath("client") \/ RemovePath("starting") \/ RemovePath("leaving")
  \/ /\ d \in Daemons /\ socket = Nobody /\ socket' = d /\ robbed' = robbed
     /\ daemon[d].pc = "binding" /\ Past(d)'

LEMMA BlamelessBefore ==
  ASSUME NEW d \in Daemons, Live(d)' => Live(d), strays \subseteq strays',
         Victims \subseteq Victims', Blameless(d)'
  PROVE  Blameless(d)
  BY DEF Blameless

LEMMA PathKept ==
  ASSUME RobberyType, socket \in Daemons \cup {Nobody}, PathBound, ServerHasPath,
         Onwards, strays \subseteq strays', NEW d0, PathMoves(d0)
  PROVE  /\ PathBound' /\ ServerHasPath'
         /\ socket' \in Daemons \cup {Nobody}
         /\ robbed' \subseteq [victim : Daemons, by : {"client", "starting", "leaving"}]
         /\ robbed \subseteq robbed' /\ Victims \subseteq Victims'
<1>0. Nobody \notin Daemons
  BY LifecycleConstants
<1>1. CASE socket' = socket /\ robbed' = robbed
  <2>1. Victims' = Victims
    BY <1>1 DEF Victims
  <2> QED BY <1>1, <2>1 DEF RobberyType, PathBound, ServerHasPath, Onwards, Blameless
<1>2. ASSUME NEW by \in {"client", "starting", "leaving"}, RemovePath(by)
      PROVE  /\ PathBound' /\ ServerHasPath' /\ socket' \in Daemons \cup {Nobody}
             /\ robbed' \subseteq [victim : Daemons, by : {"client", "starting", "leaving"}]
             /\ robbed \subseteq robbed' /\ Victims \subseteq Victims'
  <2>1. socket' = Nobody
    BY <1>2 DEF RemovePath
  <2>2. \A d \in Victims' : d \in Victims \/ d = socket
    BY <1>2, Removal
  <2>3. Victims \subseteq Daemons /\ Victims' \subseteq Daemons
    BY <1>2, Removal DEF RobberyType, Victims
  <2>4. PathBound'
    BY <1>0, <2>1, <2>2, <2>3 DEF PathBound, Onwards
  <2>5. ServerHasPath'
    <3> SUFFICES ASSUME NEW d \in Daemons, Blameless(d)',
                        daemon'[d].pc \in {"bound", "serving"}
                 PROVE  FALSE
      BY DEF ServerHasPath
    <3>1. Blameless(d) /\ Live(d)
      BY <1>2, Removal, BlamelessBefore DEF Onwards, Blameless
    <3>2. socket = d
      BY <1>0, <2>1, <3>1 DEF Onwards, ServerHasPath, Blameless
    <3>3. d \in Victims'
      BY <1>2, <3>1, <3>2, Removal
    <3> QED BY <3>3 DEF Blameless
  <2> QED BY <1>2, <2>1, <2>4, <2>5, Removal
<1>3. CASE /\ d0 \in Daemons /\ socket = Nobody /\ socket' = d0 /\ robbed' = robbed
           /\ daemon[d0].pc = "binding" /\ Past(d0)'
  <2>1. Victims' = Victims
    BY <1>3 DEF Victims
  <2>2. d0 \notin Victims
    BY <1>3 DEF PathBound, Past, Rising
  <2> QED BY <1>0, <1>3, <2>1, <2>2 DEF RobberyType, PathBound, ServerHasPath, Onwards, Blameless
<1> QED BY <1>1, <1>2, <1>3 DEF PathMoves

\* Who removes the path of a daemon at work, with no daemon abandoned, is leaving:
\* a client that holds the lock, and a daemon whose spawner does, find no other
\* one at work.
LEMMA TakenKept ==
  ASSUME IInv, strays \subseteq strays',
         \/ robbed' = robbed \/ RemovePath("leaving")
         \/ RemovePath("starting") /\ (\E d \in Daemons : daemon[d].pc = "starting")
         \/ RemovePath("client") /\ (\E c \in Clients : client[c].pc = "stale")
  PROVE  TakenByLeavers'
<1> SUFFICES ASSUME strays' = {}, NEW r \in robbed', r.by # "leaving"
             PROVE  FALSE
  BY DEF TakenByLeavers
<1>1. RobberyType /\ socket \in Daemons \cup {Nobody} /\ PathBound /\ strays = {}
  BY DEF IInv, TypeOK
<1>2. r \notin robbed
  BY <1>1 DEF IInv, TakenByLeavers
<1>3. PICK by \in {"client", "starting", "leaving"} :
        /\ RemovePath(by)
        /\ by = "starting" => \E d \in Daemons : daemon[d].pc = "starting"
        /\ by = "client" => \E c \in Clients : client[c].pc = "stale"
        /\ by # "client" /\ by # "starting" => by = "leaving"
  BY <1>2
<1>4. r.by = by /\ socket \in Daemons /\ Live(socket)
  BY <1>1, <1>2, <1>3, Removal
<1>5. Blameless(socket) /\ Past(socket)
  BY <1>1, <1>4 DEF PathBound, Blameless
<1>6. CASE by = "client"
  BY <1>3, <1>4, <1>5, <1>6 DEF IInv, LockTells
<1>7. CASE by = "starting"
  <2>1. PICK d \in Daemons : daemon[d].pc = "starting"
    BY <1>3, <1>7
  <2>2. PICK c \in Clients : Awaiting(c) /\ client[c].spawned = d
    BY <1>1, <2>1 DEF IInv, SpawnerWaits, Rising
  <2>3. d = socket
    BY <1>4, <1>5, <2>2 DEF IInv, LockTells
  <2> QED BY <1>5, <2>1, <2>3 DEF Past, Rising
<1> QED BY <1>3, <1>4, <1>6, <1>7

-----------------------------------------------------------------------------
(* The steps of a daemon *)

LEMMA FatePath ==
  ASSUME TypeOK, NEW d \in Daemons, Fate(d)
  PROVE  /\ UNCHANGED <<client, lock, strays>>
         /\ PathMoves(d)
         /\ \/ robbed' = robbed \/ RemovePath("leaving")
            \/ RemovePath("starting") /\ daemon[d].pc = "starting"
<1> USE DEF PathMoves, histories
<1>1. CASE Listen(d)
  <2>1. daemon'[d].pc = "bound" \/ socket' = socket
    BY <1>1, TypeParts DEF Listen, Become, DaemonType, DaemonRecord
  <2> QED BY <1>1, <2>1 DEF Listen, Past, Rising
<1>2. CASE Load(d) \/ RefuseConfig(d) \/ Accept(d) \/ BeginTeardown(d) \/ EndTeardown(d)
             \/ Signal(d) \/ Kill(d) \/ (\E c \in Clients : Launch(d, c))
  BY <1>2 DEF Load, RefuseConfig, Accept, BeginTeardown, EndTeardown, Signal, Kill, Launch
<1>3. CASE RemoveOld(d) \/ CloseListener(d) \/ Exit(d)
  BY <1>3 DEF RemoveOld, CloseListener, Exit
<1> QED BY <1>1, <1>2, <1>3 DEF Fate

\* What is started while the commands are collected is late, and what was not
\* late is stopped.
LEMMA FateLeavesNothing ==
  ASSUME DaemonType, LeftIsLate, NothingLeft, NEW d \in Daemons, Fate(d)
  PROVE  LeftIsLate' /\ NothingLeft'
<1> USE DEF LeftIsLate, NothingLeft, DaemonType, Become, Die, histories
<1>0. daemon[d] \in DaemonRecord /\ \A d2 \in Daemons : d2 # d => daemon'[d2] = daemon[d2]
  BY DEF Fate, Load, RefuseConfig, RemoveOld, Listen, Accept, BeginTeardown, EndTeardown,
         CloseListener, Exit, Signal, Kill, Launch, Shutdown
<1>1. CASE Exit(d)
  <2>1. daemon[d].up \subseteq daemon[d].late
    BY <1>1 DEF Exit
  <2>2. orphans' \subseteq orphans \cup {"late"}
    BY <1>1, <2>1 DEF Exit
  <2>3. daemon'[d].pc = "gone"
    BY <1>1, Dead DEF Exit
  <2> QED BY <1>0, <2>2, <2>3
<1>2. CASE BeginTeardown(d)
  <2>1. daemon'[d].pc = "stopping" /\ daemon'[d].up = daemon'[d].doomed
    BY <1>0, <1>2 DEF BeginTeardown, Shutdown, DaemonRecord
  <2> QED BY <1>0, <1>2, <2>1 DEF BeginTeardown
<1>3. CASE EndTeardown(d)
  <2>1. /\ daemon'[d].pc = "closing" /\ daemon'[d].late = daemon[d].late
        /\ daemon'[d].up = daemon[d].up \ daemon[d].doomed
    BY <1>0, <1>3 DEF EndTeardown, DaemonRecord
  <2>2. daemon[d].up \subseteq daemon[d].doomed \cup daemon[d].late
    BY <1>3 DEF EndTeardown
  <2> QED BY <1>0, <1>3, <2>1, <2>2 DEF EndTeardown
<1>4. ASSUME NEW c \in Clients, Launch(d, c) PROVE LeftIsLate' /\ NothingLeft'
  <2>1. /\ daemon'[d].pc = daemon[d].pc /\ daemon'[d].doomed = daemon[d].doomed
        /\ daemon'[d].up = daemon[d].up \cup {c}
        /\ daemon[d].pc \notin {"serving", "teardown"} =>
             daemon'[d].late = daemon[d].late \cup {c}
    BY <1>0, <1>4 DEF Launch, DaemonRecord
  <2> QED BY <1>0, <1>4, <2>1 DEF Launch
<1>5. CASE CloseListener(d)
  <2>1. /\ daemon'[d].pc = "removing" /\ daemon'[d].up = daemon[d].up
        /\ daemon'[d].late = daemon[d].late
    BY <1>0, <1>5 DEF CloseListener, DaemonRecord
  <2> QED BY <1>0, <1>5, <2>1 DEF CloseListener
<1>6. CASE Signal(d)
  <2>1. \/ daemon'[d].pc \in {"gone", "teardown"}
        \/ /\ daemon'[d].pc = daemon[d].pc /\ daemon'[d].up = daemon[d].up
           /\ daemon'[d].late = daemon[d].late /\ daemon'[d].doomed = daemon[d].doomed
    BY <1>0, <1>6, Dead DEF Signal, DaemonRecord
  <2> QED BY <1>0, <1>6, <2>1 DEF Signal
<1>7. CASE Load(d) \/ RefuseConfig(d) \/ RemoveOld(d) \/ Listen(d) \/ Accept(d) \/ Kill(d)
  <2>1. daemon'[d].pc \in {"starting", "gone", "binding", "bound", "serving"}
    BY <1>0, <1>7, Dead DEF Load, RefuseConfig, RemoveOld, Listen, Accept, Kill, DaemonRecord
  <2>2. orphans' = orphans
    BY <1>7 DEF Load, RefuseConfig, RemoveOld, Listen, Accept, Kill
  <2> QED BY <1>0, <2>1, <2>2
<1> QED BY <1>1, <1>2, <1>3, <1>4, <1>5, <1>6, <1>7 DEF Fate

\* One daemon at work follows from what the daemons of before were.
LEMMA OneDaemonKept ==
  ASSUME OneDaemon,
         \A d \in Daemons : Blameless(d)' => Blameless(d)
  PROVE  OneDaemon'
<1>1. OneDaemon = \A d1, d2 \in Daemons : Blameless(d1) /\ Blameless(d2) => d1 = d2
  BY DEF OneDaemon, Blameless, Victims
<1>2. OneDaemon' = \A d1, d2 \in Daemons : Blameless(d1)' /\ Blameless(d2)' => d1 = d2
  BY DEF OneDaemon, Blameless, Victims
<1> QED BY <1>1, <1>2

LEMMA FateKeeps ==
  ASSUME IInv, NEW d \in Daemons, Fate(d)
  PROVE  IInv'
<1>1. /\ TypeOK /\ DaemonType /\ RobberyType /\ socket \in Daemons \cup {Nobody}
      /\ \A c \in Clients : lock = c <=> LockHeld(c)
  BY TypeParts DEF IInv
<1>2. DaemonType' /\ Onwards
  BY <1>1, FateMoves
<1>3. UNCHANGED <<client, lock, strays>> /\ PathMoves(d)
  BY <1>1, FatePath
<1>4. /\ PathBound' /\ ServerHasPath' /\ socket' \in Daemons \cup {Nobody}
      /\ RobberyType' /\ Victims \subseteq Victims'
  BY <1>1, <1>2, <1>3, PathKept DEF IInv, RobberyType
<1>5. TypeOK'
  <2>1. \A c \in Clients : lock' = c <=> LockHeld(c)'
    BY <1>1, <1>3 DEF LockHeld
  <2> QED BY <1>2, <1>4, <2>1 DEF TypeOK, DaemonType, DaemonRecord, Phases, LockHeld
<1>6. ClientType' /\ ClientPointers'
  BY <1>2, <1>3 DEF IInv, ClientType, ClientPointers, Onwards
<1>7. \A d2 \in Daemons : Blameless(d2)' => Blameless(d2)
  BY <1>2, <1>3, <1>4, BlamelessBefore DEF Onwards
<1>8. OneDaemon'
  BY <1>7, OneDaemonKept DEF IInv
<1>9. SpawnerWaits'
  BY <1>2, <1>3 DEF IInv, SpawnerWaits, Onwards, Awaiting
<1>10. LockTells'
  BY <1>3, <1>7 DEF IInv, LockTells, Awaiting
<1>11. TakenByLeavers'
  BY <1>1, <1>3, FatePath, TakenKept
<1>12. LeftIsLate' /\ NothingLeft'
  BY <1>1, FateLeavesNothing DEF IInv
<1> QED BY <1>4, <1>5, <1>6, <1>8, <1>9, <1>10, <1>11, <1>12 DEF IInv

-----------------------------------------------------------------------------
(* The steps of a client *)

Move(c) == DialPath(c) \/ Answered(c) \/ HungUp(c) \/ AcquireLock(c) \/ RemoveStale(c)
             \/ Unlock(c) \/ WaitOver(c) \/ Begin(c) \/ Detach(c) \/ KillClient(c)

ClientRecord ==
  [session : Sessions, pc : Places, from : {"only", "first", "again", "poll"},
   at : Daemons \cup {Nobody}, spawned : Daemons \cup {Nobody}, polls : Int]

\* Where a client is after a failed attempt to connect.
LEMMA Failing ==
  ASSUME ClientType, NEW c \in Clients, NEW refused \in BOOLEAN,
         client[c].pc \in {"dial", "handshake"}, ConnectFails(c, refused)
  PROVE  \E next \in ClientRecord :
           /\ client' = [client EXCEPT ![c] = next]
           /\ \/ client[c].from = "only" /\ next.pc = "done" /\ next.from = "first"
              \/ client[c].from = "first" /\ next.pc = "lock" /\ next.from = "first"
              \/ /\ client[c].from = "again" /\ next.pc \in {"stale", "spawn"}
                 /\ next.from = "again" /\ next.at = Nobody
              \/ /\ client[c].from = "poll" /\ next.pc \in {"givesUp", "dial"}
                 /\ next.from = "poll" /\ next.at = Nobody /\ next.spawned = client[c].spawned
<1> DEFINE me == client[c]
<1>0. me \in ClientRecord /\ Polls \in Int
  BY LifecycleConstants DEF ClientType, ClientRecord
<1>1. CASE me.from = "only"
  <2> DEFINE next == [me EXCEPT !.pc = "done", !.from = "first", !.at = Nobody,
                                !.spawned = Nobody, !.polls = Polls]
  <2>1. client' = [client EXCEPT ![c] = next]
    BY <1>1 DEF ConnectFails, Leave, ClientType
  <2>2. next \in ClientRecord /\ next.pc = "done" /\ next.from = "first"
    BY <1>0 DEF ClientRecord, Places, Finished
  <2> QED BY <1>1, <2>1, <2>2
<1>2. CASE me.from = "first"
  <2> DEFINE next == [me EXCEPT !.pc = "lock"]
  <2>1. client' = [client EXCEPT ![c] = next]
    BY <1>2 DEF ConnectFails, Goto, ClientType
  <2>2. next \in ClientRecord /\ next.pc = "lock" /\ next.from = "first"
    BY <1>0, <1>2 DEF ClientRecord, Places
  <2> QED BY <1>2, <2>1, <2>2
<1>3. CASE me.from = "again"
  <2> DEFINE next == [me EXCEPT !.pc = IF refused THEN "stale" ELSE "spawn", !.at = Nobody]
  <2>1. client' = [client EXCEPT ![c] = next]
    BY <1>3 DEF ConnectFails, ClientType
  <2>2. /\ next \in ClientRecord /\ next.pc \in {"stale", "spawn"}
        /\ next.from = "again" /\ next.at = Nobody
    BY <1>0, <1>3 DEF ClientRecord, Places
  <2> QED BY <1>3, <2>1, <2>2
<1>4. CASE me.from = "poll"
  <2> DEFINE next == [me EXCEPT !.pc = IF me.polls = 1 THEN "givesUp" ELSE "dial",
                                !.polls = me.polls - 1, !.at = Nobody]
  <2>1. client' = [client EXCEPT ![c] = next]
    BY <1>4 DEF ConnectFails, ClientType
  <2>2. /\ next \in ClientRecord /\ next.pc \in {"givesUp", "dial"}
        /\ next.from = "poll" /\ next.at = Nobody /\ next.spawned = me.spawned
    <3>1. me.polls - 1 \in Int
      BY <1>0 DEF ClientRecord
    <3> QED BY <1>0, <1>4, <3>1 DEF ClientRecord, Places
  <2> QED BY <1>4, <2>1, <2>2
<1> QED BY <1>0, <1>1, <1>2, <1>3, <1>4 DEF ClientRecord

\* What the invariant says of one client, as a record.
Held(r) == \/ r.pc \in {"stale", "spawn", "unlock", "givesUp"}
           \/ r.pc \in {"dial", "handshake"} /\ r.from \in {"again", "poll"}
Awaits(r) == r.from = "poll" /\ r.pc \in {"dial", "handshake", "unlock", "givesUp"}
PointersOf(r) ==
  /\ r.pc \in Connected => r.at \in Daemons /\ Past(r.at)
  /\ r.pc \in {"dial", "givesUp", "spawn", "stale"} => r.at = Nobody
  /\ r.pc = "givesUp" => r.from \in {"again", "poll"}
  /\ r.pc \in {"spawn", "stale"} => r.from = "again"
  /\ r.from = "poll" => r.spawned \in Daemons
Tells(r, d) == /\ r.pc \notin {"stale", "spawn"}
               /\ r.pc = "handshake" /\ r.from = "again" => r.at = d
               /\ Awaits(r) => r.spawned = d

\* A step of one client that leaves the daemons alone keeps the invariant if what
\* becomes of that client does, and if it abandons the daemon it waited for when it
\* waits no longer.
LEMMA MoveKeeps ==
  ASSUME IInv, UNCHANGED <<daemon, orphans>>, NEW c \in Clients, NEW next \in ClientRecord,
         client' = [client EXCEPT ![c] = next],
         PointersOf(next),
         lock' = c <=> Held(next),
         \A o \in Clients : o # c => (lock' = o <=> lock = o),
         strays \subseteq strays', strays' \subseteq Daemons,
         Awaiting(c) => \/ Awaits(next) /\ next.spawned = client[c].spawned
                        \/ ~(daemon[client[c].spawned].pc \in Rising)
                        \/ client[c].spawned \in strays',
         \A d \in Daemons : Blameless(d) => Tells(next, d),
         \/ UNCHANGED <<socket, robbed>>
         \/ RemovePath("client") /\ client[c].pc = "stale"
  PROVE  IInv'
<1>1. /\ DaemonType /\ RobberyType /\ socket \in Daemons \cup {Nobody}
      /\ \A o \in Clients : lock = o <=> LockHeld(o)
  BY TypeParts DEF IInv
<1>2. /\ client'[c] = next
      /\ \A o \in Clients : o # c => client'[o] = client[o]
  BY DEF IInv, ClientType
<1>3. Onwards
  BY DEF Onwards, Past, Live, Alive
<1>4. PathMoves(Nobody)
  BY DEF PathMoves
<1>6. /\ PathBound' /\ ServerHasPath' /\ socket' \in Daemons \cup {Nobody}
      /\ RobberyType' /\ Victims \subseteq Victims'
  BY <1>1, <1>3, <1>4, PathKept DEF IInv, RobberyType
<1>7. TypeOK'
  <2>1. \A o \in Clients : lock' = o <=> LockHeld(o)'
    BY <1>1, <1>2 DEF LockHeld, Held
  <2> QED BY <1>1, <1>6, <2>1 DEF TypeOK, DaemonType, DaemonRecord, Phases, LockHeld
<1>8. ClientType' /\ ClientPointers'
  <2>1. ClientType'
    BY DEF IInv, ClientType, ClientRecord
  <2> QED BY <1>2, <2>1 DEF IInv, ClientPointers, PointersOf, Past
<1>9. \A d \in Daemons : Blameless(d)' => Blameless(d)
  BY <1>3, <1>6, BlamelessBefore DEF Onwards
<1>10. OneDaemon'
  BY <1>9, OneDaemonKept DEF IInv
<1>11. SpawnerWaits'
  <2> SUFFICES ASSUME NEW d \in Daemons, daemon'[d].pc \in Rising, d \notin strays'
               PROVE  \E o \in Clients : Awaiting(o)' /\ client'[o].spawned = d
    BY DEF SpawnerWaits
  <2>1. PICK o \in Clients : Awaiting(o) /\ client[o].spawned = d
    BY DEF IInv, SpawnerWaits
  <2>2. CASE o = c
    BY <1>2, <2>1, <2>2 DEF Awaits, Awaiting
  <2>3. CASE o # c
    BY <1>2, <2>1, <2>3 DEF Awaiting
  <2> QED BY <2>2, <2>3
<1>12. LockTells'
  <2> SUFFICES ASSUME NEW o \in Clients, NEW d \in Daemons, Blameless(d)'
               PROVE  /\ client'[o].pc \notin {"stale", "spawn"}
                      /\ client'[o].pc = "handshake" /\ client'[o].from = "again"
                           => client'[o].at = d
                      /\ Awaiting(o)' => client'[o].spawned = d
    BY DEF LockTells
  <2>1. CASE o = c
    BY <1>2, <1>9, <2>1 DEF Tells, Awaits, Awaiting
  <2>2. CASE o # c
    BY <1>2, <1>9, <2>2 DEF IInv, LockTells, Awaiting
  <2> QED BY <2>1, <2>2
<1>13. TakenByLeavers'
  BY TakenKept
<1>14. LeftIsLate' /\ NothingLeft'
  BY DEF IInv, LeftIsLate, NothingLeft
<1> QED BY <1>6, <1>7, <1>8, <1>10, <1>11, <1>12, <1>13, <1>14 DEF IInv

LEMMA MoveStep ==
  ASSUME IInv, NEW c \in Clients, Move(c)
  PROVE  IInv'
<1> DEFINE me == client[c]
<1> USE DEF Goto, Leave, Connect, histories
<1>1. /\ client \in [Clients -> ClientRecord] /\ me \in ClientRecord
      /\ DaemonType /\ RobberyType /\ PathBound /\ socket \in Daemons \cup {Nobody}
      /\ \A o \in Clients : lock = o <=> LockHeld(o)
  BY TypeParts DEF IInv, ClientType, ClientRecord
<1>2. /\ PointersOf(me) /\ (lock = c <=> Held(me))
      /\ \A d \in Daemons : Blameless(d) => Tells(me, d)
  BY <1>1 DEF IInv, ClientPointers, LockTells, PointersOf, Held, LockHeld, Tells, Awaits, Awaiting
<1>3. Nobody \notin Clients \cup Daemons /\ Polls \in Int
  BY LifecycleConstants
<1>4. /\ me.session \in Sessions /\ me.pc \in Places
      /\ me.from \in {"only", "first", "again", "poll"}
      /\ me.at \in Daemons \cup {Nobody} /\ me.spawned \in Daemons \cup {Nobody}
      /\ me.polls \in Int
  BY <1>1 DEF ClientRecord
\* A client that leaves the lock alone.
<1>5. ASSUME NEW next \in ClientRecord, client' = [client EXCEPT ![c] = next],
             UNCHANGED <<daemon, socket, lock, histories>>, PointersOf(next),
             Held(me) <=> Held(next),
             Awaiting(c) => Awaits(next) /\ next.spawned = me.spawned,
             \A d \in Daemons : Blameless(d) => Tells(next, d)
      PROVE  IInv'
  <2>1. strays \subseteq Daemons
    BY <1>1 DEF RobberyType
  <2> QED BY <1>2, <1>5, <2>1, MoveKeeps
\* A client that gives the lock up, if it has it.
<1>6. ASSUME NEW next \in ClientRecord, client' = [client EXCEPT ![c] = next],
             UNCHANGED <<daemon, socket, orphans, robbed>>, PointersOf(next),
             lock' = IF lock = c THEN Nobody ELSE lock,
             strays' = strays \cup Abandoned(c),
             ~Held(next), next.pc \notin {"stale", "spawn", "handshake"}, ~Awaits(next)
      PROVE  IInv'
  <2>1. strays' \subseteq Daemons
    BY <1>1, <1>6 DEF RobberyType, Abandoned
  <2>2. ASSUME Awaiting(c), daemon[me.spawned].pc \in Rising
        PROVE  me.spawned \in strays'
    <3>1. me.spawned \in Daemons /\ Alive(me.spawned)
      BY <1>2, <2>2 DEF Awaiting, PointersOf, Alive, Rising
    <3>2. me.at # me.spawned
      BY <1>2, <1>3, <2>2, <3>1 DEF Awaiting, PointersOf, Past, Connected
    <3> QED BY <1>6, <3>1, <3>2 DEF Abandoned
  <2>3. \A d \in Daemons : Blameless(d) => Tells(next, d)
    BY <1>6 DEF Tells
  <2>4. /\ lock' = c <=> Held(next)
        /\ \A o \in Clients : o # c => (lock' = o <=> lock = o)
    BY <1>3, <1>6
  <2> QED BY <1>6, <2>1, <2>2, <2>3, <2>4, MoveKeeps
<1>7. CASE Begin(c)
  <2> DEFINE from == IF me.session = "shutdown" THEN "only" ELSE "first"
             next == [me EXCEPT !.pc = "dial", !.from = from, !.at = Nobody]
  <2>1. client' = [client EXCEPT ![c] = next]
    BY <1>1, <1>7 DEF Begin
  <2>2. next \in ClientRecord /\ next.pc = "dial" /\ next.from = from /\ next.at = Nobody
    BY <1>1, <1>4 DEF ClientRecord, Places
  <2>3. UNCHANGED <<daemon, socket, lock, histories>> /\ me.pc = "off"
    BY <1>7 DEF Begin
  <2> HIDE DEF next
  <2> QED BY <1>5, <2>1, <2>2, <2>3 DEF PointersOf, Held, Awaiting, Awaits, Tells, Connected
<1>8. CASE Answered(c)
  <2> DEFINE pc == IF me.from \in {"again", "poll"} THEN "unlock" ELSE "connected"
             next == [me EXCEPT !.pc = pc]
  <2>1. client' = [client EXCEPT ![c] = next]
    BY <1>1, <1>8 DEF Answered
  <2>2. /\ next \in ClientRecord /\ next.pc = pc /\ next.from = me.from
        /\ next.at = me.at /\ next.spawned = me.spawned
    BY <1>1, <1>4 DEF ClientRecord, Places
  <2>3. UNCHANGED <<daemon, socket, lock, histories>> /\ me.pc = "handshake"
    BY <1>8 DEF Answered
  <2> HIDE DEF next
  <2> QED BY <1>2, <1>5, <2>1, <2>2, <2>3
          DEF PointersOf, Held, Awaiting, Awaits, Tells, Connected
<1>9. CASE WaitOver(c) \/ Detach(c)
  <2> DEFINE next == [me EXCEPT !.pc = "done", !.from = "first", !.at = Nobody,
                                !.spawned = Nobody, !.polls = Polls]
  <2>1. client' = [client EXCEPT ![c] = next]
    BY <1>1, <1>9 DEF WaitOver, Detach
  <2>2. next \in ClientRecord /\ next.pc = "done" /\ next.from = "first"
    BY <1>1, <1>3, <1>4 DEF ClientRecord, Places, Finished
  <2>3. UNCHANGED <<daemon, socket, lock, histories>> /\ me.pc \in {"waiting", "started"}
    BY <1>9 DEF WaitOver, Detach
  <2> HIDE DEF next
  <2> QED BY <1>5, <2>1, <2>2, <2>3 DEF PointersOf, Held, Awaiting, Awaits, Tells, Connected
<1>10. CASE KillClient(c) \/ (Unlock(c) /\ me.pc = "givesUp")
  <2> DEFINE next == [me EXCEPT !.pc = "failed", !.from = "first", !.at = Nobody,
                                !.spawned = Nobody, !.polls = Polls]
  <2>1. client' = [client EXCEPT ![c] = next]
    BY <1>1, <1>10 DEF KillClient, Unlock
  <2>2. next \in ClientRecord /\ next.pc = "failed" /\ next.from = "first"
    BY <1>1, <1>3, <1>4 DEF ClientRecord, Places, Finished
  <2>3. /\ UNCHANGED <<daemon, socket, orphans, robbed>>
        /\ strays' = strays \cup Abandoned(c)
    BY <1>10 DEF KillClient, Unlock
  <2>4. lock' = IF lock = c THEN Nobody ELSE lock
    BY <1>2, <1>10 DEF KillClient, Unlock, Held
  <2> HIDE DEF next
  <2> QED BY <1>6, <2>1, <2>2, <2>3, <2>4 DEF PointersOf, Held, Awaits, Connected
<1>11. CASE Unlock(c) /\ me.pc = "unlock"
  <2> DEFINE next == [me EXCEPT !.pc = "connected"]
  <2>1. client' = [client EXCEPT ![c] = next]
    BY <1>1, <1>11 DEF Unlock
  <2>2. /\ next \in ClientRecord /\ next.pc = "connected" /\ next.from = me.from
        /\ next.at = me.at /\ next.spawned = me.spawned
    BY <1>1, <1>4 DEF ClientRecord, Places
  <2>3. /\ UNCHANGED <<daemon, socket, orphans, robbed>>
        /\ strays' = strays \cup Abandoned(c)
    BY <1>11 DEF Unlock
  <2>4. lock' = IF lock = c THEN Nobody ELSE lock
    BY <1>2, <1>11 DEF Unlock, Held
  <2> HIDE DEF next
  <2> QED BY <1>2, <1>6, <1>11, <2>1, <2>2, <2>3, <2>4 DEF PointersOf, Held, Awaits, Connected
<1>12. CASE AcquireLock(c)
  <2> DEFINE next == [me EXCEPT !.pc = "dial", !.from = "again", !.at = Nobody]
  <2>1. client' = [client EXCEPT ![c] = next]
    BY <1>1, <1>12 DEF AcquireLock
  <2>2. next \in ClientRecord /\ next.pc = "dial" /\ next.from = "again" /\ next.at = Nobody
    BY <1>1, <1>4 DEF ClientRecord, Places
  <2>3. /\ UNCHANGED <<daemon, socket, histories>> /\ lock = Nobody /\ lock' = c
        /\ me.pc = "lock"
    BY <1>12 DEF AcquireLock
  <2>4. /\ lock' = c <=> Held(next)
        /\ \A o \in Clients : o # c => (lock' = o <=> lock = o)
    BY <1>3, <2>2, <2>3 DEF Held
  <2>5. strays' \subseteq Daemons
    BY <1>1, <2>3 DEF RobberyType
  <2>6. PointersOf(next) /\ ~Awaiting(c) /\ \A d \in Daemons : Tells(next, d)
    BY <2>2, <2>3 DEF PointersOf, Awaiting, Awaits, Tells, Connected
  <2> HIDE DEF next
  <2> QED BY <2>1, <2>2, <2>3, <2>4, <2>5, <2>6, MoveKeeps
<1>13. CASE RemoveStale(c)
  <2>1. PICK pc \in {"spawn", "givesUp"} : client' = [client EXCEPT ![c].pc = pc]
    BY <1>13 DEF RemoveStale, Goto
  <2> DEFINE next == [me EXCEPT !.pc = pc]
  <2>2. /\ next \in ClientRecord /\ next.pc = pc /\ next.from = me.from /\ next.at = me.at
        /\ client' = [client EXCEPT ![c] = next]
    BY <1>1, <1>4, <2>1 DEF ClientRecord, Places
  <2>3. /\ UNCHANGED <<daemon, lock, orphans, strays>>
        /\ UNCHANGED <<socket, robbed>> \/ RemovePath("client")
        /\ me.pc = "stale"
    BY <1>13 DEF RemoveStale
  <2>4. strays' \subseteq Daemons
    BY <1>1, <2>3 DEF RobberyType
  <2>5. \A d \in Daemons : ~Blameless(d)
    BY <1>2, <2>3 DEF Tells
  <2>6. PointersOf(next) /\ ~Awaiting(c) /\ (Held(me) <=> Held(next))
    BY <1>2, <2>2, <2>3 DEF PointersOf, Awaiting, Held, Connected
  <2> HIDE DEF next
  <2> QED BY <1>2, <2>1, <2>2, <2>3, <2>4, <2>5, <2>6, MoveKeeps
\* Under the lock, and with no daemon of its own on the way up, a client looks at
\* the path of whoever is at work.
<1>14. ASSUME me.pc = "dial", me.from = "again", NEW d \in Daemons, Blameless(d)
       PROVE  socket = d /\ Listening(d)
  <2>1. daemon[d].pc \in Rising \cup {"bound", "serving"}
    BY <1>1, <1>14 DEF DaemonType, DaemonRecord, Phases, Blameless, Live, Alive, Rising
  <2>2. daemon[d].pc \notin Rising
    <3> SUFFICES ASSUME daemon[d].pc \in Rising PROVE FALSE
      OBVIOUS
    <3>1. PICK o \in Clients : Awaiting(o)
      BY <1>14 DEF IInv, SpawnerWaits, Blameless
    <3>2. lock = o /\ lock = c
      BY <1>1, <1>2, <1>14, <3>1 DEF LockHeld, Awaiting, Held
    <3> QED BY <1>14, <3>1, <3>2 DEF Awaiting
  <2> QED BY <1>14, <2>1, <2>2 DEF IInv, ServerHasPath, Listening
<1>15. ASSUME NEW refused \in BOOLEAN, me.pc \in {"dial", "handshake"},
              ConnectFails(c, refused), UNCHANGED <<daemon, socket, lock, histories>>,
              me.from = "again" => \A d \in Daemons : ~Blameless(d)
       PROVE  IInv'
  <2>1. PICK next \in ClientRecord :
          /\ client' = [client EXCEPT ![c] = next]
          /\ \/ me.from = "only" /\ next.pc = "done" /\ next.from = "first"
             \/ me.from = "first" /\ next.pc = "lock" /\ next.from = "first"
             \/ /\ me.from = "again" /\ next.pc \in {"stale", "spawn"}
                /\ next.from = "again" /\ next.at = Nobody
             \/ /\ me.from = "poll" /\ next.pc \in {"givesUp", "dial"}
                /\ next.from = "poll" /\ next.at = Nobody /\ next.spawned = me.spawned
    BY <1>1, <1>15, Failing DEF IInv
  <2>2. PointersOf(next)
    BY <1>2, <2>1 DEF PointersOf, Connected
  <2>3. Held(me) <=> Held(next)
    BY <1>15, <2>1 DEF Held
  <2>4. Awaiting(c) => Awaits(next) /\ next.spawned = me.spawned
    BY <2>1 DEF Awaiting, Awaits
  <2>5. \A d \in Daemons : Blameless(d) => Tells(next, d)
    BY <1>2, <1>15, <2>1 DEF Tells, Awaits
  <2> QED BY <1>5, <1>15, <2>1, <2>2, <2>3, <2>4, <2>5
<1>16. CASE DialPath(c)
  <2>1. CASE socket # Nobody /\ Listening(socket)
    <3> DEFINE next == [me EXCEPT !.pc = "handshake", !.at = socket]
    <3>1. client' = [client EXCEPT ![c] = next]
      BY <1>1, <1>16, <2>1 DEF DialPath
    <3>2. /\ next \in ClientRecord /\ next.pc = "handshake" /\ next.from = me.from
          /\ next.at = socket /\ next.spawned = me.spawned
      BY <1>1, <1>4 DEF ClientRecord, Places
    <3>3. /\ UNCHANGED <<daemon, socket, lock, histories>> /\ me.pc = "dial"
      BY <1>16 DEF DialPath
    <3>4. PointersOf(next)
      BY <1>1, <1>2, <2>1, <3>2 DEF PointersOf, PathBound, Connected
    <3>5. \A d \in Daemons : Blameless(d) => Tells(next, d)
      BY <1>2, <1>14, <3>2, <3>3 DEF Tells, Awaits
    <3> HIDE DEF next
    <3> QED BY <1>5, <3>1, <3>2, <3>3, <3>4, <3>5 DEF Held, Awaiting, Awaits
  <2>2. CASE ~(socket # Nobody /\ Listening(socket))
    <3>1. me.pc = "dial" /\ ConnectFails(c, socket # Nobody)
      BY <1>16, <2>2 DEF DialPath
    <3>2. UNCHANGED <<daemon, socket, lock, histories>>
      BY <1>16 DEF DialPath
    <3>3. me.from = "again" => \A d \in Daemons : ~Blameless(d)
      BY <1>3, <1>14, <2>2, <3>1
    <3> QED BY <1>15, <3>1, <3>2, <3>3
  <2> QED BY <2>1, <2>2
<1>17. CASE HungUp(c)
  <2>1. /\ me.pc = "handshake" /\ ConnectFails(c, FALSE) /\ StreamEnded(me.at)
        /\ UNCHANGED <<daemon, socket, lock, histories>>
    BY <1>17 DEF HungUp
  <2>2. ~Live(me.at)
    BY <2>1 DEF StreamEnded, Ending, Live
  <2>3. me.from = "again" => \A d \in Daemons : ~Blameless(d)
    BY <1>2, <2>1, <2>2 DEF Tells, Blameless
  <2> QED BY <1>15, <2>1, <2>3
<1>18. Unlock(c) => me.pc \in {"unlock", "givesUp"}
  BY DEF Unlock
<1> QED BY <1>7, <1>8, <1>9, <1>10, <1>11, <1>12, <1>13, <1>16, <1>17, <1>18 DEF Move

\* A client spawns when nobody blameless is at work, so that its daemon is the only one.
LEMMA SpawnStep ==
  ASSUME IInv, NEW c \in Clients, Spawn(c)
  PROVE  IInv'
<1> DEFINE me == client[c]
<1>1. /\ client \in [Clients -> ClientRecord] /\ me \in ClientRecord
      /\ DaemonType /\ RobberyType /\ PathBound /\ socket \in Daemons \cup {Nobody}
      /\ \A o \in Clients : lock = o <=> LockHeld(o)
  BY TypeParts DEF IInv, ClientType, ClientRecord
<1>2. /\ me.pc = "spawn" /\ me.from = "again" /\ me.at = Nobody /\ lock = c
      /\ \A d \in Daemons : ~Blameless(d)
  BY <1>1 DEF Spawn, IInv, ClientPointers, LockTells, LockHeld
<1>3. PICK d0 \in Daemons :
        /\ daemon[d0].pc = "unborn" /\ daemon' = [daemon EXCEPT ![d0].pc = "loading"]
        /\ client' = [client EXCEPT ![c].pc = "dial", ![c].from = "poll", ![c].spawned = d0]
  BY DEF Spawn, Become
<1>4. UNCHANGED <<socket, lock, orphans, strays, robbed>> /\ Victims' = Victims
  BY DEF Spawn, histories, Victims
<1>5. /\ daemon'[d0].pc = "loading"
      /\ \A d \in Daemons : d # d0 => daemon'[d] = daemon[d]
      /\ DaemonType'
  <2>1. daemon[d0] \in DaemonRecord
    BY <1>1 DEF DaemonType
  <2>2. [daemon[d0] EXCEPT !.pc = "loading"] \in DaemonRecord
    BY <2>1 DEF DaemonRecord, Phases
  <2> QED BY <1>1, <1>3, <2>1, <2>2 DEF DaemonType, DaemonRecord
<1>6. /\ client'[c].pc = "dial" /\ client'[c].from = "poll" /\ client'[c].at = Nobody
      /\ client'[c].spawned = d0
      /\ \A o \in Clients : o # c => client'[o] = client[o]
      /\ client' \in [Clients -> ClientRecord]
  <2> DEFINE next == [me EXCEPT !.pc = "dial", !.from = "poll", !.spawned = d0]
  <2>1. client' = [client EXCEPT ![c] = next]
    BY <1>1, <1>3
  <2>2. /\ next \in ClientRecord /\ next.pc = "dial" /\ next.from = "poll"
        /\ next.at = Nobody /\ next.spawned = d0
    BY <1>1, <1>2 DEF ClientRecord, Places
  <2> HIDE DEF next
  <2> QED BY <1>1, <2>1, <2>2
<1>7. \A d \in Daemons : Blameless(d)' => d = d0
  BY <1>2, <1>4, <1>5 DEF Blameless, Live, Alive
<1>8. TypeOK' /\ ClientType'
  <2>1. \A o \in Clients : lock' = o <=> LockHeld(o)'
    BY <1>1, <1>2, <1>4, <1>6 DEF LockHeld
  <2>2. ClientType'
    BY <1>6 DEF ClientType, ClientRecord
  <2> QED BY <1>1, <1>4, <1>5, <2>1, <2>2
          DEF TypeOK, DaemonType, DaemonRecord, Phases, LockHeld
<1>9. \A d \in Daemons : Past(d)' <=> Past(d)
  BY <1>3, <1>5 DEF Past, Rising
<1>10. ClientPointers'
  BY <1>6, <1>9 DEF IInv, ClientPointers, Connected
<1>11. RobberyType' /\ PathBound' /\ ServerHasPath'
  BY <1>1, <1>4, <1>5, <1>7, <1>9 DEF RobberyType, PathBound, ServerHasPath
<1>12. SpawnerWaits'
  <2> SUFFICES ASSUME NEW d \in Daemons, daemon'[d].pc \in Rising, d \notin strays'
               PROVE  \E o \in Clients : Awaiting(o)' /\ client'[o].spawned = d
    BY DEF SpawnerWaits
  <2>1. CASE d = d0
    BY <1>6, <2>1 DEF Awaiting
  <2>2. CASE d # d0
    <3>1. PICK o \in Clients : Awaiting(o) /\ client[o].spawned = d
      BY <1>4, <1>5, <2>2 DEF IInv, SpawnerWaits
    <3>2. o # c
      BY <1>2, <3>1 DEF Awaiting
    <3> QED BY <1>6, <3>1, <3>2 DEF Awaiting
  <2> QED BY <2>1, <2>2
<1>13. LockTells'
  <2>1. \A o \in Clients : o # c => ~LockHeld(o)'
    BY <1>1, <1>2, <1>6 DEF LockHeld
  <2> QED BY <1>6, <1>7, <2>1 DEF LockTells, LockHeld, Awaiting
<1>14. OneDaemon' /\ TakenByLeavers'
  BY <1>4, <1>7 DEF IInv, OneDaemon, TakenByLeavers, Blameless, Victims
<1>15. LeftIsLate' /\ NothingLeft'
  BY <1>4, <1>5 DEF IInv, LeftIsLate, NothingLeft
<1> QED BY <1>8, <1>10, <1>11, <1>12, <1>13, <1>14, <1>15 DEF IInv

\* A request of a client, which its daemon may take note of.
LEMMA RequestStep ==
  ASSUME IInv, NEW c \in Clients, Start(c) \/ AskShutdown(c)
  PROVE  IInv'
<1> DEFINE me == client[c]
<1> USE DEF histories, Goto, Leave, Become
<1>1. /\ client \in [Clients -> ClientRecord] /\ me \in ClientRecord
      /\ DaemonType /\ RobberyType /\ PathBound /\ socket \in Daemons \cup {Nobody}
      /\ \A o \in Clients : lock = o <=> LockHeld(o)
  BY TypeParts DEF IInv, ClientType, ClientRecord
<1>2. /\ me.pc \in {"connected", "started"} /\ me.at \in Daemons /\ Past(me.at)
      /\ UNCHANGED <<socket, lock, orphans, strays, robbed>> /\ Victims' = Victims
  BY DEF Start, AskShutdown, IInv, ClientPointers, Connected, Victims
<1>3. PICK next \in ClientRecord :
        /\ client' = [client EXCEPT ![c] = next]
        /\ \/ next.pc \in {"started", "waiting"} /\ next.from = me.from /\ next.at = me.at
                /\ next.spawned = me.spawned
           \/ next.pc = "failed" /\ next.from = "first"
  <2>1. /\ me.session \in Sessions /\ me.from \in {"only", "first", "again", "poll"}
        /\ me.at \in Daemons \cup {Nobody} /\ me.spawned \in Daemons \cup {Nobody}
        /\ me.polls \in Int /\ Polls \in Int
    BY <1>1, LifecycleConstants DEF ClientRecord
  <2>2. /\ [me EXCEPT !.pc = "started"] \in ClientRecord
        /\ [me EXCEPT !.pc = "waiting"] \in ClientRecord
        /\ [me EXCEPT !.pc = "failed", !.from = "first", !.at = Nobody, !.spawned = Nobody,
                      !.polls = Polls] \in ClientRecord
    BY <1>1, <2>1 DEF ClientRecord, Places, Finished
  <2>3. \/ client' = [client EXCEPT ![c] = [me EXCEPT !.pc = "started"]]
        \/ client' = [client EXCEPT ![c] = [me EXCEPT !.pc = "waiting"]]
        \/ client' = [client EXCEPT ![c] = [me EXCEPT !.pc = "failed", !.from = "first",
                        !.at = Nobody, !.spawned = Nobody, !.polls = Polls]]
    BY <1>1 DEF Start, AskShutdown
  <2> QED BY <1>1, <2>2, <2>3 DEF ClientRecord
<1>4. /\ client'[c] = next
      /\ \A o \in Clients : o # c => client'[o] = client[o]
  BY <1>1, <1>3
<1>5. /\ DaemonType' /\ Onwards
      /\ \A d \in Daemons : /\ daemon'[d].up = daemon[d].up
                            /\ daemon'[d].late = daemon[d].late
                            /\ daemon'[d].doomed = daemon[d].doomed
                            /\ daemon'[d].pc \in {daemon[d].pc, "teardown"}
  <2> DEFINE d0 == me.at
  <2>1. daemon[d0] \in DaemonRecord
    BY <1>1, <1>2 DEF DaemonType
  <2>2. /\ [daemon[d0] EXCEPT !.asked = @ \cup {c}] \in DaemonRecord
        /\ [daemon[d0] EXCEPT !.pc = "teardown"] \in DaemonRecord
    BY <2>1 DEF DaemonRecord, Phases
  <2>3. \/ daemon' = daemon
        \/ daemon' = [daemon EXCEPT ![d0] = [daemon[d0] EXCEPT !.asked = @ \cup {c}]]
        \/ daemon' = [daemon EXCEPT ![d0] = [daemon[d0] EXCEPT !.pc = "teardown"]]
             /\ daemon[d0].pc = "serving"
    BY <1>1, <1>2 DEF Start, AskShutdown, DaemonType
  <2>4. CASE daemon' = daemon
    BY <1>1, <2>4 DEF DaemonType, Onwards, Past, Live, Alive
  <2>5. CASE daemon' = [daemon EXCEPT ![d0] = [daemon[d0] EXCEPT !.asked = @ \cup {c}]]
    BY <1>1, <1>2, <2>1, <2>2, <2>5 DEF DaemonType, DaemonRecord, Onwards, Past, Live, Alive
  <2>6. CASE /\ daemon' = [daemon EXCEPT ![d0] = [daemon[d0] EXCEPT !.pc = "teardown"]]
             /\ daemon[d0].pc = "serving"
    <3>1. DaemonType'
      BY <1>1, <1>2, <2>2, <2>6 DEF DaemonType
    <3>2. \A d \in Daemons : d # d0 => daemon'[d] = daemon[d]
      BY <1>1, <2>6 DEF DaemonType
    <3>3. /\ daemon'[d0].pc = "teardown" /\ daemon'[d0].cancelled = daemon[d0].cancelled
          /\ daemon'[d0].up = daemon[d0].up /\ daemon'[d0].late = daemon[d0].late
          /\ daemon'[d0].doomed = daemon[d0].doomed
      BY <1>1, <1>2, <2>1, <2>6 DEF DaemonType, DaemonRecord
    <3> QED BY <2>6, <3>1, <3>2, <3>3 DEF Onwards, Past, Live, Alive, Rising
  <2> QED BY <2>3, <2>4, <2>5, <2>6
<1>6. \A d \in Daemons : Blameless(d)' => Blameless(d)
  BY <1>2, <1>5, BlamelessBefore DEF Onwards
<1>7. TypeOK' /\ ClientType'
  <2>1. \A o \in Clients : lock' = o <=> LockHeld(o)'
    BY <1>1, <1>2, <1>3, <1>4 DEF LockHeld
  <2>2. ClientType'
    BY <1>1, <1>3 DEF ClientType, ClientRecord
  <2> QED BY <1>1, <1>2, <1>5, <2>1, <2>2
          DEF TypeOK, DaemonType, DaemonRecord, Phases, LockHeld
<1>8. ClientPointers'
  BY <1>2, <1>3, <1>4, <1>5 DEF IInv, ClientPointers, Onwards, Connected
<1>9. RobberyType' /\ PathBound' /\ ServerHasPath'
  <2>1. PathMoves(Nobody)
    BY <1>2 DEF PathMoves
  <2> QED BY <1>1, <1>2, <1>5, <2>1, PathKept DEF IInv, RobberyType
<1>10. SpawnerWaits'
  BY <1>2, <1>3, <1>4, <1>5 DEF IInv, SpawnerWaits, Awaiting, Onwards
<1>11. LockTells'
  BY <1>3, <1>4, <1>6 DEF IInv, LockTells, Awaiting
<1>12. OneDaemon' /\ TakenByLeavers'
  BY <1>2, <1>6, OneDaemonKept, TakenKept DEF IInv
<1>13. LeftIsLate' /\ NothingLeft'
  BY <1>2, <1>5 DEF IInv, LeftIsLate, NothingLeft
<1> QED BY <1>7, <1>8, <1>9, <1>10, <1>11, <1>12, <1>13 DEF IInv

-----------------------------------------------------------------------------
(* The theorems *)

LEMMA IInvInit == Init => IInv
<1> SUFFICES ASSUME Init PROVE IInv
  OBVIOUS
<1>1. \A d \in Daemons : daemon[d].pc = "unborn"
  BY DEF Init, Unborn
<1>2. \A c \in Clients : client[c].pc = "off" /\ client[c].from = "first"
  BY DEF Init
<1>3. socket = Nobody /\ robbed = {} /\ strays = {} /\ orphans = {}
  BY DEF Init
<1>4. Nobody \notin Daemons /\ Victims = {}
  BY <1>3, LifecycleConstants DEF Victims
<1>5. TypeOK /\ ClientType /\ ClientPointers /\ RobberyType
  BY TypeInit
<1>6. PathBound /\ ServerHasPath /\ SpawnerWaits /\ LockTells
  BY <1>1, <1>2, <1>3, <1>4
     DEF PathBound, ServerHasPath, SpawnerWaits, LockTells, Rising, Blameless, Live, Alive
<1>7. OneDaemon /\ TakenByLeavers /\ LeftIsLate /\ NothingLeft
  BY <1>1, <1>3 DEF OneDaemon, TakenByLeavers, LeftIsLate, NothingLeft, Live, Alive
<1> QED BY <1>5, <1>6, <1>7 DEF IInv

LEMMA IInvStep == IInv /\ [Next]_vars => IInv'
<1> SUFFICES ASSUME IInv, [Next]_vars PROVE IInv'
  OBVIOUS
<1>1. ASSUME NEW d \in Daemons, DaemonStep(d) PROVE IInv'
  BY <1>1, FateKeeps DEF DaemonStep, Fate
<1>2. ASSUME NEW c \in Clients, ClientStep(c) PROVE IInv'
  BY <1>2, MoveStep, SpawnStep, RequestStep DEF ClientStep, Move
<1>3. ASSUME NEW c \in Clients, Begin(c) \/ AskShutdown(c) \/ Detach(c) PROVE IInv'
  BY <1>3, MoveStep, RequestStep DEF Move
<1>4. ASSUME Failure PROVE IInv'
  BY <1>4, FateKeeps, MoveStep DEF Failure, Fate, Move
<1>5. CASE UNCHANGED vars
  BY <1>5 DEF vars, IInv, TypeOK, ClientType, ClientPointers, RobberyType, PathBound,
       ServerHasPath, SpawnerWaits, LockTells, OneDaemon, TakenByLeavers, LeftIsLate,
       NothingLeft, Past, Blameless, Live, Alive, Victims, Awaiting
<1> QED BY <1>1, <1>2, <1>3, <1>4, <1>5 DEF Next

\* The inductive invariant: what the path, the lock and each client's place say of
\* the daemons that are at work.
THEOREM Invariant == Spec => []IInv
  BY IInvInit, IInvStep, PTL DEF Spec

\* Every process keeps its shape, and the flock is held exactly between AcquireLock
\* and Unlock (EnsureDaemon).
THEOREM TypeCorrect == Spec => []TypeOK
  BY Invariant, PTL DEF IInv

\* Two daemons are at work at one time only if one of them was abandoned by the
\* client that spawned it, or robbed of its socket file (EnsureDaemon, Serve).
THEOREM OneDaemonAtWork == Spec => []OneDaemon
  BY Invariant, PTL DEF IInv

\* As long as no spawner gives up, only a daemon on its way out removes the socket
\* file of one at work (EnsureDaemon step 3, Serve).
THEOREM OnlyLeaversRob == Spec => []TakenByLeavers
  BY Invariant, PTL DEF IInv

\* A daemon that ends by itself leaves no command running that it had launched when
\* its shutdown collected the commands (Serve, shutdown).
THEOREM NothingEarlyLeft == Spec => []NothingLeft
  BY Invariant, PTL DEF IInv
=============================================================================
