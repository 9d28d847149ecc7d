------------------------- MODULE EventMirrorProofs -------------------------
(***************************************************************************)
(* Proofs about the client's mirror, for any keys, clients, sessions and   *)
(* sizes of the channels: a mirror is behind the engine only while the     *)
(* newest change is on its way, or for one of the four reasons for which a *)
(* client cannot learn of it.                                              *)
(***************************************************************************)
EXTENDS EventMirror, FiniteSetTheorems, TLAPS

-----------------------------------------------------------------------------
(* The inductive invariant *)

States      == EnvStates \cup CmdStates
SnapshotMsg == [snapshot : [Keys -> Seen]]
EventMsg    == [event : Event]
Job         == [pc : {"emit", "set"}, ev : Event, to : SUBSET States]
Live        == {"ready", "asking", "reading", "look", "waiting", "woken", "watching", "draining"}
ClientRecord ==
  [session : AllSessions, key : Keys, pc : {"off", "connecting"} \cup Live \cup Finished,
   asked : Nat, trusted : BOOLEAN]

Shape ==
  /\ truth \in [Keys -> Seen] /\ writes \in Nat /\ jobs \subseteq Job
  /\ events \in Seq(Event)
  /\ hubCmds \in Seq([op : {"subscribe", "unsubscribe"}, sub : Clients])
  /\ subscribers \subseteq Clients
  /\ subCh \in [Clients -> Seq(Event)]
  /\ stream \in [Clients -> Seq(SnapshotMsg \cup EventMsg)]
  /\ handler \in [Clients ->
       {"none", "subscribe", "snapshot", "stream", "unsubscribe", "closed"}]
  /\ server \in {"serving", "teardown", "done"}
  /\ client \in [Clients -> ClientRecord]
  /\ unseen \in [Clients -> SUBSET Keys]
  /\ DOMAIN snap = Clients /\ DOMAIN mirror = Clients

\* Each channel holds at most what it has room for, and no job too many runs.
Capacities ==
  /\ IsFiniteSet(jobs) /\ Cardinality(jobs) <= MaxJobs
  /\ Len(events) <= EngineBuffer /\ Len(hubCmds) <= HubBuffer
  /\ \A c \in Clients : /\ Len(subCh[c]) <= SubBuffer /\ Len(stream[c]) <= SocketBuffer
                        /\ inbox[c] \in 0 .. ClientBuffer
  /\ DOMAIN inbox = Clients

\* Where a client is when its handler is somewhere, and what it holds then.
InStep(c) ==
  /\ client[c].pc = "off" <=> handler[c] = "none"
  /\ handler[c] \in {"subscribe", "snapshot"} => client[c].pc = "connecting"
  /\ handler[c] \in {"none", "subscribe"} => snap[c] = NoSnapshot
  /\ handler[c] \in {"none", "subscribe", "snapshot"} => stream[c] = << >>
  /\ handler[c] = "stream" /\ client[c].pc = "connecting" => stream[c] # << >>
  /\ client[c].pc \in Live => mirror[c] \in [Keys -> Seen]
  /\ client[c].pc \notin Live => mirror[c] = NoSnapshot

ClientAndHandler == \A c \in Clients : InStep(c)

\* The snapshot comes first on the stream, and nothing but events after it.
InOrderOn(c) ==
  \A i \in 1 .. Len(stream[c]) :
    IF i = 1 /\ client[c].pc = "connecting" THEN stream[c][i] \in SnapshotMsg
                                            ELSE stream[c][i] \in EventMsg

SnapshotFirst == \A c \in Clients : InOrderOn(c)

\* A snapshot has not read what comes later.
SnapshotsRead ==
  \A c \in Clients : /\ snap[c] \in [DOMAIN snap[c] -> Seen] /\ DOMAIN snap[c] \subseteq Keys
                     /\ \A k \in DOMAIN snap[c] : snap[c][k].at <= truth[k].at

\* The number of a change names its key.
NumbersUnique ==
  /\ \A k \in Keys : truth[k].at <= writes
  /\ \A j \in jobs : /\ j.ev.at <= writes
                     /\ \A k \in Keys : j.ev.at = truth[k].at => j.ev.key = k

\* A client that reads its stream is known to the hub, or will be.
Queued(c) == \E i \in 1 .. Len(hubCmds) : hubCmds[i].op = "subscribe" /\ hubCmds[i].sub = c

OnlyGoneLeave ==
  \A i \in 1 .. Len(hubCmds) :
    hubCmds[i].op = "unsubscribe" => client[hubCmds[i].sub].pc \in Finished

HubKnows ==
  /\ \A c \in Clients : /\ handler[c] \in {"snapshot", "stream"} /\ ~Gone(c)
                             => c \in subscribers \/ Queued(c)
                        /\ handler[c] \in {"unsubscribe", "closed"} => Gone(c)
  /\ OnlyGoneLeave

\* Before its subscription is queued a client gets no event.
Unheard ==
  \A c \in Clients : handler[c] \in {"none", "subscribe"} =>
    c \notin subscribers /\ ~Queued(c) /\ subCh[c] = << >>

\* In a queue of events, or of messages: there is none of k, or the last one of k
\* has number n.
NoneIn(k, q) == \A i \in 1 .. Len(q) : q[i].key # k
EndsIn(k, q, n) ==
  \E i \in 1 .. Len(q) : /\ q[i].key = k /\ q[i].at = n
                         /\ \A j \in 1 .. Len(q) : j > i => q[j].key # k

Of(m, k) == m \in EventMsg /\ m.event.key = k
NoneOf(k, q) == \A i \in 1 .. Len(q) : ~Of(q[i], k)
EndsOf(k, q, n) ==
  \E i \in 1 .. Len(q) : /\ Of(q[i], k) /\ q[i].event.at = n
                         /\ \A j \in 1 .. Len(q) : j > i => ~Of(q[j], k)

\* The last event of k on the way to c is the newest ...
LastIsNewest(c, k) ==
  LET n == truth[k].at
  IN  \/ EndsIn(k, events, n)
      \/ NoneIn(k, events) /\ EndsIn(k, subCh[c], n)
      \/ NoneIn(k, events) /\ NoneIn(k, subCh[c]) /\ EndsOf(k, stream[c], n)

NothingComes(c, k) == NoneIn(k, events) /\ NoneIn(k, subCh[c]) /\ NoneOf(k, stream[c])

\* ... or there is none, and what c has, or will have from its snapshot, is newest.
Held(c) ==
  IF handler[c] = "snapshot" THEN snap[c]
  ELSE IF client[c].pc = "connecting" /\ stream[c] # << >> THEN stream[c][1].snapshot
  ELSE mirror[c]

HoldsNewest(c, k) == k \in DOMAIN Held(c) => Held(c)[k].at = truth[k].at

CatchesUp(c, k) ==
  \/ k \in unseen[c]
  \/ truth[k].at \in Unannounced
  \/ LastIsNewest(c, k)
  \/ NothingComes(c, k) /\ HoldsNewest(c, k)

AllCatchUp == \A c \in Clients, k \in Keys : Gone(c) \/ CatchesUp(c, k)

IInv ==
  /\ Shape /\ Capacities /\ ClientAndHandler /\ SnapshotFirst /\ SnapshotsRead /\ NumbersUnique
  /\ server # "done" => HubKnows /\ Unheard /\ AllCatchUp

-----------------------------------------------------------------------------
(* Queues *)

LEMMA AppendEvent ==
  ASSUME NEW q \in Seq(Event), NEW ev \in Event, NEW k
  PROVE  /\ NoneIn(k, Append(q, ev)) <=> NoneIn(k, q) /\ ev.key # k
         /\ ev.key = k => EndsIn(k, Append(q, ev), ev.at)
         /\ \A n : ev.key # k /\ EndsIn(k, q, n) => EndsIn(k, Append(q, ev), n)
<1> DEFINE r == Append(q, ev)
<1>1. /\ Len(q) \in Nat /\ Len(r) = Len(q) + 1 /\ r[Len(q) + 1] = ev
      /\ \A i \in 1 .. Len(q) : r[i] = q[i]
  OBVIOUS
<1> HIDE DEF r
<1>2. NoneIn(k, r) <=> NoneIn(k, q) /\ ev.key # k
  BY <1>1 DEF NoneIn
<1>3. ev.key = k => EndsIn(k, r, ev.at)
  BY <1>1 DEF EndsIn
<1>4. ASSUME NEW n, ev.key # k, EndsIn(k, q, n) PROVE EndsIn(k, r, n)
  <2>1. PICK i \in 1 .. Len(q) : /\ q[i].key = k /\ q[i].at = n
                                 /\ \A j \in 1 .. Len(q) : j > i => q[j].key # k
    BY <1>4 DEF EndsIn
  <2> QED BY <1>1, <1>4, <2>1 DEF EndsIn
<1> QED BY <1>2, <1>3, <1>4 DEF r

LEMMA TailOfEvents ==
  ASSUME NEW q \in Seq(Event), q # << >>, NEW k
  PROVE  /\ NoneIn(k, q) => NoneIn(k, Tail(q)) /\ Head(q).key # k
         /\ \A n : EndsIn(k, q, n) =>
              \/ EndsIn(k, Tail(q), n)
              \/ NoneIn(k, Tail(q)) /\ Head(q).key = k /\ Head(q).at = n
<1> DEFINE r == Tail(q)
<1>1. /\ Len(q) \in Nat \ {0} /\ Len(r) = Len(q) - 1 /\ Head(q) = q[1]
      /\ \A i \in 1 .. Len(r) : r[i] = q[i + 1]
  OBVIOUS
<1> HIDE DEF r
<1>2. NoneIn(k, q) => NoneIn(k, r) /\ Head(q).key # k
  BY <1>1 DEF NoneIn
<1>3. ASSUME NEW n, EndsIn(k, q, n)
      PROVE  EndsIn(k, r, n) \/ (NoneIn(k, r) /\ Head(q).key = k /\ Head(q).at = n)
  <2>1. PICK i \in 1 .. Len(q) : /\ q[i].key = k /\ q[i].at = n
                                 /\ \A j \in 1 .. Len(q) : j > i => q[j].key # k
    BY <1>3 DEF EndsIn
  <2>2. CASE i = 1
    BY <1>1, <2>1, <2>2 DEF NoneIn
  <2>3. CASE i # 1
    <3>1. i - 1 \in 1 .. Len(r) /\ r[i - 1] = q[i]
      BY <1>1, <2>3
    <3>2. \A j \in 1 .. Len(r) : j > i - 1 => r[j].key # k
      BY <1>1, <2>1
    <3> QED BY <2>1, <3>1, <3>2 DEF EndsIn
  <2> QED BY <2>2, <2>3
<1> QED BY <1>2, <1>3 DEF r

Message == SnapshotMsg \cup EventMsg

LEMMA Messages ==
  /\ \A m \in SnapshotMsg : m \notin EventMsg /\ m.snapshot \in [Keys -> Seen]
  /\ \A m \in EventMsg : m.event \in Event
<1>1. \A m \in SnapshotMsg : DOMAIN m = {"snapshot"} /\ m.snapshot \in [Keys -> Seen]
  BY DEF SnapshotMsg
<1>2. \A m \in EventMsg : DOMAIN m = {"event"} /\ m.event \in Event
  BY DEF EventMsg
<1> QED BY <1>1, <1>2

LEMMA AppendMessage ==
  ASSUME NEW q \in Seq(Message), NEW m \in Message, NEW k
  PROVE  /\ NoneOf(k, Append(q, m)) <=> NoneOf(k, q) /\ ~Of(m, k)
         /\ Of(m, k) => EndsOf(k, Append(q, m), m.event.at)
         /\ \A n : ~Of(m, k) /\ EndsOf(k, q, n) => EndsOf(k, Append(q, m), n)
<1> DEFINE r == Append(q, m)
<1>1. /\ Len(q) \in Nat /\ Len(r) = Len(q) + 1 /\ r[Len(q) + 1] = m
      /\ \A i \in 1 .. Len(q) : r[i] = q[i]
  OBVIOUS
<1> HIDE DEF r
<1>2. NoneOf(k, r) <=> NoneOf(k, q) /\ ~Of(m, k)
  BY <1>1 DEF NoneOf
<1>3. Of(m, k) => EndsOf(k, r, m.event.at)
  BY <1>1 DEF EndsOf
<1>4. ASSUME NEW n, ~Of(m, k), EndsOf(k, q, n) PROVE EndsOf(k, r, n)
  <2>1. PICK i \in 1 .. Len(q) : /\ Of(q[i], k) /\ q[i].event.at = n
                                 /\ \A j \in 1 .. Len(q) : j > i => ~Of(q[j], k)
    BY <1>4 DEF EndsOf
  <2>2. i \in 1 .. Len(r) /\ r[i] = q[i]
    BY <1>1
  <2>3. \A j \in 1 .. Len(r) : j > i => ~Of(r[j], k)
    BY <1>1, <1>4, <2>1
  <2> QED BY <2>1, <2>2, <2>3 DEF EndsOf
<1> QED BY <1>2, <1>3, <1>4 DEF r

LEMMA TailOfMessages ==
  ASSUME NEW q \in Seq(Message), q # << >>, NEW k
  PROVE  /\ NoneOf(k, q) => NoneOf(k, Tail(q)) /\ ~Of(Head(q), k)
         /\ \A n : EndsOf(k, q, n) =>
              \/ EndsOf(k, Tail(q), n)
              \/ NoneOf(k, Tail(q)) /\ Of(Head(q), k) /\ Head(q).event.at = n
<1> DEFINE r == Tail(q)
<1>1. /\ Len(q) \in Nat \ {0} /\ Len(r) = Len(q) - 1 /\ Head(q) = q[1]
      /\ \A i \in 1 .. Len(r) : r[i] = q[i + 1]
  OBVIOUS
<1> HIDE DEF r
<1>2. NoneOf(k, q) => NoneOf(k, r) /\ ~Of(Head(q), k)
  BY <1>1 DEF NoneOf
<1>3. ASSUME NEW n, EndsOf(k, q, n)
      PROVE  EndsOf(k, r, n) \/ (NoneOf(k, r) /\ Of(Head(q), k) /\ Head(q).event.at = n)
  <2>1. PICK i \in 1 .. Len(q) : /\ Of(q[i], k) /\ q[i].event.at = n
                                 /\ \A j \in 1 .. Len(q) : j > i => ~Of(q[j], k)
    BY <1>3 DEF EndsOf
  <2>2. CASE i = 1
    BY <1>1, <2>1, <2>2 DEF NoneOf
  <2>3. CASE i # 1
    <3>1. i - 1 \in 1 .. Len(r) /\ r[i - 1] = q[i]
      BY <1>1, <2>3
    <3>2. \A j \in 1 .. Len(r) : j > i - 1 => ~Of(r[j], k)
      BY <1>1, <2>1
    <3> QED BY <2>1, <3>1, <3>2 DEF EndsOf
  <2> QED BY <2>2, <2>3
<1> QED BY <1>2, <1>3 DEF r

-----------------------------------------------------------------------------
(* Kinds of steps *)

\* A client that is alive goes on, alive.
PcsKept ==
  /\ client' \in [Clients -> ClientRecord]
  /\ \A c \in Clients : client'[c].pc = client[c].pc \/ {client[c].pc, client'[c].pc} \subseteq Live

\* Only a client that is alive gives up the snapshot it asked for.
SnapsDropped ==
  /\ DOMAIN snap' = Clients
  /\ \A c \in Clients : snap'[c] = snap[c] \/ (snap'[c] = NoSnapshot /\ client[c].pc \in Live)

InboxFits == DOMAIN inbox = Clients /\ \A c \in Clients : inbox[c] \in 0 .. ClientBuffer

ClientMoves ==
  /\ PcsKept /\ SnapsDropped /\ InboxFits'
  /\ UNCHANGED <<engineVars, events, hubVars, stream, handler, mirror, unseen>>
  /\ server' = server \/ (server = "serving" /\ server' = "teardown")

Leaves(c) ==
  /\ SnapsDropped
  /\ \/ client[c].pc \in Live
     \/ client[c].pc = "connecting" /\ handler[c] \in {"unsubscribe", "closed"}
  /\ \E how \in Finished : Exit(c, how)
  /\ UNCHANGED <<engineVars, events, hubVars, handler, server, unseen>>

\* A state is changed by a job that had announced its last change, by a new one, or
\* for a client that asked for it.
Changes(k, s, to, old) ==
  /\ Change(k, s) /\ jobs' = (jobs \ old) \cup {NewJob(k, s, to)}
  /\ old \subseteq jobs /\ (\A j \in old : j.pc = "set")
  /\ IsFiniteSet(jobs \ old) /\ Cardinality(jobs \ old) < MaxJobs
  /\ PcsKept /\ InboxFits'
  /\ UNCHANGED <<events, hubVars, stream, handler, snap, server, mirror>>

ChangeStep == \E k \in Keys, s \in States, to \in SUBSET States, old \in SUBSET jobs :
                Changes(k, s, to, old)

ServerMoves(c) ==
  \/ QueueSubscription(c) \/ ReadKey(c) \/ SendSnapshot(c) \/ StreamEvent(c) \/ Unsubscribe(c)
  \/ EndStream(c)

Kinds ==
  \/ ChangeStep \/ ClientMoves
  \/ \E j \in jobs : JobEmits(j)
  \/ \E c \in Clients : \/ Connect(c) \/ ServerMoves(c) \/ SeedMirror(c) \/ UpdateMirror(c)
                        \/ ReseedMirror(c) \/ Leaves(c)
  \/ HubTakesCommand \/ HubTakesEvent \/ ShutdownByAnother \/ ShutdownEnds

-----------------------------------------------------------------------------
LEMMA Facts ==
  ASSUME IInv
  PROVE  /\ Shape /\ InboxFits /\ client \in [Clients -> ClientRecord]
         /\ \A c \in Clients : client[c] \in ClientRecord
BY DEF IInv, Shape, Capacities, InboxFits

LEMMA NoClientShape ==
  ASSUME NEW pc \in {"off", "connecting"} \cup Live \cup Finished
  PROVE  [NoClient EXCEPT !.pc = pc] \in ClientRecord
<1>1. (CHOOSE e \in Envs : TRUE) \in Keys
  BY MirrorConstants DEF Keys
<1> QED BY <1>1 DEF NoClient, ClientRecord, AllSessions, Live, Finished

LEMMA Concludes ==
  ASSUME NEW c, NEW first, NEW last
  PROVE  Conclusion(c, first, last) \in {"none"} \cup Finished
BY DEF Conclusion, RunConclusion, StopConclusion, RestartConclusion, Finished

\* What a client changes in its own record.
LEMMA ClientKept ==
  ASSUME IInv, NEW c \in Clients, NEW r \in ClientRecord, client' = [client EXCEPT ![c] = r],
         r.pc = client[c].pc \/ {client[c].pc, r.pc} \subseteq Live
  PROVE  PcsKept
BY Facts DEF PcsKept

LEMMA ClientRecords ==
  ASSUME IInv, NEW c \in Clients
  PROVE  /\ client[c].session \in AllSessions /\ client[c].key \in Keys
         /\ \A pc \in Live : /\ [client[c] EXCEPT !.pc = pc] \in ClientRecord
                             /\ [client[c] EXCEPT !.pc = pc].pc = pc
BY Facts DEF ClientRecord

LEMMA GotoKept ==
  ASSUME IInv, NEW c \in Clients, NEW pc \in Live, client[c].pc \in Live, Goto(c, pc)
  PROVE  PcsKept
<1>1. client' = [client EXCEPT ![c] = [client[c] EXCEPT !.pc = pc]]
  BY Facts DEF Goto
<1> QED BY <1>1, ClientRecords, ClientKept

LEMMA InboxKept ==
  ASSUME IInv, NEW c \in Clients, NEW n \in 0 .. ClientBuffer, inbox' = [inbox EXCEPT ![c] = n]
  PROVE  InboxFits'
BY Facts DEF InboxFits

\* Steps of a client that change nothing which an event passes.
LEMMA MoveKinds ==
  ASSUME IInv, NEW c \in Clients,
         \/ ForwardEvent(c) \/ StreamEnds(c) \/ Answered(c) \/ RequestShutdown(c)
         \/ RequestReload(c) \/ RpcFails(c) \/ FirstLook(c) \/ LaterLook(c) \/ TakeEvent(c)
         \/ SeeClosed(c) \/ GraceEnds(c) \/ GiveUp(c)
  PROVE  ClientMoves \/ Leaves(c)
<1>1. /\ client \in [Clients -> ClientRecord] /\ client[c] \in ClientRecord /\ InboxFits
      /\ inbox[c] \in 0 .. ClientBuffer /\ ClientBuffer \in Nat \ {0}
      /\ DOMAIN snap = Clients
      /\ UNCHANGED snap => SnapsDropped
  BY Facts, MirrorConstants DEF Shape, InboxFits, SnapsDropped
<1>2. UNCHANGED client => PcsKept
  BY <1>1 DEF PcsKept
<1>3. ASSUME NEW how \in Finished, Exit(c, how), UNCHANGED snap, client[c].pc \in Live,
             UNCHANGED <<engineVars, events, hubVars, handler, server, unseen>>
      PROVE  Leaves(c)
  BY <1>1, <1>3 DEF Leaves
<1>4. CASE ForwardEvent(c)
  <2>1. (IF HasRoom(c) THEN inbox[c] + 1 ELSE inbox[c]) \in 0 .. ClientBuffer
    BY <1>1 DEF HasRoom
  <2>2. inbox' = [inbox EXCEPT ![c] = IF HasRoom(c) THEN inbox[c] + 1 ELSE inbox[c]]
    BY <1>1, <1>4 DEF ForwardEvent
  <2> QED BY <1>1, <1>2, <1>4, <2>1, <2>2, InboxKept DEF ForwardEvent, ClientMoves
<1>5. CASE StreamEnds(c)
  <2>1. CASE client[c].pc = "connecting" /\ Exit(c, "failed")
    BY <1>1, <1>5, <2>1 DEF StreamEnds, Leaves, Finished
  <2>2. CASE UNCHANGED <<client, mirror, forwarding, inbox, stream>>
    BY <1>1, <1>2, <1>5, <2>2 DEF StreamEnds, ClientMoves, InboxFits
  <2> QED BY <1>5, <2>1, <2>2 DEF StreamEnds
<1>6. CASE Answered(c)
  <2> DEFINE next == IF client[c].session = "stop" THEN "waiting" ELSE "look"
             r == [client[c] EXCEPT !.asked = 0, !.pc = next]
  <2>1. client' = [client EXCEPT ![c] = r]
    BY <1>1, <1>6 DEF Answered
  <2>2. r \in ClientRecord /\ r.pc \in Live /\ client[c].pc \in Live
    BY <1>1, <1>6 DEF Answered, ClientRecord, Live
  <2> HIDE DEF r
  <2>3. PcsKept
    BY <2>1, <2>2, ClientKept
  <2> QED BY <1>1, <1>6, <2>3 DEF Answered, ClientMoves, InboxFits
<1>7. CASE RequestShutdown(c)
  <2>1. PcsKept
    BY <1>7, GotoKept DEF RequestShutdown, Live
  <2> QED BY <1>1, <1>7, <2>1 DEF RequestShutdown, ClientMoves, InboxFits
<1>8. CASE RequestReload(c)
  <2>1. PcsKept
    BY <1>8, GotoKept DEF RequestReload, Live
  <2> QED BY <1>1, <1>8, <2>1 DEF RequestReload, ClientMoves, InboxFits
<1>9. CASE RpcFails(c)
  <2>1. SnapsDropped /\ client[c].pc \in Live
    BY <1>1, <1>9 DEF RpcFails, SnapsDropped, Live
  <2>2. CASE Exit(c, "failed")
    BY <1>9, <2>1, <2>2 DEF RpcFails, Leaves, Finished
  <2>3. CASE Goto(c, "draining") /\ UNCHANGED <<mirror, forwarding, inbox, closed, stream>>
    <3>1. PcsKept
      BY <2>1, <2>3, GotoKept DEF Live
    <3> QED BY <1>1, <1>9, <2>1, <2>3, <3>1 DEF RpcFails, ClientMoves, InboxFits
  <2> QED BY <1>9, <2>2, <2>3 DEF RpcFails
<1>10. ASSUME NEW first \in BOOLEAN, client[c].pc \in {"look", "woken"}, Look(c, first)
       PROVE  ClientMoves \/ Leaves(c)
  <2>1. CASE Conclusion(c, first, FALSE) = "none"
    <3> DEFINE seen == client[c].session = "restart" /\ MirrorState(c, client[c].key) = "restarting"
               r == [client[c] EXCEPT !.pc = "waiting", !.trusted = @ \/ seen]
    <3>1. client' = [client EXCEPT ![c] = r]
      BY <1>1, <1>10, <2>1 DEF Look
    <3>2. r \in ClientRecord /\ r.pc \in Live /\ client[c].pc \in Live
      BY <1>1, <1>10 DEF ClientRecord, Live
    <3> HIDE DEF r
    <3>3. PcsKept
      BY <3>1, <3>2, ClientKept
    <3> QED BY <1>1, <1>10, <2>1, <3>3 DEF Look, ClientMoves, InboxFits
  <2>2. CASE Conclusion(c, first, FALSE) # "none"
    <3>1. PICK how : how = Conclusion(c, first, FALSE)
      OBVIOUS
    <3>2. how \in Finished /\ Exit(c, how)
      BY <1>10, <2>2, <3>1, Concludes DEF Look
    <3> QED BY <1>3, <1>10, <3>2 DEF Look, Live
  <2> QED BY <2>1, <2>2
<1>11. CASE TakeEvent(c)
  <2>1. inbox[c] - 1 \in 0 .. ClientBuffer /\ inbox' = [inbox EXCEPT ![c] = inbox[c] - 1]
    BY <1>1, <1>11 DEF TakeEvent
  <2>2. PICK pc \in Live : client' = [client EXCEPT ![c] = [client[c] EXCEPT !.pc = pc]]
    BY <1>1, <1>11 DEF TakeEvent, Live
  <2>3. PcsKept
    <3>1. PICK r : r = [client[c] EXCEPT !.pc = pc]
      OBVIOUS
    <3>2. r \in ClientRecord /\ r.pc \in Live /\ client[c].pc \in Live
      BY <1>1, <1>11, <3>1 DEF TakeEvent, ClientRecord, Live
    <3> QED BY <2>2, <3>1, <3>2, ClientKept
  <2> QED BY <1>1, <1>11, <2>1, <2>3, InboxKept DEF TakeEvent, ClientMoves
<1>12. CASE SeeClosed(c)
  <2>1. PICK how : how = IF client[c].pc # "waiting" THEN "ok"
                         ELSE IF Conclusion(c, FALSE, TRUE) = "none" THEN "failed"
                         ELSE Conclusion(c, FALSE, TRUE)
    OBVIOUS
  <2>2. how \in Finished /\ Exit(c, how)
    BY <1>12, <2>1, Concludes DEF SeeClosed, Finished
  <2> QED BY <1>3, <1>12, <2>2 DEF SeeClosed, Live
<1>13. CASE GraceEnds(c)
  <2> DEFINE r == [client[c] EXCEPT !.trusted = TRUE, !.pc = "woken"]
  <2>1. client' = [client EXCEPT ![c] = r]
    BY <1>1, <1>13 DEF GraceEnds
  <2>2. r \in ClientRecord /\ r.pc \in Live /\ client[c].pc \in Live
    BY <1>1, <1>13 DEF GraceEnds, ClientRecord, Live
  <2> HIDE DEF r
  <2>3. PcsKept
    BY <2>1, <2>2, ClientKept
  <2> QED BY <1>1, <1>13, <2>3 DEF GraceEnds, ClientMoves, InboxFits
<1>14. CASE GiveUp(c)
  BY <1>3, <1>14 DEF GiveUp, Live, Finished
<1> QED BY <1>4, <1>5, <1>6, <1>7, <1>8, <1>9, <1>10, <1>11, <1>12, <1>13, <1>14
        DEF FirstLook, LaterLook

LEMMA JobStates == ASSUME NEW s PROVE First(s) \in States /\ Outcomes(s) \in SUBSET States
BY DEF First, Outcomes, States, EnvStates, CmdStates

\* Steps of the engine, and of a client that asks it for something.
LEMMA ChangeKinds ==
  ASSUME IInv,
         \/ \E j \in jobs : JobChanges(j)
         \/ EngineActs
         \/ \E c \in Clients : Request(c)
  PROVE  ChangeStep
<1>1. /\ client \in [Clients -> ClientRecord] /\ InboxFits /\ jobs \subseteq Job
      /\ IsFiniteSet(jobs) /\ Cardinality(jobs) <= MaxJobs /\ MaxJobs \in Nat
      /\ Cardinality(jobs) \in Nat
  BY Facts, MirrorConstants, FS_CardinalityType DEF IInv, Shape, Capacities
<1>2. UNCHANGED client => PcsKept
  BY <1>1 DEF PcsKept
<1>3. UNCHANGED inbox => InboxFits'
  BY <1>1 DEF InboxFits
<1>4. ASSUME NEW j \in jobs, JobChanges(j) PROVE ChangeStep
  <2>1. PICK s \in j.to : /\ Change(j.ev.key, s)
                          /\ jobs' = (jobs \ {j}) \cup {NewJob(j.ev.key, s, {})}
    BY <1>4 DEF JobChanges
  <2>2. j.ev.key \in Keys /\ s \in States /\ {} \in SUBSET States
    BY <1>1 DEF Job, Event
  <2>3. IsFiniteSet(jobs \ {j}) /\ Cardinality(jobs \ {j}) < MaxJobs
    BY <1>1, FS_RemoveElement
  <2>4. Changes(j.ev.key, s, {}, {j})
    BY <1>2, <1>3, <1>4, <2>1, <2>3 DEF JobChanges, Changes, clientVars
  <2> QED BY <2>2, <2>4 DEF ChangeStep
<1>5. ASSUME NEW k \in Keys, NEW s \in States, NEW to \in SUBSET States,
             Change(k, s), jobs' = jobs \cup {NewJob(k, s, to)}, Cardinality(jobs) < MaxJobs,
             PcsKept, UNCHANGED <<events, hubVars, stream, handler, snap, server, mirror, inbox>>
      PROVE  ChangeStep
  <2>1. jobs \ {} = jobs
    OBVIOUS
  <2>2. Changes(k, s, to, {})
    BY <1>1, <1>3, <1>5, <2>1 DEF Changes
  <2> QED BY <2>2 DEF ChangeStep
<1>6. CASE EngineActs
  <2>1. PICK k \in Keys, s \in {"running", "error", "restarting"} :
          /\ Change(k, s)
          /\ jobs' = jobs \cup
               {NewJob(k, s, IF s = "restarting" THEN {"healthy", "error"} ELSE {})}
    BY <1>6 DEF EngineActs
  <2>2. s \in States /\ (IF s = "restarting" THEN {"healthy", "error"} ELSE {}) \in SUBSET States
    BY DEF States, EnvStates, CmdStates
  <2> QED BY <1>2, <1>5, <1>6, <2>1, <2>2 DEF EngineActs, clientVars
<1>7. ASSUME NEW c \in Clients, Request(c) PROVE ChangeStep
  <2> DEFINE r == [client[c] EXCEPT !.pc = "asking", !.asked = writes + 1]
  <2>1. client' = [client EXCEPT ![c] = r]
    BY <1>1, <1>7 DEF Request
  <2>2. r \in ClientRecord /\ r.pc \in Live /\ client[c].pc \in Live
    <3>1. client[c] \in ClientRecord /\ writes + 1 \in Nat
      BY Facts DEF Shape
    <3> QED BY <1>7, <3>1 DEF Request, ClientRecord, Live
  <2> HIDE DEF r
  <2>3. PcsKept
    BY <2>1, <2>2, ClientKept
  <2> QED BY <1>5, <1>7, <2>3, JobStates, ClientRecords DEF Request
<1> QED BY <1>4, <1>6, <1>7

LEMMA StepKinds == IInv /\ [Next]_vars => Kinds \/ UNCHANGED vars
<1> SUFFICES ASSUME IInv, Next PROVE Kinds
  OBVIOUS
<1>1. ASSUME NEW c \in Clients, ClientStep(c) \/ GiveUp(c) PROVE Kinds
  BY <1>1, MoveKinds, ChangeKinds DEF ClientStep, Kinds
<1>2. ASSUME NEW c \in Clients, Connect(c) \/ ServerStep(c) PROVE Kinds
  BY <1>2 DEF ServerStep, ServerMoves, Kinds
<1>3. CASE JobStep \/ EngineActs
  BY <1>3, ChangeKinds DEF JobStep, Kinds
<1> QED BY <1>1, <1>2, <1>3 DEF Next, Kinds

-----------------------------------------------------------------------------
(* Shape *)

LEMMA Changed ==
  ASSUME IInv, NEW k \in Keys, NEW s \in States, NEW to \in SUBSET States,
         NEW old \in SUBSET jobs, Changes(k, s, to, old)
  PROVE  /\ writes' = writes + 1 /\ writes' \in Nat
         /\ truth' \in [Keys -> Seen] /\ truth'[k].at = writes + 1
         /\ \A x \in Keys \ {k} : truth'[x] = truth[x]
         /\ NewJob(k, s, to) \in Job /\ jobs' \subseteq Job
         /\ NewJob(k, s, to).pc = "emit" /\ NewJob(k, s, to).ev.key = k
         /\ NewJob(k, s, to).ev.at = writes + 1
         /\ unseen' \in [Clients -> SUBSET Keys]
         /\ \A c \in Clients : unseen'[c] = unseen[c] \ {k}
<1>1. /\ writes \in Nat /\ truth \in [Keys -> Seen] /\ jobs \subseteq Job
      /\ unseen \in [Clients -> SUBSET Keys]
  BY Facts DEF Shape
<1>2. /\ writes' = writes + 1
      /\ truth' = [truth EXCEPT ![k] = [state |-> s, at |-> writes + 1]]
      /\ unseen' = [c \in Clients |-> unseen[c] \ {k}]
  BY DEF Changes, Change
<1>3. [state |-> s, at |-> writes + 1] \in Seen
  BY <1>1 DEF Seen, States
<1>4. /\ NewJob(k, s, to) \in Job
      /\ NewJob(k, s, to).pc = "emit" /\ NewJob(k, s, to).ev.key = k
      /\ NewJob(k, s, to).ev.at = writes + 1
  BY <1>1 DEF NewJob, Job, Event, States
<1>5. jobs' \subseteq Job
  BY <1>1, <1>4 DEF Changes
<1>6. unseen' \in [Clients -> SUBSET Keys] /\ \A c \in Clients : unseen'[c] = unseen[c] \ {k}
  BY <1>1, <1>2
<1> QED BY <1>1, <1>2, <1>3, <1>4, <1>5, <1>6

LEMMA Hides ==
  ASSUME IInv, NEW ev \in Event, NEW cs
  PROVE  /\ Hide(cs, ev) \in [Clients -> SUBSET Keys]
         /\ \A c \in Clients : unseen[c] \subseteq Hide(cs, ev)[c]
         /\ \A c \in Clients : c \in cs => ev.key \in Hide(cs, ev)[c]
BY Facts DEF Hide, Event, Shape

\* The channels by themselves.
LEMMA Queues ==
  ASSUME IInv
  PROVE  /\ \A c \in Clients : /\ subCh[c] \in Seq(Event) /\ stream[c] \in Seq(Message)
                               /\ Len(subCh[c]) \in Nat /\ Len(stream[c]) \in Nat
         /\ events \in Seq(Event) /\ Len(events) \in Nat /\ Len(hubCmds) \in Nat
         /\ events # << >> => /\ Head(events) \in Event /\ Tail(events) \in Seq(Event)
                              /\ Len(Tail(events)) = Len(events) - 1
         /\ \A c \in Clients :
              /\ subCh[c] # << >> =>
                   /\ Head(subCh[c]) \in Event /\ Tail(subCh[c]) \in Seq(Event)
                   /\ Len(Tail(subCh[c])) = Len(subCh[c]) - 1
              /\ stream[c] # << >> =>
                   /\ Head(stream[c]) \in Message /\ Head(stream[c]) = stream[c][1]
                   /\ Tail(stream[c]) \in Seq(Message)
                   /\ Len(Tail(stream[c])) = Len(stream[c]) - 1
                   /\ \A i \in 1 .. Len(Tail(stream[c])) : Tail(stream[c])[i] = stream[c][i + 1]
<1>1. /\ events \in Seq(Event)
      /\ \A c \in Clients : subCh[c] \in Seq(Event) /\ stream[c] \in Seq(Message)
  BY Facts DEF Shape, Message
<1>2. \A q \in Seq(Event) :
        /\ Len(q) \in Nat
        /\ q # << >> => Head(q) \in Event /\ Tail(q) \in Seq(Event) /\ Len(Tail(q)) = Len(q) - 1
  OBVIOUS
<1>3. \A q \in Seq(Message) :
        /\ Len(q) \in Nat
        /\ q # << >> => /\ Head(q) \in Message /\ Head(q) = q[1] /\ Tail(q) \in Seq(Message)
                        /\ Len(Tail(q)) = Len(q) - 1
                        /\ \A i \in 1 .. Len(Tail(q)) : Tail(q)[i] = q[i + 1]
  OBVIOUS
<1>4. Len(hubCmds) \in Nat
  BY Facts DEF Shape
<1> QED BY <1>1, <1>2, <1>3, <1>4

LEMMA ShapeStep == IInv /\ Kinds => Shape'
<1> SUFFICES ASSUME IInv, Kinds PROVE Shape'
  OBVIOUS
<1>1. Shape
  BY Facts
<1>2. ASSUME ChangeStep PROVE Shape'
  <2>1. PICK k \in Keys, s \in States, to \in SUBSET States, old \in SUBSET jobs :
          Changes(k, s, to, old)
    BY <1>2 DEF ChangeStep
  <2>2. /\ writes' \in Nat /\ truth' \in [Keys -> Seen] /\ jobs' \subseteq Job
        /\ unseen' \in [Clients -> SUBSET Keys]
    BY <2>1, Changed
  <2> QED BY <1>1, <2>1, <2>2 DEF Changes, PcsKept, hubVars, Shape
<1>3. ASSUME ClientMoves PROVE Shape'
  BY <1>1, <1>3 DEF ClientMoves, PcsKept, SnapsDropped, engineVars, hubVars, Shape
<1>4. ASSUME NEW j \in jobs, JobEmits(j) PROVE Shape'
  <2>1. j \in Job /\ j.ev \in Event
    BY <1>1 DEF Shape, Job
  <2>2. jobs' \subseteq Job
    <3>1. [j EXCEPT !.pc = "set"] \in Job
      BY <2>1 DEF Job
    <3> QED BY <1>1, <1>4, <3>1 DEF JobEmits, Shape
  <2>3. events' \in Seq(Event) /\ unseen' \in [Clients -> SUBSET Keys]
    BY <1>1, <1>4, <2>1, Hides DEF JobEmits, Emit, Shape
  <2> QED BY <1>1, <1>4, <2>2, <2>3 DEF JobEmits, hubVars, clientVars, Shape
<1>5. ASSUME NEW c \in Clients, Connect(c) PROVE Shape'
  <2>1. client' \in [Clients -> ClientRecord]
    <3>1. PICK s \in Sessions, k \in Keys :
            client' = [client EXCEPT ![c].session = s, ![c].key = k, ![c].pc = "connecting"]
      BY <1>5 DEF Connect
    <3>2. [client[c] EXCEPT !.session = s, !.key = k, !.pc = "connecting"] \in ClientRecord
      BY Facts, MirrorConstants DEF ClientRecord
    <3>3. client' = [client EXCEPT ![c] =
                       [client[c] EXCEPT !.session = s, !.key = k, !.pc = "connecting"]]
      BY <3>1, Facts
    <3> QED BY <3>2, <3>3, Facts
  <2> QED BY <1>1, <1>5, <2>1 DEF Connect, engineVars, hubVars, Shape
<1>6. ASSUME NEW c \in Clients, ServerMoves(c) PROVE Shape'
  <2>1. CASE QueueSubscription(c) \/ Unsubscribe(c) \/ EndStream(c)
    <3>1. hubCmds' \in Seq([op : {"subscribe", "unsubscribe"}, sub : Clients])
      <4> DEFINE Cmd == [op : {"subscribe", "unsubscribe"}, sub : Clients]
      <4>1. /\ [op |-> "subscribe", sub |-> c] \in Cmd /\ [op |-> "unsubscribe", sub |-> c] \in Cmd
            /\ hubCmds \in Seq(Cmd)
        BY <1>1 DEF Shape
      <4>2. hubCmds' = hubCmds \/ \E cmd \in Cmd : hubCmds' = Append(hubCmds, cmd)
        BY <2>1, <4>1 DEF QueueSubscription, Unsubscribe, EndStream, hubVars
      <4> HIDE DEF Cmd
      <4>3. hubCmds' \in Seq(Cmd)
        BY <4>1, <4>2
      <4> QED BY <4>3 DEF Cmd
    <3>2. handler' \in [Clients ->
            {"none", "subscribe", "snapshot", "stream", "unsubscribe", "closed"}]
      BY <1>1, <2>1 DEF QueueSubscription, Unsubscribe, EndStream, Shape
    <3>3. UNCHANGED <<engineVars, events, subscribers, subCh, stream, snap, server, clientVars,
                      unseen>>
      BY <2>1 DEF QueueSubscription, Unsubscribe, EndStream, hubVars
    <3> QED BY <1>1, <3>1, <3>2, <3>3 DEF engineVars, clientVars, Shape
  <2>2. CASE ReadKey(c)
    BY <1>1, <2>2 DEF ReadKey, engineVars, hubVars, clientVars, Shape
  <2>3. CASE SendSnapshot(c)
    <3>1. snap[c] \in [Keys -> Seen]
      BY <2>3 DEF SendSnapshot, Complete, IInv, SnapshotsRead
    <3>2. [snapshot |-> snap[c]] \in SnapshotMsg
      BY <3>1 DEF SnapshotMsg
    <3>3. stream' \in [Clients -> Seq(SnapshotMsg \cup EventMsg)]
      BY <1>1, <2>3, <3>2 DEF SendSnapshot, Shape
    <3> QED BY <1>1, <2>3, <3>3 DEF SendSnapshot, engineVars, hubVars, clientVars, Shape
  <2>4. CASE StreamEvent(c)
    <3>1. Head(subCh[c]) \in Event /\ Tail(subCh[c]) \in Seq(Event)
      BY <2>4, Queues DEF StreamEvent
    <3>2. [event |-> Head(subCh[c])] \in EventMsg
      BY <3>1 DEF EventMsg
    <3>3. stream' \in [Clients -> Seq(SnapshotMsg \cup EventMsg)]
      <4>1. stream[c] \in Seq(Message) /\ [event |-> Head(subCh[c])] \in Message
        BY <3>2, Queues DEF Message
      <4>2. Append(stream[c], [event |-> Head(subCh[c])]) \in Seq(SnapshotMsg \cup EventMsg)
        BY <4>1 DEF Message
      <4>3. \/ stream' = stream
            \/ stream' = [stream EXCEPT ![c] = Append(stream[c], [event |-> Head(subCh[c])])]
        BY <1>1, <2>4 DEF StreamEvent, Shape
      <4> QED BY <1>1, <4>2, <4>3 DEF Shape
    <3>4. subCh' \in [Clients -> Seq(Event)]
      BY <1>1, <2>4, <3>1 DEF StreamEvent, Shape
    <3> QED BY <1>1, <2>4, <3>3, <3>4 DEF StreamEvent, engineVars, clientVars, Shape
  <2> QED BY <1>6, <2>1, <2>2, <2>3, <2>4 DEF ServerMoves
<1>7. ASSUME NEW c \in Clients, SeedMirror(c) \/ UpdateMirror(c) \/ ReseedMirror(c) PROVE Shape'
  <2>1. stream' \in [Clients -> Seq(SnapshotMsg \cup EventMsg)]
    <3>1. stream \in [Clients -> Seq(Message)]
      BY <1>1 DEF Shape, Message
    <3>2. stream' = stream \/ (stream[c] # << >> /\ stream' = [stream EXCEPT ![c] = Tail(@)])
      BY <1>7 DEF SeedMirror, UpdateMirror, ReseedMirror
    <3> QED BY <3>1, <3>2, Queues DEF Message
  <2>2. client' \in [Clients -> ClientRecord]
    <3>1. \A pc \in Live : [client[c] EXCEPT !.pc = pc] \in ClientRecord
      BY ClientRecords
    <3>2. client' = client \/ \E pc \in Live : client' = [client EXCEPT ![c].pc = pc]
      BY <1>7 DEF SeedMirror, UpdateMirror, ReseedMirror, Goto, Live
    <3> QED BY <3>1, <3>2, Facts
  <2>3. unseen' \in [Clients -> SUBSET Keys]
    <3>1. Overwritten(c) \in SUBSET Keys
      BY DEF Overwritten
    <3>2. unseen' = unseen \/ unseen' = [unseen EXCEPT ![c] = unseen[c] \cup Overwritten(c)]
      BY <1>1, <1>7 DEF SeedMirror, UpdateMirror, ReseedMirror, Shape
    <3> QED BY <1>1, <3>1, <3>2 DEF Shape
  <2>4. DOMAIN snap' = Clients /\ DOMAIN mirror' = Clients
    BY <1>1, <1>7 DEF SeedMirror, UpdateMirror, ReseedMirror, Shape
  <2>5. UNCHANGED <<engineVars, events, hubVars, handler, server>>
    BY <1>7 DEF SeedMirror, UpdateMirror, ReseedMirror
  <2> QED BY <1>1, <2>1, <2>2, <2>3, <2>4, <2>5 DEF engineVars, hubVars, Shape
<1>8. ASSUME NEW c \in Clients, Leaves(c) PROVE Shape'
  <2>1. PICK how \in Finished : Exit(c, how)
    BY <1>8 DEF Leaves
  <2>2. client' \in [Clients -> ClientRecord]
    BY <2>1, NoClientShape, Facts DEF Exit
  <2>3. stream' \in [Clients -> Seq(SnapshotMsg \cup EventMsg)] /\ DOMAIN mirror' = Clients
    BY <1>1, <2>1 DEF Exit, Shape
  <2> QED BY <1>1, <1>8, <2>2, <2>3 DEF Leaves, SnapsDropped, engineVars, hubVars, Shape
<1>9. CASE HubTakesCommand
  <2>1. /\ Head(hubCmds) \in [op : {"subscribe", "unsubscribe"}, sub : Clients]
        /\ hubCmds' \in Seq([op : {"subscribe", "unsubscribe"}, sub : Clients])
    <3> DEFINE Cmd == [op : {"subscribe", "unsubscribe"}, sub : Clients]
    <3>1. hubCmds \in Seq(Cmd) /\ hubCmds # << >> /\ hubCmds' = Tail(hubCmds)
      BY <1>1, <1>9 DEF HubTakesCommand, Shape
    <3> HIDE DEF Cmd
    <3>2. Head(hubCmds) \in Cmd /\ hubCmds' \in Seq(Cmd)
      BY <3>1
    <3> QED BY <3>2 DEF Cmd
  <2>2. subscribers' \subseteq Clients
    BY <1>1, <1>9, <2>1 DEF HubTakesCommand, Shape
  <2> QED BY <1>1, <1>9, <2>1, <2>2 DEF HubTakesCommand, engineVars, clientVars, Shape
<1>10. CASE HubTakesEvent
  <2>1. Head(events) \in Event /\ events' \in Seq(Event)
    BY <1>10, Queues DEF HubTakesEvent
  <2>2. subCh' \in [Clients -> Seq(Event)]
    BY <1>1, <1>10, <2>1 DEF HubTakesEvent, Shape
  <2>3. unseen' \in [Clients -> SUBSET Keys]
    BY <1>1, <1>10, <2>1, Hides DEF HubTakesEvent, Shape
  <2> QED BY <1>1, <1>10, <2>1, <2>2, <2>3 DEF HubTakesEvent, engineVars, clientVars, Shape
<1>11. CASE ShutdownByAnother
  BY <1>1, <1>11 DEF ShutdownByAnother, engineVars, hubVars, clientVars, Shape
<1>12. CASE ShutdownEnds
  BY <1>1, <1>12 DEF ShutdownEnds, clientVars, Shape
<1> QED BY <1>2, <1>3, <1>4, <1>5, <1>6, <1>7, <1>8, <1>9, <1>10, <1>11, <1>12 DEF Kinds

-----------------------------------------------------------------------------
(* Capacities *)

LEMMA InboxStep ==
  ASSUME IInv, Kinds PROVE InboxFits'
<1>1. InboxFits
  BY Facts
<1>2. CASE UNCHANGED inbox
  BY <1>1, <1>2 DEF InboxFits
<1>3. CASE ClientMoves
  BY <1>3 DEF ClientMoves
<1>4. CASE ChangeStep
  BY <1>4 DEF ChangeStep, Changes
<1>5. ASSUME NEW c \in Clients, Leaves(c) PROVE InboxFits'
  BY <1>1, <1>5, MirrorConstants DEF Leaves, Exit, InboxFits
<1>6. ASSUME NEW c \in Clients,
             \/ Connect(c) \/ ServerMoves(c) \/ SeedMirror(c) \/ UpdateMirror(c) \/ ReseedMirror(c)
      PROVE  UNCHANGED inbox
  BY <1>6 DEF Connect, ServerMoves, QueueSubscription, ReadKey, SendSnapshot, StreamEvent,
              Unsubscribe, EndStream, SeedMirror, UpdateMirror, ReseedMirror, clientVars
<1>7. ASSUME \/ \E j \in jobs : JobEmits(j)
             \/ HubTakesCommand \/ HubTakesEvent \/ ShutdownByAnother \/ ShutdownEnds
      PROVE  UNCHANGED inbox
  BY <1>7 DEF JobEmits, HubTakesCommand, HubTakesEvent, ShutdownByAnother, ShutdownEnds, clientVars
<1> QED BY <1>2, <1>3, <1>4, <1>5, <1>6, <1>7 DEF Kinds

JobsFit == IsFiniteSet(jobs) /\ Cardinality(jobs) <= MaxJobs

LEMMA JobsFitStep ==
  ASSUME IInv, Kinds PROVE JobsFit'
<1>1. JobsFit /\ MaxJobs \in Nat /\ Cardinality(jobs) \in Nat
  BY MirrorConstants, FS_CardinalityType DEF IInv, Capacities, JobsFit
<1>2. CASE UNCHANGED jobs
  BY <1>1, <1>2 DEF JobsFit
<1>3. CASE ChangeStep
  <2>1. PICK k \in Keys, s \in States, to \in SUBSET States, old \in SUBSET jobs :
          Changes(k, s, to, old)
    BY <1>3 DEF ChangeStep
  <2>2. /\ IsFiniteSet(jobs \ old) /\ Cardinality(jobs \ old) < MaxJobs
        /\ jobs' = (jobs \ old) \cup {NewJob(k, s, to)}
    BY <2>1 DEF Changes
  <2>3. Cardinality(jobs \ old) \in Nat
    BY <2>2, FS_CardinalityType
  <2>4. IsFiniteSet(jobs') /\ Cardinality(jobs') <= Cardinality(jobs \ old) + 1
    BY <2>2, <2>3, FS_AddElement
  <2>5. Cardinality(jobs') \in Nat
    BY <2>4, FS_CardinalityType
  <2> QED BY <1>1, <2>2, <2>3, <2>4, <2>5 DEF JobsFit
<1>4. ASSUME NEW j \in jobs, JobEmits(j) PROVE JobsFit'
  <2>1. IsFiniteSet(jobs \ {j}) /\ Cardinality(jobs \ {j}) = Cardinality(jobs) - 1
    BY <1>1, FS_RemoveElement DEF JobsFit
  <2>2. CASE jobs' = jobs \ {j}
    BY <1>1, <2>1, <2>2 DEF JobsFit
  <2>3. ASSUME NEW k, jobs' = (jobs \ {j}) \cup {k} PROVE JobsFit'
    <3>1. IsFiniteSet(jobs') /\ Cardinality(jobs') <= Cardinality(jobs \ {j}) + 1
      <4>1. Cardinality(jobs \ {j}) \in Nat
        BY <2>1, FS_CardinalityType
      <4> QED BY <2>1, <2>3, <4>1, FS_AddElement
    <3>2. Cardinality(jobs') \in Nat
      BY <3>1, FS_CardinalityType
    <3> QED BY <1>1, <2>1, <3>1, <3>2 DEF JobsFit
  <2> QED BY <1>4, <2>2, <2>3 DEF JobEmits
<1>5. CASE ShutdownEnds
  BY <1>1, <1>5, FS_EmptySet DEF ShutdownEnds, JobsFit
<1>6. ASSUME NEW c \in Clients,
             \/ Connect(c) \/ ServerMoves(c) \/ SeedMirror(c) \/ UpdateMirror(c) \/ ReseedMirror(c)
             \/ Leaves(c)
      PROVE  UNCHANGED jobs
  BY <1>6 DEF Connect, ServerMoves, QueueSubscription, ReadKey, SendSnapshot, StreamEvent, Leaves,
              Unsubscribe, EndStream, SeedMirror, UpdateMirror, ReseedMirror, engineVars
<1>7. ASSUME ClientMoves \/ HubTakesCommand \/ HubTakesEvent \/ ShutdownByAnother
      PROVE  UNCHANGED jobs
  BY <1>7 DEF ClientMoves, HubTakesCommand, HubTakesEvent, ShutdownByAnother, engineVars
<1> QED BY <1>2, <1>3, <1>4, <1>5, <1>6, <1>7 DEF Kinds

QueuesFit ==
  /\ Len(events) <= EngineBuffer /\ Len(hubCmds) <= HubBuffer
  /\ \A c \in Clients : Len(subCh[c]) <= SubBuffer /\ Len(stream[c]) <= SocketBuffer

LEMMA QueuesFitStep ==
  ASSUME IInv, Kinds PROVE QueuesFit'
<1>1. /\ QueuesFit /\ events \in Seq(Event)
      /\ {EngineBuffer, HubBuffer, SubBuffer, SocketBuffer} \subseteq Nat
      /\ subCh \in [Clients -> Seq(Event)] /\ stream \in [Clients -> Seq(Message)]
  BY Facts, MirrorConstants DEF IInv, Capacities, QueuesFit, Shape, Message
<1>2. CASE UNCHANGED <<events, hubCmds, subCh, stream>>
  BY <1>1, <1>2 DEF QueuesFit
<1>3. ASSUME NEW j \in jobs, JobEmits(j) PROVE QueuesFit'
  <2>1. CASE events' = events
    BY <1>1, <1>3, <2>1 DEF JobEmits, hubVars, QueuesFit
  <2>2. CASE Len(events) < EngineBuffer /\ events' = Append(events, j.ev)
    <3>1. Len(events') = Len(events) + 1 /\ Len(events) \in Nat
      BY <1>1, <2>2
    <3> QED BY <1>1, <1>3, <2>2, <3>1 DEF JobEmits, hubVars, QueuesFit
  <2> QED BY <1>3, <2>1, <2>2 DEF JobEmits, Emit
<1>4. ASSUME NEW c \in Clients, QueueSubscription(c) \/ Unsubscribe(c) PROVE QueuesFit'
  <2>1. \/ hubCmds' = hubCmds
        \/ Len(hubCmds) < HubBuffer /\ \E cmd : hubCmds' = Append(hubCmds, cmd)
    BY <1>4 DEF QueueSubscription, Unsubscribe
  <2>2. Len(hubCmds') <= HubBuffer
    BY <1>1, <2>1, Facts DEF QueuesFit, Shape
  <2> QED BY <1>1, <1>4, <2>2 DEF QueueSubscription, Unsubscribe, QueuesFit
<1>5. ASSUME NEW c \in Clients, SendSnapshot(c) PROVE QueuesFit'
  <2>1. /\ Len(stream[c]) < SocketBuffer
        /\ stream' = [stream EXCEPT ![c] = Append(stream[c], [snapshot |-> snap[c]])]
    BY <1>1, <1>5 DEF SendSnapshot, Room
  <2>2. Len(Append(stream[c], [snapshot |-> snap[c]])) <= SocketBuffer
    BY <1>1, <2>1
  <2> QED BY <1>1, <1>5, <2>1, <2>2 DEF SendSnapshot, hubVars, QueuesFit
<1>6. ASSUME NEW c \in Clients, StreamEvent(c) PROVE QueuesFit'
  <2>1. subCh' = [subCh EXCEPT ![c] = Tail(subCh[c])] /\ Len(Tail(subCh[c])) <= SubBuffer
    BY <1>1, <1>6, Queues DEF StreamEvent, QueuesFit
  <2>2. CASE stream' = stream
    BY <1>1, <1>6, <2>1, <2>2 DEF StreamEvent, QueuesFit
  <2>3. CASE /\ Len(stream[c]) < SocketBuffer
             /\ stream' = [stream EXCEPT ![c] = Append(stream[c], [event |-> Head(subCh[c])])]
    <3>1. Len(Append(stream[c], [event |-> Head(subCh[c])])) <= SocketBuffer
      BY <1>1, <2>3
    <3> QED BY <1>1, <1>6, <2>1, <2>3, <3>1 DEF StreamEvent, QueuesFit
  <2> QED BY <1>1, <1>6, <2>2, <2>3 DEF StreamEvent, Room
<1>7. ASSUME NEW c \in Clients, SeedMirror(c) \/ UpdateMirror(c) \/ ReseedMirror(c) \/ Leaves(c)
      PROVE  QueuesFit'
  <2>1. UNCHANGED <<events, hubCmds, subCh>>
    BY <1>7 DEF SeedMirror, UpdateMirror, ReseedMirror, Leaves, hubVars
  <2>2. \/ stream' = stream
        \/ stream[c] # << >> /\ stream' = [stream EXCEPT ![c] = Tail(@)]
        \/ stream' = [stream EXCEPT ![c] = << >>]
    BY <1>7 DEF SeedMirror, UpdateMirror, ReseedMirror, Leaves, Exit
  <2>3. \A x \in Clients : Len(stream'[x]) <= SocketBuffer
    <3>1. CASE stream' = stream
      BY <1>1, <3>1 DEF QueuesFit
    <3>2. CASE stream[c] # << >> /\ stream' = [stream EXCEPT ![c] = Tail(@)]
      BY <1>1, <3>2, Queues DEF QueuesFit
    <3>3. CASE stream' = [stream EXCEPT ![c] = << >>]
      BY <1>1, <3>3 DEF QueuesFit
    <3> QED BY <2>2, <3>1, <3>2, <3>3
  <2> QED BY <1>1, <2>1, <2>3 DEF QueuesFit
<1>8. CASE HubTakesCommand
  <2>1. Len(hubCmds') <= HubBuffer
    BY <1>1, <1>8, Facts DEF HubTakesCommand, QueuesFit, Shape
  <2> QED BY <1>1, <1>8, <2>1 DEF HubTakesCommand, QueuesFit
<1>9. CASE HubTakesEvent
  <2>1. Len(events') <= EngineBuffer
    BY <1>1, <1>9, Queues DEF HubTakesEvent, QueuesFit
  <2>2. ASSUME NEW c \in Clients PROVE Len(subCh'[c]) <= SubBuffer
    <3>1. \/ subCh'[c] = subCh[c]
          \/ Len(subCh[c]) # SubBuffer /\ subCh'[c] = Append(subCh[c], Head(events))
      BY <1>9 DEF HubTakesEvent, Full
    <3> QED BY <1>1, <3>1, Queues DEF QueuesFit
  <2> QED BY <1>1, <1>9, <2>1, <2>2 DEF HubTakesEvent, QueuesFit
<1>10. CASE ShutdownEnds
  BY <1>1, <1>10 DEF ShutdownEnds, QueuesFit
<1>11. CASE ChangeStep \/ ClientMoves \/ ShutdownByAnother
  BY <1>2, <1>11 DEF ChangeStep, Changes, ClientMoves, ShutdownByAnother, hubVars
<1>12. ASSUME NEW c \in Clients, Connect(c) \/ ReadKey(c) \/ EndStream(c)
       PROVE  UNCHANGED <<events, hubCmds, subCh, stream>>
  BY <1>12 DEF Connect, ReadKey, EndStream, hubVars
<1> QED BY <1>2, <1>3, <1>4, <1>5, <1>6, <1>7, <1>8, <1>9, <1>10, <1>11, <1>12
        DEF Kinds, ServerMoves

-----------------------------------------------------------------------------
(* Numbers *)

LEMMA NoneRead == NoSnapshot \in [{} -> Seen] /\ DOMAIN NoSnapshot = {}
BY DEF NoSnapshot

\* Steps that change no state of the engine.
LEMMA TruthKept ==
  ASSUME IInv, Kinds, ~ChangeStep
  PROVE  /\ UNCHANGED <<truth, writes>>
         /\ \A j \in jobs' : \E i \in jobs : j.ev = i.ev
<1>1. ASSUME NEW j \in jobs, JobEmits(j)
      PROVE  /\ UNCHANGED <<truth, writes>>
             /\ \A x \in jobs' : \E i \in jobs : x.ev = i.ev
  <2>1. j \in Job
    BY Facts DEF Shape
  <2>2. [j EXCEPT !.pc = "set"].ev = j.ev
    BY <2>1 DEF Job
  <2> QED BY <1>1, <2>2 DEF JobEmits
<1>2. ASSUME NEW c \in Clients,
             \/ Connect(c) \/ ServerMoves(c) \/ SeedMirror(c) \/ UpdateMirror(c) \/ ReseedMirror(c)
             \/ Leaves(c)
      PROVE  UNCHANGED engineVars
  BY <1>2 DEF Connect, ServerMoves, QueueSubscription, ReadKey, SendSnapshot, StreamEvent, Leaves,
              Unsubscribe, EndStream, SeedMirror, UpdateMirror, ReseedMirror
<1>3. ASSUME ClientMoves \/ HubTakesCommand \/ HubTakesEvent \/ ShutdownByAnother
      PROVE  UNCHANGED engineVars
  BY <1>3 DEF ClientMoves, HubTakesCommand, HubTakesEvent, ShutdownByAnother
<1>4. CASE ShutdownEnds
  BY <1>4 DEF ShutdownEnds
<1>5. CASE UNCHANGED engineVars
  BY <1>5 DEF engineVars
<1> QED BY <1>1, <1>2, <1>3, <1>4, <1>5 DEF Kinds

LEMMA NumbersStep ==
  ASSUME IInv, Kinds PROVE NumbersUnique'
<1>1. /\ NumbersUnique /\ writes \in Nat
      /\ \A k \in Keys : truth[k].at \in Nat
      /\ \A j \in jobs : j.ev.at \in Nat
  BY Facts DEF IInv, Shape, Job, Event, Seen
<1>2. CASE ~ChangeStep
  BY <1>1, <1>2, TruthKept DEF NumbersUnique
<1>3. CASE ChangeStep
  <2>1. PICK k \in Keys, s \in States, to \in SUBSET States, old \in SUBSET jobs :
          Changes(k, s, to, old)
    BY <1>3 DEF ChangeStep
  <2> DEFINE new == NewJob(k, s, to)
  <2>2. /\ writes' = writes + 1 /\ truth'[k].at = writes + 1
        /\ \A x \in Keys \ {k} : truth'[x] = truth[x]
        /\ new.ev.key = k /\ new.ev.at = writes + 1
    BY <2>1, Changed
  <2>3. \A j \in jobs' : j \in jobs \/ j = new
    BY <2>1 DEF Changes
  <2> HIDE DEF new
  <2>4. \A x \in Keys : truth'[x].at <= writes'
    BY <1>1, <2>2 DEF NumbersUnique
  <2>5. ASSUME NEW j \in jobs'
        PROVE  j.ev.at <= writes' /\ \A x \in Keys : j.ev.at = truth'[x].at => j.ev.key = x
    <3>1. CASE j \in jobs
      BY <1>1, <2>2, <3>1 DEF NumbersUnique
    <3>2. CASE j = new
      BY <1>1, <2>2, <3>2 DEF NumbersUnique
    <3> QED BY <2>3, <2>5, <3>1, <3>2
  <2> QED BY <2>4, <2>5 DEF NumbersUnique
<1> QED BY <1>2, <1>3

\* No state of the engine goes back.
LEMMA TruthGrows ==
  ASSUME IInv, Kinds, NEW k \in Keys
  PROVE  truth[k].at \in Nat /\ truth'[k].at \in Nat /\ truth[k].at <= truth'[k].at
<1>1. /\ truth[k].at \in Nat /\ truth[k].at <= writes /\ writes \in Nat
  BY Facts DEF IInv, NumbersUnique, Shape, Seen
<1>2. CASE ChangeStep
  <2>1. PICK x \in Keys, s \in States, to \in SUBSET States, old \in SUBSET jobs :
          Changes(x, s, to, old)
    BY <1>2 DEF ChangeStep
  <2>2. truth'[x].at = writes + 1 /\ \A y \in Keys \ {x} : truth'[y] = truth[y]
    BY <2>1, Changed
  <2> QED BY <1>1, <2>2
<1> QED BY <1>1, <1>2, TruthKept

\* What has been read after a step.
LEMMA SnapsStep ==
  ASSUME IInv, Kinds, NEW c \in Clients
  PROVE  \/ snap'[c] = snap[c] \/ snap'[c] = NoSnapshot
         \/ /\ truth' = truth
            /\ \E k \in Keys : snap'[c] = [x \in DOMAIN snap[c] \cup {k} |->
                                           IF x = k THEN truth[k] ELSE snap[c][x]]
<1>1. DOMAIN snap = Clients
  BY Facts DEF Shape
<1>2. CASE UNCHANGED snap
  BY <1>2
<1>3. ASSUME NEW d \in Clients, ReadKey(d)
      PROVE  \/ snap'[c] = snap[c]
             \/ /\ truth' = truth
                /\ \E k \in Keys : snap'[c] = [x \in DOMAIN snap[c] \cup {k} |->
                                               IF x = k THEN truth[k] ELSE snap[c][x]]
  BY <1>1, <1>3 DEF ReadKey, engineVars
<1>4. ASSUME NEW d \in Clients, SendSnapshot(d) \/ ReseedMirror(d) \/ Leaves(d)
      PROVE  snap'[c] \in {snap[c], NoSnapshot}
  BY <1>1, <1>4 DEF SendSnapshot, ReseedMirror, Leaves, SnapsDropped
<1>5. CASE ClientMoves
  BY <1>5 DEF ClientMoves, SnapsDropped
<1>6. ASSUME NEW d \in Clients,
             \/ Connect(d) \/ QueueSubscription(d) \/ StreamEvent(d) \/ Unsubscribe(d)
             \/ EndStream(d) \/ SeedMirror(d) \/ UpdateMirror(d)
      PROVE  UNCHANGED snap
  BY <1>6 DEF Connect, QueueSubscription, StreamEvent, Unsubscribe, EndStream, SeedMirror,
              UpdateMirror
<1>7. ASSUME \/ ChangeStep \/ (\E j \in jobs : JobEmits(j))
             \/ HubTakesCommand \/ HubTakesEvent \/ ShutdownByAnother \/ ShutdownEnds
      PROVE  UNCHANGED snap
  BY <1>7 DEF ChangeStep, Changes, JobEmits, HubTakesCommand, HubTakesEvent, ShutdownByAnother,
              ShutdownEnds
<1> QED BY <1>2, <1>3, <1>4, <1>5, <1>6, <1>7 DEF Kinds, ServerMoves

LEMMA SnapshotsReadStep ==
  ASSUME IInv, Kinds PROVE SnapshotsRead'
<1> SUFFICES ASSUME NEW c \in Clients
             PROVE  /\ snap'[c] \in [DOMAIN snap'[c] -> Seen] /\ DOMAIN snap'[c] \subseteq Keys
                    /\ \A k \in DOMAIN snap'[c] : snap'[c][k].at <= truth'[k].at
  BY DEF SnapshotsRead
<1>1. /\ snap[c] \in [DOMAIN snap[c] -> Seen] /\ DOMAIN snap[c] \subseteq Keys
      /\ \A k \in DOMAIN snap[c] : snap[c][k].at <= truth[k].at
      /\ truth \in [Keys -> Seen]
  BY Facts DEF IInv, SnapshotsRead, Shape
<1>2. CASE snap'[c] = snap[c]
  <2>1. \A k \in DOMAIN snap[c] : snap[c][k].at \in Nat
    BY <1>1 DEF Seen
  <2> QED BY <1>1, <1>2, <2>1, TruthGrows
<1>3. CASE snap'[c] = NoSnapshot
  BY <1>3, NoneRead
<1>4. ASSUME truth' = truth, NEW k \in Keys,
             snap'[c] = [x \in DOMAIN snap[c] \cup {k} |-> IF x = k THEN truth[k] ELSE snap[c][x]]
      PROVE  /\ snap'[c] \in [DOMAIN snap'[c] -> Seen] /\ DOMAIN snap'[c] \subseteq Keys
             /\ \A x \in DOMAIN snap'[c] : snap'[c][x].at <= truth'[x].at
  <2>1. truth[k] \in Seen /\ truth[k].at <= truth[k].at
    BY <1>1 DEF Seen
  <2> QED BY <1>1, <1>4, <2>1
<1> QED BY <1>2, <1>3, <1>4, SnapsStep

-----------------------------------------------------------------------------
(* Clients and handlers *)

\* Nothing that concerns c alone changes.
Same(c) ==
  /\ handler'[c] = handler[c] /\ client'[c].pc = client[c].pc /\ stream'[c] = stream[c]
  /\ snap'[c] = snap[c] /\ mirror'[c] = mirror[c]

LEMMA SameKeeps ==
  ASSUME IInv, NEW c \in Clients, Same(c)
  PROVE  InStep(c)' /\ InOrderOn(c)'
BY DEF IInv, ClientAndHandler, InStep, SnapshotFirst, InOrderOn, Same

LEMMA ClientState ==
  ASSUME IInv, NEW c \in Clients
  PROVE  /\ client[c] \in ClientRecord /\ InStep(c) /\ InOrderOn(c)
         /\ client[c].pc \in {"off", "connecting"} \cup Live \cup Finished
         /\ handler[c] \in {"none", "subscribe", "snapshot", "stream", "unsubscribe", "closed"}
         /\ snap[c] \in [DOMAIN snap[c] -> Seen] /\ DOMAIN snap[c] \subseteq Keys
         /\ DOMAIN client = Clients /\ DOMAIN handler = Clients /\ DOMAIN stream = Clients
         /\ DOMAIN snap = Clients /\ DOMAIN mirror = Clients /\ DOMAIN subCh = Clients
BY Facts DEF IInv, ClientAndHandler, SnapshotFirst, SnapshotsRead, Shape, ClientRecord

\* One step of one client or of its handler.
LEMMA OthersSame ==
  ASSUME IInv, NEW c \in Clients,
         \/ Connect(c) \/ ServerMoves(c) \/ SeedMirror(c) \/ UpdateMirror(c) \/ ReseedMirror(c)
         \/ Leaves(c),
         NEW x \in Clients, x # c
  PROVE  handler'[x] = handler[x] /\ client'[x].pc = client[x].pc /\ stream'[x] = stream[x]
         /\ mirror'[x] = mirror[x]
<1>1. CASE Connect(c)
  BY <1>1, ClientState DEF Connect
<1>2. CASE ServerMoves(c)
  BY <1>2, ClientState DEF ServerMoves, QueueSubscription, ReadKey, SendSnapshot, StreamEvent,
                           Unsubscribe, EndStream, clientVars
<1>3. CASE SeedMirror(c) \/ UpdateMirror(c) \/ ReseedMirror(c)
  BY <1>3, ClientState DEF SeedMirror, UpdateMirror, ReseedMirror, Goto
<1>4. CASE Leaves(c)
  BY <1>4, ClientState DEF Leaves, Exit
<1> QED BY <1>1, <1>2, <1>3, <1>4

LEMMA OthersRead ==
  ASSUME IInv, NEW c \in Clients,
         \/ Connect(c) \/ ServerMoves(c) \/ SeedMirror(c) \/ UpdateMirror(c) \/ ReseedMirror(c),
         NEW x \in Clients, x # c
  PROVE  Same(x)
<1>1. snap'[x] = snap[x]
  BY ClientState DEF Connect, ServerMoves, QueueSubscription, ReadKey, SendSnapshot, StreamEvent,
                     Unsubscribe, EndStream, SeedMirror, UpdateMirror, ReseedMirror
<1> QED BY <1>1, OthersSame DEF Same

LEMMA OnStreamStep ==
  ASSUME IInv, NEW c \in Clients, SeedMirror(c) \/ UpdateMirror(c)
  PROVE  /\ stream[c] # << >> /\ stream'[c] = Tail(stream[c])
         /\ SeedMirror(c) => /\ stream[c][1] \in SnapshotMsg
                             /\ stream[c][1].snapshot \in [Keys -> Seen]
                             /\ mirror'[c] = stream[c][1].snapshot
                             /\ client[c].pc = "connecting" /\ client'[c].pc = "ready"
         /\ UpdateMirror(c) =>
              /\ stream[c][1] \in EventMsg /\ stream[c][1].event \in Event
              /\ client[c].pc \in Live /\ client' = client
              /\ mirror[c] \in [Keys -> Seen]
              /\ LET ev == stream[c][1].event
                 IN  mirror'[c] = [mirror[c] EXCEPT ![ev.key] = [state |-> ev.state, at |-> ev.at]]
<1>1. /\ stream[c] # << >> /\ stream'[c] = Tail(stream[c]) /\ Head(stream[c]) = stream[c][1]
      /\ 1 \in 1 .. Len(stream[c])
  <2>1. stream[c] \in Seq(Message)
    BY Queues
  <2>2. stream[c] # << >> /\ stream'[c] = Tail(stream[c])
    BY ClientState DEF SeedMirror, UpdateMirror
  <2> QED BY <2>1, <2>2
<1>2. CASE SeedMirror(c)
  <2>1. stream[c][1] \in SnapshotMsg
    BY <1>1, <1>2, ClientState DEF SeedMirror, InOrderOn
  <2>2. client[c].pc = "connecting" /\ client'[c].pc = "ready"
    BY <1>2, ClientState DEF SeedMirror, Goto, ClientRecord
  <2> QED BY <1>1, <1>2, <2>1, <2>2, ClientState, Messages DEF SeedMirror, UpdateMirror
<1>3. CASE UpdateMirror(c)
  <2>1. client[c].pc \in Live /\ client' = client
    BY <1>1, <1>3, ClientState DEF UpdateMirror, InStep
  <2>2. stream[c][1] \in EventMsg
    BY <1>1, <2>1, ClientState DEF InOrderOn, Live
  <2>3. mirror[c] \in [Keys -> Seen]
    BY <2>1, ClientState DEF InStep
  <2>4. LET ev == stream[c][1].event
        IN  mirror'[c] = [mirror[c] EXCEPT ![ev.key] = [state |-> ev.state, at |-> ev.at]]
    BY <1>1, <1>3, ClientState DEF UpdateMirror
  <2>5. ~SeedMirror(c)
    BY <2>1 DEF SeedMirror, Live
  <2> QED BY <1>1, <2>1, <2>2, <2>3, <2>4, <2>5, Messages
<1> QED BY <1>2, <1>3

LEMMA InStepStep ==
  ASSUME IInv, Kinds, NEW x \in Clients PROVE InStep(x)'
<1>1. ASSUME ChangeStep \/ ClientMoves PROVE InStep(x)'
  <2>1. /\ UNCHANGED <<stream, handler, mirror>>
        /\ client'[x].pc = client[x].pc \/ {client[x].pc, client'[x].pc} \subseteq Live
        /\ snap'[x] = snap[x] \/ (snap'[x] = NoSnapshot /\ client[x].pc \in Live)
    BY <1>1 DEF ChangeStep, Changes, ClientMoves, PcsKept, SnapsDropped
  <2> QED BY <2>1, ClientState DEF InStep, Live
<1>2. CASE UNCHANGED <<handler, client, stream, snap, mirror>>
  BY <1>2, SameKeeps DEF Same
<1>3. ASSUME NEW c \in Clients, Connect(c) PROVE InStep(x)'
  <2>1. CASE x = c
    <3>1. client[c].pc = "off" /\ client'[c].pc = "connecting" /\ handler'[c] = "subscribe"
      BY <1>3, ClientState DEF Connect, ClientRecord
    <3> QED BY <1>3, <2>1, <3>1, ClientState DEF Connect, InStep, Live
  <2> QED BY <1>3, <2>1, OthersRead, SameKeeps
<1>4. ASSUME NEW c \in Clients, ServerMoves(c) PROVE InStep(x)'
  <2>1. CASE x # c
    BY <1>4, <2>1, OthersRead, SameKeeps
  <2>2. CASE x = c /\ QueueSubscription(c)
    BY <2>2, ClientState DEF QueueSubscription, clientVars, InStep
  <2>3. CASE x = c /\ ReadKey(c)
    BY <2>3, ClientState DEF ReadKey, Reading, clientVars, InStep
  <2>4. CASE x = c /\ SendSnapshot(c)
    <3>1. /\ stream'[c] = Append(stream[c], [snapshot |-> snap[c]]) /\ handler'[c] = "stream"
          /\ handler[c] = "snapshot" /\ UNCHANGED <<client, mirror>>
      BY <2>4, ClientState DEF SendSnapshot, clientVars
    <3>2. stream'[c] # << >>
      <4>1. \A q \in Seq(Message) : \A m : Append(q, m) # << >>
        OBVIOUS
      <4> QED BY <3>1, <4>1, Queues
    <3> QED BY <2>4, <3>1, <3>2, ClientState DEF InStep
  <2>5. CASE x = c /\ StreamEvent(c)
    <3>1. /\ handler[c] = "stream" /\ handler'[c] \in {"stream", "unsubscribe"}
          /\ UNCHANGED <<client, mirror, snap>>
          /\ stream'[c] = stream[c] \/ \E m : stream'[c] = Append(stream[c], m)
      BY <2>5, ClientState DEF StreamEvent, clientVars
    <3>2. stream[c] # << >> => stream'[c] # << >>
      BY <3>1, Queues
    <3> QED BY <2>5, <3>1, <3>2, ClientState DEF InStep
  <2>6. CASE x = c /\ (Unsubscribe(c) \/ EndStream(c))
    BY <2>6, ClientState DEF Unsubscribe, EndStream, clientVars, InStep
  <2> QED BY <1>4, <2>1, <2>2, <2>3, <2>4, <2>5, <2>6 DEF ServerMoves
<1>5. ASSUME NEW c \in Clients, SeedMirror(c) \/ UpdateMirror(c) PROVE InStep(x)'
  <2>1. CASE x # c
    BY <1>5, <2>1, OthersRead, SameKeeps
  <2>2. CASE x = c
    <3>1. /\ handler'[c] = handler[c] /\ snap'[c] = snap[c]
          /\ handler[c] \notin {"none", "subscribe", "snapshot"}
      BY <1>5, ClientState DEF SeedMirror, UpdateMirror, InStep
    <3>2. mirror'[c] \in [Keys -> Seen] /\ client'[c].pc \in Live
      <4>1. CASE SeedMirror(c)
        BY <4>1, OnStreamStep DEF Live
      <4>2. CASE UpdateMirror(c)
        <5> DEFINE ev == stream[c][1].event
        <5>1. ev \in Event /\ [state |-> ev.state, at |-> ev.at] \in Seen
          BY <4>2, OnStreamStep DEF Event, Seen
        <5>2. /\ client'[c].pc \in Live /\ mirror[c] \in [Keys -> Seen] /\ ev.key \in Keys
              /\ mirror'[c] = [mirror[c] EXCEPT ![ev.key] = [state |-> ev.state, at |-> ev.at]]
          BY <4>2, <5>1, OnStreamStep DEF Event
        <5> HIDE DEF ev
        <5> QED BY <5>1, <5>2
      <4> QED BY <1>5, <4>1, <4>2
    <3> QED BY <2>2, <3>1, <3>2 DEF InStep, Live
  <2> QED BY <2>1, <2>2
<1>6. ASSUME NEW c \in Clients, ReseedMirror(c) PROVE InStep(x)'
  <2>1. CASE x # c
    BY <1>6, <2>1, OthersRead, SameKeeps
  <2>2. CASE x = c
    <3>1. /\ mirror'[c] = snap[c] /\ snap[c] \in [Keys -> Seen] /\ handler'[c] = handler[c]
          /\ snap'[c] = NoSnapshot /\ stream'[c] = stream[c]
          /\ client[c].pc = "reading" /\ client'[c].pc = "watching"
      BY <1>6, ClientState DEF ReseedMirror, Complete, Goto, ClientRecord
    <3> QED BY <2>2, <3>1, ClientState DEF InStep, Live
  <2> QED BY <2>1, <2>2
<1>7. ASSUME NEW c \in Clients, Leaves(c) PROVE InStep(x)'
  <2>1. CASE x # c
    <3>1. /\ handler'[x] = handler[x] /\ client'[x].pc = client[x].pc /\ stream'[x] = stream[x]
          /\ mirror'[x] = mirror[x]
      BY <1>7, <2>1, OthersSame
    <3>2. snap'[x] = snap[x] \/ (snap'[x] = NoSnapshot /\ client[x].pc \in Live)
      BY <1>7 DEF Leaves, SnapsDropped
    <3> QED BY <3>1, <3>2, ClientState DEF InStep, Live
  <2>2. CASE x = c
    <3>1. PICK how \in Finished : Exit(c, how)
      BY <1>7 DEF Leaves
    <3>2. client'[c].pc = how /\ mirror'[c] = NoSnapshot /\ stream'[c] = << >>
      BY <3>1, ClientState DEF Exit, NoClient
    <3>3. handler'[c] = handler[c] /\ handler[c] \in {"stream", "unsubscribe", "closed"}
      BY <1>7, ClientState DEF Leaves, InStep, Live
    <3> QED BY <2>2, <3>1, <3>2, <3>3 DEF InStep, Live, Finished
  <2> QED BY <2>1, <2>2
<1>8. ASSUME \/ \E j \in jobs : JobEmits(j)
             \/ HubTakesCommand \/ HubTakesEvent \/ ShutdownByAnother \/ ShutdownEnds
      PROVE  UNCHANGED <<handler, client, stream, snap, mirror>>
  BY <1>8 DEF JobEmits, HubTakesCommand, HubTakesEvent, ShutdownByAnother, ShutdownEnds, clientVars
<1> QED BY <1>1, <1>2, <1>3, <1>4, <1>5, <1>6, <1>7, <1>8 DEF Kinds

LEMMA SnapshotFirstStep ==
  ASSUME IInv, Kinds, NEW x \in Clients PROVE InOrderOn(x)'
<1>1. ASSUME UNCHANGED stream, client'[x].pc = client[x].pc \/ {client[x].pc, client'[x].pc} \subseteq Live
      PROVE  InOrderOn(x)'
  BY <1>1, ClientState DEF InOrderOn, Live
<1>2. ASSUME ChangeStep \/ ClientMoves PROVE InOrderOn(x)'
  BY <1>1, <1>2 DEF ChangeStep, Changes, ClientMoves, PcsKept
<1>3. ASSUME stream'[x] = << >> PROVE InOrderOn(x)'
  BY <1>3 DEF InOrderOn
<1>4. ASSUME NEW c \in Clients, Connect(c) PROVE InOrderOn(x)'
  <2>1. CASE x = c
    <3>1. stream'[c] = << >>
      BY <1>4, ClientState DEF Connect, InStep
    <3> QED BY <1>3, <2>1, <3>1
  <2> QED BY <1>4, <2>1, OthersRead, SameKeeps
<1>5. ASSUME NEW c \in Clients, SendSnapshot(c) PROVE InOrderOn(x)'
  <2>1. CASE x # c
    BY <1>5, <2>1, OthersRead, SameKeeps DEF ServerMoves
  <2>2. CASE x = c
    <3> DEFINE m == [snapshot |-> snap[c]]
    <3>1. /\ client'[c].pc = "connecting" /\ stream'[c] = Append(stream[c], m)
          /\ stream[c] = << >> /\ snap[c] \in [Keys -> Seen]
      BY <1>5, ClientState DEF SendSnapshot, InStep, clientVars, Complete
    <3>2. m \in SnapshotMsg
      BY <3>1 DEF SnapshotMsg
    <3> HIDE DEF m
    <3>3. Len(stream'[c]) = 1 /\ stream'[c][1] = m
      BY <3>1
    <3> QED BY <2>2, <3>1, <3>2, <3>3 DEF InOrderOn
  <2> QED BY <2>1, <2>2
<1>6. ASSUME NEW c \in Clients, StreamEvent(c) PROVE InOrderOn(x)'
  <2>1. CASE x # c
    BY <1>6, <2>1, OthersRead, SameKeeps DEF ServerMoves
  <2>2. CASE x = c /\ stream' = stream
    BY <1>1, <1>6, <2>2 DEF StreamEvent, clientVars
  <2>3. CASE x = c /\ stream' # stream
    <3> DEFINE m == [event |-> Head(subCh[c])]
    <3>1. /\ handler[c] = "stream" /\ client' = client /\ stream'[c] = Append(stream[c], m)
          /\ Head(subCh[c]) \in Event
      BY <1>6, <2>3, ClientState, Queues DEF StreamEvent, clientVars
    <3>2. m \in EventMsg
      BY <3>1 DEF EventMsg
    <3>3. stream[c] # << >> \/ client[c].pc # "connecting"
      BY <3>1, ClientState DEF InStep
    <3> HIDE DEF m
    <3>4. /\ Len(stream[c]) \in Nat /\ Len(stream'[c]) = Len(stream[c]) + 1
          /\ stream'[c][Len(stream[c]) + 1] = m
          /\ \A i \in 1 .. Len(stream[c]) : stream'[c][i] = stream[c][i]
          /\ stream[c] # << >> => Len(stream[c]) # 0
      <4>1. stream[c] \in Seq(Message)
        BY Queues
      <4> QED BY <3>1, <4>1
    <3>5. ASSUME NEW i \in 1 .. Len(stream'[c])
          PROVE  IF i = 1 /\ client'[c].pc = "connecting" THEN stream'[c][i] \in SnapshotMsg
                                                         ELSE stream'[c][i] \in EventMsg
      <4>1. CASE i \in 1 .. Len(stream[c])
        BY <3>1, <3>4, <4>1, ClientState DEF InOrderOn
      <4>2. CASE i = Len(stream[c]) + 1
        BY <3>1, <3>2, <3>3, <3>4, <4>2
      <4> QED BY <3>4, <4>1, <4>2
    <3> QED BY <2>3, <3>5 DEF InOrderOn
  <2> QED BY <2>1, <2>2, <2>3
<1>7. ASSUME NEW c \in Clients, SeedMirror(c) \/ UpdateMirror(c) PROVE InOrderOn(x)'
  <2>1. CASE x # c
    BY <1>7, <2>1, OthersRead, SameKeeps
  <2>2. CASE x = c
    <3>1. stream[c] # << >> /\ stream'[c] = Tail(stream[c]) /\ client'[c].pc # "connecting"
      BY <1>7, OnStreamStep DEF Live
    <3>2. /\ Len(stream[c]) \in Nat /\ Len(stream'[c]) = Len(stream[c]) - 1
          /\ \A i \in 1 .. Len(stream'[c]) : stream'[c][i] = stream[c][i + 1]
      BY <3>1, Queues
    <3>3. \A i \in 1 .. Len(stream'[c]) : stream[c][i + 1] \in EventMsg
      BY <3>2, ClientState DEF InOrderOn
    <3> QED BY <2>2, <3>1, <3>2, <3>3 DEF InOrderOn
  <2> QED BY <2>1, <2>2
<1>8. ASSUME NEW c \in Clients, ReseedMirror(c) PROVE InOrderOn(x)'
  <2>1. CASE x # c
    BY <1>8, <2>1, OthersRead, SameKeeps
  <2>2. CASE x = c
    <3>1. stream' = stream /\ client[c].pc = "reading" /\ client'[c].pc = "watching"
      BY <1>8, ClientState DEF ReseedMirror, Goto, ClientRecord
    <3> QED BY <1>1, <2>2, <3>1 DEF Live
  <2> QED BY <2>1, <2>2
<1>9. ASSUME NEW c \in Clients, Leaves(c) PROVE InOrderOn(x)'
  <2>1. CASE x # c
    BY <1>9, <2>1, OthersSame, ClientState DEF InOrderOn
  <2>2. CASE x = c
    <3>1. stream'[c] = << >>
      BY <1>9, ClientState DEF Leaves, Exit
    <3> QED BY <1>3, <2>2, <3>1
  <2> QED BY <2>1, <2>2
<1>10. ASSUME \/ \E j \in jobs : JobEmits(j)
              \/ \E c \in Clients : \/ QueueSubscription(c) \/ ReadKey(c) \/ Unsubscribe(c)
                                    \/ EndStream(c)
              \/ HubTakesCommand \/ HubTakesEvent \/ ShutdownByAnother \/ ShutdownEnds
       PROVE  UNCHANGED <<client, stream>>
  BY <1>10 DEF JobEmits, HubTakesCommand, HubTakesEvent, ShutdownByAnother, ShutdownEnds,
               clientVars, QueueSubscription, ReadKey, Unsubscribe, EndStream
<1> QED BY <1>1, <1>2, <1>4, <1>5, <1>6, <1>7, <1>8, <1>9, <1>10 DEF Kinds, ServerMoves

-----------------------------------------------------------------------------
(* What the hub knows *)

Runs == server # "done"

LEMMA StillRuns ==
  ASSUME IInv, Kinds, Runs' PROVE Runs /\ HubKnows /\ Unheard /\ AllCatchUp
<1>1. Runs
  <2>1. CASE UNCHANGED server
    BY <2>1 DEF Runs
  <2>2. CASE ClientMoves \/ ShutdownByAnother \/ ShutdownEnds
    BY <2>2 DEF ClientMoves, ShutdownByAnother, ShutdownEnds, Runs
  <2>3. ASSUME NEW c \in Clients,
               \/ Connect(c) \/ ServerMoves(c) \/ SeedMirror(c) \/ UpdateMirror(c)
               \/ ReseedMirror(c) \/ Leaves(c)
        PROVE  UNCHANGED server
    BY <2>3 DEF Connect, ServerMoves, QueueSubscription, ReadKey, SendSnapshot, StreamEvent,
                Unsubscribe, EndStream, SeedMirror, UpdateMirror, ReseedMirror, Leaves
  <2>4. ASSUME ChangeStep \/ (\E j \in jobs : JobEmits(j)) \/ HubTakesCommand \/ HubTakesEvent
        PROVE  UNCHANGED server
    BY <2>4 DEF ChangeStep, Changes, JobEmits, HubTakesCommand, HubTakesEvent
  <2> QED BY <2>1, <2>2, <2>3, <2>4 DEF Kinds
<1> QED BY <1>1 DEF IInv, Runs

\* A process that has exited does not come back.
LEMMA GoneStays ==
  ASSUME IInv, Kinds, NEW x \in Clients, Gone(x)
  PROVE  Gone(x)'
<1>1. client[x].pc \in Finished /\ Finished \cap Live = {} /\ "connecting" \notin Finished
  BY DEF Gone, Finished, Live
<1>2. ASSUME ChangeStep \/ ClientMoves PROVE Gone(x)'
  BY <1>1, <1>2 DEF ChangeStep, Changes, ClientMoves, PcsKept, Gone
<1>3. ASSUME NEW c \in Clients, Connect(c) PROVE Gone(x)'
  <2>1. x # c
    BY <1>1, <1>3 DEF Connect, Finished
  <2> QED BY <1>1, <1>3, <2>1, OthersRead DEF Same, Gone
<1>4. ASSUME NEW c \in Clients, SeedMirror(c) \/ ReseedMirror(c) PROVE Gone(x)'
  <2>1. x # c
    BY <1>1, <1>4 DEF SeedMirror, ReseedMirror, Finished
  <2> QED BY <1>1, <1>4, <2>1, OthersRead DEF Same, Gone
<1>5. ASSUME NEW c \in Clients, Leaves(c) PROVE Gone(x)'
  <2>1. x # c
    BY <1>1, <1>5 DEF Leaves
  <2> QED BY <1>1, <1>5, <2>1, OthersSame DEF Gone
<1>6. ASSUME \/ \E j \in jobs : JobEmits(j)
             \/ \E c \in Clients : ServerMoves(c) \/ UpdateMirror(c)
             \/ HubTakesCommand \/ HubTakesEvent \/ ShutdownByAnother \/ ShutdownEnds
      PROVE  UNCHANGED client
  BY <1>6 DEF JobEmits, HubTakesCommand, HubTakesEvent, ShutdownByAnother, ShutdownEnds,
              clientVars, ServerMoves, QueueSubscription, ReadKey, SendSnapshot, StreamEvent,
              Unsubscribe, EndStream, UpdateMirror
<1>7. CASE UNCHANGED client
  BY <1>1, <1>7 DEF Gone
<1> QED BY <1>2, <1>3, <1>4, <1>5, <1>6, <1>7 DEF Kinds

\* The commands on their way to the hub.
LEMMA Commands ==
  ASSUME IInv
  PROVE  /\ Len(hubCmds) \in Nat
         /\ \A cmd : /\ Len(Append(hubCmds, cmd)) = Len(hubCmds) + 1
                     /\ Append(hubCmds, cmd)[Len(hubCmds) + 1] = cmd
                     /\ \A i \in 1 .. Len(hubCmds) : Append(hubCmds, cmd)[i] = hubCmds[i]
         /\ hubCmds # << >> =>
              /\ Len(hubCmds) # 0 /\ Head(hubCmds) = hubCmds[1]
              /\ Len(Tail(hubCmds)) = Len(hubCmds) - 1
              /\ \A i \in 1 .. Len(Tail(hubCmds)) : Tail(hubCmds)[i] = hubCmds[i + 1]
         /\ \A i \in 1 .. Len(hubCmds) :
              hubCmds[i].op \in {"subscribe", "unsubscribe"} /\ hubCmds[i].sub \in Clients
<1> DEFINE Cmd == [op : {"subscribe", "unsubscribe"}, sub : Clients]
<1>1. hubCmds \in Seq(Cmd)
  BY Facts DEF Shape
<1>2. \A cmd \in Cmd : cmd.op \in {"subscribe", "unsubscribe"} /\ cmd.sub \in Clients
  OBVIOUS
<1> HIDE DEF Cmd
<1> QED BY <1>1, <1>2

LEMMA HubKnowsStep ==
  ASSUME IInv, Kinds, Runs' PROVE HubKnows'
<1>1. /\ Runs /\ HubKnows /\ ~Closing
      /\ \A x \in Clients : Gone(x) => Gone(x)' /\ client'[x].pc \in Finished
  BY StillRuns, GoneStays DEF Runs, Closing, Gone
<1>2. ASSUME UNCHANGED <<hubCmds, subscribers>>,
             \A x \in Clients :
               \/ handler'[x] = handler[x] \/ handler'[x] = "subscribe"
               \/ {handler[x], handler'[x]} \subseteq {"snapshot", "stream"}
               \/ handler'[x] = "unsubscribe" /\ Gone(x)
      PROVE  HubKnows'
  <2>1. ASSUME NEW x \in Clients
        PROVE  /\ handler'[x] \in {"snapshot", "stream"} /\ ~Gone(x)'
                    => x \in subscribers' \/ Queued(x)'
               /\ handler'[x] \in {"unsubscribe", "closed"} => Gone(x)'
    BY <1>1, <1>2 DEF HubKnows, Queued
  <2>2. OnlyGoneLeave'
    BY <1>1, <1>2, Commands DEF HubKnows, OnlyGoneLeave, Gone
  <2> QED BY <2>1, <2>2 DEF HubKnows
<1>3. ASSUME \/ ChangeStep \/ ClientMoves \/ (\E j \in jobs : JobEmits(j))
             \/ \E c \in Clients : \/ ReadKey(c) \/ SeedMirror(c) \/ UpdateMirror(c)
                                   \/ ReseedMirror(c) \/ Leaves(c)
             \/ HubTakesEvent \/ ShutdownByAnother
      PROVE  HubKnows'
  <2>1. UNCHANGED <<hubCmds, subscribers, handler>>
    BY <1>3 DEF ChangeStep, Changes, ClientMoves, JobEmits, ReadKey, SeedMirror, UpdateMirror,
                ReseedMirror, Leaves, HubTakesEvent, ShutdownByAnother, hubVars
  <2> QED BY <1>2, <2>1
<1>4. ASSUME NEW c \in Clients, Connect(c) \/ SendSnapshot(c) PROVE HubKnows'
  BY <1>2, <1>4, ClientState DEF Connect, SendSnapshot, hubVars
<1>5. ASSUME NEW c \in Clients, StreamEvent(c) \/ EndStream(c) PROVE HubKnows'
  BY <1>1, <1>2, <1>5, ClientState DEF StreamEvent, EndStream, hubVars
<1>6. ASSUME NEW c \in Clients, NEW op, NEW h, UNCHANGED <<subscribers, client>>,
             hubCmds' = Append(hubCmds, [op |-> op, sub |-> c]),
             handler' = [handler EXCEPT ![c] = h],
             \/ op = "subscribe" /\ h = "snapshot"
             \/ op = "unsubscribe" /\ h = "closed" /\ Gone(c)
      PROVE  HubKnows'
  <2> DEFINE cmd == [op |-> op, sub |-> c]
  <2>1. /\ Len(hubCmds) \in Nat /\ Len(hubCmds') = Len(hubCmds) + 1
        /\ hubCmds'[Len(hubCmds) + 1] = cmd
        /\ \A i \in 1 .. Len(hubCmds) : hubCmds'[i] = hubCmds[i]
    BY <1>6, Commands
  <2>2. cmd.op = op /\ cmd.sub = c
    OBVIOUS
  <2> HIDE DEF cmd
  <2>3. OnlyGoneLeave'
    <3>1. ASSUME NEW i \in 1 .. Len(hubCmds'), hubCmds'[i].op = "unsubscribe"
          PROVE  client'[hubCmds'[i].sub].pc \in Finished
      <4>1. CASE i = Len(hubCmds) + 1
        BY <1>1, <1>6, <2>1, <2>2, <3>1, <4>1
      <4>2. CASE i \in 1 .. Len(hubCmds)
        BY <1>1, <2>1, <3>1, <4>2, Commands DEF HubKnows, OnlyGoneLeave, Gone
      <4> QED BY <2>1, <4>1, <4>2
    <3> QED BY <3>1 DEF OnlyGoneLeave
  <2>4. ASSUME NEW x \in Clients, Queued(x) \/ (x = c /\ op = "subscribe") PROVE Queued(x)'
    <3>1. CASE Queued(x)
      <4>1. PICK i \in 1 .. Len(hubCmds) : hubCmds[i].op = "subscribe" /\ hubCmds[i].sub = x
        BY <3>1 DEF Queued
      <4>2. i \in 1 .. Len(hubCmds') /\ hubCmds'[i] = hubCmds[i]
        BY <2>1
      <4> QED BY <4>1, <4>2 DEF Queued
    <3>2. CASE x = c /\ op = "subscribe"
      <4>1. Len(hubCmds) + 1 \in 1 .. Len(hubCmds')
        BY <2>1
      <4> QED BY <2>1, <2>2, <3>2, <4>1 DEF Queued
    <3> QED BY <2>4, <3>1, <3>2
  <2>5. ASSUME NEW x \in Clients
        PROVE  /\ handler'[x] \in {"snapshot", "stream"} /\ ~Gone(x)'
                    => x \in subscribers' \/ Queued(x)'
               /\ handler'[x] \in {"unsubscribe", "closed"} => Gone(x)'
    <3>1. CASE x = c
      <4>1. handler'[x] = h
        BY <1>6, <3>1, ClientState
      <4> QED BY <1>1, <1>6, <2>4, <3>1, <4>1
    <3>2. CASE x # c
      <4>1. handler'[x] = handler[x]
        BY <1>6, <3>2, ClientState
      <4> QED BY <1>1, <1>6, <2>4, <4>1 DEF HubKnows
    <3> QED BY <3>1, <3>2
  <2> QED BY <2>3, <2>5 DEF HubKnows
<1>7. ASSUME NEW c \in Clients, QueueSubscription(c) \/ Unsubscribe(c) PROVE HubKnows'
  <2>1. CASE QueueSubscription(c)
    BY <1>1, <1>6, <2>1 DEF QueueSubscription, clientVars
  <2>2. CASE Unsubscribe(c)
    <3>1. Gone(c)
      BY <1>1, <2>2 DEF Unsubscribe, HubKnows
    <3> QED BY <1>1, <1>6, <2>2, <3>1 DEF Unsubscribe, clientVars
  <2> QED BY <1>7, <2>1, <2>2
<1>8. CASE HubTakesCommand
  <2> DEFINE cmd == hubCmds[1]
  <2>1. /\ Len(hubCmds) \in Nat \ {0} /\ Len(hubCmds') = Len(hubCmds) - 1
        /\ \A i \in 1 .. Len(hubCmds') : hubCmds'[i] = hubCmds[i + 1]
        /\ cmd.op \in {"subscribe", "unsubscribe"} /\ cmd.sub \in Clients
    <3>1. hubCmds # << >> /\ hubCmds' = Tail(hubCmds)
      BY <1>8 DEF HubTakesCommand
    <3>2. Len(hubCmds) \in Nat \ {0}
      BY <3>1, Commands
    <3>3. 1 \in 1 .. Len(hubCmds)
      BY <3>2
    <3> QED BY <3>1, <3>2, <3>3, Commands
  <2>2. /\ subscribers' = IF cmd.op = "subscribe" THEN subscribers \cup {cmd.sub}
                          ELSE subscribers \ {cmd.sub}
        /\ UNCHANGED <<handler, client>>
    BY <1>8, Commands DEF HubTakesCommand, clientVars
  <2>3. cmd.op = "unsubscribe" => Gone(cmd.sub)
    <3>1. 1 \in 1 .. Len(hubCmds)
      BY <2>1
    <3> QED BY <1>1, <3>1 DEF HubKnows, OnlyGoneLeave, Gone
  <2> HIDE DEF cmd
  <2>4. OnlyGoneLeave'
    <3>1. \A i \in 1 .. Len(hubCmds') : i + 1 \in 1 .. Len(hubCmds)
      BY <2>1
    <3> QED BY <2>1, <2>2, <3>1, <1>1 DEF HubKnows, OnlyGoneLeave
  <2>5. ASSUME NEW x \in Clients, x \in subscribers \/ Queued(x), ~Gone(x)
        PROVE  x \in subscribers' \/ Queued(x)'
    <3>1. CASE x \in subscribers
      BY <2>1, <2>2, <2>3, <2>5, <3>1
    <3>2. CASE Queued(x)
      <4>1. PICK i \in 1 .. Len(hubCmds) : hubCmds[i].op = "subscribe" /\ hubCmds[i].sub = x
        BY <3>2 DEF Queued
      <4>2. CASE i = 1
        BY <2>2, <4>1, <4>2 DEF cmd
      <4>3. CASE i # 1
        <5>1. i - 1 \in 1 .. Len(hubCmds') /\ hubCmds'[i - 1] = hubCmds[i]
          BY <2>1, <4>3
        <5> QED BY <4>1, <5>1 DEF Queued
      <4> QED BY <4>2, <4>3
    <3> QED BY <2>5, <3>1, <3>2
  <2> QED BY <1>1, <2>2, <2>4, <2>5 DEF HubKnows
<1>9. ~ShutdownEnds
  BY DEF ShutdownEnds, Runs
<1> QED BY <1>3, <1>4, <1>5, <1>7, <1>8, <1>9 DEF Kinds, ServerMoves

\* A subscription comes into the queue from the handler only.
LEMMA QueuedBefore ==
  ASSUME IInv, Kinds, NEW x \in Clients, Queued(x)'
  PROVE  Queued(x) \/ QueueSubscription(x)
<1>1. PICK i \in 1 .. Len(hubCmds') : hubCmds'[i].op = "subscribe" /\ hubCmds'[i].sub = x
  BY DEF Queued
<1>2. CASE UNCHANGED hubCmds
  BY <1>1, <1>2 DEF Queued
<1>3. ASSUME NEW c \in Clients, NEW op, hubCmds' = Append(hubCmds, [op |-> op, sub |-> c])
      PROVE  Queued(x) \/ (x = c /\ op = "subscribe")
  <2>1. /\ Len(hubCmds) \in Nat /\ Len(hubCmds') = Len(hubCmds) + 1
        /\ hubCmds'[Len(hubCmds) + 1] = [op |-> op, sub |-> c]
        /\ \A n \in 1 .. Len(hubCmds) : hubCmds'[n] = hubCmds[n]
    BY <1>3, Commands
  <2>2. CASE i = Len(hubCmds) + 1
    BY <1>1, <2>1, <2>2
  <2>3. CASE i \in 1 .. Len(hubCmds)
    BY <1>1, <2>1, <2>3 DEF Queued
  <2> QED BY <2>1, <2>2, <2>3
<1>4. ASSUME NEW c \in Clients, QueueSubscription(c) \/ Unsubscribe(c)
      PROVE  Queued(x) \/ QueueSubscription(x)
  <2>1. CASE UNCHANGED hubCmds
    BY <1>2, <2>1
  <2>2. CASE QueueSubscription(c)
    BY <1>2, <1>3, <2>2 DEF QueueSubscription
  <2>3. CASE Unsubscribe(c)
    BY <1>2, <1>3, <2>3 DEF Unsubscribe
  <2> QED BY <1>4, <2>2, <2>3
<1>5. CASE HubTakesCommand
  <2>1. /\ Len(hubCmds) \in Nat \ {0} /\ Len(hubCmds') = Len(hubCmds) - 1
        /\ hubCmds'[i] = hubCmds[i + 1]
    BY <1>5, Commands DEF HubTakesCommand
  <2>2. i + 1 \in 1 .. Len(hubCmds)
    BY <2>1
  <2> QED BY <1>1, <2>1, <2>2 DEF Queued
<1>6. CASE ShutdownEnds
  BY <1>1, <1>6 DEF ShutdownEnds
<1>7. ASSUME \/ ChangeStep \/ ClientMoves \/ (\E j \in jobs : JobEmits(j))
             \/ \E c \in Clients : \/ Connect(c) \/ ReadKey(c) \/ SendSnapshot(c)
                                   \/ StreamEvent(c) \/ EndStream(c) \/ SeedMirror(c)
                                   \/ UpdateMirror(c) \/ ReseedMirror(c) \/ Leaves(c)
             \/ HubTakesEvent \/ ShutdownByAnother
      PROVE  UNCHANGED hubCmds
  BY <1>7 DEF ChangeStep, Changes, ClientMoves, JobEmits, Connect, ReadKey, SendSnapshot,
              StreamEvent, EndStream, SeedMirror, UpdateMirror, ReseedMirror, Leaves,
              HubTakesEvent, ShutdownByAnother, hubVars
<1> QED BY <1>2, <1>4, <1>5, <1>6, <1>7 DEF Kinds, ServerMoves

LEMMA UnheardStep ==
  ASSUME IInv, Kinds, Runs', NEW x \in Clients, handler'[x] \in {"none", "subscribe"}
  PROVE  x \notin subscribers' /\ ~Queued(x)' /\ subCh'[x] = << >>
<1>1. handler[x] \in {"none", "subscribe"} /\ ~QueueSubscription(x)
  <2>1. CASE UNCHANGED handler
    <3>1. ~QueueSubscription(x)
      BY <2>1, ClientState DEF QueueSubscription
    <3> QED BY <2>1, <3>1
  <2>2. ASSUME NEW c \in Clients, Connect(c)
        PROVE  handler[x] \in {"none", "subscribe"} /\ ~QueueSubscription(x)
    <3>1. handler[x] \in {"none", "subscribe"}
      BY <2>2, ClientState DEF Connect, InStep
    <3>2. ~QueueSubscription(x)
      BY <2>2, ClientState DEF Connect, QueueSubscription, clientVars, ClientRecord
    <3> QED BY <3>1, <3>2
  <2>3. ASSUME NEW c \in Clients, ServerMoves(c)
        PROVE  handler[x] \in {"none", "subscribe"} /\ ~QueueSubscription(x)
    <3>1. handler'[c] \notin {"none", "subscribe"} \/ UNCHANGED handler
      BY <2>3, ClientState DEF ServerMoves, QueueSubscription, ReadKey, SendSnapshot, StreamEvent,
                               Unsubscribe, EndStream
    <3>2. x # c => handler'[x] = handler[x]
      BY <2>3, OthersSame
    <3>3. ~QueueSubscription(x)
      BY ClientState DEF QueueSubscription
    <3> QED BY <3>1, <3>2, <3>3
  <2>4. ASSUME \/ ChangeStep \/ ClientMoves \/ (\E j \in jobs : JobEmits(j))
               \/ \E c \in Clients : \/ SeedMirror(c) \/ UpdateMirror(c) \/ ReseedMirror(c)
                                     \/ Leaves(c)
               \/ HubTakesCommand \/ HubTakesEvent \/ ShutdownByAnother \/ ShutdownEnds
        PROVE  UNCHANGED handler
    BY <2>4 DEF ChangeStep, Changes, ClientMoves, JobEmits, SeedMirror, UpdateMirror,
                ReseedMirror, Leaves, HubTakesCommand, HubTakesEvent, ShutdownByAnother,
                ShutdownEnds
  <2> QED BY <2>1, <2>2, <2>3, <2>4 DEF Kinds
<1>2. x \notin subscribers /\ ~Queued(x) /\ subCh[x] = << >>
  BY <1>1, StillRuns DEF Unheard
<1>3. ~Queued(x)'
  BY <1>1, <1>2, QueuedBefore
<1>4. x \notin subscribers'
  <2>1. CASE HubTakesCommand
    <3>1. /\ 1 \in 1 .. Len(hubCmds)
          /\ subscribers' \subseteq subscribers \/ hubCmds[1].op = "subscribe"
          /\ subscribers' \subseteq subscribers \cup {hubCmds[1].sub}
      <4>1. hubCmds # << >> /\ Len(hubCmds) \in Nat \ {0} /\ Head(hubCmds) = hubCmds[1]
        BY <2>1, Commands DEF HubTakesCommand
      <4> QED BY <2>1, <4>1 DEF HubTakesCommand
    <3>2. hubCmds[1].op = "subscribe" => hubCmds[1].sub # x
      BY <1>2, <3>1 DEF Queued
    <3> QED BY <1>2, <3>1, <3>2
  <2>2. CASE ShutdownEnds
    BY <2>2 DEF ShutdownEnds
  <2>3. ASSUME \/ ChangeStep \/ ClientMoves \/ (\E j \in jobs : JobEmits(j))
               \/ \E c \in Clients : \/ Connect(c) \/ ServerMoves(c) \/ SeedMirror(c)
                                     \/ UpdateMirror(c) \/ ReseedMirror(c) \/ Leaves(c)
               \/ HubTakesEvent \/ ShutdownByAnother
        PROVE  UNCHANGED subscribers
    BY <2>3 DEF ChangeStep, Changes, ClientMoves, JobEmits, Connect, ServerMoves,
                QueueSubscription, ReadKey, SendSnapshot, StreamEvent, Unsubscribe, EndStream,
                SeedMirror, UpdateMirror, ReseedMirror, Leaves, HubTakesEvent,
                ShutdownByAnother, hubVars
  <2> QED BY <1>2, <2>1, <2>2, <2>3 DEF Kinds
<1>5. subCh'[x] = << >>
  <2>1. CASE HubTakesEvent
    BY <1>2, <2>1 DEF HubTakesEvent
  <2>2. CASE ShutdownEnds
    BY <2>2 DEF ShutdownEnds
  <2>3. ASSUME NEW c \in Clients, StreamEvent(c) PROVE subCh'[x] = << >>
    BY <1>2, <2>3, ClientState DEF StreamEvent
  <2>4. ASSUME \/ ChangeStep \/ ClientMoves \/ (\E j \in jobs : JobEmits(j))
               \/ \E c \in Clients : \/ Connect(c) \/ QueueSubscription(c) \/ ReadKey(c)
                                     \/ SendSnapshot(c) \/ Unsubscribe(c) \/ EndStream(c)
                                     \/ SeedMirror(c) \/ UpdateMirror(c) \/ ReseedMirror(c)
                                     \/ Leaves(c)
               \/ HubTakesCommand \/ ShutdownByAnother
        PROVE  UNCHANGED subCh
    BY <2>4 DEF ChangeStep, Changes, ClientMoves, JobEmits, Connect, QueueSubscription, ReadKey,
                SendSnapshot, Unsubscribe, EndStream, SeedMirror, UpdateMirror, ReseedMirror,
                Leaves, HubTakesCommand, ShutdownByAnother, hubVars
  <2> QED BY <1>2, <2>1, <2>2, <2>3, <2>4 DEF Kinds, ServerMoves
<1> QED BY <1>3, <1>4, <1>5

-----------------------------------------------------------------------------
(* How a client catches up *)

LEMMA Places ==
  ASSUME IInv, NEW x \in Clients
  PROVE  /\ truth \in [Keys -> Seen] /\ \A k \in Keys : truth[k].at \in Nat
         /\ jobs \subseteq Job /\ \A j \in jobs : j.ev \in Event
         /\ events \in Seq(Event) /\ subCh[x] \in Seq(Event) /\ stream[x] \in Seq(Message)
         /\ \A ev \in Event : ev.key \in Keys
         /\ unseen \in [Clients -> SUBSET Keys]
BY Facts, Queues DEF Shape, Seen, Job, Event

\* What may come between without being noticed: nothing moves on the way to x, and
\* nothing of k changes.
Undisturbed(x, k) ==
  /\ truth'[k] = truth[k]
  /\ truth[k].at \in Unannounced => truth[k].at \in Unannounced'
  /\ events' = events /\ subCh'[x] = subCh[x] /\ stream'[x] = stream[x]
  /\ k \in unseen[x] => k \in unseen'[x]

\* What x holds of k is what it held, or newest.
HeldStays(x, k) ==
  k \in DOMAIN Held(x)' => \/ Held(x)'[k].at = truth'[k].at
                           \/ k \in DOMAIN Held(x) /\ Held(x)'[k] = Held(x)[k]

LEMMA Unmoved ==
  ASSUME NEW x \in Clients, NEW k \in Keys, CatchesUp(x, k), Undisturbed(x, k),
         HeldStays(x, k) \/ k \in unseen'[x]
  PROVE  CatchesUp(x, k)'
<1>1. LastIsNewest(x, k) => LastIsNewest(x, k)'
  BY DEF LastIsNewest, Undisturbed
<1>2. NothingComes(x, k) => NothingComes(x, k)'
  BY DEF NothingComes, Undisturbed
<1>3. HoldsNewest(x, k) /\ HeldStays(x, k) => HoldsNewest(x, k)'
  BY DEF HoldsNewest, HeldStays, Undisturbed
<1>4. /\ k \in unseen[x] => k \in unseen'[x]
      /\ truth[k].at \in Unannounced => truth'[k].at \in Unannounced'
  BY DEF Undisturbed
<1> QED BY <1>1, <1>2, <1>3, <1>4 DEF CatchesUp

\* Steps that leave x and its part of the snapshot alone.
LEMMA SameHeld ==
  ASSUME IInv, NEW x \in Clients, NEW k \in Keys, Same(x)
  PROVE  HeldStays(x, k)
<1>1. Held(x)' = Held(x)
  BY DEF Held, Same
<1> QED BY <1>1 DEF HeldStays

\* A client at work looks at its mirror.
LEMMA LiveHeld ==
  ASSUME IInv, NEW x \in Clients, client[x].pc \in Live
  PROVE  Held(x) = mirror[x] /\ handler[x] # "snapshot"
BY ClientState DEF Held, InStep, Live

LEMMA SameOrLive ==
  ASSUME IInv, NEW x \in Clients, NEW k \in Keys,
         handler'[x] = handler[x], stream'[x] = stream[x], mirror'[x] = mirror[x],
         client'[x].pc = client[x].pc \/ {client[x].pc, client'[x].pc} \subseteq Live,
         snap'[x] = snap[x] \/ client[x].pc \in Live
  PROVE  HeldStays(x, k)
<1>1. CASE client[x].pc \in Live
  <2>1. Held(x)' = mirror'[x]
    BY <1>1, LiveHeld DEF Held, Live
  <2> QED BY <1>1, <2>1, LiveHeld DEF HeldStays
<1>2. CASE client[x].pc \notin Live
  BY <1>2, SameHeld DEF Same
<1> QED BY <1>1, <1>2

LEMMA ChangeCatches ==
  ASSUME IInv, ChangeStep, NEW x \in Clients, NEW k \in Keys, CatchesUp(x, k)
  PROVE  CatchesUp(x, k)'
<1>1. PICK c \in Keys, s \in States, to \in SUBSET States, old \in SUBSET jobs :
        Changes(c, s, to, old)
  BY DEF ChangeStep
<1>2. /\ truth'[c].at = writes + 1 /\ \A y \in Keys \ {c} : truth'[y] = truth[y]
      /\ NewJob(c, s, to).pc = "emit" /\ NewJob(c, s, to).ev.at = writes + 1
      /\ unseen'[x] = unseen[x] \ {c}
  <2>1. /\ truth'[c].at = writes + 1 /\ \A y \in Keys \ {c} : truth'[y] = truth[y]
        /\ NewJob(c, s, to).pc = "emit" /\ NewJob(c, s, to).ev.at = writes + 1
    BY <1>1, Changed
  <2>2. \A y \in Clients : unseen'[y] = unseen[y] \ {c}
    BY <1>1, Changed
  <2> QED BY <2>1, <2>2
<1>3. jobs' = (jobs \ old) \cup {NewJob(c, s, to)} /\ \A j \in old : j.pc = "set"
  BY <1>1 DEF Changes
<1>4. CASE k = c
  BY <1>2, <1>3, <1>4 DEF CatchesUp, Unannounced
<1>5. CASE k # c
  <2>1. Unannounced \subseteq Unannounced'
    BY <1>3 DEF Unannounced
  <2>2. Undisturbed(x, k)
    BY <1>1, <1>2, <1>5, <2>1 DEF Changes, hubVars, Undisturbed
  <2>3. HeldStays(x, k)
    BY <1>1, SameOrLive DEF Changes, PcsKept
  <2> QED BY <2>2, <2>3, Unmoved
<1> QED BY <1>4, <1>5

LEMMA EmitCatches ==
  ASSUME IInv, NEW j \in jobs, JobEmits(j), NEW x \in Clients, NEW k \in Keys, CatchesUp(x, k)
  PROVE  CatchesUp(x, k)'
<1> DEFINE ev   == j.ev
           last == truth[ev.key].at \notin Unannounced \ {ev.at}
<1>1. /\ ev \in Event /\ events \in Seq(Event)
      /\ ev.at = truth[k].at => ev.key = k
  BY Places DEF IInv, NumbersUnique
<1>2. /\ events' = events \/ events' = Append(events, ev)
      /\ Newest(ev) /\ last => ev.key \in unseen'[x] \/ events' = Append(events, ev)
      /\ ~Newest(ev) /\ last => ev.key \in unseen'[x] \/ events' = events
      /\ unseen[x] \subseteq unseen'[x]
  BY <1>1, Hides DEF JobEmits, Emit
<1>3. Unannounced \ {ev.at} \subseteq Unannounced'
  BY DEF JobEmits, Unannounced
<1>4. /\ UNCHANGED <<truth, subCh, stream>> /\ Same(x)
  BY DEF JobEmits, hubVars, clientVars, Same
<1> HIDE DEF ev, last
<1>5. CASE events' = events /\ (truth[k].at \in Unannounced => truth[k].at # ev.at)
  BY <1>2, <1>3, <1>4, <1>5, Unmoved, SameHeld DEF Undisturbed
<1>6. CASE ev.key # k
  <2>1. truth[k].at \in Unannounced => truth[k].at \in Unannounced'
    BY <1>1, <1>3, <1>6
  <2>2. CASE events' = events
    BY <1>1, <1>5, <1>6, <2>2
  <2>3. CASE events' = Append(events, ev)
    <3>1. /\ NoneIn(k, events') <=> NoneIn(k, events)
          /\ \A n : EndsIn(k, events, n) => EndsIn(k, events', n)
      BY <1>1, <1>6, <2>3, AppendEvent
    <3>2. LastIsNewest(x, k) => LastIsNewest(x, k)'
      BY <1>4, <3>1 DEF LastIsNewest
    <3>3. NothingComes(x, k) => NothingComes(x, k)'
      BY <1>4, <3>1 DEF NothingComes
    <3>4. HoldsNewest(x, k) => HoldsNewest(x, k)'
      BY <1>4, SameHeld DEF HoldsNewest, HeldStays
    <3> QED BY <1>2, <1>4, <2>1, <3>2, <3>3, <3>4 DEF CatchesUp
  <2> QED BY <1>2, <2>2, <2>3
<1>7. CASE ev.key = k
  <2>1. CASE ~last
    <3>1. truth'[k].at \in Unannounced'
      BY <1>3, <1>4, <1>7, <2>1 DEF last
    <3> QED BY <3>1 DEF CatchesUp
  <2>2. CASE last /\ Newest(ev)
    <3>1. CASE k \in unseen'[x]
      BY <3>1 DEF CatchesUp
    <3>2. CASE events' = Append(events, ev)
      <4>1. EndsIn(k, events', truth'[k].at)
        BY <1>1, <1>4, <1>7, <2>2, <3>2, AppendEvent DEF Newest
      <4> QED BY <4>1 DEF CatchesUp, LastIsNewest
    <3> QED BY <1>2, <1>7, <2>2, <3>1, <3>2
  <2>3. CASE last /\ ~Newest(ev)
    <3>1. CASE k \in unseen'[x]
      BY <3>1 DEF CatchesUp
    <3>2. CASE events' = events
      BY <1>5, <1>7, <2>3, <3>2 DEF Newest
    <3> QED BY <1>2, <1>7, <2>3, <3>1, <3>2
  <2> QED BY <2>1, <2>2, <2>3
<1> QED BY <1>6, <1>7

LEMMA FanOutCatches ==
  ASSUME IInv, Runs, HubTakesEvent, NEW x \in Clients, NEW k \in Keys, ~Gone(x), CatchesUp(x, k)
  PROVE  CatchesUp(x, k)'
<1> DEFINE ev   == Head(events)
           late == {hubCmds[i].sub : i \in 1 .. Len(hubCmds)} \ subscribers
<1>1. /\ ev \in Event /\ events \in Seq(Event) /\ events # << >> /\ events' = Tail(events)
      /\ subCh[x] \in Seq(Event)
  BY Queues DEF HubTakesEvent
<1>2. /\ x \in subscribers \ Full(ev) => subCh'[x] = Append(subCh[x], ev)
      /\ x \notin subscribers \ Full(ev) => subCh'[x] = subCh[x]
      /\ unseen' = IF Newest(ev) THEN Hide(Full(ev) \cup late, ev) ELSE unseen
  BY DEF HubTakesEvent
<1>3. /\ unseen[x] \subseteq unseen'[x]
      /\ Newest(ev) /\ x \in Full(ev) \cup late => ev.key \in unseen'[x]
  BY <1>1, <1>2, Hides
<1>4. /\ UNCHANGED <<truth, jobs, stream>> /\ Same(x)
  BY DEF HubTakesEvent, engineVars, clientVars, Same
<1>5. Queued(x) => x \in late \cup subscribers
  BY DEF Queued
<1> HIDE DEF ev, late
<1>6. UNCHANGED Unannounced /\ (HoldsNewest(x, k) => HoldsNewest(x, k)')
  BY <1>4, SameHeld DEF Unannounced, HoldsNewest, HeldStays
<1>7. /\ NoneIn(k, events) => NoneIn(k, events') /\ ev.key # k
      /\ \A n : EndsIn(k, events, n) =>
           EndsIn(k, events', n) \/ (NoneIn(k, events') /\ ev.key = k /\ ev.at = n)
  BY <1>1, TailOfEvents DEF ev
<1>8. CASE x \in subscribers \ Full(ev)
  <2>1. /\ NoneIn(k, subCh'[x]) <=> NoneIn(k, subCh[x]) /\ ev.key # k
        /\ ev.key = k => EndsIn(k, subCh'[x], ev.at)
        /\ \A n : ev.key # k /\ EndsIn(k, subCh[x], n) => EndsIn(k, subCh'[x], n)
    <3>1. PICK q \in Seq(Event) : q = subCh[x]
      BY <1>1
    <3>2. /\ NoneIn(k, Append(q, ev)) <=> NoneIn(k, q) /\ ev.key # k
          /\ ev.key = k => EndsIn(k, Append(q, ev), ev.at)
          /\ \A n : ev.key # k /\ EndsIn(k, q, n) => EndsIn(k, Append(q, ev), n)
      BY <1>1, AppendEvent
    <3>3. subCh'[x] = Append(q, ev)
      BY <1>2, <1>8, <3>1
    <3> QED BY <3>1, <3>2, <3>3
  <2>2. LastIsNewest(x, k) => LastIsNewest(x, k)'
    BY <1>4, <1>7, <2>1 DEF LastIsNewest
  <2>3. NothingComes(x, k) => NothingComes(x, k)'
    BY <1>4, <1>7, <2>1 DEF NothingComes
  <2> QED BY <1>3, <1>4, <1>6, <2>2, <2>3 DEF CatchesUp
<1>9. CASE x \notin subscribers \ Full(ev)
  <2>1. subCh'[x] = subCh[x]
    BY <1>2, <1>9
  <2>2. NothingComes(x, k) => NothingComes(x, k)'
    BY <1>4, <1>7, <2>1 DEF NothingComes
  <2>3. CASE LastIsNewest(x, k)
    <3>1. CASE EndsIn(k, events, truth[k].at)
      <4>1. CASE EndsIn(k, events', truth[k].at)
        BY <1>4, <4>1 DEF CatchesUp, LastIsNewest
      <4>2. CASE ev.key = k /\ ev.at = truth[k].at /\ x \in Full(ev) \cup late
        BY <1>3, <4>2 DEF CatchesUp, Newest
      <4>3. CASE NoneIn(k, events') /\ x \notin Full(ev) \cup late
        \* The handler of x has not come to its subscription yet.
        <5>1. x \notin subscribers /\ ~Queued(x)
          BY <1>5, <1>9, <4>3
        <5>2. handler[x] \in {"none", "subscribe"}
          BY <5>1, ClientState DEF IInv, HubKnows, Runs
        <5>3. subCh[x] = << >> /\ stream[x] = << >> /\ Held(x) = NoSnapshot
          BY <5>2, ClientState DEF IInv, Unheard, Runs, InStep, Held, Live
        <5>4. NothingComes(x, k)'
          BY <1>4, <2>1, <4>3, <5>3 DEF NothingComes, NoneIn, NoneOf
        <5>5. HoldsNewest(x, k)'
          BY <1>4, <5>3, SameHeld, NoneRead DEF HeldStays, HoldsNewest
        <5> QED BY <5>4, <5>5 DEF CatchesUp
      <4> QED BY <1>7, <3>1, <4>1, <4>2, <4>3
    <3>2. CASE ~EndsIn(k, events, truth[k].at)
      <4>1. LastIsNewest(x, k)'
        BY <1>4, <1>7, <2>1, <2>3, <3>2 DEF LastIsNewest
      <4> QED BY <4>1 DEF CatchesUp
    <3> QED BY <3>1, <3>2
  <2> QED BY <1>3, <1>4, <1>6, <2>2, <2>3 DEF CatchesUp
<1> QED BY <1>8, <1>9

LEMMA StreamCatches ==
  ASSUME IInv, NEW x \in Clients, StreamEvent(x), NEW k \in Keys, ~Gone(x), CatchesUp(x, k)
  PROVE  CatchesUp(x, k)'
<1> DEFINE ev == Head(subCh[x])
           m  == [event |-> ev]
<1>1. /\ ev \in Event /\ subCh[x] \in Seq(Event) /\ subCh[x] # << >>
      /\ subCh'[x] = Tail(subCh[x])
      /\ stream[x] \in Seq(Message) /\ stream'[x] = Append(stream[x], m)
      /\ handler[x] = "stream" /\ handler' = handler
  BY Queues, ClientState DEF StreamEvent
<1>2. UNCHANGED <<truth, jobs, events, unseen, client, mirror, snap>>
  BY DEF StreamEvent, engineVars, clientVars
<1>3. m \in EventMsg /\ m \in Message /\ m.event = ev
  BY <1>1 DEF EventMsg, Message
<1> HIDE DEF ev, m
<1>4. Of(m, k) <=> ev.key = k
  BY <1>3 DEF Of
<1>5. /\ NoneIn(k, subCh[x]) => NoneIn(k, subCh'[x]) /\ ev.key # k
      /\ \A n : EndsIn(k, subCh[x], n) =>
           EndsIn(k, subCh'[x], n) \/ (NoneIn(k, subCh'[x]) /\ ev.key = k /\ ev.at = n)
  <2>1. PICK q \in Seq(Event) : q = subCh[x]
    BY <1>1
  <2>2. /\ NoneIn(k, q) => NoneIn(k, Tail(q)) /\ Head(q).key # k
        /\ \A n : EndsIn(k, q, n) =>
             EndsIn(k, Tail(q), n) \/ (NoneIn(k, Tail(q)) /\ Head(q).key = k /\ Head(q).at = n)
    BY <1>1, <2>1, TailOfEvents
  <2>3. subCh'[x] = Tail(q) /\ ev = Head(q)
    BY <1>1, <2>1 DEF ev
  <2> QED BY <2>1, <2>2, <2>3
<1>6. /\ NoneOf(k, stream'[x]) <=> NoneOf(k, stream[x]) /\ ev.key # k
      /\ ev.key = k => EndsOf(k, stream'[x], ev.at)
      /\ \A n : ev.key # k /\ EndsOf(k, stream[x], n) => EndsOf(k, stream'[x], n)
  BY <1>1, <1>3, <1>4, AppendMessage
<1>7. Held(x)' = Held(x)
  <2>1. stream[x] # << >> => stream'[x] # << >> /\ stream'[x][1] = stream[x][1]
    <3>1. \A q \in Seq(Message) : q # << >> =>
            \A n : Append(q, n) # << >> /\ Append(q, n)[1] = q[1]
      OBVIOUS
    <3> QED BY <1>1, <3>1
  <2> QED BY <1>1, <1>2, <2>1, ClientState DEF Held, InStep
<1>8. LastIsNewest(x, k) => LastIsNewest(x, k)'
  BY <1>2, <1>5, <1>6 DEF LastIsNewest
<1>9. NothingComes(x, k) => NothingComes(x, k)'
  BY <1>2, <1>5, <1>6 DEF NothingComes
<1>10. UNCHANGED Unannounced /\ (HoldsNewest(x, k) => HoldsNewest(x, k)')
  BY <1>2, <1>7 DEF HoldsNewest, Unannounced
<1> QED BY <1>2, <1>8, <1>9, <1>10 DEF CatchesUp

LEMMA SendCatches ==
  ASSUME IInv, NEW x \in Clients, SendSnapshot(x), NEW k \in Keys, CatchesUp(x, k)
  PROVE  CatchesUp(x, k)'
<1> DEFINE m == [snapshot |-> snap[x]]
<1>1. /\ stream[x] = << >> /\ stream'[x] = Append(stream[x], m)
      /\ handler[x] = "snapshot" /\ handler'[x] = "stream" /\ client[x].pc = "connecting"
      /\ snap[x] \in [Keys -> Seen]
  BY ClientState DEF SendSnapshot, InStep, Complete
<1>2. UNCHANGED <<truth, jobs, events, unseen, client, mirror, subCh>>
  BY DEF SendSnapshot, engineVars, hubVars, clientVars
<1>3. m \in SnapshotMsg /\ m.snapshot = snap[x]
  BY <1>1 DEF SnapshotMsg
<1> HIDE DEF m
<1>4. ~Of(m, k)
  BY <1>3, Messages DEF Of
<1>5. Len(stream'[x]) = 1 /\ stream'[x][1] = m /\ stream'[x] # << >>
  BY <1>1
<1>6. Held(x)' = Held(x)
  BY <1>1, <1>2, <1>3, <1>5 DEF Held
<1>7. NoneOf(k, stream'[x]) /\ ~\E n : EndsOf(k, stream[x], n)
  BY <1>1, <1>4, <1>5 DEF NoneOf, EndsOf
<1>8. LastIsNewest(x, k) => LastIsNewest(x, k)'
  BY <1>2, <1>7 DEF LastIsNewest
<1>9. NothingComes(x, k) => NothingComes(x, k)'
  BY <1>2, <1>7 DEF NothingComes
<1>10. UNCHANGED Unannounced /\ (HoldsNewest(x, k) => HoldsNewest(x, k)')
  BY <1>2, <1>6 DEF HoldsNewest, Unannounced
<1> QED BY <1>2, <1>8, <1>9, <1>10 DEF CatchesUp

LEMMA MirrorCatches ==
  ASSUME IInv, NEW x \in Clients, SeedMirror(x) \/ UpdateMirror(x), NEW k \in Keys,
         CatchesUp(x, k)
  PROVE  CatchesUp(x, k)'
<1>1. /\ stream[x] # << >> /\ stream'[x] = Tail(stream[x]) /\ stream[x] \in Seq(Message)
      /\ Head(stream[x]) = stream[x][1]
      /\ handler'[x] = handler[x] /\ handler[x] # "snapshot"
      /\ UNCHANGED <<truth, jobs, events, unseen, subCh>>
  BY OnStreamStep, Queues, ClientState DEF SeedMirror, UpdateMirror, engineVars, hubVars, InStep
<1>2. client'[x].pc \in Live
  BY OnStreamStep DEF Live
<1>3. Held(x)' = mirror'[x]
  BY <1>1, <1>2 DEF Held, Live
<1>4. /\ NoneOf(k, stream[x]) => NoneOf(k, stream'[x]) /\ ~Of(stream[x][1], k)
      /\ \A n : EndsOf(k, stream[x], n) =>
           \/ EndsOf(k, stream'[x], n)
           \/ NoneOf(k, stream'[x]) /\ Of(stream[x][1], k) /\ stream[x][1].event.at = n
  BY <1>1, TailOfMessages
<1>5. HoldsNewest(x, k) /\ ~Of(stream[x][1], k) => HoldsNewest(x, k)'
  <2>1. CASE SeedMirror(x)
    <3>1. Held(x) = mirror'[x]
      BY <1>1, <2>1, OnStreamStep DEF Held
    <3> QED BY <1>1, <1>3, <3>1 DEF HoldsNewest
  <2>2. CASE UpdateMirror(x)
    <3> DEFINE ev == stream[x][1].event
    <3>1. /\ Held(x) = mirror[x] /\ mirror[x] \in [Keys -> Seen] /\ stream[x][1] \in EventMsg
          /\ mirror'[x] = [mirror[x] EXCEPT ![ev.key] = [state |-> ev.state, at |-> ev.at]]
      BY <2>2, OnStreamStep, LiveHeld
    <3>2. ~Of(stream[x][1], k) => ev.key # k
      BY <3>1 DEF Of
    <3> HIDE DEF ev
    <3> QED BY <1>1, <1>3, <3>1, <3>2 DEF HoldsNewest
  <2> QED BY <2>1, <2>2
<1>6. Of(stream[x][1], k) /\ stream[x][1].event.at = truth[k].at => HoldsNewest(x, k)'
  <2>1. CASE SeedMirror(x)
    BY <2>1, OnStreamStep, Messages DEF Of
  <2>2. CASE UpdateMirror(x)
    <3> DEFINE ev == stream[x][1].event
    <3>1. /\ mirror[x] \in [Keys -> Seen]
          /\ mirror'[x] = [mirror[x] EXCEPT ![ev.key] = [state |-> ev.state, at |-> ev.at]]
          /\ Of(stream[x][1], k) => ev.key = k
      BY <2>2, OnStreamStep DEF Of
    <3> HIDE DEF ev
    <3>2. Of(stream[x][1], k) => mirror'[x][k].at = ev.at
      BY <3>1
    <3> QED BY <1>1, <1>3, <3>2 DEF HoldsNewest, ev
  <2> QED BY <2>1, <2>2
<1>7. UNCHANGED Unannounced
  BY <1>1 DEF Unannounced
<1>8. CASE LastIsNewest(x, k)
  BY <1>1, <1>4, <1>6, <1>8 DEF CatchesUp, LastIsNewest, NothingComes
<1>9. CASE NothingComes(x, k) /\ HoldsNewest(x, k)
  BY <1>1, <1>4, <1>5, <1>9 DEF CatchesUp, NothingComes
<1> QED BY <1>1, <1>7, <1>8, <1>9 DEF CatchesUp

\* A reload puts an older state into the mirror only if it is one of those that the
\* client cannot learn of.
LEMMA ReseedCatches ==
  ASSUME IInv, NEW x \in Clients, ReseedMirror(x), NEW k \in Keys, CatchesUp(x, k)
  PROVE  CatchesUp(x, k)'
<1>1. /\ client[x].pc = "reading" /\ client'[x].pc = "watching"
      /\ handler' = handler /\ stream' = stream /\ mirror'[x] = snap[x]
      /\ snap[x] \in [Keys -> Seen] /\ mirror[x] \in [Keys -> Seen]
  BY ClientState DEF ReseedMirror, Complete, Goto, ClientRecord, InStep, Live
<1>2. /\ Held(x) = mirror[x] /\ Held(x)' = snap[x]
  BY <1>1, LiveHeld DEF Held, Live
<1>3. /\ UNCHANGED <<truth, jobs, events, subCh>>
      /\ unseen'[x] = unseen[x] \cup Overwritten(x)
  BY Places DEF ReseedMirror, engineVars, hubVars
<1>4. UNCHANGED Unannounced /\ Undisturbed(x, k)
  BY <1>1, <1>3 DEF Unannounced, Undisturbed
<1>5. /\ snap[x][k].at <= truth[k].at /\ snap[x][k].at \in Nat /\ truth[k].at \in Nat
  BY <1>1, Places DEF IInv, SnapshotsRead, Seen
<1>6. HoldsNewest(x, k) => HoldsNewest(x, k)' \/ k \in unseen'[x]
  BY <1>1, <1>2, <1>3, <1>5 DEF HoldsNewest, Overwritten
<1>7. LastIsNewest(x, k) => LastIsNewest(x, k)'
  BY <1>1, <1>3 DEF LastIsNewest
<1>8. NothingComes(x, k) => NothingComes(x, k)'
  BY <1>1, <1>3 DEF NothingComes
<1> QED BY <1>3, <1>4, <1>6, <1>7, <1>8 DEF CatchesUp

\* The other steps.
LEMMA OtherCatches ==
  ASSUME IInv, NEW x \in Clients, NEW k \in Keys, CatchesUp(x, k), ~Gone(x)',
         \/ ClientMoves
         \/ \E c \in Clients : \/ Connect(c) \/ QueueSubscription(c) \/ ReadKey(c)
                               \/ Unsubscribe(c) \/ EndStream(c) \/ Leaves(c)
                               \/ c # x /\ \/ SendSnapshot(c) \/ StreamEvent(c) \/ SeedMirror(c)
                                           \/ UpdateMirror(c) \/ ReseedMirror(c)
         \/ HubTakesCommand \/ ShutdownByAnother
  PROVE  CatchesUp(x, k)'
<1>1. UNCHANGED <<truth, jobs, events>> => UNCHANGED <<truth, events, Unannounced>>
  BY DEF Unannounced
<1>2. CASE ClientMoves
  <2>1. Undisturbed(x, k)
    BY <1>1, <1>2 DEF ClientMoves, engineVars, hubVars, Undisturbed
  <2>2. HeldStays(x, k)
    BY <1>2, SameOrLive DEF ClientMoves, PcsKept, SnapsDropped
  <2> QED BY <2>1, <2>2, Unmoved
<1>3. CASE HubTakesCommand \/ ShutdownByAnother
  <2>1. Undisturbed(x, k) /\ Same(x)
    BY <1>1, <1>3 DEF HubTakesCommand, ShutdownByAnother, engineVars, hubVars, clientVars,
                      Undisturbed, Same
  <2> QED BY <2>1, SameHeld, Unmoved
<1>4. ASSUME NEW c \in Clients, c # x,
             \/ Connect(c) \/ QueueSubscription(c) \/ ReadKey(c) \/ Unsubscribe(c) \/ EndStream(c)
             \/ SendSnapshot(c) \/ StreamEvent(c) \/ SeedMirror(c) \/ UpdateMirror(c)
             \/ ReseedMirror(c)
      PROVE  CatchesUp(x, k)'
  <2>1. Same(x)
    BY <1>4, OthersRead DEF ServerMoves
  <2>2. /\ UNCHANGED <<truth, jobs, events>> /\ subCh'[x] = subCh[x]
        /\ unseen'[x] = unseen[x]
    BY <1>4, ClientState, Places
       DEF Connect, QueueSubscription, ReadKey, Unsubscribe, EndStream, SendSnapshot, StreamEvent,
           SeedMirror, UpdateMirror, ReseedMirror, engineVars, hubVars
  <2>3. Undisturbed(x, k)
    BY <1>1, <2>1, <2>2 DEF Undisturbed, Same
  <2> QED BY <2>1, <2>3, SameHeld, Unmoved
<1>5. ASSUME NEW c \in Clients, Leaves(c) PROVE CatchesUp(x, k)'
  <2>1. c # x
    <3>1. PICK how \in Finished : Exit(c, how)
      BY <1>5 DEF Leaves
    <3>2. client'[c].pc = how
      BY <3>1, ClientState DEF Exit, NoClient
    <3> QED BY <3>1, <3>2 DEF Gone
  <2>2. /\ handler'[x] = handler[x] /\ client'[x].pc = client[x].pc /\ stream'[x] = stream[x]
        /\ mirror'[x] = mirror[x]
    BY <1>5, <2>1, OthersSame
  <2>3. snap'[x] = snap[x] \/ client[x].pc \in Live
    BY <1>5 DEF Leaves, SnapsDropped
  <2>4. Undisturbed(x, k)
    BY <1>1, <1>5, <2>2 DEF Leaves, engineVars, hubVars, Undisturbed
  <2> QED BY <2>2, <2>3, <2>4, SameOrLive, Unmoved
<1>6. CASE Connect(x) \/ QueueSubscription(x) \/ ReadKey(x) \/ Unsubscribe(x) \/ EndStream(x)
  <2>1. /\ UNCHANGED <<truth, jobs, events, subCh, stream, mirror, unseen>>
    BY <1>6 DEF Connect, QueueSubscription, ReadKey, Unsubscribe, EndStream, engineVars, hubVars,
                clientVars
  <2>2. Undisturbed(x, k)
    BY <1>1, <2>1 DEF Undisturbed
  <2>3. CASE Connect(x) \/ QueueSubscription(x)
    <3>1. /\ snap'[x] = NoSnapshot /\ stream'[x] = << >> /\ mirror'[x] = NoSnapshot
          /\ handler'[x] = "closed" \/ handler'[x] \in {"subscribe", "snapshot"}
      BY <2>3, ClientState DEF Connect, QueueSubscription, InStep, Live, clientVars
    <3>2. Held(x)' = NoSnapshot
      BY <3>1 DEF Held
    <3> QED BY <2>2, <3>2, NoneRead, Unmoved DEF HeldStays
  <2>4. CASE ReadKey(x)
    <3>1. UNCHANGED <<handler, client>>
      BY <2>4 DEF ReadKey, clientVars
    <3>2. CASE handler[x] = "snapshot"
      <4>1. PICK y \in Keys : snap'[x] = [z \in DOMAIN snap[x] \cup {y} |->
                                          IF z = y THEN truth[y] ELSE snap[x][z]]
        BY <2>4, ClientState DEF ReadKey
      <4>2. Held(x) = snap[x] /\ Held(x)' = snap'[x]
        BY <3>1, <3>2 DEF Held
      <4> QED BY <2>1, <2>2, <4>1, <4>2, Unmoved DEF HeldStays
    <3>3. CASE handler[x] # "snapshot"
      <4>1. Held(x)' = Held(x)
        BY <2>1, <3>1, <3>3 DEF Held
      <4> QED BY <2>2, <4>1, Unmoved DEF HeldStays
    <3> QED BY <3>2, <3>3
  <2>5. CASE Unsubscribe(x) \/ EndStream(x)
    <3>1. /\ UNCHANGED <<client, snap>> /\ handler[x] # "snapshot" /\ handler'[x] # "snapshot"
      BY <2>5, ClientState DEF Unsubscribe, EndStream, clientVars
    <3>2. Held(x)' = Held(x)
      BY <2>1, <3>1 DEF Held
    <3> QED BY <2>2, <3>2, Unmoved DEF HeldStays
  <2> QED BY <1>6, <2>3, <2>4, <2>5
<1> QED BY <1>2, <1>3, <1>4, <1>5, <1>6

LEMMA CatchUpStep ==
  ASSUME IInv, Kinds, Runs', NEW x \in Clients, NEW k \in Keys, ~Gone(x)'
  PROVE  CatchesUp(x, k)'
<1>1. Runs /\ ~Gone(x) /\ CatchesUp(x, k)
  BY StillRuns, GoneStays DEF AllCatchUp
<1>2. ~ShutdownEnds
  BY DEF ShutdownEnds, Runs
<1>3. ASSUME ChangeStep \/ (\E j \in jobs : JobEmits(j)) \/ HubTakesEvent
      PROVE  CatchesUp(x, k)'
  BY <1>1, <1>3, ChangeCatches, EmitCatches, FanOutCatches
<1>4. ASSUME \/ StreamEvent(x) \/ SendSnapshot(x) \/ SeedMirror(x) \/ UpdateMirror(x)
             \/ ReseedMirror(x)
      PROVE  CatchesUp(x, k)'
  BY <1>1, <1>4, StreamCatches, SendCatches, MirrorCatches, ReseedCatches
<1>5. ASSUME \/ ClientMoves
             \/ \E c \in Clients : \/ Connect(c) \/ QueueSubscription(c) \/ ReadKey(c)
                                   \/ Unsubscribe(c) \/ EndStream(c) \/ Leaves(c)
                                   \/ c # x /\ \/ SendSnapshot(c) \/ StreamEvent(c)
                                               \/ SeedMirror(c) \/ UpdateMirror(c)
                                               \/ ReseedMirror(c)
             \/ HubTakesCommand \/ ShutdownByAnother
      PROVE  CatchesUp(x, k)'
  BY <1>1, <1>5, OtherCatches
<1> QED BY <1>2, <1>3, <1>4, <1>5 DEF Kinds, ServerMoves

-----------------------------------------------------------------------------
(* The invariant *)

LEMMA IInvInit == Init => IInv
<1> SUFFICES ASSUME Init PROVE IInv
  OBVIOUS
<1>1. [NoClient EXCEPT !.pc = "off"] \in ClientRecord /\ NoClient = [NoClient EXCEPT !.pc = "off"]
  BY NoClientShape DEF NoClient
<1>2. Shape
  <2>1. truth \in [Keys -> Seen]
    BY DEF Init, Seen, EnvStates, CmdStates
  <2>2. events \in Seq(Event) /\ hubCmds \in Seq([op : {"subscribe", "unsubscribe"}, sub : Clients])
    BY DEF Init
  <2>3. subCh \in [Clients -> Seq(Event)] /\ stream \in [Clients -> Seq(SnapshotMsg \cup EventMsg)]
    BY DEF Init
  <2> QED BY <1>1, <2>1, <2>2, <2>3 DEF Init, Shape
<1>3. Capacities
  BY MirrorConstants, FS_EmptySet DEF Init, Capacities
<1>4. ClientAndHandler
  BY DEF Init, ClientAndHandler, InStep, NoClient, Live, Finished
<1>5. SnapshotFirst
  BY DEF Init, SnapshotFirst, InOrderOn
<1>6. SnapshotsRead
  BY NoneRead DEF Init, SnapshotsRead
<1>7. NumbersUnique
  BY DEF Init, NumbersUnique
<1>8. HubKnows /\ Unheard
  BY DEF Init, HubKnows, OnlyGoneLeave, Unheard, Queued
<1>9. AllCatchUp
  <2>1. ASSUME NEW c \in Clients, NEW k \in Keys PROVE CatchesUp(c, k)
    <3>1. NothingComes(c, k)
      BY DEF Init, NothingComes, NoneIn, NoneOf
    <3>2. Held(c) = NoSnapshot
      BY DEF Init, Held
    <3> QED BY <3>1, <3>2, NoneRead DEF CatchesUp, HoldsNewest
  <2> QED BY <2>1 DEF AllCatchUp
<1> QED BY <1>2, <1>3, <1>4, <1>5, <1>6, <1>7, <1>8, <1>9 DEF IInv

LEMMA IInvStep == IInv /\ [Next]_vars => IInv'
<1> SUFFICES ASSUME IInv, [Next]_vars PROVE IInv'
  OBVIOUS
<1>1. CASE Kinds
  <2>1. Shape' /\ NumbersUnique' /\ SnapshotsRead'
    BY <1>1, ShapeStep, NumbersStep, SnapshotsReadStep
  <2>2. Capacities'
    BY <1>1, InboxStep, JobsFitStep, QueuesFitStep DEF Capacities, InboxFits, JobsFit, QueuesFit
  <2>3. ClientAndHandler' /\ SnapshotFirst'
    BY <1>1, InStepStep, SnapshotFirstStep DEF ClientAndHandler, SnapshotFirst
  <2>4. Runs' => HubKnows' /\ Unheard' /\ AllCatchUp'
    BY <1>1, HubKnowsStep, UnheardStep, CatchUpStep DEF Unheard, AllCatchUp
  <2> QED BY <2>1, <2>2, <2>3, <2>4 DEF IInv, Runs
<1>2. CASE UNCHANGED vars
  BY <1>2 DEF vars, engineVars, hubVars, clientVars, IInv, Shape, Capacities, ClientAndHandler,
              InStep, SnapshotFirst, InOrderOn, SnapshotsRead, NumbersUnique, HubKnows,
              OnlyGoneLeave, Unheard, Queued, AllCatchUp, Gone, CatchesUp, LastIsNewest,
              NothingComes, HoldsNewest, Held, NoneIn, EndsIn, NoneOf, EndsOf, Unannounced
<1> QED BY <1>1, <1>2, StepKinds

-----------------------------------------------------------------------------
(* Theorems *)

\* In every reachable state, of an instance of any size: what is on the way to a client
\* is in order, fits its channel, and what it will have once it has taken all of it is
\* newest, but for the keys whose newest change it cannot learn of.
THEOREM Invariant == Spec => []IInv
BY IInvInit, IInvStep, PTL DEF Spec

\* TypeOK: the types, and no channel ever holds more than it has room for (cap of
\* Engine.events, hubCmds, eventHubBuffer, clientEventBuffer).
THEOREM TypeCorrect == Spec => []TypeOK
<1>1. ASSUME IInv PROVE TypeOK
  <2>1. truth \in [Keys -> Seen] /\ writes \in Nat /\ subscribers \subseteq Clients
        /\ server \in {"serving", "teardown", "done"}
    BY <1>1 DEF IInv, Shape
  <2>2. \A j \in jobs : j.pc \in {"emit", "set"} /\ j.ev \in Event
    BY <1>1 DEF IInv, Shape, Job
  <2>3. /\ Cardinality(jobs) <= MaxJobs /\ Len(events) <= EngineBuffer /\ Len(hubCmds) <= HubBuffer
    BY <1>1 DEF IInv, Capacities
  <2>4. ASSUME NEW c \in Clients
        PROVE  /\ Len(subCh[c]) <= SubBuffer /\ Len(stream[c]) <= SocketBuffer
               /\ inbox[c] \in 0 .. ClientBuffer
               /\ handler[c] \in {"none", "subscribe", "snapshot", "stream", "unsubscribe", "closed"}
               /\ DOMAIN snap[c] \subseteq Keys /\ \A k \in DOMAIN snap[c] : snap[c][k] \in Seen
               /\ mirror[c] = NoSnapshot \/ mirror[c] \in [Keys -> Seen]
               /\ client[c].pc \in {"off", "connecting"} \cup Live \cup Finished
    <3>1. /\ Len(subCh[c]) <= SubBuffer /\ Len(stream[c]) <= SocketBuffer
          /\ inbox[c] \in 0 .. ClientBuffer
      BY <1>1 DEF IInv, Capacities
    <3>2. /\ handler[c] \in {"none", "subscribe", "snapshot", "stream", "unsubscribe", "closed"}
          /\ DOMAIN snap[c] \subseteq Keys /\ \A k \in DOMAIN snap[c] : snap[c][k] \in Seen
          /\ client[c].pc \in {"off", "connecting"} \cup Live \cup Finished
      BY <1>1, ClientState
    <3>3. mirror[c] = NoSnapshot \/ mirror[c] \in [Keys -> Seen]
      BY <1>1, ClientState DEF InStep
    <3> QED BY <3>1, <3>2, <3>3
  <2> QED BY <2>1, <2>2, <2>3, <2>4 DEF TypeOK, Live
<1> QED BY <1>1, Invariant, PTL

\* MirrorExplained: whatever the sizes of the channels, the number of clients, the order
\* of announcements and the sessions, the mirror of a client that has not exited is behind
\* the engine only while the newest change is on its way, or where an event found a
\* channel full, was followed by an older one, was fanned out while the subscription was
\* queued, or was overwritten by a reload (emit, runHub, handleSubscribe, Reload).
THEOREM MirrorIsExplained == Spec => []MirrorExplained
<1>1. ASSUME IInv, NEW c \in Clients, NEW k \in Keys, Following(c), server = "serving"
      PROVE  mirror[c][k].at = truth[k].at \/ OnTheWay(c, k) \/ k \in unseen[c]
  <2>1. client[c].pc \in Live /\ mirror[c] \in [Keys -> Seen]
    BY <1>1, ClientState DEF Following, InStep
  <2>2. Held(c) = mirror[c]
    BY <1>1, <2>1, LiveHeld
  <2>3. CatchesUp(c, k)
    BY <1>1 DEF IInv, AllCatchUp, Gone, Following
  <2>4. LastIsNewest(c, k) => OnTheWay(c, k)
    BY DEF LastIsNewest, OnTheWay, EndsIn, EndsOf, Of
  <2>5. HoldsNewest(c, k) => mirror[c][k].at = truth[k].at
    BY <2>1, <2>2 DEF HoldsNewest
  <2>6. truth[k].at \in Unannounced => OnTheWay(c, k)
    BY DEF OnTheWay
  <2> QED BY <2>3, <2>4, <2>5, <2>6 DEF CatchesUp
<1>2. IInv => MirrorExplained
  BY <1>1 DEF MirrorExplained
<1> QED BY <1>2, Invariant, PTL
=============================================================================
