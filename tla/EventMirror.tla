---------------------------- MODULE EventMirror ----------------------------
(***************************************************************************)
(* How a client of the daemon follows the engine (internal/daemon:         *)
(* runHub, handleSubscribe, buildSnapshot, runEventStream, seedMirror, and *)
(* the waits of the headless commands).                                    *)
(*                                                                         *)
(* A state change is made under the engine's lock and announced after it:  *)
(* engine channel -> hub -> subscriber channel -> socket -> mirror ->      *)
(* event channel of the client.  Every channel is bounded and every send   *)
(* but the one on the socket gives up when there is no room.  A subscriber *)
(* gets a snapshot first, read key by key while the engine runs.           *)
(*                                                                         *)
(* The engine is reduced to what it announces: the states of environments  *)
(* and commands and the goroutines that change them.                       *)
(***************************************************************************)
EXTENDS Integers, FiniteSets, Sequences

CONSTANTS
  Clients,      \* client processes; each connects once
  Envs, Cmds,   \* environments and commands
  WorkflowCmds, \* WorkflowCmds[e]: the commands of e
  Sessions,     \* what the clients come for
  \* Sizes of the channels: events, hubCmds, eventHubBuffer, the socket,
  \* clientEventBuffer.
  EngineBuffer, HubBuffer, SubBuffer, SocketBuffer, ClientBuffer,
  InOrder,      \* TRUE: a change is announced before the next one is made
  MaxJobs,      \* bound: goroutines that change states at one time
  MaxWrites     \* bound: states change by themselves while there were fewer changes

AllSessions == {"run", "stop", "restart", "shutdown", "reload"}
Keys == Envs \cup Cmds

ASSUME MirrorConstants ==
  /\ Envs \cap Cmds = {} /\ Envs # {}
  /\ WorkflowCmds \in [Envs -> SUBSET Cmds]
  /\ Sessions \subseteq AllSessions
  /\ {EngineBuffer, HubBuffer, SubBuffer, SocketBuffer, ClientBuffer}
       \subseteq Nat \ {0}
  /\ InOrder \in BOOLEAN /\ {MaxJobs, MaxWrites} \subseteq Nat

VARIABLES
  truth,       \* the engine's state of each key, with the number of its change
  writes,      \* changes so far
  jobs,        \* the engine goroutines that are changing a state
  events,      \* Engine.events
  hubCmds,     \* server.hubCmds
  subscribers, \* runHub's subscribers
  subCh,       \* subCh of each subscriber
  stream,      \* what is on the way on each event-stream connection
  handler,     \* handleSubscribe of each client
  snap,        \* the part of a snapshot that has been read
  server,      \* shutdown: "serving", "teardown", "done"
  client,      \* session, key and progress of each client
  mirror,      \* the mirror of each client
  forwarding,  \* the mirror is updated, the event not yet forwarded
  inbox,       \* how many events c.events holds; nobody reads what they say
  closed,      \* c.events is closed
  unseen       \* history: the keys whose newest change a client cannot learn of

engineVars == <<truth, writes, jobs>>
hubVars    == <<hubCmds, subscribers, subCh>>
clientVars == <<client, mirror, forwarding, inbox, closed>>
vars == <<engineVars, events, hubVars, stream, handler, snap, server, clientVars, unseen>>

EnvStates == {"stopped", "starting", "running", "error", "stopping"}
CmdStates == {"pending", "healthy", "restarting", "error"}

NoSnapshot == << >>
Finished   == {"ok", "failed"}

\* A client, from Connect on: what it came for, the change it asked for, and
\* whether WaitForCmdSettled trusts its mirror.
NoClient == [session |-> "run", key |-> CHOOSE e \in Envs : TRUE, pc |-> "off",
             asked |-> 0, trusted |-> FALSE]

Init ==
  /\ truth = [k \in Keys |-> [state |-> IF k \in Envs THEN "stopped" ELSE "pending",
                              at    |-> 0]]
  /\ writes = 0 /\ jobs = {}
  /\ events = << >> /\ hubCmds = << >> /\ subscribers = {}
  /\ subCh = [c \in Clients |-> << >>]
  /\ stream = [c \in Clients |-> << >>]
  /\ handler = [c \in Clients |-> "none"]
  /\ snap = [c \in Clients |-> NoSnapshot]
  /\ server = "serving"
  /\ client = [c \in Clients |-> NoClient]
  /\ mirror = [c \in Clients |-> NoSnapshot]
  /\ forwarding = [c \in Clients |-> FALSE]
  /\ inbox = [c \in Clients |-> 0]
  /\ closed = [c \in Clients |-> FALSE]
  /\ unseen = [c \in Clients |-> {}]

Serving == server # "done"
Goto(c, label) == client' = [client EXCEPT ![c].pc = label]

\* The process is gone, and its memory with it.
Exit(c, how) ==
  /\ client' = [client EXCEPT ![c] = [NoClient EXCEPT !.pc = how]]
  /\ mirror' = [mirror EXCEPT ![c] = NoSnapshot]
  /\ forwarding' = [forwarding EXCEPT ![c] = FALSE]
  /\ inbox' = [inbox EXCEPT ![c] = 0]
  /\ closed' = [closed EXCEPT ![c] = FALSE]
  /\ stream' = [stream EXCEPT ![c] = << >>]

-----------------------------------------------------------------------------
(* Plausible mistakes, each of which some property detects *)

\* The snapshot is built before the subscription is queued.
ReadingFirst(c) ==
  (handler[c] = "subscribe" /\ Len(hubCmds) < HubBuffer) \/ client[c].pc = "reading"

\* An unbuffered c.events: an event is lost unless the client waits for it.
ForwardUnbuffered(c) ==
  inbox[c] = 0 /\ client[c].pc \in {"waiting", "watching", "draining"}

\* runEventStream returns without closing c.events.
LeaveOpen(c) == closed' = closed

-----------------------------------------------------------------------------
(* The engine: setCmdState, setEnvState, emit *)

\* The change is made under the lock ...
Change(k, s) ==
  /\ writes' = writes + 1
  /\ truth' = [truth EXCEPT ![k] = [state |-> s, at |-> writes + 1]]
  /\ unseen' = [c \in Clients |-> unseen[c] \ {k}]

\* ... and announced by a later step.  A job changes a state, announces it and
\* goes on to change it into one of `to`.
NewJob(k, s, to) ==
  [pc |-> "emit", ev |-> [key |-> k, state |-> s, at |-> writes + 1], to |-> to]

\* The changes whose events have not been sent yet.
Unannounced == {j.ev.at : j \in {i \in jobs : i.pc = "emit"}}
MayChange   == InOrder => Unannounced = {}

Newest(ev)   == ev.at = truth[ev.key].at
Hide(cs, ev) == [c \in Clients |-> IF c \in cs THEN unseen[c] \cup {ev.key} ELSE unseen[c]]

\* The event is sent without the lock: into the channel, or nowhere.  No mirror
\* is sure to catch up if the newest event of a key is dropped, or an older one
\* is sent after it.
Emit(ev) ==
  LET sent == Len(events) < EngineBuffer
      last == truth[ev.key].at \notin Unannounced \ {ev.at}
  IN /\ events' = IF sent THEN Append(events, ev) ELSE events
     /\ unseen' = IF sent # Newest(ev) /\ last THEN Hide(Clients, ev) ELSE unseen

\* The end of a start, a stop or a restart.
JobChanges(j) ==
  /\ j.pc = "set" /\ MayChange
  /\ \E s \in j.to :
       /\ Change(j.ev.key, s)
       /\ jobs' = (jobs \ {j}) \cup {NewJob(j.ev.key, s, {})}
  /\ UNCHANGED <<events, hubVars, stream, handler, snap, server, clientVars>>

JobEmits(j) ==
  /\ j.pc = "emit"
  /\ Emit(j.ev)
  /\ jobs' = (jobs \ {j}) \cup (IF j.to = {} THEN {} ELSE {[j EXCEPT !.pc = "set"]})
  /\ UNCHANGED <<truth, writes, hubVars, stream, handler, snap, server, clientVars>>

\* A command fails or is restarted by its supervisor, a roll-up finds an
\* environment changed.
EngineActs ==
  /\ Cardinality(jobs) < MaxJobs /\ Serving /\ MayChange
  /\ writes < MaxWrites
  /\ \E k \in Keys :
       \E s \in IF k \in Envs THEN {"running", "error"} ELSE {"error", "restarting"} :
         /\ k \in Envs => truth[k].state \notin {"stopped", "stopping"}
         /\ s # truth[k].state
         /\ Change(k, s)
         /\ jobs' = jobs \cup
              {NewJob(k, s, IF s = "restarting" THEN {"healthy", "error"} ELSE {})}
  /\ UNCHANGED <<events, hubVars, stream, handler, snap, server, clientVars>>

-----------------------------------------------------------------------------
(* The server: handleSubscribe and runHub *)

\* What ends a handler.  (ctx.Done() does too: see DaemonLifecycle.)
Closing == server = "done"

QueueSubscription(c) ==
  /\ handler[c] = "subscribe"
  /\ \/ /\ Len(hubCmds) < HubBuffer
        /\ hubCmds' = Append(hubCmds, [op |-> "subscribe", sub |-> c])
        /\ handler' = [handler EXCEPT ![c] = "snapshot"]
     \/ /\ Closing
        /\ handler' = [handler EXCEPT ![c] = "closed"]
        /\ UNCHANGED hubCmds
  /\ UNCHANGED <<engineVars, events, subscribers, subCh, stream, snap, server,
                 clientVars, unseen>>

\* buildSnapshot reads for a new subscriber, or for the snapshot RPC.
Reading(c) == handler[c] = "snapshot" \/ client[c].pc = "reading"

\* buildSnapshot: one key at a time, each under the lock of its own, the
\* environments first.
ReadKey(c) ==
  /\ Reading(c)
  /\ \E k \in Keys \ DOMAIN snap[c] :
       /\ k \in Cmds => Envs \subseteq DOMAIN snap[c]
       /\ snap' = [snap EXCEPT ![c] = [x \in DOMAIN @ \cup {k} |->
                                      IF x = k THEN truth[k] ELSE @[x]]]
  /\ UNCHANGED <<engineVars, events, hubVars, stream, handler, server, clientVars,
                 unseen>>

Complete(c) == DOMAIN snap[c] = Keys
Room(c)     == Len(stream[c]) < SocketBuffer
Gone(c)     == client[c].pc \in Finished  \* its process has exited

SendSnapshot(c) ==
  /\ handler[c] = "snapshot" /\ Complete(c) /\ Room(c)
  /\ stream' = [stream EXCEPT ![c] = Append(@, [snapshot |-> snap[c]])]
  /\ snap' = [snap EXCEPT ![c] = NoSnapshot]
  /\ handler' = [handler EXCEPT ![c] = "stream"]
  /\ UNCHANGED <<engineVars, events, hubVars, server, clientVars, unseen>>

StreamEvent(c) ==
  /\ handler[c] = "stream" /\ subCh[c] # << >>
  /\ subCh' = [subCh EXCEPT ![c] = Tail(@)]
  /\ \/ /\ ~Gone(c) /\ Room(c)
        /\ stream' = [stream EXCEPT ![c] = Append(@, [event |-> Head(subCh[c])])]
        /\ UNCHANGED handler
     \/ /\ Gone(c)  \* the write fails
        /\ handler' = [handler EXCEPT ![c] = "unsubscribe"]
        /\ UNCHANGED stream
  /\ UNCHANGED <<engineVars, events, hubCmds, subscribers, snap, server, clientVars,
                 unseen>>

Unsubscribe(c) ==
  /\ handler[c] = "unsubscribe"
  /\ \/ /\ Len(hubCmds) < HubBuffer
        /\ hubCmds' = Append(hubCmds, [op |-> "unsubscribe", sub |-> c])
     \/ Closing /\ UNCHANGED hubCmds
  /\ handler' = [handler EXCEPT ![c] = "closed"]
  /\ UNCHANGED <<engineVars, events, subscribers, subCh, stream, snap, server,
                 clientVars, unseen>>

\* The handler returns, which closes the connection.
EndStream(c) ==
  /\ handler[c] = "stream" /\ Closing
  /\ handler' = [handler EXCEPT ![c] = "unsubscribe"]
  /\ UNCHANGED <<engineVars, events, hubVars, stream, snap, server, clientVars, unseen>>

\* (Once the server closes the hub may return before any of its steps.)
HubTakesCommand ==
  /\ hubCmds # << >>
  /\ hubCmds' = Tail(hubCmds)
  /\ LET cmd == Head(hubCmds)
     IN subscribers' = IF cmd.op = "subscribe" THEN subscribers \cup {cmd.sub}
                       ELSE subscribers \ {cmd.sub}
  /\ UNCHANGED <<engineVars, events, subCh, stream, handler, snap, server, clientVars,
                 unseen>>

\* The subscribers that do not get ev: their channel is full.
Full(ev) == {c \in subscribers : Len(subCh[c]) = SubBuffer}

\* Fan-out.  A client misses the event if its channel is full, or if its
\* subscription is still on its way to the hub.
HubTakesEvent ==
  /\ events # << >>
  /\ events' = Tail(events)
  /\ LET ev == Head(events)
         full == Full(ev)
         late == {hubCmds[i].sub : i \in 1 .. Len(hubCmds)} \ subscribers
     IN /\ subCh' = [c \in Clients |-> IF c \in subscribers \ full
                                       THEN Append(subCh[c], ev) ELSE subCh[c]]
        /\ unseen' = IF Newest(ev) THEN Hide(full \cup late, ev) ELSE unseen
  /\ UNCHANGED <<engineVars, hubCmds, subscribers, stream, handler, snap, server,
                 clientVars>>

\* A client that is not among Clients asks for the shutdown.
ShutdownByAnother ==
  /\ server = "serving"
  /\ server' = "teardown"
  /\ UNCHANGED <<engineVars, events, hubVars, stream, handler, snap, clientVars, unseen>>

\* ctrl.Shutdown is through, done is closed: Serve returns, and the process
\* ends with all goroutines that are still at work.  (ctrl.Shutdown resets the
\* states without an event, but nobody can read them any more.)
ShutdownEnds ==
  /\ server = "teardown"
  /\ server' = "done"
  /\ jobs' = {} /\ events' = << >> /\ hubCmds' = << >> /\ subscribers' = {}
  /\ subCh' = [c \in Clients |-> << >>]
  /\ UNCHANGED <<truth, writes, stream, handler, snap, clientVars, unseen>>

-----------------------------------------------------------------------------
(* The client: Connect, runEventStream, Reload, the RPCs *)

\* Two connections; the second one asks for the stream.
Connect(c) ==
  /\ client[c].pc = "off" /\ Serving
  /\ \E s \in Sessions, k \in Keys :
       /\ s \in {"run", "stop"} => k \in Envs
       /\ s = "restart" => k \in Cmds
       /\ client' = [client EXCEPT ![c].session = s, ![c].key = k, ![c].pc = "connecting"]
  /\ handler' = [handler EXCEPT ![c] = "subscribe"]
  /\ UNCHANGED <<engineVars, events, hubVars, stream, snap, server, mirror,
                 forwarding, inbox, closed, unseen>>

\* seedMirror with the snapshot of the stream, before runEventStream begins.
SeedMirror(c) ==
  /\ client[c].pc = "connecting" /\ stream[c] # << >>
  /\ mirror' = [mirror EXCEPT ![c] = Head(stream[c]).snapshot]
  /\ stream' = [stream EXCEPT ![c] = Tail(@)]
  /\ Goto(c, "ready")
  /\ UNCHANGED <<engineVars, events, hubVars, handler, snap, server, forwarding,
                 inbox, closed, unseen>>

\* runEventStream: first the mirror ...
UpdateMirror(c) ==
  /\ client[c].pc \notin {"connecting"} \cup Finished
  /\ stream[c] # << >> /\ ~forwarding[c]
  /\ LET ev == Head(stream[c]).event
     IN mirror' = [mirror EXCEPT ![c][ev.key] = [state |-> ev.state, at |-> ev.at]]
  /\ stream' = [stream EXCEPT ![c] = Tail(@)]
  /\ forwarding' = [forwarding EXCEPT ![c] = TRUE]
  /\ UNCHANGED <<engineVars, events, hubVars, handler, snap, server, client, inbox,
                 closed, unseen>>

\* ... then the event, if there is room for it.
HasRoom(c) == inbox[c] < ClientBuffer

ForwardEvent(c) ==
  /\ forwarding[c]
  /\ forwarding' = [forwarding EXCEPT ![c] = FALSE]
  /\ inbox' = [inbox EXCEPT ![c] = IF HasRoom(c) THEN @ + 1 ELSE @]
  /\ UNCHANGED <<engineVars, events, hubVars, stream, handler, snap, server, client,
                 mirror, closed, unseen>>

CloseEvents(c) == closed' = [closed EXCEPT ![c] = TRUE]

\* The end of the stream closes c.events, or fails a Connect.
StreamEnds(c) ==
  /\ handler[c] \in {"unsubscribe", "closed"} /\ stream[c] = << >> /\ ~forwarding[c]
  /\ \/ /\ client[c].pc = "connecting" /\ Exit(c, "failed")
     \/ /\ client[c].pc \notin {"off", "connecting"} \cup Finished
        /\ ~closed[c] /\ CloseEvents(c)
        /\ UNCHANGED <<client, mirror, forwarding, inbox, stream>>
  /\ UNCHANGED <<engineVars, events, hubVars, handler, snap, server, unseen>>

\* StartEnvironment, StopEnvironment, RestartCommand: the handler changes the
\* state, announces it and starts the goroutine that does the work.
First(s)    == CASE s = "run" -> "starting" [] s = "stop" -> "stopping"
                 [] OTHER -> "restarting"
Outcomes(s) == CASE s = "run" -> {"running", "error"} [] s = "stop" -> {"stopped"}
                 [] OTHER -> {"healthy", "error"}

Request(c) ==
  /\ client[c].pc = "ready" /\ client[c].session \in {"run", "stop", "restart"}
  /\ Serving /\ MayChange
  /\ LET k == client[c].key
         s == First(client[c].session)
     IN /\ Cardinality(jobs) < MaxJobs
        /\ Change(k, s)
        /\ jobs' = jobs \cup {NewJob(k, s, Outcomes(client[c].session))}
  /\ client' = [client EXCEPT ![c].pc = "asking", ![c].asked = writes + 1]
  /\ UNCHANGED <<events, hubVars, stream, handler, snap, server, mirror, forwarding,
                 inbox, closed>>

\* The answer comes when the change has been announced.  runRun and
\* runCommandRestart look at the mirror first, runStop waits for an event.
Answered(c) ==
  /\ client[c].pc = "asking" /\ client[c].asked \notin Unannounced
  /\ client' = [client EXCEPT ![c].asked = 0,
                    ![c].pc = IF client[c].session = "stop" THEN "waiting" ELSE "look"]
  /\ UNCHANGED <<engineVars, events, hubVars, stream, handler, snap, server, mirror,
                 forwarding, inbox, closed, unseen>>

\* MethodShutdown is answered at once; the client waits for the stream to end.
RequestShutdown(c) ==
  /\ client[c].pc = "ready" /\ client[c].session = "shutdown" /\ Serving
  /\ server' = IF server = "serving" THEN "teardown" ELSE server
  /\ Goto(c, "draining")
  /\ UNCHANGED <<engineVars, events, hubVars, stream, handler, snap, mirror,
                 forwarding, inbox, closed, unseen>>

\* Reload: after the reload itself the handler reads a second snapshot, which
\* travels on the other connection and replaces the mirror when it arrives.
RequestReload(c) ==
  /\ client[c].pc = "ready" /\ client[c].session = "reload" /\ Serving
  /\ Goto(c, "reading")
  /\ UNCHANGED <<engineVars, events, hubVars, stream, handler, snap, server, mirror,
                 forwarding, inbox, closed, unseen>>

Overwritten(c) ==
  {k \in Keys : snap[c][k].at < mirror[c][k].at /\ mirror[c][k].at = truth[k].at}

ReseedMirror(c) ==
  /\ client[c].pc = "reading" /\ Complete(c)
  /\ mirror' = [mirror EXCEPT ![c] = snap[c]]
  /\ unseen' = [unseen EXCEPT ![c] = @ \cup Overwritten(c)]
  /\ snap' = [snap EXCEPT ![c] = NoSnapshot]
  /\ Goto(c, "watching")
  /\ UNCHANGED <<engineVars, events, hubVars, stream, handler, server, forwarding,
                 inbox, closed>>

\* No answer comes from a daemon that is gone.
RpcFails(c) ==
  /\ client[c].pc \in {"ready", "reading"} /\ ~Serving
  /\ snap' = [snap EXCEPT ![c] = NoSnapshot]
  /\ IF client[c].session \in {"shutdown", "reload"}
     THEN Goto(c, "draining") /\ UNCHANGED <<mirror, forwarding, inbox, closed, stream>>
     ELSE Exit(c, "failed")
  /\ UNCHANGED <<engineVars, events, hubVars, handler, server, unseen>>

-----------------------------------------------------------------------------
(* The waits: WaitForEnvSettled, WaitForCmdSettled, runStop, Shutdown *)

MirrorState(c, k) == mirror[c][k].state

EnvSettled(c, e) ==
  /\ MirrorState(c, e) # "starting"
  /\ \A k \in WorkflowCmds[e] : MirrorState(c, k) # "restarting"

\* WaitForEnvSettled: before the first event it only trusts "running".
RunConclusion(c, first) ==
  IF ~EnvSettled(c, client[c].key) THEN "none"
  ELSE IF MirrorState(c, client[c].key) = "running" THEN "ok"
  ELSE IF first THEN "none" ELSE "failed"

\* runStop waits until the mirror says so.
StopConclusion(c) == IF MirrorState(c, client[c].key) = "stopped" THEN "ok" ELSE "none"

\* WaitForCmdSettled: only a restart that was seen, or waited for, is believed.
RestartConclusion(c, last) ==
  LET state == MirrorState(c, client[c].key)
  IN IF state = "restarting" \/ ~(client[c].trusted \/ last) THEN "none"
     ELSE IF state = "healthy" THEN "ok" ELSE "failed"

\* What the wait of c concludes from its mirror: "none" if it goes on.  `first`
\* is the look before any event, `last` the one after the stream has ended.
Conclusion(c, first, last) ==
  CASE client[c].session = "run"  -> RunConclusion(c, first)
    [] client[c].session = "stop" -> StopConclusion(c)
    [] OTHER                      -> RestartConclusion(c, last)

\* Reads the mirror; a restart is trusted once it has been seen.
Look(c, first) ==
  /\ IF Conclusion(c, first, FALSE) = "none"
     THEN /\ client' = [client EXCEPT ![c].pc = "waiting",
               ![c].trusted = @ \/ /\ client[c].session = "restart"
                                   /\ MirrorState(c, client[c].key) = "restarting"]
          /\ UNCHANGED <<mirror, forwarding, inbox, closed, stream>>
     ELSE Exit(c, Conclusion(c, first, FALSE))
  /\ UNCHANGED <<engineVars, events, hubVars, handler, snap, server, unseen>>

FirstLook(c) == client[c].pc = "look" /\ Look(c, TRUE)
LaterLook(c) == client[c].pc = "woken" /\ Look(c, FALSE)

\* Any event wakes the wait; "watching" (the terminal UI) and "draining" just
\* take it.
TakeEvent(c) ==
  /\ client[c].pc \in {"waiting", "watching", "draining"} /\ inbox[c] > 0
  /\ inbox' = [inbox EXCEPT ![c] = @ - 1]
  /\ client' = [client EXCEPT ![c].pc = IF @ = "waiting" THEN "woken" ELSE @]
  /\ UNCHANGED <<engineVars, events, hubVars, stream, handler, snap, server, mirror,
                 forwarding, closed, unseen>>

\* A closed channel is the last word.
SeeClosed(c) ==
  /\ client[c].pc \in {"waiting", "watching", "draining"} /\ inbox[c] = 0 /\ closed[c]
  /\ Exit(c, IF client[c].pc # "waiting" THEN "ok"
             ELSE IF Conclusion(c, FALSE, TRUE) = "none" THEN "failed"
             ELSE Conclusion(c, FALSE, TRUE))
  /\ UNCHANGED <<engineVars, events, hubVars, handler, snap, server, unseen>>

\* cmdSettleGrace is over: what the mirror says is trusted from now on.
GraceEnds(c) ==
  /\ client[c].pc = "waiting" /\ client[c].session = "restart" /\ ~client[c].trusted
  /\ client' = [client EXCEPT ![c].trusted = TRUE, ![c].pc = "woken"]
  /\ UNCHANGED <<engineVars, events, hubVars, stream, handler, snap, server, mirror,
                 forwarding, inbox, closed, unseen>>

\* --timeout (runStop has none), or an interrupt.
GiveUp(c) ==
  /\ client[c].pc \in {"waiting", "watching", "draining"} /\ Exit(c, "failed")
  /\ UNCHANGED <<engineVars, events, hubVars, handler, snap, server, unseen>>

-----------------------------------------------------------------------------
ServerStep(c) ==
  QueueSubscription(c) \/ ReadKey(c) \/ SendSnapshot(c) \/ StreamEvent(c)
    \/ Unsubscribe(c) \/ EndStream(c)

ClientStep(c) ==
  SeedMirror(c) \/ UpdateMirror(c) \/ ForwardEvent(c) \/ StreamEnds(c)
    \/ Request(c) \/ Answered(c) \/ RequestShutdown(c) \/ RequestReload(c)
    \/ ReseedMirror(c) \/ RpcFails(c) \/ FirstLook(c) \/ LaterLook(c)
    \/ TakeEvent(c) \/ SeeClosed(c) \/ GraceEnds(c)

JobStep == \E j \in jobs : JobChanges(j) \/ JobEmits(j)

Next ==
  \/ JobStep \/ EngineActs
  \/ \E c \in Clients : Connect(c) \/ ServerStep(c) \/ ClientStep(c) \/ GiveUp(c)
  \/ HubTakesCommand \/ HubTakesEvent \/ ShutdownByAnother \/ ShutdownEnds

Spec == Init /\ [][Next]_vars

\* Goroutines are scheduled and jobs end (CommandSupervisor!OperationsEnd).
\* Nothing makes a client connect, a user give up or the engine act by itself.
Fairness ==
  /\ WF_vars(JobStep)
  /\ \A c \in Clients : WF_vars(ServerStep(c)) /\ WF_vars(ClientStep(c))
                        /\ WF_vars(UpdateMirror(c) \/ ForwardEvent(c) \/ StreamEnds(c))
  /\ WF_vars(HubTakesCommand) /\ WF_vars(HubTakesEvent) /\ WF_vars(ShutdownEnds)

FairSpec == Spec /\ Fairness

-----------------------------------------------------------------------------
(* Properties *)

Event == [key : Keys, state : EnvStates \cup CmdStates, at : Nat]
Seen  == [state : EnvStates \cup CmdStates, at : Nat]

\* Types, and the capacity of every channel.
TypeOK ==
  /\ truth \in [Keys -> Seen] /\ writes \in Nat
  /\ \A j \in jobs : j.pc \in {"emit", "set"} /\ j.ev \in Event
  /\ Cardinality(jobs) <= MaxJobs
  /\ Len(events) <= EngineBuffer /\ Len(hubCmds) <= HubBuffer
  /\ subscribers \subseteq Clients
  /\ \A c \in Clients :
       /\ Len(subCh[c]) <= SubBuffer /\ Len(stream[c]) <= SocketBuffer
       /\ handler[c] \in {"none", "subscribe", "snapshot", "stream", "unsubscribe", "closed"}
       /\ DOMAIN snap[c] \subseteq Keys /\ \A k \in DOMAIN snap[c] : snap[c][k] \in Seen
       /\ mirror[c] = NoSnapshot \/ mirror[c] \in [Keys -> Seen]
       /\ inbox[c] \in 0 .. ClientBuffer
       /\ client[c].pc \in {"off", "connecting", "ready", "asking", "reading", "look",
                            "waiting", "woken", "watching", "draining"} \cup Finished
  /\ server \in {"serving", "teardown", "done"}

\* The newest change of k is on its way to c.
OnTheWay(c, k) ==
  LET new(ev) == ev.key = k /\ ev.at = truth[k].at
  IN \/ truth[k].at \in Unannounced
     \/ \E i \in 1 .. Len(events) : new(events[i])
     \/ \E i \in 1 .. Len(subCh[c]) : new(subCh[c][i])
     \/ \E i \in 1 .. Len(stream[c]) : new(stream[c][i].event)

Following(c) == mirror[c] # NoSnapshot /\ ~closed[c] /\ client[c].pc \notin Finished

\* A mirror is behind the engine only while the newest change is on its way,
\* or for one of four reasons: an event found a channel full, an older event
\* of the key was sent after it, it was fanned out while the subscription was
\* queued at the hub, or a reload put an older snapshot over it.  Where the
\* events are forwarded, and what the client does, never matters.
MirrorExplained ==
  \A c \in Clients, k \in Keys :
    Following(c) /\ server = "serving" =>
      \/ mirror[c][k].at = truth[k].at
      \/ OnTheWay(c, k)
      \/ k \in unseen[c]

\* What c waits for is so in the engine, for every key it looks at.
Awaited(c) ==
  LET k == client[c].key
  IN CASE client[c].session = "run" ->
            truth[k].state # "starting"
              /\ \A x \in WorkflowCmds[k] : truth[x].state # "restarting"
       [] client[c].session = "stop" -> truth[k].state = "stopped"
       [] OTHER -> truth[k].state # "restarting"

\* No wait goes on for ever once what it waits for is so and the client can
\* know it: no wakeup is lost, although events are dropped when c.events is
\* full.  --timeout is not needed for it.
WaitsEnd ==
  \A c \in Clients :
    []<>~(/\ client[c].pc = "waiting" /\ Awaited(c)
          /\ unseen[c] = {})

\* When the daemon shuts down every client sees the end of its stream.
ShutdownSeen ==
  server # "serving" ~> \A c \in Clients : client[c].pc \in Finished \cup {"off"}

\* What handleSubscribe says: no event is missed.  With channels that never
\* fill, changes announced in order and no reload a mirror is only behind
\* what is on its way.
NothingMissed ==
  \A c \in Clients, k \in Keys :
    Following(c) /\ server = "serving" =>
      mirror[c][k].at = truth[k].at \/ OnTheWay(c, k)

\* What WaitForEnvSettled says: it does not return while the environment is
\* starting.
NoEarlyVerdict ==
  [][\A c \in Clients :
       client[c].session = "run" /\ client[c].pc \in {"look", "woken"}
         /\ client'[c].pc \in Finished => truth[client[c].key].state # "starting"]_vars
=============================================================================
