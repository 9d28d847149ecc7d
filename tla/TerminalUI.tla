------------------------------ MODULE TerminalUI ------------------------------
(***************************************************************************)
(* The terminal UI (internal/tui/model.go, run.go) over the daemon client  *)
(* (internal/daemon/client.go): selection, quit confirmation, reload, env  *)
(* inspector and shutdown screen.                                          *)
(*                                                                         *)
(* One goroutine handles one message or key at a time; each of its actions *)
(* below is one Update.  Reload and Shutdown run in goroutines of their    *)
(* own: the first replaces the client's mirror behind the UI's back, both  *)
(* share with it the one RPC connection under rpcMu.  A handler that needs *)
(* the connection waits for it, and what is typed meanwhile is handled     *)
(* later.  The states the mirror holds and the banner that allows c change *)
(* at any time (EventMirror, ConfigGate), so a key whose effect depends on *)
(* one of them may have it or not.                                         *)
(***************************************************************************)
EXTENDS Integers, Sequences, SequencesExt

CONSTANTS
  Topologies,  \* what a snapshot may list: environments with their workflows
  Reloads,     \* bound: reloads under way at once
  NoName,      \* the empty name
  MaxTimers,   \* bound: confirmation timers under way
  MaxLines     \* log lines of a command

\* Names are not empty (config.Validate); there may be no environment at all.
ASSUME TerminalConstants ==
  /\ \A t \in Topologies :
       t \in Seq([env : STRING \ {NoName}, cmds : Seq(STRING \ {NoName})])
  /\ {MaxTimers, MaxLines} \subseteq Nat

VARIABLES
  daemon,    \* "up" or "gone"
  mirror,    \* environments and workflowCmds of the client
  reload,    \* each reloadCmd: its step and the snapshot it got; as history, what
             \* was selected when it began, if it has been the only one since
  teardown,  \* shutdownCmd: "no", "asked", "waiting", "over"
  readers,   \* waitForEvent commands under way
  timers,    \* quitResetCmd timers under way; they fire in order
  screen,    \* what takes the keys, or how the program ended
  ui,        \* focused, cursors, confirmingQuit, anchor
  seen,      \* shutdownSeenLines, for the shutdownCmds
  window     \* history: after a first Ctrl+C and no other key, the timers up to its own

typed == <<window, timers>>
tasks == <<reload, teardown, readers>>
vars == <<daemon, mirror, tasks, typed, screen, ui, seen>>

NoSelection == [env |-> NoName, cmd |-> NoName]
IdleReload  == [step |-> "idle", snap |-> <<>>, chosen |-> NoSelection]

Start ==
  [focused |-> "envs", env |-> 0, cmd |-> 0, confirming |-> FALSE,
   anchor |-> NoSelection]

Init ==
  /\ daemon = "up" /\ mirror \in Topologies
  /\ reload = [r \in Reloads |-> IdleReload]
  /\ teardown = "no" /\ readers = 1 /\ timers = 0 /\ window = 0
  /\ screen = "main" /\ ui = Start /\ seen = <<>>

Running == screen \notin {"exited", "panicked"}

\* The program's state goes with it.
Ends(how) ==
  /\ screen' = how
  /\ reload' = [r \in Reloads |-> IdleReload] /\ teardown' = "no"
  /\ readers' = 0 /\ timers' = 0 /\ window' = 0 /\ ui' = Start /\ seen' = <<>>
  /\ UNCHANGED <<daemon, mirror>>

\* rpcMu is held for the time the daemon takes to reload.
Busy == \E r \in Reloads : reload[r].step = "reloading"

-----------------------------------------------------------------------------
(* The selection                                                           *)

SelectedEnvCommands(u) == IF u.env < Len(mirror) THEN mirror[u.env + 1].cmds ELSE <<>>
Selected(u) ==
  LET cmds == SelectedEnvCommands(u)
  IN  [env |-> IF u.env < Len(mirror) THEN mirror[u.env + 1].env ELSE NoName,
       cmd |-> IF u.cmd < Len(cmds) THEN cmds[u.cmd + 1] ELSE NoName]

\* The cursor stays where it is when the anchor is gone, and the command is then
\* looked for in whatever environment the cursor is at.
Found(index, cursor) == IF index > 0 THEN index - 1 ELSE cursor
ReanchorEnvOnly(u) ==
  [u EXCEPT !.anchor = NoSelection, !.env =
     Found(SelectInSeq(mirror, LAMBDA t : t.env = u.anchor.env), @)]
ReanchorSelection(u) ==
  LET atEnv == [u EXCEPT !.env =
        Found(SelectInSeq(mirror, LAMBDA t : t.env = u.anchor.env), @)]
  IN  [atEnv EXCEPT !.anchor = NoSelection, !.cmd =
        Found(SelectInSeq(SelectedEnvCommands(atEnv), LAMBDA c : c = u.anchor.cmd), @)]

Clamped(cursor, len) == IF cursor < len THEN cursor ELSE IF len = 0 THEN 0 ELSE len - 1
ClampEnvOnly(u) == [u EXCEPT !.env = Clamped(@, Len(mirror))]
ClampCursors(u) ==
  LET atEnv == [u EXCEPT !.env = Clamped(@, Len(mirror))]
  IN  [atEnv EXCEPT !.cmd = Clamped(@, Len(SelectedEnvCommands(atEnv)))]

-----------------------------------------------------------------------------
(* Keys on the main screen                                                 *)

FirstCtrlC ==
  /\ screen = "main" /\ ~ui.confirming /\ timers < MaxTimers
  /\ timers' = timers + 1 /\ window' = timers + 1
  /\ ui' = [ui EXCEPT !.confirming = TRUE]
  /\ UNCHANGED <<daemon, mirror, tasks, screen, seen>>

\* initShutdownLog: every command of the mirror, none of its lines seen.
SecondCtrlC ==
  /\ screen = "main" /\ ui.confirming
  /\ screen' = "shutdown" /\ teardown' = "asked"
  /\ seen' = [c \in UNION {ToSet(t.cmds) : t \in ToSet(mirror)} |-> 0]
  /\ ui' = [ui EXCEPT !.confirming = FALSE]
  /\ UNCHANGED <<daemon, mirror, reload, readers, timers, window>>

\* Ctrl+D closes both connections, once it has rpcMu.
Detach == screen = "main" /\ ~Busy /\ Ends("exited")

\* Any other key cancels a pending confirmation.
PressKeeping(u) ==
  /\ screen = "main" /\ ui' = u /\ window' = 0
  /\ UNCHANGED timers
Press(u) ==
  /\ screen = "main" /\ ui' = [u EXCEPT !.confirming = FALSE] /\ window' = 0
  /\ UNCHANGED timers

Panes == [envs |-> "cmds", cmds |-> "logs", logs |-> "envs"]

\* Tab and Right; Left goes the other way, and does not refresh the logs.
NextPane ==
  /\ ~Busy /\ Press([ui EXCEPT !.focused = Panes[@]])
  /\ UNCHANGED <<daemon, mirror, tasks, screen, seen>>

PreviousPane ==
  /\ \E pane \in DOMAIN Panes :
       Panes[pane] = ui.focused /\ Press([ui EXCEPT !.focused = pane])
  /\ UNCHANGED <<daemon, mirror, tasks, screen, seen>>

\* Another environment, or another command of it; in the logs pane the keys
\* scroll.
Move(envCursor, cmdCursor) ==
  /\ ~Busy /\ Press([ui EXCEPT !.env = envCursor, !.cmd = cmdCursor])
  /\ UNCHANGED <<daemon, mirror, tasks, screen, seen>>

MoveCursorUp ==
  \/ ui.focused = "envs" /\ ui.env > 0 /\ Move(ui.env - 1, 0)
  \/ ui.focused = "cmds" /\ ui.cmd > 0 /\ Move(ui.env, ui.cmd - 1)

MoveCursorDown ==
  \/ ui.focused = "envs" /\ ui.env < Len(mirror) - 1 /\ Move(ui.env + 1, 0)
  \/ /\ ui.focused = "cmds" /\ ui.cmd < Len(SelectedEnvCommands(ui)) - 1
     /\ Move(ui.env, ui.cmd + 1)

\* s and x act on the selected environment, R on the selected command, when the
\* mirror's state of it allows; the request goes out from the handler.
Request ==
  /\ \/ ui.focused = "envs" /\ Selected(ui).env # NoName
     \/ ui.focused = "cmds" /\ Selected(ui).cmd # NoName
  /\ ~Busy /\ Press(ui)
  /\ UNCHANGED <<daemon, mirror, tasks, screen, seen>>

\* c, when the banner allows it: the anchor is the selection now, whichever reloads
\* are still under way.
StartReload(r) ==
  /\ reload[r].step = "idle"
  /\ LET alone == \A o \in Reloads : reload[o].step = "idle"
     IN  reload' = [o \in Reloads |->
           IF o # r THEN [reload[o] EXCEPT !.chosen = NoSelection]
           ELSE [step |-> "asked", snap |-> <<>>,
                 chosen |-> IF alone THEN Selected(ui) ELSE NoSelection]]
  /\ Press([ui EXCEPT !.anchor = Selected(ui)])
  /\ UNCHANGED <<daemon, mirror, teardown, readers, screen, seen>>

\* A key that does nothing here, dimmed ones included.
OtherKey ==
  /\ Press(ui)
  /\ UNCHANGED <<daemon, mirror, tasks, screen, seen>>

-----------------------------------------------------------------------------
(* The env inspector takes every key while it is open, Ctrl+C and Ctrl+D   *)
(* included.                                                               *)

OpenInspector ==
  /\ IF ui.focused = "envs" THEN Selected(ui).env # NoName ELSE Selected(ui).cmd # NoName
  /\ ~Busy /\ Press(ui)
  /\ screen' = "list"
  /\ UNCHANGED <<daemon, mirror, tasks, seen>>

\* Esc closes the list, Enter shows a row of it (if any matches), and Esc, q and
\* e lead back from there; the other keys search, filter, move and reveal.
InspectorKey ==
  /\ \/ screen = "list" /\ screen' \in {"main", "list", "detail"}
     \/ screen = "detail" /\ screen' \in {"list", "detail"}
  /\ UNCHANGED <<daemon, mirror, tasks, typed, ui, seen>>

-----------------------------------------------------------------------------
(* Messages                                                                *)

\* quitResetMsg, whichever press armed the timer.
QuitReset ==
  /\ Running /\ timers > 0
  /\ timers' = timers - 1 /\ window' = IF window = 0 THEN 0 ELSE window - 1
  /\ ui' = [ui EXCEPT !.confirming = FALSE]
  /\ UNCHANGED <<daemon, mirror, tasks, screen, seen>>

\* eventMsg: waitForEvent is armed again.
EngineEventOnce ==
  /\ Running /\ ~Busy /\ readers > 0
  /\ readers' = readers - 1
  /\ UNCHANGED <<daemon, mirror, reload, teardown, typed, screen, ui, seen>>
EngineEvent ==
  /\ Running /\ ~Busy /\ readers > 0
  /\ readers' = (readers - 1) + 1
  /\ UNCHANGED <<daemon, mirror, reload, teardown, typed, screen, ui, seen>>

\* daemonGoneMsg: the program quits, whatever its screen.
DaemonGone == Running /\ daemon = "gone" /\ readers > 0 /\ Ends("exited")

\* reloadDoneMsg, on any screen.  waitForEvent is still under way.
Settled(r) == [reload EXCEPT ![r] = IdleReload]
ReloadDoneOnMain(r) ==
  /\ screen = "main" /\ reload[r].step \in {"seeded", "failed"} /\ reload' = Settled(r)
  /\ IF reload[r].step = "failed" THEN UNCHANGED ui
     ELSE ~Busy /\ ui' = ClampCursors(ReanchorSelection(ui))
  /\ UNCHANGED <<daemon, mirror, teardown, readers, typed, screen, seen>>
ReloadDone(r) ==
  /\ Running /\ reload[r].step \in {"seeded", "failed"} /\ reload' = Settled(r)
  /\ IF reload[r].step = "failed" THEN UNCHANGED ui
     ELSE ~Busy /\ ui' = ClampCursors(ReanchorSelection(ui))
  /\ UNCHANGED <<daemon, mirror, teardown, readers, typed, screen, seen>>

\* refreshShutdownLogs on a tick: a command's lines only grow, but Logs answers
\* nil when the daemon does not, and lines[start:] is then out of range.
RefreshShutdownLogs ==
  /\ screen = "shutdown" /\ ~Busy
  /\ \E lines \in [DOMAIN seen -> 0 .. MaxLines] :
       /\ \A c \in DOMAIN seen : IF daemon = "up" THEN lines[c] >= seen[c] ELSE lines[c] = 0
       /\ IF \E c \in DOMAIN seen : seen[c] > lines[c]
          THEN Ends("panicked")
          ELSE /\ seen' = lines
               /\ UNCHANGED <<daemon, mirror, tasks, typed, screen, ui>>

\* shutdownDoneMsg.
ShutdownDone == Running /\ teardown = "over" /\ Ends("exited")

\* SIGTERM ends the program, and main detaches.
Signalled == Running /\ Ends("exited")

-----------------------------------------------------------------------------
(* reloadCmd: ClientController.Reload                                      *)

Step(r, from, to) ==
  /\ Running /\ reload[r].step = from
  /\ reload' = [reload EXCEPT ![r].step = to]
  /\ UNCHANGED <<daemon, teardown, readers, typed, screen, ui, seen>>

AskReload(r) == ~Busy /\ Step(r, "asked", "reloading") /\ UNCHANGED mirror

Reloaded(r) == daemon = "up" /\ Step(r, "reloading", "reloaded") /\ UNCHANGED mirror

\* The daemon refuses, or is gone.
ReloadFails(r) == Step(r, "reloading", "failed") /\ UNCHANGED mirror

\* The snapshot is asked for under rpcMu, and put in place without it; it lists
\* what the files and other clients have made of the engine.  Failing to get one
\* is no failure of the reload.
FetchSnapshot(r) ==
  /\ Running /\ reload[r].step = "reloaded" /\ ~Busy
  /\ IF daemon = "up"
     THEN \E t \in Topologies :
            reload' = [reload EXCEPT ![r].step = "fetched", ![r].snap = t]
     ELSE reload' = [reload EXCEPT ![r].step = "seeded"]
  /\ UNCHANGED <<daemon, mirror, teardown, readers, typed, screen, ui, seen>>

SeedMirror(r) ==
  /\ mirror' = reload[r].snap
  /\ Step(r, "fetched", "seeded")

ReloadStep(r) ==
  AskReload(r) \/ Reloaded(r) \/ ReloadFails(r) \/ FetchSnapshot(r) \/ SeedMirror(r)

-----------------------------------------------------------------------------
(* shutdownCmd: ClientController.Shutdown                                  *)

AskShutdown ==
  /\ Running /\ teardown = "asked" /\ ~Busy
  /\ teardown' = "waiting"
  /\ UNCHANGED <<daemon, mirror, reload, readers, typed, screen, ui, seen>>

\* The event stream ends, or shutdownGrace does.
ShutdownEndsWithDaemon ==
  /\ Running /\ teardown = "waiting" /\ daemon = "gone"
  /\ teardown' = "over"
  /\ UNCHANGED <<daemon, mirror, reload, readers, typed, screen, ui, seen>>
ShutdownEnds ==
  /\ Running /\ teardown = "waiting"
  /\ teardown' = "over"
  /\ UNCHANGED <<daemon, mirror, reload, readers, typed, screen, ui, seen>>

-----------------------------------------------------------------------------
(* The daemon                                                              *)

DaemonExits ==
  /\ Running /\ daemon = "up" /\ daemon' = "gone"
  /\ UNCHANGED <<mirror, tasks, typed, screen, ui, seen>>

-----------------------------------------------------------------------------
Next ==
  \/ FirstCtrlC \/ SecondCtrlC \/ Detach \/ NextPane \/ PreviousPane
  \/ MoveCursorUp \/ MoveCursorDown \/ Request \/ OtherKey
  \/ OpenInspector \/ InspectorKey
  \/ QuitReset \/ EngineEvent \/ DaemonGone \/ RefreshShutdownLogs
  \/ ShutdownDone \/ Signalled \/ AskShutdown \/ ShutdownEnds
  \/ DaemonExits
  \/ \E r \in Reloads : StartReload(r) \/ ReloadStep(r) \/ ReloadDone(r)

Spec == Init /\ [][Next]_vars

\* What has begun goes on: goroutines run, the daemon answers, deadlines pass and
\* results are handled.  No key, event or signal has to come.
Progress ==
  \/ \E r \in Reloads : ReloadStep(r) \/ ReloadDone(r)
  \/ AskShutdown \/ ShutdownEnds \/ ShutdownDone

FairSpec == Spec /\ WF_vars(Progress)

-----------------------------------------------------------------------------
(* Properties                                                              *)

\* Types; the shutdown screen is shown exactly when a teardown was asked for, as
\* long as the program runs; and a snapshot is kept only until it is in place.
TypeOK ==
  /\ daemon \in {"up", "gone"} /\ mirror \in Topologies
  /\ timers \in 0 .. MaxTimers /\ window \in 0 .. timers
  /\ screen \in {"main", "list", "detail", "shutdown", "exited", "panicked"}
  /\ teardown \in {"no", "asked", "waiting", "over"}
  /\ Running => (screen = "shutdown" <=> teardown # "no")
  /\ \A r \in Reloads : reload[r].step \in
       {"idle", "asked", "reloading", "reloaded", "fetched", "seeded", "failed"}
  /\ ui.focused \in DOMAIN Panes /\ ui.env \in Nat /\ ui.cmd \in Nat

\* Cursors index the lists they are cursors of, or are zero in an empty one, except
\* while a reload has put new lists in place and its message is on the way
\* (clampCursors).
InRange(cursor, len) == cursor < len \/ (cursor = 0 /\ len = 0)
CursorsInRange ==
  (\A r \in Reloads : reload[r].step # "seeded") =>
    /\ InRange(ui.env, Len(mirror))
    /\ InRange(ui.cmd, Len(SelectedEnvCommands(ui)))

\* One waitForEvent is under way as long as the program runs: one that is lost
\* leaves the UI deaf, and a second one competes for events (reloadDoneMsg).
OneReader == Running => readers = 1

\* What every Update leaves so.
UpdateSound == CursorsInRange /\ OneReader

\* The daemon is shut down only by two Ctrl+C in a row, the second of them while
\* the first one's three seconds last (handleKey, docs/usage.md).
QuitConfirmed ==
  [][teardown = "no" /\ teardown' # "no" => window > 0]_vars

\* A reload with no other one under way leaves selected what was selected when c
\* was pressed, where it still is (reanchorSelection), whatever moved meanwhile.
SelectionFollows ==
  [][\A r \in Reloads :
       LET chosen == reload[r].chosen
       IN  /\ Running' /\ reload[r].step = "seeded" /\ reload'[r].step = "idle"
           /\ \E t \in ToSet(mirror) : t.env = chosen.env
           => /\ Selected(ui)'.env = chosen.env
              /\ chosen.cmd \in ToSet(SelectedEnvCommands(ui)')
                   => Selected(ui)'.cmd = chosen.cmd]_vars

\* Once confirmed, the program ends; so does every reload, whatever the screen.
QuitEnds == screen = "shutdown" ~> ~Running
ReloadsEnd == \A r \in Reloads : reload[r].step # "idle" ~> reload[r].step = "idle" \/ ~Running

\* Neither waits for the other, or for the daemon, for ever.
TasksEnd == QuitEnds /\ ReloadsEnd

-----------------------------------------------------------------------------
(* What the documentation says                                             *)

\* "a second Ctrl+C within 3 seconds" confirms (docs/usage.md): only the timer of
\* the press itself withdraws a confirmation nobody cancelled.
ConfirmationLasts ==
  [][Running' /\ ui.confirming /\ ~ui'.confirming /\ timers' < timers => window' = 0]_vars

\* s, x and R act on the selected environment or command (docs/usage.md): what is
\* selected changes in an Update, which a frame follows, and not behind the screen.
SelectionIsShown == [][Selected(ui)' # Selected(ui) => ui' # ui]_vars

\* The shutdown screen "stays visible until teardown completes" (shutdownCmd).
PanelSurvives == screen # "panicked"
=============================================================================
