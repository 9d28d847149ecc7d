-------------------------- MODULE TerminalUIProofs --------------------------
(***************************************************************************)
(* Proofs about the terminal UI, for any topologies, any number of reloads *)
(* under way, timers and log lines: it shuts the daemon down only when     *)
(* that was confirmed, its cursors stay in range and it never goes deaf,   *)
(* and a reload leaves selected what was.                                  *)
(***************************************************************************)
EXTENDS TerminalUI, WellFoundedInduction, TLAPS

-----------------------------------------------------------------------------
(* The inductive invariant *)

Name      == STRING \ {NoName}
Selection == [env : Name \cup {NoName}, cmd : Name \cup {NoName}]
UIRecord  ==
  [focused : DOMAIN Panes, env : Nat, cmd : Nat, confirming : BOOLEAN, anchor : Selection]
ReloadRecord ==
  [step : {"idle", "asked", "reloading", "reloaded", "fetched", "seeded", "failed"},
   snap : Topologies \cup {<<>>}, chosen : Selection]

Shape ==
  /\ ui \in UIRecord /\ reload \in [Reloads -> ReloadRecord]
  /\ \A r \in Reloads : reload[r].step = "fetched" => reload[r].snap \in Topologies

\* A confirmation that is pending has begun with the last key, and its timer runs.
ConfirmingInWindow == ui.confirming => window > 0

\* What was selected when a reload began alone is what the UI will look for, as
\* long as no other reload has begun.
AnchorHolds ==
  \A r \in Reloads :
    reload[r].chosen # NoSelection =>
      /\ reload[r].step # "idle" /\ ui.anchor = reload[r].chosen
      /\ \A o \in Reloads : o # r => reload[o].step = "idle"

IInv == TypeOK /\ Shape /\ UpdateSound /\ ConfirmingInWindow /\ AnchorHolds

-----------------------------------------------------------------------------
(* The selection *)

LEMMA MinFound == \A I \in SUBSET Nat : I # {} => Min(I) \in I
<1> SUFFICES ASSUME NEW I \in SUBSET Nat, I # {}
             PROVE  \E x \in I : \A y \in I : x =< y
  BY DEF Min
<1>1. PICK x \in I : \A y \in I : <<y, x>> \notin OpToRel(<, Nat)
  BY NatLessThanWellFounded, WFMin
<1>2. \A y \in I : ~(y < x)
  BY <1>1 DEF OpToRel
<1> QED BY <1>2

LEMMA Listed ==
  ASSUME mirror \in Topologies
  PROVE  /\ mirror \in Seq([env : Name, cmds : Seq(Name)]) /\ Len(mirror) \in Nat
         /\ \A i \in 1 .. Len(mirror) : mirror[i].env \in Name /\ mirror[i].cmds \in Seq(Name)
<1> DEFINE Row == [env : Name, cmds : Seq(Name)]
<1>1. mirror \in Seq(Row)
  BY TerminalConstants DEF Name
<1> HIDE DEF Row
<1>2. Len(mirror) \in Nat /\ \A i \in 1 .. Len(mirror) : mirror[i] \in Row
  BY <1>1
<1> QED BY <1>1, <1>2 DEF Row

LEMMA CommandsListed ==
  ASSUME mirror \in Topologies, NEW u \in UIRecord
  PROVE  SelectedEnvCommands(u) \in Seq(Name)
<1>1. u.env \in Nat
  BY DEF UIRecord
<1>2. CASE u.env < Len(mirror)
  <2>1. u.env + 1 \in 1 .. Len(mirror)
    BY <1>1, <1>2, Listed
  <2> QED BY <1>2, <2>1, Listed DEF SelectedEnvCommands
<1>3. CASE ~(u.env < Len(mirror))
  BY <1>3 DEF SelectedEnvCommands
<1> QED BY <1>2, <1>3

LEMMA SelectedType ==
  ASSUME mirror \in Topologies, NEW u \in UIRecord
  PROVE  Selected(u) \in Selection
<1> DEFINE cmds == SelectedEnvCommands(u)
<1>1. u.env \in Nat /\ u.cmd \in Nat /\ cmds \in Seq(Name)
  BY CommandsListed DEF UIRecord
<1>2. (IF u.env < Len(mirror) THEN mirror[u.env + 1].env ELSE NoName) \in Name \cup {NoName}
  <2>1. CASE u.env < Len(mirror)
    <3>1. u.env + 1 \in 1 .. Len(mirror)
      BY <1>1, <2>1, Listed
    <3> QED BY <2>1, <3>1, Listed
  <2> QED BY <2>1
<1> HIDE DEF cmds
<1>3. (IF u.cmd < Len(cmds) THEN cmds[u.cmd + 1] ELSE NoName) \in Name \cup {NoName}
  BY <1>1
<1> QED BY <1>2, <1>3 DEF Selected, Selection, cmds

\* The environment of the anchor, and then its command, where they are.
LEMMA Reanchored ==
  ASSUME mirror \in Topologies, NEW u \in UIRecord, NEW v, v = ReanchorSelection(u)
  PROVE  /\ v \in UIRecord
         /\ v.confirming = u.confirming /\ v.anchor = NoSelection
         /\ (\E i \in 1 .. Len(mirror) : mirror[i].env = u.anchor.env) =>
              v.env < Len(mirror) /\ mirror[v.env + 1].env = u.anchor.env
         /\ LET cmds == SelectedEnvCommands(v)
            IN  (\E i \in 1 .. Len(cmds) : cmds[i] = u.anchor.cmd) =>
                  v.cmd < Len(cmds) /\ cmds[v.cmd + 1] = u.anchor.cmd
<1> DEFINE I == {i \in 1 .. Len(mirror) : mirror[i].env = u.anchor.env}
           index == SelectInSeq(mirror, LAMBDA t : t.env = u.anchor.env)
           atEnv == [u EXCEPT !.env = Found(index, u.env)]
           cmds == SelectedEnvCommands(atEnv)
           J == {i \in 1 .. Len(cmds) : cmds[i] = u.anchor.cmd}
           row == SelectInSeq(cmds, LAMBDA c : c = u.anchor.cmd)
<1>1. u.env \in Nat /\ u.cmd \in Nat /\ Len(mirror) \in Nat /\ NoSelection \in Selection
  BY Listed DEF UIRecord, NoSelection, Selection
<1>2. /\ I # {} => index \in I
      /\ I = {} => index = 0
  <2>1. I \in SUBSET Nat
    BY <1>1
  <2>2. I # {} => Min(I) \in I
    BY <2>1, MinFound
  <2>3. index = IF I # {} THEN Min(I) ELSE 0
    BY DEF SelectInSeq
  <2> QED BY <2>2, <2>3
<1> HIDE DEF index
<1>3. Found(index, u.env) \in Nat
  BY <1>1, <1>2 DEF Found
<1>4. atEnv \in UIRecord /\ atEnv.env = Found(index, u.env) /\ atEnv.cmd = u.cmd
  BY <1>3 DEF UIRecord
<1>5. cmds \in Seq(Name) /\ Len(cmds) \in Nat
  BY <1>4, CommandsListed
<1>6. v = [atEnv EXCEPT !.anchor = NoSelection, !.cmd = Found(row, u.cmd)]
  BY <1>4 DEF ReanchorSelection, index
<1> HIDE DEF atEnv
<1>7. /\ J # {} => row \in J
      /\ J = {} => row = 0
  <2>1. J \in SUBSET Nat
    BY <1>5
  <2>2. J # {} => Min(J) \in J
    BY <2>1, MinFound
  <2>3. row = IF J # {} THEN Min(J) ELSE 0
    BY DEF SelectInSeq
  <2> QED BY <2>2, <2>3
<1> HIDE DEF row
<1>8. Found(row, u.cmd) \in Nat
  BY <1>1, <1>5, <1>7 DEF Found
<1>9. /\ v \in UIRecord /\ v.anchor = NoSelection /\ v.env = atEnv.env
      /\ v.cmd = Found(row, u.cmd) /\ v.confirming = atEnv.confirming
  BY <1>1, <1>4, <1>6, <1>8 DEF UIRecord
<1>10. SelectedEnvCommands(v) = cmds
  BY <1>9 DEF SelectedEnvCommands
<1>11. v.confirming = u.confirming
  BY <1>9 DEF atEnv, UIRecord
<1>12. I # {} => v.env < Len(mirror) /\ mirror[v.env + 1].env = u.anchor.env
  BY <1>1, <1>2, <1>4, <1>9 DEF Found
<1>13. J # {} => v.cmd < Len(cmds) /\ cmds[v.cmd + 1] = u.anchor.cmd
  BY <1>5, <1>7, <1>9 DEF Found
<1> QED BY <1>9, <1>10, <1>11, <1>12, <1>13

\* Clamping leaves a cursor alone that is in range.
LEMMA Clamps ==
  ASSUME mirror \in Topologies, NEW u \in UIRecord, NEW v, v = ClampCursors(u)
  PROVE  /\ v \in UIRecord
         /\ v.confirming = u.confirming /\ v.anchor = u.anchor
         /\ InRange(v.env, Len(mirror)) /\ InRange(v.cmd, Len(SelectedEnvCommands(v)))
         /\ u.env < Len(mirror) => v.env = u.env
         /\ v.env = u.env /\ u.cmd < Len(SelectedEnvCommands(u)) => v.cmd = u.cmd
<1> DEFINE atEnv == [u EXCEPT !.env = Clamped(u.env, Len(mirror))]
           cmds == SelectedEnvCommands(atEnv)
<1>1. u.env \in Nat /\ u.cmd \in Nat /\ Len(mirror) \in Nat
  BY Listed DEF UIRecord
<1>2. Clamped(u.env, Len(mirror)) \in Nat
  BY <1>1 DEF Clamped
<1>3. atEnv \in UIRecord /\ atEnv.env = Clamped(u.env, Len(mirror)) /\ atEnv.cmd = u.cmd
      /\ atEnv.confirming = u.confirming /\ atEnv.anchor = u.anchor
  BY <1>2 DEF UIRecord
<1>4. v = [atEnv EXCEPT !.cmd = Clamped(u.cmd, Len(cmds))]
  BY <1>3 DEF ClampCursors
<1> HIDE DEF atEnv
<1>5. cmds \in Seq(Name) /\ Len(cmds) \in Nat
  BY <1>3, CommandsListed
<1>6. Clamped(u.cmd, Len(cmds)) \in Nat
  BY <1>1, <1>5 DEF Clamped
<1>7. v \in UIRecord /\ v.env = atEnv.env /\ v.cmd = Clamped(u.cmd, Len(cmds))
      /\ v.confirming = u.confirming /\ v.anchor = u.anchor
  BY <1>3, <1>4, <1>6 DEF UIRecord
<1>8. SelectedEnvCommands(v) = cmds
  BY <1>7 DEF SelectedEnvCommands
<1>9. InRange(v.env, Len(mirror)) /\ (u.env < Len(mirror) => v.env = u.env)
  BY <1>1, <1>3, <1>7 DEF InRange, Clamped
<1>10. InRange(v.cmd, Len(cmds)) /\ (u.cmd < Len(cmds) => v.cmd = u.cmd)
  BY <1>1, <1>5, <1>7 DEF InRange, Clamped
<1>11. v.env = u.env => SelectedEnvCommands(u) = cmds
  BY <1>7, <1>8 DEF SelectedEnvCommands
<1> QED BY <1>7, <1>8, <1>9, <1>10, <1>11

-----------------------------------------------------------------------------
(* The steps *)

\* The part of IInv that keys and messages can disturb: all but the reloads, the
\* mirror and the bounds of the counters.
LEMMA EndsKeeps ==
  ASSUME IInv, NEW how \in {"exited", "panicked"}, Ends(how)
  PROVE  IInv'
<1>1. /\ daemon' = daemon /\ mirror' = mirror /\ mirror \in Topologies
      /\ reload' = [r \in Reloads |-> IdleReload] /\ ui' = Start
      /\ timers' = 0 /\ window' = 0 /\ teardown' = "no" /\ screen' = how
  BY DEF Ends, IInv, TypeOK
<1>2. NoSelection \in Selection /\ Start \in UIRecord /\ IdleReload \in ReloadRecord
      /\ Start.env = 0 /\ Start.cmd = 0 /\ ~Start.confirming /\ Start.focused \in DOMAIN Panes
      /\ IdleReload.step = "idle" /\ IdleReload.chosen = NoSelection
  BY DEF NoSelection, Selection, Start, UIRecord, IdleReload, ReloadRecord, Panes
<1>3. \A r \in Reloads : reload'[r] = IdleReload
  BY <1>1
<1>4. TypeOK'
  BY <1>1, <1>2, <1>3, TerminalConstants DEF IInv, TypeOK, Running
<1>5. Shape' /\ ConfirmingInWindow' /\ AnchorHolds'
  BY <1>1, <1>2, <1>3 DEF Shape, ConfirmingInWindow, AnchorHolds
<1>6. SelectedEnvCommands(Start)' \in Seq(Name)
  BY <1>1, <1>2, CommandsListed DEF SelectedEnvCommands
<1>7. 0 \in Nat /\ Len(mirror) \in Nat /\ Len(SelectedEnvCommands(ui))' \in Nat
  BY <1>1, <1>6, Listed
<1>8. UpdateSound'
  BY <1>1, <1>2, <1>7 DEF UpdateSound, CursorsInRange, OneReader, InRange, Running
<1> QED BY <1>4, <1>5, <1>8 DEF IInv

\* Keys, timers and screens: the reloads and the mirror are left alone.
LEMMA KeyKeeps ==
  ASSUME IInv, UNCHANGED <<daemon, mirror, reload, readers>>,
         ui' \in UIRecord, ui'.anchor = ui.anchor,
         (\A r \in Reloads : reload[r].step # "seeded") =>
           InRange(ui'.env, Len(mirror)) /\ InRange(ui'.cmd, Len(SelectedEnvCommands(ui'))),
         ui'.confirming => window' > 0,
         timers' \in 0 .. MaxTimers, window' \in 0 .. timers',
         screen' \in {"main", "list", "detail", "shutdown"},
         teardown' \in {"no", "asked", "waiting", "over"},
         screen' = "shutdown" <=> teardown' # "no", Running
  PROVE  IInv'
<1>1. TypeOK'
  BY DEF IInv, TypeOK, UIRecord, Running
<1>2. Shape' /\ ConfirmingInWindow' /\ AnchorHolds'
  BY DEF IInv, Shape, ConfirmingInWindow, AnchorHolds
<1>3. SelectedEnvCommands(ui)' = SelectedEnvCommands(ui')
  BY DEF SelectedEnvCommands
<1>4. CursorsInRange'
  BY <1>3 DEF CursorsInRange, IInv, UpdateSound
<1>5. OneReader'
  BY DEF IInv, UpdateSound, OneReader
<1> QED BY <1>1, <1>2, <1>4, <1>5 DEF IInv, UpdateSound
\* Cursors where they were are in range.
LEMMA SamePlace ==
  ASSUME IInv, NEW u, u.env = ui.env, u.cmd = ui.cmd,
         \A r \in Reloads : reload[r].step # "seeded"
  PROVE  InRange(u.env, Len(mirror)) /\ InRange(u.cmd, Len(SelectedEnvCommands(u)))
<1>1. SelectedEnvCommands(u) = SelectedEnvCommands(ui)
  BY DEF SelectedEnvCommands
<1> QED BY <1>1 DEF IInv, UpdateSound, CursorsInRange

\* What the keys and messages of the main screen find.
LEMMA Facts ==
  ASSUME IInv
  PROVE  /\ mirror \in Topologies /\ Len(mirror) \in Nat /\ ui \in UIRecord
         /\ ui.env \in Nat /\ ui.cmd \in Nat /\ ui.focused \in DOMAIN Panes
         /\ timers \in 0 .. MaxTimers /\ window \in 0 .. timers /\ MaxTimers \in Nat
         /\ teardown \in {"no", "asked", "waiting", "over"}
         /\ screen \in {"main", "list", "detail", "shutdown", "exited", "panicked"}
         /\ Running => (screen = "shutdown" <=> teardown # "no")
         /\ Len(SelectedEnvCommands(ui)) \in Nat
  BY TerminalConstants, Listed, CommandsListed DEF IInv, TypeOK, Shape, UIRecord

LEMMA PressKeeps ==
  ASSUME IInv, NEW u, Press(u), u \in UIRecord, u.anchor = ui.anchor,
         UNCHANGED <<daemon, mirror, tasks>>, screen' \in {"main", "list"},
         (\A r \in Reloads : reload[r].step # "seeded") =>
           InRange(u.env, Len(mirror)) /\ InRange(u.cmd, Len(SelectedEnvCommands(u)))
  PROVE  IInv'
<1> DEFINE v == [u EXCEPT !.confirming = FALSE]
<1>1. v \in UIRecord /\ v.env = u.env /\ v.cmd = u.cmd /\ v.anchor = u.anchor /\ ~v.confirming
  BY DEF UIRecord
<1>2. /\ ui' = v /\ screen = "main" /\ window' = 0 /\ timers' = timers
      /\ UNCHANGED <<reload, teardown, readers>>
  BY DEF Press, tasks
<1>3. SelectedEnvCommands(v) = SelectedEnvCommands(u)
  BY <1>1 DEF SelectedEnvCommands
<1> HIDE DEF v
<1>4. Running /\ teardown = "no"
  BY <1>2, Facts DEF Running
<1> QED BY <1>1, <1>2, <1>3, <1>4, Facts, KeyKeeps

LEMMA KeysKeep ==
  ASSUME IInv, FirstCtrlC \/ SecondCtrlC \/ Detach \/ NextPane \/ PreviousPane
                 \/ MoveCursorUp \/ MoveCursorDown \/ Request \/ OtherKey
                 \/ OpenInspector \/ InspectorKey \/ QuitReset
  PROVE  IInv'
<1>0. Panes \in [{"envs", "cmds", "logs"} -> {"envs", "cmds", "logs"}]
      /\ DOMAIN Panes = {"envs", "cmds", "logs"}
  BY DEF Panes
<1>1. CASE FirstCtrlC
  <2> DEFINE u == [ui EXCEPT !.confirming = TRUE]
  <2>1. u \in UIRecord /\ u.env = ui.env /\ u.cmd = ui.cmd /\ u.anchor = ui.anchor
    BY Facts DEF UIRecord
  <2>2. /\ ui' = u /\ screen = "main" /\ screen' = screen
        /\ timers < MaxTimers /\ timers' = timers + 1 /\ window' = timers + 1
        /\ UNCHANGED <<daemon, mirror, reload, teardown, readers>>
    BY <1>1 DEF FirstCtrlC, tasks
  <2> HIDE DEF u
  <2>3. timers' \in 0 .. MaxTimers /\ window' \in 0 .. timers' /\ window' > 0
    BY <2>2, Facts
  <2> QED BY <2>1, <2>2, <2>3, Facts, SamePlace, KeyKeeps DEF Running
<1>2. CASE SecondCtrlC
  <2> DEFINE u == [ui EXCEPT !.confirming = FALSE]
  <2>1. u \in UIRecord /\ u.env = ui.env /\ u.cmd = ui.cmd /\ u.anchor = ui.anchor
        /\ ~u.confirming
    BY Facts DEF UIRecord
  <2>2. /\ ui' = u /\ screen = "main" /\ screen' = "shutdown" /\ teardown' = "asked"
        /\ UNCHANGED <<daemon, mirror, reload, readers, timers, window>>
    BY <1>2 DEF SecondCtrlC
  <2> HIDE DEF u
  <2> QED BY <2>1, <2>2, Facts, SamePlace, KeyKeeps DEF Running
<1>3. CASE Detach
  BY <1>3, EndsKeeps DEF Detach
<1>4. CASE NextPane \/ PreviousPane
  <2>1. PICK pane \in DOMAIN Panes : Press([ui EXCEPT !.focused = pane])
    BY <1>0, <1>4, Facts DEF NextPane, PreviousPane
  <2> DEFINE u == [ui EXCEPT !.focused = pane]
  <2>2. u \in UIRecord /\ u.env = ui.env /\ u.cmd = ui.cmd /\ u.anchor = ui.anchor
    BY Facts DEF UIRecord
  <2>3. UNCHANGED <<daemon, mirror, tasks>> /\ screen' = "main"
    BY <1>4 DEF NextPane, PreviousPane, Press
  <2> HIDE DEF u
  <2>4. Press(u)
    BY <2>1 DEF u
  <2> QED BY <2>2, <2>3, <2>4, SamePlace, PressKeeps
<1>5. ASSUME NEW env \in Nat, NEW cmd \in Nat, Move(env, cmd),
             (\A r \in Reloads : reload[r].step # "seeded") =>
               /\ InRange(env, Len(mirror))
               /\ cmd = 0 \/ (env = ui.env /\ cmd < Len(SelectedEnvCommands(ui)))
      PROVE  IInv'
  <2> DEFINE u == [ui EXCEPT !.env = env, !.cmd = cmd]
  <2>1. u \in UIRecord /\ u.env = env /\ u.cmd = cmd /\ u.anchor = ui.anchor
    BY Facts DEF UIRecord
  <2>2. Press(u) /\ UNCHANGED <<daemon, mirror, tasks>> /\ screen' = "main"
    BY <1>5 DEF Move, Press
  <2> HIDE DEF u
  <2>3. Len(SelectedEnvCommands(u)) \in Nat
    BY <2>1, Facts, CommandsListed
  <2>4. env = ui.env => SelectedEnvCommands(u) = SelectedEnvCommands(ui)
    BY <2>1 DEF SelectedEnvCommands
  <2>5. ASSUME \A r \in Reloads : reload[r].step # "seeded"
        PROVE  InRange(u.env, Len(mirror)) /\ InRange(u.cmd, Len(SelectedEnvCommands(u)))
    BY <1>5, <2>1, <2>3, <2>4, <2>5 DEF InRange
  <2> QED BY <2>1, <2>2, <2>5, PressKeeps
<1>6. CASE MoveCursorUp
  <2>1. CASE ui.env > 0 /\ Move(ui.env - 1, 0)
    <3>1. ui.env - 1 \in Nat /\ 0 \in Nat
      BY <2>1, Facts
    <3>2. (\A r \in Reloads : reload[r].step # "seeded") => InRange(ui.env - 1, Len(mirror))
      BY <2>1, Facts DEF IInv, UpdateSound, CursorsInRange, InRange
    <3> QED BY <1>5, <2>1, <3>1, <3>2
  <2>2. CASE ui.cmd > 0 /\ Move(ui.env, ui.cmd - 1)
    <3>1. ui.cmd - 1 \in Nat /\ ui.env \in Nat
      BY <2>2, Facts
    <3>2. (\A r \in Reloads : reload[r].step # "seeded") =>
            InRange(ui.env, Len(mirror)) /\ ui.cmd - 1 < Len(SelectedEnvCommands(ui))
      BY <2>2, Facts DEF IInv, UpdateSound, CursorsInRange, InRange
    <3> QED BY <1>5, <2>2, <3>1, <3>2
  <2> QED BY <1>6, <2>1, <2>2 DEF MoveCursorUp
<1>7. CASE MoveCursorDown
  <2>1. CASE ui.env < Len(mirror) - 1 /\ Move(ui.env + 1, 0)
    <3>1. ui.env + 1 \in Nat /\ 0 \in Nat /\ InRange(ui.env + 1, Len(mirror))
      BY <2>1, Facts DEF InRange
    <3> QED BY <1>5, <2>1, <3>1
  <2>2. CASE ui.cmd < Len(SelectedEnvCommands(ui)) - 1 /\ Move(ui.env, ui.cmd + 1)
    <3>1. ui.cmd + 1 \in Nat /\ ui.env \in Nat /\ ui.cmd + 1 < Len(SelectedEnvCommands(ui))
      BY <2>2, Facts
    <3>2. (\A r \in Reloads : reload[r].step # "seeded") => InRange(ui.env, Len(mirror))
      BY DEF IInv, UpdateSound, CursorsInRange
    <3> QED BY <1>5, <2>2, <3>1, <3>2
  <2> QED BY <1>7, <2>1, <2>2 DEF MoveCursorDown
<1>8. CASE Request \/ OtherKey \/ OpenInspector
  <2>1. Press(ui) /\ UNCHANGED <<daemon, mirror, tasks>> /\ screen' \in {"main", "list"}
    BY <1>8 DEF Request, OtherKey, OpenInspector, Press
  <2> QED BY <2>1, Facts, SamePlace, PressKeeps
<1>9. CASE InspectorKey
  <2>1. /\ screen \in {"list", "detail"} /\ screen' \in {"main", "list", "detail"}
        /\ UNCHANGED <<daemon, mirror, reload, teardown, readers, window, timers, ui>>
    BY <1>9 DEF InspectorKey, tasks, typed
  <2>2. Running /\ teardown = "no"
    BY <2>1, Facts DEF Running
  <2> QED BY <2>1, <2>2, Facts, SamePlace, KeyKeeps DEF IInv, ConfirmingInWindow
<1>10. CASE QuitReset
  <2> DEFINE u == [ui EXCEPT !.confirming = FALSE]
  <2>1. u \in UIRecord /\ u.env = ui.env /\ u.cmd = ui.cmd /\ u.anchor = ui.anchor
        /\ ~u.confirming
    BY Facts DEF UIRecord
  <2>2. /\ ui' = u /\ screen' = screen /\ Running
        /\ timers > 0 /\ timers' = timers - 1
        /\ window' = IF window = 0 THEN 0 ELSE window - 1
        /\ UNCHANGED <<daemon, mirror, reload, teardown, readers>>
    BY <1>10 DEF QuitReset, tasks
  <2> HIDE DEF u
  <2>3. timers' \in 0 .. MaxTimers /\ window' \in 0 .. timers'
    BY <2>2, Facts
  <2>4. screen' \in {"main", "list", "detail", "shutdown"}
    BY <2>2, Facts DEF Running
  <2> QED BY <2>1, <2>2, <2>3, <2>4, Facts, SamePlace, KeyKeeps
<1> QED BY <1>1, <1>2, <1>3, <1>4, <1>6, <1>7, <1>8, <1>9, <1>10

\* The daemon, the shutdown and the events of the engine.
LEMMA RestKeeps ==
  ASSUME IInv, EngineEvent \/ DaemonGone \/ RefreshShutdownLogs \/ ShutdownDone \/ Signalled
                 \/ AskShutdown \/ ShutdownEnds \/ DaemonExits
  PROVE  IInv'
<1>1. ASSUME /\ UNCHANGED <<mirror, reload, readers, window, timers, screen, ui>> /\ Running
             /\ daemon' \in {"up", "gone"} /\ teardown' \in {"no", "asked", "waiting", "over"}
             /\ teardown' # "no" <=> teardown # "no"
      PROVE  IInv'
  <2>1. TypeOK'
    BY <1>1 DEF IInv, TypeOK, Running
  <2>2. Shape' /\ ConfirmingInWindow' /\ AnchorHolds'
    BY <1>1 DEF IInv, Shape, ConfirmingInWindow, AnchorHolds
  <2>3. UpdateSound'
    BY <1>1 DEF IInv, UpdateSound, CursorsInRange, OneReader, SelectedEnvCommands, Running
  <2> QED BY <2>1, <2>2, <2>3 DEF IInv
<1>2. ASSUME NEW how \in {"exited", "panicked"}, Ends(how) PROVE IInv'
  BY <1>2, EndsKeeps
<1>3. readers = 1 => (readers - 1) + 1 = readers
  OBVIOUS
<1>4. daemon \in {"up", "gone"}
  BY DEF IInv, TypeOK
<1>a. CASE EngineEvent
  <2>1. readers' = readers /\ Running
    BY <1>3, <1>a DEF EngineEvent, IInv, UpdateSound, OneReader
  <2>2. UNCHANGED <<daemon, mirror, reload, teardown, typed, screen, ui>>
    BY <1>a DEF EngineEvent
  <2> QED BY <1>1, <1>4, <2>1, <2>2, Facts DEF typed
<1>b. CASE DaemonGone \/ ShutdownDone \/ Signalled
  BY <1>2, <1>b DEF DaemonGone, ShutdownDone, Signalled
<1>c. CASE RefreshShutdownLogs
  <2>1. CASE Ends("panicked")
    BY <1>2, <2>1
  <2>2. CASE UNCHANGED <<daemon, mirror, tasks, typed, screen, ui>>
    <3>1. Running
      BY <1>c DEF RefreshShutdownLogs, Running
    <3> QED BY <1>1, <1>4, <2>2, <3>1, Facts DEF tasks, typed
  <2> QED BY <1>c, <2>1, <2>2 DEF RefreshShutdownLogs
<1>d. CASE AskShutdown \/ ShutdownEnds
  BY <1>1, <1>4, <1>d DEF AskShutdown, ShutdownEnds, typed
<1>e. CASE DaemonExits
  BY <1>1, <1>e, Facts DEF DaemonExits, tasks, typed
<1> QED BY <1>a, <1>b, <1>c, <1>d, <1>e

\* A step of a reload in its own goroutine, or the key that begins it.
LEMMA ReloadKeeps ==
  ASSUME IInv, Running, Running', UNCHANGED <<daemon, teardown, readers, timers, screen>>,
         mirror' \in Topologies, ui' \in UIRecord, window' \in 0 .. timers,
         ui'.confirming => window' > 0,
         reload' \in [Reloads -> ReloadRecord],
         \A r \in Reloads : reload'[r].step = "fetched" => reload'[r].snap \in Topologies,
         (\A r \in Reloads : reload'[r].step # "seeded") =>
           InRange(ui'.env, Len(mirror')) /\ InRange(ui'.cmd, Len(SelectedEnvCommands(ui)')),
         AnchorHolds'
  PROVE  IInv'
<1>1. TypeOK'
  BY Facts DEF IInv, TypeOK, UIRecord, ReloadRecord
<1>2. Shape' /\ ConfirmingInWindow'
  BY DEF Shape, ConfirmingInWindow
<1>3. UpdateSound'
  BY DEF IInv, UpdateSound, CursorsInRange, OneReader
<1> QED BY <1>1, <1>2, <1>3 DEF IInv

LEMMA StartReloadKeeps ==
  ASSUME IInv, NEW r \in Reloads, StartReload(r)
  PROVE  IInv'
<1> DEFINE u == [[ui EXCEPT !.anchor = Selected(ui)] EXCEPT !.confirming = FALSE]
           alone == \A o \in Reloads : reload[o].step = "idle"
           chosen == IF alone THEN Selected(ui) ELSE NoSelection
<1>1. Selected(ui) \in Selection /\ NoSelection \in Selection
  BY Facts, SelectedType DEF Selection, NoSelection
<1>2. /\ u \in UIRecord /\ u.env = ui.env /\ u.cmd = ui.cmd /\ u.anchor = Selected(ui)
      /\ ~u.confirming
  BY <1>1, Facts DEF UIRecord
<1>3. /\ ui' = u /\ screen = "main" /\ screen' = screen /\ window' = 0 /\ timers' = timers
      /\ UNCHANGED <<daemon, mirror, teardown, readers>> /\ reload[r].step = "idle"
  BY DEF StartReload, Press
<1>4. reload' = [o \in Reloads |->
           IF o # r THEN [reload[o] EXCEPT !.chosen = NoSelection]
                    ELSE [step |-> "asked", snap |-> <<>>, chosen |-> chosen]]
  BY DEF StartReload
<1> HIDE DEF u
<1>5. /\ \A o \in Reloads : o # r => /\ reload'[o].step = reload[o].step
                                     /\ reload'[o].snap = reload[o].snap
                                     /\ reload'[o].chosen = NoSelection
      /\ reload'[r].step = "asked" /\ reload'[r].chosen = chosen
      /\ reload' \in [Reloads -> ReloadRecord]
  BY <1>1, <1>4 DEF IInv, Shape, ReloadRecord
<1> HIDE DEF chosen
<1>6. \A o \in Reloads : reload'[o].step = "fetched" => reload'[o].snap \in Topologies
  BY <1>5 DEF IInv, Shape
<1>7. AnchorHolds'
  BY <1>2, <1>3, <1>5 DEF AnchorHolds, chosen
<1>8. SelectedEnvCommands(ui)' = SelectedEnvCommands(ui)
  BY <1>2, <1>3 DEF SelectedEnvCommands
<1>9. (\A o \in Reloads : reload'[o].step # "seeded") =>
        InRange(ui'.env, Len(mirror')) /\ InRange(ui'.cmd, Len(SelectedEnvCommands(ui)'))
  BY <1>2, <1>3, <1>5, <1>8 DEF IInv, UpdateSound, CursorsInRange
<1> QED BY <1>2, <1>3, <1>5, <1>6, <1>7, <1>9, Facts, ReloadKeeps DEF Running

\* A reload under way that goes on: it keeps what was chosen, and a snapshot it
\* holds is one.
Advanced(r, next) ==
  /\ next \in ReloadRecord /\ reload' = [reload EXCEPT ![r] = next]
  /\ reload[r].step \notin {"idle", "seeded"} /\ next.step # "idle"
  /\ next.chosen = reload[r].chosen
  /\ next.step = "fetched" => next.snap \in Topologies
  /\ mirror' = mirror \/ next.step = "seeded"

LEMMA ReloadAdvances ==
  ASSUME IInv, NEW r \in Reloads, ReloadStep(r)
  PROVE  mirror' \in Topologies /\ \E next : Advanced(r, next)
<1>1. /\ reload[r] \in ReloadRecord /\ reload \in [Reloads -> ReloadRecord]
      /\ mirror \in Topologies
  BY Facts DEF IInv, Shape
<1>2. ASSUME NEW from, NEW to \in {"reloading", "reloaded", "seeded", "failed"},
             from \notin {"idle", "seeded"}, Step(r, from, to), mirror' = mirror \/ to = "seeded"
      PROVE  \E next : Advanced(r, next)
  <2> DEFINE next == [reload[r] EXCEPT !.step = to]
  <2>1. next \in ReloadRecord /\ next.step = to /\ next.chosen = reload[r].chosen
    BY <1>1 DEF ReloadRecord
  <2>2. reload' = [reload EXCEPT ![r] = next] /\ reload[r].step = from
    BY <1>1, <1>2 DEF Step
  <2> QED BY <1>2, <2>1, <2>2 DEF Advanced
<1>3. CASE AskReload(r) \/ Reloaded(r) \/ ReloadFails(r)
  BY <1>1, <1>2, <1>3 DEF AskReload, Reloaded, ReloadFails
<1>4. CASE SeedMirror(r)
  <2>1. mirror' \in Topologies
    BY <1>4 DEF SeedMirror, Step, IInv, Shape
  <2> QED BY <1>2, <1>4, <2>1 DEF SeedMirror
<1>5. CASE FetchSnapshot(r)
  <2>0. mirror' = mirror /\ reload[r].step = "reloaded"
    BY <1>5 DEF FetchSnapshot
  <2>1. CASE daemon = "up"
    <3>1. PICK t \in Topologies :
            reload' = [reload EXCEPT ![r].step = "fetched", ![r].snap = t]
      BY <1>5, <2>1 DEF FetchSnapshot
    <3> DEFINE next == [reload[r] EXCEPT !.step = "fetched", !.snap = t]
    <3>2. /\ next \in ReloadRecord /\ next.step = "fetched" /\ next.snap = t
          /\ next.chosen = reload[r].chosen
      BY <1>1 DEF ReloadRecord
    <3>3. reload' = [reload EXCEPT ![r] = next]
      BY <1>1, <3>1
    <3> QED BY <1>1, <2>0, <3>2, <3>3 DEF Advanced
  <2>2. CASE daemon # "up"
    <3> DEFINE next == [reload[r] EXCEPT !.step = "seeded"]
    <3>1. next \in ReloadRecord /\ next.step = "seeded" /\ next.chosen = reload[r].chosen
      BY <1>1 DEF ReloadRecord
    <3>2. reload' = [reload EXCEPT ![r] = next]
      BY <1>1, <1>5, <2>2 DEF FetchSnapshot
    <3> QED BY <1>1, <2>0, <3>1, <3>2 DEF Advanced
  <2> QED BY <2>1, <2>2
<1> QED BY <1>3, <1>4, <1>5 DEF ReloadStep

LEMMA ReloadStepKeeps ==
  ASSUME IInv, NEW r \in Reloads, ReloadStep(r)
  PROVE  IInv'
<1>1. UNCHANGED <<daemon, teardown, readers, window, timers, screen, ui>> /\ Running /\ Running'
  BY DEF ReloadStep, AskReload, Reloaded, ReloadFails, FetchSnapshot, SeedMirror, Step, typed,
     Running
<1>2. PICK next : Advanced(r, next)
  BY ReloadAdvances
<1>3. /\ \A o \in Reloads : o # r => reload'[o] = reload[o]
      /\ reload'[r] = next /\ reload' \in [Reloads -> ReloadRecord]
  BY <1>2 DEF Advanced, IInv, Shape
<1>4. \A o \in Reloads : reload'[o].step = "fetched" => reload'[o].snap \in Topologies
  BY <1>2, <1>3 DEF Advanced, IInv, Shape
<1>5. AnchorHolds'
  BY <1>1, <1>2, <1>3 DEF Advanced, IInv, AnchorHolds
<1>6. (\A o \in Reloads : reload'[o].step # "seeded") =>
        InRange(ui'.env, Len(mirror')) /\ InRange(ui'.cmd, Len(SelectedEnvCommands(ui)'))
  <2> SUFFICES ASSUME \A o \in Reloads : reload'[o].step # "seeded"
               PROVE  InRange(ui'.env, Len(mirror'))
                        /\ InRange(ui'.cmd, Len(SelectedEnvCommands(ui)'))
    OBVIOUS
  <2>1. mirror' = mirror
    BY <1>2, <1>3 DEF Advanced
  <2>2. \A o \in Reloads : reload[o].step # "seeded"
    BY <1>2, <1>3 DEF Advanced
  <2>3. SelectedEnvCommands(ui)' = SelectedEnvCommands(ui)
    BY <1>1, <2>1 DEF SelectedEnvCommands
  <2> QED BY <1>1, <2>1, <2>2, <2>3 DEF IInv, UpdateSound, CursorsInRange
<1> QED BY <1>1, <1>3, <1>4, <1>5, <1>6, Facts, ReloadAdvances, ReloadKeeps
        DEF IInv, ConfirmingInWindow

\* The message of a reload that is over.
LEMMA ReloadDoneKeeps ==
  ASSUME IInv, NEW r \in Reloads, ReloadDone(r)
  PROVE  IInv'
<1>1. /\ UNCHANGED <<daemon, mirror, teardown, readers, window, timers, screen>>
      /\ reload' = [reload EXCEPT ![r] = IdleReload] /\ Running /\ Running'
      /\ reload[r].step \in {"seeded", "failed"}
  BY DEF ReloadDone, Settled, typed, Running
<1>2. /\ IdleReload \in ReloadRecord /\ IdleReload.step = "idle"
      /\ IdleReload.chosen = NoSelection
  BY DEF IdleReload, ReloadRecord, NoSelection, Selection
<1>3. /\ \A o \in Reloads : o # r => reload'[o] = reload[o]
      /\ reload'[r] = IdleReload /\ reload' \in [Reloads -> ReloadRecord]
      /\ \A o \in Reloads : reload'[o].step = "fetched" => reload'[o].snap \in Topologies
  BY <1>1, <1>2 DEF IInv, Shape
<1>4. AnchorHolds'
  <2> SUFFICES ASSUME NEW o \in Reloads, reload'[o].chosen # NoSelection
               PROVE  /\ reload'[o].step # "idle" /\ ui'.anchor = reload'[o].chosen
                      /\ \A q \in Reloads : q # o => reload'[q].step = "idle"
    BY DEF AnchorHolds
  <2>1. o # r /\ reload[o].chosen # NoSelection
    BY <1>2, <1>3
  <2>2. reload[r].step = "idle"
    BY <2>1 DEF IInv, AnchorHolds
  <2> QED BY <1>1, <2>2
<1>5. CASE reload[r].step = "failed"
  <2>1. ui' = ui
    BY <1>5 DEF ReloadDone
  <2>2. (\A o \in Reloads : reload'[o].step # "seeded") =>
           \A o \in Reloads : reload[o].step # "seeded"
    BY <1>3, <1>5
  <2>3. SelectedEnvCommands(ui)' = SelectedEnvCommands(ui)
    BY <1>1, <2>1 DEF SelectedEnvCommands
  <2> QED BY <1>1, <1>3, <1>4, <2>1, <2>2, <2>3, Facts, ReloadKeeps
          DEF IInv, ConfirmingInWindow, UpdateSound, CursorsInRange
<1>6. CASE reload[r].step = "seeded"
  <2>1. ui' = ClampCursors(ReanchorSelection(ui))
    BY <1>6 DEF ReloadDone
  <2>2. ReanchorSelection(ui) \in UIRecord
        /\ ReanchorSelection(ui).confirming = ui.confirming
    BY Facts, Reanchored
  <2>3. /\ ui' \in UIRecord /\ ui'.confirming = ui.confirming
        /\ InRange(ui'.env, Len(mirror)) /\ InRange(ui'.cmd, Len(SelectedEnvCommands(ui')))
    BY <2>1, <2>2, Facts, Clamps
  <2>4. SelectedEnvCommands(ui)' = SelectedEnvCommands(ui')
    BY <1>1 DEF SelectedEnvCommands
  <2> QED BY <1>1, <1>3, <1>4, <2>3, <2>4, Facts, ReloadKeeps DEF IInv, ConfirmingInWindow
<1> QED BY <1>1, <1>5, <1>6

-----------------------------------------------------------------------------
(* The theorems *)

LEMMA IInvInit == Init => IInv
<1> SUFFICES ASSUME Init PROVE IInv
  OBVIOUS
<1>1. mirror \in Topologies /\ reload = [r \in Reloads |-> IdleReload] /\ ui = Start
      /\ readers = 1 /\ timers = 0 /\ window = 0 /\ screen = "main" /\ teardown = "no"
      /\ daemon = "up"
  BY DEF Init
<1>2. NoSelection \in Selection /\ Start \in UIRecord /\ IdleReload \in ReloadRecord
      /\ Start.env = 0 /\ Start.cmd = 0 /\ ~Start.confirming /\ Start.focused \in DOMAIN Panes
      /\ IdleReload.step = "idle" /\ IdleReload.chosen = NoSelection
  BY DEF NoSelection, Selection, Start, UIRecord, IdleReload, ReloadRecord, Panes
<1>3. TypeOK
  BY <1>1, <1>2, TerminalConstants DEF TypeOK, Running
<1>4. Shape /\ ConfirmingInWindow /\ AnchorHolds
  BY <1>1, <1>2 DEF Shape, ConfirmingInWindow, AnchorHolds
<1>5. Len(mirror) \in Nat /\ Len(SelectedEnvCommands(ui)) \in Nat
  BY <1>1, <1>2, Listed, CommandsListed
<1>6. UpdateSound
  BY <1>1, <1>2, <1>5 DEF UpdateSound, CursorsInRange, OneReader, InRange
<1> QED BY <1>3, <1>4, <1>6 DEF IInv

LEMMA IInvStep == IInv /\ [Next]_vars => IInv'
<1> SUFFICES ASSUME IInv, [Next]_vars PROVE IInv'
  OBVIOUS
<1>1. CASE Next
  BY <1>1, KeysKeep, RestKeeps, StartReloadKeeps, ReloadStepKeeps, ReloadDoneKeeps DEF Next
<1>2. CASE UNCHANGED vars
  BY <1>2 DEF vars, tasks, typed, IInv, TypeOK, Shape, UpdateSound, CursorsInRange, OneReader,
     SelectedEnvCommands, Running, ConfirmingInWindow, AnchorHolds
<1> QED BY <1>1, <1>2

\* The inductive invariant: shapes, the cursors and the one reader, what a pending
\* confirmation and a reload under way remember.
THEOREM Invariant == Spec => []IInv
  BY IInvInit, IInvStep, PTL DEF Spec

\* The UI, its tasks and its timers keep their shape; the shutdown screen is on
\* exactly as long as a shutdown is under way.
THEOREM TypeCorrect == Spec => []TypeOK
  BY Invariant, PTL DEF IInv

\* Whatever reloads replace the lists, and whatever the keys do, cursors are in range
\* once the message of the reload was handled, and one waitForEvent is under way.
THEOREM UpdatesAreSound == Spec => []UpdateSound
  BY Invariant, PTL DEF IInv

\* The daemon is shut down only after two Ctrl+C in a row, while the first one's
\* timer runs (handleKey).
THEOREM QuitsAreConfirmed == Spec => QuitConfirmed
<1>1. IInv /\ [Next]_vars => [teardown = "no" /\ teardown' # "no" => window > 0]_vars
  <2> SUFFICES ASSUME IInv, Next, teardown = "no", teardown' # "no" PROVE window > 0
    OBVIOUS
  <2>1. SecondCtrlC
    BY DEF Next, FirstCtrlC, SecondCtrlC, Detach, NextPane, PreviousPane, MoveCursorUp,
       MoveCursorDown, Request, OtherKey, OpenInspector, InspectorKey, QuitReset, EngineEvent,
       DaemonGone, RefreshShutdownLogs, ShutdownDone, Signalled, AskShutdown, ShutdownEnds,
       DaemonExits, StartReload, ReloadStep, ReloadDone, Move, Ends, AskReload, Reloaded,
       ReloadFails, FetchSnapshot, SeedMirror, Step, tasks
  <2> QED BY <2>1 DEF SecondCtrlC, IInv, ConfirmingInWindow
<1> QED BY <1>1, Invariant, PTL DEF Spec, QuitConfirmed

\* Nothing but its message ends a reload, as long as the program runs.
LEMMA OnlyDoneEnds ==
  ASSUME IInv, Next, NEW r \in Reloads, Running',
         reload[r].step = "seeded", reload'[r].step = "idle"
  PROVE  ReloadDone(r)
<1>0. reload \in [Reloads -> ReloadRecord]
  BY DEF IInv, Shape
<1>1. ASSUME NEW o \in Reloads, StartReload(o) PROVE FALSE
  <2>1. o # r
    BY <1>1 DEF StartReload
  <2>2. reload'[r] = [reload[r] EXCEPT !.chosen = NoSelection]
    BY <1>1, <2>1 DEF StartReload
  <2> QED BY <1>0, <2>2 DEF ReloadRecord
<1>2. ASSUME NEW o \in Reloads, ReloadStep(o) PROVE FALSE
  <2>1. PICK next : Advanced(o, next)
    BY <1>2, ReloadAdvances
  <2> QED BY <1>0, <2>1 DEF Advanced
<1>3. ASSUME NEW o \in Reloads, ReloadDone(o) PROVE ReloadDone(r)
  <2>1. reload' = [reload EXCEPT ![o] = IdleReload]
    BY <1>3 DEF ReloadDone, Settled
  <2>2. o = r
    BY <1>0, <2>1
  <2> QED BY <1>3, <2>2
<1>4. ASSUME NEW how \in {"exited", "panicked"}, Ends(how) PROVE FALSE
  BY <1>4 DEF Ends, Running
<1>5. ASSUME UNCHANGED reload PROVE FALSE
  BY <1>5
<1> QED BY <1>1, <1>2, <1>3, <1>4, <1>5
        DEF Next, FirstCtrlC, SecondCtrlC, Detach, NextPane, PreviousPane, MoveCursorUp,
       MoveCursorDown, Request, OtherKey, OpenInspector, InspectorKey, QuitReset, EngineEvent,
       DaemonGone, RefreshShutdownLogs, ShutdownDone, Signalled, AskShutdown, ShutdownEnds,
       DaemonExits, Move, tasks

\* A reload that began alone leaves selected what was, where it is in the new lists
\* (reanchorSelection, clampCursors).
THEOREM SelectionIsKept == Spec => SelectionFollows
<1>1. IInv /\ [Next]_vars =>
        [\A r \in Reloads :
           LET chosen == reload[r].chosen
           IN  /\ Running' /\ reload[r].step = "seeded" /\ reload'[r].step = "idle"
               /\ \E t \in ToSet(mirror) : t.env = chosen.env
               => /\ Selected(ui)'.env = chosen.env
                  /\ chosen.cmd \in ToSet(SelectedEnvCommands(ui)')
                       => Selected(ui)'.cmd = chosen.cmd]_vars
  <2> SUFFICES ASSUME IInv, Next, NEW r \in Reloads, Running', reload[r].step = "seeded",
                      reload'[r].step = "idle",
                      NEW t \in ToSet(mirror), t.env = reload[r].chosen.env
               PROVE  /\ Selected(ui)'.env = reload[r].chosen.env
                      /\ reload[r].chosen.cmd \in ToSet(SelectedEnvCommands(ui)')
                           => Selected(ui)'.cmd = reload[r].chosen.cmd
    OBVIOUS
  <2> DEFINE chosen == reload[r].chosen
             u == ReanchorSelection(ui)
             v == ClampCursors(u)
             cmds == SelectedEnvCommands(u)
  <2>1. PICK i \in 1 .. Len(mirror) : mirror[i] = t
    BY DEF ToSet
  <2>2. chosen # NoSelection
    BY <2>1, Facts, Listed DEF NoSelection, Name
  <2>3. ui.anchor = chosen
    BY <2>2 DEF IInv, AnchorHolds
  <2>4. ui' = v /\ mirror' = mirror
    BY OnlyDoneEnds DEF ReloadDone
  <2>5. /\ u \in UIRecord /\ u.env < Len(mirror) /\ mirror[u.env + 1].env = chosen.env
        /\ (\E j \in 1 .. Len(cmds) : cmds[j] = chosen.cmd) =>
             u.cmd < Len(cmds) /\ cmds[u.cmd + 1] = chosen.cmd
    BY <2>1, <2>3, Facts, Reanchored
  <2>6. /\ v.env = u.env
        /\ u.cmd < Len(cmds) => v.cmd = u.cmd
    BY <2>5, Facts, Clamps
  <2>7. SelectedEnvCommands(v) = cmds /\ SelectedEnvCommands(ui)' = cmds
    BY <2>4, <2>6 DEF SelectedEnvCommands
  <2>8. Selected(ui)' = [env |-> IF v.env < Len(mirror) THEN mirror[v.env + 1].env ELSE NoName,
                         cmd |-> IF v.cmd < Len(cmds) THEN cmds[v.cmd + 1] ELSE NoName]
    BY <2>4, <2>7 DEF Selected
  <2> HIDE DEF u, v, cmds
  <2>9. Selected(ui)'.env = chosen.env
    BY <2>5, <2>6, <2>8
  <2>10. ASSUME chosen.cmd \in ToSet(cmds) PROVE Selected(ui)'.cmd = chosen.cmd
    <3>1. PICK j \in 1 .. Len(cmds) : cmds[j] = chosen.cmd
      BY <2>10 DEF ToSet
    <3> QED BY <2>5, <2>6, <2>8, <3>1
  <2> QED BY <2>7, <2>9, <2>10
<1> QED BY <1>1, Invariant, PTL DEF Spec, SelectionFollows
=============================================================================
