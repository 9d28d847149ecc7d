----------------------------- MODULE ConfigGate -----------------------------
(***************************************************************************)
(* How a configuration gets from its files into the engine, and an edit of *)
(* the files to the user (internal/tui: reloadController; internal/trust;  *)
(* cmd/env-starter: resolveConfig, doAllow).                               *)
(*                                                                         *)
(* The operator saves the files and approves their contents with `allow`.  *)
(* The daemon loads them when it starts, and again when a scan finds that  *)
(* their stamp (newest modification time, total size) has changed or when  *)
(* a client asks for a reload.  Each file is hashed and then read on its   *)
(* own, so that a save may land between any two of these.  Requests of     *)
(* several clients run concurrently; the controller's mutex is held for    *)
(* the whole of a scan but only for the last step of a reload.             *)
(***************************************************************************)
EXTENDS ConfigRules

CONSTANTS
  Clients,     \* clients of the daemon (TUIs), each with one request at a time
  None, NotApproved, \* no configuration or no error; what trust.Check reports
  Daemon,      \* the thread of runDaemon that loads the first configuration
  Operators,   \* runs of `allow`
  BaseTexts, OverlayTexts, \* what may be saved in each file
  Given,       \* the pairs of texts the daemon may be started with
  Edited,      \* bound: those of them that are edited later
  MaxEdits, MaxReloads     \* bounds

Threads == Clients \cup {Daemon}

ASSUME GateConstants ==
  /\ Daemon \notin Clients /\ None \notin Threads
  /\ NoOverlay \notin OverlayTexts
  /\ Edited \subseteq Given
  /\ MaxEdits \in Nat /\ MaxReloads \in Nat

VARIABLES
  base, overlay, \* the texts in the files; overlay may be NoOverlay
  content,       \* what loadMerged makes of the files now
  edits,         \* saves so far; also the stamp of the files
  approved,      \* the trust store: the approved text of each file
  allow,         \* each run of `allow`: its pc and the hashes it has taken
  engine,        \* the configuration the engine runs, None before there is one
  ctrl,          \* reloadController: cfg, stamp, dirty, parseErr
  mu,            \* who holds its mutex, None when free
  thread,        \* what each thread of the daemon does: job, pc, what it has read
  view,          \* what each client was told last: dirty and error
  reloads,       \* reloads so far
  ever,          \* history: what the trust store has held
  slipped,       \* history: per file, texts read that were saved after the check
  origin,        \* history: the texts from which the engine's configuration was read
  unread         \* history: ways in which the next scan misses the latest state

files     == <<base, overlay, content, edits>>
daemonVars == <<engine, ctrl, mu, thread, view, reloads>>
vars == <<files, approved, allow, daemonVars, ever, slipped, origin, unread>>

\* store: the store Status loaded.  ok: the base hashed to what it approves.
\* base and overlay: the texts as read.  fresh: the result.  slips: history, the
\* files saved since this thread hashed them.
Idle == [job |-> "none", pc |-> "idle", store |-> None, ok |-> FALSE, base |-> None,
         overlay |-> None, fresh |-> None, slips |-> {}]

Init ==
  /\ \E pair \in Given : /\ base = pair[1] /\ overlay = pair[2]
                         /\ edits = IF pair \in Edited THEN 0 ELSE MaxEdits
  /\ approved = [base |-> base, overlay |-> overlay]
  /\ allow = [o \in Operators |-> [pc |-> "off", store |-> approved]]
  /\ engine = None
  /\ ctrl = [cfg |-> None, stamp |-> 0, dirty |-> FALSE, parseErr |-> None]
  /\ mu = None
  /\ thread = [t \in Threads |->
       IF t = Daemon THEN [Idle EXCEPT !.job = "start", !.pc = "check"] ELSE Idle]
  /\ view = [c \in Clients |-> [dirty |-> FALSE, parseErr |-> None]]
  /\ reloads = 0
  /\ content = LoadMerged(base, overlay) /\ ever = {approved}
  /\ slipped = [base |-> {}, overlay |-> {}] /\ origin = None /\ unread = {}

IsApproved == approved.base = base /\ approved.overlay = overlay

\* Where a thread has hashed a file and is yet to read it.
Hashed == [base |-> {"hashOverlay", "readBase"}, overlay |-> {"readBase", "readOverlay"}]

\* A load whose stamp is taken, or whose failure is noted, only at its end, and that
\* has used the store, or hashed the file, as it was before a change of it.
Passed(file) ==
  {"readBase", "readOverlay", "failed", "loaded", "install"}
    \cup (CASE file = "store"   -> {"hashBase", "hashOverlay"}
            [] file = "base"    -> {"hashOverlay"}
            [] file = "overlay" -> {})
Overtaken(file) ==
  IF \E t \in Threads : thread[t].job \in {"start", "reload"} /\ thread[t].pc \in Passed(file)
  THEN {"overtaken"} ELSE {}

-----------------------------------------------------------------------------
(* The operator                                                            *)

Saved(file) ==
  /\ edits < MaxEdits /\ edits' = edits + 1
  /\ content' = LoadMerged(base', overlay')
  /\ thread' = [t \in Threads |->
       IF thread[t].pc \in Hashed[file] THEN [thread[t] EXCEPT !.slips = @ \cup {file}]
                                        ELSE thread[t]]
  /\ unread' = (unread \cap ({"crossed"} \cup Overtaken("store"))) \cup Overtaken(file)
  /\ UNCHANGED <<approved, allow, engine, ctrl, mu, view, reloads, ever, slipped, origin>>

Save ==
  \/ base' \in BaseTexts \ {base} /\ UNCHANGED overlay /\ Saved("base")
  \/ /\ overlay # NoOverlay /\ overlay' \in OverlayTexts \ {overlay} /\ UNCHANGED base
     /\ Saved("overlay")

\* doAllow: it shows what the files hold and asks, unless they are approved;
\* on "yes" Approve hashes the files anew, one after the other ...
Allow(o) ==
  /\ allow[o].pc = "off" /\ content # Invalid /\ ~IsApproved
  /\ allow' = [allow EXCEPT ![o].pc = "asked"]
  /\ UNCHANGED <<files, approved, daemonVars, ever, slipped, origin, unread>>

Answer(o) ==
  /\ allow[o].pc = "asked"
  /\ \E next \in {"done", "hashBase"} : allow' = [allow EXCEPT ![o].pc = next]
  /\ UNCHANGED <<files, approved, daemonVars, ever, slipped, origin, unread>>

ApproveHash(o) ==
  /\ \/ /\ allow[o].pc = "hashBase"
        /\ allow' = [allow EXCEPT ![o].pc = "hashOverlay", ![o].store.base = base]
     \/ /\ allow[o].pc = "hashOverlay"
        /\ allow' = [allow EXCEPT ![o].pc = "approve", ![o].store.overlay = overlay]
  /\ UNCHANGED <<files, approved, daemonVars, ever, slipped, origin, unread>>

\* ... and replaces the store.  The files have not changed, so no scan loads
\* them again.
Judged == ctrl.stamp = edits /\ ~(\E t \in Clients : mu = t /\ thread[t].pc = "check")

Approve(o) ==
  /\ allow[o].pc = "approve"
  /\ approved' = allow[o].store
  /\ allow' = [allow EXCEPT ![o].pc = "done"]
  /\ ever' = ever \cup {approved'}
  /\ unread' = unread \cup (IF Judged THEN {"approved"} ELSE {}) \cup Overtaken("store")
  /\ UNCHANGED <<files, daemonVars, slipped, origin>>

-----------------------------------------------------------------------------
(* Loading: trust.Check, then loadMerged, file by file                     *)

Goto(t, pc) == thread' = [thread EXCEPT ![t].pc = pc]
Done(t) == thread' = [thread EXCEPT ![t] = Idle]

\* The end of a load: an error, or a configuration.
Loaded(t, outcome) ==
  thread' = [thread EXCEPT ![t] =
    [Idle EXCEPT !.job = thread[t].job, !.base = thread[t].base, !.overlay = overlay,
                 !.fresh = outcome,
                 !.pc = IF outcome \in {Invalid, NotApproved} THEN "failed" ELSE "loaded"]]

\* Status: the store first, then a hash of each file ...
LoadStore(t) ==
  /\ thread[t].pc = "check"
  /\ thread' = [thread EXCEPT ![t].pc = "hashBase", ![t].store = approved]
  /\ UNCHANGED <<files, approved, allow, engine, ctrl, mu, view, reloads, ever, slipped, origin, unread>>

HashBase(t) ==
  /\ thread[t].pc = "hashBase"
  /\ thread' = [thread EXCEPT ![t].pc = "hashOverlay", ![t].ok = thread[t].store.base = base]
  /\ UNCHANGED <<files, approved, allow, engine, ctrl, mu, view, reloads, ever, slipped, origin, unread>>

\* Mutant: a reload is not gated.
HashOverlayStartOnly(t) ==
  /\ thread[t].pc = "hashOverlay"
  /\ IF thread[t].job = "reload" \/ (thread[t].ok /\ thread[t].store.overlay = overlay)
     THEN Goto(t, "readBase")
     ELSE Loaded(t, NotApproved)
  /\ UNCHANGED <<files, approved, allow, engine, ctrl, mu, view, reloads, ever, slipped, origin, unread>>

\* ... and the verdict of Check over both.
HashOverlay(t) ==
  /\ thread[t].pc = "hashOverlay"
  /\ IF thread[t].ok /\ thread[t].store.overlay = overlay
     THEN Goto(t, "readBase")
     ELSE Loaded(t, NotApproved)
  /\ UNCHANGED <<files, approved, allow, engine, ctrl, mu, view, reloads, ever, slipped, origin, unread>>

\* History: a text that is read although it was saved after its hash was taken.
Slip(t, file, text) ==
  slipped' = IF file \in thread[t].slips THEN [slipped EXCEPT ![file] = @ \cup {text}]
                                         ELSE slipped

\* Load(base) = Invalid, and LoadMerged(thread[t].base, overlay).  TLC need not
\* validate again what `content` says of the files as they are.
BaseInvalid == content = Invalid /\ Load(base) = Invalid
Merged(t) == IF thread[t].base = base THEN content ELSE LoadMerged(thread[t].base, overlay)

ReadBase(t) ==
  /\ thread[t].pc = "readBase"
  /\ IF BaseInvalid THEN Loaded(t, Invalid)
     ELSE thread' = [thread EXCEPT ![t].pc = "readOverlay", ![t].base = base]
  /\ Slip(t, "base", base)
  /\ UNCHANGED <<files, approved, allow, engine, ctrl, mu, view, reloads, ever, origin, unread>>

ReadOverlay(t) ==
  /\ thread[t].pc = "readOverlay"
  /\ Loaded(t, Merged(t))
  /\ Slip(t, "overlay", overlay)
  /\ UNCHANGED <<files, approved, allow, engine, ctrl, mu, view, reloads, ever, origin, unread>>

-----------------------------------------------------------------------------
(* runDaemon: resolveConfig, engine.New, NewReloadController               *)

Runs(t) == /\ engine' = thread[t].fresh
           /\ origin' = [base |-> thread[t].base, overlay |-> thread[t].overlay]

StartFails ==
  /\ thread[Daemon].pc = "failed" /\ Goto(Daemon, "exited")
  /\ UNCHANGED <<files, approved, allow, engine, ctrl, mu, view, reloads, ever, slipped, origin, unread>>

StartEngine ==
  /\ thread[Daemon].pc = "loaded"
  /\ Runs(Daemon) /\ Goto(Daemon, "install")
  /\ UNCHANGED <<files, approved, allow, ctrl, mu, view, reloads, ever, slipped, unread>>

NewController ==
  /\ thread[Daemon].pc = "install"
  /\ ctrl' = [cfg |-> engine, stamp |-> edits, dirty |-> FALSE, parseErr |-> None]
  /\ Done(Daemon)
  /\ UNCHANGED <<files, approved, allow, engine, mu, view, reloads, ever, slipped, origin, unread>>

-----------------------------------------------------------------------------
(* ConfigChanged, asked for by every client at intervals                   *)

Free(c) == thread[c] = Idle /\ ctrl.cfg # None

Tell(c, dirty, err) == view' = [view EXCEPT ![c] = [dirty |-> dirty, parseErr |-> err]]

ScanUnchanged(c) ==
  /\ Free(c) /\ mu = None /\ ctrl.stamp = edits
  /\ Tell(c, ctrl.dirty, ctrl.parseErr)
  /\ UNCHANGED <<files, approved, allow, engine, ctrl, mu, thread, reloads, ever, slipped, origin, unread>>

ScanLoads(c) ==
  /\ Free(c) /\ mu = None /\ ctrl.stamp # edits
  /\ mu' = c /\ ctrl' = [ctrl EXCEPT !.stamp = edits]
  /\ thread' = [thread EXCEPT ![c] = [Idle EXCEPT !.job = "scan", !.pc = "check"]]
  /\ UNCHANGED <<files, approved, allow, engine, view, reloads, ever, slipped, origin, unread>>

\* Mutant: the mutex stays locked.
ScanFailsLocked(c) ==
  /\ thread[c].job = "scan" /\ thread[c].pc = "failed"
  /\ ctrl' = [ctrl EXCEPT !.dirty = FALSE, !.parseErr = thread[c].fresh]
  /\ Tell(c, FALSE, thread[c].fresh)
  /\ Done(c)
  /\ UNCHANGED <<files, approved, allow, engine, mu, reloads, ever, slipped, origin, unread>>

ScanFails(c) ==
  /\ thread[c].job = "scan" /\ thread[c].pc = "failed"
  /\ ctrl' = [ctrl EXCEPT !.dirty = FALSE, !.parseErr = thread[c].fresh]
  /\ Tell(c, FALSE, thread[c].fresh)
  /\ mu' = None /\ Done(c)
  /\ UNCHANGED <<files, approved, allow, engine, reloads, ever, slipped, origin, unread>>

\* Mutant: the error of an earlier scan stays.
ScanComparesKeepsError(c) ==
  /\ thread[c].job = "scan" /\ thread[c].pc = "loaded"
  /\ ctrl' = [ctrl EXCEPT !.dirty = thread[c].fresh # ctrl.cfg]
  /\ Tell(c, ctrl'.dirty, None)
  /\ mu' = None /\ Done(c)
  /\ UNCHANGED <<files, approved, allow, engine, reloads, ever, slipped, origin, unread>>

ScanCompares(c) ==
  /\ thread[c].job = "scan" /\ thread[c].pc = "loaded"
  /\ ctrl' = [ctrl EXCEPT !.dirty = thread[c].fresh # ctrl.cfg, !.parseErr = None]
  /\ Tell(c, ctrl'.dirty, None)
  /\ mu' = None /\ Done(c)
  /\ UNCHANGED <<files, approved, allow, engine, reloads, ever, slipped, origin, unread>>

-----------------------------------------------------------------------------
(* Reload, offered by a client that was told of a change and of no error   *)

Reload(c) ==
  /\ Free(c) /\ view[c] = [dirty |-> TRUE, parseErr |-> None]
  /\ reloads < MaxReloads /\ reloads' = reloads + 1
  /\ thread' = [thread EXCEPT ![c] = [Idle EXCEPT !.job = "reload", !.pc = "check"]]
  /\ UNCHANGED <<files, approved, allow, engine, ctrl, mu, view, ever, slipped, origin, unread>>

ReloadFails(c) ==
  /\ thread[c].job = "reload" /\ thread[c].pc = "failed" /\ mu = None
  /\ ctrl' = [ctrl EXCEPT !.dirty = FALSE, !.parseErr = thread[c].fresh]
  /\ Done(c)
  /\ UNCHANGED <<files, approved, allow, engine, mu, view, reloads, ever, slipped, origin, unread>>

\* Engine.ApplyConfig, outside the mutex.
Apply(c) ==
  /\ thread[c].job = "reload" /\ thread[c].pc = "loaded"
  /\ Runs(c) /\ Goto(c, "install")
  /\ UNCHANGED <<files, approved, allow, ctrl, mu, view, reloads, ever, slipped, unread>>

\* The stamp is the one of now; the error of an earlier scan stays.
Install(c) ==
  /\ thread[c].job = "reload" /\ thread[c].pc = "install" /\ mu = None
  /\ ctrl' = [ctrl EXCEPT !.cfg = thread[c].fresh, !.dirty = FALSE, !.stamp = edits]
  /\ Tell(c, FALSE, None)
  /\ unread' = (unread \ {"crossed"}) \cup (IF ctrl.parseErr # None THEN {"error kept"} ELSE {})
                 \cup (IF thread[c].fresh # engine THEN {"crossed"} ELSE {})
  /\ Done(c)
  /\ UNCHANGED <<files, approved, allow, engine, mu, reloads, ever, slipped, origin>>

-----------------------------------------------------------------------------
ThreadStep(t) ==
  LoadStore(t) \/ HashBase(t) \/ HashOverlay(t) \/ ReadBase(t) \/ ReadOverlay(t)
StartStep == StartFails \/ StartEngine \/ NewController
ScanStep(c) == ScanUnchanged(c) \/ ScanLoads(c) \/ ScanFails(c) \/ ScanCompares(c)
ReloadStep(c) == ReloadFails(c) \/ Apply(c) \/ Install(c)

Next ==
  \/ Save
  \/ \E o \in Operators : Allow(o) \/ Answer(o) \/ ApproveHash(o) \/ Approve(o)
  \/ StartStep
  \/ \E t \in Threads : ThreadStep(t)
  \/ \E c \in Clients : ScanStep(c) \/ Reload(c) \/ ReloadStep(c)

Spec == Init /\ [][Next]_vars

\* Every client scans at intervals and requests that have begun go on; nobody
\* has to save, approve or reload.  A waiter for the mutex gets it in time.
FairSpec ==
  /\ Spec
  /\ WF_vars(StartStep)
  /\ \A t \in Threads : WF_vars(ThreadStep(t))
  /\ \A c \in Clients : SF_vars(ScanStep(c)) /\ SF_vars(ReloadStep(c))

-----------------------------------------------------------------------------
(* Properties                                                              *)

Verdict ==
  IF ~IsApproved THEN [dirty |-> FALSE, parseErr |-> NotApproved]
  ELSE IF content = Invalid THEN [dirty |-> FALSE, parseErr |-> Invalid]
  ELSE [dirty |-> content # engine, parseErr |-> None]

\* Types, and: the mutex is held exactly by a scan that loads.
TypeOK ==
  /\ \A t \in Threads :
       /\ thread[t].job \in {"none", "start", "scan", "reload"}
       /\ thread[t].pc \in {"idle", "check", "hashBase", "hashOverlay", "readBase", "readOverlay",
                          "failed", "loaded", "install", "exited"}
       /\ mu = t <=> thread[t].job = "scan"
  /\ mu \in Clients \cup {None}
  /\ edits \in 0 .. MaxEdits /\ ctrl.stamp \in 0 .. edits /\ ctrl.dirty \in BOOLEAN
  /\ unread \subseteq {"overtaken", "approved", "error kept", "crossed"}

\* The engine runs what loadMerged made of a base and an overlay that one and the
\* same store had approved, where each of the two may have been replaced by a save
\* between its hash and its reading: an edit that is there before the check never
\* reaches the engine unapproved, and an invalid one never at all, at the start
\* and at a reload (resolveConfig, Reload).
RunsApproved ==
  engine # None =>
    /\ engine # Invalid
    /\ \E store \in ever : /\ origin.base \in {store.base} \cup slipped.base
                         /\ origin.overlay \in {store.overlay} \cup slipped.overlay

\* In what the engine runs, merged files included, no commands wait for each other
\* or for one that is not in the workflow (detectCycle), unless a workflow names
\* a command twice.
EngineStartable == engine # None => Startable(engine)

\* What a command gets does not depend on the order in which its holders are
\* walked, if the configuration is one file (validateSharedEnvConflicts, on
\* which effectiveEnv relies).
EngineUnambiguous == engine # None /\ overlay = NoOverlay => Unambiguous(engine)

\* The inspector shows the value that the process gets, and no layer shadows
\* itself (ResolveEnv, effectiveEnv).
InspectorAgrees ==
  engine # None =>
    \A c \in CommandNames(engine) :
      LET order == SetToSeq(Users(engine, c))
          os    == [k \in {"PATH", "K"} |-> "os"]
          shown == ResolveCommandEnv(engine, c, order, os)
          given == EffectiveEnv(engine, c, order)
      IN  \A k \in DOMAIN shown :
            /\ shown[k].value = (given @@ os)[k]
            /\ shown[k].source \notin ToSet(shown[k].shadowed)

\* The configuration the engine runs means one thing, to the goroutines that start
\* it, to the commands and to the user.
EngineSound == EngineStartable /\ EngineUnambiguous /\ InspectorAgrees

\* Once nothing changes any more, every client is told the truth about the files
\* (changed, refused or neither), unless the last change fell into the start or a
\* reload after that had hashed the file (or loaded the store) it changes, was an
\* approval of files already judged, or followed an error that a reload kept
\* (ConfigChanged, Reload).
ViewSettles ==
  \A c \in Clients : <>[](unread # {} \/ ctrl.cfg = None \/ view[c] = Verdict)

\* Every request to the controller ends.
RequestsEnd == \A c \in Clients : thread[c] # Idle ~> thread[c] = Idle

\* The controller answers every client, and in the end with the truth.
ControllerSettles == RequestsEnd /\ ViewSettles

-----------------------------------------------------------------------------
(* What the documentation says                                             *)

\* "editing a watched config file to something unapproved blocks the hot-reload
\* ... until the file is reviewed and re-approved" (docs/configuration.md).
ApprovalUnblocks ==
  \A c \in Clients : <>[](unread \ {"approved"} # {} \/ ctrl.cfg = None \/ view[c] = Verdict)

\* "rejects environments that would set the same key to conflicting values for a
\* shared command" (config.go), "Config validation ... guarantees the holder
\* union never has a real conflict" (supervisor.go).
MergedUnambiguous == engine # None => Unambiguous(engine)

\* "a secrets overlay only needs to name the command/environment and set env"
\* (docs/configuration.md): an overlay that sets nothing but variables of known
\* commands and environments starts.
OnlyNamesAndEnv(over, cfg) ==
  /\ \A o \in ToSet(over.commands) :
       /\ o.name \in CommandNames(cfg) /\ ValidEnvMap(o.env)
       /\ <<o.type, o.run, o.source, o.probe, o.restart>> = <<"", "", "none", "none", "none">>
  /\ \A o \in ToSet(over.environments) :
       /\ Named(cfg.environments, o.name) # 0 /\ ValidEnvMap(o.env)
       /\ o.workflow = << >>

SecretsOverlayLoads ==
  overlay \notin {NoOverlay, Unreadable} /\ Load(base) # Invalid
    => (OnlyNamesAndEnv(overlay, base) => content # Invalid)
=============================================================================
