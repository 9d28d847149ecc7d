-------------------------- MODULE ConfigGateProofs --------------------------
(***************************************************************************)
(* Proofs about the gate between the configuration files and the engine,   *)
(* for any texts, clients, runs of `allow`, edits and reloads: the engine  *)
(* runs what was approved, and what was validated as a whole if there is   *)
(* one file.  What the rules of validation amount to is left to TLC.       *)
(***************************************************************************)
EXTENDS ConfigGate, TLAPS

-----------------------------------------------------------------------------
(* The inductive invariant *)

BaseFiles    == BaseTexts \cup {pair[1] : pair \in Given}
OverlayFiles == OverlayTexts \cup {pair[2] : pair \in Given}
BaseRead     == BaseFiles \cup {None}
OverlayRead  == OverlayFiles \cup {None}
Loads        == {LoadMerged(b, o) : b \in BaseRead, o \in OverlayRead}
Outcomes     == Loads \cup {None, NotApproved, Invalid}
Store        == [base : BaseFiles, overlay : OverlayFiles]
Ctrl         == [cfg : Outcomes, stamp : Nat, dirty : BOOLEAN, parseErr : Outcomes]
Allowing     ==
  [pc : {"off", "asked", "hashBase", "hashOverlay", "approve", "done"}, store : Store]
Loading      == {"hashBase", "hashOverlay", "readBase", "readOverlay"}
ThreadRecord ==
  [job : {"none", "start", "scan", "reload"},
   pc : Loading \cup {"idle", "check", "failed", "loaded", "install", "exited"},
   store : Store \cup {None}, ok : BOOLEAN, base : BaseRead, overlay : OverlayRead,
   fresh : Outcomes, slips : SUBSET {"base", "overlay"}]

Shape ==
  /\ base \in BaseFiles /\ overlay \in OverlayFiles /\ approved \in Store
  /\ allow \in [Operators -> Allowing]
  /\ thread \in [Threads -> ThreadRecord]
  /\ ctrl \in Ctrl
  /\ engine \in Outcomes
  /\ slipped \in [base : SUBSET BaseFiles, overlay : SUBSET OverlayFiles]

\* Who does what: only the daemon starts the engine, only clients scan and reload.
Jobs ==
  /\ \A t \in Threads : thread[t].job = "none" <=> thread[t].pc = "idle"
  /\ \A c \in Clients : thread[c].job # "start"
  /\ thread[Daemon].job \in {"none", "start"}

ContentNow == content = LoadMerged(base, overlay)

\* Two texts of which one store approved each, unless a save put it there between
\* its hash and its reading.
Vouched(b, o) ==
  \E store \in ever : b \in {store.base} \cup slipped.base /\ o \in {store.overlay} \cup slipped.overlay

\* What a load knows: a file that has passed its hash is as its store approved it,
\* or was saved since.
Checked(t) ==
  LET x == thread[t]
  IN  /\ x.pc \in Loading => x.store \in ever
      /\ (x.pc = "hashOverlay" /\ x.ok) \/ x.pc = "readBase"
           => base = x.store.base \/ "base" \in x.slips
      /\ x.pc \in {"readBase", "readOverlay"}
           => overlay = x.store.overlay \/ "overlay" \in x.slips
      /\ x.pc = "readOverlay" => x.base \in {x.store.base} \cup slipped.base

\* What a thread carries to the engine.
Carries(t) == thread[t].pc \in {"loaded", "install"}

\* A configuration as it was read: the valid result of vouched texts, one of them
\* alone if there is one file.
Sound(cfg, b, o) ==
  /\ cfg # Invalid /\ cfg = LoadMerged(b, o)
  /\ Vouched(b, o)
  /\ overlay = NoOverlay => o = NoOverlay

CarriesSound == \A t \in Threads : Carries(t) => Sound(thread[t].fresh, thread[t].base, thread[t].overlay)
EngineSecure == engine # None => Sound(engine, origin.base, origin.overlay)

Gate == approved \in ever /\ (\A t \in Threads : Checked(t)) /\ CarriesSound /\ EngineSecure

IInv == TypeOK /\ Shape /\ Jobs /\ ContentNow /\ Gate

\* What the engine runs is the result of loading the texts it was read from.
EngineLoaded == engine # None => engine = LoadMerged(origin.base, origin.overlay)

\* Without an overlay a configuration is validated as a whole.
EngineValidated == engine # None /\ overlay = NoOverlay => Validate(engine)

-----------------------------------------------------------------------------
(* Shape *)

LEMMA LoadsFrom ==
  ASSUME NEW b \in BaseRead, NEW o \in OverlayRead
  PROVE  LoadMerged(b, o) \in Outcomes
BY DEF Outcomes, Loads

LEMMA ThreadShape ==
  ASSUME Shape, NEW t \in Threads
  PROVE  /\ thread[t] \in ThreadRecord
         /\ \A r \in ThreadRecord : [thread EXCEPT ![t] = r] \in [Threads -> ThreadRecord]
         /\ Idle \in ThreadRecord
         /\ Done(t) => thread' \in [Threads -> ThreadRecord]
         /\ \A pc \in Loading \cup {"failed", "loaded", "install", "exited"} :
              Goto(t, pc) => thread' \in [Threads -> ThreadRecord]
<1>1. thread[t] \in ThreadRecord /\ Idle \in ThreadRecord
  BY DEF Shape, Idle, ThreadRecord, Outcomes, BaseRead, OverlayRead
<1>2. \A r \in ThreadRecord : [thread EXCEPT ![t] = r] \in [Threads -> ThreadRecord]
  BY DEF Shape
<1>3. \A pc \in Loading \cup {"failed", "loaded", "install", "exited"} :
        [thread[t] EXCEPT !.pc = pc] \in ThreadRecord
  BY <1>1 DEF ThreadRecord
<1> QED BY <1>1, <1>2, <1>3 DEF Goto, Done

\* A step of a load changes its thread only, which keeps its job.
LEMMA LoadShape ==
  ASSUME Shape, ContentNow, NEW t \in Threads, ThreadStep(t)
  PROVE  /\ UNCHANGED <<files, approved, allow, engine, ctrl, mu, ever, origin, unread>>
         /\ slipped' \in [base : SUBSET BaseFiles, overlay : SUBSET OverlayFiles]
         /\ thread' = [thread EXCEPT ![t] = thread'[t]]
         /\ thread'[t] \in ThreadRecord /\ thread'[t].job = thread[t].job
         /\ thread[t].pc \in Loading \cup {"check"}
         /\ thread'[t].pc \in Loading \cup {"failed", "loaded"}
<1>1. /\ thread \in [Threads -> ThreadRecord] /\ thread[t] \in ThreadRecord
      /\ approved \in Store /\ base \in BaseRead /\ overlay \in OverlayRead
      /\ content \in Outcomes /\ {Invalid, NotApproved} \subseteq Outcomes
      /\ thread[t].base \in BaseRead
  <2>1. base \in BaseRead /\ overlay \in OverlayRead
    BY DEF Shape, BaseRead, OverlayRead
  <2> QED BY <2>1, LoadsFrom DEF Shape, ContentNow, Outcomes, ThreadRecord
<1> DEFINE Stepped ==
      /\ thread' = [thread EXCEPT ![t] = thread'[t]]
      /\ thread'[t] \in ThreadRecord /\ thread'[t].job = thread[t].job
      /\ thread'[t].pc \in Loading \cup {"failed", "loaded"}
           Began == thread[t].pc \in Loading \cup {"check"}
<1>2. ASSUME NEW f \in Outcomes, Loaded(t, f) PROVE Stepped
  <2>1. /\ thread' = [thread EXCEPT ![t] = thread'[t]]
        /\ thread'[t] = [job |-> thread[t].job, store |-> None, ok |-> FALSE,
             base |-> thread[t].base, overlay |-> overlay, fresh |-> f, slips |-> {},
             pc |-> IF f \in {Invalid, NotApproved} THEN "failed" ELSE "loaded"]
    BY <1>1, <1>2 DEF Loaded, Idle
  <2> QED BY <1>1, <2>1 DEF ThreadRecord
<1>3. ASSUME LoadStore(t) PROVE Stepped /\ Began
  BY <1>1, <1>3 DEF LoadStore, ThreadRecord, Loading
<1>4. ASSUME HashBase(t) PROVE Stepped /\ Began
  BY <1>1, <1>4 DEF HashBase, ThreadRecord, Loading
<1>5. ASSUME Goto(t, "readBase") PROVE Stepped
  BY <1>1, <1>5 DEF Goto, ThreadRecord, Loading
<1>6. ASSUME HashOverlay(t) PROVE Stepped /\ Began
  BY <1>1, <1>2, <1>5, <1>6 DEF HashOverlay, Loading
<1>7. ASSUME ReadBase(t) PROVE Stepped /\ Began
  <2>1. CASE BaseInvalid
    BY <1>1, <1>2, <1>7, <2>1 DEF ReadBase, Loading
  <2>2. CASE ~BaseInvalid
    BY <1>1, <1>7, <2>2 DEF ReadBase, ThreadRecord, Loading
  <2> QED BY <2>1, <2>2
<1>8. ASSUME ReadOverlay(t) PROVE Stepped /\ Began
  <2>1. Merged(t) \in Outcomes
    BY <1>1, LoadsFrom DEF Merged
  <2> QED BY <1>1, <1>2, <1>8, <2>1 DEF ReadOverlay, Loading
<1>9. slipped' \in [base : SUBSET BaseFiles, overlay : SUBSET OverlayFiles]
  <2>1. \A file \in {"base", "overlay"} : \A text :
          Slip(t, file, text) /\ text \in (IF file = "base" THEN BaseFiles ELSE OverlayFiles)
            => slipped' \in [base : SUBSET BaseFiles, overlay : SUBSET OverlayFiles]
    BY DEF Slip, Shape
  <2>2. base \in BaseFiles /\ overlay \in OverlayFiles
    BY DEF Shape
  <2>3. UNCHANGED slipped \/ Slip(t, "base", base) \/ Slip(t, "overlay", overlay)
    BY DEF ThreadStep, LoadStore, HashBase, HashOverlay, ReadBase, ReadOverlay
  <2> QED BY <2>1, <2>2, <2>3 DEF Shape
<1> QED BY <1>3, <1>4, <1>6, <1>7, <1>8, <1>9 DEF ThreadStep, LoadStore, HashBase, HashOverlay,
           ReadBase, ReadOverlay

LEMMA ShapeInit == Init => Shape
<1> SUFFICES ASSUME Init PROVE Shape
  OBVIOUS
<1>1. PICK pair \in Given : base = pair[1] /\ overlay = pair[2]
  BY DEF Init
<1>2. base \in BaseFiles /\ overlay \in OverlayFiles /\ approved \in Store
  BY <1>1 DEF Init, BaseFiles, OverlayFiles, Store
<1>3. None \in Outcomes /\ engine \in Outcomes
  BY DEF Init, Outcomes
<1>4. allow \in [Operators -> Allowing]
  BY <1>2 DEF Init, Allowing
<1>5. Idle \in ThreadRecord
  BY <1>3 DEF Idle, ThreadRecord, BaseRead, OverlayRead
<1>6. [[Idle EXCEPT !.job = "start"] EXCEPT !.pc = "check"] \in ThreadRecord
  BY <1>5 DEF ThreadRecord
<1>7. thread \in [Threads -> ThreadRecord]
  BY <1>5, <1>6 DEF Init
<1>8. ctrl \in Ctrl
  BY <1>3 DEF Init, Ctrl
<1>9. slipped \in [base : SUBSET BaseFiles, overlay : SUBSET OverlayFiles]
  BY DEF Init
<1> QED BY <1>2, <1>3, <1>4, <1>7, <1>8, <1>9 DEF Shape

LEMMA ShapeStep == IInv /\ [Next]_vars => Shape'
<1> SUFFICES ASSUME IInv, [Next]_vars PROVE Shape'
  OBVIOUS
<1>1. /\ Shape /\ ctrl \in Ctrl /\ engine \in Outcomes /\ edits \in Nat
      /\ content \in Outcomes /\ allow \in [Operators -> Allowing]
      /\ None \in Outcomes /\ NotApproved \in Outcomes
      /\ \A t \in Threads : thread[t] \in ThreadRecord
  <2>1. content \in Outcomes
    BY LoadsFrom DEF IInv, Shape, ContentNow, BaseRead, OverlayRead
  <2>2. edits \in Nat
    <3>1. edits \in 0 .. MaxEdits
      BY DEF IInv, TypeOK
    <3> QED BY <3>1, GateConstants
  <2>3. None \in Outcomes /\ NotApproved \in Outcomes
    BY DEF Outcomes
  <2> QED BY <2>1, <2>2, <2>3 DEF IInv, Shape
<1>2. CASE Save
  <2>1. base' \in BaseFiles /\ overlay' \in OverlayFiles
    BY <1>1, <1>2 DEF Save, Shape, BaseFiles, OverlayFiles
  <2>2. PICK file \in {"base", "overlay"} : Saved(file)
    BY <1>2 DEF Save
  <2>3. \A t \in Threads : thread[t] \in ThreadRecord
                           /\ [thread[t] EXCEPT !.slips = @ \cup {file}] \in ThreadRecord
    BY <1>1 DEF ThreadRecord
  <2>4. thread' \in [Threads -> ThreadRecord]
    BY <2>2, <2>3 DEF Saved
  <2> QED BY <1>1, <2>1, <2>2, <2>4 DEF Saved, Shape
<1>3. ASSUME NEW o \in Operators, Allow(o) \/ Answer(o) \/ ApproveHash(o) \/ Approve(o)
      PROVE  Shape'
  <2>1. allow[o] \in Allowing /\ allow[o].store \in Store
    BY <1>1 DEF Allowing
  <2>2. allow' \in [Operators -> Allowing] /\ approved' \in Store
    <3>1. CASE Allow(o)
      BY <1>1, <3>1 DEF Allow, Shape, Allowing
    <3>2. CASE Answer(o)
      BY <1>1, <3>2 DEF Answer, Shape, Allowing
    <3>3. CASE ApproveHash(o)
      <4>1. /\ [allow[o] EXCEPT !.pc = "hashOverlay", !.store.base = base] \in Allowing
            /\ [allow[o] EXCEPT !.pc = "approve", !.store.overlay = overlay] \in Allowing
        BY <1>1, <2>1 DEF Allowing, Store, Shape
      <4> QED BY <1>1, <3>3, <4>1 DEF ApproveHash, Shape
    <3>4. CASE Approve(o)
      BY <1>1, <2>1, <3>4 DEF Approve, Shape, Allowing
    <3> QED BY <1>3, <3>1, <3>2, <3>3, <3>4
  <2>3. UNCHANGED <<base, overlay, thread, ctrl, engine, slipped>>
    BY <1>3 DEF Allow, Answer, ApproveHash, Approve, files, daemonVars
  <2> QED BY <1>1, <2>2, <2>3 DEF Shape
<1>4. ASSUME NEW t \in Threads, ThreadStep(t) PROVE Shape'
  <2>1. ContentNow
    BY DEF IInv
  <2>2. thread' \in [Threads -> ThreadRecord]
    BY <1>1, <1>4, <2>1, LoadShape, ThreadShape
  <2>3. /\ UNCHANGED <<base, overlay, approved, allow, ctrl, engine>>
        /\ slipped' \in [base : SUBSET BaseFiles, overlay : SUBSET OverlayFiles]
    BY <1>1, <1>4, <2>1, LoadShape DEF files
  <2> QED BY <1>1, <2>2, <2>3 DEF Shape
<1>5. CASE StartStep
  <2>1. Daemon \in Threads /\ thread[Daemon].fresh \in Outcomes
    BY <1>1 DEF Threads, ThreadRecord
  <2>2. thread' \in [Threads -> ThreadRecord]
    <3>1. CASE StartFails
      BY <1>1, <2>1, <3>1, ThreadShape DEF StartFails
    <3>2. CASE StartEngine
      BY <1>1, <2>1, <3>2, ThreadShape DEF StartEngine
    <3>3. CASE NewController
      BY <1>1, <2>1, <3>3, ThreadShape DEF NewController
    <3> QED BY <1>5, <3>1, <3>2, <3>3 DEF StartStep
  <2>3. engine' \in Outcomes
    BY <1>1, <1>5, <2>1 DEF StartStep, StartFails, StartEngine, NewController, Runs
  <2>4. ctrl' \in Ctrl
    <3>1. CASE NewController
      <4>1. ctrl' = [cfg |-> engine, stamp |-> edits, dirty |-> FALSE, parseErr |-> None]
        BY <3>1 DEF NewController
      <4> QED BY <1>1, <4>1 DEF Ctrl
    <3>2. CASE ~NewController
      BY <1>1, <1>5, <3>2 DEF StartStep, StartFails, StartEngine
    <3> QED BY <3>1, <3>2
  <2> QED BY <1>1, <1>5, <2>2, <2>3, <2>4
          DEF StartStep, StartFails, StartEngine, NewController, files, Shape
<1>6. ASSUME NEW c \in Clients, ScanStep(c) \/ Reload(c) \/ ReloadStep(c) PROVE Shape'
  <2>1. c \in Threads /\ thread[c].fresh \in Outcomes
    BY <1>1 DEF Threads, ThreadRecord
  <2>2. /\ [Idle EXCEPT !.job = "scan", !.pc = "check"] \in ThreadRecord
        /\ [Idle EXCEPT !.job = "reload", !.pc = "check"] \in ThreadRecord
    BY <1>1, ThreadShape, <2>1 DEF Idle, ThreadRecord
  <2>3. thread' \in [Threads -> ThreadRecord]
    <3>1. CASE ScanStep(c)
      <4>1. CASE ScanLoads(c)
        BY <1>1, <2>1, <2>2, <4>1, ThreadShape DEF ScanLoads
      <4>2. CASE ScanUnchanged(c)
        BY <1>1, <4>2 DEF ScanUnchanged, Shape
      <4>3. CASE ScanFails(c)
        BY <1>1, <2>1, <4>3, ThreadShape DEF ScanFails
      <4>4. CASE ScanCompares(c)
        BY <1>1, <2>1, <4>4, ThreadShape DEF ScanCompares
      <4> QED BY <3>1, <4>1, <4>2, <4>3, <4>4 DEF ScanStep
    <3>2. CASE Reload(c)
      BY <1>1, <2>1, <2>2, <3>2, ThreadShape DEF Reload
    <3>3. CASE ReloadStep(c)
      <4>1. CASE Apply(c)
        BY <1>1, <2>1, <4>1, ThreadShape DEF Apply
      <4>2. CASE ReloadFails(c)
        BY <1>1, <2>1, <4>2, ThreadShape DEF ReloadFails
      <4>3. CASE Install(c)
        BY <1>1, <2>1, <4>3, ThreadShape DEF Install
      <4> QED BY <3>3, <4>1, <4>2, <4>3 DEF ReloadStep
    <3> QED BY <1>6, <3>1, <3>2, <3>3
  <2>4. ctrl' \in Ctrl
    BY <1>1, <1>6, <2>1
       DEF ScanStep, ScanUnchanged, ScanLoads, ScanFails, ScanCompares, Reload, ReloadStep,
           ReloadFails, Apply, Install, Ctrl
  <2>5. engine' \in Outcomes /\ UNCHANGED <<base, overlay, approved, allow, slipped>>
    BY <1>1, <1>6, <2>1
       DEF ScanStep, ScanUnchanged, ScanLoads, ScanFails, ScanCompares, Reload, ReloadStep,
           ReloadFails, Apply, Install, Runs, files
  <2> QED BY <1>1, <2>3, <2>4, <2>5 DEF Shape
<1>7. CASE UNCHANGED vars
  BY <1>1, <1>7 DEF vars, files, daemonVars, Shape
<1> QED BY <1>2, <1>3, <1>4, <1>5, <1>6, <1>7 DEF Next

-----------------------------------------------------------------------------
(* Who does what, and who holds the mutex *)

MutexHeld == \A t \in Threads : mu = t <=> thread[t].job = "scan"

LEMMA JobsInit == Init => Jobs /\ TypeOK
<1> SUFFICES ASSUME Init PROVE Jobs /\ TypeOK
  OBVIOUS
<1>1. \A t \in Threads :
        /\ t = Daemon => thread[t].job = "start" /\ thread[t].pc = "check"
        /\ t # Daemon => thread[t].job = "none" /\ thread[t].pc = "idle"
  BY DEF Init, Idle
<1>2. Jobs
  BY <1>1, GateConstants DEF Jobs, Threads
<1>3. \A t \in Threads :
        /\ thread[t].job \in {"none", "start", "scan", "reload"}
        /\ thread[t].pc \in {"idle", "check"}
        /\ mu = t <=> thread[t].job = "scan"
  BY <1>1, GateConstants DEF Init
<1>4. edits \in 0 .. MaxEdits /\ ctrl.stamp \in 0 .. edits
  <2>1. edits \in {0, MaxEdits}
    BY DEF Init
  <2> QED BY <2>1, GateConstants DEF Init
<1> QED BY <1>2, <1>3, <1>4 DEF Init, TypeOK

\* Which jobs, program counters and holder of the mutex a step leaves.
LEMMA JobsStep == IInv /\ [Next]_vars => Jobs' /\ MutexHeld' /\ mu' \in Clients \cup {None}
<1> SUFFICES ASSUME IInv, [Next]_vars
             PROVE  Jobs' /\ MutexHeld' /\ mu' \in Clients \cup {None}
  OBVIOUS
<1> DEFINE Owner == mu' \in Clients \cup {None}
<1>1. Jobs /\ MutexHeld /\ mu \in Clients \cup {None}
  BY DEF IInv, TypeOK, MutexHeld
<1>2. /\ thread \in [Threads -> ThreadRecord] /\ \A t \in Threads : thread[t] \in ThreadRecord
      /\ Daemon \in Threads /\ Daemon \notin Clients /\ None \notin Threads
      /\ \A c \in Clients : c \in Threads
  BY GateConstants DEF IInv, Shape, Threads
<1>3. CASE UNCHANGED <<thread, mu>>
  BY <1>1, <1>3 DEF Jobs, MutexHeld
<1>4. ASSUME NEW t \in Threads, UNCHANGED mu,
             \A x \in Threads \ {t} : thread'[x] = thread[x],
             thread'[t].job = thread[t].job, thread'[t].pc # "idle", thread[t].pc # "idle"
      PROVE  Jobs' /\ MutexHeld' /\ Owner
  BY <1>1, <1>2, <1>4 DEF Jobs, MutexHeld
<1>5. ASSUME NEW t \in Threads, Done(t),
             thread[t].job = "scan" => mu' = None, thread[t].job # "scan" => mu' = mu
      PROVE  Jobs' /\ MutexHeld' /\ Owner
  <2>1. /\ \A x \in Threads \ {t} : thread'[x] = thread[x]
        /\ thread'[t].job = "none" /\ thread'[t].pc = "idle"
    BY <1>2, <1>5 DEF Done, Idle
  <2>2. Jobs'
    BY <1>1, <1>2, <2>1 DEF Jobs
  <2>3. MutexHeld'
    BY <1>1, <1>2, <1>5, <2>1 DEF MutexHeld
  <2> QED BY <1>1, <1>5, <2>2, <2>3
<1>6. CASE Save
  <2>1. PICK file \in {"base", "overlay"} : Saved(file)
    BY <1>6 DEF Save
  <2>2. \A x \in Threads : thread'[x].job = thread[x].job /\ thread'[x].pc = thread[x].pc
    BY <1>2, <2>1 DEF Saved, ThreadRecord
  <2> QED BY <1>1, <1>2, <2>1, <2>2 DEF Saved, Jobs, MutexHeld
<1>7. ASSUME NEW o \in Operators, Allow(o) \/ Answer(o) \/ ApproveHash(o) \/ Approve(o)
      PROVE  UNCHANGED <<thread, mu>>
  BY <1>7 DEF Allow, Answer, ApproveHash, Approve, daemonVars
<1>8. ASSUME NEW t \in Threads, ThreadStep(t) PROVE Jobs' /\ MutexHeld' /\ Owner
  <2>1. /\ UNCHANGED mu /\ thread' = [thread EXCEPT ![t] = thread'[t]]
        /\ thread'[t].job = thread[t].job
        /\ thread[t].pc \in Loading \cup {"check"}
        /\ thread'[t].pc \in Loading \cup {"failed", "loaded"}
    BY <1>8, LoadShape DEF IInv
  <2>2. /\ \A x \in Threads \ {t} : thread'[x] = thread[x]
        /\ thread'[t].pc # "idle" /\ thread[t].pc # "idle"
    BY <1>2, <2>1 DEF Loading
  <2> QED BY <1>4, <2>1, <2>2
<1>9. CASE StartStep
  <2>1. CASE StartFails \/ StartEngine
    <3>1. /\ \A x \in Threads \ {Daemon} : thread'[x] = thread[x]
          /\ thread'[Daemon].job = thread[Daemon].job
          /\ thread'[Daemon].pc # "idle" /\ thread[Daemon].pc # "idle"
      BY <1>2, <2>1 DEF StartFails, StartEngine, Goto, ThreadRecord
    <3>2. UNCHANGED mu
      BY <2>1 DEF StartFails, StartEngine
    <3> QED BY <1>2, <1>4, <3>1, <3>2
  <2>2. CASE NewController
    BY <1>1, <1>2, <1>5, <2>2 DEF NewController, Jobs
  <2> QED BY <1>9, <2>1, <2>2 DEF StartStep
<1>10. ASSUME NEW c \in Clients, ScanStep(c) PROVE Jobs' /\ MutexHeld' /\ Owner
  <2>1. CASE ScanUnchanged(c)
    BY <1>3, <2>1 DEF ScanUnchanged
  <2>2. CASE ScanLoads(c)
    <3>1. /\ \A x \in Threads \ {c} : thread'[x] = thread[x]
          /\ thread'[c].job = "scan" /\ thread'[c].pc = "check" /\ mu' = c /\ mu = None
      BY <1>2, <2>2 DEF ScanLoads, Idle
    <3> QED BY <1>1, <1>2, <3>1 DEF Jobs, MutexHeld
  <2>3. CASE ScanFails(c) \/ ScanCompares(c)
    BY <1>2, <1>5, <2>3 DEF ScanFails, ScanCompares
  <2> QED BY <1>10, <2>1, <2>2, <2>3 DEF ScanStep
<1>11. ASSUME NEW c \in Clients, Reload(c) \/ ReloadStep(c) PROVE Jobs' /\ MutexHeld' /\ Owner
  <2>1. CASE Reload(c)
    <3>1. /\ \A x \in Threads \ {c} : thread'[x] = thread[x]
          /\ thread'[c].job = "reload" /\ thread'[c].pc = "check" /\ mu' = mu
          /\ thread[c].job = "none"
      BY <1>2, <2>1 DEF Reload, Free, Idle
    <3> QED BY <1>1, <1>2, <3>1 DEF Jobs, MutexHeld
  <2>2. CASE Apply(c)
    <3>1. /\ \A x \in Threads \ {c} : thread'[x] = thread[x]
          /\ thread'[c].job = thread[c].job /\ thread'[c].pc # "idle" /\ thread[c].pc # "idle"
      BY <1>2, <2>2 DEF Apply, Goto, ThreadRecord
    <3> QED BY <1>2, <1>4, <2>2, <3>1 DEF Apply
  <2>3. CASE ReloadFails(c) \/ Install(c)
    BY <1>2, <1>5, <2>3 DEF ReloadFails, Install
  <2> QED BY <1>11, <2>1, <2>2, <2>3 DEF ReloadStep
<1>12. CASE UNCHANGED vars
  BY <1>3, <1>12 DEF vars, daemonVars
<1> QED BY <1>3, <1>6, <1>7, <1>8, <1>9, <1>10, <1>11, <1>12 DEF Next

LEMMA TypeStep == IInv /\ [Next]_vars => TypeOK'
<1> SUFFICES ASSUME IInv, [Next]_vars PROVE TypeOK'
  OBVIOUS
<1>1. unread \subseteq {"overtaken", "approved", "error kept", "crossed"}
  BY DEF IInv, TypeOK
<1> DEFINE stamp == ctrl.stamp
<1>5. edits \in 0 .. MaxEdits /\ stamp \in 0 .. edits /\ MaxEdits \in Nat
  BY GateConstants DEF IInv, TypeOK
<1>2. \A t \in Threads :
        /\ thread'[t].job \in {"none", "start", "scan", "reload"}
        /\ thread'[t].pc \in {"idle", "check", "hashBase", "hashOverlay", "readBase", "readOverlay",
                             "failed", "loaded", "install", "exited"}
  BY ShapeStep DEF Shape, ThreadRecord, Loading
<1>3. ctrl'.dirty \in BOOLEAN /\ ctrl \in Ctrl
  BY ShapeStep DEF Shape, IInv, Ctrl
<1>4. edits' \in 0 .. MaxEdits /\ stamp' \in 0 .. edits'
      /\ unread' \subseteq {"overtaken", "approved", "error kept", "crossed"}
  <2> DEFINE Ways == {"overtaken", "approved", "error kept", "crossed"}
             Kept == /\ UNCHANGED edits /\ stamp' \in {stamp, edits}
                     /\ unread' \subseteq unread \cup Ways
  <2>1. CASE Save
    <3>1. edits' = edits + 1 /\ edits < MaxEdits /\ ctrl' = ctrl
      BY <2>1 DEF Save, Saved
    <3>2. unread' \subseteq Ways
      BY <1>1, <2>1 DEF Save, Saved, Overtaken
    <3>3. stamp' = stamp
      BY <3>1
    <3> HIDE DEF stamp
    <3>4. edits' \in 0 .. MaxEdits /\ stamp' \in 0 .. edits'
      BY <1>5, <3>1, <3>3
    <3> QED BY <3>2, <3>4
  <2>2. ASSUME NEW o \in Operators, Allow(o) \/ Answer(o) \/ ApproveHash(o) \/ Approve(o)
        PROVE  Kept
    BY <2>2 DEF Allow, Answer, ApproveHash, Approve, Overtaken, daemonVars, files
  <2>3. ASSUME NEW t \in Threads, ThreadStep(t) PROVE Kept
    <3>1. UNCHANGED <<files, ctrl, unread>>
      BY <2>3, LoadShape DEF IInv
    <3> QED BY <3>1 DEF files
  <2>4. ASSUME StartStep PROVE Kept
    <3>1. UNCHANGED <<edits, unread>>
      BY <2>4 DEF StartStep, StartFails, StartEngine, NewController, files
    <3>2. CASE ctrl' = ctrl
      BY <3>1, <3>2
    <3>3. CASE ctrl' = [cfg |-> engine, stamp |-> edits, dirty |-> FALSE, parseErr |-> None]
      BY <3>1, <3>3
    <3> QED BY <2>4, <3>2, <3>3 DEF StartStep, StartFails, StartEngine, NewController
  <2>5. ASSUME NEW c \in Clients, ScanStep(c)
        PROVE  Kept
    BY <1>3, <2>5 DEF Ctrl, ScanStep, ScanUnchanged, ScanLoads, ScanFails, ScanCompares, files
  <2>6. ASSUME NEW c \in Clients, Reload(c) \/ ReloadStep(c)
        PROVE  Kept
    BY <1>3, <2>6 DEF Ctrl, Reload, ReloadStep, ReloadFails, Apply, Install, files
  <2>7. ASSUME UNCHANGED vars PROVE Kept
    BY <2>7 DEF vars, files, daemonVars
  <2>8. CASE Kept
    <3>3. edits' = edits /\ (stamp' = stamp \/ stamp' = edits)
      BY <2>8
    <3> HIDE DEF stamp, Kept
    <3>1. edits' \in 0 .. MaxEdits /\ stamp' \in 0 .. edits'
      BY <1>5, <3>3
    <3>2. unread' \subseteq Ways
      BY <1>1, <2>8 DEF Kept
    <3> QED BY <3>1, <3>2
  <2> QED BY <2>1, <2>2, <2>3, <2>4, <2>5, <2>6, <2>7, <2>8 DEF Next
<1> QED BY <1>2, <1>3, <1>4, JobsStep DEF TypeOK, MutexHeld

-----------------------------------------------------------------------------
(* From the files to the engine *)

\* A file that is loaded without an overlay has been validated.
LEMMA LoadedAlone ==
  ASSUME NEW b, LoadMerged(b, NoOverlay) # Invalid
  PROVE  Validate(LoadMerged(b, NoOverlay))
BY DEF LoadMerged, Load

Secured == ContentNow /\ Gate

\* Texts stay vouched for while histories grow.
LEMMA VouchedStays ==
  ASSUME ever \subseteq ever', slipped.base \subseteq slipped'.base,
         slipped.overlay \subseteq slipped'.overlay, overlay' = NoOverlay => overlay = NoOverlay
  PROVE  \A cfg, b, o : Sound(cfg, b, o) => Sound(cfg, b, o)'
BY DEF Sound, Vouched

\* What every step other than a save and those of a load does: nothing comes closer
\* to the engine, except that what a thread carries may be installed.
Delivers ==
  /\ UNCHANGED <<files, slipped>> /\ ever \subseteq ever' /\ approved' \in ever'
  /\ \A t \in Threads :
       \/ thread'[t] = thread[t]
       \/ /\ thread'[t].pc \notin Loading
          /\ Carries(t)' => /\ Carries(t) /\ thread'[t].fresh = thread[t].fresh
                            /\ thread'[t].base = thread[t].base
                            /\ thread'[t].overlay = thread[t].overlay
  /\ \/ UNCHANGED <<engine, origin>>
     \/ \E t \in Threads : Carries(t) /\ Runs(t)

LEMMA DeliversSound == IInv /\ Delivers => Secured'
<1> SUFFICES ASSUME IInv, Delivers PROVE Secured'
  OBVIOUS
<1>1. ContentNow /\ Gate
  BY DEF IInv
<1>2. UNCHANGED <<base, overlay, content, slipped>> /\ ever \subseteq ever'
  BY DEF Delivers, files
<1>3. \A cfg, b, o : Sound(cfg, b, o) => Sound(cfg, b, o)'
  BY <1>2, VouchedStays
<1>4. ContentNow' /\ (approved \in ever)'
  BY <1>1, <1>2 DEF ContentNow, Delivers
<1>5. ASSUME NEW t \in Threads PROVE Checked(t)'
  <2>1. CASE thread'[t] = thread[t]
    BY <1>1, <1>2, <2>1 DEF Gate, Checked
  <2>2. CASE thread'[t].pc \notin Loading
    BY <2>2 DEF Checked, Loading
  <2> QED BY <2>1, <2>2 DEF Delivers
<1>6. CarriesSound'
  BY <1>1, <1>3 DEF Gate, CarriesSound, Delivers, Carries
<1>7. EngineSecure'
  <2>1. CASE UNCHANGED <<engine, origin>>
    BY <1>1, <1>3, <2>1 DEF Gate, EngineSecure
  <2>2. ASSUME NEW t \in Threads, Carries(t), Runs(t) PROVE EngineSecure'
    <3>1. Sound(thread[t].fresh, thread[t].base, thread[t].overlay)
      BY <1>1, <2>2 DEF Gate, CarriesSound
    <3>2. /\ engine' = thread[t].fresh
          /\ origin' = [base |-> thread[t].base, overlay |-> thread[t].overlay]
      BY <2>2 DEF Runs
    <3> QED BY <1>2, <3>1, <3>2 DEF EngineSecure, Sound, Vouched
  <2> QED BY <2>1, <2>2 DEF Delivers
<1> QED BY <1>4, <1>5, <1>6, <1>7 DEF Gate, Secured

LEMMA SaveKeeps == IInv /\ Save => Secured'
<1> SUFFICES ASSUME IInv, Save PROVE Secured'
  OBVIOUS
<1>1. /\ ContentNow /\ Gate /\ thread \in [Threads -> ThreadRecord]
      /\ \A t \in Threads : thread[t] \in ThreadRecord
  BY DEF IInv, Shape
<1>2. PICK file \in {"base", "overlay"} :
        Saved(file) /\ (file = "base" => UNCHANGED overlay) /\ (file = "overlay" => UNCHANGED base)
  BY DEF Save
<1>3. /\ content' = LoadMerged(base', overlay')
      /\ UNCHANGED <<approved, engine, origin, ever, slipped>>
      /\ overlay' = NoOverlay => overlay = NoOverlay
  BY <1>2, GateConstants DEF Save, Saved
<1>4. \A cfg, b, o : Sound(cfg, b, o) => Sound(cfg, b, o)'
  BY <1>3, VouchedStays
<1>5. ASSUME NEW t \in Threads
      PROVE  /\ \A f \in {"pc", "store", "ok", "base", "overlay", "fresh"} :
                  thread'[t][f] = thread[t][f]
             /\ thread'[t].slips = IF thread[t].pc \in Hashed[file]
                                   THEN thread[t].slips \cup {file} ELSE thread[t].slips
  BY <1>1, <1>2 DEF Saved, ThreadRecord
<1>6. ContentNow' /\ (approved \in ever)'
  BY <1>1, <1>3 DEF ContentNow, Gate
<1>7. ASSUME NEW t \in Threads PROVE Checked(t)'
  <2>1. /\ thread'[t].pc = thread[t].pc /\ thread'[t].store = thread[t].store
        /\ thread'[t].ok = thread[t].ok /\ thread'[t].base = thread[t].base
    BY <1>5
  <2>2. Checked(t)
    BY <1>1 DEF Gate
  <2>3. CASE file = "base"
    <3>1. Hashed[file] = {"hashOverlay", "readBase"} /\ UNCHANGED overlay
      BY <1>2, <2>3 DEF Hashed
    <3> QED BY <1>3, <1>5, <2>1, <2>2, <2>3, <3>1 DEF Checked
  <2>4. CASE file = "overlay"
    <3>1. Hashed[file] = {"readBase", "readOverlay"} /\ UNCHANGED base
      BY <1>2, <2>4 DEF Hashed
    <3> QED BY <1>3, <1>5, <2>1, <2>2, <2>4, <3>1 DEF Checked
  <2> QED BY <1>2, <2>3, <2>4
<1>8. CarriesSound' /\ EngineSecure'
  <2>1. \A t \in Threads : /\ thread'[t].pc = thread[t].pc /\ thread'[t].fresh = thread[t].fresh
                           /\ thread'[t].base = thread[t].base
                           /\ thread'[t].overlay = thread[t].overlay
    BY <1>5
  <2> QED BY <1>1, <1>3, <1>4, <2>1 DEF Gate, CarriesSound, EngineSecure, Carries
<1> QED BY <1>6, <1>7, <1>8 DEF Gate, Secured

\* A step of a load keeps what it has checked, and carries only what is sound.
LEMMA LoadKeeps ==
  ASSUME IInv, NEW t \in Threads, ThreadStep(t),
         slipped.base \subseteq slipped'.base, slipped.overlay \subseteq slipped'.overlay,
         Checked(t)',
         Carries(t)' => Sound(thread[t].fresh, thread[t].base, thread[t].overlay)'
  PROVE  Secured'
<1>1. ContentNow /\ Gate /\ thread \in [Threads -> ThreadRecord]
  BY DEF IInv, Shape
<1>2. /\ UNCHANGED <<base, overlay, content, approved, engine, ever, origin>>
      /\ \A x \in Threads \ {t} : thread'[x] = thread[x]
  BY <1>1, LoadShape DEF IInv, files
<1>3. \A cfg, b, o : Sound(cfg, b, o) => Sound(cfg, b, o)'
  BY <1>2, VouchedStays
<1>4. ContentNow' /\ (approved \in ever)'
  BY <1>1, <1>2 DEF ContentNow, Gate
<1>5. ASSUME NEW x \in Threads PROVE Checked(x)'
  <2>1. CASE x # t
    BY <1>1, <1>2, <2>1 DEF Gate, Checked
  <2> QED BY <2>1
<1>6. CarriesSound'
  BY <1>1, <1>2, <1>3 DEF Gate, CarriesSound, Carries
<1>7. EngineSecure'
  BY <1>1, <1>2, <1>3 DEF Gate, EngineSecure
<1> QED BY <1>4, <1>5, <1>6, <1>7 DEF Gate, Secured

LEMMA HashKeeps ==
  ASSUME IInv, NEW t \in Threads, LoadStore(t) \/ HashBase(t) \/ HashOverlay(t)
  PROVE  Secured'
<1>1. /\ Checked(t) /\ approved \in ever
      /\ thread \in [Threads -> ThreadRecord] /\ thread[t] \in ThreadRecord
  BY DEF IInv, Gate, Shape
<1>2. ThreadStep(t) /\ UNCHANGED <<base, overlay, ever, slipped>>
  BY DEF ThreadStep, LoadStore, HashBase, HashOverlay, files
<1>3. Checked(t)' /\ ~Carries(t)'
  <2>1. CASE LoadStore(t)
    <3>1. thread'[t].pc = "hashBase" /\ thread'[t].store = approved
      BY <1>1, <2>1 DEF LoadStore, ThreadRecord
    <3> QED BY <1>1, <1>2, <3>1 DEF Checked, Carries
  <2>2. CASE HashBase(t)
    <3>1. /\ thread[t].pc = "hashBase" /\ thread'[t].pc = "hashOverlay"
          /\ thread'[t].store = thread[t].store
          /\ thread'[t].ok = (thread[t].store.base = base)
      BY <1>1, <2>2 DEF HashBase, ThreadRecord
    <3> QED BY <1>1, <1>2, <3>1 DEF Checked, Carries, Loading
  <2>3. CASE HashOverlay(t) /\ Goto(t, "readBase") /\ thread[t].ok
                            /\ thread[t].store.overlay = overlay
    <3>1. /\ thread[t].pc = "hashOverlay" /\ thread'[t].pc = "readBase"
          /\ thread'[t].store = thread[t].store /\ thread'[t].slips = thread[t].slips
      BY <1>1, <2>3 DEF HashOverlay, Goto, ThreadRecord
    <3> QED BY <1>1, <1>2, <2>3, <3>1 DEF Checked, Carries, Loading
  <2>4. CASE Loaded(t, NotApproved)
    <3>1. thread'[t].pc = "failed"
      BY <1>1, <2>4 DEF Loaded, Idle
    <3> QED BY <3>1 DEF Checked, Carries, Loading
  <2> QED BY <2>1, <2>2, <2>3, <2>4 DEF HashOverlay
<1> QED BY <1>2, <1>3, LoadKeeps

LEMMA SlipGrows ==
  ASSUME Shape, NEW t \in Threads, NEW file \in {"base", "overlay"}, NEW text, Slip(t, file, text)
  PROVE  /\ slipped.base \subseteq slipped'.base /\ slipped.overlay \subseteq slipped'.overlay
         /\ file \in thread[t].slips => text \in slipped'[file]
BY DEF Slip, Shape

\* A base that is read was vouched for when it was read.
LEMMA ReadBaseKeeps == ASSUME IInv, NEW t \in Threads, ReadBase(t) PROVE Secured'
<1>1. /\ Shape /\ Checked(t)
      /\ thread \in [Threads -> ThreadRecord] /\ thread[t] \in ThreadRecord
  BY DEF IInv, Gate, Shape
<1>2. /\ ThreadStep(t) /\ UNCHANGED <<base, overlay, ever>>
      /\ thread[t].pc = "readBase" /\ Slip(t, "base", base)
  BY DEF ThreadStep, ReadBase, files
<1>3. /\ slipped.base \subseteq slipped'.base /\ slipped.overlay \subseteq slipped'.overlay
      /\ "base" \in thread[t].slips => base \in slipped'.base
  BY <1>1, <1>2, SlipGrows
<1>4. Checked(t)' /\ ~Carries(t)'
  <2>1. CASE BaseInvalid
    <3>1. thread'[t].pc = "failed"
      BY <1>1, <2>1 DEF ReadBase, Loaded, Idle
    <3> QED BY <3>1 DEF Checked, Carries, Loading
  <2>2. CASE ~BaseInvalid
    <3>1. /\ thread'[t].pc = "readOverlay" /\ thread'[t].base = base
          /\ thread'[t].store = thread[t].store /\ thread'[t].slips = thread[t].slips
      BY <1>1, <2>2 DEF ReadBase, ThreadRecord
    <3> QED BY <1>1, <1>2, <1>3, <3>1 DEF Checked, Carries, Loading
  <2> QED BY <2>1, <2>2
<1> QED BY <1>2, <1>3, <1>4, LoadKeeps

\* With the overlay the load has two texts that are vouched for, and their result.
LEMMA ReadOverlayKeeps == ASSUME IInv, NEW t \in Threads, ReadOverlay(t) PROVE Secured'
<1>1. /\ Shape /\ Checked(t) /\ ContentNow
      /\ thread \in [Threads -> ThreadRecord] /\ thread[t] \in ThreadRecord
  BY DEF IInv, Gate, Shape
<1>2. /\ ThreadStep(t) /\ UNCHANGED <<base, overlay, ever>>
      /\ thread[t].pc = "readOverlay" /\ Slip(t, "overlay", overlay) /\ Loaded(t, Merged(t))
  BY DEF ThreadStep, ReadOverlay, files
<1>3. /\ slipped.base \subseteq slipped'.base /\ slipped.overlay \subseteq slipped'.overlay
      /\ "overlay" \in thread[t].slips => overlay \in slipped'.overlay
  BY <1>1, <1>2, SlipGrows
<1>4. Merged(t) = LoadMerged(thread[t].base, overlay)
  BY <1>1 DEF Merged, ContentNow
<1>5. /\ thread'[t].pc = IF Merged(t) \in {Invalid, NotApproved} THEN "failed" ELSE "loaded"
      /\ thread'[t].base = thread[t].base /\ thread'[t].overlay = overlay
      /\ thread'[t].fresh = Merged(t)
  BY <1>1, <1>2 DEF Loaded, Idle
<1>6. Checked(t)'
  BY <1>5 DEF Checked, Loading
<1>7. ASSUME Carries(t)'
      PROVE  Sound(thread[t].fresh, thread[t].base, thread[t].overlay)'
  <2>1. Merged(t) # Invalid
    BY <1>5, <1>7 DEF Carries
  <2>2. /\ thread[t].store \in ever'
        /\ thread[t].base \in {thread[t].store.base} \cup slipped'.base
        /\ overlay \in {thread[t].store.overlay} \cup slipped'.overlay
    BY <1>1, <1>2, <1>3 DEF Checked, Loading
  <2>3. Vouched(thread[t].base, thread[t].overlay)'
    BY <1>5, <2>2 DEF Vouched
  <2> QED BY <1>2, <1>4, <1>5, <2>1, <2>3 DEF Sound
<1> QED BY <1>2, <1>3, <1>6, <1>7, LoadKeeps

LEMMA OthersDeliver ==
  IInv /\ [Next]_vars /\ ~Save /\ (\A t \in Threads : ~ThreadStep(t)) => Delivers
<1> SUFFICES ASSUME IInv, [Next]_vars, ~Save, \A t \in Threads : ~ThreadStep(t)
             PROVE  Delivers
  OBVIOUS
<1>1. /\ approved \in ever /\ thread \in [Threads -> ThreadRecord]
      /\ \A t \in Threads : thread[t] \in ThreadRecord
      /\ Daemon \in Threads /\ \A c \in Clients : c \in Threads
  BY DEF IInv, Gate, Shape, Threads
<1> DEFINE Moves(t) ==
      /\ \A x \in Threads \ {t} : thread'[x] = thread[x]
      /\ \/ thread'[t] = thread[t]
         \/ /\ thread'[t].pc \notin Loading
            /\ Carries(t)' => /\ Carries(t) /\ thread'[t].fresh = thread[t].fresh
                              /\ thread'[t].base = thread[t].base
                              /\ thread'[t].overlay = thread[t].overlay
<1>2. ASSUME NEW t \in Threads, Moves(t), UNCHANGED <<files, approved, ever, slipped>>,
             UNCHANGED <<engine, origin>> \/ (Carries(t) /\ Runs(t))
      PROVE  Delivers
  BY <1>1, <1>2 DEF Delivers
<1>3. ASSUME NEW o \in Operators, Allow(o) \/ Answer(o) \/ ApproveHash(o) \/ Approve(o)
      PROVE  Delivers
  <2>1. UNCHANGED <<files, thread, engine, origin, slipped>> /\ ever \subseteq ever'
    BY <1>3 DEF Allow, Answer, ApproveHash, Approve, daemonVars
  <2>2. approved' \in ever'
    <3>1. CASE Approve(o)
      BY <3>1 DEF Approve
    <3>2. CASE ~Approve(o)
      BY <1>1, <1>3, <3>2 DEF Allow, Answer, ApproveHash
    <3> QED BY <3>1, <3>2
  <2> QED BY <2>1, <2>2 DEF Delivers
<1>4. ASSUME NEW t \in Threads, Done(t) PROVE Moves(t)
  BY <1>1, <1>4 DEF Done, Idle, Carries, Loading
<1>5. ASSUME NEW t \in Threads, NEW pc \in {"install", "exited"}, Goto(t, pc),
             pc = "install" => Carries(t)
      PROVE  Moves(t)
  BY <1>1, <1>5 DEF Goto, ThreadRecord, Carries, Loading
<1>6. CASE StartStep
  <2>1. CASE StartFails
    BY <1>1, <1>2, <1>5, <2>1 DEF StartFails
  <2>2. CASE StartEngine
    <3>1. Carries(Daemon) /\ Runs(Daemon)
      BY <2>2 DEF StartEngine, Carries
    <3> QED BY <1>1, <1>2, <1>5, <2>2, <3>1 DEF StartEngine
  <2>3. CASE NewController
    BY <1>1, <1>2, <1>4, <2>3 DEF NewController
  <2> QED BY <1>6, <2>1, <2>2, <2>3 DEF StartStep
<1>7. ASSUME NEW c \in Clients, ScanStep(c) PROVE Delivers
  <2>1. CASE ScanUnchanged(c)
    BY <1>1, <1>2, <2>1 DEF ScanUnchanged
  <2>2. CASE ScanLoads(c)
    <3>1. Moves(c)
      BY <1>1, <2>2 DEF ScanLoads, Idle, Carries, Loading
    <3> QED BY <1>1, <1>2, <2>2, <3>1 DEF ScanLoads
  <2>3. CASE ScanFails(c) \/ ScanCompares(c)
    BY <1>1, <1>2, <1>4, <2>3 DEF ScanFails, ScanCompares
  <2> QED BY <1>7, <2>1, <2>2, <2>3 DEF ScanStep
<1>8. ASSUME NEW c \in Clients, Reload(c) \/ ReloadStep(c) PROVE Delivers
  <2>1. CASE Reload(c)
    <3>1. Moves(c)
      BY <1>1, <2>1 DEF Reload, Idle, Carries, Loading
    <3> QED BY <1>1, <1>2, <2>1, <3>1 DEF Reload
  <2>2. CASE Apply(c)
    <3>1. Carries(c) /\ Runs(c)
      BY <2>2 DEF Apply, Carries
    <3> QED BY <1>1, <1>2, <1>5, <2>2, <3>1 DEF Apply
  <2>3. CASE ReloadFails(c) \/ Install(c)
    BY <1>1, <1>2, <1>4, <2>3 DEF ReloadFails, Install
  <2> QED BY <1>8, <2>1, <2>2, <2>3 DEF ReloadStep
<1>9. CASE UNCHANGED vars
  BY <1>1, <1>9 DEF vars, daemonVars, Delivers
<1> QED BY <1>3, <1>6, <1>7, <1>8, <1>9 DEF Next

-----------------------------------------------------------------------------
(* The theorems *)

LEMMA IInvInit == Init => IInv
<1> SUFFICES ASSUME Init PROVE IInv
  OBVIOUS
<1>1. \A t \in Threads : thread[t].pc \in {"idle", "check"}
  BY DEF Init, Idle
<1>2. ContentNow /\ approved \in ever /\ engine = None
  BY DEF Init, ContentNow
<1> QED BY <1>1, <1>2, ShapeInit, JobsInit
        DEF IInv, Gate, Checked, CarriesSound, Carries, EngineSecure, Loading

LEMMA IInvStep == IInv /\ [Next]_vars => IInv'
<1> SUFFICES ASSUME IInv, [Next]_vars PROVE IInv'
  OBVIOUS
<1>1. Secured'
  BY SaveKeeps, HashKeeps, ReadBaseKeeps, ReadOverlayKeeps, OthersDeliver, DeliversSound
     DEF ThreadStep
<1> QED BY <1>1, ShapeStep, JobsStep, TypeStep DEF IInv, Secured

\* The inductive invariant: a load knows of each file that its store approved it, or
\* that a save replaced it between hash and reading; what it carries, and the engine
\* runs, is the valid result of such texts.
THEOREM Invariant == Spec => []IInv
BY IInvInit, IInvStep, PTL DEF Spec

\* The files, the store, the controller and its requests keep their shape, and its
\* mutex is held exactly by a scan that loads (reloadController).
THEOREM TypeCorrect == Spec => []TypeOK
<1>1. IInv => TypeOK
  BY DEF IInv
<1> QED BY <1>1, Invariant, PTL

\* What the engine runs was loaded from texts that one store had approved both, except
\* for a file that was saved between its own hash and its reading, however saves,
\* approvals, scans and reloads fall between the steps of a load (resolveConfig, Reload).
THEOREM OnlyApprovedRuns == Spec => [](RunsApproved /\ EngineLoaded)
<1>1. IInv => RunsApproved /\ EngineLoaded
  BY DEF IInv, Gate, EngineSecure, Sound, Vouched, RunsApproved, EngineLoaded
<1> QED BY <1>1, Invariant, PTL

\* With a single file what the engine runs has passed Validate as a whole, at the
\* start and after every reload (Load).
THEOREM SingleFileValidated == Spec => []EngineValidated
<1>1. IInv => EngineValidated
  <2> SUFFICES ASSUME IInv, engine # None, overlay = NoOverlay PROVE Validate(engine)
    BY DEF EngineValidated
  <2>1. engine # Invalid /\ engine = LoadMerged(origin.base, NoOverlay)
    BY DEF IInv, Gate, EngineSecure, Sound
  <2> QED BY <2>1, LoadedAlone
<1> QED BY <1>1, Invariant, PTL
=============================================================================
