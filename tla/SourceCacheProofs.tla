------------------------- MODULE SourceCacheProofs -------------------------
(***************************************************************************)
(* Proofs about a directory of the source cache, for any number of daemons *)
(* and commands: its state is well typed, two fetches are never past the   *)
(* lock together whichever daemons exit, and a fetch that returns has      *)
(* brought the directory up to date unless a git process that a daemon     *)
(* left behind was at work meanwhile.                                      *)
(***************************************************************************)
EXTENDS SourceCache, TLAPS

-----------------------------------------------------------------------------
(* The inductive invariant *)

\* Who is past lockPath holds the lock file.
HolderIsInside == \A c \in Commands : pc[c] \in Inside => flock = c

\* A git process runs for the step its command is at, unless its daemon exited.
GitAtItsStep == \A c \in Commands : git[c] # None => pc[c] \in {git[c], "gone"}

GoneIsDown == \A c \in Commands : pc[c] = "gone" => DaemonOf[c] \notin up

\* The steps of a clone and of a download are not mixed.
StepsOfKind ==
  \A c \in Commands : /\ pc[c] \in GitSteps => kind = "github"
                      /\ git[c] # None => kind = "github"
                      /\ pc[c] \in Downloads => kind = "url"

\* The file is there while it is written and verified.
FileIsThere == \A c \in Commands : pc[c] \in {"copy", "verify"} => dir.there

\* Nothing a setup left bears the number of a start that has not set up yet.
BeforeSetup == {"mutex", "file", "fetched"} \cup Inside
SetUpBefore(c, work) ==
  \A n \in Nat, l \in Leftovers : <<c, n, l>> \in work =>
     /\ n <= starts[c]
     /\ pc[c] \in BeforeSetup => n < starts[c]
WorkIsOld == \A c, c2 \in Commands : /\ SetUpBefore(c, dir.work)
                                     /\ SetUpBefore(c, since[c2].work)

\* While a fetch is alone, no git process of a daemon that has exited is at work.
AloneIsAlone ==
  \A c, c2 \in Commands : since[c].alone => ~Orphaned(c2)

\* What a fetch that is alone has reached at each of its steps.
Recent(c, version) == since[c].version <= version
Reached(c) ==
  /\ Recent(c, upstream)
  /\ pc[c] = "reset" => Recent(c, fetchHead)
  /\ pc[c] = "clean" => dir.whole /\ Recent(c, dir.version)
  /\ pc[c] \in {"create", "copy"} => Recent(c, body[c])
  /\ pc[c] = "verify" =>
       dir.whole /\ dir.version = body[c] /\ Recent(c, dir.version)
  /\ pc[c] = "return" =>
       /\ dir.whole /\ Recent(c, dir.version)
       /\ kind = "github" =>
            \A w \in dir.work \cap since[c].work : w[3] = "ignored"
       /\ kind = "url" => Matches(c, dir.version)
FetchesReach == \A c \in Commands : since[c].alone => Reached(c)

IInv ==
  /\ TypeOK
  /\ HolderIsInside /\ GitAtItsStep /\ GoneIsDown /\ StepsOfKind
  /\ FileIsThere /\ AloneIsAlone /\ WorkIsOld /\ FetchesReach

-----------------------------------------------------------------------------
(* Every step *)

LEMMA NextMethodIsStep ==
  ASSUME NEW c \in Commands
  PROVE  /\ NextMethod(c) \in Clones \cup {"give up"}
         /\ FirstMethod(c) \in Clones
  BY CacheAssumption DEF NextMethod, FirstMethod, Clones

LEMMA CountGrows == ASSUME NEW n \in Nat PROVE n + 1 \in Nat
  OBVIOUS

LEMMA VersionsGrow ==
  /\ 0 \in Versions
  /\ \A v \in Versions : v < MaxPushes => v + 1 \in Versions
<1>1. MaxPushes \in Nat
  BY CacheAssumption
<1> QED BY <1>1 DEF Versions

LEMMA WorkGrows ==
  ASSUME NEW work \in Works, NEW c \in Commands, NEW n \in Nat
  PROVE  work \cup {<<c, n, l>> : l \in Leftovers} \in Works
  BY DEF Works

Places == Inside \cup Returns \cup
            {"idle", "mutex", "file", "set up", "running", "gone"}

LEMMA TypeInit == Init => TypeOK
  BY CacheAssumption DEF Init, TypeOK, Absent, Nothing, Versions, Works, Inside

LEMMA TypeStep ==
  ASSUME TypeOK, FileIsThere, [Next]_vars
  PROVE  TypeOK'
<1> USE DEF TypeOK, Places, locks, asked, Goto
<1> DEFINE Dirs == [there : BOOLEAN, whole : BOOLEAN, version : Versions, work : Works]
<1>0. 0 \in Versions /\ \A v \in Versions : v < MaxPushes => v + 1 \in Versions
  BY VersionsGrow
<1>1. ASSUME NEW c \in Commands, Begin(c) PROVE TypeOK'
  <2> DEFINE now == [version |-> upstream, work |-> dir.work,
                    alone |-> ~ \E c2 \in Commands : Orphaned(c2)]
  <2>1. now \in [version : Versions, work : Works, alone : BOOLEAN]
    OBVIOUS
  <2>2. pc' \in [Commands -> Places]
    BY <1>1 DEF Begin
  <2>3. starts' \in [Commands -> Nat]
    BY <1>1, CountGrows DEF Begin
  <2>4. since' \in [Commands -> [version : Versions, work : Works, alone : BOOLEAN]]
    BY <1>1, <2>1 DEF Begin
  <2> QED BY <1>1, <2>2, <2>3, <2>4 DEF Begin
<1>2. ASSUME NEW c \in Commands,
             Refused(c) \/ LockMutex(c) \/ LockFile(c) \/ LockFileFails(c)
      PROVE TypeOK'
  <2>1. pc' \in [Commands -> Places]
    BY <1>2 DEF Refused, LockMutex, LockFile, LockFileFails, Inside, Returns
  <2>2. mutex' \in [Daemons -> Commands \cup {None}]
    BY <1>2 DEF Refused, LockMutex, LockFile, LockFileFails
  <2>3. flock' \in Commands \cup {None}
    BY <1>2 DEF Refused, LockMutex, LockFile, LockFileFails
  <2> QED BY <1>2, <2>1, <2>2, <2>3 DEF Refused, LockMutex, LockFile, LockFileFails
<1>3. ASSUME NEW c \in Commands, Return(c) PROVE TypeOK'
  BY <1>0, <1>3 DEF Return, Nothing, Works, Returns
<1>4. ASSUME NEW c \in Commands, Look(c) PROVE TypeOK'
  BY <1>4, NextMethodIsStep DEF Look, Inside, GitSteps, Refreshes, Downloads
<1>5. ASSUME NEW c \in Commands, StartGit(c) PROVE TypeOK'
  <2>1. Begun \in Dirs /\ ~Begun.whole
    BY <1>0 DEF Begun, Absent, Works
  <2>2. dir' \in Dirs /\ (dir'.whole => dir'.there)
    BY <1>5, <2>1 DEF StartGit
  <2>3. pc' \in [Commands -> Places] /\ git' \in [Commands -> GitSteps \cup {None}]
    BY <1>5, NextMethodIsStep DEF StartGit, Inside, GitSteps
  <2> QED BY <1>5, <2>2, <2>3 DEF StartGit
<1>6. ASSUME NEW c \in Commands, GitSucceeds(c) PROVE TypeOK'
  <2>1. /\ Pristine(upstream) \in Dirs /\ Pristine(upstream).there
        /\ [dir EXCEPT !.version = fetchHead, !.whole = TRUE] \in Dirs
        /\ [dir EXCEPT !.work = {w \in @ : w[3] = "ignored"}] \in Dirs
    BY DEF Pristine, Begun, Absent, Works
  <2>2. dir' \in Dirs /\ (dir'.whole => dir'.there) /\ fetchHead' \in Versions
    BY <1>6, <2>1
       DEF GitSucceeds, CloneDone, FetchDone, ResetDone, CleanDone
  <2>3. After(git[c]) \in Inside
    BY DEF After, Inside, GitSteps, Refreshes
  <2> QED BY <1>6, <2>2, <2>3 DEF GitSucceeds, GitEnds
<1>7. ASSUME NEW c \in Commands, GitFails(c) PROVE TypeOK'
  <2>1. Absent \in Dirs /\ ~Absent.whole
    BY <1>0 DEF Absent, Works
  <2>2. dir' \in Dirs /\ (dir'.whole => dir'.there)
    BY <1>7, <2>1 DEF GitFails
  <2>3. NextMethod(c) \in Inside /\ "give up" \in Inside
    BY NextMethodIsStep DEF Inside, GitSteps
  <2> QED BY <1>7, <2>2, <2>3 DEF GitFails, GitEnds
<1>8. ASSUME NEW c \in Commands, GitKilled(c) PROVE TypeOK'
  <2>1. NextMethod(c) \in Inside /\ "give up" \in Inside
    BY NextMethodIsStep DEF Inside, GitSteps
  <2>2. pc' \in [Commands -> Places] /\ git' \in [Commands -> GitSteps \cup {None}]
    BY <1>8, <2>1 DEF GitKilled
  <2>3. dir' \in Dirs /\ (dir'.whole => dir'.there)
    BY <1>8 DEF GitKilled
  <2>4. faults' \in Nat
    BY <1>8, CountGrows DEF GitKilled
  <2> QED BY <1>8, <2>2, <2>3, <2>4 DEF GitKilled
<1>9. ASSUME NEW c \in Commands,
             SubdirMissing(c) \/ Get(c) \/ GetFails(c)
      PROVE TypeOK'
  <2>1. pc' = [pc EXCEPT ![c] = "give up"] \/ pc' = [pc EXCEPT ![c] = "create"]
    BY <1>9 DEF SubdirMissing, Get, GetFails
  <2>2. body' = body \/ body' = [body EXCEPT ![c] = upstream]
    BY <1>9 DEF SubdirMissing, Get, GetFails
  <2>3. {"give up", "create"} \subseteq Places
    BY DEF Inside, Downloads
  <2>4. pc' \in [Commands -> Places]
    BY <2>1, <2>3
  <2>5. body' \in [Commands -> Versions]
    BY <2>2
  <2> QED BY <1>9, <2>4, <2>5 DEF SubdirMissing, Get, GetFails
<1>10. ASSUME NEW c \in Commands, Create(c) \/ Copy(c) \/ CopyFails(c) \/ Verify(c)
       PROVE TypeOK'
  <2>1. /\ Removed \in Dirs /\ ~Removed.whole
        /\ [Removed EXCEPT !.there = TRUE] \in Dirs
        /\ [dir EXCEPT !.whole = TRUE, !.version = body[c]] \in Dirs
        /\ pc[c] = "copy" => dir.there
    BY <1>0 DEF Removed, FileIsThere
  <2>2. dir' \in Dirs /\ (dir'.whole => dir'.there)
    BY <1>10, <2>1 DEF Create, Copy, CopyFails, Verify, Removed
  <2>3. {"copy", "verify", "give up", "return"} \subseteq Inside
    BY DEF Inside, Downloads
  <2>4. pc' \in [Commands -> Places]
    BY <1>10, <2>3 DEF Create, Copy, CopyFails, Verify
  <2> QED BY <1>10, <2>2, <2>4 DEF Create, Copy, CopyFails, Verify
<1>11. ASSUME NEW c \in Commands, Setup(c) \/ Launch(c) \/ Stop(c) PROVE TypeOK'
  <2> DEFINE left == {<<c, starts[c], l>> : l \in Leftovers}
  <2>1. dir.work \cup left \in Works
    <3>1. dir.work \in Works /\ starts[c] \in Nat
      OBVIOUS
    <3>2. \A work \in Works, n \in Nat :
            work \cup {<<c, n, l>> : l \in Leftovers} \in Works
      BY WorkGrows
    <3> QED BY <3>1, <3>2, Zenon
  <2>2. [dir EXCEPT !.work = @ \cup left] \in Dirs
    BY <2>1
  <2>3. dir' \in Dirs /\ (dir'.whole => dir'.there)
    BY <1>11, <2>2 DEF Setup, Launch, Stop
  <2>4. pc' \in [Commands -> Places]
    BY <1>11 DEF Setup, Launch, Stop, Returns
  <2>5. delivered' \in [Commands -> Versions]
    BY <1>0, <1>11 DEF Setup, Launch, Stop
  <2> QED BY <1>11, <2>3, <2>4, <2>5 DEF Setup, Launch, Stop
<1>12. CASE Push
  BY <1>0, <1>12 DEF Push
<1>13. ASSUME NEW d \in Daemons, Exit(d) PROVE TypeOK'
  <2>1. pc' \in [Commands -> Places]
    BY <1>13 DEF Exit
  <2>2. mutex' \in [Daemons -> Commands \cup {None}] /\ flock' \in Commands \cup {None}
    BY <1>13 DEF Exit
  <2>3. up' \subseteq Daemons
    BY <1>13 DEF Exit
  <2>4. faults' \in Nat
    BY <1>13, CountGrows DEF Exit
  <2>5. since' \in [Commands -> [version : Versions, work : Works, alone : BOOLEAN]]
    <3> DEFINE left(c) == [since[c] EXCEPT !.alone =
                 @ /\ \A c2 \in Commands : DaemonOf[c2] = d => git[c2] = None]
    <3>1. ASSUME NEW c \in Commands
          PROVE  left(c) \in [version : Versions, work : Works, alone : BOOLEAN]
      <4>1. since[c] \in [version : Versions, work : Works, alone : BOOLEAN]
        OBVIOUS
      <4>2. left(c) = [since[c] EXCEPT !.alone =
                 @ /\ \A c2 \in Commands : DaemonOf[c2] = d => git[c2] = None]
        OBVIOUS
      <4> QED BY <4>1, <4>2
    <3>2. since' = [c \in Commands |-> left(c)]
      BY <1>13 DEF Exit
    <3> HIDE DEF left
    <3> QED BY <3>1, <3>2
  <2> QED BY <1>13, <2>1, <2>2, <2>3, <2>4, <2>5 DEF Exit
<1>14. CASE UNCHANGED vars
  BY <1>14 DEF vars
<1> QED
  BY <1>1, <1>2, <1>3, <1>4, <1>5, <1>6, <1>7, <1>8, <1>9, <1>10, <1>11, <1>12,
     <1>13, <1>14 DEF Next, NotLocked, Fetching
-----------------------------------------------------------------------------
(* The lock: who is past it is alone, and only its git process runs *)

LockInv == HolderIsInside /\ GitAtItsStep /\ GoneIsDown /\ StepsOfKind /\ FileIsThere

LEMMA LockInit == Init => LockInv
  BY DEF Init, LockInv, HolderIsInside, GitAtItsStep, GoneIsDown, StepsOfKind,
         FileIsThere, Inside, GitSteps, Clones, Refreshes, Downloads

\* A command whose git process does not run moves on, without entering the lock.
LEMMA MoveKeepsLock ==
  ASSUME NEW c \in Commands, NEW step, LockInv,
         pc \in [Commands -> Places],
         pc' = [pc EXCEPT ![c] = step],
         flock' = flock, git' = git, up' = up, kind' = kind,
         git[c] = None,
         step # "gone",
         step \in Inside => pc[c] \in Inside,
         step \in GitSteps => kind = "github",
         step \in Downloads => kind = "url",
         step \in {"copy", "verify"} => dir'.there,
         \/ dir.there => dir'.there
         \/ pc[c] \in Inside
  PROVE  LockInv'
<1> USE DEF LockInv
<1>1. HolderIsInside'
  BY DEF HolderIsInside
<1>2. GitAtItsStep'
  BY DEF GitAtItsStep
<1>3. GoneIsDown'
  BY DEF GoneIsDown
<1>4. StepsOfKind'
  BY DEF StepsOfKind
<1>5. FileIsThere'
  <2> SUFFICES ASSUME NEW c2 \in Commands, c2 # c, pc[c2] \in {"copy", "verify"}
               PROVE  dir'.there
    BY DEF FileIsThere
  <2>1. flock = c2 /\ dir.there
    BY DEF HolderIsInside, FileIsThere, Inside, Downloads
  <2>2. pc[c] \notin Inside
    BY <2>1 DEF HolderIsInside
  <2> QED BY <2>1, <2>2
<1> QED BY <1>1, <1>2, <1>3, <1>4, <1>5

\* A command that is not at a git step, and not gone, has no git process.
LEMMA NoGit ==
  ASSUME LockInv, NEW c \in Commands, pc[c] \notin GitSteps, pc[c] # "gone",
         git \in [Commands -> GitSteps \cup {None}]
  PROVE  git[c] = None
  BY DEF LockInv, GitAtItsStep

LEMMA LockStep ==
  ASSUME TypeOK, LockInv, [Next]_vars
  PROVE  LockInv'
<1> USE DEF Goto, locks, asked
<1>0. /\ pc \in [Commands -> Inside \cup Returns \cup
                         {"idle", "mutex", "file", "set up", "running", "gone"}]
      /\ git \in [Commands -> GitSteps \cup {None}]
      /\ kind \in {"github", "url"}
  BY DEF TypeOK
<1>a. pc \in [Commands -> Places] /\ None \notin GitSteps
  BY <1>0, CacheAssumption DEF Places
<1>c. dir \in [there : BOOLEAN, whole : BOOLEAN, version : Versions, work : Works]
  BY DEF TypeOK
<1> DEFINE Parts == /\ GitSteps = {"ssh", "gh", "https", "fetch", "reset", "clean"}
                    /\ Downloads = {"get", "create", "copy", "verify"}
                    /\ Inside = {"look", "return", "give up"} \cup GitSteps \cup Downloads
<1>b. Parts
  BY DEF GitSteps, Clones, Refreshes, Downloads, Inside
<1>1. ASSUME NEW c \in Commands, Begin(c) PROVE LockInv'
  <2>1. git[c] = None
    BY <1>0, <1>1, <1>b, NoGit DEF Begin
  <2> QED BY <1>a, <1>1, <1>b, <2>1, MoveKeepsLock DEF Begin
<1>2. ASSUME NEW c \in Commands, Refused(c) \/ LockMutex(c) \/ LockFileFails(c)
      PROVE LockInv'
  <2>1. git[c] = None
    BY <1>0, <1>2, <1>b, NoGit DEF Refused, LockMutex, LockFileFails
  <2>2. CASE Refused(c)
    BY <1>a, <1>b, <2>1, <2>2, MoveKeepsLock DEF Refused
  <2>3. CASE LockMutex(c)
    BY <1>a, <1>b, <2>1, <2>3, MoveKeepsLock DEF LockMutex
  <2>4. CASE LockFileFails(c)
    BY <1>a, <1>b, <2>1, <2>4, MoveKeepsLock DEF LockFileFails
  <2> QED BY <1>2, <2>2, <2>3, <2>4
<1>3. ASSUME NEW c \in Commands, LockFile(c) PROVE LockInv'
  <2>1. git[c] = None
    BY <1>0, <1>3, <1>b, NoGit DEF LockFile
  <2>2. flock = None /\ flock' = c /\ pc' = [pc EXCEPT ![c] = "look"]
    BY <1>3 DEF LockFile
  <2>3. \A c2 \in Commands : pc[c2] \notin Inside
    BY <2>2, CacheAssumption DEF LockInv, HolderIsInside
  <2> QED BY <1>3, <1>a, <1>b, <2>1, <2>2, <2>3
          DEF LockFile, LockInv, HolderIsInside, GitAtItsStep, GoneIsDown,
              StepsOfKind, FileIsThere
<1>4. ASSUME NEW c \in Commands, Return(c) PROVE LockInv'
  <2>1. git[c] = None /\ flock = c
    BY <1>0, <1>4, <1>b, NoGit DEF Return, LockInv, HolderIsInside
  <2>2. \A c2 \in Commands : c2 # c => pc[c2] \notin Inside
    BY <2>1 DEF LockInv, HolderIsInside
  <2>3. /\ pc'[c] \in {"fetched", "failed"}
        /\ \A c2 \in Commands : c2 # c => pc'[c2] = pc[c2]
        /\ UNCHANGED <<git, up, kind, dir>>
    BY <1>4, <1>a DEF Return
  <2> QED BY <1>b, <2>1, <2>2, <2>3
          DEF LockInv, HolderIsInside, GitAtItsStep, GoneIsDown, StepsOfKind, FileIsThere
<1>5. ASSUME NEW c \in Commands, Look(c) PROVE LockInv'
  <2>1. git[c] = None
    BY <1>0, <1>5, <1>b, NoGit DEF Look
  <2>2. PICK step : /\ pc' = [pc EXCEPT ![c] = step]
                    /\ \/ step = "get" /\ kind = "url"
                       \/ step \in {"fetch", "ssh", "gh", "https"} /\ kind = "github"
    BY <1>0, <1>5, NextMethodIsStep DEF Look, Clones
  <2> QED BY <1>a, <1>5, <1>b, <2>1, <2>2, MoveKeepsLock DEF Look
<1>6. ASSUME NEW c \in Commands, StartGit(c) PROVE LockInv'
  <2>1. CASE pc[c] \in Clones /\ dir.there
    BY <1>a, <1>6, <1>b, <2>1, NextMethodIsStep, MoveKeepsLock
       DEF StartGit, LockInv, StepsOfKind, Clones
  <2>2. CASE ~(pc[c] \in Clones /\ dir.there)
    <3>1. /\ pc' = pc /\ git' = [git EXCEPT ![c] = pc[c]]
          /\ UNCHANGED <<flock, up, kind>>
          /\ dir.there => dir'.there
      BY <1>6, <2>2 DEF StartGit, Begun, Absent
    <3>2. pc[c] \in GitSteps
      BY <1>6 DEF StartGit
    <3> QED BY <1>0, <3>1, <3>2
            DEF LockInv, HolderIsInside, GitAtItsStep, GoneIsDown, StepsOfKind, FileIsThere
  <2> QED BY <2>1, <2>2
<1>7. ASSUME NEW c \in Commands, GitSucceeds(c) \/ GitFails(c) \/ GitKilled(c)
      PROVE LockInv'
  <2>1. /\ git[c] \in GitSteps /\ git' = [git EXCEPT ![c] = None]
        /\ UNCHANGED <<flock, up, kind>>
    BY <1>0, <1>7, <1>b
       DEF GitSucceeds, GitFails, GitKilled, GitEnds, Clones
  <2>2. /\ kind = "github" /\ pc[c] \in {git[c], "gone"}
        /\ \A c2 \in Commands : pc[c2] \notin Downloads
    BY <1>a, <2>1, <1>b DEF LockInv, StepsOfKind, GitAtItsStep
  <2>3. PICK step \in GitSteps \cup {"return", "give up"} :
               pc' = IF pc[c] = "gone" THEN pc ELSE [pc EXCEPT ![c] = step]
    BY <1>7, <1>b, NextMethodIsStep
       DEF GitSucceeds, GitFails, GitKilled, GitEnds, After, Clones
  <2> QED BY <1>0, <1>a, <1>b, <2>1, <2>2, <2>3
          DEF LockInv, HolderIsInside, GitAtItsStep, GoneIsDown, StepsOfKind, FileIsThere
<1>8. ASSUME NEW c \in Commands,
             SubdirMissing(c) \/ Get(c) \/ GetFails(c) \/ Create(c) \/ Copy(c)
               \/ CopyFails(c) \/ Verify(c)
      PROVE LockInv'
  <2>1. /\ pc[c] \in Downloads \cup {"return"}
        /\ git[c] = None
    BY <1>0, <1>8, <1>b, NoGit
       DEF SubdirMissing, Get, GetFails, Create, Copy, CopyFails, Verify
  <2>2. /\ UNCHANGED <<flock, git, up, kind>>
        /\ pc[c] \in {"copy", "verify"} => dir.there
    BY <1>8 DEF SubdirMissing, Get, GetFails, Create, Copy, CopyFails, Verify,
                LockInv, FileIsThere
  <2>3. PICK step : /\ pc' = [pc EXCEPT ![c] = step]
                    /\ \/ step \in {"return", "give up"}
                       \/ step = "create" /\ pc[c] = "get"
                       \/ step \in {"copy", "verify"} /\ pc[c] # "return" /\ dir'.there
    BY <1>c, <1>8, <2>2
       DEF SubdirMissing, Get, GetFails, Create, Copy, CopyFails, Verify, Removed
  <2>4. step \in Downloads => kind = "url"
    BY <1>b, <2>1, <2>3 DEF LockInv, StepsOfKind
  <2> QED BY <1>a, <1>b, <2>1, <2>2, <2>3, <2>4, MoveKeepsLock
<1>9. ASSUME NEW c \in Commands, Setup(c) \/ Launch(c) \/ Stop(c) PROVE LockInv'
  <2>1. git[c] = None
    BY <1>0, <1>9, <1>b, NoGit DEF Setup, Launch, Stop
  <2>2. UNCHANGED <<flock, git, up, kind>> /\ (dir.there => dir'.there)
    BY <1>c, <1>9 DEF Setup, Launch, Stop
  <2>3. PICK step \in {"set up", "failed", "running", "idle"} :
               pc' = [pc EXCEPT ![c] = step]
    BY <1>9 DEF Setup, Launch, Stop
  <2> QED BY <1>a, <1>b, <2>1, <2>2, <2>3, MoveKeepsLock
<1>12. CASE Push
  BY <1>12 DEF Push, LockInv, HolderIsInside, GitAtItsStep, GoneIsDown, StepsOfKind,
               FileIsThere
<1>13. ASSUME NEW d \in Daemons, Exit(d) PROVE LockInv'
  <2>1. \A c \in Commands : pc'[c] = IF DaemonOf[c] = d THEN "gone" ELSE pc[c]
    BY <1>13 DEF Exit
  <2>2. /\ UNCHANGED <<git, kind, dir>> /\ up' = up \ {d}
        /\ \A c \in Commands : flock = c /\ DaemonOf[c] # d => flock' = c
    BY <1>13 DEF Exit
  <2> QED BY <1>b, <2>1, <2>2
          DEF LockInv, HolderIsInside, GitAtItsStep, GoneIsDown, StepsOfKind, FileIsThere
<1>14. CASE UNCHANGED vars
  BY <1>14 DEF vars, LockInv, HolderIsInside, GitAtItsStep, GoneIsDown, StepsOfKind,
               FileIsThere
<1> QED
  BY <1>1, <1>2, <1>3, <1>4, <1>5, <1>6, <1>7, <1>8, <1>9, <1>12, <1>13, <1>14
     DEF Next, NotLocked, Fetching
-----------------------------------------------------------------------------
(* The files of setup steps *)

LEMMA WorkInit == Init => WorkIsOld
  BY DEF Init, WorkIsOld, SetUpBefore, Absent, Nothing

LEMMA WorkKept ==
  ASSUME WorkIsOld, starts' = starts, dir'.work \subseteq dir.work,
         \A c \in Commands : since'[c].work \subseteq since[c].work,
         \A c \in Commands : pc'[c] \in BeforeSetup => pc[c] \in BeforeSetup
  PROVE  WorkIsOld'
  BY DEF WorkIsOld, SetUpBefore

LEMMA WorkStep ==
  ASSUME TypeOK, LockInv, WorkIsOld, [Next]_vars
  PROVE  WorkIsOld'
<1> USE DEF Goto, locks, asked
<1>0. /\ pc \in [Commands -> Places]
      /\ dir \in [there : BOOLEAN, whole : BOOLEAN, version : Versions, work : Works]
      /\ starts \in [Commands -> Nat]
      /\ since \in [Commands -> [version : Versions, work : Works, alone : BOOLEAN]]
  BY DEF TypeOK, Places
<1>a. BeforeSetup = {"mutex", "file", "fetched", "look", "return", "give up"}
                       \cup GitSteps \cup Downloads
  BY DEF BeforeSetup, Inside
<1>b. "failed" \notin BeforeSetup /\ "gone" \notin BeforeSetup
      /\ "set up" \notin BeforeSetup /\ "running" \notin BeforeSetup
      /\ "idle" \notin BeforeSetup
  BY <1>a DEF GitSteps, Clones, Refreshes, Downloads
<1>1. ASSUME NEW c \in Commands, Begin(c) PROVE WorkIsOld'
  <2>1. /\ starts' = [starts EXCEPT ![c] = starts[c] + 1]
        /\ since' = [since EXCEPT ![c] =
                       [version |-> upstream, work |-> dir.work,
                        alone |-> ~ \E c2 \in Commands : Orphaned(c2)]]
        /\ dir' = dir
        /\ \A c2 \in Commands : c2 # c => pc'[c2] = pc[c2]
    BY <1>0, <1>1 DEF Begin
  <2> SUFFICES ASSUME NEW c1 \in Commands, NEW c2 \in Commands, NEW n \in Nat,
                      NEW l \in Leftovers,
                      <<c1, n, l>> \in dir'.work \/ <<c1, n, l>> \in since'[c2].work
               PROVE  /\ n <= starts'[c1]
                      /\ pc'[c1] \in BeforeSetup => n < starts'[c1]
    BY DEF WorkIsOld, SetUpBefore
  <2>2. <<c1, n, l>> \in dir.work \/ <<c1, n, l>> \in since[c2].work
    BY <1>0, <2>1
  <2>3. n <= starts[c1] /\ (pc[c1] \in BeforeSetup => n < starts[c1])
    BY <2>2 DEF WorkIsOld, SetUpBefore
  <2>4. CASE c1 = c
    <3>1. starts'[c1] = starts[c1] + 1 /\ starts[c1] \in Nat
      BY <1>0, <2>1, <2>4
    <3> QED BY <2>3, <3>1
  <2>5. CASE c1 # c
    <3>1. starts'[c1] = starts[c1] /\ pc'[c1] = pc[c1]
      BY <1>0, <2>1, <2>5
    <3> QED BY <2>3, <3>1
  <2> QED BY <2>4, <2>5
<1>2. ASSUME NEW c \in Commands, Setup(c) PROVE WorkIsOld'
  <2>1. /\ pc[c] = "fetched" /\ pc'[c] \in {"set up", "failed"}
        /\ dir'.work = dir.work \cup {<<c, starts[c], l>> : l \in Leftovers}
        /\ UNCHANGED <<starts, since>>
        /\ \A c2 \in Commands : c2 # c => pc'[c2] = pc[c2]
    BY <1>0, <1>2 DEF Setup
  <2> SUFFICES ASSUME NEW c1 \in Commands, NEW c2 \in Commands, NEW n \in Nat,
                      NEW l \in Leftovers,
                      <<c1, n, l>> \in dir'.work \/ <<c1, n, l>> \in since'[c2].work
               PROVE  /\ n <= starts[c1]
                      /\ pc'[c1] \in BeforeSetup => n < starts[c1]
    BY <2>1 DEF WorkIsOld, SetUpBefore
  <2>2. CASE c1 = c /\ n = starts[c]
    <3>1. pc'[c] \notin BeforeSetup
      BY <1>b, <2>1
    <3>2. n = starts[c1] /\ starts[c1] \in Nat /\ pc'[c1] \notin BeforeSetup
      BY <1>0, <2>2, <3>1
    <3> QED BY <3>2
  <2>3. CASE ~(c1 = c /\ n = starts[c])
    <3>1. <<c1, n, l>> \in dir.work \/ <<c1, n, l>> \in since[c2].work
      BY <2>1, <2>3
    <3>2. n <= starts[c1] /\ (pc[c1] \in BeforeSetup => n < starts[c1])
      BY <3>1 DEF WorkIsOld, SetUpBefore
    <3> QED BY <1>b, <2>1, <3>2
  <2> QED BY <2>2, <2>3
<1>3. ASSUME NEW c \in Commands,
             \/ Refused(c) \/ LockMutex(c) \/ LockFile(c) \/ LockFileFails(c) \/ Look(c)
             \/ SubdirMissing(c) \/ Get(c) \/ GetFails(c) \/ Create(c) \/ Copy(c)
             \/ CopyFails(c) \/ Verify(c) \/ Launch(c) \/ Stop(c)
      PROVE WorkIsOld'
  <2>1. UNCHANGED <<starts, since>> /\ dir'.work = dir.work
    BY <1>0, <1>3
       DEF Refused, LockMutex, LockFile, LockFileFails, Look, SubdirMissing, Get,
           GetFails, Create, Copy, CopyFails, Verify, Launch, Stop, Removed
  <2>2. PICK step : pc' = [pc EXCEPT ![c] = step]
                    /\ (step \in BeforeSetup => pc[c] \in BeforeSetup)
    BY <1>3, <1>a, <1>b
       DEF Refused, LockMutex, LockFile, LockFileFails, Look, SubdirMissing, Get,
           GetFails, Create, Copy, CopyFails, Verify, Launch, Stop, Downloads
  <2> QED BY <1>0, <2>1, <2>2, WorkKept
<1>4. ASSUME NEW c \in Commands, Return(c) PROVE WorkIsOld'
  <2>1. /\ starts' = starts /\ dir' = dir
        /\ since' = [since EXCEPT ![c] = Nothing]
        /\ pc[c] \in BeforeSetup
        /\ \A c2 \in Commands : c2 # c => pc'[c2] = pc[c2]
    BY <1>0, <1>a, <1>4 DEF Return
  <2> QED BY <1>0, <2>1, WorkKept DEF Nothing
<1>5. ASSUME NEW c \in Commands,
             StartGit(c) \/ GitSucceeds(c) \/ GitFails(c) \/ GitKilled(c)
      PROVE WorkIsOld'
  <2>1. UNCHANGED <<starts, since>>
    BY <1>5 DEF StartGit, GitSucceeds, GitFails, GitKilled, GitEnds
  <2>2. dir'.work \subseteq dir.work
    <3>1. CASE StartGit(c)
      BY <3>1 DEF StartGit, Begun, Absent
    <3>2. CASE GitSucceeds(c)
      BY <1>0, <3>2 DEF GitSucceeds, CloneDone, FetchDone, ResetDone, CleanDone, Pristine,
                        Begun, Absent
    <3>3. CASE GitFails(c)
      BY <1>0, <3>3 DEF GitFails, Absent
    <3>4. CASE GitKilled(c)
      <4>1. [dir EXCEPT !.whole = FALSE].work = dir.work
        BY <1>0
      <4> QED BY <3>4, <4>1 DEF GitKilled
    <3> QED BY <1>5, <3>1, <3>2, <3>3, <3>4
  <2>3. pc[c] \in BeforeSetup \/ pc' = pc
    <3>1. CASE StartGit(c)
      BY <1>a, <3>1 DEF StartGit
    <3>2. CASE GitSucceeds(c) \/ GitFails(c) \/ GitKilled(c)
      <4>1. git[c] \in GitSteps /\ (pc[c] = "gone" => pc' = pc)
        BY <3>2 DEF GitSucceeds, GitFails, GitKilled, GitEnds, GitSteps, Refreshes,
                    TypeOK
      <4>2. pc[c] \in GitSteps \cup {"gone"}
        BY <4>1, CacheAssumption DEF LockInv, GitAtItsStep
      <4> QED BY <1>a, <4>1, <4>2
    <3> QED BY <1>5, <3>1, <3>2
  <2>4. \A c2 \in Commands : c2 # c => pc'[c2] = pc[c2]
    BY <1>0, <1>5 DEF StartGit, GitSucceeds, GitFails, GitKilled, GitEnds
  <2> QED BY <2>1, <2>2, <2>3, <2>4, WorkKept
<1>6. CASE Push
  BY <1>6, WorkKept DEF Push
<1>7. ASSUME NEW d \in Daemons, Exit(d) PROVE WorkIsOld'
  <2>1. \A c \in Commands : pc'[c] \in {pc[c], "gone"}
    BY <1>7 DEF Exit
  <2>2. starts' = starts /\ dir' = dir
        /\ \A c \in Commands : since'[c].work = since[c].work
    BY <1>0, <1>7 DEF Exit
  <2> QED BY <1>b, <2>1, <2>2, WorkKept
<1>8. CASE UNCHANGED vars
  BY <1>8, WorkKept DEF vars
<1> QED
  BY <1>1, <1>2, <1>3, <1>4, <1>5, <1>6, <1>7, <1>8 DEF Next, NotLocked, Fetching
-----------------------------------------------------------------------------
(* A fetch that is alone *)

\* A fetch that is alone was so before the step, or begins with it.
LEMMA AloneFromBegin ==
  ASSUME TypeOK, [Next]_vars, NEW x \in Commands, since'[x].alone
  PROVE  since[x].alone \/ Begin(x)
<1>0. since \in [Commands -> [version : Versions, work : Works, alone : BOOLEAN]]
  BY DEF TypeOK
<1>1. ASSUME NEW c \in Commands, Begin(c) PROVE since[x].alone \/ Begin(x)
  BY <1>0, <1>1 DEF Begin
<1>2. ASSUME NEW c \in Commands, Return(c) PROVE since[x].alone
  BY <1>0, <1>2 DEF Return, Nothing
<1>3. ASSUME NEW d \in Daemons, Exit(d) PROVE since[x].alone
  BY <1>0, <1>3 DEF Exit
<1>4. ASSUME NEW c \in Commands,
             \/ NotLocked(c) \/ GitKilled(c) \/ Setup(c) \/ Launch(c) \/ Stop(c)
             \/ Fetching(c) /\ ~Return(c)
      PROVE since[x].alone
  BY <1>4 DEF NotLocked, Fetching, Refused, LockMutex, LockFile, LockFileFails, Look,
       StartGit, GitSucceeds, GitFails, GitEnds, SubdirMissing, Get, GetFails, Create, Copy,
       CopyFails, Verify, GitKilled, Setup, Launch, Stop, asked
<1>5. CASE Push \/ UNCHANGED vars
  BY <1>5 DEF Push, asked, vars
<1> QED BY <1>1, <1>2, <1>3, <1>4, <1>5 DEF Next

\* Only an exit leaves a git process behind.
LEMMA KeepsOrphans ==
  ASSUME TypeOK, LockInv, [Next]_vars, ~ \E d \in Daemons : Exit(d),
         NEW x \in Commands, Orphaned(x)'
  PROVE  Orphaned(x)
<1> USE DEF Goto, locks, asked
<1>0. /\ pc \in [Commands -> Places]
      /\ git \in [Commands -> GitSteps \cup {None}]
      /\ None \notin GitSteps /\ "gone" \notin GitSteps
  BY CacheAssumption DEF TypeOK, Places, GitSteps, Clones, Refreshes
<1>a. \A c \in Commands : NextMethod(c) # "gone" /\ FirstMethod(c) # "gone"
                           /\ \A step : After(step) # "gone"
  BY NextMethodIsStep DEF Clones, After
<1>1. ASSUME NEW c \in Commands, Begin(c) \/ NotLocked(c) \/ Setup(c) \/ Launch(c) \/ Stop(c)
      PROVE Orphaned(x)
  BY <1>0, <1>1 DEF Begin, NotLocked, Refused, LockFileFails, Setup, Launch, Stop, Orphaned
<1>2. ASSUME NEW c \in Commands,
             \/ LockMutex(c) \/ LockFile(c) \/ Look(c) \/ SubdirMissing(c) \/ Get(c)
             \/ GetFails(c) \/ Create(c) \/ Copy(c) \/ CopyFails(c) \/ Verify(c) \/ Return(c)
      PROVE Orphaned(x)
  BY <1>0, <1>a, <1>2 DEF LockMutex, LockFile, Look, SubdirMissing, Get, GetFails, Create,
       Copy, CopyFails, Verify, Return, Orphaned
<1>3. ASSUME NEW c \in Commands, StartGit(c) PROVE Orphaned(x)
  BY <1>0, <1>a, <1>3 DEF StartGit, Orphaned
<1>4. ASSUME NEW c \in Commands, GitSucceeds(c) \/ GitFails(c) \/ GitKilled(c)
      PROVE Orphaned(x)
  <2>1. PICK step : /\ step # "gone"
                    /\ git' = [git EXCEPT ![c] = None]
                    /\ pc' = IF pc[c] = "gone" THEN pc ELSE [pc EXCEPT ![c] = step]
    BY <1>a, <1>4 DEF GitSucceeds, GitFails, GitKilled, GitEnds, Clones
  <2> QED BY <1>0, <2>1 DEF Orphaned
<1>5. CASE Push \/ UNCHANGED vars
  BY <1>5 DEF Push, vars, Orphaned
<1> QED BY <1>1, <1>2, <1>3, <1>4, <1>5 DEF Next, Fetching

LEMMA AloneInit == Init => AloneIsAlone
  BY DEF Init, AloneIsAlone, Nothing

\* Only the exit of its daemon leaves a git process behind, and only a fetch that
\* begins comes to be alone.
LEMMA AloneStep ==
  ASSUME TypeOK, LockInv, AloneIsAlone, [Next]_vars
  PROVE  AloneIsAlone'
<1> USE DEF Goto, locks, asked
<1> SUFFICES ASSUME NEW c \in Commands, NEW c2 \in Commands,
                    since'[c].alone, Orphaned(c2)'
             PROVE  FALSE
  BY DEF AloneIsAlone
<1>0. /\ pc \in [Commands -> Places]
      /\ git \in [Commands -> GitSteps \cup {None}]
      /\ since \in [Commands -> [version : Versions, work : Works, alone : BOOLEAN]]
  BY DEF TypeOK, Places
<1>1. CASE \E d \in Daemons : Exit(d)
  <2>1. PICK d \in Daemons : Exit(d)
    BY <1>1
  <2>2. /\ since[c].alone /\ git[c2] # None
        /\ DaemonOf[c2] # d => pc[c2] = "gone"
        /\ DaemonOf[c2] = d => git[c2] = None
    BY <1>0, <2>1 DEF Exit, Orphaned
  <2> QED BY <2>2 DEF AloneIsAlone, Orphaned
<1>2. CASE ~ \E d \in Daemons : Exit(d)
  <2>1. Orphaned(c2)
    BY <1>0, <1>2, KeepsOrphans
  <2>2. CASE \E c3 \in Commands : Begin(c3)
    BY <1>0, <2>1, <2>2 DEF Begin, AloneIsAlone
  <2>3. CASE ~ \E c3 \in Commands : Begin(c3)
    <3>1. since[c].alone
      BY <1>2, <2>3, AloneFromBegin
    <3> QED BY <2>1, <3>1 DEF AloneIsAlone
  <2> QED BY <2>2, <2>3
<1> QED BY <1>1, <1>2
-----------------------------------------------------------------------------
(* What a fetch reaches *)

LEMMA ReachInit == Init => FetchesReach
  BY DEF Init, FetchesReach, Reached, Recent, Nothing

LEMMA VersionsAreNat == \A v \in Versions : v \in Nat
<1>1. MaxPushes \in Nat
  BY CacheAssumption
<1> QED BY <1>1 DEF Versions

\* A command that is not past the lock has reached nothing yet.
LEMMA OutsideReached ==
  ASSUME NEW c \in Commands, pc[c] \notin Inside, Recent(c, upstream)
  PROVE  Reached(c)
  BY DEF Reached, Inside, GitSteps, Refreshes, Downloads

LEMMA ReachStep ==
  ASSUME TypeOK, LockInv, AloneIsAlone, WorkIsOld, FetchesReach, [Next]_vars
  PROVE  FetchesReach'
<1> USE DEF Goto, locks, asked
<1> SUFFICES ASSUME NEW x \in Commands, since'[x].alone
             PROVE  Reached(x)'
  BY DEF FetchesReach
<1>0. /\ pc \in [Commands -> Places]
      /\ git \in [Commands -> GitSteps \cup {None}]
      /\ dir \in [there : BOOLEAN, whole : BOOLEAN, version : Versions, work : Works]
      /\ since \in [Commands -> [version : Versions, work : Works, alone : BOOLEAN]]
      /\ body \in [Commands -> Versions]
      /\ upstream \in Versions /\ fetchHead \in Versions
      /\ kind \in {"github", "url"}
  BY DEF TypeOK, Places
<1>a. \A v \in Versions : v \in Nat
  BY VersionsAreNat
<1>b. since[x].alone \/ Begin(x)
  BY AloneFromBegin
<1>1. ASSUME Begin(x) PROVE Reached(x)'
  <2>1. pc'[x] = "mutex" /\ upstream' = upstream /\ since'[x].version = upstream
    BY <1>0, <1>1 DEF Begin
  <2> QED BY <1>0, <1>a, <2>1 DEF Reached, Recent
<1> SUFFICES ASSUME since[x].alone PROVE Reached(x)'
  BY <1>b, <1>1
<1>c. \A c \in Commands : git[c] # None => pc[c] # "gone"
  BY DEF AloneIsAlone, Orphaned
<1>d. Reached(x) /\ Recent(x, upstream)
  BY DEF FetchesReach, Reached
<1>e. \A c \in Commands : pc[c] \in Inside /\ x # c => pc[x] \notin Inside
  BY DEF LockInv, HolderIsInside
<1>f. /\ Inside = {"look", "return", "give up"} \cup GitSteps \cup Downloads
      /\ GitSteps = {"ssh", "gh", "https", "fetch", "reset", "clean"}
      /\ Downloads = {"get", "create", "copy", "verify"}
  BY DEF Inside, GitSteps, Clones, Refreshes, Downloads
\* Another command's step, inside the lock: x is outside and stays there.
<1>g. ASSUME NEW c \in Commands, pc[c] \in Inside, x # c, pc'[x] = pc[x],
             upstream' = upstream, since'[x] = since[x]
      PROVE  Reached(x)'
  <2>1. pc'[x] \notin Inside /\ Recent(x, upstream)'
    BY <1>d, <1>e, <1>g DEF Recent
  <2> QED BY <2>1, OutsideReached DEF Reached, Inside, GitSteps, Refreshes, Downloads
<1>12. ASSUME NEW c \in Commands, x # c, Begin(c) PROVE Reached(x)'
  <2>1. /\ pc'[x] = pc[x] /\ since'[x] = since[x]
        /\ UNCHANGED <<upstream, fetchHead, dir, body, kind>>
    BY <1>0, <1>12 DEF Begin
  <2> QED BY <1>d, <2>1 DEF Reached, Recent, Matches
<1>2. ASSUME NEW c \in Commands,
             \/ Refused(c) \/ LockMutex(c) \/ LockFile(c) \/ LockFileFails(c) \/ Look(c)
             \/ SubdirMissing(c) \/ GetFails(c) \/ Launch(c) \/ Stop(c)
      PROVE Reached(x)'
  <2>1. UNCHANGED <<upstream, fetchHead, dir, body, since, kind>>
    BY <1>2 DEF Refused, LockMutex, LockFile, LockFileFails, Look, SubdirMissing,
                GetFails, Launch, Stop
  <2>2. PICK step : /\ pc' = [pc EXCEPT ![c] = step]
                    /\ step \notin {"reset", "clean", "create", "copy", "verify", "return"}
    BY <1>2, NextMethodIsStep
       DEF Refused, LockMutex, LockFile, LockFileFails, Look, SubdirMissing, GetFails,
           Launch, Stop, Clones
  <2>3. pc'[x] = pc[x] \/ pc'[x] = step
    BY <1>0, <2>2
  <2> QED BY <1>d, <2>1, <2>2, <2>3 DEF Reached, Recent
<1>3. ASSUME NEW c \in Commands, Return(c) PROVE Reached(x)'
  <2>1. CASE x = c
    <3>1. /\ pc'[x] \in {"fetched", "failed"} /\ upstream' = upstream
          /\ since'[x].version = 0
      BY <1>0, <1>3, <2>1 DEF Return, Nothing
    <3> QED BY <1>0, <1>a, <3>1 DEF Reached, Recent
  <2>2. CASE x # c
    BY <1>0, <1>3, <1>f, <1>g, <2>2 DEF Return
  <2> QED BY <2>1, <2>2
<1>4. ASSUME NEW c \in Commands, StartGit(c) PROVE Reached(x)'
  <2>1. CASE x = c
    <3>1. /\ UNCHANGED <<upstream, fetchHead, body, since, kind>>
          /\ \/ pc'[x] \in Clones \cup {"give up"}
             \/ pc'[x] = pc[x] /\ (pc[x] \in Clones \/ dir' = dir)
      BY <1>0, <1>4, <2>1, NextMethodIsStep DEF StartGit
    <3> QED BY <1>d, <3>1 DEF Reached, Recent, Clones
  <2>2. CASE x # c
    BY <1>0, <1>4, <1>f, <1>g, <2>2 DEF StartGit
  <2> QED BY <2>1, <2>2
<1>5. ASSUME NEW c \in Commands, GitSucceeds(c) PROVE Reached(x)'
  <2>1. /\ git[c] = pc[c] /\ pc[c] \in GitSteps /\ kind = "github"
        /\ pc' = [pc EXCEPT ![c] = After(pc[c])]
        /\ UNCHANGED <<upstream, body, since, kind>>
    BY <1>c, <1>f, <1>5, CacheAssumption
       DEF GitSucceeds, GitEnds, LockInv, GitAtItsStep, StepsOfKind, Clones
  <2>2. CASE x # c
    BY <1>0, <1>f, <1>g, <2>1, <2>2
  <2>3. CASE x = c
    <3>1. CASE pc[c] \in Clones
      <4>1. pc'[x] = "return" /\ dir' = Pristine(upstream)
        BY <1>0, <1>5, <2>1, <2>3, <3>1 DEF GitSucceeds, CloneDone, After, Clones
      <4>2. dir'.whole /\ dir'.version = upstream /\ dir'.work = {}
        BY <4>1 DEF Pristine, Begun, Absent
      <4> QED BY <1>d, <2>1, <4>1, <4>2 DEF Reached, Recent
    <3>2. CASE pc[c] = "fetch"
      <4>1. pc'[x] = "reset" /\ fetchHead' = upstream
        BY <1>0, <1>5, <2>1, <2>3, <3>2 DEF GitSucceeds, FetchDone, After, Clones
      <4> QED BY <1>d, <2>1, <4>1 DEF Reached, Recent
    <3>3. CASE pc[c] = "reset"
      <4>1. pc'[x] = "clean" /\ dir'.whole /\ dir'.version = fetchHead
        BY <1>0, <1>5, <2>1, <2>3, <3>3 DEF GitSucceeds, ResetDone, After, Clones
      <4>2. Recent(x, fetchHead)
        BY <1>d, <2>3, <3>3 DEF Reached
      <4> QED BY <1>d, <2>1, <4>1, <4>2 DEF Reached, Recent
    <3>4. CASE pc[c] = "clean"
      <4>1. /\ pc'[x] = "return" /\ dir'.whole = dir.whole
            /\ dir'.version = dir.version
            /\ \A w \in dir'.work : w[3] = "ignored"
        BY <1>0, <1>5, <2>1, <2>3, <3>4 DEF GitSucceeds, CleanDone, After, Clones
      <4>2. dir.whole /\ Recent(x, dir.version)
        BY <1>d, <2>3, <3>4 DEF Reached
      <4> QED BY <1>d, <2>1, <4>1, <4>2 DEF Reached, Recent
    <3> QED BY <2>1, <1>f, <3>1, <3>2, <3>3, <3>4 DEF Clones
  <2> QED BY <2>2, <2>3
<1>6. ASSUME NEW c \in Commands, GitFails(c) \/ GitKilled(c) PROVE Reached(x)'
  <2>1. /\ pc[c] \in GitSteps
        /\ UNCHANGED <<upstream, body, since, kind>>
    BY <1>0, <1>c, <1>6 DEF GitFails, GitKilled, GitEnds, LockInv, GitAtItsStep
  <2>2. PICK step \in Clones \cup {"give up"} : pc' = [pc EXCEPT ![c] = step]
    BY <1>c, <1>6, NextMethodIsStep DEF GitFails, GitKilled, GitEnds
  <2>3. CASE x # c
    BY <1>0, <1>f, <1>g, <2>1, <2>2, <2>3
  <2>4. CASE x = c
    <3>1. pc'[x] \in Clones \cup {"give up"}
      BY <1>0, <2>2, <2>4
    <3> QED BY <1>d, <2>1, <3>1 DEF Reached, Recent, Clones
  <2> QED BY <2>3, <2>4
<1>7. ASSUME NEW c \in Commands,
             Get(c) \/ Create(c) \/ Copy(c) \/ CopyFails(c) \/ Verify(c)
      PROVE Reached(x)'
  <2>1. /\ pc[c] \in Downloads /\ kind = "url"
        /\ UNCHANGED <<upstream, fetchHead, since, kind>>
    BY <1>f, <1>7
       DEF Get, Create, Copy, CopyFails, Verify, LockInv, StepsOfKind
  <2>2. CASE x # c
    <3>1. pc'[x] = pc[x]
      BY <1>0, <1>7, <2>2 DEF Get, Create, Copy, CopyFails, Verify
    <3> QED BY <1>f, <1>g, <2>1, <2>2, <3>1
  <2>3. CASE x = c
    <3>1. CASE Get(c)
      <4>1. pc'[x] = "create" /\ body'[x] = upstream
        BY <1>0, <2>3, <3>1 DEF Get
      <4> QED BY <1>d, <2>1, <4>1 DEF Reached, Recent
    <3>2. CASE Create(c)
      <4>1. pc[x] = "create" /\ pc'[x] = "copy" /\ body' = body
        BY <1>0, <2>3, <3>2 DEF Create
      <4> QED BY <1>d, <2>1, <4>1 DEF Reached, Recent
    <3>3. CASE Copy(c)
      <4>1. /\ pc[x] = "copy" /\ pc'[x] = "verify" /\ body' = body
            /\ dir'.whole /\ dir'.version = body[x]
        BY <1>0, <2>3, <3>3 DEF Copy
      <4> QED BY <1>d, <2>1, <4>1 DEF Reached, Recent
    <3>4. CASE CopyFails(c)
      <4>1. pc'[x] = "give up"
        BY <1>0, <2>3, <3>4 DEF CopyFails
      <4> QED BY <1>d, <2>1, <4>1 DEF Reached, Recent
    <3>5. CASE Verify(c)
      <4>1. CASE Matches(c, body[c])
        <5>1. pc[x] = "verify" /\ pc'[x] \in {"return", "give up"} /\ dir' = dir
          BY <1>0, <2>3, <3>5, <4>1 DEF Verify
        <5>2. dir.whole /\ dir.version = body[x] /\ Recent(x, dir.version)
          BY <1>d, <5>1 DEF Reached
        <5>3. Matches(x, dir.version)'
          BY <2>3, <4>1, <5>1, <5>2 DEF Matches
        <5> QED BY <1>d, <2>1, <5>1, <5>2, <5>3 DEF Reached, Recent
      <4>2. CASE ~Matches(c, body[c])
        <5>1. pc'[x] = "give up"
          BY <1>0, <2>3, <3>5, <4>2 DEF Verify
        <5> QED BY <1>d, <2>1, <5>1 DEF Reached, Recent
      <4> QED BY <4>1, <4>2
    <3> QED BY <1>7, <3>1, <3>2, <3>3, <3>4, <3>5
  <2> QED BY <2>2, <2>3
<1>8. ASSUME NEW c \in Commands, Setup(c) PROVE Reached(x)'
  <2>1. /\ UNCHANGED <<upstream, fetchHead, body, since, kind>>
        /\ dir'.whole = dir.whole /\ dir'.version = dir.version
        /\ dir'.work = dir.work \cup {<<c, starts[c], l>> : l \in Leftovers}
        /\ pc[c] = "fetched" /\ pc'[c] \in {"set up", "failed"}
        /\ x # c => pc'[x] = pc[x]
    BY <1>0, <1>8 DEF Setup
  <2>2. CASE x = c
    BY <1>d, <2>1, <2>2 DEF Reached, Recent
  <2>3. CASE x # c
    <3>1. \A l \in Leftovers : <<c, starts[c], l>> \notin since[x].work
      <4>1. starts[c] \in Nat /\ pc[c] \in BeforeSetup
        BY <2>1 DEF TypeOK, BeforeSetup
      <4>2. SetUpBefore(c, since[x].work)
        BY DEF WorkIsOld
      <4> QED BY <4>1, <4>2 DEF SetUpBefore
    <3>2. dir'.work \cap since'[x].work = dir.work \cap since[x].work
      BY <2>1, <3>1
    <3>3. \A v : Matches(x, v)' <=> Matches(x, v)
      BY DEF Matches
    <3> QED BY <1>d, <2>1, <2>3, <3>2, <3>3 DEF Reached, Recent, Matches
  <2> QED BY <2>2, <2>3
<1>9. CASE Push
  <2>1. /\ UNCHANGED <<pc, fetchHead, dir, body, since, kind>>
        /\ upstream' = upstream + 1
    BY <1>9 DEF Push
  <2>2. upstream \in Nat /\ since[x].version \in Nat
    BY <1>0, <1>a
  <2>3. since'[x].version <= upstream'
    BY <1>d, <2>1, <2>2 DEF Recent
  <2> QED BY <1>d, <2>1, <2>3 DEF Reached, Recent, Matches
<1>10. ASSUME NEW d \in Daemons, Exit(d) PROVE Reached(x)'
  <2>1. /\ UNCHANGED <<upstream, fetchHead, dir, body, kind>>
        /\ since'[x].version = since[x].version /\ since'[x].work = since[x].work
        /\ pc'[x] \in {pc[x], "gone"}
    BY <1>0, <1>10 DEF Exit
  <2> QED BY <1>d, <2>1 DEF Reached, Recent, Matches
<1>11. CASE UNCHANGED vars
  BY <1>d, <1>11 DEF vars, Reached, Recent, Matches
<1> QED
  BY <1>1, <1>2, <1>3, <1>4, <1>5, <1>6, <1>7, <1>8, <1>9, <1>10, <1>11, <1>12
     DEF Next, NotLocked, Fetching

-----------------------------------------------------------------------------
(* Theorems *)

LEMMA Invariant == Spec => []IInv
<1>1. Init => IInv
  BY TypeInit, LockInit, AloneInit, WorkInit, ReachInit DEF IInv, LockInv
<1>2. IInv /\ [Next]_vars => IInv'
  BY TypeStep, LockStep, AloneStep, WorkStep, ReachStep DEF IInv, LockInv
<1> QED BY <1>1, <1>2, PTL DEF Spec

\* The state of a directory is well typed.
THEOREM TypeCorrect == Spec => []TypeOK
  BY Invariant, PTL DEF IInv

\* Two fetches of one directory are never past the lock together, whichever
\* daemons they belong to and whichever exit (lockPath).
THEOREM FetchesExclude == Spec => []OneFetcher
<1>1. IInv => OneFetcher
  BY DEF IInv, HolderIsInside, OneFetcher
<1> QED BY <1>1, Invariant, PTL

\* A Fetch that returns has brought the directory to a version no older than
\* what was upstream when it began, whole and verified, and a clone is rid of the
\* untracked files earlier setups left, unless a git process of a daemon that
\* exited was at work meanwhile (refresh, writeAndVerify).
THEOREM FetchDelivers == Spec => FetchIsCurrent
<1> DEFINE Delivers ==
      \A c \in Commands :
        (pc[c] = "return" /\ pc'[c] = "fetched" /\ since[c].alone) =>
           /\ dir.whole
           /\ dir.version >= since[c].version
           /\ kind = "github" =>
                \A w \in dir.work \cap since[c].work : w[3] = "ignored"
           /\ kind = "url" => Matches(c, dir.version)
<1>1. IInv /\ [Next]_vars => Delivers
  <2> SUFFICES ASSUME IInv, NEW c \in Commands, pc[c] = "return", since[c].alone
               PROVE  /\ dir.whole
                      /\ dir.version >= since[c].version
                      /\ kind = "github" =>
                           \A w \in dir.work \cap since[c].work : w[3] = "ignored"
                      /\ kind = "url" => Matches(c, dir.version)
    OBVIOUS
  <2>1. Reached(c)
    BY DEF IInv, FetchesReach
  <2>2. dir.version \in Nat /\ since[c].version \in Nat
    BY VersionsAreNat DEF IInv, TypeOK
  <2> QED BY <2>1, <2>2 DEF Reached, Recent
<1>2. Spec => [][Delivers]_vars
  BY <1>1, Invariant, PTL DEF Spec
<1> QED BY <1>2 DEF FetchIsCurrent
=============================================================================
