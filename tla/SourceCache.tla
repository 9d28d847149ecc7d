---------------------------- MODULE SourceCache ----------------------------
(***************************************************************************)
(* One directory of the source cache: the commands that fetch it, set up   *)
(* in it and run in it (internal/source, Engine.doStart), the mutex of a   *)
(* daemon and the lock file of all daemons that serialise the fetches, the *)
(* git process or the download that writes it, and what is upstream.       *)
(*                                                                         *)
(* Directories do not share a lock, so one of them is enough.  It is a     *)
(* clone or a download for a whole behaviour.  Its content is a version of *)
(* upstream, or a part of one, and the files the setup steps of commands   *)
(* left in it, those git ignores among them (an npm ci leaves the ignored  *)
(* node_modules).  A git process is a process of its own: it goes on       *)
(* writing when its daemon is gone, and the kernel has then freed the lock.*)
(***************************************************************************)
EXTENDS Naturals, FiniteSets

CONSTANTS
  Daemons,
  Commands,    \* a command and the daemon that starts it
  DaemonOf,
  Method,      \* source.github.method of a command, "auto" when unset
  Pin,         \* the version whose checksum a url source names, or AnyVersion
  AnyVersion,
  MaxPushes,   \* bound: versions pushed upstream
  MaxFetches,  \* bound: starts of one command
  MaxFaults,   \* bound: daemons that exit and git processes that are killed
  None

Clones == {"ssh", "gh", "https"}
Refreshes == {"fetch", "reset", "clean"}
GitSteps == Clones \cup Refreshes

ASSUME CacheAssumption ==
  /\ DaemonOf \in [Commands -> Daemons]
  /\ Method \in [Commands -> {"ssh", "https", "gh", "auto"}]
  /\ MaxPushes \in Nat /\ MaxFetches \in Nat /\ MaxFaults \in Nat
  /\ AnyVersion \notin Nat
  /\ Pin \in [Commands -> Nat \cup {AnyVersion}]
  /\ None \notin Commands \cup GitSteps

VARIABLES
  kind,        \* "github" or "url"
  upstream,    \* the newest version
  dir,         \* what is in the directory
  fetchHead,   \* FETCH_HEAD of the clone
  mutex,       \* per daemon: who holds the entry of pathLocks
  flock,       \* who holds the lock on the sibling .lock file
  pc,          \* where the start of a command is
  git,         \* the git process a command has started
  body,        \* the version the download of a command brings
  starts,      \* per command: how often it was started
  since,       \* per command: upstream and the setup files when its Fetch began,
               \* and whether git processes of daemons that exited are none since
  delivered,   \* per command: the version its last Fetch returned with
  up,          \* the daemons that run
  faults       \* daemons that exited and git processes killed

locks == <<mutex, flock>>
asked == <<starts, since, up, faults, kind>>
vars == <<kind, upstream, dir, fetchHead, mutex, flock, pc, git, body, starts,
          since, delivered, up, faults>>

Versions == 0 .. MaxPushes

Downloads == {"get", "create", "copy", "verify"}
Returns == {"fetched", "failed"}

\* Between lockPath and the deferred unlock.
Inside == {"look", "return", "give up"} \cup GitSteps \cup Downloads

\* there: the clone or the downloaded file exists.  work: the files left by the
\* setup of a command's n-th start, as git sees them (an ignored one may as well
\* be in a nested repository).
Leftovers == {"untracked", "ignored"}
Absent == [there |-> FALSE, whole |-> FALSE, version |-> 0, work |-> {}]
Begun == [Absent EXCEPT !.there = TRUE]
Nothing == [version |-> 0, work |-> {}, alone |-> FALSE]
Pristine(v) == [Begun EXCEPT !.whole = TRUE, !.version = v]

Goto(c, step) == pc' = [pc EXCEPT ![c] = step]

\* A git process is at work whose daemon has exited.
Orphaned(c) == pc[c] = "gone" /\ git[c] # None

-----------------------------------------------------------------------------
(* The lock *)

\* A start of c reaches fetchSource.
Begin(c) ==
  /\ pc[c] \in {"idle", "failed"}
  /\ DaemonOf[c] \in up
  /\ starts[c] < MaxFetches
  /\ Goto(c, "mutex")
  /\ starts' = [starts EXCEPT ![c] = @ + 1]
  /\ since' = [since EXCEPT ![c] =
       [version |-> upstream, work |-> dir.work,
        alone |-> ~ \E c2 \in Commands : Orphaned(c2)]]
  /\ UNCHANGED <<kind, upstream, dir, fetchHead, locks, git, body, delivered, up,
                 faults>>

\* The URL is not https, the repository has no owner, or the cache root is not
\* private: no lock is asked for.
Refused(c) ==
  /\ pc[c] = "mutex"
  /\ Goto(c, "failed")
  /\ UNCHANGED <<upstream, dir, fetchHead, locks, git, body, delivered, asked>>

LockMutex(c) ==
  /\ pc[c] = "mutex"
  /\ mutex[DaemonOf[c]] = None
  /\ mutex' = [mutex EXCEPT ![DaemonOf[c]] = c]
  /\ Goto(c, "file")
  /\ UNCHANGED <<upstream, dir, fetchHead, flock, git, body, delivered, asked>>

\* Mistake: the lock file is not waited for (OneFetcher).
LockUnshared(c) ==
  /\ pc[c] = "file"
  /\ flock' = c
  /\ Goto(c, "look")
  /\ UNCHANGED <<upstream, dir, fetchHead, mutex, git, body, delivered, asked>>

LockFile(c) ==
  /\ pc[c] = "file"
  /\ flock = None
  /\ flock' = c
  /\ Goto(c, "look")
  /\ UNCHANGED <<upstream, dir, fetchHead, mutex, git, body, delivered, asked>>

\* Mistake: the error path leaves the mutex locked (FetchesEnd).
LockFileFailsLocked(c) ==
  /\ pc[c] = "file"
  /\ Goto(c, "failed")
  /\ UNCHANGED <<upstream, dir, fetchHead, mutex, flock, git, body, delivered, asked>>

\* The lock file cannot be opened or locked.
LockFileFails(c) ==
  /\ pc[c] = "file"
  /\ mutex' = [mutex EXCEPT ![DaemonOf[c]] = None]
  /\ Goto(c, "failed")
  /\ UNCHANGED <<upstream, dir, fetchHead, flock, git, body, delivered, asked>>

\* The deferred unlock: the lock file first, then the mutex.
Return(c) ==
  /\ pc[c] \in {"return", "give up"}
  /\ flock' = None
  /\ mutex' = [mutex EXCEPT ![DaemonOf[c]] = None]
  /\ delivered' = [delivered EXCEPT ![c] = IF pc[c] = "return" THEN dir.version ELSE @]
  /\ Goto(c, IF pc[c] = "return" THEN "fetched" ELSE "failed")
  /\ body' = [body EXCEPT ![c] = 0]
  /\ since' = [since EXCEPT ![c] = Nothing]
  /\ UNCHANGED <<kind, upstream, dir, fetchHead, git, starts, up, faults>>

-----------------------------------------------------------------------------
(* A clone *)

FirstMethod(c) == IF Method[c] = "auto" THEN "ssh" ELSE Method[c]

\* ssh, then gh, then https; a method that is named is the only one.
NextMethod(c) == IF Method[c] # "auto" \/ pc[c] = "https" THEN "give up"
                 ELSE IF pc[c] = "ssh" THEN "gh" ELSE "https"

\* Stat of the directory; a download makes it private and asks for the body.
Look(c) ==
  /\ pc[c] = "look"
  /\ Goto(c, CASE kind = "url" -> "get"
               [] kind = "github" /\ dir.there -> "fetch"
               [] OTHER -> FirstMethod(c))
  /\ UNCHANGED <<upstream, dir, fetchHead, locks, git, body, delivered, asked>>

\* The next git process.  git clone makes the directory, and refuses one that
\* is there.
StartGit(c) ==
  /\ pc[c] \in GitSteps /\ git[c] = None
  /\ IF pc[c] \in Clones /\ dir.there
     THEN /\ Goto(c, NextMethod(c))
          /\ UNCHANGED <<dir, git>>
     ELSE /\ git' = [git EXCEPT ![c] = pc[c]]
          /\ dir' = IF pc[c] \in Clones THEN Begun ELSE dir
          /\ UNCHANGED pc
  /\ UNCHANGED <<upstream, fetchHead, locks, body, delivered, asked>>

\* What a git process that succeeds leaves.  reset restores the files of the
\* version, clean -fd drops the files setup steps left and keeps the ignored ones.
CloneDone == dir' = Pristine(upstream) /\ UNCHANGED fetchHead
FetchDone == dir.there /\ fetchHead' = upstream /\ UNCHANGED dir
ResetDone == /\ dir.there
             /\ dir' = [dir EXCEPT !.version = fetchHead, !.whole = TRUE]
             /\ UNCHANGED fetchHead
CleanDone == /\ dir.there
             /\ dir' = [dir EXCEPT !.work = {w \in @ : w[3] = "ignored"}]
             /\ UNCHANGED fetchHead

\* The step after the one that succeeded.
\* Mistake: the refresh ends with the reset (FetchIsCurrent).
AfterWithoutClean(step) ==
  CASE step = "fetch" -> "reset" [] OTHER -> "return"

After(step) ==
  CASE step = "fetch" -> "reset" [] step = "reset" -> "clean" [] OTHER -> "return"

\* A git process of a daemon that is gone has nobody to return to.
GitEnds(c, next) ==
  /\ git' = [git EXCEPT ![c] = None]
  /\ pc' = IF pc[c] = "gone" THEN pc ELSE [pc EXCEPT ![c] = next]
  /\ UNCHANGED <<upstream, locks, body, delivered, asked>>

GitSucceeds(c) ==
  /\ \/ git[c] \in Clones /\ CloneDone
     \/ git[c] = "fetch" /\ FetchDone
     \/ git[c] = "reset" /\ ResetDone
     \/ git[c] = "clean" /\ CleanDone
  /\ GitEnds(c, After(git[c]))

\* A clone that fails removes what it made.
GitFails(c) ==
  /\ git[c] # None
  /\ dir' = IF git[c] \in Clones THEN Absent ELSE dir
  /\ GitEnds(c, IF git[c] \in Clones THEN NextMethod(c) ELSE "give up")
  /\ UNCHANGED fetchHead

\* A git process is killed: it leaves a part of a clone, or of a reset.
GitKilled(c) ==
  /\ git[c] # None /\ faults < MaxFaults
  /\ faults' = faults + 1
  /\ git' = [git EXCEPT ![c] = None]
  /\ pc' = IF pc[c] = "gone" THEN pc
           ELSE [pc EXCEPT ![c] = IF git[c] \in Clones THEN NextMethod(c) ELSE "give up"]
  /\ dir' = IF git[c] = "reset" THEN [dir EXCEPT !.whole = FALSE] ELSE dir
  /\ UNCHANGED <<kind, upstream, fetchHead, locks, body, starts, since, delivered,
                 up>>

\* subdir escapes or does not exist: an error with the clone in place.
SubdirMissing(c) ==
  /\ pc[c] = "return" /\ kind = "github"
  /\ Goto(c, "give up")
  /\ UNCHANGED <<upstream, dir, fetchHead, locks, git, body, delivered, asked>>

-----------------------------------------------------------------------------
(* A download *)

\* The answer, of which the body is still to be read.
Get(c) ==
  /\ pc[c] = "get"
  /\ body' = [body EXCEPT ![c] = upstream]
  /\ Goto(c, "create")
  /\ UNCHANGED <<upstream, dir, fetchHead, locks, git, delivered, asked>>

\* The directory is not private, there is no answer, or no file can be created.
GetFails(c) ==
  /\ pc[c] \in {"get", "create"}
  /\ Goto(c, "give up")
  /\ UNCHANGED <<upstream, dir, fetchHead, locks, git, body, delivered, asked>>

Removed == [dir EXCEPT !.there = FALSE, !.whole = FALSE, !.version = 0]

\* os.Create empties the file, whoever uses it.
Create(c) ==
  /\ pc[c] = "create"
  /\ dir' = [Removed EXCEPT !.there = TRUE]
  /\ Goto(c, "copy")
  /\ UNCHANGED <<upstream, fetchHead, locks, git, body, delivered, asked>>

Copy(c) ==
  /\ pc[c] = "copy"
  /\ dir' = [dir EXCEPT !.whole = TRUE, !.version = body[c]]
  /\ Goto(c, "verify")
  /\ UNCHANGED <<upstream, fetchHead, locks, git, body, delivered, asked>>

\* The stream breaks or exceeds the limit; before it, the name of the checksum's
\* algorithm is unknown, and the empty file stays.
CopyFails(c) ==
  /\ pc[c] = "copy"
  /\ dir' \in {Removed, dir}
  /\ Goto(c, "give up")
  /\ UNCHANGED <<upstream, fetchHead, locks, git, body, delivered, asked>>

Matches(c, version) == Pin[c] \in {AnyVersion, version}

\* A file that matches stays, and is not delivered if closing it fails.
Verify(c) ==
  /\ pc[c] = "verify"
  /\ \/ Matches(c, body[c]) /\ UNCHANGED dir /\ Goto(c, "return")
     \/ Matches(c, body[c]) /\ UNCHANGED dir /\ Goto(c, "give up")
     \/ ~Matches(c, body[c]) /\ dir' = Removed /\ Goto(c, "give up")
  /\ UNCHANGED <<upstream, fetchHead, locks, git, body, delivered, asked>>

-----------------------------------------------------------------------------
(* The use of the directory, without the lock *)

\* The setup steps of c ran in the directory; one that fails ends the start.
Setup(c) ==
  /\ pc[c] = "fetched"
  /\ dir' = [dir EXCEPT !.work = @ \cup {<<c, starts[c], l>> : l \in Leftovers}]
  /\ \E next \in {"set up", "failed"} : Goto(c, next)
  /\ UNCHANGED <<upstream, fetchHead, locks, git, body, delivered, asked>>

\* The process is launched; when it was stopped the command may start again.
Launch(c) ==
  /\ pc[c] = "set up"
  /\ Goto(c, "running")
  /\ delivered' = [delivered EXCEPT ![c] = 0]
  /\ UNCHANGED <<upstream, dir, fetchHead, locks, git, body, asked>>
Stop(c) ==
  /\ pc[c] = "running"
  /\ Goto(c, "idle")
  /\ UNCHANGED <<upstream, dir, fetchHead, locks, git, body, delivered, asked>>

-----------------------------------------------------------------------------
(* The world outside *)

Push ==
  /\ upstream < MaxPushes
  /\ upstream' = upstream + 1
  /\ UNCHANGED <<dir, fetchHead, locks, pc, git, body, delivered, asked>>

\* A daemon exits, killed or at the end of its patience with a shutdown: the
\* kernel frees its lock on the file, its git processes go on.
Exit(d) ==
  /\ d \in up /\ faults < MaxFaults
  /\ up' = up \ {d}
  /\ faults' = faults + 1
  /\ pc' = [c \in Commands |-> IF DaemonOf[c] = d THEN "gone" ELSE pc[c]]
  /\ flock' = IF flock # None /\ DaemonOf[flock] = d THEN None ELSE flock
  /\ mutex' = [mutex EXCEPT ![d] = None]
  /\ since' = [c \in Commands |->
       [since[c] EXCEPT !.alone =
          @ /\ \A c2 \in Commands : DaemonOf[c2] = d => git[c2] = None]]
  /\ UNCHANGED <<kind, upstream, dir, fetchHead, git, body, starts, delivered>>

-----------------------------------------------------------------------------
Init ==
  /\ kind \in {"github", "url"}
  /\ upstream = 0
  /\ dir = Absent
  /\ fetchHead = 0
  /\ mutex = [d \in Daemons |-> None]
  /\ flock = None
  /\ pc = [c \in Commands |-> "idle"]
  /\ git = [c \in Commands |-> None]
  /\ body = [c \in Commands |-> 0]
  /\ starts = [c \in Commands |-> 0]
  /\ since = [c \in Commands |-> Nothing]
  /\ delivered = [c \in Commands |-> 0]
  /\ up = Daemons
  /\ faults = 0

\* A Fetch that ends before it has the lock.
NotLocked(c) == Refused(c) \/ LockFileFails(c)

\* The other steps of a Fetch that has begun, its git processes included.
Fetching(c) ==
  \/ LockMutex(c) \/ LockFile(c) \/ Look(c)
  \/ StartGit(c) \/ GitSucceeds(c) \/ GitFails(c) \/ SubdirMissing(c)
  \/ Get(c) \/ GetFails(c) \/ Create(c) \/ Copy(c) \/ CopyFails(c) \/ Verify(c)
  \/ Return(c)

Next ==
  \/ \E c \in Commands : \/ Begin(c) \/ NotLocked(c) \/ Fetching(c) \/ GitKilled(c)
                        \/ Setup(c) \/ Launch(c) \/ Stop(c)
  \/ Push
  \/ \E d \in Daemons : Exit(d)

Spec == Init /\ [][Next]_vars

\* git and the server answer in the end, and a lock that is free is taken.
\* Nothing makes a Fetch that waits give up.  The starts are bounded, so that no
\* waiter starves and weak fairness is enough.
FairSpec == Spec /\ \A c \in Commands : WF_vars(Fetching(c))

-----------------------------------------------------------------------------
(* Properties *)

Works == SUBSET (Commands \X Nat \X Leftovers)

\* The state is well typed.
TypeOK ==
  /\ kind \in {"github", "url"}
  /\ upstream \in Versions /\ fetchHead \in Versions
  /\ dir \in [there : BOOLEAN, whole : BOOLEAN, version : Versions, work : Works]
  /\ dir.whole => dir.there
  /\ mutex \in [Daemons -> Commands \cup {None}]
  /\ flock \in Commands \cup {None}
  /\ pc \in [Commands -> Inside \cup Returns \cup
                         {"idle", "mutex", "file", "set up", "running", "gone"}]
  /\ git \in [Commands -> GitSteps \cup {None}]
  /\ body \in [Commands -> Versions]
  /\ starts \in [Commands -> Nat]
  /\ since \in [Commands -> [version : Versions, work : Works, alone : BOOLEAN]]
  /\ delivered \in [Commands -> Versions]
  /\ up \subseteq Daemons
  /\ faults \in Nat

\* Whatever daemons they belong to, and whichever daemons exit, two fetches of
\* one directory are never past the lock together (lockPath: "two commands that
\* share a repo+ref (or URL) never clone/download into the same dir
\* concurrently").
OneFetcher ==
  \A c1, c2 \in Commands : {pc[c1], pc[c2]} \subseteq Inside => c1 = c2

\* A Fetch that returns has brought the directory to a version no older than
\* what was upstream when it began, whole, as its checksum wants it; a clone is
\* rid of the untracked files a setup from before has left (refresh: "clean -fd
\* drops untracked files left over").  Daemons may exit, but a git process one of
\* them leaves behind must not be at work during the fetch: it holds no lock.
FetchIsCurrent == [][
  \A c \in Commands :
    (pc[c] = "return" /\ pc'[c] = "fetched" /\ since[c].alone) =>
       /\ dir.whole
       /\ dir.version >= since[c].version
       /\ kind = "github" =>
            \A w \in dir.work \cap since[c].work : w[3] = "ignored"
       /\ kind = "url" => Matches(c, dir.version)]_vars

\* Said of a refresh, and not so: it leaves "a pristine checkout" (github.go:202).
\* What git ignores, the node_modules of an npm ci among it, stays.
PristineCheckout == [][
  \A c \in Commands :
    (kind = "github" /\ pc[c] = "return" /\ pc'[c] = "fetched" /\ since[c].alone) =>
       dir.work \cap since[c].work = {}]_vars

\* Every Fetch ends: no error path keeps a lock, and the two locks, of which
\* each daemon takes its own first, never wait for each other.
FetchesEnd ==
  \A c \in Commands : pc[c] = "mutex" ~> pc[c] \in Returns \cup {"gone"}

\* Said of commands that share a clone, and not so: "reuse a single cached clone
\* (safe for concurrent startup)" (docs/configuration.md:364).  The refresh of
\* one resets and cleans the clone between the setup and the launch of another.
LaunchesWhatItSetUp == [][
  \A c \in Commands :
    (kind = "github" /\ pc[c] = "set up" /\ pc'[c] = "running") =>
       /\ dir.whole /\ dir.version = delivered[c]
       /\ <<c, starts[c], "untracked">> \in dir.work]_vars

\* Said of the daemons that share a cache, and not so: they "never race on it"
\* (docs/configuration.md:364).  The git process of a daemon that has exited
\* goes on without the lock.
Writing(c) == git[c] # None \/ pc[c] = "copy"
OneWriter == \A c1, c2 \in Commands : Writing(c1) /\ Writing(c2) => c1 = c2
=============================================================================
