---------------------------- MODULE ConfigRules ----------------------------
(***************************************************************************)
(* Configuration files as data (internal/config: Validate, Merge, Load;    *)
(* internal/engine: buildIndexes, effectiveEnv, ResolveEnv).               *)
(*                                                                         *)
(* A configuration is a record like config.Config.  Of a command's source, *)
(* probe and restart block only the cases that the rules tell apart are    *)
(* kept; names and variable names are strings, a few of them malformed.    *)
(* A variable map is a function from a set of keys.                        *)
(***************************************************************************)
EXTENDS Integers, FiniteSets, Sequences, SequencesExt, TLC

CONSTANTS
  Unreadable, \* a text that yaml.Unmarshal refuses
  Invalid,    \* the outcome of a load that fails
  NoOverlay   \* no --config-overlay

\* What namePattern and validateEnvMap refuse.
MalformedNames == {"", "../a"}
MalformedKeys  == {"", "A=B"}

-----------------------------------------------------------------------------
(* Validate                                                                *)

\* "url": without a checksum.  Everything else that is not listed is refused:
\* no source or several, http, a malformed slug, digest or subdir.
ValidSource(source, required) ==
  source \in {"local", "github", "summed"} \cup (IF required THEN {} ELSE {"url"})

ValidEnvMap(env) == DOMAIN env \cap MalformedKeys = {}

\* restart: "none", "on", "off" (enabled: false) or "negative" (max-retries).
ValidCommand(cmd, required) ==
  /\ cmd.name \notin MalformedNames
  /\ cmd.type \in {"service", "task"}
  /\ cmd.run # ""
  /\ ValidEnvMap(cmd.env)
  /\ ValidSource(cmd.source, required)
  /\ cmd.probe \in {"none", "tcp", "shell"}
  /\ cmd.restart # "negative"
  /\ cmd.type = "task" /\ cmd.restart = "on" => cmd.probe # "none"

Steps(env) == {step.command : step \in ToSet(env.workflow)}

\* detectCycle's adjacency list: the last step of a command counts.
Adjacent(env) ==
  [c \in Steps(env) |->
     env.workflow[SelectLastInSeq(env.workflow, LAMBDA s : s.command = c)].dependsOn]

\* The three-colour search from a node: the colours after it, and a cycle if it
\* met one.
Colourings(adj) ==
  [colour : [DOMAIN adj -> {"white", "gray", "black"}], cycle : BOOLEAN]

Search(adj) ==
  LET search[node \in DOMAIN adj, found \in Colourings(adj)] ==
        LET Visit(f, dep) ==
              IF f.cycle \/ f.colour[dep] = "black" THEN f
              ELSE IF f.colour[dep] = "gray"        THEN [f EXCEPT !.cycle = TRUE]
                                                    ELSE search[dep, f]
            after == FoldLeft(Visit, [found EXCEPT !.colour[node] = "gray"],
                              SetToSeq(adj[node]))
        IN  [after EXCEPT !.colour[node] = "black"]
  IN  search

Unvisited(adj) == [colour |-> [c \in DOMAIN adj |-> "white"], cycle |-> FALSE]

\* Mutant: the search starts at the first step only.
DetectCycleFirst(env) ==
  LET adj == Adjacent(env)
  IN  Search(adj)[Head(env.workflow).command, Unvisited(adj)].cycle

DetectCycle(env) ==
  LET adj == Adjacent(env)
      From(f, step) ==
        IF f.cycle \/ f.colour[step.command] # "white" THEN f
                                                       ELSE Search(adj)[step.command, f]
  IN  FoldLeft(From, Unvisited(adj), env.workflow).cycle

ValidEnvironment(env, names) ==
  /\ env.name # "" /\ env.workflow # << >>
  /\ ValidEnvMap(env.env)
  /\ \A step \in ToSet(env.workflow) :
       step.command # "" /\ step.command \in names /\ step.dependsOn \subseteq Steps(env)
  /\ ~DetectCycle(env)

\* The variables of the last definition of a command, as buildIndexes keeps them.
Named(seq, name) == SelectLastInSeq(seq, LAMBDA x : x.name = name)
CommandEnv(cfg, name) == cfg.commands[Named(cfg.commands, name)].env

\* Mutant: only the first steps of two workflows are compared.
SharedEnvAgreesFirst(cfg) ==
  \A e1, e2 \in ToSet(cfg.environments) :
    LET c == Head(e1.workflow).command
    IN  c = Head(e2.workflow).command =>
          \A k \in (DOMAIN e1.env \cap DOMAIN e2.env) \ DOMAIN CommandEnv(cfg, c) :
            e1.env[k] = e2.env[k]

\* No two environments give one variable of a command different values, unless
\* the command sets it itself.
SharedEnvAgrees(cfg) ==
  \A e1, e2 \in ToSet(cfg.environments) : \A c \in Steps(e1) \cap Steps(e2) :
    \A k \in (DOMAIN e1.env \cap DOMAIN e2.env) \ DOMAIN CommandEnv(cfg, c) :
      e1.env[k] = e2.env[k]

CommandNames(cfg) == {c.name : c \in ToSet(cfg.commands)}

Validate(cfg) ==
  /\ \A c \in ToSet(cfg.commands) : ValidCommand(c, cfg.requireChecksums)
  /\ \A e \in ToSet(cfg.environments) : ValidEnvironment(e, CommandNames(cfg))
  /\ SharedEnvAgrees(cfg)

-----------------------------------------------------------------------------
(* Merge: the overlay wins field by field where it sets a field            *)

Set(over, base, zero) == IF over = zero THEN base ELSE over

MergeEnvMap(base, over) == over @@ base

MergeCommandFields(base, over) ==
  [base EXCEPT !.type    = Set(over.type, @, ""),
               !.source  = Set(over.source, @, "none"),
               !.run     = Set(over.run, @, ""),
               !.env     = MergeEnvMap(@, over.env),
               !.probe   = Set(over.probe, @, "none"),
               !.restart = Set(over.restart, @, "none")]

MergeEnvironmentFields(base, over) ==
  [base EXCEPT !.env = MergeEnvMap(@, over.env),
               !.workflow = Set(over.workflow, @, << >>)]

\* Entries are matched by name; new ones are appended in the overlay's order.
Added(base, over) == SelectSeq(over, LAMBDA o : Named(base, o.name) = 0)

MergeCommands(base, over) ==
  [i \in DOMAIN base |-> LET n == Named(over, base[i].name)
                         IN  IF n = 0 THEN base[i] ELSE MergeCommandFields(base[i], over[n])]
    \o Added(base, over)

MergeEnvironments(base, over) ==
  [i \in DOMAIN base |-> LET n == Named(over, base[i].name)
                         IN  IF n = 0 THEN base[i] ELSE MergeEnvironmentFields(base[i], over[n])]
    \o Added(base, over)

Merge(base, over) ==
  [requireChecksums |-> base.requireChecksums \/ over.requireChecksums,
   commands         |-> MergeCommands(base.commands, over.commands),
   environments     |-> MergeEnvironments(base.environments, over.environments)]

-----------------------------------------------------------------------------
(* Loading                                                                 *)

\* config.Load of the text of one file.
Load(text) == IF text = Unreadable \/ ~Validate(text) THEN Invalid ELSE text

\* The overlay is loaded, and so validated, like the base; the result is not.
LoadMerged(base, over) ==
  IF over = NoOverlay THEN Load(base)
  ELSE IF Invalid \in {Load(base), Load(over)} THEN Invalid
  ELSE Merge(Load(base), Load(over))

-----------------------------------------------------------------------------
(* What the engine makes of a configuration                                *)

\* holderEnvUnion ranges over a Go map: the holders in any order, the last wins.
HolderEnvUnion(cfg, order) ==
  FoldLeft(LAMBDA env, e : MergeEnvMap(env, cfg.environments[Named(cfg.environments, e)].env),
           << >>, order)

EffectiveEnv(cfg, command, order) ==
  MergeEnvMap(HolderEnvUnion(cfg, order), CommandEnv(cfg, command))

\* Mutant: the environments' layer wins.
LayersSwapped(cfg, command, order, os) ==
  <<os, CommandEnv(cfg, command), HolderEnvUnion(cfg, order)>>

\* resolveLayers: the layers, the winning one last.
Layers(cfg, command, order, os) ==
  <<os, HolderEnvUnion(cfg, order), CommandEnv(cfg, command)>>

ResolveCommandEnv(cfg, command, order, os) ==
  LET layers == Layers(cfg, command, order, os)
      setting(k) == SelectSeq(<<1, 2, 3>>, LAMBDA i : k \in DOMAIN layers[i])
  IN  [k \in UNION {DOMAIN layers[i] : i \in 1 .. 3} |->
         [source   |-> Last(setting(k)),
          value    |-> layers[Last(setting(k))][k],
          shadowed |-> Reverse(Front(setting(k)))]]

-----------------------------------------------------------------------------
(* Reference definitions                                                   *)

NamesNoneTwice(env) == Len(env.workflow) = Cardinality(Steps(env))

\* Among the steps that have not run there is always one that waits for none of
\* them: what a run of the workflow needs (WorkflowsOK of EnvironmentRun).
Startable(cfg) ==
  \A e \in {x \in ToSet(cfg.environments) : NamesNoneTwice(x)} :
    /\ Steps(e) \subseteq CommandNames(cfg)
    /\ \A S \in (SUBSET ToSet(e.workflow)) \ {{}} :
         \E step \in S : /\ step.dependsOn \subseteq Steps(e)
                        /\ step.dependsOn \cap {s.command : s \in S} = {}

Users(cfg, command) == {e.name : e \in {x \in ToSet(cfg.environments) : command \in Steps(x)}}

\* All orders of a set: how a Go map may be walked.
Orders(S) == {SetToSeqs(T) : T \in SUBSET S}

\* Whoever holds a command, its variables do not depend on the order of the map.
Unambiguous(cfg) ==
  \A c \in CommandNames(cfg) : \A os \in Orders(Users(cfg, c)) :
    Cardinality({EffectiveEnv(cfg, c, o) : o \in os}) = 1

=============================================================================
