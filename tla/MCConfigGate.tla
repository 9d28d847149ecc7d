---------------------------- MODULE MCConfigGate ----------------------------
(* Small instances of ConfigGate for TLC: a library of configurations the  *)
(* daemon is started with, among them every dependency graph over three    *)
(* commands and every way two environments share a variable, and a few     *)
(* texts that are edited while it runs.                                    *)
EXTENDS ConfigGate

Cmd(name) == [name |-> name, type |-> "service", run |-> "serve", source |-> "local",
              env |-> << >>, probe |-> "none", restart |-> "none"]
Step(c, deps) == [command |-> c, dependsOn |-> deps]
Env(name, env, workflow) == [name |-> name, env |-> env, workflow |-> workflow]
Config(commands, environments) ==
  [requireChecksums |-> FALSE, commands |-> commands, environments |-> environments]

Three == <<Cmd("a"), Cmd("b"), Cmd("c")>>

\* Every dependency graph over three commands, and workflows that name one twice.
Workflow(da, db, x, dx) == <<Step("a", da), Step("b", db), Step(x, dx)>>
Graphs ==
  {Config(Three, <<Env("e", << >>, w)>>) :
     w \in {Workflow(da, db, "c", dc) : da, db, dc \in SUBSET {"a", "b", "c"}}
          \cup {Workflow(da, db, "a", dx) : da, db, dx \in SUBSET {"a", "b"}}}

Vars == UNION {[S -> {"1", "2"}] : S \in SUBSET {"K"}}

\* Two environments that may share a command which may set the variable itself.
Sharing ==
  {Config(<<[Cmd("a") EXCEPT !.env = v], Cmd("b")>>,
          <<Env("e", v1, <<Step("b", {}), Step("a", {"b"})>>),
            Env("f", v2, <<Step(x, {})>>)>>) :
     v, v1, v2 \in Vars, x \in {"a", "b"}}

\* A command with each field that Validate looks at changed, a task with a
\* restart block, and the same with checksums required.
Good == Cmd("a")
Commands ==
  {[Good EXCEPT !.name = n] : n \in {"", "../a"}}
    \cup {[Good EXCEPT !.type = t, !.probe = p, !.restart = r] :
            t \in {"service", "task", ""}, p \in {"none", "tcp", "http"},
            r \in {"none", "on", "off", "negative"}}
    \cup {[Good EXCEPT !.source = s] : s \in {"none", "github", "url", "summed"}}
    \cup {[Good EXCEPT !.env = [k \in {x} |-> "1"]] : x \in {"", "A=B"}}
    \cup {[Good EXCEPT !.run = ""]}
Fields ==
  {[Config(<<c>>, <<Env("e", << >>, <<Step("a", {})>>)>>) EXCEPT !.requireChecksums = r] :
     c \in Commands, r \in BOOLEAN}

\* Overlays: variables only, a changed command, another environment of it.
Bare(name) == [Cmd(name) EXCEPT !.type = "", !.run = "", !.source = "none"]
Overlays ==
  {Config(<<[Bare("a") EXCEPT !.env = v]>>, << >>) : v \in Vars}
    \cup {Config(<<[Cmd("a") EXCEPT !.env = v, !.source = s]>>,
                 <<Env(e, w, <<Step("a", {})>>)>>) :
            v, w \in Vars, s \in {"local", "url"}, e \in {"e", "g"}}

\* What is edited: a configuration, the same in other words, two others, and two
\* that do not load.
Plain  == Config(Three, <<Env("e", << >>, <<Step("a", {}), Step("b", {"a"})>>)>>)
Longer == Config(Three, <<Env("e", << >>, <<Step("a", {}), Step("b", {}), Step("c", {})>>)>>)
Cyclic == Config(Three, <<Env("e", << >>, <<Step("a", {"b"}), Step("b", {"a"})>>)>>)

SavedBases == {Plain, Longer, Cyclic}
Tuned(value) == Config(<<[Cmd("a") EXCEPT !.env = [k \in {"K"} |-> value]]>>, << >>)
SavedOverlays == {Tuned("1"), Tuned("2")}
EditedPairs == {<<Plain, NoOverlay>>, <<Plain, Tuned("1")>>}
AllPairs ==
  EditedPairs
    \cup ((Graphs \cup Sharing \cup Fields) \X {NoOverlay})
    \cup (Sharing \X Overlays)
=============================================================================
