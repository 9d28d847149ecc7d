----------------------------- MODULE BoundedLog -----------------------------
(***************************************************************************)
(* What a command's log promises whoever reads it (internal/logbuf: "keeps *)
(* the last N lines in memory"; Ring: "retains at most capacity lines",    *)
(* Lines: "the retained lines in chronological order").                    *)
(***************************************************************************)
EXTENDS Naturals, Sequences

CONSTANTS Line,        \* what a command can say in one line
          Capacity     \* how many lines are kept

VARIABLE log           \* what a reader gets

Newest(s) == IF Len(s) <= Capacity THEN s
             ELSE SubSeq(s, Len(s) - Capacity + 1, Len(s))

Init == log = << >>

Says(line) == log' = Newest(Append(log, line))

\* The command was created anew, with an empty log.
Forgotten == log' = << >>

Next == \/ Forgotten
        \/ /\ log' # << >>
           /\ \E line \in {log'[Len(log')]} : line \in Line /\ Says(line)

Spec == Init /\ [][Next]_log
=============================================================================
