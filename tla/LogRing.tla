------------------------------ MODULE LogRing ------------------------------
(***************************************************************************)
(* The log of one command: the ring of its last lines, the writers that    *)
(* split its output into lines (internal/logbuf/logbuf.go), and the tail   *)
(* of `env-starter run`, which polls the ring from another process and     *)
(* prints what is new (tailStartupLogs in cmd/env-starter/main.go).        *)
(*                                                                         *)
(* A byte of a stream is a piece of text, told apart by its writer and its *)
(* position, or a newline.  Write and Close hold the writer's lock for all *)
(* their work, each Add and each Lines the ring's lock: a reader may look  *)
(* between the lines of one Write.                                         *)
(***************************************************************************)
EXTENDS Integers, Sequences

CONSTANTS
  Writers,    \* the writers a command is given in its life: NewWriter per phase
  Capacity,   \* NewRing(capacity), logRingCapacity in the engine
  Chunks,     \* what one Write may bring: sequences over {"text", "newline"}
  MaxBytes,   \* bound: bytes of one stream
  MaxRings,   \* bound: rings of the command, the first one included
  LogsFail,   \* may the Logs call of the tail fail?
  Newline

ASSUME RingAssumption ==
  /\ Capacity \in Nat \ {0}
  /\ MaxBytes \in Nat
  /\ MaxRings \in Nat
  /\ Chunks \subseteq Seq({"text", "newline"})
  /\ Newline \notin Writers \X (Nat \ {0})

VARIABLES
  ring,       \* buf, head and count of the ring readers are given
  writer,     \* per writer: its state, the bytes pending, all it was given
  rings,      \* rings created so far
  tail,       \* the tail: its state, seenLines, what it printed
  replaced    \* has the ring been replaced since the tail began?

vars == <<ring, writer, rings, tail, replaced>>

Text == Writers \X (Nat \ {0})
Line == Seq(Text)

-----------------------------------------------------------------------------
(* Ring *)

Slots == 0 .. Capacity - 1

NewRing == [buf |-> [i \in Slots |-> << >>], head |-> 0, count |-> 0]

\* Mistake: the oldest slot is overwritten but stays the oldest (KeepsNewest).
AddInPlace(r, line) ==
  IF r.count < Capacity
  THEN [r EXCEPT !.buf[(r.head + r.count) % Capacity] = line, !.count = @ + 1]
  ELSE [r EXCEPT !.buf[r.head] = line]
Add(r, line) ==
  IF r.count < Capacity
  THEN [r EXCEPT !.buf[(r.head + r.count) % Capacity] = line, !.count = @ + 1]
  ELSE [r EXCEPT !.buf[r.head] = line, !.head = (r.head + 1) % Capacity]

Lines(r) == [i \in 1 .. r.count |-> r.buf[(r.head + i - 1) % Capacity]]

-----------------------------------------------------------------------------
(* Writer *)

Open(w) == writer[w].state \in {"open", "cut"}

HasLine(bytes) == \E i \in 1 .. Len(bytes) : bytes[i] = Newline

EndOfLine(bytes) ==
  CHOOSE i \in 1 .. Len(bytes) :
    bytes[i] = Newline /\ \A j \in 1 .. i - 1 : bytes[j] # Newline

\* A phase of the command (start, relaunch, teardown) takes a writer of its own.
NewWriter(w) ==
  /\ writer[w].state = "new"
  /\ writer' = [writer EXCEPT ![w].state = "open"]
  /\ UNCHANGED <<ring, rings, tail, replaced>>

Bytes(w, chunk) ==
  [i \in 1 .. Len(chunk) |->
     IF chunk[i] = "newline" THEN Newline ELSE <<w, Len(writer[w].given) + i>>]

\* The bytes join the pending ones.  If the file fails, Write reports it once
\* the ring has its lines, and os/exec reads no more of the command's output.
Write(w) == \E chunk \in Chunks, fileOK \in BOOLEAN :
  /\ writer[w].state = "open"
  /\ ~HasLine(writer[w].pending)
  /\ Len(writer[w].given) + Len(chunk) <= MaxBytes
  /\ writer' = [writer EXCEPT ![w].pending = @ \o Bytes(w, chunk),
                              ![w].given = @ \o Bytes(w, chunk),
                              ![w].state = IF fileOK THEN "open" ELSE "cut"]
  /\ UNCHANGED <<ring, rings, tail, replaced>>

\* Mistake: everything pending makes one line (LinesWhole).
WriteLineGreedy(w) ==
  /\ Open(w)
  /\ HasLine(writer[w].pending)
  /\ ring' = Add(ring, SelectSeq(writer[w].pending, LAMBDA b : b # Newline))
  /\ writer' = [writer EXCEPT ![w].pending = << >>]
  /\ UNCHANGED <<rings, tail, replaced>>

\* One turn of Write's loop: the first complete line goes to the ring.
WriteLine(w) ==
  /\ Open(w)
  /\ HasLine(writer[w].pending)
  /\ LET bytes == writer[w].pending
         end   == EndOfLine(bytes)
     IN  /\ ring' = Add(ring, SubSeq(bytes, 1, end - 1))
         /\ writer' = [writer EXCEPT
                         ![w].pending = SubSeq(bytes, end + 1, Len(bytes))]
  /\ UNCHANGED <<rings, tail, replaced>>

\* Mistake: the partial line is thrown away (NothingLost).
CloseUnflushed(w) ==
  /\ Open(w)
  /\ ~HasLine(writer[w].pending)
  /\ writer' = [writer EXCEPT ![w].state = "closed", ![w].pending = << >>]
  /\ UNCHANGED <<ring, rings, tail, replaced>>

\* The process ended: the partial line is flushed.
Close(w) ==
  /\ Open(w)
  /\ ~HasLine(writer[w].pending)
  /\ ring' = IF writer[w].pending = << >> THEN ring
             ELSE Add(ring, writer[w].pending)
  /\ writer' = [writer EXCEPT ![w].state = "closed", ![w].pending = << >>]
  /\ UNCHANGED <<rings, tail, replaced>>

\* acquireAndStart creates the command anew; writers of the old one are left
\* with a ring nobody reads.
Recreate ==
  /\ rings < MaxRings
  /\ rings' = rings + 1
  /\ ring' = NewRing
  /\ writer' = [w \in Writers |-> IF writer[w].state = "new" THEN writer[w]
                                  ELSE [writer[w] EXCEPT !.state = "gone"]]
  /\ replaced' = TRUE
  /\ UNCHANGED tail

-----------------------------------------------------------------------------
(* Tail *)

\* The answer to a Logs call: the lines of the ring, or none if it fails.
Answers == {Lines(ring)} \cup (IF LogsFail THEN {<< >>} ELSE {})

\* Mistakes: seenLines is not kept (PrintedInOrder); it counts one line too
\* many (PrintedPrefix).
FlushForgetful(final) ==
  /\ tail.state = "running"
  /\ \E lines \in Answers :
       tail' = IF tail.seen > Len(lines) THEN [tail EXCEPT !.state = "panicked"]
               ELSE [tail EXCEPT
                       !.printed = @ \o SubSeq(lines, tail.seen + 1, Len(lines)),
                       !.state = IF final THEN "done" ELSE @]
  /\ UNCHANGED <<ring, writer, rings, replaced>>
FlushSkipping(final) ==
  /\ tail.state = "running"
  /\ \E lines \in Answers :
       tail' = IF tail.seen > Len(lines) THEN [tail EXCEPT !.state = "panicked"]
               ELSE [tail EXCEPT
                       !.printed = @ \o SubSeq(lines, tail.seen + 1, Len(lines)),
                       !.seen = IF lines = << >> THEN 0 ELSE Len(lines) + 1,
                       !.state = IF final THEN "done" ELSE @]
  /\ UNCHANGED <<ring, writer, rings, replaced>>

\* One flush, on a tick or once the environment settled or the time is up
\* (final): lines[start:] panics when start is past the end.
Flush(final) ==
  /\ tail.state = "running"
  /\ \E lines \in Answers :
       tail' = IF tail.seen > Len(lines) THEN [tail EXCEPT !.state = "panicked"]
               ELSE [tail EXCEPT
                       !.printed = @ \o SubSeq(lines, tail.seen + 1, Len(lines)),
                       !.seen = Len(lines),
                       !.state = IF final THEN "done" ELSE @]
  /\ UNCHANGED <<ring, writer, rings, replaced>>

-----------------------------------------------------------------------------
Init ==
  /\ ring = NewRing
  /\ writer = [w \in Writers |-> [state |-> "new", pending |-> << >>, given |-> << >>]]
  /\ rings = 1
  /\ tail = [state |-> "running", seen |-> 0, printed |-> << >>]
  /\ replaced = FALSE

Next ==
  \/ \E w \in Writers : NewWriter(w) \/ Write(w) \/ WriteLine(w) \/ Close(w)
  \/ Recreate
  \/ \E final \in BOOLEAN : Flush(final)

Spec == Init /\ [][Next]_vars

-----------------------------------------------------------------------------
(* Properties *)

\* The state is well typed: head and count stay inside the buffer, whatever
\* was added.
TypeOK ==
  /\ ring \in [buf : [Slots -> Line], head : Slots, count : 0 .. Capacity]
  /\ writer \in [Writers -> [state : {"new", "open", "cut", "closed", "gone"},
                             pending : Seq(Text \cup {Newline}),
                             given : Seq(Text \cup {Newline})]]
  /\ rings \in Nat
  /\ tail \in [state : {"running", "done", "panicked"}, seen : 0 .. Capacity,
               printed : Seq(Line)]
  /\ replaced \in BOOLEAN

\* Readers always get the newest lines in the order they were added, as many
\* as fit: the ring implements the bounded log (Ring.Add, Ring.Lines).
Log == INSTANCE BoundedLog WITH log <- Lines(ring)
KeepsNewest == Log!Spec

\* A line is a stretch of one stream: the text of two writers, or of two lines
\* of one writer, never ends up in one line (Writer.pending).
Stretch(line) == \A i \in 1 .. Len(line) - 1 :
                   line[i + 1] = <<line[i][1], line[i][2] + 1>>
LinesWhole == \A i \in DOMAIN Lines(ring) : Stretch(Lines(ring)[i])

\* While the ring is not full, every piece of text a writer was given is in a
\* line or pending, and only an open writer has text pending (Writer.Close).
In(line, byte) == \E i \in DOMAIN line : line[i] = byte
NothingLost ==
  \A w \in Writers :
    /\ writer[w].state \in {"new", "closed"} => writer[w].pending = << >>
    /\ ring.count < Capacity /\ writer[w].state # "gone" =>
         \A n \in DOMAIN writer[w].given :
           LET byte == writer[w].given[n]
           IN  \/ byte = Newline
               \/ In(writer[w].pending, byte)
               \/ \E i \in DOMAIN Lines(ring) : In(Lines(ring)[i], byte)

\* The tail prints no line twice, and a writer's lines in their order
\* (tailStartupLogs: "writes new lines to out").
Before(line, later) ==
  (line # << >> /\ later # << >> /\ line[1][1] = later[1][1])
     => line[1][2] < later[1][2]
PrintedInOrder ==
  \A i, j \in DOMAIN tail.printed :
    i < j => Before(tail.printed[i], tail.printed[j])

\* As long as the ring is the one the tail began with and is not full, the
\* tail has printed it from its first line on, leaving nothing out.
PrintedPrefix ==
  (~replaced /\ ring.count < Capacity) =>
     /\ Len(tail.printed) = tail.seen
     /\ tail.seen <= ring.count
     /\ tail.printed = SubSeq(Lines(ring), 1, tail.seen)

\* What a writer was given comes out in whole lines, as long as the ring keeps it.
LinesKept == LinesWhole /\ NothingLost

\* What the tail prints is the log, in its order and with nothing printed twice.
TailFaithful == PrintedInOrder /\ PrintedPrefix

\* Said of the tail, and not so: "It stops when stopCh is closed or ctx is
\* done, performing a final flush in either case" (main.go:81).  It dies of
\* lines[start:] when the ring was replaced or a Logs call fails.
TailSurvives == tail.state # "panicked"

\* Said of the tail, and not so: it "writes new lines to out".  Once the ring
\* is full its length never changes, and no line is new again.
NewestPrinted == [][
  (tail'.state = "done" /\ tail.state = "running" /\ ~replaced /\ ring.count > 0)
     => \/ tail'.seen = 0
        \/ tail'.printed[Len(tail'.printed)] = Lines(ring)[ring.count]]_vars
=============================================================================
