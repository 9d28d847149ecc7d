--------------------------- MODULE LogRingProofs ---------------------------
(***************************************************************************)
(* Proofs about the log of a command, for every capacity and any number of *)
(* writers: it is well typed, readers always get its newest lines in order *)
(* (the ring implements BoundedLog), and a line is never torn or mixed.    *)
(***************************************************************************)
EXTENDS LogRing, SequenceTheorems, WellFoundedInduction, TLAPS

Ring == [buf : [Slots -> Line], head : Slots, count : 0 .. Capacity]

Byte == Text \cup {Newline}

-----------------------------------------------------------------------------
(* The arithmetic of the ring *)

LEMMA ModBelow ==
  ASSUME NEW c \in Nat \ {0}, NEW a \in Nat, a < c
  PROVE  a % c = a
  OBVIOUS

LEMMA ModAbove ==
  ASSUME NEW c \in Nat \ {0}, NEW a \in Nat, c <= a, a < 2 * c
  PROVE  a % c = a - c
  OBVIOUS

LEMMA ModInSlots ==
  ASSUME NEW a \in Nat
  PROVE  a % Capacity \in Slots
  BY RingAssumption DEF Slots

LEMMA NewRingIsRing == NewRing \in Ring
  BY RingAssumption DEF NewRing, Ring, Slots, Line

LEMMA AddIsRing ==
  ASSUME NEW r \in Ring, NEW line \in Line
  PROVE  Add(r, line) \in Ring
<1> DEFINE next == (r.head + r.count) % Capacity
<1>1. /\ r.buf \in [Slots -> Line] /\ r.head \in Slots /\ r.count \in 0 .. Capacity
      /\ r = [buf |-> r.buf, head |-> r.head, count |-> r.count]
  BY DEF Ring
<1>2. /\ next \in Slots
      /\ (r.head + 1) % Capacity \in Slots
  BY <1>1, RingAssumption, ModInSlots DEF Slots
<1>3. CASE r.count < Capacity
  <2>1. Add(r, line) = [buf |-> [r.buf EXCEPT ![next] = line], head |-> r.head,
                        count |-> r.count + 1]
    BY <1>1, <1>3 DEF Add
  <2>2. r.count + 1 \in 0 .. Capacity
    BY <1>1, <1>3, RingAssumption
  <2> QED
    BY <1>1, <1>2, <2>1, <2>2 DEF Ring
<1>4. CASE ~(r.count < Capacity)
  <2>1. Add(r, line) = [buf |-> [r.buf EXCEPT ![r.head] = line],
                        head |-> (r.head + 1) % Capacity, count |-> r.count]
    BY <1>1, <1>4 DEF Add
  <2> QED
    BY <1>1, <1>2, <2>1 DEF Ring
<1> QED
  BY <1>3, <1>4

LEMMA LinesAreLines ==
  ASSUME NEW r \in Ring
  PROVE  /\ Lines(r) \in Seq(Line)
         /\ Len(Lines(r)) = r.count
         /\ DOMAIN Lines(r) = 1 .. r.count
<1>1. /\ r.buf \in [Slots -> Line] /\ r.head \in Slots /\ r.count \in Nat
  BY RingAssumption DEF Ring
<1>2. \A i \in 1 .. r.count : r.buf[(r.head + i - 1) % Capacity] \in Line
  <2> TAKE i \in 1 .. r.count
  <2>1. r.head + i - 1 \in Nat
    BY <1>1, RingAssumption DEF Slots
  <2> QED
    BY <1>1, <2>1, ModInSlots
<1>3. Lines(r) \in [1 .. r.count -> Line]
  BY <1>2 DEF Lines
<1> QED
  BY <1>1, <1>3

\* What a reader gets after a line was added is what the log promises.
LEMMA LinesAfterAdd ==
  ASSUME NEW r \in Ring, NEW line \in Line
  PROVE  Lines(Add(r, line)) = Log!Newest(Append(Lines(r), line))
<1> DEFINE new == Add(r, line)
           next == (r.head + r.count) % Capacity
           before == Lines(r)
<1>1. /\ r.buf \in [Slots -> Line] /\ r.head \in 0 .. Capacity - 1
      /\ r.count \in 0 .. Capacity /\ Capacity \in Nat \ {0}
      /\ r = [buf |-> r.buf, head |-> r.head, count |-> r.count]
  BY RingAssumption DEF Ring, Slots
<1>2. /\ before \in Seq(Line) /\ Len(before) = r.count
      /\ new \in Ring
      /\ Lines(new) \in Seq(Line) /\ Len(Lines(new)) = new.count
  BY LinesAreLines, AddIsRing
<1>3. /\ Append(before, line) \in Seq(Line)
      /\ Len(Append(before, line)) = r.count + 1
  BY <1>1, <1>2
<1>4. CASE r.count < Capacity
  <2>1. /\ new.buf = [r.buf EXCEPT ![next] = line]
        /\ new.head = r.head /\ new.count = r.count + 1
    BY <1>1, <1>4 DEF Add
  <2>2. Log!Newest(Append(before, line)) = Append(before, line)
    BY <1>1, <1>3, <1>4 DEF Log!Newest
  <2>3. ASSUME NEW i \in 1 .. r.count + 1
        PROVE  Lines(new)[i] = Append(before, line)[i]
    <3> DEFINE at == (r.head + i - 1) % Capacity
    <3>1. Lines(new)[i] = new.buf[at]
      BY <2>1 DEF Lines
    <3>2. at \in Slots /\ next \in Slots
      <4>1. r.head + i - 1 \in Nat /\ r.head + r.count \in Nat
        BY <1>1
      <4> QED BY <4>1, ModInSlots
    <3>3. CASE i = r.count + 1
      <4>1. r.head + i - 1 = r.head + r.count
        BY <1>1, <3>3
      <4>2. new.buf[at] = line
        BY <4>1, <1>1, <2>1, <3>2
      <4> QED
        BY <3>1, <3>3, <4>2, <1>2
    <3>4. CASE i # r.count + 1
      <4>1. i \in 1 .. r.count
        BY <1>1, <3>4
      <4>2. at # next
        <5> DEFINE a == r.head + i - 1
                   b == r.head + r.count
        <5>1. /\ a \in Nat /\ b \in Nat /\ a < b /\ b - a < Capacity
              /\ a < 2 * Capacity /\ b < 2 * Capacity
          BY <1>1, <1>4, <4>1
        <5>2. a % Capacity = IF a < Capacity THEN a ELSE a - Capacity
          BY <5>1, <1>1, ModBelow, ModAbove
        <5>3. b % Capacity = IF b < Capacity THEN b ELSE b - Capacity
          BY <5>1, <1>1, ModBelow, ModAbove
        <5> HIDE DEF a, b
        <5>4. a % Capacity # b % Capacity
          BY <5>1, <5>2, <5>3, <1>1
        <5> QED BY <5>4 DEF a, b
      <4>3. new.buf[at] = r.buf[at]
        BY <4>2, <2>1, <1>1, <3>2
      <4>4. before[i] = r.buf[at]
        BY <4>1 DEF Lines
      <4> QED
        BY <3>1, <4>1, <4>3, <4>4, <1>2
    <3> QED BY <3>3, <3>4
  <2>4. Lines(new) = Append(before, line)
    <3> HIDE DEF new, before
    <3> QED
      BY <1>1, <1>2, <1>3, <2>1, <2>3, SeqEqual, Zenon
  <2> QED
    BY <2>2, <2>4
<1>5. CASE ~(r.count < Capacity)
  <2> DEFINE after == Append(before, line)
  <2>1. /\ new.buf = [r.buf EXCEPT ![r.head] = line]
        /\ new.head = (r.head + 1) % Capacity
        /\ new.count = Capacity /\ r.count = Capacity
    BY <1>1, <1>5 DEF Add
  <2>2. Log!Newest(after) = SubSeq(after, 2, Capacity + 1)
    <3>1. ~(Len(after) <= Capacity) /\ Len(after) - Capacity + 1 = 2
          /\ Len(after) = Capacity + 1
      BY <1>1, <1>3, <2>1
    <3> HIDE DEF after
    <3> QED BY <3>1 DEF Log!Newest
  <2>3. ASSUME NEW i \in 1 .. Capacity
        PROVE  Lines(new)[i] = after[i + 1]
    <3> DEFINE at == (((r.head + 1) % Capacity) + i - 1) % Capacity
    <3>1. Lines(new)[i] = new.buf[at]
      BY <2>1 DEF Lines
    <3>2. at \in Slots /\ at = (r.head + i) % Capacity
      <4> DEFINE h == r.head + 1
      <4>1. h \in Nat /\ h <= Capacity
        BY <1>1
      <4>2. h % Capacity = IF h < Capacity THEN h ELSE 0
        BY <4>1, <1>1, ModBelow, ModAbove
      <4>3. CASE h < Capacity
        <5>1. (h % Capacity) + i - 1 = r.head + i /\ r.head + i \in Nat
          BY <4>2, <4>3, <1>1
        <5> QED BY <5>1, ModInSlots
      <4>4. CASE ~(h < Capacity)
        <5>1. (h % Capacity) + i - 1 = i - 1 /\ i - 1 \in Nat /\ i - 1 < Capacity
          BY <4>2, <4>4, <1>1
        <5>2. r.head + i = Capacity + i - 1
          BY <4>1, <4>4, <1>1
        <5>3. (i - 1) % Capacity = i - 1
          BY <5>1, <1>1, ModBelow
        <5>4. (Capacity + i - 1) % Capacity = i - 1
          <6>1. Capacity + i - 1 \in Nat /\ Capacity <= Capacity + i - 1
                /\ Capacity + i - 1 < 2 * Capacity
            BY <5>1, <1>1
          <6>2. (Capacity + i - 1) % Capacity = (Capacity + i - 1) - Capacity
            BY <6>1, <1>1, ModAbove
          <6> QED BY <6>2, <5>1, <1>1
        <5> QED BY <5>1, <5>2, <5>3, <5>4, ModInSlots
      <4> QED BY <4>3, <4>4
    <3>3. CASE i = Capacity
      <4>1. (r.head + i) % Capacity = r.head
        <5>1. r.head + i \in Nat /\ Capacity <= r.head + i /\ r.head + i < 2 * Capacity
          BY <1>1, <3>3
        <5>2. (r.head + i) % Capacity = (r.head + i) - Capacity
          BY <5>1, <1>1, ModAbove
        <5> QED BY <5>2, <3>3, <1>1
      <4>2. new.buf[at] = line
        BY <4>1, <3>2, <2>1, <1>1
      <4>3. after[i + 1] = line
        BY <3>3, <1>2, <2>1, <1>1
      <4> QED BY <3>1, <4>2, <4>3
    <3>4. CASE i # Capacity
      <4>1. (r.head + i) % Capacity # r.head
        <5>1. r.head + i \in Nat /\ r.head + i < 2 * Capacity /\ i >= 1 /\ i < Capacity
          BY <1>1, <3>4
        <5>2. (r.head + i) % Capacity =
                IF r.head + i < Capacity THEN r.head + i ELSE (r.head + i) - Capacity
          BY <5>1, <1>1, ModBelow, ModAbove
        <5> QED BY <5>1, <5>2, <1>1
      <4>2. new.buf[at] = r.buf[at]
        BY <4>1, <3>2, <2>1, <1>1
      <4>3. i + 1 \in 1 .. r.count /\ r.head + (i + 1) - 1 = r.head + i
        BY <3>4, <2>1, <1>1
      <4>4. before[i + 1] = r.buf[at]
        BY <4>3, <3>2 DEF Lines
      <4>5. after[i + 1] = before[i + 1]
        BY <4>3, <1>2
      <4> QED BY <3>1, <4>2, <4>4, <4>5
    <3> QED BY <3>3, <3>4
  <2>4. /\ SubSeq(after, 2, Capacity + 1) \in Seq(Line)
        /\ Len(SubSeq(after, 2, Capacity + 1)) = Capacity
        /\ \A i \in 1 .. Capacity : SubSeq(after, 2, Capacity + 1)[i] = after[i + 1]
    <3>1. after \in Seq(Line) /\ Len(after) = Capacity + 1
      BY <1>1, <1>3, <2>1
    <3> HIDE DEF after
    <3> QED BY <3>1, <1>1, SubSeqProperties
  <2>5. Lines(new) = SubSeq(after, 2, Capacity + 1)
    <3> HIDE DEF new, after
    <3>1. \A i \in 1 .. Capacity : Lines(new)[i] = SubSeq(after, 2, Capacity + 1)[i]
      BY <2>3, <2>4
    <3> QED BY <1>2, <2>1, <2>4, <3>1, SeqEqual, Zenon
  <2> QED
    BY <2>2, <2>5
<1> QED
  BY <1>4, <1>5

-----------------------------------------------------------------------------
(* The inductive invariant *)

Given(w) == writer[w].given
Pending(w) == writer[w].pending

\* How many bytes of its stream a writer has done with.
Passed(w) == Len(Given(w)) - Len(Pending(w))

\* A byte carries the place it has in its stream.
GivenByPlace == \A w \in Writers : \A n \in 1 .. Len(Given(w)) :
                  Given(w)[n] \in {Newline, <<w, n>>}

\* What is pending is the end of the stream.
PendingIsEnd == \A w \in Writers :
  /\ Len(Pending(w)) <= Len(Given(w))
  /\ \A i \in 1 .. Len(Pending(w)) : Pending(w)[i] = Given(w)[Passed(w) + i]

Flushed == \A w \in Writers :
  /\ writer[w].state \in {"new", "closed"} => Pending(w) = << >>
  /\ writer[w].state = "new" => Given(w) = << >>

\* What was passed on is in the ring, until the ring is full.
PassedInRing == \A w \in Writers :
  (ring.count < Capacity /\ writer[w].state # "gone") =>
     \A n \in 1 .. Passed(w) :
       \/ Given(w)[n] = Newline
       \/ \E i \in 1 .. ring.count : In(Lines(ring)[i], Given(w)[n])

SlotsWhole == \A i \in Slots : Stretch(ring.buf[i])

\* A line that was passed on starts in the part of its stream passed on.
Past(line, wr) == line # << >> =>
  line[1][2] <= Len(wr[line[1][1]].given) - Len(wr[line[1][1]].pending)
LinesPast ==
  /\ \A i \in 1 .. ring.count : Past(Lines(ring)[i], writer)
  /\ \A i \in 1 .. Len(tail.printed) : Past(tail.printed[i], writer)

RingInOrder == \A i, j \in 1 .. ring.count :
  i < j => Before(Lines(ring)[i], Lines(ring)[j])

\* What the tail has yet to print comes after what it printed.
UnseenIsLater ==
  \A i \in 1 .. Len(tail.printed), j \in tail.seen + 1 .. ring.count :
    Before(tail.printed[i], Lines(ring)[j])

IInv == /\ TypeOK /\ GivenByPlace /\ PendingIsEnd /\ Flushed /\ PassedInRing
        /\ SlotsWhole /\ LinesPast /\ RingInOrder /\ UnseenIsLater
        /\ PrintedInOrder /\ PrintedPrefix

-----------------------------------------------------------------------------
(* A line leaves a writer for the ring *)

\* What Add does to what readers get.
LEMMA LinesStep ==
  ASSUME NEW r \in Ring, NEW line \in Line
  PROVE  LET new == Add(r, line)
             d   == IF r.count < Capacity THEN 0 ELSE 1
         IN
         /\ new \in Ring
         /\ new.count = r.count + 1 - d
         /\ new.count >= 1
         /\ Lines(new)[new.count] = line
         /\ \A j \in 1 .. new.count - 1 :
              j + d \in 1 .. r.count /\ Lines(new)[j] = Lines(r)[j + d]
<1> DEFINE after == Append(Lines(r), line)
           new == Add(r, line)
           d == IF r.count < Capacity THEN 0 ELSE 1
<1>1. /\ new \in Ring /\ r.count \in 0 .. Capacity /\ Capacity \in Nat \ {0}
      /\ Lines(r) \in Seq(Line) /\ Len(Lines(r)) = r.count
      /\ Lines(new) \in Seq(Line) /\ Len(Lines(new)) = new.count
  BY AddIsRing, LinesAreLines, RingAssumption DEF Ring
<1>2. /\ after \in Seq(Line) /\ Len(after) = r.count + 1
      /\ after[r.count + 1] = line
      /\ \A j \in 1 .. r.count : after[j] = Lines(r)[j]
  BY <1>1, AppendProperties
<1>3. Lines(new) = Log!Newest(after)
  BY LinesAfterAdd
<1> HIDE DEF after
<1>4. CASE r.count < Capacity
  <2>1. Lines(new) = after
    BY <1>1, <1>2, <1>3, <1>4 DEF Log!Newest
  <2> QED
    BY <1>1, <1>2, <1>4, <2>1
<1>5. CASE ~(r.count < Capacity)
  <2>1. Lines(new) = SubSeq(after, 2, Capacity + 1)
    <3>1. ~(Len(after) <= Capacity) /\ Len(after) - Capacity + 1 = 2
          /\ Len(after) = Capacity + 1
      BY <1>1, <1>2, <1>5
    <3> QED BY <3>1, <1>3 DEF Log!Newest
  <2>2. /\ Len(SubSeq(after, 2, Capacity + 1)) = Capacity
        /\ \A i \in 1 .. Capacity :
             SubSeq(after, 2, Capacity + 1)[i] = after[i + 1]
    <3> QED BY <1>1, <1>2, <1>5, SubSeqProperties
  <2>3. r.count = Capacity /\ new.count = Capacity
    BY <1>1, <1>5, <2>1, <2>2
  <2>4. Lines(new)[Capacity] = line
    BY <1>1, <1>2, <2>1, <2>2, <2>3
  <2>5. ASSUME NEW j \in 1 .. Capacity - 1
        PROVE  j + 1 \in 1 .. r.count /\ Lines(new)[j] = Lines(r)[j + 1]
    BY <1>1, <1>2, <2>1, <2>2, <2>3
  <2> QED
    BY <1>1, <1>5, <2>3, <2>4, <2>5
<1> QED
  BY <1>4, <1>5

\* The slots of the ring hold what they held, or the new line.
LEMMA SlotsStep ==
  ASSUME NEW r \in Ring, NEW line \in Line, NEW i \in Slots
  PROVE  Add(r, line).buf[i] \in {r.buf[i], line}
<1>1. r.buf \in [Slots -> Line]
      /\ r = [buf |-> r.buf, head |-> r.head, count |-> r.count]
  BY DEF Ring
<1> QED
  BY <1>1 DEF Add

\* The text at the start of what is pending is a stretch of the stream.
LEMMA TakenLine ==
  ASSUME IInv, NEW w \in Writers, NEW k \in 0 .. Len(Pending(w)),
         \A i \in 1 .. k : Pending(w)[i] # Newline
  PROVE  /\ SubSeq(Pending(w), 1, k) \in Line
         /\ Len(SubSeq(Pending(w), 1, k)) = k
         /\ \A i \in 1 .. k :
              /\ SubSeq(Pending(w), 1, k)[i] = Pending(w)[i]
              /\ SubSeq(Pending(w), 1, k)[i] = <<w, Passed(w) + i>>
         /\ Stretch(SubSeq(Pending(w), 1, k))
<1> DEFINE line == SubSeq(Pending(w), 1, k)
<1>1. /\ Pending(w) \in Seq(Byte) /\ Given(w) \in Seq(Byte)
      /\ Len(Pending(w)) \in Nat /\ Len(Given(w)) \in Nat
      /\ Len(Pending(w)) <= Len(Given(w))
  BY DEF IInv, TypeOK, PendingIsEnd, Pending, Given, Byte
<1>2. /\ line \in Seq(Byte) /\ Len(line) = k
      /\ \A i \in 1 .. k : line[i] = Pending(w)[i]
  <2>1. k \in Nat /\ \A i \in 1 .. k : Pending(w)[i] \in Byte
    BY <1>1
  <2>2. /\ SubSeq(Pending(w), 1, k) \in Seq(Byte)
        /\ Len(SubSeq(Pending(w), 1, k)) = IF 1 <= k THEN k - 1 + 1 ELSE 0
        /\ \A i \in 1 .. k - 1 + 1 :
             SubSeq(Pending(w), 1, k)[i] = Pending(w)[1 + i - 1]
    BY <2>1, SubSeqProperties
  <2> QED BY <2>1, <2>2
<1> HIDE DEF line
<1>3. ASSUME NEW i \in 1 .. k
      PROVE  line[i] = <<w, Passed(w) + i>> /\ line[i] \in Text
  <2>1. i \in 1 .. Len(Pending(w)) /\ Passed(w) + i \in 1 .. Len(Given(w))
    BY <1>1 DEF Passed
  <2>2. Pending(w)[i] \in {Newline, <<w, Passed(w) + i>>}
    BY <2>1 DEF IInv, PendingIsEnd, GivenByPlace
  <2>3. line[i] = <<w, Passed(w) + i>>
    BY <2>2, <1>2
  <2>4. Passed(w) + i \in Nat \ {0}
    BY <2>1, <1>1
  <2>5. <<w, Passed(w) + i>> \in Text
    BY <2>4 DEF Text
  <2> QED BY <2>3, <2>5
<1>4. line \in Line
  BY <1>2, <1>3 DEF Line
<1>5. Stretch(line)
  BY <1>2, <1>3, <1>1 DEF Stretch, Passed
<1> QED
  BY <1>2, <1>3, <1>4, <1>5 DEF line

\* Consequences of the types, in the form the steps below use.
LEMMA RingFacts ==
  ASSUME TypeOK
  PROVE  /\ ring \in Ring
         /\ ring.count \in 0 .. Capacity
         /\ Capacity \in Nat \ {0}
         /\ Lines(ring) \in Seq(Line)
         /\ Len(Lines(ring)) = ring.count
         /\ \A i \in 1 .. ring.count : Lines(ring)[i] \in Line
         /\ tail.seen \in Nat
         /\ tail.printed \in Seq(Line)
         /\ \A i \in 1 .. Len(tail.printed) : tail.printed[i] \in Line
<1>1. ring \in Ring
  BY DEF TypeOK, Ring
<1>2. /\ Lines(ring) \in Seq(Line) /\ Len(Lines(ring)) = ring.count
      /\ ring.count \in 0 .. Capacity /\ Capacity \in Nat \ {0}
  BY <1>1, LinesAreLines, RingAssumption DEF Ring
<1>3. tail.seen \in Nat /\ tail.printed \in Seq(Line)
  BY <1>2 DEF TypeOK
<1> QED
  BY <1>1, <1>2, <1>3

LEMMA WriterFacts ==
  ASSUME TypeOK, NEW w \in Writers
  PROVE  /\ Given(w) \in Seq(Byte) /\ Pending(w) \in Seq(Byte)
         /\ Len(Given(w)) \in Nat /\ Len(Pending(w)) \in Nat
         /\ Passed(w) \in Int
  BY DEF TypeOK, Given, Pending, Passed, Byte

\* Whatever was passed on comes before the line the writer passes on next.
LEMMA PastIsBefore ==
  ASSUME NEW w \in Writers, Passed(w) \in Int,
         NEW line \in Line, line # << >> => line[1] = <<w, Passed(w) + 1>>,
         NEW old \in Line, Past(old, writer)
  PROVE  Before(old, line)
<1> SUFFICES ASSUME old # << >>, line # << >>, old[1][1] = line[1][1]
             PROVE  old[1][2] < line[1][2]
  BY DEF Before
<1>1. old[1] \in Text
  BY DEF Line
<1>2. old[1][2] \in Nat /\ old[1][1] = w /\ line[1][2] = Passed(w) + 1
  BY <1>1 DEF Text
<1>3. old[1][2] <= Passed(w)
  BY <1>2 DEF Past, Passed, Given, Pending
<1> QED
  BY <1>2, <1>3

LEMMA TakenStep ==
  ASSUME IInv, NEW w \in Writers, Open(w),
         NEW k \in 0 .. Len(Pending(w)), NEW m \in k .. Len(Pending(w)),
         \A i \in 1 .. k : Pending(w)[i] # Newline,
         \A i \in k + 1 .. m : Pending(w)[i] = Newline,
         NEW line, line = SubSeq(Pending(w), 1, k),
         NEW st \in {"open", "cut", "closed"},
         st = "closed" => m = Len(Pending(w)),
         ring' = Add(ring, line),
         writer' = [writer EXCEPT
                      ![w] = [state |-> st, given |-> Given(w),
                              pending |-> SubSeq(Pending(w), m + 1, Len(Pending(w)))]],
         rings' \in Nat, UNCHANGED <<tail, replaced>>
  PROVE  IInv'
<1> DEFINE d == IF ring.count < Capacity THEN 0 ELSE 1
<1>1. /\ line \in Line /\ Len(line) = k /\ Stretch(line)
      /\ \A i \in 1 .. k : line[i] = Pending(w)[i] /\ line[i] = <<w, Passed(w) + i>>
  BY TakenLine
<1>2. /\ ring' \in Ring
      /\ ring'.count = ring.count + 1 - d
      /\ ring'.count >= 1
      /\ Lines(ring)'[ring'.count] = line
      /\ \A j \in 1 .. ring'.count - 1 :
           j + d \in 1 .. ring.count /\ Lines(ring)'[j] = Lines(ring)[j + d]
  <2>1. ring \in Ring
    BY RingFacts DEF IInv
  <2>2. /\ ring' \in Ring
        /\ ring'.count = ring.count + 1 - d
        /\ ring'.count >= 1
        /\ Lines(ring')[ring'.count] = line
        /\ \A j \in 1 .. ring'.count - 1 :
             j + d \in 1 .. ring.count /\ Lines(ring')[j] = Lines(ring)[j + d]
    BY <1>1, <2>1, LinesStep, Zenon
  <2> QED BY <2>2 DEF Lines
<1>3. d \in {0, 1} /\ (ring.count < Capacity <=> d = 0)
  OBVIOUS
<1>4. /\ Given(w)' = Given(w)
      /\ Pending(w)' \in Seq(Byte)
      /\ Len(Pending(w)') = Len(Pending(w)) - m
      /\ \A i \in 1 .. Len(Pending(w)) - m : Pending(w)'[i] = Pending(w)[m + i]
      /\ writer'[w].state = st
  <2>1. /\ Given(w)' = Given(w) /\ writer'[w].state = st
        /\ Pending(w)' = SubSeq(Pending(w), m + 1, Len(Pending(w)))
    BY DEF IInv, TypeOK, Given, Pending
  <2>2. /\ Pending(w) \in Seq(Byte) /\ Len(Pending(w)) \in Nat
    BY WriterFacts DEF IInv
  <2> HIDE DEF d
  <2> QED BY <2>1, <2>2, SubSeqProperties
<1>5. \A v \in Writers \ {w} : /\ Given(v)' = Given(v) /\ Pending(v)' = Pending(v)
                               /\ writer'[v].state = writer[v].state
  BY DEF IInv, TypeOK, Given, Pending
<1>6. /\ Passed(w)' = Passed(w) + m
      /\ \A v \in Writers \ {w} : Passed(v)' = Passed(v)
      /\ \A v \in Writers : Passed(v) \in Int
  <2>1. Passed(w)' = Len(Given(w)') - Len(Pending(w)')
    BY DEF Passed
  <2>2. /\ Len(Given(w)) \in Nat /\ Len(Pending(w)) \in Nat /\ m \in Int
    BY WriterFacts DEF IInv
  <2>3. Passed(w)' = Passed(w) + m
    BY <2>1, <2>2, <1>4 DEF Passed
  <2>4. \A v \in Writers \ {w} : Passed(v)' = Passed(v)
    BY <1>5 DEF Passed
  <2> QED BY <2>3, <2>4, WriterFacts DEF IInv
<1>7. k \in Nat /\ m \in Nat /\ k <= m
  BY WriterFacts DEF IInv
<1> HIDE DEF d
<1>8. TypeOK'
  <2>1. writer' \in [Writers -> [state : {"new", "open", "cut", "closed", "gone"},
                                 pending : Seq(Byte), given : Seq(Byte)]]
    <3>1. SubSeq(Pending(w), m + 1, Len(Pending(w))) \in Seq(Byte)
      BY <1>4 DEF IInv, TypeOK, Pending
    <3> QED BY <3>1, WriterFacts DEF IInv, TypeOK, Byte
  <2> QED BY <2>1, <1>2 DEF IInv, TypeOK, Ring, Byte
<1>9. GivenByPlace'
  BY <1>4, <1>5 DEF IInv, GivenByPlace
<1>10. PendingIsEnd'
  <2>1. /\ Len(Pending(w)') <= Len(Given(w)')
        /\ \A i \in 1 .. Len(Pending(w)') : Pending(w)'[i] = Given(w)'[Passed(w)' + i]
    <3>1. Len(Pending(w)) \in Nat /\ Len(Given(w)) \in Nat
      BY WriterFacts DEF IInv
    <3>2. Len(Pending(w)) <= Len(Given(w))
      BY DEF IInv, PendingIsEnd
    <3>3. ASSUME NEW i \in 1 .. Len(Pending(w)')
          PROVE  Pending(w)'[i] = Given(w)'[Passed(w)' + i]
      <4>1. m + i \in 1 .. Len(Pending(w)) /\ i \in 1 .. Len(Pending(w)) - m
        BY <1>4, <1>7, <3>1
      <4>2. Pending(w)'[i] = Given(w)[Passed(w) + (m + i)]
        BY <1>4, <4>1 DEF IInv, PendingIsEnd
      <4>3. Passed(w) + (m + i) = Passed(w)' + i
        BY <1>6, <1>7
      <4> QED BY <4>2, <4>3, <1>4
    <3>4. Len(Pending(w)') <= Len(Given(w)')
      BY <1>4, <1>7, <3>1, <3>2
    <3> QED BY <3>3, <3>4
  <2>2. ASSUME NEW v \in Writers \ {w}
        PROVE  /\ Len(Pending(v)') <= Len(Given(v)')
               /\ \A i \in 1 .. Len(Pending(v)') :
                    Pending(v)'[i] = Given(v)'[Passed(v)' + i]
    BY <1>5, <1>6 DEF IInv, PendingIsEnd
  <2> QED BY <2>1, <2>2 DEF PendingIsEnd
<1>11. Flushed'
  <2>1. st = "closed" => Pending(w)' = << >>
    BY <1>4, WriterFacts DEF IInv
  <2> QED BY <2>1, <1>4, <1>5 DEF IInv, Flushed
<1>12. PassedInRing'
  <2> SUFFICES ASSUME NEW v \in Writers, ring'.count < Capacity,
                      writer'[v].state # "gone", NEW n \in 1 .. Passed(v)'
               PROVE  \/ Given(v)'[n] = Newline
                      \/ \E i \in 1 .. ring'.count : In(Lines(ring)'[i], Given(v)'[n])
    BY DEF PassedInRing
  <2>1. ring.count < Capacity /\ d = 0
    BY <1>2, <1>3, RingFacts DEF IInv
  <2>2. writer[v].state # "gone"
    BY <1>5 DEF Open
  <2>3. \A i \in 1 .. ring.count : i \in 1 .. ring'.count /\ Lines(ring)'[i] = Lines(ring)[i]
    BY <1>2, <2>1, RingFacts DEF IInv
  <2>4. CASE n \in 1 .. Passed(v)
    <3>1. \/ Given(v)[n] = Newline
          \/ \E i \in 1 .. ring.count : In(Lines(ring)[i], Given(v)[n])
      BY <2>1, <2>2, <2>4 DEF IInv, PassedInRing
    <3> QED BY <3>1, <2>3, <1>4, <1>5
  <2>5. CASE n \notin 1 .. Passed(v)
    <3>1. v = w
      BY <2>5, <1>6
    <3>2. n - Passed(w) \in 1 .. m /\ n = Passed(w) + (n - Passed(w))
      BY <3>1, <2>5, <1>6, <1>7
    <3>3. n - Passed(w) \in 1 .. Len(Pending(w))
      BY <3>2, WriterFacts DEF IInv
    <3>4. Given(w)[n] = Pending(w)[n - Passed(w)]
      BY <3>2, <3>3 DEF IInv, PendingIsEnd
    <3>5. CASE n - Passed(w) \in 1 .. k
      <4>1. In(line, Given(w)[n])
        BY <3>4, <3>5, <1>1 DEF In, Line
      <4>2. ring'.count \in 1 .. ring'.count
        BY <1>2, <2>1, RingFacts DEF IInv
      <4> QED BY <4>1, <4>2, <1>2, <1>4, <3>1
    <3>6. CASE n - Passed(w) \in k + 1 .. m
      BY <3>1, <3>4, <3>6, <1>4
    <3> QED BY <3>2, <3>5, <3>6, <1>7
  <2> QED BY <2>4, <2>5
<1>13. SlotsWhole'
  BY <1>1, SlotsStep, RingFacts DEF IInv, SlotsWhole
<1>14. \A old \in Line : Past(old, writer) => Before(old, line) /\ Past(old, writer')
  <2> SUFFICES ASSUME NEW old \in Line, Past(old, writer)
               PROVE  Before(old, line) /\ Past(old, writer')
    OBVIOUS
  <2>1. line # << >> => line[1] = <<w, Passed(w) + 1>>
    BY <1>1, <1>7 DEF Line
  <2>2. Before(old, line)
    BY <2>1, <1>1, <1>6, PastIsBefore
  <2>3. ASSUME old # << >>
        PROVE  old[1][2] <= Passed(old[1][1])'
    <3>1. old[1] \in Text
      BY <2>3 DEF Line
    <3>2. old[1][1] \in Writers /\ old[1][2] \in Nat
      BY <3>1 DEF Text
    <3>3. old[1][2] <= Passed(old[1][1])
      BY <2>3 DEF Past, Passed, Given, Pending
    <3> QED BY <3>2, <3>3, <1>6, <1>7
  <2> QED BY <2>2, <2>3 DEF Past, Passed, Given, Pending
<1>15. Past(line, writer')
  <2>1. ASSUME line # << >> PROVE line[1][2] <= Passed(line[1][1])'
    <3>1. 1 \in 1 .. k
      BY <2>1, <1>1, <1>7 DEF Line
    <3>2. line[1] = <<w, Passed(w) + 1>>
      BY <3>1, <1>1
    <3> QED BY <3>1, <3>2, <1>6, <1>7
  <2> QED BY <2>1 DEF Past, Passed, Given, Pending
<1>16. \A j \in 1 .. ring'.count :
         \/ j = ring'.count /\ Lines(ring)'[j] = line
         \/ /\ j < ring'.count /\ j + d \in 1 .. ring.count
            /\ Lines(ring)'[j] = Lines(ring)[j + d]
  <2>1. ring'.count \in Nat
    BY <1>2, RingAssumption DEF Ring
  <2> QED BY <2>1, <1>2
<1>17. \A j \in 1 .. ring.count : Lines(ring)[j] \in Line /\ Past(Lines(ring)[j], writer)
  BY RingFacts DEF IInv, LinesPast
<1>18. LinesPast'
  <2>1. \A j \in 1 .. ring'.count : Past(Lines(ring)'[j], writer')
    BY <1>14, <1>15, <1>16, <1>17
  <2>2. \A i \in 1 .. Len(tail.printed) : Past(tail.printed[i], writer')
    BY <1>14, RingFacts DEF IInv, LinesPast
  <2> QED BY <2>1, <2>2 DEF LinesPast
<1>19. RingInOrder'
  <2> SUFFICES ASSUME NEW i \in 1 .. ring'.count, NEW j \in 1 .. ring'.count, i < j
               PROVE  Before(Lines(ring)'[i], Lines(ring)'[j])
    BY DEF RingInOrder
  <2>1. /\ i < ring'.count /\ i + d \in 1 .. ring.count
        /\ Lines(ring)'[i] = Lines(ring)[i + d]
    <3>1. ring'.count \in Nat
      BY <1>2, RingAssumption DEF Ring
    <3>2. i # ring'.count
      BY <3>1
    <3> QED BY <3>2, <1>16
  <2>2. CASE j = ring'.count /\ Lines(ring)'[j] = line
    BY <2>1, <2>2, <1>14, <1>17
  <2>3. CASE /\ j < ring'.count /\ j + d \in 1 .. ring.count
             /\ Lines(ring)'[j] = Lines(ring)[j + d]
    <3>1. i + d < j + d
      BY <1>3
    <3> QED BY <3>1, <2>1, <2>3 DEF IInv, RingInOrder
  <2> QED BY <2>2, <2>3, <1>16
<1>20. UnseenIsLater'
  <2> SUFFICES ASSUME NEW i \in 1 .. Len(tail.printed),
                      NEW j \in tail.seen + 1 .. ring'.count
               PROVE  Before(tail.printed[i], Lines(ring)'[j])
    BY DEF UnseenIsLater
  <2>1. j \in 1 .. ring'.count
    BY RingFacts DEF IInv
  <2>2. CASE j = ring'.count /\ Lines(ring)'[j] = line
    BY <2>2, <1>14, RingFacts DEF IInv, LinesPast
  <2>3. CASE /\ j < ring'.count /\ j + d \in 1 .. ring.count
             /\ Lines(ring)'[j] = Lines(ring)[j + d]
    <3>1. j + d \in tail.seen + 1 .. ring.count
      BY <2>3, <1>3, RingFacts DEF IInv
    <3> QED BY <3>1, <2>3 DEF IInv, UnseenIsLater
  <2> QED BY <2>1, <2>2, <2>3, <1>16
<1>21. PrintedInOrder'
  BY DEF IInv, PrintedInOrder
<1>22. PrintedPrefix'
  <2> SUFFICES ASSUME ~replaced, ring'.count < Capacity
               PROVE  /\ Len(tail.printed) = tail.seen
                      /\ tail.seen <= ring'.count
                      /\ tail.printed = SubSeq(Lines(ring)', 1, tail.seen)
    BY DEF PrintedPrefix
  <2>1. ring.count < Capacity /\ d = 0 /\ ring'.count = ring.count + 1
    BY <1>2, <1>3, RingFacts DEF IInv
  <2>2. /\ Len(tail.printed) = tail.seen
        /\ tail.seen <= ring.count
        /\ tail.printed = SubSeq(Lines(ring), 1, tail.seen)
    BY <2>1 DEF IInv, PrintedPrefix
  <2>3. ASSUME NEW j \in 1 .. tail.seen
        PROVE  Lines(ring)'[j] = Lines(ring)[j] /\ Lines(ring)[j] \in Line
    <3>1. j \in 1 .. ring.count /\ j \in 1 .. ring'.count - 1 /\ j + d = j
      BY <2>1, <2>2, RingFacts DEF IInv
    <3> QED BY <3>1, <1>2, RingFacts DEF IInv
  <2>4. SubSeq(Lines(ring)', 1, tail.seen) = SubSeq(Lines(ring), 1, tail.seen)
    BY <2>3, RingFacts DEF IInv
  <2> QED BY <2>1, <2>2, <2>4, RingFacts DEF IInv
<1> QED
  BY <1>8, <1>9, <1>10, <1>11, <1>12, <1>13, <1>18, <1>19, <1>20, <1>21, <1>22 DEF IInv

-----------------------------------------------------------------------------
(* The steps *)

\* Where there is a newline there is a first one.
LEMMA EndOfLineIsFirst ==
  ASSUME NEW bytes \in Seq(Byte), HasLine(bytes)
  PROVE  /\ EndOfLine(bytes) \in 1 .. Len(bytes)
         /\ bytes[EndOfLine(bytes)] = Newline
         /\ \A j \in 1 .. EndOfLine(bytes) - 1 : bytes[j] # Newline
<1> DEFINE ends == {i \in 1 .. Len(bytes) : bytes[i] = Newline}
<1>1. ends \subseteq Nat /\ ends # {}
  BY DEF HasLine
<1>2. PICK first \in ends : \A j \in ends : ~(<<j, first>> \in OpToRel(<, Nat))
  BY <1>1, NatLessThanWellFounded, WFMin
<1>3. first \in 1 .. Len(bytes) /\ bytes[first] = Newline
  OBVIOUS
<1>4. ASSUME NEW j \in 1 .. first - 1 PROVE bytes[j] # Newline
  <2>1. j \in 1 .. Len(bytes) /\ j < first /\ j \in Nat /\ first \in Nat
    BY <1>3
  <2>2. <<j, first>> \in OpToRel(<, Nat)
    BY <2>1 DEF OpToRel
  <2> QED BY <1>2, <2>1, <2>2
<1> QED
  BY <1>3, <1>4 DEF EndOfLine

LEMMA InitInv == ASSUME Init PROVE IInv
<1>1. ring \in Ring /\ ring.count = 0 /\ \A i \in Slots : ring.buf[i] = << >>
  BY NewRingIsRing DEF Init, NewRing
<1>2. TypeOK
  <2>1. << >> \in Seq(Byte) /\ << >> \in Seq(Line) /\ 0 \in 0 .. Capacity
    BY RingAssumption
  <2>2. writer \in [Writers -> [state : {"new", "open", "cut", "closed", "gone"},
                                pending : Seq(Byte), given : Seq(Byte)]]
    BY <2>1 DEF Init
  <2>3. tail \in [state : {"running", "done", "panicked"}, seen : 0 .. Capacity,
                  printed : Seq(Line)]
    BY <2>1 DEF Init
  <2> QED BY <1>1, <2>2, <2>3 DEF Init, TypeOK, Ring, Byte
<1>3. \A w \in Writers : Given(w) = << >> /\ Pending(w) = << >>
  BY DEF Init, Given, Pending
<1>4. GivenByPlace /\ PendingIsEnd /\ Flushed /\ PassedInRing
  BY <1>3 DEF GivenByPlace, PendingIsEnd, Flushed, PassedInRing, Passed
<1>5. SlotsWhole
  BY <1>1 DEF SlotsWhole, Stretch
<1>6. tail.seen = 0 /\ tail.printed = << >>
  BY DEF Init
<1>7. LinesPast /\ RingInOrder /\ UnseenIsLater /\ PrintedInOrder
  BY <1>1, <1>6 DEF LinesPast, RingInOrder, UnseenIsLater, PrintedInOrder
<1>8. PrintedPrefix
  <2>1. SubSeq(Lines(ring), 1, 0) = << >>
    BY RingFacts, <1>2
  <2> QED BY <1>1, <1>6, <2>1 DEF PrintedPrefix
<1> QED
  BY <1>2, <1>4, <1>5, <1>7, <1>8 DEF IInv

\* Only the state of a writer changes: it is opened, or closed with nothing
\* pending.
LEMMA StateStep ==
  ASSUME IInv, NEW w \in Writers, writer[w].state # "gone",
         NEW st \in {"open", "closed"}, st = "closed" => Pending(w) = << >>,
         writer' = [writer EXCEPT ![w].state = st],
         UNCHANGED <<ring, rings, tail, replaced>>
  PROVE  IInv'
<1>2. /\ writer' \in [Writers -> [state : {"new", "open", "cut", "closed", "gone"},
                                  pending : Seq(Byte), given : Seq(Byte)]]
      /\ \A v \in Writers : /\ writer'[v].given = writer[v].given
                            /\ writer'[v].pending = writer[v].pending
                            /\ writer'[v].state = IF v = w THEN st ELSE writer[v].state
  BY DEF IInv, TypeOK, Byte
<1>3. \A v \in Writers : /\ Given(v)' = Given(v) /\ Pending(v)' = Pending(v)
                         /\ Passed(v)' = Passed(v)
  BY <1>2 DEF Given, Pending, Passed
<1>4. TypeOK'
  BY <1>2 DEF IInv, TypeOK, Byte
<1>5. GivenByPlace' /\ PendingIsEnd' /\ Flushed'
  BY <1>2, <1>3 DEF IInv, GivenByPlace, PendingIsEnd, Flushed
<1>6. PassedInRing'
  <2> SUFFICES ASSUME NEW v \in Writers, ring.count < Capacity,
                      writer'[v].state # "gone", NEW n \in 1 .. Passed(v)
               PROVE  \/ Given(v)[n] = Newline
                      \/ \E i \in 1 .. ring.count : In(Lines(ring)[i], Given(v)[n])
    BY <1>3 DEF PassedInRing, Lines
  <2>1. writer[v].state # "gone"
    BY <1>2
  <2> QED BY <2>1 DEF IInv, PassedInRing
<1>7. LinesPast'
  <2>1. \A line \in Line : Past(line, writer) => Past(line, writer')
    <3> SUFFICES ASSUME NEW line \in Line, line # << >>, Past(line, writer)
                 PROVE  Past(line, writer')
      BY DEF Past
    <3>1. line[1] \in Text
      BY DEF Line
    <3>2. line[1][1] \in Writers
      BY <3>1 DEF Text
    <3> QED BY <3>2, <1>2 DEF Past
  <2> QED BY <2>1, RingFacts DEF IInv, LinesPast, Lines
<1>8. /\ SlotsWhole' /\ RingInOrder' /\ UnseenIsLater' /\ PrintedInOrder'
      /\ PrintedPrefix'
  BY DEF IInv, SlotsWhole, RingInOrder, UnseenIsLater, PrintedInOrder,
              PrintedPrefix, Lines
<1> QED
  BY <1>4, <1>5, <1>6, <1>7, <1>8 DEF IInv

LEMMA NewWriterStep ==
  ASSUME IInv, NEW w \in Writers, NewWriter(w)
  PROVE  IInv'
<1>1. /\ writer[w].state = "new"
      /\ writer' = [writer EXCEPT ![w].state = "open"]
      /\ UNCHANGED <<ring, rings, tail, replaced>>
  BY DEF NewWriter
<1> QED
  BY <1>1, StateStep

LEMMA WriteLineStep ==
  ASSUME IInv, NEW w \in Writers, WriteLine(w)
  PROVE  IInv'
<1> DEFINE end == EndOfLine(Pending(w))
           k == end - 1
<1>1. Pending(w) \in Seq(Byte) /\ HasLine(Pending(w)) /\ Len(Pending(w)) \in Nat
  BY WriterFacts DEF IInv, WriteLine, Pending
<1>2. /\ end \in 1 .. Len(Pending(w)) /\ Pending(w)[end] = Newline
      /\ \A i \in 1 .. k : Pending(w)[i] # Newline
  BY <1>1, EndOfLineIsFirst
<1>3. /\ k \in 0 .. Len(Pending(w)) /\ end \in k .. Len(Pending(w))
      /\ \A i \in k + 1 .. end : Pending(w)[i] = Newline
  BY <1>1, <1>2
<1>4. /\ Open(w)
      /\ ring' = Add(ring, SubSeq(Pending(w), 1, k))
      /\ writer' = [writer EXCEPT
                      ![w] = [state |-> writer[w].state, given |-> Given(w),
                              pending |-> SubSeq(Pending(w), end + 1, Len(Pending(w)))]]
      /\ rings' \in Nat /\ UNCHANGED <<tail, replaced>>
  <2>1. /\ Open(w) /\ rings' \in Nat /\ UNCHANGED <<tail, replaced>>
        /\ ring' = Add(ring, SubSeq(Pending(w), 1, k))
        /\ writer' = [writer EXCEPT
                        ![w].pending = SubSeq(Pending(w), end + 1, Len(Pending(w)))]
    BY DEF IInv, TypeOK, WriteLine, Pending
  <2>2. /\ writer[w] = [state |-> writer[w].state, pending |-> Pending(w),
                        given |-> Given(w)]
        /\ writer = [v \in Writers |-> writer[v]]
    BY DEF IInv, TypeOK, Given, Pending
  <2> HIDE DEF end, k
  <2>3. writer' = [writer EXCEPT
                      ![w] = [state |-> writer[w].state, given |-> Given(w),
                              pending |-> SubSeq(Pending(w), end + 1, Len(Pending(w)))]]
    <3> DEFINE rest == SubSeq(Pending(w), end + 1, Len(Pending(w)))
    <3>1. writer' = [writer EXCEPT ![w].pending = rest]
      BY <2>1
    <3> HIDE DEF rest
    <3>2. writer'[w] = [state |-> writer[w].state, given |-> Given(w), pending |-> rest]
      BY <2>2, <3>1
    <3>3. writer' = [writer EXCEPT ![w] = writer'[w]]
      BY <2>2, <3>1
    <3> QED BY <3>2, <3>3 DEF rest
  <2> QED BY <2>1, <2>3
<1>5. writer[w].state \in {"open", "cut", "closed"} /\ writer[w].state # "closed"
  BY <1>4 DEF Open
<1> HIDE DEF end, k
<1> QED
  BY <1>2, <1>3, <1>4, <1>5, TakenStep

LEMMA CloseStep ==
  ASSUME IInv, NEW w \in Writers, Close(w)
  PROVE  IInv'
<1>1. /\ Open(w) /\ ~HasLine(Pending(w))
      /\ Pending(w) \in Seq(Byte) /\ Len(Pending(w)) \in Nat
      /\ writer' = [writer EXCEPT ![w].state = "closed", ![w].pending = << >>]
      /\ rings' \in Nat /\ UNCHANGED <<rings, tail, replaced>>
  BY WriterFacts DEF IInv, TypeOK, Close, Pending
<1>2. CASE Pending(w) = << >>
  <2>1. ring' = ring
    BY <1>2 DEF Close, Pending
  <2>2. writer' = [writer EXCEPT ![w].state = "closed"]
    BY <1>1, <1>2 DEF IInv, TypeOK, Pending
  <2>3. writer[w].state # "gone"
    BY <1>1 DEF Open
  <2> QED BY <1>1, <1>2, <2>1, <2>2, <2>3, StateStep
<1>3. CASE Pending(w) # << >>
  <2> DEFINE k == Len(Pending(w))
  <2>1. /\ k \in 0 .. Len(Pending(w)) /\ k \in k .. Len(Pending(w))
        /\ \A i \in 1 .. k : Pending(w)[i] # Newline
        /\ \A i \in k + 1 .. k : Pending(w)[i] = Newline
    BY <1>1 DEF HasLine
  <2>2. /\ SubSeq(Pending(w), 1, k) = Pending(w)
        /\ SubSeq(Pending(w), k + 1, Len(Pending(w))) = << >>
    BY <1>1, SubSeqFull, SubSeqEmpty
  <2>3. /\ ring' = Add(ring, SubSeq(Pending(w), 1, k))
        /\ writer' = [writer EXCEPT
                        ![w] = [state |-> "closed", given |-> Given(w),
                                pending |-> SubSeq(Pending(w), k + 1, Len(Pending(w)))]]
    <3>1. ring' = Add(ring, Pending(w))
      BY <1>3 DEF Close, Pending
    <3>2. writer' = [writer EXCEPT ![w] = [state |-> "closed", given |-> Given(w),
                                           pending |-> << >>]]
      <4>1. /\ writer[w] = [state |-> writer[w].state, pending |-> Pending(w),
                            given |-> Given(w)]
            /\ writer = [v \in Writers |-> writer[v]]
        BY DEF IInv, TypeOK, Given, Pending
      <4>2. writer'[w] = [state |-> "closed", given |-> Given(w), pending |-> << >>]
        BY <1>1, <4>1 DEF IInv, TypeOK, Given
      <4>3. writer' = [writer EXCEPT ![w] = writer'[w]]
        BY <1>1, <4>1
      <4> QED BY <4>2, <4>3
    <3> QED BY <3>1, <3>2, <2>2
  <2> HIDE DEF k
  <2>4. k = Len(Pending(w))
    BY DEF k
  <2> QED BY <1>1, <2>1, <2>3, <2>4, TakenStep
<1> QED
  BY <1>2, <1>3

LEMMA WriteStep ==
  ASSUME IInv, NEW w \in Writers, Write(w)
  PROVE  IInv'
<1>1. PICK chunk \in Chunks, fileOK \in BOOLEAN :
        /\ writer[w].state = "open"
        /\ writer' = [writer EXCEPT ![w].pending = @ \o Bytes(w, chunk),
                                    ![w].given = @ \o Bytes(w, chunk),
                                    ![w].state = IF fileOK THEN "open" ELSE "cut"]
        /\ UNCHANGED <<ring, rings, tail, replaced>>
  BY DEF Write
<1> DEFINE G == Len(Given(w))
           P == Len(Pending(w))
           C == Len(chunk)
           new == Bytes(w, chunk)
<1>2. /\ Given(w) \in Seq(Byte) /\ Pending(w) \in Seq(Byte)
      /\ G \in Nat /\ P \in Nat /\ P <= G /\ Passed(w) = G - P
  BY WriterFacts DEF IInv, PendingIsEnd, Passed
<1>3. /\ C \in Nat /\ new \in Seq(Byte) /\ Len(new) = C
      /\ \A i \in 1 .. C : new[i] \in {Newline, <<w, G + i>>}
  <2>1. chunk \in Seq({"text", "newline"}) /\ C \in Nat
    BY RingAssumption
  <2>2. new = [i \in 1 .. C |-> IF chunk[i] = "newline" THEN Newline ELSE <<w, G + i>>]
    BY DEF Bytes, Given
  <2>3. ASSUME NEW i \in 1 .. C PROVE <<w, G + i>> \in Text
    <3>1. G + i \in Nat \ {0}
      BY <1>2, <2>1
    <3> QED BY <3>1 DEF Text
  <2>4. \A i \in 1 .. C : new[i] \in Byte /\ new[i] \in {Newline, <<w, G + i>>}
    <3> HIDE DEF new, C, G
    <3> QED BY <2>2, <2>3 DEF Byte
  <2>5. new = [i \in 1 .. C |-> new[i]]
    BY <2>2
  <2> HIDE DEF new, C, G
  <2> QED BY <2>1, <2>4, <2>5
<1>4. /\ Given(w)' = Given(w) \o new /\ Pending(w)' = Pending(w) \o new
      /\ writer'[w].state \in {"open", "cut"}
      /\ \A v \in Writers \ {w} : writer'[v] = writer[v]
  BY <1>1 DEF IInv, TypeOK, Given, Pending
<1>5. \A v \in Writers \ {w} : /\ Given(v)' = Given(v) /\ Pending(v)' = Pending(v)
                               /\ Passed(v)' = Passed(v)
                               /\ writer'[v].state = writer[v].state
  BY <1>4 DEF Given, Pending, Passed
<1> HIDE DEF new, G, P, C
<1>6. /\ Given(w)' \in Seq(Byte) /\ Len(Given(w)') = G + C
      /\ \A n \in 1 .. G + C :
           Given(w)'[n] = IF n <= G THEN Given(w)[n] ELSE new[n - G]
      /\ Pending(w)' \in Seq(Byte) /\ Len(Pending(w)') = P + C
      /\ \A n \in 1 .. P + C :
           Pending(w)'[n] = IF n <= P THEN Pending(w)[n] ELSE new[n - P]
  <2>1. /\ Given(w) \o new \in Seq(Byte)
        /\ Len(Given(w) \o new) = Len(Given(w)) + Len(new)
        /\ \A n \in 1 .. Len(Given(w)) + Len(new) : (Given(w) \o new)[n] =
              IF n <= Len(Given(w)) THEN Given(w)[n] ELSE new[n - Len(Given(w))]
    BY <1>2, <1>3, ConcatProperties
  <2>2. /\ Pending(w) \o new \in Seq(Byte)
        /\ Len(Pending(w) \o new) = Len(Pending(w)) + Len(new)
        /\ \A n \in 1 .. Len(Pending(w)) + Len(new) : (Pending(w) \o new)[n] =
              IF n <= Len(Pending(w)) THEN Pending(w)[n] ELSE new[n - Len(Pending(w))]
    BY <1>2, <1>3, ConcatProperties
  <2> QED BY <2>1, <2>2, <1>3, <1>4 DEF G, P
<1>7. Passed(w)' = Passed(w)
  <2>1. Passed(w)' = Len(Given(w)') - Len(Pending(w)')
    BY DEF Passed
  <2> QED BY <2>1, <1>2, <1>3, <1>6
<1>8. TypeOK'
  <2>1. writer[w] = [state |-> writer[w].state, pending |-> Pending(w),
                     given |-> Given(w)]
    BY DEF IInv, TypeOK, Given, Pending
  <2>2. writer'[w] = [state |-> writer'[w].state, pending |-> Pending(w)',
                      given |-> Given(w)']
    BY <1>1, <2>1 DEF IInv, TypeOK, Given, Pending
  <2>3. writer'[w] \in [state : {"new", "open", "cut", "closed", "gone"},
                        pending : Seq(Byte), given : Seq(Byte)]
    <3>1. /\ writer'[w].state \in {"new", "open", "cut", "closed", "gone"}
          /\ Pending(w)' \in Seq(Byte) /\ Given(w)' \in Seq(Byte)
      BY <1>4, <1>6
    <3> QED BY <2>2, <3>1
  <2>4. writer' = [writer EXCEPT ![w] = writer'[w]]
    BY <1>1 DEF IInv, TypeOK
  <2>5. writer' \in [Writers -> [state : {"new", "open", "cut", "closed", "gone"},
                                 pending : Seq(Byte), given : Seq(Byte)]]
    BY <2>3, <2>4 DEF IInv, TypeOK, Byte
  <2> QED BY <2>5, <1>1 DEF IInv, TypeOK, Byte
<1>9. GivenByPlace'
  <2>1. ASSUME NEW n \in 1 .. Len(Given(w)') PROVE Given(w)'[n] \in {Newline, <<w, n>>}
    <3>1. CASE n <= G
      <4>1. n \in 1 .. G /\ n \in 1 .. G + C
        BY <3>1, <1>2, <1>3, <1>6
      <4>2. Given(w)[n] \in {Newline, <<w, n>>}
        BY <4>1 DEF IInv, GivenByPlace, G
      <4> QED BY <3>1, <4>1, <4>2, <1>6
    <3>2. CASE ~(n <= G)
      <4>1. n - G \in 1 .. C /\ G + (n - G) = n /\ Given(w)'[n] = new[n - G]
        BY <3>2, <1>2, <1>3, <1>6
      <4>2. new[n - G] \in {Newline, <<w, G + (n - G)>>}
        BY <4>1, <1>3
      <4> QED BY <4>1, <4>2
    <3> QED BY <3>1, <3>2
  <2> QED BY <2>1, <1>5 DEF IInv, GivenByPlace
<1>10. PendingIsEnd'
  <2>1. ASSUME NEW i \in 1 .. Len(Pending(w)')
        PROVE  Pending(w)'[i] = Given(w)'[Passed(w)' + i]
    <3>1. CASE i <= P
      <4>1. i \in 1 .. P /\ Passed(w) + i \in 1 .. G /\ Passed(w) + i <= G
        BY <3>1, <1>2, <1>3, <1>6
      <4>2. Pending(w)[i] = Given(w)[Passed(w) + i]
        BY <4>1 DEF IInv, PendingIsEnd, P
      <4>3. Passed(w) + i \in 1 .. G + C /\ i \in 1 .. P + C
        BY <4>1, <1>2, <1>3
      <4> QED BY <4>1, <4>2, <4>3, <1>6, <1>7
    <3>2. CASE ~(i <= P)
      <4>1. /\ i \in 1 .. P + C /\ Passed(w) + i \in 1 .. G + C
            /\ ~(Passed(w) + i <= G) /\ (Passed(w) + i) - G = i - P
        BY <3>2, <1>2, <1>3, <1>6
      <4> QED BY <4>1, <3>2, <1>6, <1>7
    <3> QED BY <3>1, <3>2
  <2>2. Len(Pending(w)') <= Len(Given(w)')
    BY <1>2, <1>3, <1>6
  <2> QED BY <2>1, <2>2, <1>5 DEF IInv, PendingIsEnd
<1>11. Flushed'
  BY <1>4, <1>5 DEF IInv, Flushed
<1>12. PassedInRing'
  <2> SUFFICES ASSUME NEW v \in Writers, ring.count < Capacity,
                      writer'[v].state # "gone", NEW n \in 1 .. Passed(v)
               PROVE  \/ Given(v)'[n] = Newline
                      \/ \E i \in 1 .. ring.count : In(Lines(ring)[i], Given(v)'[n])
    BY <1>1, <1>5, <1>7 DEF PassedInRing, Lines
  <2>1. writer[v].state # "gone"
    BY <1>1, <1>5
  <2>2. Given(v)'[n] = Given(v)[n]
    <3>1. CASE v = w
      <4>1. n \in 1 .. Passed(w)
        BY <3>1
      <4>2. n \in 1 .. G + C /\ n <= G
        BY <4>1, <1>2, <1>3
      <4> QED BY <4>2, <3>1, <1>6
    <3> QED BY <3>1, <1>5
  <2> QED BY <2>1, <2>2 DEF IInv, PassedInRing
<1>13. LinesPast'
  <2>1. \A line \in Line : Past(line, writer) => Past(line, writer')
    <3> SUFFICES ASSUME NEW line \in Line, line # << >>, Past(line, writer)
                 PROVE  Past(line, writer')
      BY DEF Past
    <3>1. line[1] \in Text
      BY DEF Line
    <3>2. line[1][1] \in Writers
      BY <3>1 DEF Text
    <3>3. line[1][2] <= Passed(line[1][1])
      BY DEF Past, Passed, Given, Pending
    <3>4. line[1][2] <= Passed(line[1][1])'
      BY <3>2, <3>3, <1>5, <1>7
    <3> QED BY <3>4 DEF Past, Passed, Given, Pending
  <2> QED BY <2>1, <1>1, RingFacts DEF IInv, LinesPast, Lines
<1>14. /\ SlotsWhole' /\ RingInOrder' /\ UnseenIsLater' /\ PrintedInOrder'
       /\ PrintedPrefix'
  BY <1>1 DEF IInv, SlotsWhole, RingInOrder, UnseenIsLater, PrintedInOrder,
              PrintedPrefix, Lines
<1> QED
  BY <1>8, <1>9, <1>10, <1>11, <1>12, <1>13, <1>14 DEF IInv

LEMMA RecreateStep ==
  ASSUME IInv, Recreate
  PROVE  IInv'
<1>1. /\ ring' = NewRing /\ rings' \in Nat /\ replaced' = TRUE /\ tail' = tail
      /\ writer' = [v \in Writers |-> IF writer[v].state = "new" THEN writer[v]
                                      ELSE [writer[v] EXCEPT !.state = "gone"]]
  BY DEF IInv, TypeOK, Recreate
<1>2. ring' \in Ring /\ ring'.count = 0 /\ \A i \in Slots : ring'.buf[i] = << >>
  BY <1>1, NewRingIsRing DEF NewRing
<1>3. ASSUME NEW v \in Writers
      PROVE  /\ writer'[v] \in [state : {"new", "open", "cut", "closed", "gone"},
                                pending : Seq(Byte), given : Seq(Byte)]
             /\ writer'[v].given = writer[v].given
             /\ writer'[v].pending = writer[v].pending
             /\ writer'[v].state = IF writer[v].state = "new" THEN "new" ELSE "gone"
  BY <1>1 DEF IInv, TypeOK, Byte
<1>4. \A v \in Writers : /\ Given(v)' = Given(v) /\ Pending(v)' = Pending(v)
                         /\ Passed(v)' = Passed(v)
  BY <1>3 DEF Given, Pending, Passed
<1>5. TypeOK'
  <2>1. writer' \in [Writers -> [state : {"new", "open", "cut", "closed", "gone"},
                                 pending : Seq(Byte), given : Seq(Byte)]]
    BY <1>1, <1>3
  <2> QED BY <2>1, <1>1, <1>2 DEF IInv, TypeOK, Byte, Ring
<1>6. GivenByPlace' /\ PendingIsEnd' /\ Flushed'
  BY <1>3, <1>4 DEF IInv, GivenByPlace, PendingIsEnd, Flushed
<1>7. PassedInRing'
  <2> SUFFICES ASSUME NEW v \in Writers, writer'[v].state # "gone",
                      NEW n \in 1 .. Passed(v)'
               PROVE  FALSE
    BY DEF PassedInRing
  <2>1. writer[v].state = "new"
    BY <1>3
  <2>2. Given(v) = << >> /\ Pending(v) = << >>
    BY <2>1 DEF IInv, Flushed
  <2> QED BY <2>2, <1>4 DEF Passed
<1>8. LinesPast'
  <2>1. \A line \in Line : Past(line, writer) => Past(line, writer')
    <3> SUFFICES ASSUME NEW line \in Line, line # << >>, Past(line, writer)
                 PROVE  Past(line, writer')
      BY DEF Past
    <3>1. line[1] \in Text
      BY DEF Line
    <3>2. line[1][1] \in Writers
      BY <3>1 DEF Text
    <3> QED BY <3>2, <1>3 DEF Past
  <2> QED BY <2>1, <1>1, <1>2, RingFacts DEF IInv, LinesPast
<1>9. SlotsWhole' /\ RingInOrder' /\ PrintedInOrder' /\ PrintedPrefix'
  BY <1>1, <1>2 DEF IInv, SlotsWhole, Stretch, RingInOrder, PrintedInOrder, PrintedPrefix
<1>10. UnseenIsLater'
  BY <1>1, <1>2, RingFacts DEF IInv, UnseenIsLater
<1> QED
  BY <1>5, <1>6, <1>7, <1>8, <1>9, <1>10 DEF IInv

LEMMA FlushStep ==
  ASSUME IInv, NEW final \in BOOLEAN, Flush(final)
  PROVE  IInv'
<1>1. UNCHANGED <<ring, writer, rings, replaced>>
  BY DEF Flush
<1>2. PICK lines \in Answers :
        tail' = IF tail.seen > Len(lines) THEN [tail EXCEPT !.state = "panicked"]
                ELSE [tail EXCEPT
                        !.printed = @ \o SubSeq(lines, tail.seen + 1, Len(lines)),
                        !.seen = Len(lines),
                        !.state = IF final THEN "done" ELSE @]
  BY DEF Flush
<1>3. /\ GivenByPlace' /\ PendingIsEnd' /\ Flushed' /\ PassedInRing'
      /\ SlotsWhole' /\ RingInOrder'
  BY <1>1 DEF IInv, GivenByPlace, PendingIsEnd, Flushed, PassedInRing, SlotsWhole,
              RingInOrder, Lines, Given, Pending, Passed
<1> DEFINE L == Lines(ring)
           n == ring.count
           s == tail.seen
           p == tail.printed
<1>4. /\ L \in Seq(Line) /\ Len(L) = n /\ n \in 0 .. Capacity /\ Capacity \in Nat \ {0}
      /\ \A i \in 1 .. n : L[i] \in Line
      /\ s \in Nat /\ p \in Seq(Line)
  BY RingFacts DEF IInv
<1>5. /\ tail'.state \in {"running", "done", "panicked"}
      /\ tail' = [state |-> tail'.state, seen |-> tail'.seen, printed |-> tail'.printed]
      /\ tail'.seen = IF s > Len(lines) THEN s ELSE Len(lines)
      /\ tail'.printed = IF s > Len(lines) THEN p
                         ELSE p \o SubSeq(lines, s + 1, Len(lines))
  BY <1>2 DEF IInv, TypeOK
<1>6. CASE tail'.seen = s /\ tail'.printed = p
  <2>1. TypeOK'
    BY <1>1, <1>5, <1>6 DEF IInv, TypeOK
  <2>2. LinesPast' /\ UnseenIsLater' /\ PrintedInOrder' /\ PrintedPrefix'
    BY <1>1, <1>6 DEF IInv, LinesPast, UnseenIsLater, PrintedInOrder, PrintedPrefix, Lines
  <2> QED BY <1>3, <2>1, <2>2 DEF IInv
<1>7. CASE s <= n /\ lines = L
  <2> DEFINE rest == SubSeq(L, s + 1, n)
  <2>1. tail'.seen = n /\ tail'.printed = p \o rest
    <3>1. Len(lines) = n /\ ~(s > Len(lines))
      <4> HIDE DEF L, n, s
      <4> QED BY <1>4, <1>7
    <3> QED BY <3>1, <1>5, <1>7
  <2>2. /\ rest \in Seq(Line) /\ Len(rest) = n - s
        /\ \A i \in 1 .. n - s : rest[i] = L[s + i]
    <3>1. /\ s + 1 \in Int /\ n \in Int /\ \A i \in s + 1 .. n : L[i] \in Line
      BY <1>4
    <3>2. /\ SubSeq(L, s + 1, n) \in Seq(Line)
          /\ Len(SubSeq(L, s + 1, n)) = IF s + 1 <= n THEN n - (s + 1) + 1 ELSE 0
          /\ \A i \in 1 .. n - (s + 1) + 1 :
               SubSeq(L, s + 1, n)[i] = L[s + 1 + i - 1]
      <4> HIDE DEF L, n, s
      <4> QED BY <3>1, SubSeqProperties
    <3> HIDE DEF L, n, s
    <3>3. ASSUME NEW i \in 1 .. n - s PROVE s + 1 + i - 1 = s + i /\ i \in 1 .. n - (s + 1) + 1
      BY <1>4
    <3> QED BY <3>2, <3>3, <1>4, <1>7
  <2> HIDE DEF rest
  <2>3. /\ tail'.printed \in Seq(Line)
        /\ Len(tail'.printed) = Len(p) + (n - s)
        /\ \A i \in 1 .. Len(p) + (n - s) :
             tail'.printed[i] = IF i <= Len(p) THEN p[i] ELSE rest[i - Len(p)]
    <3>1. /\ p \o rest \in Seq(Line)
          /\ Len(p \o rest) = Len(p) + Len(rest)
          /\ \A i \in 1 .. Len(p) + Len(rest) :
               (p \o rest)[i] = IF i <= Len(p) THEN p[i] ELSE rest[i - Len(p)]
      BY <2>2, <1>4, ConcatProperties
    <3> HIDE DEF L, n, s, p
    <3> QED BY <3>1, <2>1, <2>2
  <2>4. \A i \in 1 .. Len(tail'.printed) :
          \/ i \in 1 .. Len(p) /\ tail'.printed[i] = p[i]
          \/ /\ i > Len(p) /\ s + (i - Len(p)) \in s + 1 .. n
             /\ tail'.printed[i] = L[s + (i - Len(p))]
    <3> SUFFICES ASSUME NEW i \in 1 .. Len(tail'.printed)
                 PROVE  \/ i \in 1 .. Len(p) /\ tail'.printed[i] = p[i]
                        \/ /\ i > Len(p) /\ s + (i - Len(p)) \in s + 1 .. n
                           /\ tail'.printed[i] = L[s + (i - Len(p))]
      OBVIOUS
    <3>1. Len(p) \in Nat
      BY <1>4
    <3>2. i \in 1 .. Len(p) + (n - s)
      BY <2>3
    <3>3. CASE i <= Len(p)
      BY <3>1, <3>2, <3>3, <2>3
    <3>4. CASE ~(i <= Len(p))
      <4> HIDE DEF L, n, s, p
      <4>1. i - Len(p) \in 1 .. n - s
        BY <3>1, <3>2, <3>4, <1>4
      <4> QED BY <3>1, <3>2, <3>4, <4>1, <2>2, <2>3, <1>4
    <3> QED BY <3>3, <3>4
  <2>5. TypeOK'
    BY <1>1, <1>4, <1>5, <2>1, <2>3 DEF IInv, TypeOK
  <2>6. LinesPast'
    <3>1. \A i \in 1 .. Len(tail'.printed) : Past(tail'.printed[i], writer)
      <4> SUFFICES ASSUME NEW i \in 1 .. Len(tail'.printed)
                   PROVE  Past(tail'.printed[i], writer)
        OBVIOUS
      <4>1. \A j \in 1 .. Len(p) : Past(p[j], writer)
        BY DEF IInv, LinesPast
      <4>2. \A j \in s + 1 .. n : Past(L[j], writer)
        BY <1>4 DEF IInv, LinesPast
      <4> HIDE DEF L, n, s, p
      <4> QED BY <4>1, <4>2, <2>4
    <3> QED BY <1>1, <3>1 DEF IInv, LinesPast, Lines
  <2>7. UnseenIsLater'
    BY <1>1, <1>4, <2>1 DEF UnseenIsLater
  <2>8. PrintedInOrder'
    <3> SUFFICES ASSUME NEW i \in DOMAIN tail'.printed, NEW j \in DOMAIN tail'.printed,
                        i < j
                 PROVE  Before(tail'.printed[i], tail'.printed[j])
      BY DEF PrintedInOrder
    <3>1. i \in 1 .. Len(tail'.printed) /\ j \in 1 .. Len(tail'.printed)
      BY <2>3
    <3>2. Len(p) \in Nat
      BY <1>4
    <3>3. CASE j \in 1 .. Len(p) /\ tail'.printed[j] = p[j]
      <4>1. i \in 1 .. Len(p) /\ tail'.printed[i] = p[i]
        BY <3>1, <3>2, <3>3, <2>4
      <4> QED BY <3>3, <4>1, <1>4 DEF IInv, PrintedInOrder
    <3>4. CASE /\ j > Len(p) /\ s + (j - Len(p)) \in s + 1 .. n
               /\ tail'.printed[j] = L[s + (j - Len(p))]
      <4>1. CASE i \in 1 .. Len(p) /\ tail'.printed[i] = p[i]
        BY <3>4, <4>1 DEF IInv, UnseenIsLater
      <4>2. CASE /\ i > Len(p) /\ s + (i - Len(p)) \in s + 1 .. n
                 /\ tail'.printed[i] = L[s + (i - Len(p))]
        <5>1. /\ s + (i - Len(p)) \in 1 .. n /\ s + (j - Len(p)) \in 1 .. n
              /\ s + (i - Len(p)) < s + (j - Len(p))
          <6> HIDE DEF L, n, s, p
          <6> QED BY <3>1, <3>2, <3>4, <4>2, <1>4
        <5> QED BY <5>1, <3>4, <4>2 DEF IInv, RingInOrder
      <4> QED BY <4>1, <4>2, <3>1, <2>4
    <3> QED BY <3>3, <3>4, <3>1, <2>4
  <2>9. PrintedPrefix'
    <3> SUFFICES ASSUME ~replaced, n < Capacity
                 PROVE  /\ Len(tail'.printed) = n
                        /\ n <= n
                        /\ tail'.printed = SubSeq(L, 1, n)
      BY <1>1, <2>1 DEF PrintedPrefix, Lines
    <3>1. Len(p) = s /\ p = SubSeq(L, 1, s)
      BY DEF IInv, PrintedPrefix
    <3>2. p \o rest = SubSeq(L, 1, n)
      <4>1. /\ 1 \in 1 .. Len(L) + 1 /\ s \in 1 - 1 .. Len(L) /\ n \in s .. Len(L)
        BY <1>4, <1>7
      <4>2. SubSeq(L, 1, s) \o SubSeq(L, s + 1, n) = SubSeq(L, 1, n)
        <5> HIDE DEF L, n, s
        <5> QED BY <4>1, <1>4, ConcatAdjacentSubSeq
      <4> QED BY <3>1, <4>2 DEF rest
    <3> QED BY <3>1, <3>2, <2>1, <2>3, <1>4
  <2> QED BY <1>3, <2>5, <2>6, <2>7, <2>8, <2>9 DEF IInv
<1>8. CASE s <= 0 /\ lines = << >>
  <2>1. s = 0 /\ Len(lines) = 0
    BY <1>4, <1>8
  <2>2. SubSeq(lines, s + 1, Len(lines)) = << >>
    BY <2>1, SubSeqEmpty
  <2>3. tail'.seen = s /\ tail'.printed = p
    BY <2>1, <2>2, <1>4, <1>5, ConcatEmptySeq
  <2> QED BY <2>3, <1>6
<1> QED
  <2>1. lines = L \/ lines = << >>
    BY DEF Answers
  <2>2. s > Len(lines) => tail'.seen = s /\ tail'.printed = p
    BY <1>5
  <2> QED BY <2>1, <2>2, <1>4, <1>6, <1>7, <1>8

LEMMA NextInv ==
  ASSUME IInv, [Next]_vars
  PROVE  IInv'
<1>1. ASSUME NEW w \in Writers, NewWriter(w) \/ Write(w) \/ WriteLine(w) \/ Close(w)
      PROVE  IInv'
  BY <1>1, NewWriterStep, WriteStep, WriteLineStep, CloseStep
<1>2. CASE Recreate
  BY <1>2, RecreateStep
<1>3. ASSUME NEW final \in BOOLEAN, Flush(final) PROVE IInv'
  BY <1>3, FlushStep
<1>4. CASE UNCHANGED vars
  BY <1>4 DEF vars, IInv, TypeOK, GivenByPlace, PendingIsEnd, Flushed, PassedInRing,
              SlotsWhole, LinesPast, RingInOrder, UnseenIsLater, PrintedInOrder,
              PrintedPrefix, Lines, Given, Pending, Passed
<1> QED
  BY <1>1, <1>2, <1>3, <1>4 DEF Next

THEOREM Invariant == Spec => []IInv
<1>1. Init => IInv
  BY InitInv
<1>2. IInv /\ [Next]_vars => IInv'
  BY NextInv
<1> QED
  BY <1>1, <1>2, PTL DEF Spec

-----------------------------------------------------------------------------
(* The theorems *)

\* The indices of the ring stay inside its buffer, whatever is written to it by
\* whom (Ring.Add, Ring.Lines, tailStartupLogs).
THEOREM TypeCorrect == Spec => []TypeOK
<1>1. IInv => TypeOK
  BY DEF IInv
<1> QED
  BY <1>1, Invariant, PTL

\* No line of the log is torn or mixed: each is a stretch of one stream
\* (Writer.Write, Writer.Close).
THEOREM NoTornLine == Spec => []LinesWhole
<1>1. IInv => LinesWhole
  <2> SUFFICES ASSUME IInv, NEW i \in DOMAIN Lines(ring) PROVE Stretch(Lines(ring)[i])
    BY DEF LinesWhole
  <2>1. i \in 1 .. ring.count
    BY DEF Lines
  <2>2. ring.head + i - 1 \in Nat
    BY <2>1, RingFacts, RingAssumption DEF IInv, Ring, Slots
  <2>3. Lines(ring)[i] = ring.buf[(ring.head + i - 1) % Capacity]
    BY <2>1 DEF Lines
  <2> QED BY <2>2, <2>3, ModInSlots DEF IInv, SlotsWhole
<1> QED
  BY <1>1, Invariant, PTL

\* Until the ring is full, all text a writer was given is in a line or pending
\* (Writer.Write, Writer.Close).
THEOREM NoTextLost == Spec => []NothingLost
<1>1. IInv => NothingLost
  <2> SUFFICES ASSUME IInv, NEW w \in Writers
               PROVE  /\ writer[w].state \in {"new", "closed"} => writer[w].pending = << >>
                      /\ ring.count < Capacity /\ writer[w].state # "gone" =>
                           \A n \in DOMAIN writer[w].given :
                             LET byte == writer[w].given[n]
                             IN  \/ byte = Newline
                                 \/ In(writer[w].pending, byte)
                                 \/ \E i \in DOMAIN Lines(ring) : In(Lines(ring)[i], byte)
    BY DEF NothingLost
  <2>1. writer[w].state \in {"new", "closed"} => writer[w].pending = << >>
    BY DEF IInv, Flushed, Pending
  <2>2. ASSUME ring.count < Capacity, writer[w].state # "gone", NEW n \in DOMAIN Given(w)
        PROVE  \/ Given(w)[n] = Newline
               \/ In(Pending(w), Given(w)[n])
               \/ \E i \in DOMAIN Lines(ring) : In(Lines(ring)[i], Given(w)[n])
    <3>1. /\ n \in 1 .. Len(Given(w)) /\ Len(Given(w)) \in Nat /\ Len(Pending(w)) \in Nat
          /\ Pending(w) \in Seq(Byte)
      BY WriterFacts DEF IInv
    <3>2. CASE n \in 1 .. Passed(w)
      <4>1. DOMAIN Lines(ring) = 1 .. ring.count
        BY DEF Lines
      <4> QED BY <2>2, <3>2, <4>1 DEF IInv, PassedInRing
    <3>3. CASE n \notin 1 .. Passed(w)
      <4>1. n - Passed(w) \in 1 .. Len(Pending(w)) /\ Passed(w) + (n - Passed(w)) = n
        BY <3>1, <3>3 DEF Passed
      <4>2. Pending(w)[n - Passed(w)] = Given(w)[n]
        BY <4>1 DEF IInv, PendingIsEnd
      <4> QED BY <3>1, <4>1, <4>2 DEF In
    <3> QED BY <3>2, <3>3
  <2> QED BY <2>1, <2>2 DEF Given, Pending
<1> QED
  BY <1>1, Invariant, PTL

\* The tail prints nothing twice and nothing out of order, whatever rings it is
\* given the lines of (tailStartupLogs).
THEOREM TailInOrder == Spec => []PrintedInOrder
<1>1. IInv => PrintedInOrder
  BY DEF IInv
<1> QED
  BY <1>1, Invariant, PTL

\* Until the ring is full or replaced, the tail leaves nothing out.
THEOREM TailComplete == Spec => []PrintedPrefix
<1>1. IInv => PrintedPrefix
  BY DEF IInv
<1> QED
  BY <1>1, Invariant, PTL

\* A line added to the ring is a line said to the bounded log.
LEMMA AddSays ==
  ASSUME ring \in Ring, NEW line \in Line, ring' = Add(ring, line)
  PROVE  Log!Next
<1>1. /\ Lines(ring') \in Seq(Line) /\ Len(Lines(ring')) = ring'.count
      /\ ring'.count >= 1 /\ Lines(ring')[ring'.count] = line
      /\ Lines(ring') = Log!Newest(Append(Lines(ring), line))
  <2>1. /\ ring' \in Ring /\ ring'.count >= 1 /\ Lines(ring')[ring'.count] = line
    BY LinesStep, Zenon
  <2>2. Lines(ring') \in Seq(Line) /\ Len(Lines(ring')) = ring'.count
    BY <2>1, LinesAreLines
  <2> QED BY <2>1, <2>2, LinesAfterAdd
<1>2. Lines(ring)' = Lines(ring')
  BY DEF Lines
<1>3. Lines(ring)' # << >> /\ Lines(ring)'[Len(Lines(ring)')] = line
  BY <1>1, <1>2
<1> QED
  BY <1>1, <1>2, <1>3 DEF Log!Next, Log!Says

\* What a writer was given comes out in whole lines, as long as the ring keeps it
\* (Writer.Write, Writer.Close).
THEOREM LinesAreKept == Spec => []LinesKept
BY NoTornLine, NoTextLost, PTL DEF LinesKept

\* The tail prints the log, in its order and with nothing printed twice
\* (tailStartupLogs).
THEOREM TailIsFaithful == Spec => []TailFaithful
BY TailInOrder, TailComplete, PTL DEF TailFaithful

\* The ring implements the bounded log: readers always get the newest lines, as
\* many as fit, in the order in which they were added (Ring.Add, Ring.Lines).
THEOREM RingIsBoundedLog == Spec => KeepsNewest
<1>1. Init => Log!Init
  BY DEF Init, NewRing, Lines, Log!Init
<1>2. IInv /\ [Next]_vars => [Log!Next]_(Lines(ring))
  <2> SUFFICES ASSUME IInv, [Next]_vars
               PROVE  Log!Next \/ Lines(ring)' = Lines(ring)
    OBVIOUS
  <2>1. ring \in Ring
    BY RingFacts DEF IInv
  <2>2. CASE ring' = ring
    BY <2>2 DEF Lines
  <2>3. ASSUME NEW w \in Writers, WriteLine(w)
        PROVE  Log!Next
    <3> DEFINE k == EndOfLine(Pending(w)) - 1
    <3>1. Pending(w) \in Seq(Byte) /\ HasLine(Pending(w)) /\ Len(Pending(w)) \in Nat
      BY <2>3, WriterFacts DEF IInv, WriteLine, Pending
    <3>2. k \in 0 .. Len(Pending(w)) /\ \A i \in 1 .. k : Pending(w)[i] # Newline
      BY <3>1, EndOfLineIsFirst
    <3>3. ring' = Add(ring, SubSeq(Pending(w), 1, k))
      BY <2>3 DEF WriteLine, Pending
    <3> HIDE DEF k
    <3>4. SubSeq(Pending(w), 1, k) \in Line
      BY <3>2, TakenLine
    <3> QED BY <2>1, <3>3, <3>4, AddSays
  <2>4. ASSUME NEW w \in Writers, Close(w), ring' # ring
        PROVE  Log!Next
    <3>1. /\ Pending(w) \in Seq(Byte) /\ ~HasLine(Pending(w))
          /\ ring' = Add(ring, Pending(w))
      BY <2>4, WriterFacts DEF IInv, Close, Pending
    <3>2. /\ Len(Pending(w)) \in 0 .. Len(Pending(w))
          /\ \A i \in 1 .. Len(Pending(w)) : Pending(w)[i] # Newline
      BY <3>1 DEF HasLine
    <3>3. SubSeq(Pending(w), 1, Len(Pending(w))) = Pending(w)
      BY <3>1, SubSeqFull
    <3>4. Pending(w) \in Line
      BY <3>2, <3>3, TakenLine
    <3> QED BY <2>1, <3>1, <3>4, AddSays
  <2>5. CASE Recreate
    <3>1. Lines(ring)' = << >>
      BY <2>5 DEF Recreate, NewRing, Lines
    <3> QED BY <3>1 DEF Log!Next, Log!Forgotten
  <2> QED
    BY <2>2, <2>3, <2>4, <2>5 DEF Next, NewWriter, Write, Flush, vars
<1>3. Log!Spec <=> (Log!Init /\ [][Log!Next]_(Lines(ring)))
  BY DEF Log!Spec
<1> QED
  BY <1>1, <1>2, <1>3, Invariant, PTL DEF Spec, KeepsNewest
=============================================================================
