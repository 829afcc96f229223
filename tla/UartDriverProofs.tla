-------------------------- MODULE UartDriverProofs -------------------------
(***************************************************************************)
(* For any number of writers, any depth of the rings, any width of a byte  *)
(* and any divisor of at least 3: the rings stay consistent, whoever       *)
(* returns from uart_flush has its bytes on the line, and the receiver     *)
(* ends exactly the frames that were sent, each with the bits it was sent  *)
(* with.                                                                   *)
(*                                                                         *)
(* The heart of the argument is InStep: at every clock the receiver's bit  *)
(* counter and baud counter determine where the transmitter is, two clocks *)
(* of synchroniser and half a bit of sampling offset away.                 *)
(***************************************************************************)
EXTENDS UartDriver, FiniteSets, FiniteSetTheorems, SequenceTheorems, TLAPS

FrameBits == DataBits + 2

\* Bit j of a byte's frame, from 1; the line is high before and after it.
LineBit(byte, j) == IF j = 1 THEN 0 ELSE IF j \in 2..DataBits + 1 THEN byte[j - 1] ELSE 1

\* The i-th oldest byte of a ring.
Oldest(q, i) == q.fifo[(q.rd + i - 1) % Depth]

\* The frame the transmitter loaded last, and its byte.
Loaded  == Len(sent) - tx.count
Current == sent[Loaded]

\* Where the transmitter is: bits sent before this one, clocks spent in this one.
TxBit   == FrameBits - tx_bits_left
TxClock == ResetDiv - 1 - tx_baud_count

\* What the line was d clocks ago, for d up to 3.
Ago(d) == IF tx_bits_left = 0 THEN 1
          ELSE LineBit(Current, IF TxClock >= d THEN TxBit + 1 ELSE TxBit)

-----------------------------------------------------------------------------
\* The threads that have called uart_early_putc and not stored their byte yet.
Printing == {t \in Writers : pc[t] \in {"putc_poll", "putc_write"}}

\* What the types need: a byte is accepted once per call, a byte is only read when there
\* is one, and what the receiver holds or has handed out is what it kept.
Counts ==
    /\ IsFiniteSet(Printing) /\ Len(sent) + Cardinality(Printing) <= printing
    /\ pc[Reader] = "getc_read" => rx.count > 0
    /\ \A t \in Writers : pc[t] \in {"idle", "putc_poll", "putc_write", "flush_poll", "flushed"}
    /\ pc[Reader] \notin {"putc_poll", "putc_write", "flush_poll", "flushed"}
    /\ got \in Seq(Byte) /\ kept \in Seq(Nat) /\ frames \in Nat
    /\ Len(kept) = Len(got) + rx.count
    /\ tx.count + (IF tx_bits_left > 0 THEN 1 ELSE 0) <= Len(sent)
    /\ \A t \in Threads : last[t] <= Len(sent)

\* uart_init writes the values of reset.
Settled == baud_div = ResetDiv /\ uart_ctrl = [tx |-> 1, rx |-> 1]

DriverInv == TypeOK /\ RingsConsistent /\ Counts /\ Settled /\ FlushMeansSent

-----------------------------------------------------------------------------
\* The transmitter's ring holds the bytes to come.
Queued == \A i \in 1..tx.count : Oldest(tx, i) = sent[Loaded + i]

\* Its shift register holds the rest of the frame, and the synchroniser what the line was.
TxInv ==
    /\ Queued
    /\ tx_bits_left > 0 =>
          /\ tx_baud_count < ResetDiv
          /\ \A j \in 1..tx_bits_left : tx_shift[j] = LineBit(Current, TxBit + j)
    /\ rx_meta = Ago(1) /\ rx_sync = Ago(2) /\ rx_sync_q = Ago(3)

\* Clocks from the start of the bit that the receiver samples next to where the line is,
\* as the receiver's counters have it.  A bit is sampled 1 + div / 2 clocks into it, and
\* the synchroniser is two clocks behind the line.
RxClock == 3 + (ResetDiv \div 2) - rx_baud_count

\* Where the transmitter is while the receiver is busy: in the bit before the one
\* that is sampled next, in that bit, or past it; past the stop bit it is idle, or a clock
\* later has loaded the next frame.
Locked ==
    /\ rx_bit_index = 0 => RxClock >= 3
    /\ rx_baud_count < ResetDiv
    /\ \/ /\ RxClock < 0 /\ Loaded = frames + 1
          /\ tx_bits_left = FrameBits - rx_bit_index + 1 /\ TxClock = RxClock + ResetDiv
       \/ /\ RxClock \in 0..ResetDiv - 1 /\ Loaded = frames + 1
          /\ tx_bits_left = FrameBits - rx_bit_index /\ TxClock = RxClock
       \/ /\ RxClock >= ResetDiv /\ rx_bit_index # DataBits + 1 /\ Loaded = frames + 1
          /\ tx_bits_left = FrameBits - rx_bit_index - 1 /\ TxClock = RxClock - ResetDiv
       \/ /\ RxClock >= ResetDiv /\ rx_bit_index = DataBits + 1 /\ Loaded = frames + 1
          /\ tx_bits_left = 0
       \/ /\ RxClock = ResetDiv + 1 /\ rx_bit_index = DataBits + 1 /\ Loaded = frames + 2
          /\ tx_bits_left = FrameBits /\ TxClock = 0

\* So is it while a frame is being received, and what was sampled is what was sent.
Receiving ==
    /\ Locked
    /\ \A j \in 1..DataBits : j < rx_bit_index => rx_shift[j] = sent[frames + 1][j]

\* Where it is otherwise: idle, at the end of the stop bit of the last frame, or in the
\* first clocks of a frame whose start bit has not come through the synchroniser.
Listening ==
    \/ tx_bits_left = 0 /\ Loaded = frames
    \/ tx_bits_left = 1 /\ Loaded = frames /\ TxClock >= 3
    \/ tx_bits_left = FrameBits /\ Loaded = frames + 1 /\ TxClock <= 2

InStep == (rx_busy = 1 => Receiving) /\ (rx_busy = 0 => Listening)

\* What was kept is what was sent.
KeptInv ==
    /\ \A i \in 1..Len(kept) : kept[i] \in 1..frames
    /\ \A i \in 1..Len(got) : got[i] = sent[kept[i]]
    /\ \A i \in 1..rx.count : Oldest(rx, i) = sent[kept[Len(got) + i]]

LineInv == DriverInv /\ TxInv /\ InStep /\ KeptInv
-----------------------------------------------------------------------------
(***************************************************************************)
(* Rings and frames.                                                       *)
(***************************************************************************)
\* A pointer that wraps once at most.
Wrap(x) == IF x < Depth THEN x ELSE x - Depth

\* What the code's modulo does to it.
LEMMA Wraps ==
    ASSUME NEW x \in 0..2 * Depth - 1
    PROVE  x % Depth = Wrap(x)
<1>1. Depth \in Nat /\ Depth > 0
  BY UartAssumption
<1>2. QED
  BY <1>1 DEF Wrap

\* Half a bit.
LEMMA Half == /\ ResetDiv \div 2 \in Nat /\ ResetDiv - 1 <= 2 * (ResetDiv \div 2)
              /\ 2 * (ResetDiv \div 2) <= ResetDiv
BY UartAssumption

\* The pointers and the count of a ring, after pushing m and popping n.
PointerFacts(rd, c, m, n) ==
    /\ c - n + m \in 0..Depth /\ Wrap(rd + n) \in 0..Depth - 1
    /\ Wrap(rd + c) \in 0..Depth - 1 /\ Wrap(Wrap(rd + c) + m) \in 0..Depth - 1
    /\ rd + c \in 0..2 * Depth - 1 /\ rd + n \in 0..2 * Depth - 1
    /\ Wrap(rd + c) + m \in 0..2 * Depth - 1
    /\ Wrap(rd + n) + (c - n + m) \in 0..2 * Depth - 1
    /\ Wrap(Wrap(rd + n) + (c - n + m)) = Wrap(Wrap(rd + c) + m)

\* And the slot of the i-th oldest byte: its slot before, or the slot that is written.
SlotFacts(rd, c, m, n, i) ==
    /\ rd + (i + n) - 1 \in 0..2 * Depth - 1
    /\ Wrap(rd + n) + i - 1 \in 0..2 * Depth - 1
    /\ Wrap(Wrap(rd + n) + i - 1) = Wrap(rd + (i + n) - 1)
    /\ Wrap(rd + (i + n) - 1) \in 0..Depth - 1
    /\ i + n <= c /\ m = 1 => Wrap(rd + (i + n) - 1) # Wrap(rd + c)
    /\ ~(i + n <= c) => m = 1 /\ Wrap(rd + (i + n) - 1) = Wrap(rd + c)

\* Both hold when nothing is pushed to a full ring or popped from an empty one.
LEMMA Pointers ==
    ASSUME NEW rd \in 0..Depth - 1, NEW c \in 0..Depth, NEW m \in 0..1, NEW n \in 0..1,
           m = 1 => c < Depth, n = 1 => c > 0
    PROVE  /\ PointerFacts(rd, c, m, n)
           /\ \A i \in 1..c - n + m : SlotFacts(rd, c, m, n, i)
BY UartAssumption DEF Wrap, PointerFacts, SlotFacts

\* What was in a ring moves up by the n that are popped, what is pushed comes last.
RingAfter(q, r, m, byte, n) ==
    /\ r \in Ring /\ r.wr = (r.rd + r.count) % Depth
    /\ r.count = q.count - n + m
    /\ \A i \in 1..r.count :
          Oldest(r, i) = IF i + n <= q.count THEN Oldest(q, i + n) ELSE byte

\* So it is after an edge that pushes only when the ring is not full and pops only when
\* it is not empty.
LEMMA RingStep ==
    ASSUME NEW q \in Ring, q.wr = (q.rd + q.count) % Depth,
           NEW push \in BOOLEAN, NEW pop \in BOOLEAN, NEW byte,
           push => byte \in Byte, push => ~Full(q), pop => ~Empty(q)
    PROVE  RingAfter(q, Clocked(q, push, byte, pop), IF push THEN 1 ELSE 0, byte,
                     IF pop THEN 1 ELSE 0)
<1> DEFINE r == Clocked(q, push, byte, pop)
           n == IF pop THEN 1 ELSE 0
           m == IF push THEN 1 ELSE 0
           rd == q.rd
           c == q.count
<1>1. /\ rd \in 0..Depth - 1 /\ c \in 0..Depth /\ n \in 0..1 /\ m \in 0..1
      /\ m = 1 => c < Depth
      /\ n = 1 => c > 0
  BY UartAssumption DEF Ring, Full, Empty
<1>2. q.fifo \in [0..Depth - 1 -> Byte]
  BY DEF Ring
<1>3. /\ r.wr = IF push THEN (q.wr + 1) % Depth ELSE q.wr
      /\ r.rd = IF pop THEN (rd + 1) % Depth ELSE rd
      /\ r.count = IF push /\ ~pop THEN c + 1 ELSE IF pop /\ ~push THEN c - 1 ELSE c
      /\ r.fifo = IF push THEN [q.fifo EXCEPT ![q.wr] = byte] ELSE q.fifo
      /\ r = [fifo |-> r.fifo, wr |-> r.wr, rd |-> r.rd, count |-> r.count]
  BY DEF Clocked
<1>4. push <=> m = 1
  OBVIOUS
<1>5. pop <=> n = 1
  OBVIOUS
<1> HIDE DEF r, n, m, rd, c
<1> DEFINE k == c - n + m
<1>P. PointerFacts(rd, c, m, n) /\ \A i \in 1..k : SlotFacts(rd, c, m, n, i)
  BY <1>1, Pointers, Zenon
<1> HIDE DEF k
<1>6. q.wr = Wrap(rd + c) /\ Wrap(rd + c) \in 0..Depth - 1
  <2>1. rd + c \in 0..2 * Depth - 1 /\ Wrap(rd + c) \in 0..Depth - 1
    BY <1>P DEF PointerFacts
  <2>2. (rd + c) % Depth = Wrap(rd + c)
    BY <2>1, Wraps
  <2>3. QED
    BY <2>1, <2>2 DEF rd, c
<1>7. r.wr = Wrap(Wrap(rd + c) + m)
  <2>1. CASE push
    <3>1. Wrap(rd + c) + 1 \in 0..2 * Depth - 1
      BY <1>P, <1>4, <2>1 DEF PointerFacts
    <3>2. (Wrap(rd + c) + 1) % Depth = Wrap(Wrap(rd + c) + 1)
      BY <3>1, Wraps
    <3>3. QED
      BY <1>3, <1>4, <1>6, <2>1, <3>2
  <2>2. CASE ~push
    <3>1. m = 0 /\ r.wr = Wrap(rd + c)
      BY <1>1, <1>3, <1>4, <1>6, <2>2
    <3>2. QED
      BY <1>6, <3>1, UartAssumption DEF Wrap
  <2>3. QED
    BY <2>1, <2>2
<1>8. r.rd = Wrap(rd + n) /\ r.count = c - n + m
  <2>1. r.count = c - n + m
    BY <1>1, <1>3, <1>4, <1>5
  <2>2. CASE pop
    <3>1. rd + 1 \in 0..2 * Depth - 1
      BY <1>P, <1>5, <2>2 DEF PointerFacts
    <3>2. (rd + 1) % Depth = Wrap(rd + 1)
      BY <3>1, Wraps
    <3>3. QED
      BY <1>3, <1>5, <2>1, <2>2, <3>2
  <2>3. CASE ~pop
    <3>1. n = 0 /\ r.rd = rd
      BY <1>1, <1>3, <1>5, <2>3
    <3>2. QED
      BY <1>1, <2>1, <3>1, UartAssumption DEF Wrap
  <2>4. QED
    BY <2>2, <2>3
<1>9. r.fifo \in [0..Depth - 1 -> Byte]
  BY <1>2, <1>3
<1>10. r \in Ring
  <2>1. r.wr \in 0..Depth - 1 /\ r.rd \in 0..Depth - 1 /\ r.count \in 0..Depth
    BY <1>P, <1>7, <1>8 DEF PointerFacts
  <2>2. QED
    BY <1>3, <1>9, <2>1 DEF Ring
<1>11. r.wr = (r.rd + r.count) % Depth
  <2> DEFINE x == Wrap(rd + n) + (c - n + m)
  <2>1. x \in 0..2 * Depth - 1 /\ Wrap(x) = Wrap(Wrap(rd + c) + m)
    BY <1>P DEF PointerFacts
  <2>2. r.wr = Wrap(x) /\ r.rd + r.count = x
    BY <1>7, <1>8, <2>1
  <2> HIDE DEF x
  <2>3. x % Depth = Wrap(x)
    BY <2>1, Wraps
  <2>4. QED
    BY <2>2, <2>3
<1>12. ASSUME NEW i \in 1..r.count
       PROVE  Oldest(r, i) = IF i + n <= c THEN Oldest(q, i + n) ELSE byte
  <2> DEFINE x == Wrap(rd + n) + i - 1
             y == rd + (i + n) - 1
  <2>1. /\ x \in 0..2 * Depth - 1 /\ y \in 0..2 * Depth - 1
        /\ Wrap(x) = Wrap(y) /\ Wrap(y) \in 0..Depth - 1
        /\ i + n <= c /\ m = 1 => Wrap(y) # Wrap(rd + c)
        /\ ~(i + n <= c) => m = 1 /\ Wrap(y) = Wrap(rd + c)
    <3>1. i \in 1..k
      BY <1>8 DEF k
    <3>2. SlotFacts(rd, c, m, n, i)
      BY <1>P, <3>1
    <3>3. QED
      BY <3>2 DEF SlotFacts
  <2>2. r.rd + i - 1 = x /\ q.rd + (i + n) - 1 = y
    BY <1>8 DEF rd
  <2> HIDE DEF x, y
  <2>3. x % Depth = Wrap(x) /\ y % Depth = Wrap(y)
    BY <2>1, Wraps
  <2>4. Oldest(r, i) = r.fifo[Wrap(y)] /\ Oldest(q, i + n) = q.fifo[Wrap(y)]
    BY <2>1, <2>2, <2>3 DEF Oldest
  <2> DEFINE w == Wrap(y)
             z == Wrap(rd + c)
  <2>5. w \in 0..Depth - 1 /\ q.wr = z /\ z \in 0..Depth - 1
    BY <1>6, <2>1
  <2>6. i + n <= c => r.fifo[w] = q.fifo[w]
    <3>1. i + n <= c /\ push => w # z
      BY <1>4, <2>1
    <3> HIDE DEF w, z
    <3>2. QED
      BY <1>2, <1>3, <2>5, <3>1
  <2>7. ~(i + n <= c) => r.fifo[w] = byte
    <3>1. ~(i + n <= c) => push /\ w = z
      BY <1>4, <2>1
    <3> HIDE DEF w, z
    <3>2. QED
      BY <1>2, <1>3, <2>5, <3>1
  <2>8. QED
    BY <2>4, <2>6, <2>7
<1>13. RingAfter(q, r, m, byte, n)
  BY <1>8, <1>10, <1>11, <1>12 DEF RingAfter, c
<1>14. QED
  BY <1>13 DEF r, m, n

\* Bits of a byte, as a sequence.
LEMMA BitSeq ==
    ASSUME NEW n \in Nat, NEW s \in [1..n -> Bit]
    PROVE  s \in Seq(Bit) /\ Len(s) = n
<1>1. s \in Seq(Bit)
  BY SeqDef
<1>2. QED
  BY <1>1, LenProperties

\* A frame is a start bit, the bits of the byte and a stop bit.
LEMMA FrameLine ==
    ASSUME NEW byte \in Byte
    PROVE  /\ Frame(byte) \in [1..FrameBits -> Bit]
           /\ \A j \in 1..FrameBits : Frame(byte)[j] = LineBit(byte, j)
<1>1. DataBits \in Nat \ {0} /\ byte \in Seq(Bit) /\ Len(byte) = DataBits
  BY UartAssumption, BitSeq DEF Byte
<1>2. <<0>> \in Seq(Bit) /\ Len(<<0>>) = 1 /\ <<0>>[1] = 0
  BY DEF Bit
<1>3. <<1>> \in Seq(Bit) /\ Len(<<1>>) = 1 /\ <<1>>[1] = 1
  BY DEF Bit
<1> DEFINE a == <<0>> \o byte
<1>4. /\ a \in Seq(Bit) /\ Len(a) = 1 + DataBits
      /\ \A i \in 1..1 + DataBits : a[i] = IF i <= 1 THEN <<0>>[i] ELSE byte[i - 1]
  BY <1>1, <1>2, ConcatProperties
<1> HIDE DEF a
<1> DEFINE f == a \o <<1>>
<1>5. /\ f \in Seq(Bit) /\ Len(f) = (1 + DataBits) + 1
      /\ \A i \in 1..(1 + DataBits) + 1 : f[i] = IF i <= 1 + DataBits THEN a[i]
                                                 ELSE <<1>>[i - (1 + DataBits)]
  BY <1>3, <1>4, ConcatProperties
<1>6. f = Frame(byte)
  BY DEF f, a, Frame
<1> HIDE DEF f
<1>7. f \in [1..FrameBits -> Bit]
  <2>1. Len(f) = FrameBits
    BY <1>1, <1>5 DEF FrameBits
  <2>2. QED
    BY <1>5, <2>1, LenProperties
<1>8. ASSUME NEW j \in 1..FrameBits PROVE f[j] = LineBit(byte, j)
  <2>1. CASE j = 1
    BY <1>1, <1>2, <1>4, <1>5, <2>1 DEF LineBit
  <2>2. CASE j \in 2..DataBits + 1
    BY <1>1, <1>4, <1>5, <2>2 DEF LineBit
  <2>3. CASE j = DataBits + 2
    BY <1>1, <1>3, <1>5, <2>3 DEF LineBit
  <2>4. QED
    BY <1>1, <2>1, <2>2, <2>3 DEF FrameBits
<1>9. QED
  BY <1>6, <1>7, <1>8

\* The shift register moves up and is filled with ones.
LEMMA ShiftLine ==
    ASSUME NEW s \in [1..FrameBits -> Bit]
    PROVE  /\ Tail(s) \o <<1>> \in [1..FrameBits -> Bit] /\ Head(s) = s[1]
           /\ \A j \in 1..FrameBits - 1 : (Tail(s) \o <<1>>)[j] = s[j + 1]
<1>1. FrameBits \in Nat /\ FrameBits >= 3
  BY UartAssumption DEF FrameBits
<1>2. s \in Seq(Bit) /\ Len(s) = FrameBits /\ s # <<>>
  BY <1>1, BitSeq, EmptySeq
<1>3. <<1>> \in Seq(Bit) /\ Len(<<1>>) = 1
  BY DEF Bit
<1> DEFINE t == Tail(s)
<1>4. t \in Seq(Bit) /\ Len(t) = FrameBits - 1 /\ \A i \in 1..Len(t) : t[i] = s[i + 1]
  BY <1>2, HeadTailProperties
<1>5. Head(s) = s[1]
  BY <1>2
<1> HIDE DEF t
<1> DEFINE r == t \o <<1>>
<1>6. /\ r \in Seq(Bit) /\ Len(r) = Len(t) + 1
      /\ \A i \in 1..Len(t) + 1 : r[i] = IF i <= Len(t) THEN t[i] ELSE <<1>>[i - Len(t)]
  BY <1>3, <1>4, ConcatProperties
<1>7. r = Tail(s) \o <<1>>
  BY DEF r, t
<1> HIDE DEF r
<1>8. r \in [1..FrameBits -> Bit]
  <2>1. Len(r) = FrameBits
    BY <1>1, <1>4, <1>6
  <2>2. QED
    BY <1>6, <2>1, LenProperties
<1>9. ASSUME NEW j \in 1..FrameBits - 1 PROVE r[j] = s[j + 1]
  <2>1. j \in 1..Len(t) /\ j \in 1..Len(t) + 1 /\ j <= Len(t)
    BY <1>1, <1>4
  <2>2. QED
    BY <1>4, <1>6, <2>1
<1>10. QED
  BY <1>5, <1>7, <1>8, <1>9

\* Every bit of the line is a bit.
LEMMA LineBitType ==
    ASSUME NEW byte \in Byte, NEW j \in Int PROVE LineBit(byte, j) \in Bit
BY UartAssumption DEF LineBit, Byte, Bit

\* A byte that is printed comes after the ones before it.
LEMMA AppendFacts ==
    ASSUME NEW S, NEW s \in Seq(S), NEW x \in S
    PROVE  /\ Append(s, x) \in Seq(S) /\ Len(Append(s, x)) = Len(s) + 1
           /\ Append(s, x)[Len(s) + 1] = x
           /\ \A i \in 1..Len(s) : Append(s, x)[i] = s[i]
OBVIOUS
-----------------------------------------------------------------------------
(***************************************************************************)
(* A step: a thread calls the driver, or the UART is clocked, with one of  *)
(* the driver's accesses at the bus or none.                               *)
(***************************************************************************)
ReqOK(req, t) ==
    /\ Writes(req, "txdata") => /\ t \in Writers /\ pc[t] = "putc_write" /\ req.data \in Byte
    /\ Writes(req, "divisor") => req.data = ResetDiv
    /\ Writes(req, "control") => req.data = [tx |-> 1, rx |-> 1]
    /\ Reads(req, "rxdata") => t = Reader /\ pc[t] = "getc_read"

ClockAt(req, t) == Edge(req, uart_tx) /\ Observe(req, t) /\ ReqOK(req, t)

Called == UNCHANGED <<uartVars, ghostVars>>

\* The accesses of the driver.
LEMMA AccessOK ==
    ASSUME DriverInv, NEW t \in Threads PROVE ReqOK(Access(t), t)
<1>1. pc[t] \in Pcs /\ ch[t] \in Byte
  BY DEF DriverInv, TypeOK
<1>2. pc[t] = "putc_write" => t \in Writers
  BY DEF DriverInv, Counts, Threads
<1>3. pc[t] = "getc_read" => t = Reader
  BY DEF DriverInv, Counts, Threads
<1>4. CASE pc[t] = "boot_div"
  BY <1>4 DEF Access, ReqOK, Write, Writes, Reads
<1>5. CASE pc[t] = "boot_ctrl"
  BY <1>5 DEF Access, ReqOK, Write, Writes, Reads
<1>6. CASE pc[t] = "putc_write"
  BY <1>1, <1>2, <1>6 DEF Access, ReqOK, Write, Writes, Reads
<1>7. CASE pc[t] = "getc_read"
  BY <1>3, <1>7 DEF Access, ReqOK, Read, Writes, Reads
<1>8. CASE pc[t] \notin {"boot_div", "boot_ctrl", "putc_write", "getc_read"}
  <2>1. Access(t) = Read("status")
    BY <1>8 DEF Access
  <2>2. QED
    BY <2>1 DEF ReqOK, Read, Writes, Reads
<1>9. QED
  BY <1>4, <1>5, <1>6, <1>7, <1>8

\* A step of the system leaves the UART alone or clocks it.
LEMMA Clocks ==
    ASSUME DriverInv, [Next]_vars PROVE Called \/ \E req, t : ClockAt(req, t)
<1>1. CASE \E t \in Threads : uart_early_putc(t) \/ uart_flush(t)
  BY <1>1 DEF uart_early_putc, uart_flush, Called
<1>2. CASE \E t \in Threads : AccessEdge(t)
  BY <1>2, AccessOK DEF AccessEdge, ClockAt
<1>3. CASE uart_getc_nonblocking
  BY <1>3 DEF uart_getc_nonblocking, Called
<1>4. CASE QuietEdge
  <2>1. ReqOK(NoReq, Nobody)
    BY DEF ReqOK, NoReq, Writes, Reads
  <2>2. QED
    BY <1>4, <2>1 DEF QuietEdge, ClockAt
<1>5. CASE UNCHANGED vars
  BY <1>5 DEF vars, Called
<1>6. QED
  BY <1>1, <1>2, <1>3, <1>4, <1>5 DEF Next

\* Bytes pushed and popped at this edge.
TxIn(req) == IF tx_push(req) THEN 1 ELSE 0
TxOut     == IF tx_pop THEN 1 ELSE 0
RxIn      == IF rx_push THEN 1 ELSE 0
RxOut(req) == IF rx_pop(req) THEN 1 ELSE 0

\* The transmitter's ring and the bytes it has accepted.
LEMMA TxRingStep ==
    ASSUME DriverInv, NEW req, NEW t, ClockAt(req, t)
    PROVE  /\ tx' \in Ring /\ tx'.wr = (tx'.rd + tx'.count) % Depth
           /\ tx'.count = tx.count - TxOut + TxIn(req)
           /\ sent' \in Seq(Byte) /\ Len(sent') = Len(sent) + TxIn(req)
           /\ \A i \in 1..Len(sent) : sent'[i] = sent[i]
           /\ TxIn(req) = 1 => sent'[Len(sent) + 1] = req.data
           /\ \A i \in 1..tx'.count :
                 Oldest(tx', i) = IF i + TxOut <= tx.count THEN Oldest(tx, i + TxOut)
                                  ELSE req.data
<1> DEFINE push == tx_push(req)
           pop == tx_pop
           byte == req.data
<1>1. push \in BOOLEAN /\ pop \in BOOLEAN
  BY DEF tx_push, tx_pop, req_ready, Writes
<1>2. push => byte \in Byte /\ ~Full(tx)
  BY DEF tx_push, req_ready, ClockAt, ReqOK
<1>3. pop => ~Empty(tx)
  BY DEF tx_pop
<1>4. tx \in Ring /\ tx.wr = (tx.rd + tx.count) % Depth /\ sent \in Seq(Byte)
  BY DEF DriverInv, TypeOK, UartTypeOK, RingsConsistent
<1>5. tx' = Clocked(tx, push, byte, pop)
  BY DEF ClockAt, Edge, TxEdge
<1>6. sent' = IF push THEN Append(sent, byte) ELSE sent
  BY DEF ClockAt, Observe
<1>7. TxIn(req) = (IF push THEN 1 ELSE 0) /\ TxOut = (IF pop THEN 1 ELSE 0)
  BY DEF TxIn, TxOut
<1> HIDE DEF push, pop, byte
<1>8. RingAfter(tx, tx', IF push THEN 1 ELSE 0, byte, IF pop THEN 1 ELSE 0)
  BY <1>1, <1>2, <1>3, <1>4, <1>5, RingStep
<1>9. /\ tx' \in Ring /\ tx'.wr = (tx'.rd + tx'.count) % Depth
      /\ tx'.count = tx.count - TxOut + TxIn(req)
      /\ \A i \in 1..tx'.count :
            Oldest(tx', i) = IF i + TxOut <= tx.count THEN Oldest(tx, i + TxOut) ELSE byte
  BY <1>7, <1>8 DEF RingAfter
<1>10. /\ sent' \in Seq(Byte) /\ Len(sent') = Len(sent) + TxIn(req)
       /\ \A i \in 1..Len(sent) : sent'[i] = sent[i]
       /\ TxIn(req) = 1 => sent'[Len(sent) + 1] = byte
  <2>1. CASE push
    BY <1>2, <1>4, <1>6, <1>7, <2>1, AppendFacts
  <2>2. CASE ~push
    BY <1>4, <1>6, <1>7, <2>2
  <2>3. QED
    BY <2>1, <2>2
<1>11. QED
  BY <1>9, <1>10 DEF byte

\* The receiver's ring, the frames it has ended and the bytes the reader got.
LEMMA RxRingStep ==
    ASSUME DriverInv, NEW req, NEW t, ClockAt(req, t)
    PROVE  /\ rx' \in Ring /\ rx'.wr = (rx'.rd + rx'.count) % Depth
           /\ rx'.count = rx.count - RxOut(req) + RxIn
           /\ got' \in Seq(Byte) /\ Len(got') = Len(got) + RxOut(req)
           /\ \A i \in 1..Len(got) : got'[i] = got[i]
           /\ RxOut(req) = 1 => got'[Len(got) + 1] = Oldest(rx, 1)
           /\ kept' \in Seq(Nat) /\ Len(kept') = Len(kept) + RxIn
           /\ \A i \in 1..Len(kept) : kept'[i] = kept[i]
           /\ RxIn = 1 => kept'[Len(kept) + 1] = frames + 1
           /\ frames' = frames + (IF RxStop THEN 1 ELSE 0) /\ (RxIn = 1 => RxStop)
           /\ \A i \in 1..rx'.count :
                 Oldest(rx', i) = IF i + RxOut(req) <= rx.count THEN Oldest(rx, i + RxOut(req))
                                  ELSE rx_shift
<1> DEFINE push == rx_push
           pop == rx_pop(req)
           byte == rx_shift
<1>1. push \in BOOLEAN /\ pop \in BOOLEAN
  BY DEF rx_push, rx_pop, RxStop, Reads
<1>2. push => byte \in Byte /\ ~Full(rx)
  BY DEF rx_push, DriverInv, TypeOK, UartTypeOK
<1>3. pop => ~Empty(rx)
  BY DEF rx_pop
<1>4. /\ rx \in Ring /\ rx.wr = (rx.rd + rx.count) % Depth
      /\ got \in Seq(Byte) /\ kept \in Seq(Nat) /\ frames \in Nat
  BY DEF DriverInv, TypeOK, UartTypeOK, RingsConsistent, Counts
<1>5. rx' = Clocked(rx, push, byte, pop)
  BY DEF ClockAt, Edge, RxEdge
<1>6. Reads(req, "rxdata") <=> pop
  BY <1>4 DEF ClockAt, ReqOK, rx_pop, Empty, DriverInv, Counts, Ring
<1>7. pop => rxdata = Oldest(rx, 1) /\ rxdata \in Byte
  <2> SUFFICES ASSUME pop PROVE rxdata = Oldest(rx, 1) /\ rxdata \in Byte
    OBVIOUS
  <2>1. rxdata = rx.fifo[rx.rd]
    BY <1>3 DEF rxdata, Front
  <2>2. rx.rd \in 0..Depth - 1 /\ rx.fifo[rx.rd] \in Byte
    BY <1>4 DEF Ring
  <2>3. rx.rd + 1 - 1 = rx.rd
    BY <2>2
  <2>4. rx.rd \in 0..2 * Depth - 1 /\ Wrap(rx.rd) = rx.rd
    BY <2>2, UartAssumption DEF Wrap
  <2>5. rx.rd % Depth = rx.rd
    BY <2>4, Wraps
  <2>6. QED
    BY <2>1, <2>2, <2>3, <2>5 DEF Oldest
<1>8. /\ got' = IF pop THEN Append(got, rxdata) ELSE got
      /\ frames' = IF RxStop THEN frames + 1 ELSE frames
      /\ kept' = IF push THEN Append(kept, frames + 1) ELSE kept
  BY <1>6 DEF ClockAt, Observe
<1>9. RxIn = (IF push THEN 1 ELSE 0) /\ RxOut(req) = (IF pop THEN 1 ELSE 0) /\ (push => RxStop)
  BY DEF RxIn, RxOut, rx_push
<1> HIDE DEF push, pop, byte
<1>10. RingAfter(rx, rx', IF push THEN 1 ELSE 0, byte, IF pop THEN 1 ELSE 0)
  BY <1>1, <1>2, <1>3, <1>4, <1>5, RingStep
<1>11. /\ rx' \in Ring /\ rx'.wr = (rx'.rd + rx'.count) % Depth
       /\ rx'.count = rx.count - RxOut(req) + RxIn
       /\ \A i \in 1..rx'.count :
             Oldest(rx', i) = IF i + RxOut(req) <= rx.count THEN Oldest(rx, i + RxOut(req))
                              ELSE byte
  BY <1>9, <1>10 DEF RingAfter
<1>12. /\ got' \in Seq(Byte) /\ Len(got') = Len(got) + RxOut(req)
       /\ \A i \in 1..Len(got) : got'[i] = got[i]
       /\ RxOut(req) = 1 => got'[Len(got) + 1] = Oldest(rx, 1)
  <2>1. CASE pop
    BY <1>4, <1>7, <1>8, <1>9, <2>1, AppendFacts
  <2>2. CASE ~pop
    BY <1>4, <1>8, <1>9, <2>2
  <2>3. QED
    BY <2>1, <2>2
<1>13. /\ kept' \in Seq(Nat) /\ Len(kept') = Len(kept) + RxIn
       /\ \A i \in 1..Len(kept) : kept'[i] = kept[i]
       /\ RxIn = 1 => kept'[Len(kept) + 1] = frames + 1
  <2>1. CASE push
    <3>1. frames + 1 \in Nat
      BY <1>4
    <3>2. QED
      BY <1>4, <1>8, <1>9, <2>1, <3>1, AppendFacts
  <2>2. CASE ~push
    BY <1>4, <1>8, <1>9, <2>2
  <2>3. QED
    BY <2>1, <2>2
<1>14. frames' = frames + (IF RxStop THEN 1 ELSE 0) /\ (RxIn = 1 => RxStop)
  BY <1>4, <1>8, <1>9
<1>15. QED
  BY <1>11, <1>12, <1>13, <1>14 DEF byte
-----------------------------------------------------------------------------
(***************************************************************************)
(* The types, the rings and the driver.                                    *)
(***************************************************************************)
\* The control and divisor registers keep the values of reset.
LEMMA RegStep ==
    ASSUME DriverInv, NEW req, NEW t, ClockAt(req, t)
    PROVE  Settled' /\ irq_pending' \in Bit
<1>1. RegEdge(req) /\ ReqOK(req, t) /\ Settled /\ irq_pending \in Bit
  BY DEF ClockAt, Edge, DriverInv, TypeOK, UartTypeOK
<1>2. baud_div' = ResetDiv
  BY <1>1 DEF RegEdge, ReqOK, Settled
<1>3. uart_ctrl' = [tx |-> 1, rx |-> 1]
  BY <1>1 DEF RegEdge, ReqOK, Settled
<1>4. irq_pending' \in Bit
  BY <1>1 DEF RegEdge, Bit
<1>5. QED
  BY <1>2, <1>3, <1>4 DEF Settled

\* The transmitter's registers, and what it has put on the line.
LEMMA TxTypes ==
    ASSUME DriverInv, NEW req, NEW t, ClockAt(req, t)
    PROVE  /\ tx_shift' \in [1..DataBits + 2 -> Bit] /\ tx_bits_left' \in 0..DataBits + 2
           /\ tx_baud_count' \in Nat /\ rx_meta' \in Bit
           /\ tx'.count + (IF tx_bits_left' > 0 THEN 1 ELSE 0) <= Len(sent')
           /\ Transmitted <= Transmitted'
<1>1. /\ tx_shift \in [1..FrameBits -> Bit] /\ tx_bits_left \in 0..FrameBits
      /\ tx_baud_count \in Nat /\ tx \in Ring /\ sent \in Seq(Byte) /\ baud_div = ResetDiv
      /\ tx.count + (IF tx_bits_left > 0 THEN 1 ELSE 0) <= Len(sent)
  BY DEF DriverInv, TypeOK, UartTypeOK, Settled, FrameBits, Counts
<1>2. /\ FrameBits \in Nat /\ FrameBits >= 3 /\ FrameBits = DataBits + 2
      /\ ResetDiv \in Nat /\ ResetDiv >= 2
  BY UartAssumption DEF FrameBits
<1>3. /\ tx'.count = tx.count - TxOut + TxIn(req) /\ Len(sent') = Len(sent) + TxIn(req)
      /\ TxIn(req) \in 0..1 /\ TxOut = (IF tx_pop THEN 1 ELSE 0)
      /\ tx.count \in Nat /\ Len(sent) \in Nat
  BY <1>1, TxRingStep DEF TxIn, TxOut, Ring
<1>4. rx_meta' \in Bit
  BY <1>1, <1>2, ShiftLine DEF ClockAt, Edge, RxEdge, uart_tx, Bit
<1>5. TxLoad \/ TxShift \/ TxCount \/ TxIdle
  BY DEF ClockAt, Edge, TxEdge
<1>6. CASE TxLoad
  <2>1. Front(tx) \in Byte
    BY <1>1 DEF Front, Ring
  <2>2. tx_shift' \in [1..FrameBits -> Bit]
    BY <1>6, <2>1, FrameLine DEF TxLoad
  <2>3. tx_bits_left = 0 /\ tx_pop /\ tx_bits_left' = FrameBits /\ tx_baud_count' = ResetDiv - 1
    BY <1>1, <1>2, <1>6 DEF TxLoad, tx_pop
  <2>4. QED
    BY <1>1, <1>2, <1>3, <1>4, <2>2, <2>3 DEF Transmitted
<1>7. CASE TxShift
  <2>1. tx_shift' \in [1..FrameBits -> Bit]
    BY <1>1, <1>7, ShiftLine DEF TxShift
  <2>2. /\ tx_bits_left # 0 /\ ~tx_pop /\ tx_bits_left' = tx_bits_left - 1
        /\ tx_baud_count' = ResetDiv - 1
    BY <1>1, <1>7 DEF TxShift
  <2>3. QED
    BY <1>1, <1>2, <1>3, <1>4, <2>1, <2>2 DEF Transmitted
<1>8. CASE TxCount
  <2>1. /\ tx_baud_count # 0 /\ ~tx_pop /\ tx_baud_count' = tx_baud_count - 1
        /\ UNCHANGED <<tx_shift, tx_bits_left>>
    BY <1>8 DEF TxCount
  <2>2. QED
    BY <1>1, <1>2, <1>3, <1>4, <2>1 DEF Transmitted
<1>9. CASE TxIdle
  <2>1. ~tx_pop /\ UNCHANGED <<tx_shift, tx_bits_left, tx_baud_count>>
    BY <1>9 DEF TxIdle
  <2>2. QED
    BY <1>1, <1>2, <1>3, <1>4, <2>1 DEF Transmitted
<1>10. QED
  BY <1>5, <1>6, <1>7, <1>8, <1>9

\* The receiver's registers.
LEMMA RxTypes ==
    ASSUME DriverInv, NEW req, NEW t, ClockAt(req, t)
    PROVE  /\ rx_sync' \in Bit /\ rx_sync_q' \in Bit /\ rx_busy' \in Bit
           /\ rx_bit_index' \in 0..DataBits + 1 /\ rx_baud_count' \in Nat /\ rx_shift' \in Byte
<1>1. /\ rx_meta \in Bit /\ rx_sync \in Bit /\ rx_busy \in Bit
      /\ rx_bit_index \in 0..DataBits + 1 /\ rx_baud_count \in Nat /\ rx_shift \in Byte
      /\ baud_div = ResetDiv
  BY DEF DriverInv, TypeOK, UartTypeOK, Settled
<1>2. /\ DataBits \in Nat /\ DataBits > 0 /\ ResetDiv \in Nat /\ ResetDiv >= 2
      /\ ResetDiv \div 2 \in Nat
  BY UartAssumption, Half
<1>3. rx_sync' \in Bit /\ rx_sync_q' \in Bit
  BY <1>1 DEF ClockAt, Edge, RxEdge
<1>4. RxDetect \/ RxCount \/ RxStart \/ RxData \/ RxEnd \/ RxIdle
  BY DEF ClockAt, Edge, RxEdge
<1>5. CASE RxDetect
  BY <1>1, <1>2, <1>3, <1>5 DEF RxDetect, Bit
<1>6. CASE RxCount
  BY <1>1, <1>2, <1>3, <1>6 DEF RxCount
<1>7. CASE RxStart
  BY <1>1, <1>2, <1>3, <1>7 DEF RxStart, Bit
<1>8. CASE RxData
  BY <1>1, <1>2, <1>3, <1>8 DEF RxData, Byte
<1>9. CASE RxEnd
  BY <1>1, <1>2, <1>3, <1>9 DEF RxEnd, Bit
<1>10. CASE RxIdle
  BY <1>1, <1>2, <1>3, <1>10 DEF RxIdle
<1>11. QED
  BY <1>4, <1>5, <1>6, <1>7, <1>8, <1>9, <1>10

\* An edge of the clock keeps the types and the rings, whatever is at the bus.
LEMMA ClockTypes ==
    ASSUME DriverInv, NEW req, NEW t, ClockAt(req, t)
    PROVE  /\ UartTypeOK' /\ RingsConsistent' /\ Settled'
           /\ sent' \in Seq(Byte) /\ got' \in Seq(Byte) /\ kept' \in Seq(Nat) /\ frames' \in Nat
           /\ Len(sent') = Len(sent) + TxIn(req) /\ Len(sent) \in Nat
           /\ Len(kept') = Len(got') + rx'.count /\ Len(kept') <= frames'
           /\ Len(got') <= Len(kept')
           /\ tx'.count + (IF tx_bits_left' > 0 THEN 1 ELSE 0) <= Len(sent')
           /\ Transmitted <= Transmitted'
<1>1. UartTypeOK'
  <2>1. baud_div' \in Nat /\ baud_div' >= 2 /\ uart_ctrl' \in [tx : Bit, rx : Bit]
    BY RegStep, UartAssumption DEF Settled, Bit
  <2>2. tx' \in Ring /\ rx' \in Ring
    BY TxRingStep, RxRingStep
  <2>3. {rx_meta, rx_sync, rx_sync_q, rx_busy, irq_pending}' \subseteq Bit
    BY TxTypes, RxTypes, RegStep
  <2>4. QED
    BY <2>1, <2>2, <2>3, TxTypes, RxTypes DEF UartTypeOK
<1>2. RingsConsistent'
  BY TxRingStep, RxRingStep DEF RingsConsistent
<1>3. /\ got \in Seq(Byte) /\ kept \in Seq(Nat) /\ frames \in Nat /\ sent \in Seq(Byte)
      /\ Len(kept) = Len(got) + rx.count /\ Len(kept) <= frames /\ rx.count \in Nat
  BY DEF DriverInv, TypeOK, UartTypeOK, Counts, Ring
<1>4. Len(got) \in Nat /\ Len(kept) \in Nat /\ Len(sent) \in Nat
  BY <1>3
<1>5. /\ got' \in Seq(Byte) /\ kept' \in Seq(Nat)
      /\ rx'.count = rx.count - RxOut(req) + RxIn
      /\ Len(got') = Len(got) + RxOut(req) /\ Len(kept') = Len(kept) + RxIn
      /\ frames' = frames + (IF RxStop THEN 1 ELSE 0) /\ (RxIn = 1 => RxStop)
      /\ RxIn \in 0..1 /\ RxOut(req) \in 0..1 /\ rx'.count \in Nat
  BY RxRingStep DEF RxIn, RxOut, Ring
<1>6. /\ frames' \in Nat /\ Len(kept') = Len(got') + rx'.count /\ Len(kept') <= frames'
      /\ Len(got') <= Len(kept')
  <2> DEFINE s == IF RxStop THEN 1 ELSE 0
  <2>1. s \in 0..1 /\ RxIn <= s /\ frames' = frames + s
    BY <1>5
  <2> HIDE DEF s
  <2>2. frames' \in Nat
    BY <1>3, <2>1
  <2> DEFINE k == Len(kept)  g == Len(got)  k1 == Len(kept')  g1 == Len(got')  c == rx.count
             c1 == rx'.count  o == RxOut(req)
  <2>3. /\ k \in Nat /\ g \in Nat /\ c \in Nat /\ c1 \in Nat /\ k = g + c /\ k <= frames
        /\ RxIn \in 0..1 /\ o \in 0..1 /\ frames \in Nat
        /\ c1 = c - o + RxIn /\ g1 = g + o /\ k1 = k + RxIn
    BY <1>3, <1>4, <1>5
  <2> HIDE DEF k, g, k1, g1, c, c1, o
  <2>4. k1 = g1 + c1 /\ k1 <= frames' /\ g1 <= k1
    BY <2>1, <2>3
  <2>5. QED
    BY <2>2, <2>4 DEF k1, g1, c1
<1>7. QED
  BY <1>1, <1>2, <1>4, <1>5, <1>6, RegStep, TxRingStep, TxTypes

\* A call of the driver: a thread that is in none of its functions enters one.
LEMMA CallStep ==
    ASSUME DriverInv,
           \/ \E t \in Threads : uart_early_putc(t) \/ uart_flush(t)
           \/ uart_getc_nonblocking
    PROVE  DriverInv'
<1>1. Called
  BY DEF uart_early_putc, uart_flush, uart_getc_nonblocking, Called
<1>2. /\ UartTypeOK' /\ RingsConsistent' /\ Settled'
      /\ UNCHANGED <<tx, rx, tx_bits_left, sent, got, kept, frames, last>>
  BY <1>1 DEF DriverInv, TypeOK, Called, uartVars, txVars, rxVars, ghostVars, UartTypeOK,
              RingsConsistent, Settled
<1>3. Transmitted' = Transmitted
  BY <1>2 DEF Transmitted
<1>4. /\ pc \in [Threads -> Pcs] /\ ch \in [Threads -> Byte] /\ Reader \in Threads
      /\ Writers \subseteq Threads /\ Reader \notin Writers
      /\ printing \in 0..MaxBytes /\ sent \in Seq(Byte) /\ Len(sent) \in Nat /\ MaxBytes \in Nat
  BY DriverAssumption DEF DriverInv, TypeOK, Threads
<1>5. ASSUME NEW t \in Threads, uart_early_putc(t) PROVE DriverInv'
  <2>1. /\ t \in Writers /\ pc[t] \in {"idle", "flushed"} /\ printing < MaxBytes
        /\ pc' = [pc EXCEPT ![t] = "putc_poll"] /\ printing' = printing + 1
        /\ owner' = owner
    BY <1>5 DEF uart_early_putc
  <2>2. ch' \in [Threads -> Byte]
    <3>1. PICK c \in Chars[t] : ch' = [ch EXCEPT ![t] = c]
      BY <1>5 DEF uart_early_putc
    <3>2. c \in Byte
      BY <2>1, <3>1, DriverAssumption
    <3>3. QED
      BY <1>4, <3>1, <3>2
  <2>3. Printing' = Printing \cup {t} /\ t \notin Printing
    BY <1>4, <2>1 DEF Printing
  <2>4. IsFiniteSet(Printing) /\ Len(sent) + Cardinality(Printing) <= printing
    BY DEF DriverInv, Counts
  <2>5. IsFiniteSet(Printing') /\ Cardinality(Printing') = Cardinality(Printing) + 1
    BY <2>3, <2>4, FS_AddElement
  <2>6. Cardinality(Printing) \in Nat
    BY <2>4, FS_CardinalityType
  <2>7. Len(sent') + Cardinality(Printing') <= printing' /\ printing' \in 0..MaxBytes
    BY <1>2, <1>4, <2>1, <2>4, <2>5, <2>6
  <2>8. Counts'
    BY <1>2, <1>4, <2>1, <2>5, <2>7 DEF DriverInv, Counts
  <2>9. FlushMeansSent'
    BY <1>2, <1>3, <1>4, <2>1 DEF DriverInv, FlushMeansSent
  <2>10. TypeOK'
    <3>1. pc' \in [Threads -> Pcs]
      BY <1>4, <2>1 DEF Pcs
    <3>2. Len(sent') <= printing'
      BY <1>2, <1>4, <2>1 DEF DriverInv, TypeOK
    <3>3. QED
      BY <1>2, <2>1, <2>2, <2>7, <3>1, <3>2 DEF DriverInv, TypeOK
  <2>11. QED
    BY <1>2, <2>8, <2>9, <2>10 DEF DriverInv
<1>6. ASSUME NEW t \in Threads, NEW p \in {"flush_poll", "getc_poll"}, pc[t] = "idle",
             p = "flush_poll" => t \in Writers, p = "getc_poll" => t = Reader,
             pc' = [pc EXCEPT ![t] = p], UNCHANGED <<ch, owner, printing>>
      PROVE  DriverInv'
  <2>1. Printing' = Printing
    BY <1>4, <1>6 DEF Printing
  <2>2. IsFiniteSet(Printing') /\ Len(sent') + Cardinality(Printing') <= printing'
    BY <1>2, <1>6, <2>1 DEF DriverInv, Counts
  <2>3. Counts'
    BY <1>2, <1>4, <1>6, <2>2 DEF DriverInv, Counts
  <2>4. FlushMeansSent'
    BY <1>2, <1>3, <1>4, <1>6 DEF DriverInv, FlushMeansSent
  <2>5. TypeOK'
    <3>1. pc' \in [Threads -> Pcs]
      BY <1>4, <1>6 DEF Pcs
    <3>2. QED
      BY <1>2, <1>6, <3>1 DEF DriverInv, TypeOK
  <2>6. QED
    BY <1>2, <2>3, <2>4, <2>5 DEF DriverInv
<1>7. ASSUME NEW t \in Threads, uart_flush(t) PROVE DriverInv'
  <2>1. /\ t \in Writers /\ pc[t] = "idle" /\ pc' = [pc EXCEPT ![t] = "flush_poll"]
        /\ UNCHANGED <<ch, owner, printing>>
    BY <1>7 DEF uart_flush
  <2>2. QED
    BY <1>6, <2>1
<1>8. ASSUME uart_getc_nonblocking PROVE DriverInv'
  <2>1. /\ pc[Reader] = "idle" /\ pc' = [pc EXCEPT ![Reader] = "getc_poll"]
        /\ UNCHANGED <<ch, owner, printing>>
    BY <1>8 DEF uart_getc_nonblocking
  <2>2. QED
    BY <1>4, <1>6, <2>1
<1>9. QED
  BY <1>5, <1>7, <1>8

\* An edge of the clock with no access at the bus.
LEMMA QuietStep == ASSUME DriverInv, QuietEdge PROVE DriverInv'
<1>1. ReqOK(NoReq, Nobody) /\ ~Writes(NoReq, "txdata") /\ ~Reads(NoReq, "rxdata")
  BY DEF ReqOK, NoReq, Writes, Reads
<1>2. ClockAt(NoReq, Nobody) /\ UNCHANGED driverVars
  BY <1>1 DEF QuietEdge, ClockAt
<1>3. /\ UartTypeOK' /\ RingsConsistent' /\ Settled'
      /\ sent' \in Seq(Byte) /\ got' \in Seq(Byte) /\ kept' \in Seq(Nat) /\ frames' \in Nat
      /\ Len(sent') = Len(sent) + TxIn(NoReq) /\ Len(sent) \in Nat
      /\ Len(kept') = Len(got') + rx'.count /\ Len(kept') <= frames'
      /\ Len(got') <= Len(kept')
      /\ tx'.count + (IF tx_bits_left' > 0 THEN 1 ELSE 0) <= Len(sent')
      /\ Transmitted <= Transmitted'
  BY <1>2, ClockTypes
<1>4. TxIn(NoReq) = 0 /\ RxOut(NoReq) = 0 /\ last' = last /\ Len(sent') = Len(sent)
  BY <1>1, <1>2, <1>3 DEF TxIn, RxOut, tx_push, rx_pop, ClockAt, Observe
<1>5. rx'.count = rx.count + RxIn /\ RxIn \in 0..1 /\ rx.count \in Nat
  <2>1. rx'.count = rx.count - RxOut(NoReq) + RxIn
    BY <1>2, RxRingStep
  <2>2. RxIn \in 0..1 /\ rx.count \in Nat
    BY DEF RxIn, DriverInv, TypeOK, UartTypeOK, Ring
  <2>3. QED
    BY <1>4, <2>1, <2>2
<1>6. TypeOK'
  BY <1>2, <1>3, <1>4 DEF DriverInv, TypeOK, driverVars
<1>7. Counts'
  <2>1. Printing' = Printing
    BY <1>2 DEF Printing, driverVars
  <2>2. IsFiniteSet(Printing') /\ Len(sent') + Cardinality(Printing') <= printing'
    BY <1>2, <1>4, <2>1 DEF DriverInv, Counts, driverVars
  <2>3. pc'[Reader] = "getc_read" => rx'.count > 0
    BY <1>2, <1>5 DEF DriverInv, Counts, driverVars
  <2>4. QED
    BY <1>2, <1>3, <1>4, <2>2, <2>3 DEF DriverInv, Counts, driverVars
<1>8. FlushMeansSent'
  <2>1. ASSUME NEW w \in Writers, pc'[w] = "flushed" PROVE last'[w] <= Transmitted'
    <3>1. last[w] <= Transmitted
      BY <1>2, <2>1 DEF DriverInv, FlushMeansSent, driverVars
    <3>2. last[w] \in Int /\ Transmitted \in Int /\ Transmitted' \in Int
      <4>1. tx.count \in Int /\ tx'.count \in Int /\ Len(sent) \in Int /\ Len(sent') \in Int
        BY <1>3, <1>4 DEF DriverInv, TypeOK, UartTypeOK, Ring
      <4>2. last[w] \in Int
        BY DEF DriverInv, TypeOK, Threads
      <4>3. QED
        BY <4>1, <4>2 DEF Transmitted
    <3>3. QED
      BY <1>3, <1>4, <3>1, <3>2
  <2>2. QED
    BY <2>1 DEF FlushMeansSent
<1>9. QED
  BY <1>3, <1>6, <1>7, <1>8 DEF DriverInv

\* Where the answer of the UART takes a thread.
LEMMA AfterFacts ==
    ASSUME DriverInv, NEW t \in Threads, AccessEdge(t)
    PROVE  /\ pc'[t] \in Pcs /\ \A u \in Threads : u # t => pc'[u] = pc[u]
           /\ pc' \in [Threads -> Pcs]
           /\ t \in Writers =>
                 /\ pc'[t] \in {"idle", "putc_poll", "putc_write", "flush_poll", "flushed"}
                 /\ pc'[t] \in {"putc_poll", "putc_write"} <=>
                       pc[t] \in {"putc_poll", "putc_write"} /\ ~tx_push(Access(t))
                 /\ pc'[t] = "flushed" => pc[t] = "flush_poll" /\ tx_idle /\ ~tx_push(Access(t))
           /\ t = Reader =>
                 /\ pc'[t] \notin {"putc_poll", "putc_write", "flush_poll", "flushed"}
                 /\ pc'[t] = "getc_read" => pc[t] = "getc_poll" /\ ~Empty(rx)
           /\ rx_pop(Access(t)) => t = Reader /\ pc[t] = "getc_read"
           /\ tx_push(Access(t)) => t \in Writers /\ pc[t] = "putc_write"
<1>1. /\ pc \in [Threads -> Pcs] /\ pc[t] \notin {"idle", "flushed"} /\ uart_ctrl.tx = 1
      /\ t \in Writers => pc[t] \in {"idle", "putc_poll", "putc_write", "flush_poll", "flushed"}
      /\ t = Reader => pc[t] \notin {"putc_poll", "putc_write", "flush_poll", "flushed"}
      /\ t \in Writers \/ t = Reader
  BY DEF DriverInv, TypeOK, AccessEdge, Settled, Counts, Threads
<1>2. pc' = [pc EXCEPT ![t] = IF req_ready(Access(t)) THEN After(t) ELSE pc[t]]
  BY DEF AccessEdge
<1>3. ReqOK(Access(t), t)
  BY AccessOK
<1>4. \A u \in Threads : u # t => pc'[u] = pc[u]
  BY <1>1, <1>2
<1>5. pc'[t] = IF req_ready(Access(t)) THEN After(t) ELSE pc[t]
  BY <1>1, <1>2
<1>6. /\ pc[t] = "putc_write" => Writes(Access(t), "txdata")
      /\ pc[t] # "putc_write" => ~Writes(Access(t), "txdata")
      /\ pc[t] # "getc_read" => ~Reads(Access(t), "rxdata")
  BY DEF Access, Write, Read, Writes, Reads
<1>7. /\ tx_push(Access(t)) <=> pc[t] = "putc_write" /\ req_ready(Access(t))
      /\ pc[t] # "putc_write" => req_ready(Access(t))
      /\ rx_pop(Access(t)) => pc[t] = "getc_read"
  BY <1>1, <1>6 DEF tx_push, req_ready, rx_pop
<1>8. CASE t \in Writers
  <2>1. ASSUME pc[t] = "putc_poll"
        PROVE  pc'[t] \in {"putc_poll", "putc_write"} /\ ~tx_push(Access(t))
    BY <1>5, <1>7, <2>1 DEF After
  <2>2. ASSUME pc[t] = "putc_write"
        PROVE  /\ tx_push(Access(t)) => pc'[t] = "idle"
               /\ ~tx_push(Access(t)) => pc'[t] = "putc_write"
    BY <1>5, <1>7, <2>2 DEF After
  <2>3. ASSUME pc[t] = "flush_poll"
        PROVE  /\ ~tx_push(Access(t))
               /\ pc'[t] = "flush_poll" \/ (pc'[t] = "flushed" /\ tx_idle)
    BY <1>5, <1>7, <2>3 DEF After, status
  <2>4. /\ pc'[t] \in {"idle", "putc_poll", "putc_write", "flush_poll", "flushed"}
        /\ pc'[t] \in {"putc_poll", "putc_write"} <=>
               pc[t] \in {"putc_poll", "putc_write"} /\ ~tx_push(Access(t))
        /\ pc'[t] = "flushed" => pc[t] = "flush_poll" /\ tx_idle /\ ~tx_push(Access(t))
    BY <1>1, <1>8, <2>1, <2>2, <2>3
  <2>5. pc'[t] \in Pcs /\ t # Reader
    BY <1>8, <2>4, DriverAssumption DEF Pcs
  <2>6. pc' \in [Threads -> Pcs]
    BY <1>1, <1>2, <1>5, <2>5
  <2>7. rx_pop(Access(t)) => t = Reader
    BY <1>1, <1>7, <1>8
  <2>8. QED
    BY <1>4, <1>7, <1>8, <2>4, <2>5, <2>6, <2>7
<1>9. CASE t = Reader
  <2>1. After(t) \in {"boot_ctrl", "getc_read", "idle"}
    BY <1>1, <1>9 DEF After, Pcs
  <2>2. After(t) = "getc_read" => pc[t] = "getc_poll" /\ ~Empty(rx)
    BY <1>1, <1>9 DEF After, status
  <2>3. pc'[t] = After(t)
    BY <1>1, <1>5, <1>7, <1>9
  <2>4. pc'[t] \in Pcs /\ t \notin Writers
    BY <1>9, <2>1, <2>3, DriverAssumption DEF Pcs
  <2>5. pc' \in [Threads -> Pcs]
    BY <1>1, <1>2, <1>5, <2>4
  <2>6. ~tx_push(Access(t))
    BY <1>1, <1>7, <1>9
  <2>7. QED
    BY <1>4, <1>7, <1>9, <2>1, <2>2, <2>3, <2>4, <2>5, <2>6
<1>10. QED
  BY <1>1, <1>8, <1>9

\* An edge of the clock with an access of thread t at the bus.
LEMMA AccessStep == ASSUME DriverInv, NEW t \in Threads, AccessEdge(t) PROVE DriverInv'
<1> DEFINE req == Access(t)
<1>1. ClockAt(req, t) /\ UNCHANGED <<ch, printing>>
  BY AccessOK DEF AccessEdge, ClockAt
<1>2. /\ UartTypeOK' /\ RingsConsistent' /\ Settled'
      /\ sent' \in Seq(Byte) /\ got' \in Seq(Byte) /\ kept' \in Seq(Nat) /\ frames' \in Nat
      /\ Len(sent') = Len(sent) + TxIn(req) /\ Len(sent) \in Nat
      /\ Len(kept') = Len(got') + rx'.count /\ Len(kept') <= frames'
      /\ Len(got') <= Len(kept')
      /\ tx'.count + (IF tx_bits_left' > 0 THEN 1 ELSE 0) <= Len(sent')
      /\ Transmitted <= Transmitted'
  BY <1>1, ClockTypes
<1>3. /\ pc' \in [Threads -> Pcs] /\ \A u \in Threads : u # t => pc'[u] = pc[u]
      /\ t \in Writers =>
            /\ pc'[t] \in {"idle", "putc_poll", "putc_write", "flush_poll", "flushed"}
            /\ pc'[t] \in {"putc_poll", "putc_write"} <=>
                  pc[t] \in {"putc_poll", "putc_write"} /\ ~tx_push(req)
            /\ pc'[t] = "flushed" => pc[t] = "flush_poll" /\ tx_idle /\ ~tx_push(req)
      /\ t = Reader =>
            /\ pc'[t] \notin {"putc_poll", "putc_write", "flush_poll", "flushed"}
            /\ pc'[t] = "getc_read" => pc[t] = "getc_poll" /\ ~Empty(rx)
      /\ rx_pop(req) => t = Reader /\ pc[t] = "getc_read"
      /\ tx_push(req) => t \in Writers /\ pc[t] = "putc_write"
  BY AfterFacts
<1>4. owner' \in Threads \cup {Nobody}
  BY DEF AccessEdge
<1>5. last' = IF tx_push(req) THEN [last EXCEPT ![t] = Len(sent) + 1] ELSE last
  BY <1>1 DEF ClockAt, Observe
<1>6. TxIn(req) = (IF tx_push(req) THEN 1 ELSE 0) /\ RxOut(req) = (IF rx_pop(req) THEN 1 ELSE 0)
  BY DEF TxIn, RxOut
<1>7. /\ rx'.count = rx.count - RxOut(req) + RxIn /\ RxIn \in 0..1 /\ rx.count \in Nat
  BY <1>1, RxRingStep DEF RxIn, DriverInv, TypeOK, UartTypeOK, Ring
<1>8. /\ Writers \subseteq Threads /\ Reader \in Threads /\ Reader \notin Writers
      /\ last \in [Threads -> 0..MaxBytes] /\ \A u \in Threads : last[u] <= Len(sent)
      /\ printing \in 0..MaxBytes /\ MaxBytes \in Nat /\ Len(sent) <= printing
  BY DriverAssumption DEF Threads, DriverInv, TypeOK, Counts
<1> HIDE DEF req
<1>9. IsFiniteSet(Printing') /\ Len(sent') + Cardinality(Printing') <= printing'
  <2>1. IsFiniteSet(Printing) /\ Len(sent) + Cardinality(Printing) <= printing
    BY DEF DriverInv, Counts
  <2>2. Cardinality(Printing) \in Nat
    BY <2>1, FS_CardinalityType
  <2>3. CASE tx_push(req)
    <3>1. Printing' = Printing \ {t} /\ t \in Printing
      BY <1>3, <1>8, <2>3 DEF Printing
    <3>2. IsFiniteSet(Printing') /\ Cardinality(Printing') = Cardinality(Printing) - 1
      BY <2>1, <3>1, FS_RemoveElement
    <3>3. QED
      BY <1>1, <1>2, <1>6, <1>8, <2>1, <2>2, <2>3, <3>2
  <2>4. CASE ~tx_push(req)
    <3>1. Printing' = Printing
      BY <1>3, <1>8, <2>4 DEF Printing
    <3>2. QED
      BY <1>1, <1>2, <1>6, <2>1, <2>4, <3>1
  <2>5. QED
    BY <2>3, <2>4
<1>10. Len(sent') <= printing'
  <2>1. Cardinality(Printing') \in Nat
    BY <1>9, FS_CardinalityType
  <2>2. QED
    BY <1>1, <1>2, <1>8, <1>9, <2>1
<1>11. last' \in [Threads -> 0..MaxBytes] /\ \A u \in Threads : last'[u] <= Len(sent')
  <2>1. CASE tx_push(req)
    BY <1>1, <1>2, <1>5, <1>6, <1>8, <1>10, <2>1
  <2>2. CASE ~tx_push(req)
    BY <1>2, <1>5, <1>6, <1>8, <2>2
  <2>3. QED
    BY <2>1, <2>2
<1>12. TypeOK'
  BY <1>1, <1>2, <1>3, <1>4, <1>10, <1>11 DEF DriverInv, TypeOK
<1>13. pc'[Reader] = "getc_read" => rx'.count > 0
  <2>1. CASE t = Reader
    BY <1>3, <1>6, <1>7, <2>1 DEF Empty
  <2>2. CASE t # Reader
    BY <1>3, <1>6, <1>7, <1>8, <2>2 DEF DriverInv, Counts
  <2>3. QED
    BY <2>1, <2>2
<1>14. /\ \A u \in Writers :
             pc'[u] \in {"idle", "putc_poll", "putc_write", "flush_poll", "flushed"}
       /\ pc'[Reader] \notin {"putc_poll", "putc_write", "flush_poll", "flushed"}
  BY <1>3, <1>8 DEF DriverInv, Counts
<1>15. Counts'
  BY <1>2, <1>9, <1>11, <1>13, <1>14 DEF Counts
<1>16. FlushMeansSent'
  <2>1. ASSUME NEW w \in Writers, pc'[w] = "flushed" PROVE last'[w] <= Transmitted'
    <3>1. tx.count \in Nat /\ tx'.count \in Nat /\ Len(sent') \in Nat /\ last[w] \in Nat
      BY <1>2, <1>8 DEF DriverInv, TypeOK, UartTypeOK, Ring
    <3>2. Transmitted \in Int /\ Transmitted' \in Int
      BY <1>2, <3>1 DEF Transmitted
    <3>3. last'[w] = last[w]
      BY <1>3, <1>5, <1>8, <2>1
    <3>4. last[w] <= Transmitted
      <4>1. CASE w = t
        <5>1. tx.count = 0 /\ tx_bits_left = 0
          BY <1>3, <2>1, <4>1 DEF tx_idle, Empty
        <5>2. Transmitted = Len(sent)
          BY <1>2, <5>1 DEF Transmitted
        <5>3. QED
          BY <1>8, <5>2
      <4>2. CASE w # t
        BY <1>3, <1>8, <2>1, <4>2 DEF DriverInv, FlushMeansSent
      <4>3. QED
        BY <4>1, <4>2
    <3>5. QED
      BY <1>2, <3>1, <3>2, <3>3, <3>4
  <2>2. QED
    BY <2>1 DEF FlushMeansSent
<1>17. QED
  BY <1>2, <1>12, <1>15, <1>16 DEF DriverInv

\* Every step keeps the driver's invariant.
LEMMA DriverKept == DriverInv /\ [Next]_vars => DriverInv'
<1> SUFFICES ASSUME DriverInv, [Next]_vars PROVE DriverInv'
  OBVIOUS
<1>1. CASE UNCHANGED vars
  <2>1. UNCHANGED <<uartVars, driverVars, ghostVars>>
    BY <1>1 DEF vars
  <2>2. TypeOK' /\ RingsConsistent' /\ Settled'
    BY <2>1 DEF DriverInv, uartVars, txVars, rxVars, driverVars, ghostVars, TypeOK, UartTypeOK,
                RingsConsistent, Settled
  <2>3. Counts' /\ FlushMeansSent'
    BY <2>1 DEF DriverInv, uartVars, txVars, rxVars, driverVars, ghostVars, Counts, Printing,
                FlushMeansSent, Transmitted
  <2>4. QED
    BY <2>2, <2>3 DEF DriverInv
<1>2. QED
  BY <1>1, CallStep, QuietStep, AccessStep DEF Next
-----------------------------------------------------------------------------
(***************************************************************************)
(* The line.  Here a bit takes at least three clocks: with two, the middle *)
(* of the start bit, as the receiver has it, is in the first data bit.     *)
(***************************************************************************)
\* The numbers behind what follows.
LineTypes ==
    /\ ResetDiv \in Nat /\ ResetDiv >= 3 /\ DataBits \in Nat /\ DataBits >= 1
    /\ FrameBits = DataBits + 2 /\ FrameBits \in Nat
    /\ tx_bits_left \in 0..FrameBits /\ tx_baud_count \in Nat /\ rx_baud_count \in Nat
    /\ rx_bit_index \in 0..DataBits + 1 /\ rx_busy \in {0, 1} /\ frames \in Nat
    /\ sent \in Seq(Byte) /\ Len(sent) \in Nat /\ tx.count \in Nat /\ Loaded \in Int
    /\ Loaded <= Len(sent) /\ 0 <= Loaded /\ (tx_bits_left > 0 => 1 <= Loaded)
    /\ TxBit = FrameBits - tx_bits_left /\ TxClock = ResetDiv - 1 - tx_baud_count

\* They are what the driver's invariant says.
LEMMA LineTyped ==
    ASSUME DriverInv, ResetDiv >= 3 PROVE LineTypes
<1>1. tx.count \in Nat /\ Len(sent) \in Nat /\ sent \in Seq(Byte)
  BY DEF DriverInv, TypeOK, UartTypeOK, Ring
<1>2. Loaded \in Int /\ Loaded <= Len(sent) /\ 0 <= Loaded /\ (tx_bits_left > 0 => 1 <= Loaded)
  BY <1>1 DEF DriverInv, Counts, Loaded
<1>3. QED
  BY <1>1, <1>2, UartAssumption
     DEF DriverInv, TypeOK, UartTypeOK, Counts, LineTypes, FrameBits, TxBit, TxClock, Bit

\* The bits at the ends of a frame.
LEMMA LineEnds ==
    ASSUME NEW byte
    PROVE  /\ LineBit(byte, 0) = 1 /\ LineBit(byte, 1) = 0 /\ LineBit(byte, DataBits + 2) = 1
           /\ \A j \in 1..DataBits : LineBit(byte, j + 1) = byte[j]
BY UartAssumption DEF LineBit

\* What the transmitter does at an edge, in numbers.
TxMoves ==
    \/ /\ tx_bits_left = 0 /\ tx_bits_left' = FrameBits /\ tx_baud_count' = ResetDiv - 1
       /\ Loaded' = Loaded + 1
    \/ /\ tx_bits_left > 0 /\ tx_baud_count = 0 /\ tx_bits_left' = tx_bits_left - 1
       /\ tx_baud_count' = ResetDiv - 1 /\ Loaded' = Loaded
    \/ /\ tx_bits_left > 0 /\ tx_baud_count > 0 /\ tx_bits_left' = tx_bits_left
       /\ tx_baud_count' = tx_baud_count - 1 /\ Loaded' = Loaded
    \/ /\ tx_bits_left = 0 /\ tx_bits_left' = 0 /\ Loaded' = Loaded

\* A place in what was sent: with o bytes popped, the i-th byte of a ring of c.
PositionFacts(l, n, c, o, i) ==
    /\ 1 <= i /\ i + o <= c => l + (i + o) \in 1..n
    /\ l + (i + o) = (l + o) + i
    /\ i + o = c + 1 => (l + o) + i = n + 1

\* It moves up with the ring, and what is pushed comes after everything sent before.
LEMMA Positions ==
    ASSUME NEW l \in Nat, NEW n \in Nat, NEW c \in Nat, NEW o \in Nat, NEW i \in Nat,
           l = n - c
    PROVE  PositionFacts(l, n, c, o, i)
BY DEF PositionFacts

\* The frame that is being sent does not change while it is, and the next one is the byte
\* at the head of the ring.
LEMMA TxStep ==
    ASSUME DriverInv, ResetDiv >= 3, NEW req, NEW t, ClockAt(req, t),
           Queued
    PROVE  /\ Loaded' = Loaded + TxOut
           /\ \A i \in 1..Len(sent) : sent'[i] = sent[i]
           /\ Queued'
           /\ TxOut = 0 /\ tx_bits_left > 0 => Current' = Current
           /\ TxOut = 1 => Current' = Front(tx)
           /\ TxMoves
<1>1. /\ tx'.count = tx.count - TxOut + TxIn(req) /\ tx'.count \in Nat
      /\ Len(sent') = Len(sent) + TxIn(req)
      /\ \A i \in 1..Len(sent) : sent'[i] = sent[i]
      /\ TxIn(req) = 1 => sent'[Len(sent) + 1] = req.data
      /\ \A i \in 1..tx'.count :
            Oldest(tx', i) = IF i + TxOut <= tx.count THEN Oldest(tx, i + TxOut) ELSE req.data
  BY TxRingStep DEF Ring
<1>2. TxIn(req) \in 0..1 /\ TxOut \in 0..1 /\ (TxOut = 1 <=> tx_pop)
  BY DEF TxIn, TxOut
<1>3. LineTypes
  BY LineTyped
<1>4. Loaded = Len(sent) - tx.count /\ Loaded' = Len(sent') - tx'.count
  BY DEF Loaded
<1>5. Loaded' = Loaded + TxOut /\ Loaded \in Nat /\ Len(sent) \in Nat /\ tx.count \in Nat
  <2>1. Loaded \in Nat /\ Len(sent) \in Nat /\ tx.count \in Nat
    BY <1>3 DEF LineTypes
  <2>2. tx'.count = tx.count - TxOut + TxIn(req) /\ Len(sent') = Len(sent) + TxIn(req)
    BY <1>1
  <2> DEFINE n == Len(sent)  c == tx.count  n1 == Len(sent')  c1 == tx'.count  i == TxIn(req)
  <2>3. /\ n \in Nat /\ c \in Nat /\ i \in 0..1 /\ TxOut \in 0..1
        /\ c1 = c - TxOut + i /\ n1 = n + i /\ Loaded = n - c /\ Loaded' = n1 - c1
    BY <1>2, <1>4, <2>1, <2>2
  <2> HIDE DEF n, c, n1, c1, i
  <2>4. Loaded' = Loaded + TxOut
    BY <2>3
  <2>5. QED
    BY <2>1, <2>4
<1>6. ASSUME NEW i \in 1..tx'.count PROVE Oldest(tx', i) = sent'[Loaded' + i]
  <2>0. i \in Nat /\ i >= 1
    BY <1>1
  <2>P. PositionFacts(Loaded, Len(sent), tx.count, TxOut, i)
    <3>1. TxOut \in Nat /\ Loaded = Len(sent) - tx.count
      BY <1>2, <1>4
    <3>2. QED
      BY <1>5, <2>0, <3>1, Positions, Zenon
  <2>1. CASE i + TxOut <= tx.count
    <3>1. i + TxOut \in 1..tx.count
      BY <1>1, <1>2, <1>5, <2>1
    <3>2. Oldest(tx', i) = sent[Loaded + (i + TxOut)]
      BY <1>1, <2>1, <3>1 DEF Queued
    <3>3. Loaded + (i + TxOut) \in 1..Len(sent) /\ Loaded + (i + TxOut) = Loaded' + i
      BY <1>5, <2>0, <2>1, <2>P DEF PositionFacts
    <3>4. QED
      BY <1>1, <3>2, <3>3
  <2>2. CASE ~(i + TxOut <= tx.count)
    <3>1. TxIn(req) = 1 /\ i + TxOut = tx.count + 1
      BY <1>1, <1>2, <1>5, <2>2
    <3>2. Loaded' + i = Len(sent) + 1
      BY <1>5, <2>P, <3>1 DEF PositionFacts
    <3>3. QED
      BY <1>1, <2>2, <3>1, <3>2
  <2>3. QED
    BY <2>1, <2>2
<1>7. TxOut = 0 /\ tx_bits_left > 0 => Current' = Current
  BY <1>1, <1>3, <1>5 DEF Current, LineTypes
<1>8. TxOut = 1 => Current' = Front(tx)
  <2> SUFFICES ASSUME TxOut = 1 PROVE Current' = Front(tx)
    OBVIOUS
  <2>1. tx \in Ring /\ tx.count >= 1
    BY <1>2 DEF DriverInv, TypeOK, UartTypeOK, tx_pop, Empty, Ring
  <2>2. Oldest(tx, 1) = sent[Loaded + 1] /\ Loaded + 1 \in 1..Len(sent)
    BY <1>3, <1>4, <1>5, <2>1 DEF LineTypes, Queued
  <2>3. Current' = Oldest(tx, 1)
    BY <1>1, <1>5, <2>2 DEF Current
  <2>4. tx.rd \in 0..Depth - 1 /\ tx.rd + 1 - 1 = tx.rd
    BY <2>1 DEF Ring
  <2>5. tx.rd \in 0..2 * Depth - 1 /\ Wrap(tx.rd) = tx.rd
    BY <2>4, UartAssumption DEF Wrap
  <2>6. tx.rd % Depth = tx.rd
    BY <2>5, Wraps
  <2>7. QED
    BY <2>3, <2>4, <2>6 DEF Oldest, Front
<1>9. TxMoves
  <2>1. baud_div = ResetDiv /\ (TxLoad \/ TxShift \/ TxCount \/ TxIdle)
    BY DEF ClockAt, Edge, TxEdge, DriverInv, Settled
  <2>2. CASE TxLoad
    BY <1>2, <1>5, <2>1, <2>2 DEF TxLoad, TxMoves, tx_pop, FrameBits
  <2>3. CASE TxShift
    BY <1>2, <1>3, <1>5, <2>1, <2>3 DEF TxShift, TxMoves, LineTypes
  <2>4. CASE TxCount
    BY <1>2, <1>3, <1>5, <2>1, <2>4 DEF TxCount, TxMoves, LineTypes
  <2>5. CASE TxIdle
    BY <1>2, <1>5, <2>1, <2>5 DEF TxIdle, TxMoves
  <2>6. QED
    BY <2>1, <2>2, <2>3, <2>4, <2>5
<1>10. QED
  BY <1>1, <1>5, <1>6, <1>7, <1>8, <1>9 DEF Queued

\* The line as it is now is what goes into the synchroniser.
LEMMA LineNow ==
    ASSUME DriverInv, ResetDiv >= 3, TxInv PROVE uart_tx = Ago(0)
<1>1. LineTypes /\ tx_shift \in [1..FrameBits -> Bit]
  BY LineTyped DEF DriverInv, TypeOK, UartTypeOK, FrameBits
<1>2. CASE tx_bits_left = 0
  BY <1>2 DEF uart_tx, Ago
<1>3. CASE tx_bits_left > 0
  <2>1. /\ tx_baud_count < ResetDiv
        /\ \A j \in 1..tx_bits_left : tx_shift[j] = LineBit(Current, TxBit + j)
    BY <1>3 DEF TxInv
  <2>2. 1 \in 1..tx_bits_left /\ TxClock >= 0 /\ tx_bits_left # 0
    BY <1>1, <1>3, <2>1 DEF LineTypes
  <2>3. tx_shift[1] = LineBit(Current, TxBit + 1)
    BY <2>1, <2>2
  <2>4. Head(tx_shift) = tx_shift[1]
    BY <1>1, ShiftLine
  <2>5. QED
    BY <2>2, <2>3, <2>4 DEF uart_tx, Ago
<1>4. QED
  BY <1>1, <1>2, <1>3 DEF LineTypes

\* A clock later it is one clock further back.
LEMMA LineMoves ==
    ASSUME DriverInv, ResetDiv >= 3, Queued, NEW req, NEW t, ClockAt(req, t),
           tx_bits_left > 0 => tx_baud_count < ResetDiv, NEW d \in 0..2
    PROVE  Ago(d + 1)' = Ago(d)
<1>1. /\ TxMoves /\ (TxOut = 0 /\ tx_bits_left > 0 => Current' = Current)
      /\ tx_bits_left > 0 => TxOut = 0
  BY TxStep, LineTyped DEF TxOut, tx_pop, LineTypes
<1>2. LineTypes
  BY LineTyped
<1>3. TxBit' = FrameBits - tx_bits_left' /\ TxClock' = ResetDiv - 1 - tx_baud_count'
  BY DEF TxBit, TxClock
<1>4. \A byte : LineBit(byte, 0) = 1 /\ LineBit(byte, FrameBits) = 1
  BY LineEnds DEF FrameBits
<1>5. /\ Ago(d) = IF tx_bits_left = 0 THEN 1
                  ELSE LineBit(Current, IF TxClock >= d THEN TxBit + 1 ELSE TxBit)
      /\ Ago(d + 1)' = IF tx_bits_left' = 0 THEN 1
                       ELSE LineBit(Current', IF TxClock' >= d + 1 THEN TxBit' + 1 ELSE TxBit')
  BY DEF Ago
<1>6. CASE tx_bits_left = 0
  <2>1. Ago(d) = 1
    BY <1>5, <1>6
  <2>2. CASE tx_bits_left' = 0
    BY <1>5, <2>1, <2>2
  <2>3. CASE tx_bits_left' # 0
    <3>1. TxBit' = 0 /\ TxClock' = 0
      BY <1>1, <1>2, <1>3, <1>6, <2>3 DEF TxMoves, LineTypes
    <3>2. QED
      BY <1>4, <1>5, <2>1, <2>3, <3>1
  <2>4. QED
    BY <2>2, <2>3
<1>7. CASE tx_bits_left > 0 /\ tx_baud_count = 0
  <2>1. /\ tx_bits_left' = tx_bits_left - 1 /\ TxClock' = 0 /\ TxBit' = TxBit + 1
        /\ TxClock >= d /\ Current' = Current /\ tx_bits_left # 0
        /\ tx_bits_left' = 0 => TxBit + 1 = FrameBits
    BY <1>1, <1>2, <1>3, <1>7 DEF TxMoves, LineTypes
  <2>2. Ago(d) = LineBit(Current, TxBit + 1)
    BY <1>5, <2>1
  <2>3. CASE tx_bits_left' = 0
    BY <1>4, <1>5, <2>1, <2>2, <2>3
  <2>4. CASE tx_bits_left' # 0
    BY <1>5, <2>1, <2>2, <2>4
  <2>5. QED
    BY <2>3, <2>4
<1>8. CASE tx_bits_left > 0 /\ tx_baud_count > 0
  <2>1. /\ tx_bits_left' = tx_bits_left /\ TxClock' = TxClock + 1 /\ TxBit' = TxBit
        /\ Current' = Current /\ tx_bits_left # 0 /\ TxClock \in Int
    BY <1>1, <1>2, <1>3, <1>8 DEF TxMoves, LineTypes
  <2>2. TxClock' >= d + 1 <=> TxClock >= d
    BY <2>1
  <2>3. QED
    BY <1>5, <2>1, <2>2
<1>9. QED
  BY <1>2, <1>6, <1>7, <1>8 DEF LineTypes

\* The transmitter's part of the invariant is kept by an edge of the clock.
LEMMA TxKept ==
    ASSUME DriverInv, ResetDiv >= 3, TxInv, NEW req, NEW t, ClockAt(req, t) PROVE TxInv'
<1>1. Queued /\ LineTypes /\ (tx_bits_left > 0 => tx_baud_count < ResetDiv)
  BY LineTyped DEF TxInv
<1>2. /\ Queued' /\ TxMoves
      /\ TxOut = 0 /\ tx_bits_left > 0 => Current' = Current
      /\ TxOut = 1 => Current' = Front(tx)
      /\ TxOut = (IF tx_pop THEN 1 ELSE 0)
  BY <1>1, TxStep DEF TxOut
<1>3. rx_meta' = Ago(0) /\ rx_sync' = Ago(1) /\ rx_sync_q' = Ago(2)
  BY LineNow DEF ClockAt, Edge, RxEdge, TxInv
<1>4. Ago(1)' = Ago(0) /\ Ago(2)' = Ago(1) /\ Ago(3)' = Ago(2)
  <2>1. Ago(0 + 1)' = Ago(0)
    BY <1>1, LineMoves
  <2>2. Ago(1 + 1)' = Ago(1)
    BY <1>1, LineMoves
  <2>3. Ago(2 + 1)' = Ago(2)
    BY <1>1, LineMoves
  <2>4. QED
    BY <2>1, <2>2, <2>3
<1>5. tx_bits_left' > 0 => tx_baud_count' < ResetDiv
  BY <1>1, <1>2 DEF TxMoves, LineTypes
<1>6. ASSUME NEW j \in 1..tx_bits_left', tx_bits_left' > 0
      PROVE  tx_shift'[j] = LineBit(Current', TxBit' + j)
  <2>1. /\ tx \in Ring /\ tx_shift \in [1..FrameBits -> Bit]
        /\ TxLoad \/ TxShift \/ TxCount \/ TxIdle
    BY DEF DriverInv, TypeOK, UartTypeOK, FrameBits, ClockAt, Edge, TxEdge
  <2>2. TxBit' = FrameBits - tx_bits_left'
    BY DEF TxBit
  <2>3. CASE TxLoad
    <3>1. Front(tx) \in Byte
      BY <2>1 DEF Front, Ring
    <3>2. tx_bits_left' = FrameBits /\ tx_shift' = Frame(Front(tx)) /\ Current' = Front(tx)
      BY <1>2, <2>3 DEF TxLoad, FrameBits
    <3>3. j \in 1..FrameBits /\ TxBit' + j = j
      BY <1>1, <2>2, <3>2 DEF LineTypes
    <3>4. QED
      BY <3>1, <3>2, <3>3, FrameLine
  <2>4. CASE TxShift
    <3>1. /\ tx_bits_left' = tx_bits_left - 1 /\ tx_shift' = Tail(tx_shift) \o <<1>>
          /\ tx_bits_left > 0 /\ Current' = Current
      BY <1>1, <1>2, <2>4 DEF TxShift, LineTypes
    <3>2. j \in 1..FrameBits - 1 /\ j + 1 \in 1..tx_bits_left /\ TxBit' + j = TxBit + (j + 1)
      BY <1>1, <2>2, <3>1 DEF LineTypes
    <3>3. tx_shift'[j] = tx_shift[j + 1]
      BY <2>1, <3>1, <3>2, ShiftLine
    <3>4. tx_shift[j + 1] = LineBit(Current, TxBit + (j + 1))
      BY <3>1, <3>2 DEF TxInv
    <3>5. QED
      BY <3>1, <3>2, <3>3, <3>4
  <2>5. CASE TxCount
    <3>1. /\ tx_bits_left' = tx_bits_left /\ tx_shift' = tx_shift /\ tx_bits_left > 0
          /\ Current' = Current
      BY <1>1, <1>2, <2>5 DEF TxCount, LineTypes
    <3>2. TxBit' = TxBit
      BY <1>1, <2>2, <3>1 DEF LineTypes
    <3>3. QED
      BY <3>1, <3>2 DEF TxInv
  <2>6. CASE TxIdle
    BY <1>1, <1>6, <2>6 DEF TxIdle, LineTypes
  <2>7. QED
    BY <2>1, <2>3, <2>4, <2>5, <2>6
<1>7. QED
  BY <1>2, <1>3, <1>4, <1>5, <1>6 DEF TxInv
-----------------------------------------------------------------------------
(***************************************************************************)
(* The receiver.                                                           *)
(***************************************************************************)
\* Half a bit, and the clocks that the synchroniser and the sampling point take.
HalfFacts(h) == h \in Nat /\ ResetDiv - 1 <= 2 * h /\ 2 * h <= ResetDiv

\* The receiver samples bit rx_bit_index of the frame that it receives.
LEMMA SampleRight ==
    ASSUME DriverInv, ResetDiv >= 3, TxInv, Locked, rx_baud_count = 0
    PROVE  rx_sync = LineBit(sent[frames + 1], rx_bit_index + 1)
<1> DEFINE h == ResetDiv \div 2
<1>1. HalfFacts(h)
  BY Half DEF HalfFacts
<1>2. LineTypes
  BY LineTyped
<1>3. RxClock = 3 + h
  BY <1>1 DEF RxClock, HalfFacts
<1> HIDE DEF h
<1>4. rx_sync = IF tx_bits_left = 0 THEN 1
                ELSE LineBit(Current, IF TxClock >= 2 THEN TxBit + 1 ELSE TxBit)
  BY DEF TxInv, Ago
<1>5. \A byte : LineBit(byte, 0) = 1 /\ LineBit(byte, DataBits + 2) = 1
  BY LineEnds
<1>6. Loaded = frames + 1 => Current = sent[frames + 1]
  BY DEF Current
<1>7. ASSUME RxClock \in 0..ResetDiv - 1, Loaded = frames + 1,
             tx_bits_left = FrameBits - rx_bit_index, TxClock = RxClock
      PROVE  rx_sync = LineBit(sent[frames + 1], rx_bit_index + 1)
  <2>1. tx_bits_left # 0 /\ TxClock >= 2 /\ TxBit = rx_bit_index
    BY <1>1, <1>2, <1>3, <1>7 DEF LineTypes, HalfFacts
  <2>2. QED
    BY <1>4, <1>6, <1>7, <2>1
<1>8. ASSUME rx_bit_index # DataBits + 1, Loaded = frames + 1,
             tx_bits_left = FrameBits - rx_bit_index - 1, TxClock = RxClock - ResetDiv
      PROVE  rx_sync = LineBit(sent[frames + 1], rx_bit_index + 1)
  <2>1. tx_bits_left # 0 /\ ~(TxClock >= 2) /\ TxBit = rx_bit_index + 1
    BY <1>1, <1>2, <1>3, <1>8 DEF LineTypes, HalfFacts
  <2>2. QED
    BY <1>4, <1>6, <1>8, <2>1
<1>9. ASSUME rx_bit_index = DataBits + 1, tx_bits_left = 0
      PROVE  rx_sync = LineBit(sent[frames + 1], rx_bit_index + 1)
  <2>1. rx_bit_index + 1 = DataBits + 2
    BY <1>2, <1>9 DEF LineTypes
  <2>2. QED
    BY <1>4, <1>5, <1>9, <2>1
<1>10. ASSUME rx_bit_index = DataBits + 1, tx_bits_left = FrameBits, TxClock = 0
       PROVE  rx_sync = LineBit(sent[frames + 1], rx_bit_index + 1)
  <2>1. rx_bit_index + 1 = DataBits + 2 /\ TxBit = 0 /\ tx_bits_left # 0 /\ ~(TxClock >= 2)
    BY <1>2, <1>10 DEF LineTypes
  <2>2. QED
    BY <1>4, <1>5, <2>1
<1>11. ~(RxClock < 0)
  BY <1>1, <1>3 DEF HalfFacts
<1>12. QED
  BY <1>7, <1>8, <1>9, <1>10, <1>11 DEF Locked

\* It sees the start of a frame two clocks after the frame has begun, and at no other time.
LEMMA FallsRight ==
    ASSUME DriverInv, ResetDiv >= 3, TxInv, Listening, rx_busy = 0
    PROVE  RxFalls <=> tx_bits_left = FrameBits /\ Loaded = frames + 1 /\ TxClock = 2
<1>1. LineTypes
  BY LineTyped
<1>2. RxFalls <=> rx_sync_q = 1 /\ rx_sync = 0
  BY DEF RxFalls, DriverInv, Settled
<1>3. /\ rx_sync = IF tx_bits_left = 0 THEN 1
                   ELSE LineBit(Current, IF TxClock >= 2 THEN TxBit + 1 ELSE TxBit)
      /\ rx_sync_q = IF tx_bits_left = 0 THEN 1
                     ELSE LineBit(Current, IF TxClock >= 3 THEN TxBit + 1 ELSE TxBit)
  BY DEF TxInv, Ago
<1>4. \A byte : LineBit(byte, 0) = 1 /\ LineBit(byte, 1) = 0 /\ LineBit(byte, FrameBits) = 1
  BY LineEnds DEF FrameBits
<1>5. CASE tx_bits_left = 0 /\ Loaded = frames
  BY <1>1, <1>2, <1>3, <1>5 DEF LineTypes
<1>6. CASE tx_bits_left = 1 /\ Loaded = frames /\ TxClock >= 3
  <2>1. TxBit + 1 = FrameBits /\ TxClock >= 2 /\ tx_bits_left # FrameBits
    BY <1>1, <1>6 DEF LineTypes
  <2>2. QED
    BY <1>2, <1>3, <1>4, <1>6, <2>1
<1>7. CASE tx_bits_left = FrameBits /\ Loaded = frames + 1 /\ TxClock <= 2
  <2>1. TxBit = 0 /\ TxBit + 1 = 1 /\ tx_bits_left # 0 /\ ~(TxClock >= 3) /\ TxClock \in Int
    BY <1>1, <1>7 DEF LineTypes
  <2>2. CASE TxClock = 2
    BY <1>2, <1>3, <1>4, <1>7, <2>1, <2>2
  <2>3. CASE TxClock # 2
    <3>1. ~(TxClock >= 2)
      BY <1>7, <2>1, <2>3
    <3>2. QED
      BY <1>2, <1>3, <1>4, <2>1, <2>3, <3>1
  <2>4. QED
    BY <2>2, <2>3
<1>8. QED
  BY <1>5, <1>6, <1>7 DEF Listening

\* What the receiver and the transmitter do at an edge, in numbers.
EdgeFacts(h) ==
    /\ HalfFacts(h) /\ LineTypes /\ TxMoves
    /\ RxClock = 3 + h - rx_baud_count /\ RxClock' = 3 + h - rx_baud_count'
    /\ TxClock' = ResetDiv - 1 - tx_baud_count'
    /\ tx_bits_left > 0 => tx_baud_count < ResetDiv

\* They hold at every edge.
LEMMA EdgeNumbers ==
    ASSUME DriverInv, ResetDiv >= 3, TxInv, NEW req, NEW t, ClockAt(req, t)
    PROVE  EdgeFacts(ResetDiv \div 2)
<1>1. HalfFacts(ResetDiv \div 2)
  BY Half DEF HalfFacts
<1>2. LineTypes /\ TxMoves
  BY LineTyped, TxStep DEF TxInv
<1>3. QED
  BY <1>1, <1>2 DEF EdgeFacts, RxClock, TxClock, TxInv

\* While the receiver counts, the transmitter moves along with it.
LEMMA CountLocked ==
    ASSUME NEW h, EdgeFacts(h), Locked, rx_baud_count # 0, rx_baud_count' = rx_baud_count - 1,
           rx_bit_index' = rx_bit_index, frames' = frames
    PROVE  Locked'
<1>1. /\ rx_baud_count' < ResetDiv /\ (rx_bit_index' = 0 => RxClock' >= 3)
      /\ RxClock' = RxClock + 1 /\ RxClock <= 2 + h /\ ResetDiv - h >= 2 /\ RxClock \in Int
      /\ h \in Nat
  BY DEF EdgeFacts, HalfFacts, LineTypes, Locked
<1>2. CASE /\ RxClock < 0 /\ Loaded = frames + 1
           /\ tx_bits_left = FrameBits - rx_bit_index + 1 /\ TxClock = RxClock + ResetDiv
  <2>1. \/ /\ RxClock' < 0 /\ Loaded' = frames' + 1
           /\ tx_bits_left' = FrameBits - rx_bit_index' + 1 /\ TxClock' = RxClock' + ResetDiv
        \/ /\ RxClock' \in 0..ResetDiv - 1 /\ Loaded' = frames' + 1
           /\ tx_bits_left' = FrameBits - rx_bit_index' /\ TxClock' = RxClock'
    BY <1>1, <1>2 DEF EdgeFacts, LineTypes, TxMoves
  <2>2. QED
    BY <1>1, <2>1 DEF Locked
<1>3. CASE /\ RxClock \in 0..ResetDiv - 1 /\ Loaded = frames + 1
           /\ tx_bits_left = FrameBits - rx_bit_index /\ TxClock = RxClock
  <2>1. \/ /\ RxClock' \in 0..ResetDiv - 1 /\ Loaded' = frames' + 1
           /\ tx_bits_left' = FrameBits - rx_bit_index' /\ TxClock' = RxClock'
        \/ /\ RxClock' >= ResetDiv /\ rx_bit_index' # DataBits + 1 /\ Loaded' = frames' + 1
           /\ tx_bits_left' = FrameBits - rx_bit_index' - 1 /\ TxClock' = RxClock' - ResetDiv
        \/ /\ RxClock' >= ResetDiv /\ rx_bit_index' = DataBits + 1 /\ Loaded' = frames' + 1
           /\ tx_bits_left' = 0
    BY <1>1, <1>3 DEF EdgeFacts, LineTypes, TxMoves
  <2>2. QED
    BY <1>1, <2>1 DEF Locked
<1>4. CASE /\ RxClock >= ResetDiv /\ rx_bit_index # DataBits + 1 /\ Loaded = frames + 1
           /\ tx_bits_left = FrameBits - rx_bit_index - 1 /\ TxClock = RxClock - ResetDiv
  <2>1. \/ /\ RxClock' >= ResetDiv /\ rx_bit_index' # DataBits + 1 /\ Loaded' = frames' + 1
           /\ tx_bits_left' = FrameBits - rx_bit_index' - 1 /\ TxClock' = RxClock' - ResetDiv
    BY <1>1, <1>4 DEF EdgeFacts, LineTypes, TxMoves
  <2>2. QED
    BY <1>1, <2>1 DEF Locked
<1>5. CASE /\ RxClock >= ResetDiv /\ rx_bit_index = DataBits + 1 /\ Loaded = frames + 1
           /\ tx_bits_left = 0
  <2>1. \/ /\ RxClock' >= ResetDiv /\ rx_bit_index' = DataBits + 1 /\ Loaded' = frames' + 1
           /\ tx_bits_left' = 0
        \/ /\ RxClock' = ResetDiv + 1 /\ rx_bit_index' = DataBits + 1 /\ Loaded' = frames' + 2
           /\ tx_bits_left' = FrameBits /\ TxClock' = 0
    BY <1>1, <1>5 DEF EdgeFacts, LineTypes, TxMoves
  <2>2. QED
    BY <1>1, <2>1 DEF Locked
<1>6. RxClock # ResetDiv + 1
  BY <1>1 DEF EdgeFacts, LineTypes, HalfFacts
<1>7. QED
  BY <1>2, <1>3, <1>4, <1>5, <1>6 DEF Locked

\* From a sample to the next one is a bit.
LEMMA SampleLocked ==
    ASSUME NEW h, EdgeFacts(h), Locked, rx_baud_count = 0, rx_bit_index # DataBits + 1,
           rx_baud_count' = ResetDiv - 1, rx_bit_index' = rx_bit_index + 1, frames' = frames
    PROVE  Locked'
<1>1. /\ rx_baud_count' < ResetDiv /\ (rx_bit_index' = 0 => RxClock' >= 3)
      /\ RxClock = 3 + h /\ RxClock' = 4 + h - ResetDiv /\ ResetDiv - h >= 2 /\ h \in Nat
  BY DEF EdgeFacts, HalfFacts, LineTypes
<1>2. CASE RxClock \in 0..ResetDiv - 1 /\ Loaded = frames + 1
           /\ tx_bits_left = FrameBits - rx_bit_index /\ TxClock = RxClock
  BY <1>1, <1>2 DEF EdgeFacts, LineTypes, TxMoves, Locked
<1>3. CASE RxClock >= ResetDiv /\ rx_bit_index # DataBits + 1 /\ Loaded = frames + 1
           /\ tx_bits_left = FrameBits - rx_bit_index - 1 /\ TxClock = RxClock - ResetDiv
  BY <1>1, <1>3 DEF EdgeFacts, LineTypes, TxMoves, Locked
<1>4. ~(RxClock < 0)
  BY <1>1
<1>5. QED
  BY <1>2, <1>3, <1>4 DEF Locked

\* The receiver is done in the stop bit, or within a clock of its end.
LEMMA StopListening ==
    ASSUME NEW h, EdgeFacts(h), Locked, rx_baud_count = 0, rx_bit_index = DataBits + 1,
           frames' = frames + 1
    PROVE  Listening'
<1>1. RxClock = 3 + h /\ ResetDiv - h >= 2 /\ h \in Nat /\ ~(RxClock < 0)
  BY DEF EdgeFacts, HalfFacts, LineTypes
<1>2. QED
  BY <1>1 DEF EdgeFacts, LineTypes, TxMoves, Locked, Listening

\* The start bit is seen, and its middle is half a bit away.
LEMMA DetectLocked ==
    ASSUME NEW h, EdgeFacts(h), tx_bits_left = FrameBits, Loaded = frames + 1, TxClock = 2,
           rx_bit_index' = 0, rx_baud_count' = h, frames' = frames
    PROVE  Locked'
<1>1. RxClock' = 3 /\ h < ResetDiv
  BY DEF EdgeFacts, HalfFacts, LineTypes
<1>2. QED
  BY <1>1 DEF EdgeFacts, LineTypes, TxMoves, Locked

\* Until then the receiver waits for it.
LEMMA IdleListening ==
    ASSUME NEW h, EdgeFacts(h), Listening, frames' = frames,
           ~(tx_bits_left = FrameBits /\ Loaded = frames + 1 /\ TxClock = 2)
    PROVE  Listening'
BY DEF EdgeFacts, LineTypes, TxMoves, Listening

\* The bits that were sampled stay, and the frame they are of.
LEMMA FrameStays ==
    ASSUME DriverInv, ResetDiv >= 3, TxInv, Locked, NEW req, NEW t, ClockAt(req, t)
    PROVE  frames + 1 \in 1..Len(sent) /\ sent'[frames + 1] = sent[frames + 1]
<1>1. LineTypes /\ \A i \in 1..Len(sent) : sent'[i] = sent[i]
  BY LineTyped, TxRingStep
<1>2. frames + 1 \in 1..Len(sent)
  BY <1>1 DEF LineTypes, Locked
<1>3. QED
  BY <1>1, <1>2

\* The receiver stays in step with the line.
LEMMA StepKept ==
    ASSUME DriverInv, ResetDiv >= 3, TxInv, InStep, NEW req, NEW t, ClockAt(req, t)
    PROVE  InStep'
<1> DEFINE h == ResetDiv \div 2
<1>1. EdgeFacts(h)
  BY EdgeNumbers
<1>2. /\ frames' = frames + (IF RxStop THEN 1 ELSE 0) /\ frames \in Nat
      /\ RxDetect \/ RxCount \/ RxStart \/ RxData \/ RxEnd \/ RxIdle
  BY RxRingStep DEF ClockAt, Edge, RxEdge, DriverInv, Counts
<1>3. /\ baud_div = ResetDiv /\ rx_busy \in {0, 1} /\ rx_bit_index \in 0..DataBits + 1
      /\ rx_shift \in Byte /\ DataBits \in Nat /\ DataBits >= 1
  BY UartAssumption DEF DriverInv, Settled, TypeOK, UartTypeOK, Bit
<1>4. baud_div \div 2 = h
  BY <1>3
<1> HIDE DEF h
<1>5. rx_busy = 1 => Locked
  BY DEF InStep, Receiving
<1>6. ASSUME rx_busy = 1, rx_baud_count = 0
      PROVE  rx_sync = LineBit(sent[frames + 1], rx_bit_index + 1)
  BY <1>5, <1>6, SampleRight
<1>7. ASSUME rx_busy = 1 PROVE frames + 1 \in 1..Len(sent) /\ sent'[frames + 1] = sent[frames + 1]
  BY <1>5, <1>7, FrameStays
<1>8. CASE RxDetect
  <2>1. /\ rx_busy = 0 /\ RxFalls /\ rx_busy' = 1 /\ rx_bit_index' = 0 /\ rx_baud_count' = h
        /\ frames' = frames /\ Listening
    BY <1>2, <1>4, <1>8 DEF RxDetect, RxFalls, RxStop, RxSamples, InStep
  <2>2. tx_bits_left = FrameBits /\ Loaded = frames + 1 /\ TxClock = 2
    BY <2>1, FallsRight
  <2>3. Locked'
    BY <1>1, <2>1, <2>2, DetectLocked
  <2>4. \A j \in 1..DataBits : ~(j < rx_bit_index')
    BY <2>1
  <2>5. QED
    BY <2>1, <2>3, <2>4 DEF InStep, Receiving
<1>9. CASE RxCount
  <2>1. /\ rx_busy = 1 /\ rx_busy' = 1 /\ rx_baud_count # 0 /\ rx_baud_count' = rx_baud_count - 1
        /\ UNCHANGED <<rx_bit_index, frames, rx_shift>>
    BY <1>2, <1>9 DEF RxCount, RxStop, RxSamples
  <2>2. Locked'
    BY <1>1, <1>5, <2>1, CountLocked
  <2>3. QED
    BY <1>7, <2>1, <2>2 DEF InStep, Receiving
<1>10. CASE RxStart
  <2>1. rx_busy = 1 /\ rx_baud_count = 0 /\ rx_bit_index = 0 /\ frames' = frames
    BY <1>2, <1>3, <1>10 DEF RxStart, RxSamples, RxStop
  <2>2. rx_sync = 0
    <3>1. rx_sync = LineBit(sent[frames + 1], 1)
      BY <1>6, <2>1
    <3>2. QED
      BY <3>1, LineEnds
  <2>3. /\ rx_bit_index' = 1 /\ rx_baud_count' = ResetDiv - 1 /\ rx_busy' = 1
    BY <1>3, <1>10, <2>2 DEF RxStart
  <2>4. Locked'
    <3>1. rx_bit_index # DataBits + 1 /\ rx_bit_index' = rx_bit_index + 1
      BY <1>3, <2>1, <2>3
    <3>2. QED
      BY <1>1, <1>5, <2>1, <2>3, <3>1, SampleLocked
  <2>5. \A j \in 1..DataBits : ~(j < rx_bit_index')
    BY <2>3
  <2>6. QED
    BY <2>3, <2>4, <2>5 DEF InStep, Receiving
<1>11. CASE RxData
  <2>1. /\ rx_busy = 1 /\ rx_baud_count = 0 /\ rx_bit_index \in 1..DataBits /\ frames' = frames
        /\ rx_shift' = [rx_shift EXCEPT ![rx_bit_index] = rx_sync] /\ rx_busy' = 1
        /\ rx_bit_index' = rx_bit_index + 1 /\ rx_baud_count' = ResetDiv - 1
        /\ rx_bit_index # DataBits + 1
    BY <1>2, <1>3, <1>11 DEF RxData, RxSamples, RxStop
  <2>2. rx_sync = sent[frames + 1][rx_bit_index]
    <3>1. rx_sync = LineBit(sent[frames + 1], rx_bit_index + 1)
      BY <1>6, <2>1
    <3>2. QED
      BY <2>1, <3>1, LineEnds
  <2>3. Locked'
    BY <1>1, <1>5, <2>1, SampleLocked
  <2>4. ASSUME NEW j \in 1..DataBits, j < rx_bit_index'
        PROVE  rx_shift'[j] = sent[frames + 1][j]
    <3>1. j = rx_bit_index \/ (j # rx_bit_index /\ j < rx_bit_index)
      BY <1>3, <2>1, <2>4
    <3>2. CASE j = rx_bit_index
      BY <1>3, <2>1, <2>2, <3>2 DEF Byte
    <3>3. CASE j # rx_bit_index /\ j < rx_bit_index
      <4>1. rx_shift[j] = sent[frames + 1][j]
        BY <2>1, <3>3 DEF InStep, Receiving
      <4>2. rx_shift'[j] = rx_shift[j]
        BY <1>3, <2>1, <3>3 DEF Byte
      <4>3. QED
        BY <4>1, <4>2
    <3>4. QED
      BY <3>1, <3>2, <3>3
  <2>5. QED
    BY <1>7, <2>1, <2>3, <2>4 DEF InStep, Receiving
<1>12. CASE RxEnd
  <2>1. /\ rx_busy = 1 /\ rx_baud_count = 0 /\ rx_bit_index = DataBits + 1 /\ rx_busy' = 0
        /\ frames' = frames + 1
    BY <1>2, <1>12 DEF RxEnd, RxStop, RxSamples
  <2>2. Listening'
    BY <1>1, <1>5, <2>1, StopListening
  <2>3. QED
    BY <2>1, <2>2 DEF InStep
<1>13. CASE RxIdle
  <2>1. rx_busy = 0 /\ ~RxFalls /\ rx_busy' = 0 /\ frames' = frames /\ Listening
    BY <1>2, <1>13 DEF RxIdle, RxStop, RxSamples, InStep
  <2>2. ~(tx_bits_left = FrameBits /\ Loaded = frames + 1 /\ TxClock = 2)
    BY <2>1, FallsRight
  <2>3. Listening'
    BY <1>1, <2>1, <2>2, IdleListening
  <2>4. QED
    BY <2>1, <2>3 DEF InStep
<1>14. QED
  BY <1>2, <1>8, <1>9, <1>10, <1>11, <1>12, <1>13

\* No frame is ended that was not sent.
LEMMA FramesSent ==
    ASSUME DriverInv, ResetDiv >= 3, InStep PROVE frames <= Len(sent)
<1>1. LineTypes
  BY LineTyped
<1>2. QED
  BY <1>1 DEF LineTypes, InStep, Receiving, Locked, Listening

\* A byte is its bits.
LEMMA SameBits ==
    ASSUME NEW a \in Byte, NEW b \in Byte, \A j \in 1..DataBits : a[j] = b[j] PROVE a = b
<1>1. a = [j \in 1..DataBits |-> a[j]] /\ b = [j \in 1..DataBits |-> b[j]]
  BY DEF Byte
<1>2. QED
  BY <1>1

\* What the receiver keeps is what was sent.
LEMMA KeptKept ==
    ASSUME DriverInv, ResetDiv >= 3, InStep, KeptInv, NEW req, NEW t, ClockAt(req, t)
    PROVE  KeptInv'
<1> DEFINE o == RxOut(req)
<1>1. /\ rx'.count = rx.count - o + RxIn /\ rx'.count \in Nat
      /\ Len(got') = Len(got) + o
      /\ \A i \in 1..Len(got) : got'[i] = got[i]
      /\ o = 1 => got'[Len(got) + 1] = Oldest(rx, 1)
      /\ Len(kept') = Len(kept) + RxIn
      /\ \A i \in 1..Len(kept) : kept'[i] = kept[i]
      /\ RxIn = 1 => kept'[Len(kept) + 1] = frames + 1
      /\ frames' = frames + (IF RxStop THEN 1 ELSE 0) /\ (RxIn = 1 => RxStop)
      /\ \A i \in 1..rx'.count :
            Oldest(rx', i) = IF i + o <= rx.count THEN Oldest(rx, i + o) ELSE rx_shift
  BY RxRingStep DEF Ring
<1>2. /\ Len(got) \in Nat /\ Len(kept) \in Nat /\ frames \in Nat /\ rx.count \in Nat
      /\ Len(got) = Len(kept) - rx.count /\ o \in 0..1 /\ RxIn \in 0..1
      /\ o = 1 => rx.count >= 1
  <2>1. /\ got \in Seq(Byte) /\ kept \in Seq(Nat) /\ frames \in Nat /\ rx.count \in Nat
        /\ Len(kept) = Len(got) + rx.count
    BY DEF DriverInv, TypeOK, UartTypeOK, Counts, Ring
  <2>2. o \in 0..1 /\ RxIn \in 0..1 /\ (o = 1 => rx.count # 0)
    BY DEF RxOut, RxIn, rx_pop, Empty
  <2>3. Len(got) \in Nat /\ Len(kept) \in Nat
    BY <2>1
  <2> HIDE DEF o
  <2>4. QED
    BY <2>1, <2>2, <2>3
<1>3. \A i \in 1..Len(sent) : sent'[i] = sent[i]
  BY TxRingStep
<1>4. frames <= Len(sent) /\ Len(sent) \in Nat
  BY FramesSent DEF DriverInv, TypeOK
<1>5. ASSUME NEW i \in 1..Len(kept)
      PROVE  kept[i] \in 1..frames /\ kept'[i] = kept[i] /\ sent'[kept[i]] = sent[kept[i]]
  <2>1. kept[i] \in 1..frames /\ kept'[i] = kept[i]
    BY <1>1 DEF KeptInv
  <2>2. kept[i] \in 1..Len(sent)
    BY <1>2, <1>4, <2>1
  <2>3. QED
    BY <1>3, <2>1, <2>2
<1> HIDE DEF o
<1>6. ASSUME NEW i \in 1..Len(kept') PROVE kept'[i] \in 1..frames'
  <2>1. CASE i \in 1..Len(kept)
    <3>1. kept'[i] \in 1..frames
      BY <1>5, <2>1
    <3>2. frames' = frames \/ frames' = frames + 1
      BY <1>1, <1>2
    <3>3. QED
      BY <1>2, <3>1, <3>2
  <2>2. CASE i \notin 1..Len(kept)
    <3>1. RxIn = 1 /\ i = Len(kept) + 1
      <4>1. i \in 1..Len(kept) + RxIn
        BY <1>1
      <4>2. QED
        BY <1>2, <2>2, <4>1
    <3>2. QED
      BY <1>1, <1>2, <3>1
  <2>3. QED
    BY <2>1, <2>2
<1>7. ASSUME NEW i \in 1..Len(got') PROVE got'[i] = sent'[kept'[i]]
  <2>1. CASE i \in 1..Len(got)
    <3>1. i \in 1..Len(kept)
      BY <1>2, <2>1
    <3>2. got[i] = sent[kept[i]]
      BY <2>1 DEF KeptInv
    <3>3. QED
      BY <1>1, <1>5, <2>1, <3>1, <3>2
  <2>2. CASE i \notin 1..Len(got)
    <3>1. o = 1 /\ i = Len(got) + 1
      <4>1. i \in 1..Len(got) + o
        BY <1>1
      <4>2. QED
        BY <1>2, <2>2, <4>1
    <3>2. 1 \in 1..rx.count /\ Len(got) + 1 \in 1..Len(kept)
      BY <1>2, <3>1
    <3>3. Oldest(rx, 1) = sent[kept[Len(got) + 1]]
      BY <3>2 DEF KeptInv
    <3>4. QED
      BY <1>1, <1>5, <3>1, <3>2, <3>3
  <2>3. QED
    BY <2>1, <2>2
<1>8. ASSUME RxIn = 1
      PROVE  rx_shift = sent[frames + 1] /\ frames + 1 \in 1..Len(sent)
  <2>1. rx_busy = 1 /\ rx_bit_index = DataBits + 1
    BY <1>1, <1>8 DEF RxStop, RxSamples
  <2>2. Locked /\ \A j \in 1..DataBits : j < rx_bit_index => rx_shift[j] = sent[frames + 1][j]
    BY <2>1 DEF InStep, Receiving
  <2>3. LineTypes
    BY LineTyped
  <2>4. frames + 1 \in 1..Len(sent)
    BY <2>2, <2>3 DEF LineTypes, Locked
  <2>5. sent[frames + 1] \in Byte /\ rx_shift \in Byte
    BY <2>4 DEF DriverInv, TypeOK, UartTypeOK
  <2>6. \A j \in 1..DataBits : rx_shift[j] = sent[frames + 1][j]
    BY <2>1, <2>2, <2>3 DEF LineTypes
  <2>7. QED
    BY <2>4, <2>5, <2>6, SameBits
<1>9. ASSUME NEW i \in 1..rx'.count PROVE Oldest(rx', i) = sent'[kept'[Len(got') + i]]
  <2>1. i \in Nat /\ i >= 1 /\ o \in Nat
    BY <1>1, <1>2
  <2>2. PositionFacts(Len(got), Len(kept), rx.count, o, i)
    BY <1>2, <2>1, Positions, Zenon
  <2>3. CASE i + o <= rx.count
    <3>1. Len(got) + (i + o) \in 1..Len(kept) /\ Len(got') + i = Len(got) + (i + o)
      BY <1>1, <2>1, <2>2, <2>3 DEF PositionFacts
    <3>2. i + o \in 1..rx.count
      BY <1>2, <2>1, <2>3
    <3>3. Oldest(rx, i + o) = sent[kept[Len(got) + (i + o)]]
      BY <3>2 DEF KeptInv
    <3>4. QED
      BY <1>1, <1>5, <2>3, <3>1, <3>3
  <2>4. CASE ~(i + o <= rx.count)
    <3>1. RxIn = 1 /\ i + o = rx.count + 1
      <4>1. i <= rx.count - o + RxIn
        BY <1>1
      <4>2. QED
        BY <1>2, <2>1, <2>4, <4>1
    <3>2. Len(got') + i = Len(kept) + 1
      BY <1>1, <2>2, <3>1 DEF PositionFacts
    <3>3. Oldest(rx', i) = rx_shift
      BY <1>1, <2>4
    <3>4. QED
      BY <1>1, <1>3, <1>8, <3>1, <3>2, <3>3
  <2>5. QED
    BY <2>3, <2>4
<1>10. QED
  BY <1>6, <1>7, <1>9 DEF KeptInv
-----------------------------------------------------------------------------
(***************************************************************************)
(* The theorems.                                                           *)
(***************************************************************************)
\* After reset the rings are empty and nobody is in the driver.
LEMMA DriverStarts == Init => DriverInv
<1> SUFFICES ASSUME Init PROVE DriverInv
  OBVIOUS
<1>1. DataBits \in Nat \ {0} /\ Depth \in Nat \ {0} /\ ResetDiv \in Nat /\ ResetDiv >= 2
  BY UartAssumption
<1>2. PICK byte \in Byte : /\ tx = [fifo |-> [i \in 0..Depth - 1 |-> byte], wr |-> 0, rd |-> 0,
                                    count |-> 0]
                           /\ rx = tx
  BY DEF Init, UartInit
<1>3. tx \in Ring /\ rx \in Ring /\ tx.count = 0 /\ rx.count = 0
  BY <1>1, <1>2 DEF Ring
<1>4. UartTypeOK
  <2>1. tx_shift \in [1..DataBits + 2 -> Bit] /\ rx_shift \in Byte
    BY DEF Init, UartInit, Bit, Byte
  <2>2. QED
    BY <1>1, <1>3, <2>1 DEF Init, UartInit, UartTypeOK, Bit
<1>5. RingsConsistent
  <2>1. 0 \in 0..2 * Depth - 1 /\ Wrap(0) = 0
    BY <1>1 DEF Wrap
  <2>2. 0 % Depth = 0
    BY <2>1, Wraps
  <2>3. QED
    BY <1>2, <2>2 DEF RingsConsistent
<1>6. sent \in Seq(Byte) /\ Len(sent) = 0 /\ got = <<>> /\ kept = <<>> /\ frames = 0
  BY DEF Init
<1>7. TypeOK
  <2>1. (CHOOSE c \in Byte : TRUE) \in Byte
    BY <1>2
  <2>2. ch \in [Threads -> Byte]
    BY <2>1 DEF Init
  <2>3. QED
    BY <1>4, <1>6, <2>2, DriverAssumption DEF Init, TypeOK, Pcs
<1>8. Counts
  <2>1. Printing = {}
    BY DriverAssumption DEF Init, Printing, Threads
  <2>2. IsFiniteSet(Printing) /\ Cardinality(Printing) = 0
    BY <2>1, FS_EmptySet
  <2>3. pc[Reader] = "boot_div" /\ \A t \in Writers : pc[t] = "idle"
    BY DriverAssumption DEF Init, Threads
  <2>4. tx_bits_left = 0 /\ printing = 0 /\ \A t \in Threads : last[t] = 0
    BY DEF Init, UartInit
  <2>5. QED
    BY <1>3, <1>6, <2>2, <2>3, <2>4 DEF Counts
<1>9. Settled
  BY DEF Init, UartInit, Settled
<1>10. FlushMeansSent
  BY DriverAssumption DEF Init, FlushMeansSent, Threads
<1>11. QED
  BY <1>5, <1>7, <1>8, <1>9, <1>10 DEF DriverInv

\* The registers of the UART and the driver keep their types, and the pointers and the count
\* of each ring of uart.sv agree after any pushes and pops, at one edge or not, at empty and
\* at full, for every depth: at most MaxBytes calls of uart_early_putc, whoever makes them.
THEOREM RingsStayConsistent == Spec => []RingInv
<1>1. DriverInv => RingInv
  BY DEF DriverInv, RingInv
<1>2. QED
  BY <1>1, DriverStarts, DriverKept, PTL DEF Spec

\* When uart_flush returns, the stop bit of every byte its caller printed is on the line,
\* also while other threads print (drv_uart.c uart_flush, uart.sv tx_idle).
THEOREM FlushWaitsForTheLine == Spec => []FlushMeansSent
<1>1. DriverInv => FlushMeansSent
  BY DEF DriverInv
<1>2. QED
  BY <1>1, DriverStarts, DriverKept, PTL DEF Spec

\* After reset the line is idle.
LEMMA LineStarts == Init => LineInv
<1> SUFFICES ASSUME Init PROVE LineInv
  OBVIOUS
<1>1. DriverInv
  BY DriverStarts
<1>2. /\ tx.count = 0 /\ rx.count = 0 /\ tx_bits_left = 0 /\ rx_busy = 0
      /\ rx_meta = 1 /\ rx_sync = 1 /\ rx_sync_q = 1
      /\ Len(sent) = 0 /\ Len(got) = 0 /\ Len(kept) = 0 /\ frames = 0
  BY DEF Init, UartInit
<1>3. TxInv
  BY <1>2 DEF TxInv, Queued, Ago
<1>4. InStep
  BY <1>2 DEF InStep, Listening, Loaded
<1>5. KeptInv
  BY <1>2 DEF KeptInv
<1>6. QED
  BY <1>1, <1>3, <1>4, <1>5 DEF LineInv

\* Every step keeps receiver and line in step.
LEMMA LineKept ==
    ASSUME ResetDiv >= 3 PROVE LineInv /\ [Next]_vars => LineInv'
<1> SUFFICES ASSUME LineInv, [Next]_vars PROVE LineInv'
  OBVIOUS
<1>1. DriverInv /\ TxInv /\ InStep /\ KeptInv
  BY DEF LineInv
<1>2. DriverInv'
  BY <1>1, DriverKept
<1>3. CASE Called
  <2>1. UNCHANGED <<tx, tx_shift, tx_bits_left, tx_baud_count, rx_meta, rx_sync, rx_sync_q, rx,
                    rx_busy, rx_bit_index, rx_baud_count, rx_shift, sent, got, kept, frames>>
    BY <1>3 DEF Called, uartVars, txVars, rxVars, ghostVars
  <2>2. UNCHANGED <<Loaded, TxBit, TxClock, RxClock>>
    BY <2>1 DEF Loaded, TxBit, TxClock, RxClock
  <2>3. UNCHANGED Current
    BY <2>1, <2>2 DEF Current
  <2>4. TxInv'
    BY <1>1, <2>1, <2>2, <2>3 DEF TxInv, Queued, Ago
  <2>5. InStep'
    BY <1>1, <2>1, <2>2 DEF InStep, Receiving, Locked, Listening
  <2>6. KeptInv'
    BY <1>1, <2>1 DEF KeptInv
  <2>7. QED
    BY <1>2, <2>4, <2>5, <2>6 DEF LineInv
<1>4. ASSUME NEW req, NEW t, ClockAt(req, t) PROVE LineInv'
  BY <1>1, <1>2, <1>4, TxKept, StepKept, KeptKept DEF LineInv
<1>5. QED
  BY <1>1, <1>3, <1>4, Clocks

\* What was received is what was sent, whole frames that met a full ring excepted.
LEMMA LineIsTrue == ASSUME ResetDiv >= 3, LineInv PROVE NothingCorrupted
<1>1. frames <= Len(sent)
  BY FramesSent DEF LineInv
<1>2. /\ rx \in Ring /\ got \in Seq(Byte) /\ rx.count \in Nat /\ Len(got) \in Nat
      /\ Len(kept) = Len(got) + rx.count /\ Depth \in Nat /\ Depth > 0
  BY UartAssumption DEF LineInv, DriverInv, TypeOK, UartTypeOK, Counts, Ring
<1> DEFINE c == Contents(rx)
<1>3. /\ c \in [1..rx.count -> Byte] /\ \A i \in 1..rx.count : c[i] = Oldest(rx, i)
  <2>1. ASSUME NEW i \in 1..rx.count PROVE Oldest(rx, i) \in Byte
    <3>1. rx.rd + i - 1 \in 0..2 * Depth - 1 /\ Wrap(rx.rd + i - 1) \in 0..Depth - 1
      BY <1>2 DEF Ring, Wrap
    <3>2. (rx.rd + i - 1) % Depth = Wrap(rx.rd + i - 1)
      BY <3>1, Wraps
    <3>3. QED
      BY <1>2, <3>1, <3>2 DEF Oldest, Ring
  <2>2. c = [i \in 1..rx.count |-> Oldest(rx, i)]
    BY DEF Contents, Oldest
  <2>3. QED
    BY <2>1, <2>2
<1> HIDE DEF c
<1>4. c \in Seq(Byte) /\ Len(c) = rx.count
  <2>1. c \in Seq(Byte)
    BY <1>2, <1>3, SeqDef
  <2>2. QED
    BY <1>2, <1>3, <2>1, LenProperties
<1>5. /\ Len(Received) = Len(kept)
      /\ \A i \in 1..Len(got) + Len(c) :
            Received[i] = IF i <= Len(got) THEN got[i] ELSE c[i - Len(got)]
  <2>1. Received = got \o c
    BY DEF Received, c
  <2>2. QED
    BY <1>2, <1>4, <2>1, ConcatProperties
<1>6. ASSUME NEW i \in 1..Len(kept) PROVE Received[i] = sent[kept[i]]
  <2>1. CASE i <= Len(got)
    BY <1>2, <1>4, <1>5, <2>1 DEF LineInv, KeptInv
  <2>2. CASE ~(i <= Len(got))
    <3>1. i - Len(got) \in 1..rx.count /\ Len(got) + (i - Len(got)) = i
      BY <1>2, <2>2
    <3>2. Oldest(rx, i - Len(got)) = sent[kept[Len(got) + (i - Len(got))]]
      BY <3>1 DEF LineInv, KeptInv
    <3>3. QED
      BY <1>2, <1>3, <1>4, <1>5, <2>2, <3>1, <3>2
  <2>3. QED
    BY <2>1, <2>2
<1>7. QED
  BY <1>1, <1>5, <1>6 DEF NothingCorrupted

\* What the receiver holds and has handed out is what was printed, byte for byte and in
\* order, except for whole frames that met a full ring, for every divisor of at least 3: no
\* frame of uart.sv is missed, seen twice or sampled outside its bits, however the frames
\* follow each other and however the driver's accesses fall between the clocks.
THEOREM LineIsNotCorrupted ==
    ASSUME ResetDiv >= 3 PROVE Spec => []NothingCorrupted
<1>1. LineInv => NothingCorrupted
  BY LineIsTrue
<1>2. LineInv /\ [Next]_vars => LineInv'
  BY LineKept
<1>3. QED
  BY <1>1, <1>2, LineStarts, PTL DEF Spec

\* A frame that the receiver of uart.sv ends is only dropped when its ring is full.
THEOREM FramesAreKept ==
    ASSUME ResetDiv >= 3 PROVE Spec => DropsOnlyWhenFull
<1>1. ASSUME LineInv, [Next]_vars
      PROVE  [frames' > frames /\ kept' = kept => rx.count = Depth]_vars
  <2> SUFFICES ASSUME frames' > frames, kept' = kept PROVE rx.count = Depth
    OBVIOUS
  <2>1. DriverInv /\ TxInv /\ InStep /\ frames \in Nat /\ kept \in Seq(Nat)
    BY <1>1 DEF LineInv, DriverInv, Counts
  <2>2. ~Called
    BY <2>1 DEF Called, ghostVars
  <2>3. PICK req, t : ClockAt(req, t)
    BY <1>1, <2>1, <2>2, Clocks
  <2>4. /\ frames' = frames + (IF RxStop THEN 1 ELSE 0) /\ Len(kept') = Len(kept) + RxIn
    BY <2>1, <2>3, RxRingStep
  <2>5. RxStop
    BY <2>1, <2>4
  <2>6. rx_busy = 1 /\ rx_baud_count = 0 /\ rx_bit_index = DataBits + 1 /\ Locked
    BY <2>1, <2>5 DEF RxStop, RxSamples, InStep, Receiving
  <2>7. rx_sync = LineBit(sent[frames + 1], rx_bit_index + 1)
    BY <2>1, <2>6, SampleRight
  <2>8. rx_bit_index + 1 = DataBits + 2
    BY <2>6, UartAssumption
  <2>9. rx_sync = 1
    BY <2>7, <2>8, LineEnds
  <2>10. ~rx_push
    <3>1. Len(kept) \in Nat /\ Len(kept') = Len(kept)
      BY <2>1
    <3>2. RxIn # 1
      BY <2>4, <3>1
    <3>3. QED
      BY <3>2 DEF RxIn
  <2>11. QED
    BY <2>5, <2>9, <2>10 DEF rx_push, Full
<1>2. LineInv /\ [Next]_vars => LineInv'
  BY LineKept
<1>3. QED
  BY <1>1, <1>2, LineStarts, PTL DEF Spec, DropsOnlyWhenFull
=============================================================================
