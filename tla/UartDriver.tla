----------------------------- MODULE UartDriver -----------------------------
(***************************************************************************)
(* The UART driver (software/bsp/drivers/drv_uart.c) called by several     *)
(* threads, with the transmitter's line looped back to the receiver: the   *)
(* far end of the line is a transmitter of the same kind.                  *)
(*                                                                         *)
(* A thread can be preempted between two bus accesses.  The bus runs one   *)
(* access at a time and takes any number of clocks to bring it to the      *)
(* UART; an access the UART does not answer holds the bus (and the core)   *)
(* until it does.                                                          *)
(***************************************************************************)
EXTENDS Uart

CONSTANTS
    Writers,    \* threads that call uart_early_putc and uart_flush
    Reader,     \* the thread that calls uart_getc_nonblocking
    Nobody,     \* not a thread
    Chars,      \* writer -> the characters it prints
    MaxBytes    \* bound: characters printed

ASSUME DriverAssumption ==
    /\ Chars \in [Writers -> (SUBSET Byte) \ {{}}] /\ Reader \notin Writers /\ MaxBytes \in Nat
    /\ Nobody \notin Writers \cup {Reader}

Threads == Writers \cup {Reader}

VARIABLES
    pc, ch,        \* where a thread is in the driver, the character it prints
    owner,         \* the thread whose access the UART has not answered
    printing,      \* calls of uart_early_putc so far
    sent, got,     \* bytes the transmitter accepted, bytes the reader got
    frames,        \* frames the receiver has ended
    kept,          \* which of them it pushed
    last           \* thread -> the position in sent of its last byte

driverVars == <<pc, ch, owner, printing>>
ghostVars  == <<sent, got, frames, kept, last>>
vars       == <<uartVars, driverVars, ghostVars>>

Pcs == {"boot_div", "boot_ctrl", "idle", "putc_poll", "putc_write",
        "getc_poll", "getc_read", "flush_poll", "flushed"}

TypeOK ==
    /\ UartTypeOK
    /\ pc \in [Threads -> Pcs]
    /\ ch \in [Threads -> Byte]
    /\ owner \in Threads \cup {Nobody}
    /\ printing \in 0..MaxBytes
    /\ sent \in Seq(Byte) /\ Len(sent) <= printing
    /\ Len(got) <= Len(kept) /\ Len(kept) <= frames
    /\ last \in [Threads -> 0..MaxBytes]

-----------------------------------------------------------------------------
\* The reader's thread boots the system: it runs uart_init first.
Init ==
    /\ UartInit
    /\ pc = [t \in Threads |-> IF t = Reader THEN "boot_div" ELSE "idle"]
    /\ ch = [t \in Threads |-> CHOOSE c \in Byte : TRUE]
    /\ owner = Nobody /\ printing = 0
    /\ sent = <<>> /\ got = <<>> /\ frames = 0 /\ kept = <<>>
    /\ last = [t \in Threads |-> 0]

Booted == pc[Reader] \notin {"boot_div", "boot_ctrl"}

\* A thread that is not in the driver calls one of its functions.
uart_early_putc(t) == t \in Writers /\ \E c \in Chars[t] :
    /\ Booted /\ pc[t] \in {"idle", "flushed"} /\ printing < MaxBytes
    /\ pc' = [pc EXCEPT ![t] = "putc_poll"]
    /\ ch' = [ch EXCEPT ![t] = c]
    /\ printing' = printing + 1
    /\ UNCHANGED <<uartVars, ghostVars, owner>>

uart_flush(t) ==
    /\ Booted /\ t \in Writers /\ pc[t] = "idle"
    /\ pc' = [pc EXCEPT ![t] = "flush_poll"]
    /\ UNCHANGED <<uartVars, ghostVars, ch, owner, printing>>

uart_getc_nonblocking ==
    /\ pc[Reader] = "idle"
    /\ pc' = [pc EXCEPT ![Reader] = "getc_poll"]
    /\ UNCHANGED <<uartVars, ghostVars, ch, owner, printing>>

\* The access a thread waits for, and where its answer takes the thread.
Access(t) ==
    CASE pc[t] = "boot_div"   -> Write("divisor", ResetDiv)
      [] pc[t] = "boot_ctrl"  -> Write("control", [tx |-> 1, rx |-> 1])
      [] pc[t] = "putc_write" -> Write("txdata", ch[t])
      [] pc[t] = "getc_read"  -> Read("rxdata")
      [] OTHER                -> Read("status")

After(t) ==
    CASE pc[t] = "boot_div"   -> "boot_ctrl"
      [] pc[t] = "putc_poll"  -> IF status.tx_ready THEN "putc_write" ELSE "putc_poll"
      [] pc[t] = "getc_poll"  -> IF status.rx_valid THEN "getc_read" ELSE "idle"
      [] pc[t] = "flush_poll" -> IF status.tx_empty THEN "flushed" ELSE "flush_poll"
      [] OTHER                -> "idle"

Observe(req, t) ==
    /\ sent' = IF tx_push(req) THEN Append(sent, req.data) ELSE sent
    /\ last' = IF tx_push(req) THEN [last EXCEPT ![t] = Len(sent) + 1] ELSE last
    /\ got' = IF Reads(req, "rxdata") THEN Append(got, rxdata) ELSE got
    /\ frames' = IF RxStop THEN frames + 1 ELSE frames
    /\ kept' = IF rx_push THEN Append(kept, frames + 1) ELSE kept

\* A clock of the UART at which no access, or thread t's, is at the bus.
QuietEdge ==
    /\ Edge(NoReq, uart_tx)
    /\ Observe(NoReq, Nobody)
    /\ UNCHANGED driverVars

AccessEdge(t) ==
    /\ pc[t] \notin {"idle", "flushed"} /\ owner \in {Nobody, t}
    /\ Edge(Access(t), uart_tx)
    /\ Observe(Access(t), t)
    /\ owner' = IF req_ready(Access(t)) THEN Nobody ELSE t
    /\ pc' = [pc EXCEPT ![t] = IF req_ready(Access(t)) THEN After(t) ELSE @]
    /\ UNCHANGED <<ch, printing>>

Next ==
    \/ \E t \in Threads : uart_early_putc(t) \/ uart_flush(t) \/ AccessEdge(t)
    \/ uart_getc_nonblocking
    \/ QuietEdge

Spec == Init /\ [][Next]_vars

\* The clock runs, and an access that the UART has not answered stays at it.
Fairness ==
    /\ WF_vars(QuietEdge \/ \E t \in Threads : AccessEdge(t))
    /\ WF_vars(\E t \in Threads : owner = t /\ AccessEdge(t))

LiveSpec == Spec /\ Fairness

-----------------------------------------------------------------------------
(***************************************************************************)
(* Properties.                                                             *)
(***************************************************************************)
\* The pointers and the count of a ring agree through every mix of pushes and
\* pops, also those of one edge, and so do those of a full ring.
RingsConsistent ==
    \A q \in {tx, rx} : q.wr = (q.rd + q.count) % Depth

Received == got \o Contents(rx)

\* What the receiver holds and has handed out is what was printed, byte for
\* byte and in order, except for whole frames that met a full ring: the
\* sampling points stay inside their bits over back-to-back frames, no frame
\* is missed or seen twice and no character comes from an empty ring.
NothingCorrupted ==
    /\ frames <= Len(sent)
    /\ Len(Received) = Len(kept)
    /\ \A i \in 1..Len(kept) : Received[i] = sent[kept[i]]

\* A byte is only dropped when the receiver's ring is full: as long as the
\* reader is less than Depth bytes behind, every frame is kept.
DropsOnlyWhenFull ==
    [][frames' > frames /\ kept' = kept => rx.count = Depth]_vars

Transmitted == Len(sent) - tx.count - (IF tx_bits_left > 0 THEN 1 ELSE 0)

\* When uart_flush returns, the stop bit of every byte this thread printed is
\* on the line, also while other threads print (drv_uart.c:76-82).
FlushMeansSent ==
    \A t \in Writers : pc[t] = "flushed" => last[t] <= Transmitted

\* A write that found the ring full is answered in the end.
StallEnds == owner # Nobody ~> owner = Nobody

\* Whatever the transmitter accepts is sent.
EverythingSent ==
    \A n \in 1..MaxBytes : Len(sent) >= n ~> Transmitted >= n

\* The registers of the UART have their types, and pointers and count of each ring agree
\* after any pushes and pops, at one edge or not, at empty and at full.
RingInv == TypeOK /\ RingsConsistent

\* Nothing is stuck: a write that a full ring holds up is answered, and what was accepted
\* is sent (uart.sv req_ready and tx_pop).
NothingIsStuck == StallEnds /\ EverythingSent
=============================================================================
