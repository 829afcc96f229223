-------------------------------- MODULE Uart --------------------------------
(***************************************************************************)
(* The UART, rtl/soc/uart.sv: two ring buffers, a transmitter that shifts  *)
(* a frame out at the divisor's rate and a receiver that samples the       *)
(* synchronised line in the middle of every bit.                           *)
(*                                                                         *)
(* Every variable is a register or a group of registers and Edge is one    *)
(* edge of the peripheral clock.  The bus writes whole words (the driver   *)
(* only uses mmio_write32), so the byte strobes are not modelled.          *)
(***************************************************************************)
EXTENDS Integers, Sequences

CONSTANTS
    Depth,      \* bytes in a ring (4 in the code)
    DataBits,   \* bits in a byte (8 in the code)
    ResetDiv    \* RESET_DIV, peripheral clocks per bit

ASSUME UartAssumption ==
    Depth \in Nat \ {0} /\ DataBits \in Nat \ {0} /\ ResetDiv \in Nat /\ ResetDiv >= 2

VARIABLES
    tx, tx_shift, tx_bits_left, tx_baud_count,
    rx_meta, rx_sync, rx_sync_q,
    rx, rx_busy, rx_bit_index, rx_baud_count, rx_shift,
    baud_div, uart_ctrl, irq_pending

txVars   == <<tx, tx_shift, tx_bits_left, tx_baud_count>>
rxVars   == <<rx_meta, rx_sync, rx_sync_q, rx, rx_busy, rx_bit_index,
              rx_baud_count, rx_shift>>
uartVars == <<txVars, rxVars, baud_div, uart_ctrl, irq_pending>>

Bit  == {0, 1}
Byte == [1..DataBits -> Bit]
Frame(byte) == <<0>> \o byte \o <<1>>

-----------------------------------------------------------------------------
(***************************************************************************)
(* A ring buffer: fifo, wr_ptr, rd_ptr and count.                          *)
(***************************************************************************)
Ring == [fifo : [0..Depth - 1 -> Byte], wr : 0..Depth - 1, rd : 0..Depth - 1,
         count : 0..Depth]

Full(q)  == q.count = Depth
Empty(q) == q.count = 0
Front(q) == q.fifo[q.rd]

\* Mutant: the count of a push and a pop at the same edge is not kept.
Clocked_countPush(q, push, byte, pop) ==
    [fifo  |-> IF push THEN [q.fifo EXCEPT ![q.wr] = byte] ELSE q.fifo,
     wr    |-> IF push THEN (q.wr + 1) % Depth ELSE q.wr,
     rd    |-> IF pop THEN (q.rd + 1) % Depth ELSE q.rd,
     count |-> IF push THEN q.count + 1 ELSE IF pop THEN q.count - 1 ELSE q.count]

\* The ring after an edge that pushes byte, pops, does both or neither.
Clocked(q, push, byte, pop) ==
    [fifo  |-> IF push THEN [q.fifo EXCEPT ![q.wr] = byte] ELSE q.fifo,
     wr    |-> IF push THEN (q.wr + 1) % Depth ELSE q.wr,
     rd    |-> IF pop THEN (q.rd + 1) % Depth ELSE q.rd,
     count |-> IF push /\ ~pop THEN q.count + 1
               ELSE IF pop /\ ~push THEN q.count - 1 ELSE q.count]

\* What a ring holds, oldest first.
Contents(q) == [i \in 1..q.count |-> q.fifo[(q.rd + i - 1) % Depth]]

UartTypeOK ==
    /\ tx \in Ring /\ rx \in Ring
    /\ tx_shift \in [1..DataBits + 2 -> Bit]
    /\ tx_bits_left \in 0..DataBits + 2
    /\ tx_baud_count \in Nat /\ rx_baud_count \in Nat
    /\ {rx_meta, rx_sync, rx_sync_q, rx_busy, irq_pending} \subseteq Bit
    /\ rx_bit_index \in 0..DataBits + 1
    /\ rx_shift \in Byte
    /\ baud_div \in Nat /\ baud_div >= 2
    /\ uart_ctrl \in [tx : Bit, rx : Bit]

-----------------------------------------------------------------------------
(***************************************************************************)
(* The bus.  A request is NoReq, a read or a write of a register.          *)
(***************************************************************************)
NoReq         == [op |-> "none", reg |-> "none"]
Read(reg)     == [op |-> "read", reg |-> reg]
Write(reg, d) == [op |-> "write", reg |-> reg, data |-> d]

Writes(req, reg) == req.op = "write" /\ req.reg = reg
Reads(req, reg)  == req.op = "read" /\ req.reg = reg

req_ready_always(req) == TRUE   \* mutant: a full ring does not hold the bus

req_ready(req) == ~(Writes(req, "txdata") /\ Full(tx))

tx_push(req) == req_ready(req) /\ Writes(req, "txdata") /\ uart_ctrl.tx = 1

rx_pop(req)  == Reads(req, "rxdata") /\ ~Empty(rx)

\* Mutant: the ring is popped while it is ready for more, not while it holds any.
tx_pop_whenReady == uart_ctrl.tx = 1 /\ tx_bits_left = 0 /\ ~Empty(tx) /\ ~Full(tx)

tx_pop       == uart_ctrl.tx = 1 /\ tx_bits_left = 0 /\ ~Empty(tx)
uart_tx      == IF tx_bits_left = 0 THEN 1 ELSE Head(tx_shift)

tx_idle_fifo == Empty(tx)   \* mutant: the shift register is forgotten

tx_idle      == Empty(tx) /\ tx_bits_left = 0

\* The fields of the status register.
status == [rx_valid |-> ~Empty(rx), tx_ready |-> ~Full(tx),
           tx_empty |-> tx_idle, rx_full |-> Full(rx)]
rxdata == IF Empty(rx) THEN [i \in 1..DataBits |-> 0] ELSE Front(rx)

-----------------------------------------------------------------------------
\* The rings' memory is not reset.
UartInit ==
    \E byte \in Byte :
        LET ring == [fifo |-> [i \in 0..Depth - 1 |-> byte], wr |-> 0, rd |-> 0,
                     count |-> 0]
        IN  /\ tx = ring /\ rx = ring
            /\ tx_shift = [i \in 1..DataBits + 2 |-> 1]
            /\ tx_bits_left = 0 /\ tx_baud_count = 0
            /\ rx_meta = 1 /\ rx_sync = 1 /\ rx_sync_q = 1
            /\ rx_busy = 0 /\ rx_bit_index = 0 /\ rx_baud_count = 0
            /\ rx_shift = [i \in 1..DataBits |-> 0]
            /\ baud_div = ResetDiv
            /\ uart_ctrl = [tx |-> 1, rx |-> 1]
            /\ irq_pending = 0

\* The transmitter.
TxLoad ==
    /\ tx_pop
    /\ tx_shift' = Frame(Front(tx))
    /\ tx_bits_left' = DataBits + 2
    /\ tx_baud_count' = baud_div - 1

TxShift ==
    /\ ~tx_pop /\ tx_bits_left # 0 /\ tx_baud_count = 0
    /\ tx_shift' = Tail(tx_shift) \o <<1>>
    /\ tx_bits_left' = tx_bits_left - 1
    /\ tx_baud_count' = baud_div - 1

TxCount ==
    /\ ~tx_pop /\ tx_bits_left # 0 /\ tx_baud_count # 0
    /\ tx_baud_count' = tx_baud_count - 1
    /\ UNCHANGED <<tx_shift, tx_bits_left>>

TxIdle ==
    /\ ~tx_pop /\ tx_bits_left = 0
    /\ UNCHANGED <<tx_shift, tx_bits_left, tx_baud_count>>

TxEdge(req) ==
    /\ tx' = Clocked(tx, tx_push(req), req.data, tx_pop)
    /\ TxLoad \/ TxShift \/ TxCount \/ TxIdle

\* The receiver.
RxFalls   == rx_busy = 0 /\ uart_ctrl.rx = 1 /\ rx_sync_q = 1 /\ rx_sync = 0
RxSamples == rx_busy = 1 /\ rx_baud_count = 0
RxStop    == RxSamples /\ rx_bit_index = DataBits + 1

rx_push   == RxStop /\ rx_sync = 1 /\ ~Full(rx)

RxDetect_late ==   \* mutant: a whole bit, not half of one
    /\ RxFalls
    /\ rx_busy' = 1 /\ rx_bit_index' = 0
    /\ rx_baud_count' = baud_div
    /\ UNCHANGED rx_shift

RxDetect ==
    /\ RxFalls
    /\ rx_busy' = 1 /\ rx_bit_index' = 0
    /\ rx_baud_count' = baud_div \div 2
    /\ UNCHANGED rx_shift

RxCount ==
    /\ rx_busy = 1 /\ rx_baud_count # 0
    /\ rx_baud_count' = rx_baud_count - 1
    /\ UNCHANGED <<rx_busy, rx_bit_index, rx_shift>>

RxStart ==
    /\ RxSamples /\ rx_bit_index = 0
    /\ IF rx_sync = 0
       THEN rx_bit_index' = 1 /\ rx_baud_count' = baud_div - 1 /\ rx_busy' = 1
       ELSE rx_busy' = 0 /\ UNCHANGED <<rx_bit_index, rx_baud_count>>
    /\ UNCHANGED rx_shift

RxData ==
    /\ RxSamples /\ rx_bit_index \in 1..DataBits
    /\ rx_shift' = [rx_shift EXCEPT ![rx_bit_index] = rx_sync]
    /\ rx_bit_index' = rx_bit_index + 1
    /\ rx_baud_count' = baud_div - 1
    /\ UNCHANGED rx_busy

RxEnd ==
    /\ RxStop
    /\ rx_busy' = 0
    /\ UNCHANGED <<rx_bit_index, rx_baud_count, rx_shift>>

RxIdle ==
    /\ rx_busy = 0 /\ ~RxFalls
    /\ UNCHANGED <<rx_busy, rx_bit_index, rx_baud_count, rx_shift>>

RxEdge(req, uart_rx) ==
    /\ rx_meta' = uart_rx /\ rx_sync' = rx_meta /\ rx_sync_q' = rx_sync
    /\ rx' = Clocked(rx, rx_push, rx_shift, rx_pop(req))
    /\ RxDetect \/ RxCount \/ RxStart \/ RxData \/ RxEnd \/ RxIdle

\* The registers.  A clear of irq_pending wins over a byte that arrives.
RegEdge(req) ==
    /\ baud_div' = IF Writes(req, "divisor") /\ req.data >= 2 THEN req.data ELSE baud_div
    /\ uart_ctrl' = IF Writes(req, "control") THEN req.data ELSE uart_ctrl
    /\ irq_pending' = IF Writes(req, "irq") /\ req.data = 1 THEN 0
                      ELSE IF rx_push THEN 1 ELSE irq_pending

Edge(req, uart_rx) == TxEdge(req) /\ RxEdge(req, uart_rx) /\ RegEdge(req)
=============================================================================
