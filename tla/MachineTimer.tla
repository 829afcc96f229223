---------------------------- MODULE MachineTimer ----------------------------
(***************************************************************************)
(* The machine timer, rtl/soc/machine_timer.sv: a free-running counter and *)
(* a comparator behind a bus that is half as wide as they are.             *)
(*                                                                         *)
(* Edge is one edge of the peripheral clock.  Software writes whole words  *)
(* and never writes mtime, so merge_wstrb and those two writes are left    *)
(* out.                                                                    *)
(***************************************************************************)
EXTENDS Integers

CONSTANTS
    Half,      \* 2^32 in the code: what a bus word counts up to
    MaxTime    \* bound: mtime stops there

ASSUME TimerAssumption ==
    Half \in Nat /\ Half >= 2 /\ MaxTime \in Nat /\ MaxTime < (Half - 1) * Half

VARIABLES mtime, mtimecmp, timer_ctrl

timerVars == <<mtime, mtimecmp, timer_ctrl>>

lo(x) == x % Half
hi(x) == x \div Half
Word(h, l) == h * Half + l
Ones == Half - 1

NoReq         == [op |-> "none", reg |-> "none", data |-> 0]
Read(reg)     == [op |-> "read", reg |-> reg, data |-> 0]
Write(reg, d) == [op |-> "write", reg |-> reg, data |-> d]
Writes(req, reg) == req.op = "write" /\ req.reg = reg

\* Bit 0 lets mtime run, bit 1 lets the comparator interrupt.
Control(d) == [run |-> d % 2 = 1, irq |-> (d \div 2) % 2 = 1]

TimerTypeOK ==
    /\ mtime \in 0..MaxTime
    /\ mtimecmp \in 0..Half * Half - 1
    /\ timer_ctrl \in [run : BOOLEAN, irq : BOOLEAN]

TimerInit ==
    /\ mtime = 0
    /\ mtimecmp = Word(Ones, Ones)
    /\ timer_ctrl = Control(1)

timer_irq == timer_ctrl.run /\ timer_ctrl.irq /\ mtime >= mtimecmp

\* req_rdata.
timer_rdata(reg) ==
    CASE reg = "mtime_lo"    -> lo(mtime)
      [] reg = "mtime_hi"    -> hi(mtime)
      [] reg = "mtimecmp_lo" -> lo(mtimecmp)
      [] reg = "mtimecmp_hi" -> hi(mtimecmp)
      [] OTHER               -> 0

TimerEdge(req) ==
    /\ mtime' = IF timer_ctrl.run /\ mtime < MaxTime THEN mtime + 1 ELSE mtime
    /\ mtimecmp' = IF Writes(req, "mtimecmp_lo") THEN Word(hi(mtimecmp), req.data)
                   ELSE IF Writes(req, "mtimecmp_hi") THEN Word(req.data, lo(mtimecmp))
                   ELSE mtimecmp
    /\ timer_ctrl' = IF Writes(req, "timer_control") THEN Control(req.data) ELSE timer_ctrl
=============================================================================
