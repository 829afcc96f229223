----------------------------- MODULE TickSystem -----------------------------
(***************************************************************************)
(* The operating system's tick: the timer driver (drv_timer.c), the        *)
(* interrupt handler that timer and software interrupts share              *)
(* (board.c:12-26), SYSCTRL's software_irq, the flip-flops between the     *)
(* peripherals' interrupt lines and the core, and the trap's epilogue.     *)
(*                                                                         *)
(* The core has one bus access in flight (lsu_bus_buffer_full_any): a load *)
(* stops the program, a store does not.  The access reaches the peripheral *)
(* at some edge of its clock and the answer needs two edges of the core    *)
(* clock to come back (ClockBridge).  A load is answered rightly here;     *)
(* whether it is belongs to LsuMmio.                                       *)
(***************************************************************************)
EXTENDS MachineTimer, Sequences

CONSTANTS
    Delta,      \* tick_delta
    IrqStages,  \* flip-flops from an interrupt line to mip (5 in the code)
    Restore     \* core clocks from the end of the handler's last access to mret

ASSUME TickAssumption ==
    /\ Delta \in Nat \ {0} /\ IrqStages \in Nat \ {0} /\ Restore \in Nat
    /\ MaxTime + Delta < (Half - 1) * Half

VARIABLES
    software_irq,    \* SYSCTRL
    line,            \* timer_int on its way: meta, sync, rvsyncss, mip
    access,          \* the access in flight and how far its answer has come
    mode, pc, tpc,   \* what the core runs; where the interrupted thread is
    high_before, low, value,   \* timer_read
    next_deadline,
    left,            \* core clocks until mret
    ticks,           \* calls of rt_tick_increase
    base, since      \* the tick's epoch; mtime when timer_read was called

readVars == <<high_before, low, value, since>>
tickVars == <<next_deadline, ticks, base, left>>
systemVars == <<timerVars, software_irq, line, access, mode, pc, tpc, readVars, tickVars>>

Pcs == {"thread", "read_hi", "read_lo", "read_again", "cmp_hold", "cmp_lo",
        "cmp_hi", "start", "pending", "clear", "tick", "trigger", "restore"}

Idle == [st |-> "idle", req |-> NoReq, data |-> 0, age |-> 0]

TickTypeOK ==
    /\ TimerTypeOK
    /\ software_irq \in {0, 1}
    /\ line \in [1..IrqStages -> BOOLEAN]
    /\ access.st \in {"idle", "asked", "ran"} /\ access.age \in 0..2
    /\ mode \in {"boot", "thread", "isr"}
    /\ pc \in Pcs /\ tpc \in Pcs
    /\ high_before \in 0..Ones /\ low \in 0..Ones /\ value \in 0..MaxTime
    /\ next_deadline \in 0..MaxTime + Delta
    /\ left \in 0..Restore
    /\ ticks \in Nat /\ base \in 0..MaxTime /\ since \in 0..MaxTime

\* rt_hw_board_init calls timer_init_tick with interrupts off.
TickInit ==
    /\ TimerInit
    /\ software_irq = 0
    /\ line = [i \in 1..IrqStages |-> FALSE]
    /\ access = Idle
    /\ mode = "boot" /\ pc = "read_hi" /\ tpc = "thread"
    /\ high_before = 0 /\ low = 0 /\ value = 0 /\ since = 0
    /\ next_deadline = 0 /\ ticks = 0 /\ base = 0 /\ left = 0

-----------------------------------------------------------------------------
(***************************************************************************)
(* The peripheral side: one edge, at which the access may run.             *)
(***************************************************************************)
rdata(req) == IF req.reg = "software_irq" THEN software_irq ELSE timer_rdata(req.reg)

PeriphIdle ==
    /\ TimerEdge(NoReq)
    /\ UNCHANGED <<software_irq, access>>

PeriphAccess ==
    /\ access.st = "asked"
    /\ TimerEdge(access.req)
    /\ software_irq' = IF Writes(access.req, "software_irq") THEN access.req.data
                       ELSE software_irq
    /\ access' = [access EXCEPT !.st = "ran", !.data = rdata(access.req)]

PeriphClock ==
    /\ PeriphIdle \/ PeriphAccess
    /\ UNCHANGED <<line, mode, pc, tpc, readVars, tickVars>>

-----------------------------------------------------------------------------
(***************************************************************************)
(* The core side.  The access a program point makes:                       *)
(***************************************************************************)
set_compare_noRelease(deadline) ==   \* mutant: the high word is left all ones
    [cmp_hold |-> Write("mtimecmp_hi", Ones),
     cmp_lo   |-> Write("mtimecmp_lo", lo(deadline)),
     cmp_hi   |-> Write("mtimecmp_hi", Ones)]

\* The three writes of timer_set_compare.
set_compare(deadline) ==
    [cmp_hold |-> Write("mtimecmp_hi", Ones),
     cmp_lo   |-> Write("mtimecmp_lo", lo(deadline)),
     cmp_hi   |-> Write("mtimecmp_hi", hi(deadline))]

Request ==
    CASE pc \in {"read_hi", "read_again"} -> Read("mtime_hi")
      [] pc = "read_lo" -> Read("mtime_lo")
      [] pc \in {"cmp_hold", "cmp_lo", "cmp_hi"} -> set_compare(next_deadline)[pc]
      [] pc = "start"   -> Write("timer_control", 3)
      [] pc = "pending" -> Read("software_irq")
      [] pc = "clear"   -> Write("software_irq", 0)
      [] pc = "trigger" -> Write("software_irq", 1)
      [] OTHER          -> NoReq

\* The port after a core edge that issues nothing.
Moved ==
    CASE access.st = "ran" /\ access.age = 2 -> Idle
      [] access.st = "ran" /\ access.age < 2 -> [access EXCEPT !.age = @ + 1]
      [] OTHER -> access

Reading  == access.req.op = "read"
Answered == Reading /\ access.st = "ran" /\ access.age = 2

\* mstatus.MIE is set in threads only.  Interrupts are taken between a thread's
\* loads, which is what lsu_block_interrupts is for; LsuMmio says what becomes of
\* a load that an interrupt drops all the same.
take_timer_int == mode = "thread" /\ ~Reading /\ line[IrqStages]

Trap ==
    /\ take_timer_int
    /\ mode' = "isr" /\ tpc' = pc /\ pc' = "pending"
    /\ access' = Moved
    /\ UNCHANGED <<readVars, tickVars>>

TimerRead_once ==   \* mutant: the second read of the high word is not compared
    /\ \/ /\ pc = "read_hi" /\ high_before' = access.data /\ pc' = "read_lo"
          /\ UNCHANGED <<low, value, tickVars>>
       \/ /\ pc = "read_lo" /\ low' = access.data /\ pc' = "read_again"
          /\ UNCHANGED <<high_before, value, tickVars>>
       \/ /\ pc = "read_again"
          /\ value' = Word(access.data, low)
          /\ IF mode = "boot"
             THEN /\ base' = value' /\ next_deadline' = value' + Delta
                  /\ pc' = "cmp_hold" /\ UNCHANGED <<ticks, left>>
             ELSE pc' = "thread" /\ UNCHANGED tickVars
          /\ UNCHANGED <<high_before, low>>
    /\ UNCHANGED since

TimerRead_before ==   \* mutant: the same, and the first high word is returned
    /\ \/ /\ pc = "read_hi" /\ high_before' = access.data /\ pc' = "read_lo"
          /\ UNCHANGED <<low, value, tickVars>>
       \/ /\ pc = "read_lo" /\ low' = access.data /\ pc' = "read_again"
          /\ UNCHANGED <<high_before, value, tickVars>>
       \/ /\ pc = "read_again"
          /\ value' = Word(high_before, low)
          /\ IF mode = "boot"
             THEN /\ base' = value' /\ next_deadline' = value' + Delta
                  /\ pc' = "cmp_hold" /\ UNCHANGED <<ticks, left>>
             ELSE pc' = "thread" /\ UNCHANGED tickVars
          /\ UNCHANGED <<high_before, low>>
    /\ UNCHANGED since

\* timer_read: high, low, high again until both highs agree.
TimerRead ==
    /\ \/ /\ pc = "read_hi" /\ high_before' = access.data /\ pc' = "read_lo"
          /\ UNCHANGED <<low, value, tickVars>>
       \/ /\ pc = "read_lo" /\ low' = access.data /\ pc' = "read_again"
          /\ UNCHANGED <<high_before, value, tickVars>>
       \/ /\ pc = "read_again" /\ access.data # high_before /\ pc' = "read_hi"
          /\ UNCHANGED <<high_before, low, value, tickVars>>
       \/ /\ pc = "read_again" /\ access.data = high_before
          /\ value' = Word(access.data, low)
          /\ IF mode = "boot"
             THEN /\ base' = value' /\ next_deadline' = value' + Delta
                  /\ pc' = "cmp_hold" /\ UNCHANGED <<ticks, left>>
             ELSE pc' = "thread" /\ UNCHANGED tickVars
          /\ UNCHANGED <<high_before, low>>
    /\ UNCHANGED since

\* Mutant: the next deadline counts from now.
Handler_drift ==
    /\ pc = "pending"
    /\ \/ access.data # 0 /\ pc' = "clear" /\ UNCHANGED next_deadline
       \/ access.data = 0 /\ pc' = "cmp_hold" /\ next_deadline' = mtime + Delta
    /\ UNCHANGED <<readVars, ticks, base, left>>

\* Mutant: the software request is not looked at.
Handler_noCheck ==
    /\ pc = "pending"
    /\ pc' = "cmp_hold" /\ next_deadline' = next_deadline + Delta
    /\ UNCHANGED <<readVars, ticks, base, left>>

\* Mutant: the software request is left up.
Handler_noClear ==
    /\ pc = "pending"
    /\ \/ access.data # 0 /\ pc' = "restore" /\ UNCHANGED next_deadline
       \/ access.data = 0 /\ pc' = "cmp_hold" /\ next_deadline' = next_deadline + Delta
    /\ UNCHANGED <<readVars, ticks, base, left>>

\* timer_irq: a software request is cleared, otherwise a tick is due.
Handler ==
    /\ pc = "pending"
    /\ \/ access.data # 0 /\ pc' = "clear" /\ UNCHANGED next_deadline
       \/ access.data = 0 /\ pc' = "cmp_hold" /\ next_deadline' = next_deadline + Delta
    /\ UNCHANGED <<readVars, ticks, base, left>>

\* A load's answer arrives.
Done ==
    /\ Answered /\ access' = Idle
    /\ TimerRead \/ Handler
    /\ UNCHANGED <<mode, tpc>>

\* Stores are posted: the program goes on when the port has accepted one.
\* timer_set_compare, timer_start and the two software_irq writes.
Posted ==
    \/ pc = "cmp_hold" /\ pc' = "cmp_lo" /\ UNCHANGED <<mode, left>>
    \/ pc = "cmp_lo" /\ pc' = "cmp_hi" /\ UNCHANGED <<mode, left>>
    \/ pc = "cmp_hi" /\ mode = "boot" /\ pc' = "start" /\ UNCHANGED <<mode, left>>
    \/ pc = "cmp_hi" /\ mode = "isr" /\ pc' = "tick" /\ UNCHANGED <<mode, left>>
    \/ pc = "start" /\ pc' = "thread" /\ mode' = "thread" /\ UNCHANGED left
    \/ pc \in {"clear", "trigger"} /\ pc' = "restore" /\ left' = Restore /\ UNCHANGED mode

Ask ==
    /\ ~take_timer_int /\ access = Idle /\ Request.op # "none"
    /\ access' = [Idle EXCEPT !.st = "asked", !.req = Request]
    /\ IF Request.op = "write" THEN Posted ELSE UNCHANGED <<mode, pc, left>>
    /\ UNCHANGED <<tpc, readVars, next_deadline, ticks, base>>

\* The program point needs the port, or an answer.
Wait ==
    /\ ~take_timer_int /\ ~Answered
    /\ Request.op # "none" /\ access # Idle
    /\ access' = Moved
    /\ UNCHANGED <<mode, pc, tpc, readVars, tickVars>>

\* rt_tick_increase, which may ask for a thread switch.
Tick ==
    /\ pc = "tick"
    /\ ticks' = ticks + 1
    /\ \/ pc' = "trigger" /\ UNCHANGED left
       \/ pc' = "restore" /\ left' = Restore
    /\ access' = Moved
    /\ UNCHANGED <<mode, tpc, readVars, next_deadline, base>>

\* The trap's epilogue outlasts the store in flight by Restore clocks.
Epilogue ==
    /\ pc = "restore"
    /\ CASE access # Idle -> UNCHANGED <<mode, pc, left>>
         [] access = Idle /\ left > 0 -> left' = left - 1 /\ UNCHANGED <<mode, pc>>
         [] access = Idle /\ left = 0 -> mode' = "thread" /\ pc' = tpc /\ UNCHANGED left
    /\ access' = Moved
    /\ UNCHANGED <<tpc, readVars, next_deadline, ticks, base>>

\* A thread computes, or calls timer_read.
Compute ==
    /\ pc = "thread" /\ ~take_timer_int
    /\ access' = Moved
    /\ UNCHANGED <<mode, pc, tpc, readVars, tickVars>>

timer_read ==
    /\ pc = "thread" /\ ~take_timer_int
    /\ pc' = "read_hi" /\ since' = mtime
    /\ access' = Moved
    /\ UNCHANGED <<mode, tpc, high_before, low, value, tickVars>>

CoreClock ==
    /\ line' = [i \in 1..IrqStages |->
                  IF i = 1 THEN timer_irq \/ software_irq = 1 ELSE line[i - 1]]
    /\ Trap \/ Ask \/ Wait \/ Done \/ Tick \/ Epilogue \/ Compute \/ timer_read
    /\ UNCHANGED <<timerVars, software_irq>>

TickNext == PeriphClock \/ CoreClock

TickSpec == TickInit /\ [][TickNext]_systemVars

\* Both clocks run and an access reaches the peripheral in the end.
TickLiveSpec ==
    /\ TickSpec /\ WF_systemVars(CoreClock) /\ WF_systemVars(PeriphClock)
    /\ WF_systemVars(PeriphAccess /\ UNCHANGED <<line, mode, pc, tpc, readVars, tickVars>>)

-----------------------------------------------------------------------------
(***************************************************************************)
(* Properties.                                                             *)
(***************************************************************************)
\* timer_read returns a value that mtime had while it ran, although the low
\* word overflows between its reads and interrupts come in between
\* (drv_timer.c:7-24).
ReadIsConsistent ==
    [][value' # value => since <= value' /\ value' <= mtime]_systemVars

\* No tick is counted before its deadline: a software request, and an
\* interrupt line that has fallen but is still on its way through the
\* flip-flops when the handler returns, are not taken for a tick.
TickNotEarly == base + ticks * Delta <= mtime

\* In a thread the comparator holds the deadline of the next tick, and the
\* deadlines do not drift: late handling delays a tick, it never loses one.
CadenceKept ==
    mode = "thread" =>
        /\ next_deadline = base + (ticks + 1) * Delta
        /\ mtimecmp = next_deadline

\* Every deadline that passes is counted as a tick.
EveryTickComes ==
    \A n \in 1..(MaxTime \div Delta) :
        (mode = "thread" /\ base + n * Delta <= mtime) ~> ticks >= n

\* Every software request is taken down.
SoftwareIrqCleared == software_irq = 1 ~> software_irq = 0

\* RT-Thread's tick is neither early nor drifting: no tick before its deadline, and the
\* deadlines stay Delta apart however late each is handled (drv_timer.c, board.c).
TicksKeepTime == TickTypeOK /\ TickNotEarly /\ CadenceKept

\* Both users of cause 7 are served: every deadline becomes a tick, every software
\* request is taken down (board.c timer_irq).
InterruptsAreServed == EveryTickComes /\ SoftwareIrqCleared
=============================================================================
