----------------------------- MODULE SocProofs ------------------------------
(***************************************************************************)
(* What the two clock domains of the SoC promise, for every instance.      *)
(*                                                                         *)
(* First the tick, from the machine timer to its handler: the inductive    *)
(* invariant TickInv, then that no tick comes early or is lost and that a  *)
(* 64-bit read of the time is one value.  Then the bridge, for every set   *)
(* of requests and responses and every number of requests: type            *)
(* correctness, the inductive invariant HandshakeInv and what follows.     *)
(***************************************************************************)
EXTENDS BridgeSystem, TickSystem, TLAPS

-----------------------------------------------------------------------------
(***************************************************************************)
(* The tick.                                                               *)
(*                                                                         *)
(* The inductive invariant.  Places are where a thread can be when it is   *)
(* interrupted.                                                            *)
(***************************************************************************)
Places == {"thread", "read_hi", "read_lo", "read_again"}
Compares == {"cmp_hold", "cmp_lo", "cmp_hi"}

\* The thread's own place, whether or not it is interrupted.
place == IF mode = "isr" THEN tpc ELSE pc

StartWrite == Write("timer_control", 3)
LowWrite   == Write("mtimecmp_lo", lo(next_deadline))
HighWrite  == Write("mtimecmp_hi", hi(next_deadline))

Accesses ==
    {Read("mtime_hi"), Read("mtime_lo"), Read("software_irq"), StartWrite,
     Write("software_irq", 0), Write("software_irq", 1)}
      \cup {Write(reg, d) : reg \in {"mtimecmp_lo", "mtimecmp_hi"}, d \in 0..Ones}

\* The port: idle, or an access of the driver whose age counts after it has run.
PortOK ==
    /\ access \in [st : {"idle", "asked", "ran"}, req : Accesses \cup {NoReq},
                   data : 0..Ones, age : 0..2]
    /\ access.st = "idle" => access = Idle
    /\ access.st # "idle" => access.req \in Accesses
    /\ access.st = "asked" => access.age = 0

\* Which access is in flight where: a load is that of the program point, a store that of
\* the point before.
FlightInv ==
    access.st # "idle" =>
        /\ Reading => access.req = Request
        /\ pc \notin {"cmp_hold", "clear"}
        /\ pc \in Places \cup {"pending"} => Reading \/ access.req = StartWrite
        /\ pc = "cmp_lo" => access.req = Write("mtimecmp_hi", Ones)
        /\ pc = "cmp_hi" => access.req = LowWrite
        /\ pc \in {"start", "tick", "trigger"} => access.req = HighWrite
        /\ pc = "restore" =>
              access.req \in {HighWrite, Write("software_irq", 0), Write("software_irq", 1)}

\* What the core runs in each mode.  During boot the timer cannot interrupt.
ModeInv ==
    /\ mode = "boot" => /\ pc \in {"read_hi", "read_lo", "read_again", "start"} \cup Compares
                        /\ software_irq = 0 /\ ~timer_ctrl.irq /\ access.req # StartWrite
                        /\ ticks = 0 /\ since = 0
                        /\ pc \in Places => base = 0
                        /\ \A i \in 1..IrqStages : ~line[i]
    /\ mode = "thread" => pc \in Places
    /\ mode = "isr" => pc \in {"pending", "clear", "tick", "trigger", "restore"} \cup Compares
    /\ tpc \in Places

\* The comparator once the driver has written both words.
CompareInv ==
    /\ pc = "cmp_hi" /\ access.st # "asked" => lo(mtimecmp) = lo(next_deadline)
    /\ pc \in {"start", "tick", "trigger", "restore"} =>
          /\ lo(mtimecmp) = lo(next_deadline)
          /\ access.st # "asked" \/ access.req # HighWrite => mtimecmp = next_deadline
    /\ mode = "thread" \/ pc \in {"pending", "clear"} => mtimecmp = next_deadline

\* Between the handler's decision and rt_tick_increase the deadline is one tick ahead.
Counting == mode = "isr" /\ pc \in Compares \cup {"tick"}

DeadlineInv ==
    /\ base + ticks * Delta <= mtime
    /\ Counting => /\ next_deadline = base + (ticks + 2) * Delta
                   /\ base + (ticks + 1) * Delta <= mtime
    /\ ~Counting /\ ~(mode = "boot" /\ pc \in Places) =>
          next_deadline = base + (ticks + 1) * Delta

\* There is a reason for the interrupt: a software request, or the deadline.
Due == software_irq = 1 \/ next_deadline <= mtime

\* How many flip-flops have been filled since the handler's last store ran.
Flushed == IF access.st = "idle" THEN 3 + Restore - left ELSE access.age

\* In a thread every flip-flop that is up has a reason, because the epilogue is long enough
\* for what was up before the handler's last store to leave the line.
LineInv ==
    /\ mode = "thread" => \A i \in 1..IrqStages : line[i] => Due
    /\ pc = "pending" => Due
    /\ pc = "tick" => access.st # "idle" /\ access.age = 0
    /\ pc = "restore" /\ access.st # "idle" => left = Restore
    /\ pc \in {"tick", "restore"} => \A i \in 1..IrqStages : i <= Flushed /\ line[i] => Due

\* The words timer_read has, or that are on their way to it, are of times since the call.
\* Some time since the call has this low word, and the high word read before is not ahead.
LowFrom(l) == \E m \in since..mtime : lo(m) = l /\ high_before <= hi(m)

Arrived == access.st = "ran" /\ Reading

ReadInv ==
    /\ since <= mtime
    /\ place = "read_lo" => high_before <= hi(mtime)
    /\ place = "read_again" => LowFrom(low)
    /\ Arrived /\ pc = "read_hi" => access.data <= hi(mtime)
    /\ Arrived /\ pc = "read_lo" => LowFrom(access.data)
    /\ Arrived /\ pc = "read_again" =>
          \E m \in since..mtime : /\ lo(m) = low /\ high_before <= hi(m)
                                  /\ hi(m) <= access.data
    /\ Arrived /\ pc = "pending" => access.data = software_irq

TickInv ==
    /\ TickTypeOK /\ PortOK /\ FlightInv /\ ModeInv /\ CompareInv /\ DeadlineInv
    /\ LineInv /\ ReadInv
-----------------------------------------------------------------------------
(***************************************************************************)
(* Words and times.                                                        *)
(***************************************************************************)
\* A time is its two words.
LEMMA TimeIsItsWords ==
    ASSUME NEW x \in Nat
    PROVE  /\ hi(x) \in Nat /\ lo(x) \in 0..Ones /\ x = hi(x) * Half + lo(x)
           /\ Word(hi(x), lo(x)) = x
BY TimerAssumption DEF hi, lo, Word, Ones

\* More high words are more time.
LEMMA ProductGrows ==
    ASSUME NEW a \in Nat, NEW b \in Nat, a <= b
    PROVE  a * Half \in Nat /\ b * Half \in Nat /\ a * Half <= b * Half
<1>1. PICK d \in Nat : b = a + d
  <2>1. b - a \in Nat /\ b = a + (b - a)
    OBVIOUS
  <2>2. QED
    BY <2>1
<1>2. a * Half \in Nat /\ d * Half \in Nat
  BY TimerAssumption
<1>3. b * Half = a * Half + d * Half
  BY <1>1, TimerAssumption
<1>4. QED
  BY <1>2, <1>3

\* The high word never goes back.
LEMMA HighGrows ==
    ASSUME NEW x \in Nat, NEW y \in Nat, x <= y
    PROVE  hi(x) <= hi(y)
<1>1. SUFFICES ASSUME hi(y) < hi(x) PROVE FALSE
  BY TimeIsItsWords
<1>2. hi(x) \in Nat /\ hi(y) \in Nat /\ lo(x) \in 0..Half - 1 /\ lo(y) \in 0..Half - 1
  BY TimeIsItsWords DEF Ones
<1>3. (hi(y) + 1) * Half <= hi(x) * Half
  BY <1>1, <1>2, ProductGrows
<1>4. (hi(y) + 1) * Half = hi(y) * Half + Half /\ hi(y) * Half \in Nat /\ hi(x) * Half \in Nat
  BY <1>2, TimerAssumption
<1>5. x = hi(x) * Half + lo(x) /\ y = hi(y) * Half + lo(y)
  BY TimeIsItsWords
<1>6. QED
  BY <1>2, <1>3, <1>4, <1>5, TimerAssumption

\* Two words are a time, and the time has these words.
LEMMA WordsOfWord ==
    ASSUME NEW h \in Nat, NEW l \in 0..Ones
    PROVE  Word(h, l) \in Nat /\ hi(Word(h, l)) = h /\ lo(Word(h, l)) = l
<1> DEFINE w == h * Half + l
<1>1. Word(h, l) = w /\ w \in Nat /\ l \in 0..Half - 1 /\ h * Half \in Nat
  BY TimerAssumption DEF Word, Ones
<1> HIDE DEF w
<1>2. hi(w) \in Nat /\ lo(w) \in 0..Half - 1 /\ w = hi(w) * Half + lo(w) /\ hi(w) * Half \in Nat
  <2>1. hi(w) \in Nat /\ lo(w) \in 0..Ones /\ w = hi(w) * Half + lo(w)
    BY <1>1, TimeIsItsWords
  <2>2. QED
    BY <2>1, TimerAssumption DEF Ones
<1>3. ~(hi(w) < h)
  <2>1. SUFFICES ASSUME hi(w) + 1 <= h PROVE FALSE
    BY <1>2
  <2>2. (hi(w) + 1) * Half <= h * Half
    BY <2>1, <1>2, ProductGrows
  <2>3. (hi(w) + 1) * Half = hi(w) * Half + Half
    BY <1>2, TimerAssumption
  <2>4. w = h * Half + l
    BY DEF w
  <2>5. QED
    BY <1>1, <1>2, <2>2, <2>3, <2>4, TimerAssumption
<1>4. ~(h < hi(w))
  <2>1. SUFFICES ASSUME h + 1 <= hi(w) PROVE FALSE
    BY <1>2
  <2>2. (h + 1) * Half <= hi(w) * Half
    BY <2>1, <1>2, ProductGrows
  <2>3. (h + 1) * Half = h * Half + Half
    BY TimerAssumption
  <2>4. w = h * Half + l
    BY DEF w
  <2>5. QED
    BY <1>1, <1>2, <2>2, <2>3, <2>4, TimerAssumption
<1>5. hi(w) = h
  BY <1>2, <1>3, <1>4
<1>6. lo(w) = l
  <2>1. w = h * Half + l
    BY DEF w
  <2>2. QED
    BY <1>1, <1>2, <1>5, <2>1
<1>7. QED
  BY <1>1, <1>5, <1>6

\* Words of the registers' width, and what they count up to.
LEMMA WordBounds ==
    /\ \A h, l \in 0..Ones : Word(h, l) \in 0..Half * Half - 1
    /\ \A x \in 0..Half * Half - 1 : hi(x) \in 0..Ones
    /\ (Half - 1) * Half = Half * Half - Half
<1>1. (Half - 1) * Half = Half * Half - Half /\ Half * Half \in Nat
  BY TimerAssumption
<1>2. ASSUME NEW h \in 0..Ones, NEW l \in 0..Ones PROVE Word(h, l) \in 0..Half * Half - 1
  <2>1. h * Half <= (Half - 1) * Half /\ h * Half \in Nat
    BY ProductGrows, TimerAssumption DEF Ones
  <2>2. QED
    BY <1>1, <2>1, TimerAssumption DEF Word, Ones
<1>3. ASSUME NEW x \in 0..Half * Half - 1 PROVE hi(x) \in 0..Ones
  <2>1. hi(x) \in Nat /\ x = hi(x) * Half + lo(x) /\ lo(x) \in 0..Half - 1
    BY <1>1, TimeIsItsWords DEF Ones
  <2>2. ~(Half <= hi(x))
    <3>1. SUFFICES ASSUME Half <= hi(x) PROVE FALSE
      OBVIOUS
    <3>2. Half * Half <= hi(x) * Half /\ hi(x) * Half \in Nat
      BY <2>1, <3>1, ProductGrows, TimerAssumption
    <3>3. QED
      BY <1>1, <2>1, <3>2, TimerAssumption
  <2>3. QED
    BY <2>1, <2>2, TimerAssumption DEF Ones
<1>4. QED
  BY <1>1, <1>2, <1>3

\* One more tick is one more period.
LEMMA PeriodsAdd ==
    ASSUME NEW n \in Nat
    PROVE  /\ n * Delta \in Nat
           /\ (n + 1) * Delta = n * Delta + Delta
           /\ (n + 2) * Delta = n * Delta + 2 * Delta
BY TickAssumption
-----------------------------------------------------------------------------
(***************************************************************************)
(* The driver's accesses and the port.                                     *)
(***************************************************************************)
\* The access of each program point.
LEMMA RequestFacts ==
    /\ pc \in {"read_hi", "read_again"} => Request = Read("mtime_hi")
    /\ pc = "read_lo" => Request = Read("mtime_lo")
    /\ pc = "cmp_hold" => Request = Write("mtimecmp_hi", Ones)
    /\ pc = "cmp_lo" => Request = LowWrite
    /\ pc = "cmp_hi" => Request = HighWrite
    /\ pc = "start" => Request = StartWrite
    /\ pc = "pending" => Request = Read("software_irq")
    /\ pc = "clear" => Request = Write("software_irq", 0)
    /\ pc = "trigger" => Request = Write("software_irq", 1)
    /\ pc \in {"thread", "tick", "restore"} => Request = NoReq
<1>1. CASE pc = "cmp_hold"
  BY <1>1 DEF Request, set_compare
<1>2. CASE pc = "cmp_lo"
  BY <1>2 DEF Request, set_compare, LowWrite
<1>3. CASE pc = "cmp_hi"
  BY <1>3 DEF Request, set_compare, HighWrite
<1>4. QED
  BY <1>1, <1>2, <1>3 DEF Request, StartWrite

\* The fields of an access.
LEMMA AccessFields ==
    /\ NoReq.op = "none" /\ NoReq.reg = "none"
    /\ \A reg : Read(reg).op = "read" /\ Read(reg).reg = reg
    /\ \A reg, d : Write(reg, d).op = "write" /\ Write(reg, d).reg = reg /\ Write(reg, d).data = d
    /\ StartWrite.op = "write" /\ StartWrite.reg = "timer_control" /\ StartWrite.data = 3
    /\ LowWrite.op = "write" /\ LowWrite.reg = "mtimecmp_lo" /\ LowWrite.data = lo(next_deadline)
    /\ HighWrite.op = "write" /\ HighWrite.reg = "mtimecmp_hi"
    /\ HighWrite.data = hi(next_deadline)
BY DEF NoReq, Read, Write, StartWrite, LowWrite, HighWrite

\* Every access of the driver is one of Accesses, and no access is none.
LEMMA RequestIsAccess ==
    ASSUME TickInv, Request.op # "none"
    PROVE  Request \in Accesses
<1>1. next_deadline \in Nat /\ next_deadline \in 0..Half * Half - 1
  BY TickAssumption, TimerAssumption, WordBounds DEF TickInv, TickTypeOK
<1>2. lo(next_deadline) \in 0..Ones /\ hi(next_deadline) \in 0..Ones /\ Ones \in 0..Ones
  BY <1>1, WordBounds, TimeIsItsWords, TimerAssumption DEF Ones
<1>3. pc \in Pcs
  BY DEF TickInv, TickTypeOK
<1>4. NoReq.op = "none"
  BY AccessFields
<1>5. LowWrite \in Accesses /\ HighWrite \in Accesses /\ Write("mtimecmp_hi", Ones) \in Accesses
  BY <1>2 DEF Accesses, LowWrite, HighWrite
<1>6. QED
  BY <1>3, <1>4, <1>5, RequestFacts DEF Accesses, Pcs

\* What an access of the driver can be.
LEMMA AccessKinds ==
    ASSUME NEW a \in Accesses
    PROVE  /\ a.op \in {"read", "write"}
           /\ Writes(a, "mtimecmp_lo") \/ Writes(a, "mtimecmp_hi") => a.data \in 0..Ones
           /\ Writes(a, "software_irq") => a.data \in {0, 1}
           /\ Writes(a, "timer_control") => a = StartWrite
           /\ a.op = "read" => a \in {Read("mtime_hi"), Read("mtime_lo"), Read("software_irq")}
BY AccessFields DEF Accesses, Writes

\* The port moves on: the same access, one step older once it has run, or idle after two.
LEMMA MovedFacts ==
    ASSUME PortOK
    PROVE  /\ access.st = "idle" => Moved = access
           /\ access.st = "asked" => Moved = access
           /\ access.st = "ran" /\ access.age < 2 =>
                 Moved = [access EXCEPT !.age = access.age + 1]
           /\ access.st = "ran" /\ access.age = 2 => Moved = Idle
<1>1. access.st \in {"idle", "asked", "ran"} /\ access.age \in 0..2
  BY DEF PortOK
<1>2. QED
  BY <1>1 DEF Moved

\* The idle port.
LEMMA IdleFacts ==
    Idle.st = "idle" /\ Idle.req = NoReq /\ Idle.data = 0 /\ Idle.age = 0
BY DEF Idle

\* The port as it moves.
LEMMA PortMoves ==
    ASSUME PortOK, access' = Moved
    PROVE  /\ PortOK'
           /\ access'.st = access.st \/ access' = Idle
           /\ access'.st # "idle" =>
                 /\ access'.st = access.st /\ access'.req = access.req
                 /\ access'.data = access.data
                 /\ access'.age = IF access.st = "ran" THEN access.age + 1 ELSE access.age
           /\ access'.st = "idle" => access = Idle \/ access.age = 2
<1>1. access.st \in {"idle", "asked", "ran"} /\ access.age \in 0..2
  BY DEF PortOK
<1>2. CASE access.st \in {"idle", "asked"}
  <2>1. access' = access
    BY <1>2, MovedFacts
  <2>2. QED
    BY <1>2, <2>1 DEF PortOK, Accesses, StartWrite
<1>3. CASE access.st = "ran" /\ access.age < 2
  <2>1. access' = [access EXCEPT !.age = access.age + 1]
    BY <1>3, MovedFacts
  <2>2. QED
    BY <1>1, <1>3, <2>1 DEF PortOK, Accesses, StartWrite
<1>4. CASE access.st = "ran" /\ access.age = 2
  <2>1. access' = Idle
    BY <1>4, MovedFacts
  <2>2. 0 \in 0..Ones
    BY TimerAssumption DEF Ones
  <2>3. QED
    BY <1>4, <2>1, <2>2, IdleFacts DEF PortOK, Idle
<1>5. QED
  BY <1>1, <1>2, <1>3, <1>4
-----------------------------------------------------------------------------
(***************************************************************************)
(* The peripheral's clock.                                                 *)
(***************************************************************************)
\* Time does not go back.
LEMMA TimeGrows ==
    ASSUME TickInv, PeriphClock
    PROVE  mtime \in Nat /\ mtime' \in 0..MaxTime /\ mtime <= mtime' /\ hi(mtime) <= hi(mtime')
<1>1. mtime \in 0..MaxTime /\ MaxTime \in Nat
  BY TimerAssumption DEF TickInv, TickTypeOK, TimerTypeOK
<1>2. mtime' = IF timer_ctrl.run /\ mtime < MaxTime THEN mtime + 1 ELSE mtime
  BY DEF PeriphClock, PeriphIdle, PeriphAccess, TimerEdge
<1>3. mtime' \in 0..MaxTime /\ mtime <= mtime'
  BY <1>1, <1>2
<1>4. QED
  BY <1>1, <1>3, HighGrows

\* What the driver reads.
LEMMA AnswerFacts ==
    ASSUME TickInv, NEW a \in Accesses
    PROVE  /\ rdata(a) \in 0..Ones
           /\ a = Read("mtime_hi") => rdata(a) = hi(mtime)
           /\ a = Read("mtime_lo") => rdata(a) = lo(mtime)
           /\ a = Read("software_irq") => rdata(a) = software_irq
<1>1. mtime \in 0..Half * Half - 1 /\ mtimecmp \in 0..Half * Half - 1 /\ Half * Half \in Nat
  BY TimerAssumption, WordBounds DEF TickInv, TickTypeOK, TimerTypeOK
<1>2. /\ hi(mtime) \in 0..Ones /\ hi(mtimecmp) \in 0..Ones
      /\ lo(mtime) \in 0..Ones /\ lo(mtimecmp) \in 0..Ones
  BY <1>1, WordBounds, TimeIsItsWords
<1>3. software_irq \in 0..Ones /\ 0 \in 0..Ones
  BY TimerAssumption DEF TickInv, TickTypeOK, Ones
<1>4. \A reg : timer_rdata(reg) \in 0..Ones
  BY <1>2, <1>3 DEF timer_rdata
<1>5. timer_rdata("mtime_hi") = hi(mtime) /\ timer_rdata("mtime_lo") = lo(mtime)
  BY DEF timer_rdata
<1>6. QED
  BY <1>3, <1>4, <1>5, AccessFields DEF rdata

\* An edge without an access.
LEMMA PeriphIdleInv ==
    ASSUME TickInv, PeriphClock, PeriphIdle
    PROVE  TickInv'
<1>1. /\ mtimecmp' = mtimecmp /\ timer_ctrl' = timer_ctrl /\ software_irq' = software_irq
      /\ access' = access /\ line' = line /\ mode' = mode /\ pc' = pc /\ tpc' = tpc
      /\ high_before' = high_before /\ low' = low /\ value' = value /\ since' = since
      /\ next_deadline' = next_deadline /\ ticks' = ticks /\ base' = base /\ left' = left
  BY AccessFields DEF PeriphIdle, PeriphClock, TimerEdge, Writes, readVars, tickVars
<1>2. mtime \in Nat /\ mtime' \in 0..MaxTime /\ mtime <= mtime' /\ hi(mtime) <= hi(mtime')
  BY TimeGrows
<1>3. TickTypeOK'
  BY <1>1, <1>2 DEF TickInv, TickTypeOK, TimerTypeOK
<1>4. PortOK' /\ FlightInv' /\ ModeInv' /\ CompareInv'
  BY <1>1 DEF TickInv, PortOK, FlightInv, ModeInv, CompareInv, Reading, Request, LowWrite,
              HighWrite
<1>5. mtime' \in Nat /\ next_deadline \in Nat /\ base \in Nat /\ ticks \in Nat /\ since \in Nat
  BY <1>2, TimerAssumption, TickAssumption DEF TickInv, TickTypeOK
<1>6. ticks * Delta \in Nat /\ (ticks + 1) * Delta \in Nat
  BY <1>5, TickAssumption
<1>7. DeadlineInv'
  BY <1>1, <1>2, <1>5, <1>6 DEF TickInv, DeadlineInv, Counting
<1>8. Due => Due'
  BY <1>1, <1>2, <1>5 DEF Due
<1>9. LineInv'
  BY <1>1, <1>8 DEF TickInv, LineInv, Flushed
<1>10. \A m \in since..mtime : m \in since'..mtime'
  BY <1>1, <1>2, <1>5
<1>11. ReadInv'
  <2>1. since' <= mtime'
    BY <1>1, <1>2, <1>5 DEF TickInv, ReadInv
  <2>2. high_before \in Nat /\ access.data \in Nat /\ hi(mtime) \in Nat /\ hi(mtime') \in Nat
    BY <1>2, <1>5, TimeIsItsWords DEF TickInv, TickTypeOK, PortOK
  <2>3. \A l : LowFrom(l) => LowFrom(l)'
    BY <1>1, <1>10 DEF LowFrom
  <2>4. /\ place' = place /\ Arrived' = Arrived
    BY <1>1 DEF place, Arrived, Reading
  <2>5. QED
    BY <1>1, <1>2, <1>10, <2>1, <2>2, <2>3, <2>4 DEF TickInv, ReadInv
<1>12. QED
  BY <1>3, <1>4, <1>7, <1>9, <1>11 DEF TickInv

\* An edge at which the access in flight runs.
LEMMA PeriphAccessInv ==
    ASSUME TickInv, PeriphClock, PeriphAccess
    PROVE  TickInv'
<1> DEFINE req == access.req
<1>1. /\ line' = line /\ mode' = mode /\ pc' = pc /\ tpc' = tpc
      /\ high_before' = high_before /\ low' = low /\ value' = value /\ since' = since
      /\ next_deadline' = next_deadline /\ ticks' = ticks /\ base' = base /\ left' = left
  BY DEF PeriphClock, readVars, tickVars
<1>2. mtime \in Nat /\ mtime' \in 0..MaxTime /\ mtime <= mtime' /\ hi(mtime) <= hi(mtime')
  BY TimeGrows
<1>3. /\ access.st = "asked" /\ access' = [access EXCEPT !.st = "ran", !.data = rdata(req)]
      /\ req \in Accesses /\ access.age = 0
      /\ access \in [st : {"idle", "asked", "ran"}, req : Accesses \cup {NoReq},
                     data : 0..Ones, age : 0..2]
  BY DEF PeriphAccess, TickInv, PortOK
<1>4. /\ access'.st = "ran" /\ access'.req = req /\ access'.data = rdata(req)
      /\ access'.age = 0 /\ rdata(req) \in 0..Ones
  BY <1>3, AnswerFacts
<1>5. /\ mtimecmp' = IF Writes(req, "mtimecmp_lo") THEN Word(hi(mtimecmp), req.data)
                     ELSE IF Writes(req, "mtimecmp_hi") THEN Word(req.data, lo(mtimecmp))
                     ELSE mtimecmp
      /\ timer_ctrl' = IF Writes(req, "timer_control") THEN Control(req.data) ELSE timer_ctrl
      /\ software_irq' = IF Writes(req, "software_irq") THEN req.data ELSE software_irq
  BY DEF PeriphAccess, TimerEdge
<1>6. /\ mtimecmp \in 0..Half * Half - 1 /\ mtimecmp \in Nat
      /\ hi(mtimecmp) \in 0..Ones /\ lo(mtimecmp) \in 0..Ones
  <2>1. mtimecmp \in 0..Half * Half - 1 /\ mtimecmp \in Nat
    BY TimerAssumption, WordBounds DEF TickInv, TickTypeOK, TimerTypeOK
  <2>2. QED
    BY <2>1, WordBounds, TimeIsItsWords
<1>7. /\ next_deadline \in Nat /\ lo(next_deadline) \in 0..Ones /\ hi(next_deadline) \in Nat
      /\ Word(hi(next_deadline), lo(next_deadline)) = next_deadline
  <2>1. next_deadline \in Nat
    BY TimerAssumption, TickAssumption DEF TickInv, TickTypeOK
  <2>2. QED
    BY <2>1, TimeIsItsWords
<1>8. TickTypeOK'
  <2>1. mtimecmp' \in 0..Half * Half - 1
    BY <1>3, <1>5, <1>6, AccessKinds, WordBounds
  <2>2. timer_ctrl' \in [run : BOOLEAN, irq : BOOLEAN] /\ software_irq' \in {0, 1}
    BY <1>3, <1>5, AccessKinds DEF Control, TickInv, TickTypeOK, TimerTypeOK
  <2>3. QED
    BY <1>1, <1>2, <1>4, <2>1, <2>2 DEF TickInv, TickTypeOK, TimerTypeOK
<1>9. PortOK'
  <2>1. access' \in [st : {"idle", "asked", "ran"}, req : Accesses \cup {NoReq},
                     data : 0..Ones, age : 0..2]
    BY <1>3, <1>4
  <2>2. Accesses' = Accesses
    BY DEF Accesses, StartWrite
  <2>3. QED
    BY <1>3, <1>4, <2>1, <2>2 DEF PortOK
<1>10. FlightInv'
  <2>1. /\ Reading' = Reading /\ Request' = Request
        /\ LowWrite' = LowWrite /\ HighWrite' = HighWrite /\ StartWrite' = StartWrite
    BY <1>1, <1>4 DEF Reading, Request, LowWrite, HighWrite, StartWrite
  <2>2. QED
    BY <1>1, <1>3, <1>4, <2>1 DEF TickInv, FlightInv
<1> HIDE DEF req
<1>11. /\ FlightInv /\ ModeInv /\ CompareInv /\ DeadlineInv /\ LineInv /\ ReadInv
       /\ PortOK /\ (Reading <=> req.op = "read")
  BY DEF TickInv, Reading, req
<1>12. /\ mode = "boot" => ~Writes(req, "timer_control") /\ ~Writes(req, "software_irq")
       /\ pc \in Places \cup {"pending"} =>
             /\ ~Writes(req, "mtimecmp_lo") /\ ~Writes(req, "mtimecmp_hi")
             /\ ~Writes(req, "software_irq")
  <2>1. ASSUME pc \in Places \cup {"pending"}
        PROVE  /\ ~Writes(req, "mtimecmp_lo") /\ ~Writes(req, "mtimecmp_hi")
               /\ ~Writes(req, "software_irq")
    <3>1. req.op = "read" \/ req = StartWrite
      BY <1>3, <1>11, <2>1 DEF FlightInv, req
    <3>2. QED
      BY <3>1, AccessFields DEF Writes
  <2>2. ASSUME mode = "boot", pc \notin Places
        PROVE  ~Writes(req, "timer_control") /\ ~Writes(req, "software_irq")
    <3>1. pc \in {"start", "cmp_lo", "cmp_hi"}
      BY <1>3, <1>11, <2>2 DEF FlightInv, ModeInv, Places, Compares
    <3>2. req \in {HighWrite, LowWrite, Write("mtimecmp_hi", Ones)}
      BY <1>3, <1>11, <3>1 DEF FlightInv, req
    <3>3. QED
      BY <3>2, AccessFields DEF Writes
  <2>3. ASSUME mode = "boot" PROVE req # StartWrite
    BY <1>11, <2>3 DEF ModeInv, req
  <2>4. Writes(req, "timer_control") => req = StartWrite
    BY <1>3, AccessKinds DEF req
  <2>5. QED
    BY <2>1, <2>2, <2>3, <2>4
<1>13. ModeInv'
  BY <1>1, <1>4, <1>5, <1>11, <1>12 DEF ModeInv, StartWrite, req
<1>14. CompareInv'
  <2>1. ASSUME pc = "cmp_hi" PROVE lo(mtimecmp') = lo(next_deadline)
    <3>1. req = LowWrite
      BY <1>3, <1>11, <2>1 DEF FlightInv, req
    <3>2. mtimecmp' = Word(hi(mtimecmp), lo(next_deadline))
      BY <1>5, <3>1, AccessFields DEF Writes
    <3>3. QED
      BY <1>6, <1>7, <3>2, WordsOfWord
  <2>2. ASSUME pc \in {"start", "tick", "trigger", "restore"} PROVE mtimecmp' = next_deadline
    <3>1. req \in {HighWrite, Write("software_irq", 0), Write("software_irq", 1)}
      BY <1>3, <1>11, <2>2 DEF FlightInv, req
    <3>2. CASE req = HighWrite
      <4>1. mtimecmp' = Word(hi(next_deadline), lo(mtimecmp))
        BY <1>5, <3>2, AccessFields DEF Writes
      <4>2. lo(mtimecmp) = lo(next_deadline)
        BY <1>11, <2>2 DEF CompareInv
      <4>3. QED
        BY <1>7, <4>1, <4>2
    <3>3. CASE req # HighWrite
      <4>1. mtimecmp' = mtimecmp
        BY <1>5, <3>1, <3>3, AccessFields DEF Writes
      <4>2. QED
        BY <1>3, <1>11, <2>2, <3>3, <4>1 DEF CompareInv, req
    <3>4. QED
      BY <3>2, <3>3
  <2>3. ASSUME mode = "thread" \/ pc \in {"pending", "clear"} PROVE mtimecmp' = next_deadline
    <3>1. pc \in Places \cup {"pending"}
      BY <1>3, <1>11, <2>3 DEF ModeInv, FlightInv
    <3>2. QED
      BY <1>5, <1>11, <1>12, <2>3, <3>1 DEF CompareInv
  <2>4. QED
    BY <1>1, <2>1, <2>2, <2>3 DEF CompareInv
<1>15. mtime' \in Nat /\ base \in Nat /\ ticks \in Nat /\ since \in Nat
  BY <1>2, TimerAssumption DEF TickInv, TickTypeOK
<1>16. ticks * Delta \in Nat /\ (ticks + 1) * Delta \in Nat
  BY <1>15, TickAssumption
<1>17. DeadlineInv'
  BY <1>1, <1>2, <1>11, <1>15, <1>16 DEF DeadlineInv, Counting
<1>18. LineInv'
  <2>1. ASSUME pc \in Places \cup {"pending"}, Due PROVE Due'
    BY <1>1, <1>2, <1>5, <1>7, <1>12, <1>15, <2>1 DEF Due
  <2>2. Flushed' = 0
    BY <1>4 DEF Flushed
  <2>3. \A i \in 1..IrqStages : ~(i <= 0)
    OBVIOUS
  <2>4. QED
    BY <1>1, <1>3, <1>4, <1>11, <2>1, <2>2, <2>3 DEF LineInv, ModeInv
<1>19. ReadInv'
  <2>1. since' <= mtime' /\ since <= mtime
    BY <1>1, <1>2, <1>11, <1>15 DEF ReadInv
  <2>2. \A m \in since..mtime : m \in since'..mtime'
    BY <1>1, <1>2, <1>15
  <2>3. /\ high_before \in Nat /\ hi(mtime) \in Nat /\ hi(mtime') \in Nat
        /\ mtime \in since'..mtime' /\ mtime \in since..mtime
    BY <1>1, <1>2, <1>15, <2>1, TimeIsItsWords DEF TickInv, TickTypeOK
  <2>4. \A l : LowFrom(l) => LowFrom(l)'
    BY <1>1, <2>2 DEF LowFrom
  <2>5. place' = place /\ (pc \in Places => place = pc)
    BY <1>1, <1>11 DEF place, ModeInv, Places, Compares
  <2>6. /\ place' = "read_lo" => high_before' <= hi(mtime')
        /\ place' = "read_again" => LowFrom(low)'
    BY <1>1, <1>2, <1>11, <2>3, <2>4, <2>5 DEF ReadInv
  <2>7. Arrived' => req.op = "read" /\ req = Request
    BY <1>3, <1>4, <1>11 DEF Arrived, Reading, FlightInv, req
  <2>8. ASSUME Arrived', pc = "read_hi" PROVE access'.data <= hi(mtime')
    BY <1>2, <1>3, <1>4, <2>3, <2>7, <2>8, RequestFacts, AnswerFacts DEF req
  <2>9. ASSUME Arrived', pc = "read_lo" PROVE LowFrom(access.data)'
    <3>1. access'.data = lo(mtime)
      BY <1>3, <1>4, <2>7, <2>9, RequestFacts, AnswerFacts DEF req
    <3>2. high_before' <= hi(mtime)
      BY <1>1, <1>11, <2>5, <2>9 DEF ReadInv, Places
    <3>3. QED
      BY <2>3, <3>1, <3>2 DEF LowFrom
  <2>10. ASSUME Arrived', pc = "read_again"
         PROVE  \E m \in since'..mtime' : /\ lo(m) = low' /\ high_before' <= hi(m)
                                          /\ hi(m) <= access'.data
    <3>1. access'.data = hi(mtime)
      BY <1>3, <1>4, <2>7, <2>10, RequestFacts, AnswerFacts DEF req
    <3>2. LowFrom(low)
      BY <1>11, <2>5, <2>10 DEF ReadInv, Places
    <3>3. PICK m \in since..mtime : lo(m) = low /\ high_before <= hi(m)
      BY <3>2 DEF LowFrom
    <3>4. m \in Nat /\ m <= mtime
      BY <1>2, <1>15
    <3>5. hi(m) <= hi(mtime)
      BY <1>2, <3>4, HighGrows
    <3>6. m \in since'..mtime'
      BY <2>2
    <3>7. QED
      BY <1>1, <3>1, <3>3, <3>5, <3>6
  <2>11. ASSUME Arrived', pc = "pending" PROVE access'.data = software_irq'
    BY <1>3, <1>4, <1>5, <1>12, <2>7, <2>11, RequestFacts, AnswerFacts DEF req
  <2>12. QED
    BY <1>1, <2>1, <2>6, <2>8, <2>9, <2>10, <2>11 DEF ReadInv
<1>20. QED
  BY <1>8, <1>9, <1>10, <1>13, <1>14, <1>17, <1>18, <1>19 DEF TickInv
-----------------------------------------------------------------------------
(***************************************************************************)
(* The core's clock.                                                       *)
(***************************************************************************)
\* Numbers of a state.
LEMMA TickNumbers ==
    ASSUME TickInv
    PROVE  /\ mtime \in Nat /\ mtime <= MaxTime /\ MaxTime \in Nat /\ mtimecmp \in Nat
           /\ next_deadline \in Nat /\ base \in Nat /\ ticks \in Nat /\ since \in Nat
           /\ left \in 0..Restore /\ Restore \in Nat /\ IrqStages \in Nat /\ 1 <= IrqStages
           /\ Delta \in Nat /\ ticks * Delta \in Nat
           /\ (ticks + 1) * Delta = ticks * Delta + Delta
           /\ (ticks + 2) * Delta = ticks * Delta + 2 * Delta
           /\ high_before \in Nat /\ access.data \in 0..Ones /\ access.age \in 0..2
<1>1. ticks \in Nat /\ Delta \in Nat
  BY TickAssumption DEF TickInv, TickTypeOK
<1>2. /\ ticks * Delta \in Nat
      /\ (ticks + 1) * Delta = ticks * Delta + Delta
      /\ (ticks + 2) * Delta = ticks * Delta + 2 * Delta
  BY <1>1, PeriodsAdd
<1>3. Half * Half \in Nat
  BY TimerAssumption
<1>4. QED
  BY <1>1, <1>2, <1>3, TimerAssumption, TickAssumption
     DEF TickInv, TickTypeOK, TimerTypeOK, PortOK

\* A core clock edge leaves the peripherals alone and shifts the line.
LEMMA CoreFacts ==
    ASSUME TickInv, CoreClock
    PROVE  /\ mtime' = mtime /\ mtimecmp' = mtimecmp /\ timer_ctrl' = timer_ctrl
           /\ software_irq' = software_irq /\ TimerTypeOK'
           /\ line' \in [1..IrqStages -> BOOLEAN]
           /\ line'[1] <=> timer_irq \/ software_irq = 1
           /\ \A i \in 1..IrqStages : i # 1 => i - 1 \in 1..IrqStages /\ line'[i] = line[i - 1]
<1>1. /\ mtime' = mtime /\ mtimecmp' = mtimecmp /\ timer_ctrl' = timer_ctrl
      /\ software_irq' = software_irq
      /\ line' = [i \in 1..IrqStages |->
                    IF i = 1 THEN timer_irq \/ software_irq = 1 ELSE line[i - 1]]
  BY DEF CoreClock, timerVars
<1>2. line \in [1..IrqStages -> BOOLEAN] /\ IrqStages \in Nat /\ 1 <= IrqStages
  BY TickNumbers DEF TickInv, TickTypeOK
<1>3. 1 \in 1..IrqStages /\ \A i \in 1..IrqStages : i # 1 => i - 1 \in 1..IrqStages
  BY <1>2
<1>4. (timer_irq \/ software_irq = 1) \in BOOLEAN
  BY DEF timer_irq
<1>5. line' \in [1..IrqStages -> BOOLEAN]
  BY <1>1, <1>2, <1>3, <1>4
<1>6. line'[1] <=> timer_irq \/ software_irq = 1
  BY <1>1, <1>3
<1>7. \A i \in 1..IrqStages : i # 1 => line'[i] = line[i - 1]
  BY <1>1
<1>8. QED
  BY <1>1, <1>3, <1>5, <1>6, <1>7 DEF TickInv, TickTypeOK, TimerTypeOK

\* While the comparator holds the deadline, what enters the line has a reason: one more
\* flip-flop is justified at every edge.
LEMMA LineFills ==
    ASSUME TickInv, CoreClock, mtimecmp = next_deadline, next_deadline' = next_deadline,
           NEW k \in Nat, \A i \in 1..IrqStages : i <= k /\ line[i] => Due
    PROVE  \A i \in 1..IrqStages : i <= k + 1 /\ line'[i] => Due'
<1>1. Due' <=> Due
  BY CoreFacts DEF Due
<1>2. line'[1] => Due
  <2>1. timer_irq => next_deadline <= mtime
    BY TickNumbers DEF timer_irq
  <2>2. QED
    BY <2>1, CoreFacts DEF Due
<1>3. ASSUME NEW i \in 1..IrqStages, i <= k + 1, line'[i], i # 1 PROVE Due
  <2>1. i - 1 \in 1..IrqStages /\ line'[i] = line[i - 1]
    BY <1>3, CoreFacts
  <2>2. i - 1 <= k
    BY <1>3, TickNumbers
  <2>3. QED
    BY <1>3, <2>1, <2>2
<1>4. QED
  BY <1>1, <1>2, <1>3

\* In a thread every flip-flop keeps its reason.
LEMMA ThreadLine ==
    ASSUME TickInv, CoreClock, mode = "thread", next_deadline' = next_deadline
    PROVE  \A i \in 1..IrqStages : line'[i] => Due'
<1>1. mtimecmp = next_deadline /\ \A i \in 1..IrqStages : line[i] => Due
  BY DEF TickInv, CompareInv, LineInv
<1>2. IrqStages \in Nat /\ \A i \in 1..IrqStages : i <= IrqStages + 1
  BY TickNumbers
<1>3. \A i \in 1..IrqStages : i <= IrqStages + 1 /\ line'[i] => Due'
  BY <1>1, <1>2, LineFills
<1>4. QED
  BY <1>2, <1>3

\* During boot the line stays down.
LEMMA BootLine ==
    ASSUME TickInv, CoreClock, mode = "boot"
    PROVE  \A i \in 1..IrqStages : ~line'[i]
<1>1. /\ software_irq = 0 /\ ~timer_ctrl.irq
      /\ \A i \in 1..IrqStages : ~line[i]
  BY DEF TickInv, ModeInv
<1>2. ~line'[1]
  BY <1>1, CoreFacts DEF timer_irq
<1>3. QED
  BY <1>1, <1>2, CoreFacts

\* timer_read keeps its words as long as its thread stays where it is.
LEMMA ReadKept ==
    ASSUME TickInv, CoreClock, UNCHANGED readVars, place' = place,
           Arrived' => Arrived /\ pc' = pc /\ access'.data = access.data
    PROVE  ReadInv'
<1>1. /\ high_before' = high_before /\ low' = low /\ since' = since
      /\ mtime' = mtime /\ software_irq' = software_irq
  BY CoreFacts DEF readVars
<1>2. \A l : LowFrom(l)' <=> LowFrom(l)
  BY <1>1 DEF LowFrom
<1>3. QED
  BY <1>1, <1>2 DEF TickInv, ReadInv

\* The port moves on below a program point that stays.
LEMMA FlightMoves ==
    ASSUME TickInv, access' = Moved, pc' = pc, next_deadline' = next_deadline
    PROVE  PortOK' /\ FlightInv' /\ (Arrived' => Arrived /\ access'.data = access.data)
<1>1. PortOK /\ FlightInv
  BY DEF TickInv
<1>2. /\ Request' = Request /\ LowWrite' = LowWrite /\ HighWrite' = HighWrite
      /\ StartWrite' = StartWrite
  BY DEF Request, LowWrite, HighWrite, StartWrite
<1>3. access'.st # "idle" => access'.st = access.st /\ access'.req = access.req
                             /\ access'.data = access.data
  BY <1>1, PortMoves
<1>4. FlightInv'
  BY <1>1, <1>2, <1>3 DEF FlightInv, Reading
<1>5. QED
  BY <1>1, <1>3, <1>4, PortMoves DEF Arrived, Reading

\* The comparator's claims depend on the access only as long as it is asked for.
LEMMA AskedStays ==
    ASSUME TickInv, access' = Moved
    PROVE  /\ access'.st = "asked" <=> access.st = "asked"
           /\ access.st = "asked" => access' = access
<1>1. PortOK
  BY DEF TickInv
<1>2. access.st = "asked" => access' = access
  BY <1>1, MovedFacts
<1>3. access'.st = "asked" => access.st = "asked"
  BY <1>1, PortMoves
<1>4. QED
  BY <1>2, <1>3

\* The types of what the steps below leave alone.
LEMMA CoreTypes ==
    ASSUME TickInv, CoreClock, PortOK', mode' \in {"boot", "thread", "isr"}, pc' \in Pcs,
           tpc' \in Pcs, high_before' \in 0..Ones, low' \in 0..Ones, value' \in 0..MaxTime,
           next_deadline' \in 0..MaxTime + Delta, left' \in 0..Restore, ticks' \in Nat,
           base' \in 0..MaxTime, since' \in 0..MaxTime
    PROVE  TickTypeOK'
<1>1. TimerTypeOK' /\ software_irq' = software_irq /\ line' \in [1..IrqStages -> BOOLEAN]
  BY CoreFacts
<1>2. QED
  BY <1>1 DEF TickInv, TickTypeOK, PortOK
-----------------------------------------------------------------------------
(***************************************************************************)
(* One lemma for each step of the core.                                    *)
(***************************************************************************)
\* The program waits for the port, or a thread computes: only port and line move.
LEMMA WaitInv ==
    ASSUME TickInv, CoreClock, Wait \/ Compute
    PROVE  TickInv'
<1>1. /\ access' = Moved /\ mode' = mode /\ pc' = pc /\ tpc' = tpc
      /\ high_before' = high_before /\ low' = low /\ value' = value /\ since' = since
      /\ next_deadline' = next_deadline /\ ticks' = ticks /\ base' = base /\ left' = left
      /\ pc \notin {"tick", "restore"}
  BY RequestFacts, AccessFields DEF Wait, Compute, readVars, tickVars
<1>2. /\ mtime' = mtime /\ mtimecmp' = mtimecmp /\ timer_ctrl' = timer_ctrl
      /\ software_irq' = software_irq
  BY CoreFacts
<1>3. PortOK' /\ FlightInv' /\ (Arrived' => Arrived /\ access'.data = access.data)
  BY <1>1, FlightMoves
<1>4. TickTypeOK'
  <2>1. /\ mode \in {"boot", "thread", "isr"} /\ pc \in Pcs /\ tpc \in Pcs
        /\ high_before \in 0..Ones /\ low \in 0..Ones /\ value \in 0..MaxTime
        /\ next_deadline \in 0..MaxTime + Delta /\ left \in 0..Restore /\ ticks \in Nat
        /\ base \in 0..MaxTime /\ since \in 0..MaxTime
    BY DEF TickInv, TickTypeOK
  <2>2. QED
    BY <1>1, <1>3, <2>1, CoreTypes
<1>5. ModeInv'
  <2>1. mode = "boot" => \A i \in 1..IrqStages : ~line'[i]
    BY BootLine
  <2>2. access'.req = access.req \/ access'.req = NoReq
    BY <1>1, PortMoves, IdleFacts DEF TickInv, PortOK
  <2>3. NoReq # StartWrite /\ StartWrite' = StartWrite
    BY AccessFields DEF StartWrite
  <2>4. QED
    BY <1>1, <1>2, <2>1, <2>2, <2>3 DEF TickInv, ModeInv
<1>6. CompareInv'
  <2>1. HighWrite' = HighWrite
    BY <1>1 DEF HighWrite
  <2>2. QED
    BY <1>1, <1>2, <2>1, AskedStays DEF TickInv, CompareInv
<1>7. DeadlineInv'
  BY <1>1, <1>2 DEF TickInv, DeadlineInv, Counting
<1>8. LineInv'
  <2>1. mode = "thread" => \A i \in 1..IrqStages : line'[i] => Due'
    BY <1>1, ThreadLine
  <2>2. Due' <=> Due
    BY <1>1, <1>2 DEF Due
  <2>3. QED
    BY <1>1, <2>1, <2>2 DEF TickInv, LineInv
<1>9. ReadInv'
  BY <1>1, <1>3, ReadKept DEF readVars, place
<1>10. QED
  BY <1>3, <1>4, <1>5, <1>6, <1>7, <1>8, <1>9 DEF TickInv

\* The interrupt is taken.
LEMMA TrapInv ==
    ASSUME TickInv, CoreClock, Trap
    PROVE  TickInv'
<1>1. /\ access' = Moved /\ mode = "thread" /\ mode' = "isr" /\ pc' = "pending" /\ tpc' = pc
      /\ high_before' = high_before /\ low' = low /\ value' = value /\ since' = since
      /\ next_deadline' = next_deadline /\ ticks' = ticks /\ base' = base /\ left' = left
      /\ ~Reading /\ line[IrqStages]
  BY DEF Trap, take_timer_int, readVars, tickVars
<1>2. /\ mtime' = mtime /\ mtimecmp' = mtimecmp /\ timer_ctrl' = timer_ctrl
      /\ software_irq' = software_irq
  BY CoreFacts
<1>3. pc \in Places /\ PortOK /\ FlightInv
  BY <1>1 DEF TickInv, ModeInv
<1>4. PortOK' /\ (access'.st # "idle" => access'.req = access.req /\ access.st # "idle")
  BY <1>1, <1>3, PortMoves
<1>5. access'.st # "idle" => access'.req = StartWrite
  BY <1>1, <1>3, <1>4 DEF FlightInv
<1>6. ~Reading' /\ ~Arrived'
  <2>1. access'.st = "idle" => access'.req = NoReq
    BY <1>4, IdleFacts DEF PortOK, Idle, NoReq
  <2>2. QED
    BY <1>5, <2>1, AccessFields DEF Reading, Arrived
<1>7. FlightInv'
  BY <1>1, <1>5, <1>6 DEF FlightInv, StartWrite, Places
<1>8. TickTypeOK'
  <2>1. /\ pc \in Pcs
        /\ high_before \in 0..Ones /\ low \in 0..Ones /\ value \in 0..MaxTime
        /\ next_deadline \in 0..MaxTime + Delta /\ left \in 0..Restore /\ ticks \in Nat
        /\ base \in 0..MaxTime /\ since \in 0..MaxTime
    BY DEF TickInv, TickTypeOK
  <2>2. "pending" \in Pcs
    BY DEF Pcs
  <2>3. QED
    BY <1>1, <1>4, <2>1, <2>2, CoreTypes
<1>9. ModeInv' /\ CompareInv' /\ DeadlineInv'
  BY <1>1, <1>2, <1>3 DEF TickInv, ModeInv, CompareInv, DeadlineInv, Counting, Compares
<1>10. LineInv'
  <2>1. Due
    <3>1. IrqStages \in 1..IrqStages
      BY TickNumbers
    <3>2. QED
      BY <1>1, <3>1 DEF TickInv, LineInv
  <2>2. Due'
    BY <1>1, <1>2, <2>1 DEF Due
  <2>3. QED
    BY <1>1, <2>2 DEF LineInv
<1>11. ReadInv'
  <2>1. place' = place
    BY <1>1 DEF place
  <2>2. QED
    BY <1>1, <1>6, <2>1, ReadKept DEF readVars
<1>12. QED
  BY <1>4, <1>7, <1>8, <1>9, <1>10, <1>11 DEF TickInv

\* A thread calls timer_read.
LEMMA CallInv ==
    ASSUME TickInv, CoreClock, timer_read
    PROVE  TickInv'
<1>1. /\ access' = Moved /\ mode' = mode /\ pc = "thread" /\ pc' = "read_hi" /\ tpc' = tpc
      /\ high_before' = high_before /\ low' = low /\ value' = value /\ since' = mtime
      /\ next_deadline' = next_deadline /\ ticks' = ticks /\ base' = base /\ left' = left
  BY DEF timer_read, tickVars
<1>2. /\ mtime' = mtime /\ mtimecmp' = mtimecmp /\ timer_ctrl' = timer_ctrl
      /\ software_irq' = software_irq
  BY CoreFacts
<1>3. mode = "thread" /\ PortOK /\ FlightInv
  <2>1. mode \in {"boot", "thread", "isr"} /\ ModeInv
    BY DEF TickInv, TickTypeOK
  <2>2. QED
    BY <1>1, <2>1 DEF TickInv, ModeInv, Compares
<1>4. PortOK' /\ (access'.st # "idle" => access'.req = access.req /\ access.st # "idle")
  BY <1>1, <1>3, PortMoves
<1>5. access'.st # "idle" => access'.req = StartWrite
  <2>1. Request = NoReq
    BY <1>1, RequestFacts
  <2>2. ~Reading
    <3>1. access.st = "idle" => access.req = NoReq
      BY <1>3, IdleFacts DEF PortOK
    <3>2. access.st # "idle" /\ Reading => access.req = NoReq
      BY <1>3, <2>1 DEF FlightInv
    <3>3. QED
      BY <3>1, <3>2, AccessFields DEF Reading
  <2>3. QED
    BY <1>1, <1>3, <1>4, <2>2 DEF FlightInv, Places
<1>6. ~Reading' /\ ~Arrived'
  <2>1. access'.st = "idle" => access'.req = NoReq
    BY <1>4, IdleFacts DEF PortOK, Idle, NoReq
  <2>2. QED
    BY <1>5, <2>1, AccessFields DEF Reading, Arrived
<1>7. FlightInv'
  BY <1>1, <1>5, <1>6 DEF FlightInv, StartWrite, Places
<1>8. TickTypeOK'
  <2>1. /\ tpc \in Pcs /\ mtime \in 0..MaxTime
        /\ high_before \in 0..Ones /\ low \in 0..Ones /\ value \in 0..MaxTime
        /\ next_deadline \in 0..MaxTime + Delta /\ left \in 0..Restore /\ ticks \in Nat
        /\ base \in 0..MaxTime
    BY DEF TickInv, TickTypeOK, TimerTypeOK
  <2>2. "read_hi" \in Pcs
    BY DEF Pcs
  <2>3. QED
    BY <1>1, <1>3, <1>4, <2>1, <2>2, CoreTypes
<1>9. ModeInv' /\ CompareInv' /\ DeadlineInv'
  BY <1>1, <1>2, <1>3 DEF TickInv, ModeInv, CompareInv, DeadlineInv, Counting, Compares, Places
<1>10. LineInv'
  BY <1>1, <1>3, ThreadLine DEF LineInv
<1>11. ReadInv'
  <2>1. place' = "read_hi"
    BY <1>1, <1>3 DEF place
  <2>2. since' <= mtime'
    BY <1>1, <1>2, TickNumbers
  <2>3. QED
    BY <1>6, <2>1, <2>2 DEF ReadInv
<1>12. QED
  BY <1>4, <1>7, <1>8, <1>9, <1>10, <1>11 DEF TickInv

\* The port accepts an access.
LEMMA AskFacts ==
    ASSUME TickInv, CoreClock, Ask
    PROVE  /\ access = Idle /\ access.st = "idle" /\ access'.st = "asked"
           /\ access'.req = Request /\ access'.age = 0
           /\ Request \in Accesses /\ PortOK' /\ ~Arrived'
           /\ tpc' = tpc /\ high_before' = high_before /\ low' = low /\ value' = value
           /\ since' = since /\ next_deadline' = next_deadline /\ ticks' = ticks /\ base' = base
<1>1. /\ access = Idle /\ access' = [Idle EXCEPT !.st = "asked", !.req = Request]
      /\ Request.op # "none"
      /\ tpc' = tpc /\ high_before' = high_before /\ low' = low /\ value' = value
      /\ since' = since /\ next_deadline' = next_deadline /\ ticks' = ticks /\ base' = base
  BY DEF Ask, readVars
<1>2. Request \in Accesses
  BY <1>1, RequestIsAccess
<1>3. /\ access' = [st |-> "asked", req |-> Request, data |-> 0, age |-> 0]
  BY <1>1 DEF Idle
<1>4. 0 \in 0..Ones /\ Accesses' = Accesses
  BY TimerAssumption DEF Ones, Accesses, StartWrite
<1>5. PortOK'
  BY <1>2, <1>3, <1>4 DEF PortOK
<1>6. QED
  BY <1>1, <1>2, <1>3, <1>5, IdleFacts DEF Arrived

\* The types after an access was accepted.
LEMMA AskTypes ==
    ASSUME TickInv, CoreClock, Ask, mode' \in {"boot", "thread", "isr"}, pc' \in Pcs,
           left' \in 0..Restore
    PROVE  TickTypeOK'
<1>1. /\ tpc \in Pcs
      /\ high_before \in 0..Ones /\ low \in 0..Ones /\ value \in 0..MaxTime
      /\ next_deadline \in 0..MaxTime + Delta /\ ticks \in Nat
      /\ base \in 0..MaxTime /\ since \in 0..MaxTime
  BY DEF TickInv, TickTypeOK
<1>2. QED
  BY <1>1, AskFacts, CoreTypes

\* A load is asked for.
LEMMA AskReadInv ==
    ASSUME TickInv, CoreClock, Ask, Request.op # "write"
    PROVE  TickInv'
<1>1. mode' = mode /\ pc' = pc /\ left' = left
  BY DEF Ask
<1>2. /\ mtime' = mtime /\ mtimecmp' = mtimecmp /\ timer_ctrl' = timer_ctrl
      /\ software_irq' = software_irq
  BY CoreFacts
<1>3. pc \in {"read_hi", "read_lo", "read_again", "pending"} /\ Request.op = "read"
  <2>1. pc \in Pcs /\ Request.op \in {"read", "write"}
    BY AskFacts, AccessKinds DEF TickInv, TickTypeOK
  <2>2. QED
    BY <2>1, RequestFacts, AccessFields DEF Pcs
<1>4. TickTypeOK'
  BY <1>1, AskTypes DEF TickInv, TickTypeOK
<1>5. FlightInv'
  <2>1. Request' = Request /\ Reading'
    BY <1>1, <1>3, AskFacts DEF Request, Reading
  <2>2. QED
    BY <1>1, <1>3, <2>1, AskFacts DEF FlightInv
<1>6. ModeInv'
  <2>1. mode = "boot" => \A i \in 1..IrqStages : ~line'[i]
    BY BootLine
  <2>2. access'.req # StartWrite
    BY <1>3, AskFacts, AccessFields
  <2>3. QED
    BY <1>1, <1>2, <2>1, <2>2, AskFacts DEF TickInv, ModeInv, StartWrite
<1>7. CompareInv' /\ DeadlineInv'
  BY <1>1, <1>2, <1>3, AskFacts DEF TickInv, CompareInv, DeadlineInv, Counting
<1>8. LineInv'
  <2>1. mode = "thread" => \A i \in 1..IrqStages : line'[i] => Due'
    BY AskFacts, ThreadLine
  <2>2. Due' <=> Due
    BY <1>2, AskFacts DEF Due
  <2>3. QED
    BY <1>1, <1>3, <2>1, <2>2 DEF TickInv, LineInv
<1>9. ReadInv'
  BY <1>1, AskFacts, ReadKept DEF readVars, place
<1>10. QED
  BY <1>4, <1>5, <1>6, <1>7, <1>8, <1>9, AskFacts DEF TickInv

\* A store is posted.
LEMMA AskWriteInv ==
    ASSUME TickInv, CoreClock, Ask, Request.op = "write"
    PROVE  TickInv'
<1>1. Posted /\ access.st = "idle" /\ access'.st = "asked" /\ access'.req = Request
      /\ access'.age = 0
  BY AskFacts DEF Ask
<1>2. /\ mtime' = mtime /\ mtimecmp' = mtimecmp /\ timer_ctrl' = timer_ctrl
      /\ software_irq' = software_irq
  BY CoreFacts
<1>3. /\ tpc' = tpc /\ high_before' = high_before /\ low' = low /\ value' = value
      /\ since' = since /\ next_deadline' = next_deadline /\ ticks' = ticks /\ base' = base
      /\ LowWrite' = LowWrite /\ HighWrite' = HighWrite /\ StartWrite' = StartWrite
  BY AskFacts DEF LowWrite, HighWrite, StartWrite
<1>4. ~Reading' /\ ~Arrived'
  BY <1>1, AskFacts DEF Reading
<1>5. /\ FlightInv /\ ModeInv /\ CompareInv /\ DeadlineInv /\ LineInv /\ ReadInv
      /\ mode \in {"boot", "thread", "isr"} /\ left \in 0..Restore /\ Restore \in 0..Restore
  BY TickNumbers DEF TickInv, TickTypeOK
<1>6. Flushed' = 0 /\ \A i \in 1..IrqStages : ~(i <= 0)
  BY <1>1 DEF Flushed
<1>7. mode = "boot" => \A i \in 1..IrqStages : ~line'[i]
  BY BootLine
<1>8. CASE pc \in Compares
  <2>1. /\ mode' = mode /\ left' = left /\ mode \in {"boot", "isr"}
        /\ \/ pc = "cmp_hold" /\ pc' = "cmp_lo"
           \/ pc = "cmp_lo" /\ pc' = "cmp_hi"
           \/ pc = "cmp_hi" /\ mode = "boot" /\ pc' = "start"
           \/ pc = "cmp_hi" /\ mode = "isr" /\ pc' = "tick"
    BY <1>1, <1>5, <1>8 DEF Posted, Compares, ModeInv, Places
  <2>2. TickTypeOK'
    BY <1>5, <2>1, AskTypes DEF Pcs
  <2>3. FlightInv'
    BY <1>1, <1>3, <1>4, <2>1, RequestFacts DEF FlightInv, Places
  <2>4. access'.req # StartWrite
    BY <1>1, <2>1, RequestFacts, AccessFields
  <2>5. ModeInv'
    BY <1>2, <1>3, <1>5, <1>7, <2>1, <2>4 DEF ModeInv, Compares, Places
  <2>6. CompareInv'
    BY <1>1, <1>2, <1>3, <1>5, <2>1, RequestFacts DEF CompareInv
  <2>7. DeadlineInv'
    BY <1>2, <1>3, <1>5, <2>1 DEF DeadlineInv, Counting, Compares, Places
  <2>8. LineInv'
    BY <1>1, <1>6, <2>1 DEF LineInv
  <2>9. ReadInv'
    <3>1. /\ place' # "read_lo" \/ place' = place
          /\ place' # "read_again" \/ place' = place
      BY <1>3, <2>1 DEF place
    <3>2. /\ since' <= mtime'
          /\ \A l : LowFrom(l)' <=> LowFrom(l)
      BY <1>2, <1>3, <1>5 DEF ReadInv, LowFrom
    <3>3. QED
      BY <1>2, <1>3, <1>4, <1>5, <3>1, <3>2 DEF ReadInv
  <2>10. QED
    BY <2>2, <2>3, <2>5, <2>6, <2>7, <2>8, <2>9, AskFacts DEF TickInv
<1>9. CASE pc = "start"
  <2>1. mode = "boot" /\ mode' = "thread" /\ pc' = "thread" /\ left' = left
    BY <1>1, <1>5, <1>9 DEF Posted, ModeInv, Places, Compares
  <2>2. TickTypeOK'
    BY <1>5, <2>1, AskTypes DEF Pcs
  <2>3. FlightInv'
    BY <1>1, <1>3, <1>4, <1>9, <2>1, RequestFacts DEF FlightInv
  <2>4. ModeInv' /\ CompareInv'
    BY <1>1, <1>2, <1>3, <1>5, <1>9, <2>1 DEF ModeInv, CompareInv, Places
  <2>5. DeadlineInv'
    BY <1>2, <1>3, <1>5, <1>9, <2>1 DEF DeadlineInv, Counting, Places
  <2>6. LineInv'
    BY <1>7, <2>1 DEF LineInv
  <2>7. ReadInv'
    BY <1>2, <1>3, <1>4, <1>5, <2>1 DEF ReadInv, place
  <2>8. QED
    BY <2>2, <2>3, <2>4, <2>5, <2>6, <2>7, AskFacts DEF TickInv
<1>10. CASE pc \in {"clear", "trigger"}
  <2>1. /\ mode = "isr" /\ mode' = "isr" /\ pc' = "restore" /\ left' = Restore
        /\ access'.req \in {Write("software_irq", 0), Write("software_irq", 1)}
    BY <1>1, <1>5, <1>10, RequestFacts DEF Posted, ModeInv, Places, Compares
  <2>2. TickTypeOK'
    BY <1>5, <2>1, AskTypes DEF Pcs
  <2>3. FlightInv'
    BY <1>4, <2>1 DEF FlightInv, Places
  <2>4. ModeInv'
    BY <1>3, <1>5, <2>1 DEF ModeInv
  <2>5. CompareInv'
    <3>1. mtimecmp = next_deadline
      BY <1>1, <1>5, <1>10 DEF CompareInv
    <3>2. QED
      BY <1>2, <1>3, <2>1, <3>1 DEF CompareInv
  <2>6. DeadlineInv'
    BY <1>2, <1>3, <1>5, <1>10, <2>1 DEF DeadlineInv, Counting, Compares
  <2>7. LineInv'
    BY <1>6, <2>1 DEF LineInv
  <2>8. ReadInv'
    <3>1. place' = place
      BY <1>3, <2>1 DEF place
    <3>2. QED
      BY <1>3, <1>4, <3>1, ReadKept DEF readVars
  <2>9. QED
    BY <2>2, <2>3, <2>4, <2>5, <2>6, <2>7, <2>8, AskFacts DEF TickInv
<1>11. QED
  <2>1. pc \in Compares \cup {"start", "clear", "trigger"}
    BY <1>1 DEF Posted, Compares
  <2>2. QED
    BY <1>8, <1>9, <1>10, <2>1

\* The words an answer brings to timer_read, and the time it returns.
LEMMA AnswerArrives ==
    ASSUME TickInv, Answered
    PROVE  /\ Arrived /\ access.st = "ran" /\ access.data \in 0..Ones
           /\ access.req = Request
           /\ pc \in {"read_hi", "read_lo", "read_again", "pending"}
           /\ pc = "pending" => mode = "isr"
           /\ pc # "pending" => mode \in {"boot", "thread"} /\ place = pc
<1>1. /\ access.st = "ran" /\ Reading /\ Arrived /\ FlightInv /\ ModeInv /\ pc \in Pcs
      /\ access.data \in 0..Ones /\ mode \in {"boot", "thread", "isr"}
  BY DEF Answered, Arrived, TickInv, TickTypeOK, PortOK
<1>2. access.req = Request /\ Request.op = "read"
  BY <1>1 DEF FlightInv, Reading
<1>3. pc \in {"read_hi", "read_lo", "read_again", "pending"}
  BY <1>1, <1>2, RequestFacts, AccessFields DEF Pcs
<1>4. QED
  BY <1>1, <1>2, <1>3 DEF ModeInv, Places, Compares, place

\* When both high words agree, the words are those of a time since the call.
LEMMA ValueIsATime ==
    ASSUME TickInv, Answered, pc = "read_again", access.data = high_before
    PROVE  Word(access.data, low) \in since..mtime
<1>1. /\ mtime \in Nat /\ since \in Nat /\ access.data \in 0..Ones /\ high_before \in Nat
      /\ access.data \in Nat
  BY TickNumbers, TimerAssumption DEF Ones
<1>2. PICK m \in since..mtime : /\ lo(m) = low /\ high_before <= hi(m)
                                /\ hi(m) <= access.data
  BY AnswerArrives DEF TickInv, ReadInv
<1>3. m \in Nat
  BY <1>1
<1>4. hi(m) \in Nat /\ Word(hi(m), lo(m)) = m
  BY <1>3, TimeIsItsWords
<1>5. hi(m) = access.data
  BY <1>1, <1>2, <1>4
<1>6. QED
  BY <1>2, <1>4, <1>5

\* An answer reaches timer_read.
LEMMA ReadDoneInv ==
    ASSUME TickInv, CoreClock, Done, TimerRead
    PROVE  TickInv'
<1>1. /\ access' = Idle /\ Answered /\ mode' = mode /\ tpc' = tpc /\ since' = since
  BY DEF Done, TimerRead
<1>2. /\ mtime' = mtime /\ mtimecmp' = mtimecmp /\ timer_ctrl' = timer_ctrl
      /\ software_irq' = software_irq
  BY CoreFacts
<1>3. /\ Arrived /\ access.data \in 0..Ones /\ pc \in {"read_hi", "read_lo", "read_again"}
      /\ mode \in {"boot", "thread"} /\ place = pc
  BY <1>1, AnswerArrives DEF TimerRead
<1>4. /\ PortOK' /\ FlightInv' /\ ~Arrived' /\ access'.st = "idle" /\ access'.req = NoReq
      /\ NoReq # StartWrite' /\ StartWrite' = StartWrite
  <2>1. 0 \in 0..Ones
    BY TimerAssumption DEF Ones
  <2>2. NoReq # StartWrite /\ StartWrite' = StartWrite
    BY AccessFields DEF StartWrite
  <2>3. QED
    BY <1>1, <2>1, <2>2, IdleFacts DEF PortOK, FlightInv, Arrived, Idle
<1>5. /\ tpc \in Pcs /\ high_before \in 0..Ones /\ low \in 0..Ones /\ value \in 0..MaxTime
      /\ next_deadline \in 0..MaxTime + Delta /\ left \in 0..Restore /\ ticks \in Nat
      /\ base \in 0..MaxTime /\ since \in 0..MaxTime
      /\ {"read_hi", "read_lo", "read_again", "thread", "cmp_hold"} \subseteq Pcs
      /\ ModeInv /\ CompareInv /\ DeadlineInv /\ LineInv /\ ReadInv
  BY DEF TickInv, TickTypeOK, Pcs
<1>6. mode = "boot" => \A i \in 1..IrqStages : ~line'[i]
  BY BootLine
<1>7. ASSUME UNCHANGED tickVars, pc' \in Places, mode = "boot" => pc' # "thread"
      PROVE  ModeInv' /\ CompareInv' /\ DeadlineInv' /\ LineInv'
  <2>1. /\ next_deadline' = next_deadline /\ ticks' = ticks /\ base' = base /\ left' = left
    BY <1>7 DEF tickVars
  <2>2. ModeInv'
    BY <1>1, <1>2, <1>3, <1>4, <1>5, <1>6, <1>7, <2>1 DEF ModeInv, Places
  <2>3. CompareInv'
    BY <1>1, <1>2, <1>3, <1>5, <1>7, <2>1 DEF CompareInv, Places
  <2>4. DeadlineInv'
    BY <1>1, <1>2, <1>3, <1>5, <1>7, <2>1 DEF DeadlineInv, Counting, Places
  <2>5. LineInv'
    <3>1. mode = "thread" => \A i \in 1..IrqStages : line'[i] => Due'
      BY <2>1, ThreadLine
    <3>2. QED
      BY <1>1, <1>3, <1>7, <3>1 DEF LineInv, Places
  <2>6. QED
    BY <2>2, <2>3, <2>4, <2>5
<1>8. since' <= mtime' /\ place' = pc'
  BY <1>1, <1>2, <1>3, <1>5 DEF ReadInv, place
<1>9. CASE pc = "read_hi"
  <2>1. /\ high_before' = access.data /\ pc' = "read_lo" /\ low' = low /\ value' = value
        /\ UNCHANGED tickVars
    BY <1>9 DEF TimerRead
  <2>2. TickTypeOK'
    BY <1>1, <1>3, <1>4, <1>5, <2>1, CoreTypes DEF tickVars
  <2>3. access.data <= hi(mtime)
    BY <1>3, <1>5, <1>9 DEF ReadInv
  <2>4. ReadInv'
    BY <1>2, <1>4, <1>8, <2>1, <2>3 DEF ReadInv
  <2>5. QED
    BY <1>4, <1>7, <2>1, <2>2, <2>4 DEF TickInv, Places
<1>10. CASE pc = "read_lo"
  <2>1. /\ low' = access.data /\ pc' = "read_again" /\ high_before' = high_before
        /\ value' = value /\ UNCHANGED tickVars
    BY <1>10 DEF TimerRead
  <2>2. TickTypeOK'
    BY <1>1, <1>3, <1>4, <1>5, <2>1, CoreTypes DEF tickVars
  <2>3. LowFrom(access.data)
    BY <1>3, <1>5, <1>10 DEF ReadInv
  <2>4. LowFrom(low)'
    BY <1>1, <1>2, <2>1, <2>3 DEF LowFrom
  <2>5. ReadInv'
    BY <1>4, <1>8, <2>1, <2>4 DEF ReadInv
  <2>6. QED
    BY <1>4, <1>7, <2>1, <2>2, <2>5 DEF TickInv, Places
<1>11. CASE pc = "read_again" /\ access.data # high_before
  <2>1. /\ pc' = "read_hi" /\ high_before' = high_before /\ low' = low
        /\ value' = value /\ UNCHANGED tickVars
    BY <1>11 DEF TimerRead
  <2>2. TickTypeOK'
    BY <1>1, <1>3, <1>4, <1>5, <2>1, CoreTypes DEF tickVars
  <2>3. ReadInv'
    BY <1>4, <1>8, <2>1 DEF ReadInv
  <2>4. QED
    BY <1>4, <1>7, <2>1, <2>2, <2>3 DEF TickInv, Places
<1>12. CASE pc = "read_again" /\ access.data = high_before
  <2>1. value' \in since..mtime /\ high_before' = high_before /\ low' = low
    <3>1. value' = Word(access.data, low) /\ high_before' = high_before /\ low' = low
      BY <1>12 DEF TimerRead
    <3>2. QED
      BY <1>1, <1>12, <3>1, ValueIsATime
  <2>2. value' \in 0..MaxTime /\ value' <= mtime /\ value' \in Nat
    BY <1>5, <2>1, TickNumbers
  <2>3. CASE mode = "boot"
    <3>1. /\ base' = value' /\ next_deadline' = value' + Delta /\ pc' = "cmp_hold"
          /\ ticks' = ticks /\ left' = left /\ ticks = 0
      BY <1>5, <1>12, <2>3 DEF TimerRead, ModeInv
    <3>2. next_deadline' \in 0..MaxTime + Delta
      BY <2>2, <3>1, TickNumbers
    <3>3. TickTypeOK'
      BY <1>1, <1>3, <1>4, <1>5, <2>1, <2>2, <3>1, <3>2, CoreTypes
    <3>4. ModeInv' /\ CompareInv' /\ LineInv'
      BY <1>1, <1>2, <1>4, <1>5, <1>6, <2>3, <3>1
         DEF ModeInv, CompareInv, LineInv, Compares, Places
    <3>5. DeadlineInv'
      <4>1. /\ base' + ticks' * Delta <= mtime'
            /\ next_deadline' = base' + (ticks' + 1) * Delta
        BY <1>2, <2>2, <3>1, TickNumbers
      <4>2. QED
        BY <1>1, <2>3, <4>1 DEF DeadlineInv, Counting
    <3>6. ReadInv'
      BY <1>4, <1>8, <3>1 DEF ReadInv
    <3>7. QED
      BY <1>4, <3>3, <3>4, <3>5, <3>6 DEF TickInv
  <2>4. CASE mode # "boot"
    <3>1. pc' = "thread" /\ UNCHANGED tickVars
      BY <1>12, <2>4 DEF TimerRead
    <3>2. TickTypeOK'
      BY <1>1, <1>3, <1>4, <1>5, <2>1, <2>2, <3>1, CoreTypes DEF tickVars
    <3>3. ReadInv'
      BY <1>4, <1>8, <3>1 DEF ReadInv
    <3>4. QED
      BY <1>4, <1>7, <2>4, <3>1, <3>2, <3>3 DEF TickInv, Places
  <2>5. QED
    BY <2>3, <2>4
<1>13. QED
  BY <1>3, <1>9, <1>10, <1>11, <1>12

\* The handler learns whether software asked for the interrupt.
LEMMA HandlerDoneInv ==
    ASSUME TickInv, CoreClock, Done, Handler
    PROVE  TickInv'
<1>1. /\ access' = Idle /\ Answered /\ mode' = mode /\ tpc' = tpc /\ pc = "pending"
      /\ high_before' = high_before /\ low' = low /\ value' = value /\ since' = since
      /\ ticks' = ticks /\ base' = base /\ left' = left
      /\ \/ access.data # 0 /\ pc' = "clear" /\ next_deadline' = next_deadline
         \/ access.data = 0 /\ pc' = "cmp_hold" /\ next_deadline' = next_deadline + Delta
  BY DEF Done, Handler, readVars
<1>2. /\ mtime' = mtime /\ mtimecmp' = mtimecmp /\ timer_ctrl' = timer_ctrl
      /\ software_irq' = software_irq
  BY CoreFacts
<1>3. Arrived /\ mode = "isr" /\ access.data = software_irq /\ Due
  BY <1>1, AnswerArrives DEF TickInv, ReadInv, LineInv
<1>4. /\ PortOK' /\ FlightInv' /\ ~Arrived' /\ access'.st = "idle"
  <2>1. 0 \in 0..Ones
    BY TimerAssumption DEF Ones
  <2>2. QED
    BY <1>1, <2>1, IdleFacts DEF PortOK, FlightInv, Arrived, Idle
<1>5. /\ tpc \in Pcs /\ high_before \in 0..Ones /\ low \in 0..Ones /\ value \in 0..MaxTime
      /\ next_deadline \in 0..MaxTime + Delta /\ left \in 0..Restore /\ ticks \in Nat
      /\ base \in 0..MaxTime /\ since \in 0..MaxTime
      /\ "clear" \in Pcs /\ "cmp_hold" \in Pcs
      /\ ModeInv /\ CompareInv /\ DeadlineInv
  BY DEF TickInv, TickTypeOK, Pcs
<1>6. next_deadline = base + (ticks + 1) * Delta
  BY <1>1, <1>3, <1>5 DEF DeadlineInv, Counting, Compares
<1>7. pc' = "cmp_hold" => next_deadline <= mtime
  BY <1>1, <1>3 DEF Due
<1>8. TickTypeOK'
  <2>1. next_deadline' \in 0..MaxTime + Delta
    BY <1>1, <1>5, <1>7, TickNumbers
  <2>2. QED
    BY <1>1, <1>3, <1>4, <1>5, <2>1, CoreTypes
<1>9. ModeInv' /\ CompareInv' /\ LineInv'
  BY <1>1, <1>2, <1>3, <1>5 DEF ModeInv, CompareInv, LineInv, Compares
<1>10. DeadlineInv'
  <2>1. base' + ticks' * Delta <= mtime'
    BY <1>1, <1>2, <1>5 DEF DeadlineInv
  <2>2. CASE pc' = "clear"
    BY <1>1, <1>6, <2>1, <2>2 DEF DeadlineInv, Counting, Compares
  <2>3. CASE pc' = "cmp_hold"
    <3>1. /\ next_deadline' = base' + (ticks' + 2) * Delta
          /\ base' + (ticks' + 1) * Delta <= mtime'
      BY <1>1, <1>2, <1>6, <1>7, <2>3, TickNumbers
    <3>2. QED
      BY <1>1, <1>3, <2>1, <2>3, <3>1 DEF DeadlineInv, Counting, Compares
  <2>4. QED
    BY <1>1, <2>2, <2>3
<1>11. ReadInv'
  <2>1. place' = place
    BY <1>1, <1>3 DEF place
  <2>2. QED
    BY <1>1, <1>4, <2>1, ReadKept DEF readVars
<1>12. QED
  BY <1>4, <1>8, <1>9, <1>10, <1>11 DEF TickInv

\* The tick is counted.
LEMMA CountInv ==
    ASSUME TickInv, CoreClock, Tick
    PROVE  TickInv'
<1>1. /\ access' = Moved /\ mode' = mode /\ tpc' = tpc /\ pc = "tick" /\ ticks' = ticks + 1
      /\ high_before' = high_before /\ low' = low /\ value' = value /\ since' = since
      /\ next_deadline' = next_deadline /\ base' = base
      /\ \/ pc' = "trigger" /\ left' = left
         \/ pc' = "restore" /\ left' = Restore
  BY DEF Tick, readVars
<1>2. /\ mtime' = mtime /\ mtimecmp' = mtimecmp /\ timer_ctrl' = timer_ctrl
      /\ software_irq' = software_irq
  BY CoreFacts
<1>3. /\ PortOK /\ FlightInv /\ ModeInv /\ CompareInv /\ DeadlineInv
      /\ mode = "isr" /\ access.st # "idle" /\ access.age = 0 /\ access.req = HighWrite
  <2>1. mode \in {"boot", "thread", "isr"} /\ ModeInv /\ LineInv /\ FlightInv
    BY DEF TickInv, TickTypeOK
  <2>2. QED
    BY <1>1, <2>1 DEF TickInv, ModeInv, LineInv, FlightInv, Places, Compares
<1>4. /\ PortOK' /\ access'.st = access.st /\ access'.req = access.req
      /\ access'.age = IF access.st = "ran" THEN 1 ELSE 0
  <2>1. access'.st # "idle"
    BY <1>1, <1>3, PortMoves
  <2>2. QED
    BY <1>1, <1>3, <2>1, PortMoves
<1>5. ~Reading' /\ ~Arrived' /\ HighWrite' = HighWrite
  BY <1>1, <1>3, <1>4, AccessFields DEF Reading, Arrived, HighWrite
<1>6. TickTypeOK'
  <2>1. /\ tpc \in Pcs
        /\ high_before \in 0..Ones /\ low \in 0..Ones /\ value \in 0..MaxTime
        /\ next_deadline \in 0..MaxTime + Delta /\ left \in 0..Restore /\ ticks + 1 \in Nat
        /\ base \in 0..MaxTime /\ since \in 0..MaxTime /\ Restore \in 0..Restore
        /\ "trigger" \in Pcs /\ "restore" \in Pcs
    BY TickNumbers DEF TickInv, TickTypeOK, Pcs
  <2>2. QED
    BY <1>1, <1>3, <1>4, <2>1, CoreTypes
<1>7. FlightInv'
  BY <1>1, <1>3, <1>4, <1>5 DEF FlightInv, Places
<1>8. ModeInv'
  BY <1>1, <1>3 DEF ModeInv
<1>9. CompareInv'
  BY <1>1, <1>2, <1>3, <1>4, <1>5 DEF CompareInv
<1>10. DeadlineInv'
  <2>1. /\ next_deadline = base + (ticks + 2) * Delta
        /\ base + (ticks + 1) * Delta <= mtime
    BY <1>1, <1>3 DEF DeadlineInv, Counting
  <2>2. /\ base' + ticks' * Delta <= mtime'
        /\ next_deadline' = base' + (ticks' + 1) * Delta
    BY <1>1, <1>2, <2>1, TickNumbers
  <2>3. QED
    BY <1>1, <1>3, <2>2 DEF DeadlineInv, Counting, Compares
<1>11. LineInv'
  <2>1. \A i \in 1..IrqStages : i <= Flushed' /\ line'[i] => Due'
    <3>1. Flushed' = IF access.st = "ran" THEN 1 ELSE 0
      BY <1>3, <1>4 DEF Flushed
    <3>2. CASE access.st = "ran"
      <4>1. mtimecmp = next_deadline
        BY <1>1, <1>3, <3>2 DEF CompareInv
      <4>2. \A i \in 1..IrqStages : i <= 0 /\ line[i] => Due
        OBVIOUS
      <4>3. \A i \in 1..IrqStages : i <= 0 + 1 /\ line'[i] => Due'
        BY <1>1, <4>1, <4>2, LineFills
      <4>4. QED
        BY <3>1, <3>2, <4>3
    <3>3. CASE access.st # "ran"
      BY <3>1, <3>3
    <3>4. QED
      BY <3>2, <3>3
  <2>2. QED
    BY <1>1, <1>3, <2>1 DEF LineInv
<1>12. ReadInv'
  <2>1. place' = place
    BY <1>1, <1>3 DEF place
  <2>2. QED
    BY <1>1, <1>5, <2>1, ReadKept DEF readVars
<1>13. QED
  BY <1>4, <1>6, <1>7, <1>8, <1>9, <1>10, <1>11, <1>12 DEF TickInv

\* The epilogue waits for the last store, counts down and returns to the thread.  This is
\* where the length of the line matters.
LEMMA EpilogueInv ==
    ASSUME TickInv, CoreClock, Epilogue, IrqStages <= Restore + 4
    PROVE  TickInv'
<1>1. /\ access' = Moved /\ tpc' = tpc /\ pc = "restore" /\ ticks' = ticks
      /\ high_before' = high_before /\ low' = low /\ value' = value /\ since' = since
      /\ next_deadline' = next_deadline /\ base' = base
  BY DEF Epilogue, readVars
<1>2. /\ mtime' = mtime /\ mtimecmp' = mtimecmp /\ timer_ctrl' = timer_ctrl
      /\ software_irq' = software_irq
  BY CoreFacts
<1>3. /\ PortOK /\ FlightInv /\ ModeInv /\ CompareInv /\ DeadlineInv /\ LineInv
      /\ mode = "isr" /\ tpc \in Places /\ left \in 0..Restore
  <2>1. mode \in {"boot", "thread", "isr"} /\ ModeInv
    BY DEF TickInv, TickTypeOK
  <2>2. QED
    BY <1>1, <2>1, TickNumbers DEF TickInv, ModeInv, Places, Compares
<1>4. PortOK' /\ HighWrite' = HighWrite
  BY <1>1, <1>3, PortMoves DEF HighWrite
<1>5. \/ access.st # "idle" /\ mode' = mode /\ pc' = pc /\ left' = left
      \/ access.st = "idle" /\ left > 0 /\ left' = left - 1 /\ mode' = mode /\ pc' = pc
      \/ access.st = "idle" /\ left = 0 /\ mode' = "thread" /\ pc' = tpc /\ left' = left
  <2>1. access = Idle <=> access.st = "idle"
    BY <1>3, IdleFacts DEF PortOK
  <2>2. left > 0 \/ left = 0
    BY <1>3, TickNumbers
  <2>3. CASE access # Idle
    BY <2>1, <2>3 DEF Epilogue
  <2>4. CASE access = Idle /\ left > 0
    BY <2>1, <2>4, TickNumbers DEF Epilogue
  <2>5. CASE access = Idle /\ left = 0
    BY <2>1, <2>5, TickNumbers DEF Epilogue
  <2>6. QED
    BY <2>2, <2>3, <2>4, <2>5
<1>6. /\ ~Arrived' /\ (access'.st # "idle" => access'.req = access.req /\ access.st # "idle")
  <2>1. access'.st # "idle" => access'.req = access.req /\ access.st # "idle"
    BY <1>1, <1>3, PortMoves
  <2>2. access.st # "idle" => access.req.op = "write"
    BY <1>1, <1>3, AccessFields DEF FlightInv
  <2>3. QED
    BY <2>1, <2>2 DEF Arrived, Reading
<1>7. TickTypeOK'
  <2>1. /\ tpc \in Pcs /\ pc \in Pcs
        /\ high_before \in 0..Ones /\ low \in 0..Ones /\ value \in 0..MaxTime
        /\ next_deadline \in 0..MaxTime + Delta /\ ticks \in Nat
        /\ base \in 0..MaxTime /\ since \in 0..MaxTime
    BY DEF TickInv, TickTypeOK
  <2>2. left' \in 0..Restore /\ mode' \in {"boot", "thread", "isr"} /\ pc' \in Pcs
    BY <1>3, <1>5, <2>1, TickNumbers
  <2>3. QED
    BY <1>1, <1>4, <2>1, <2>2, CoreTypes
<1>8. access.st # "asked" => mtimecmp = next_deadline
  BY <1>1, <1>3 DEF CompareInv
<1>9. ReadInv'
  <2>1. place' = place
    BY <1>1, <1>3, <1>5 DEF place
  <2>2. QED
    BY <1>1, <1>6, <2>1, ReadKept DEF readVars
<1>10. CASE pc' = "restore" /\ mode' = "isr"
  <2>1. FlightInv' /\ ModeInv'
    BY <1>1, <1>3, <1>10, FlightMoves DEF ModeInv
  <2>2. CompareInv'
    BY <1>1, <1>2, <1>3, <1>4, <1>10, AskedStays DEF CompareInv
  <2>3. DeadlineInv'
    BY <1>1, <1>2, <1>3, <1>10 DEF DeadlineInv, Counting, Compares
  <2>4. \A i \in 1..IrqStages : i <= Flushed' /\ line'[i] => Due'
    <3>1. CASE access.st = "asked"
      <4>1. Flushed' = 0
        BY <1>1, <1>3, <3>1, AskedStays DEF Flushed, PortOK
      <4>2. QED
        BY <4>1
    <3>2. CASE access.st # "asked"
      <4>1. Flushed \in Nat /\ Flushed' = Flushed + 1
        <5>1. CASE access.st = "idle"
          <6>1. access' = access
            BY <1>1, <1>3, <5>1, MovedFacts
          <6>2. left > 0 /\ left' = left - 1
            <7>1. "restore" \notin Places
              BY DEF Places
            <7>2. QED
              BY <1>3, <1>5, <1>10, <5>1, <7>1
          <6>3. QED
            BY <1>3, <5>1, <6>1, <6>2, TickNumbers DEF Flushed
        <5>2. CASE access.st = "ran"
          <6>1. left = Restore /\ left' = left
            BY <1>1, <1>3, <1>5, <5>2 DEF LineInv
          <6>2. CASE access.age < 2
            <7>1. access' = [access EXCEPT !.age = access.age + 1]
              BY <1>1, <1>3, <5>2, <6>2, MovedFacts
            <7>2. access'.st = "ran" /\ access'.age = access.age + 1
              BY <1>3, <5>2, <7>1 DEF PortOK
            <7>3. QED
              BY <5>2, <7>2, TickNumbers DEF Flushed
          <6>3. CASE access.age = 2
            <7>1. access'.st = "idle"
              BY <1>1, <1>3, <5>2, <6>3, MovedFacts, IdleFacts
            <7>2. QED
              BY <5>2, <6>1, <6>3, <7>1, TickNumbers DEF Flushed
          <6>4. QED
            BY <6>2, <6>3, TickNumbers
        <5>3. QED
          BY <1>3, <3>2, <5>1, <5>2 DEF PortOK
      <4>2. \A i \in 1..IrqStages : i <= Flushed /\ line[i] => Due
        BY <1>1, <1>3 DEF LineInv
      <4>3. \A i \in 1..IrqStages : i <= Flushed + 1 /\ line'[i] => Due'
        BY <1>1, <1>8, <3>2, <4>1, <4>2, LineFills
      <4>4. QED
        BY <4>1, <4>3
    <3>3. QED
      BY <3>1, <3>2
  <2>5. access'.st # "idle" => left' = Restore
    BY <1>1, <1>3, <1>5, <1>6 DEF LineInv
  <2>6. LineInv'
    BY <1>10, <2>4, <2>5 DEF LineInv
  <2>7. QED
    BY <1>4, <1>7, <1>9, <2>1, <2>2, <2>3, <2>6 DEF TickInv
<1>11. CASE access.st = "idle" /\ left = 0 /\ mode' = "thread" /\ pc' = tpc
  <2>1. access' = access /\ access'.st = "idle" /\ mtimecmp = next_deadline
    BY <1>1, <1>3, <1>8, <1>11, MovedFacts
  <2>2. FlightInv' /\ ModeInv' /\ CompareInv'
    BY <1>1, <1>2, <1>3, <1>11, <2>1 DEF FlightInv, ModeInv, CompareInv, Places
  <2>3. DeadlineInv'
    BY <1>1, <1>2, <1>3, <1>11 DEF DeadlineInv, Counting, Compares
  <2>4. \A i \in 1..IrqStages : line'[i] => Due'
    <3>1. Flushed = 3 + Restore /\ Flushed \in Nat
      BY <1>11, TickNumbers DEF Flushed
    <3>2. \A i \in 1..IrqStages : i <= Flushed /\ line[i] => Due
      BY <1>1, <1>3 DEF LineInv
    <3>3. \A i \in 1..IrqStages : i <= Flushed + 1 /\ line'[i] => Due'
      BY <1>1, <2>1, <3>1, <3>2, LineFills
    <3>4. \A i \in 1..IrqStages : i <= Flushed + 1
      BY <3>1, TickNumbers
    <3>5. QED
      BY <3>3, <3>4
  <2>5. LineInv'
    BY <1>3, <1>11, <2>4 DEF LineInv, Places
  <2>6. QED
    BY <1>4, <1>7, <1>9, <2>2, <2>3, <2>5 DEF TickInv
<1>12. QED
  BY <1>1, <1>3, <1>5, <1>10, <1>11

\* The invariant holds at the start.
LEMMA TickInitInv == TickInit => TickInv
<1> SUFFICES ASSUME TickInit PROVE TickInv
  OBVIOUS
<1>1. /\ mtime = 0 /\ mtimecmp = Word(Ones, Ones) /\ timer_ctrl = Control(1)
      /\ software_irq = 0 /\ line = [i \in 1..IrqStages |-> FALSE] /\ access = Idle
      /\ mode = "boot" /\ pc = "read_hi" /\ tpc = "thread"
      /\ high_before = 0 /\ low = 0 /\ value = 0 /\ since = 0
      /\ next_deadline = 0 /\ ticks = 0 /\ base = 0 /\ left = 0
  BY DEF TickInit, TimerInit
<1>2. timer_ctrl \in [run : BOOLEAN, irq : BOOLEAN] /\ ~timer_ctrl.irq
  <2>1. 1 \div 2 = 0
    OBVIOUS
  <2>2. ~((1 \div 2) % 2 = 1)
    BY <2>1
  <2>3. Control(1) \in [run : BOOLEAN, irq : BOOLEAN] /\ (Control(1).irq <=> (1 \div 2) % 2 = 1)
    BY DEF Control
  <2>4. QED
    BY <1>1, <2>2, <2>3
<1>3. 0 \in 0..Ones /\ Ones \in 0..Ones /\ MaxTime \in Nat /\ Restore \in Nat /\ Delta \in Nat
  BY TimerAssumption, TickAssumption DEF Ones
<1>4. mtimecmp \in 0..Half * Half - 1
  BY <1>1, <1>3, WordBounds
<1>5. access.st = "idle" /\ access.req = NoReq /\ access.age = 0 /\ NoReq # StartWrite
  BY <1>1, IdleFacts, AccessFields
<1>6. line \in [1..IrqStages -> BOOLEAN] /\ \A i \in 1..IrqStages : ~line[i]
  BY <1>1
<1>7. TickTypeOK
  BY <1>1, <1>2, <1>3, <1>4, <1>5, <1>6 DEF TickTypeOK, TimerTypeOK, Pcs
<1>8. PortOK /\ FlightInv
  BY <1>1, <1>3, <1>5 DEF PortOK, FlightInv, Idle
<1>9. ModeInv /\ CompareInv /\ LineInv
  BY <1>1, <1>2, <1>5, <1>6 DEF ModeInv, CompareInv, LineInv, Places
<1>10. DeadlineInv
  BY <1>1, <1>3 DEF DeadlineInv, Counting, Places
<1>11. ReadInv
  BY <1>1, <1>5 DEF ReadInv, place, Arrived
<1>12. QED
  BY <1>7, <1>8, <1>9, <1>10, <1>11 DEF TickInv

\* Every step keeps it, provided that the epilogue outlasts the interrupt line.
LEMMA TickStepInv ==
    IrqStages <= Restore + 4 /\ TickInv /\ [TickNext]_systemVars => TickInv'
<1> SUFFICES ASSUME IrqStages <= Restore + 4, TickInv, [TickNext]_systemVars PROVE TickInv'
  OBVIOUS
<1>1. CASE PeriphClock
  BY <1>1, PeriphIdleInv, PeriphAccessInv DEF PeriphClock
<1>2. CASE CoreClock
  <2>1. CASE Trap
    BY <1>2, <2>1, TrapInv
  <2>2. CASE Ask
    BY <1>2, <2>2, AskReadInv, AskWriteInv
  <2>3. CASE Wait \/ Compute
    BY <1>2, <2>3, WaitInv
  <2>4. CASE Done
    <3>1. TimerRead \/ Handler
      BY <2>4 DEF Done
    <3>2. QED
      BY <1>2, <2>4, <3>1, ReadDoneInv, HandlerDoneInv
  <2>5. CASE Tick
    BY <1>2, <2>5, CountInv
  <2>6. CASE Epilogue
    BY <1>2, <2>6, EpilogueInv
  <2>7. CASE timer_read
    BY <1>2, <2>7, CallInv
  <2>8. QED
    BY <1>2, <2>1, <2>2, <2>3, <2>4, <2>5, <2>6, <2>7 DEF CoreClock
<1>3. CASE UNCHANGED systemVars
  <2>1. /\ mtime' = mtime /\ mtimecmp' = mtimecmp /\ timer_ctrl' = timer_ctrl
        /\ software_irq' = software_irq /\ line' = line /\ access' = access /\ mode' = mode
        /\ pc' = pc /\ tpc' = tpc /\ high_before' = high_before /\ low' = low
        /\ value' = value /\ since' = since /\ next_deadline' = next_deadline
        /\ ticks' = ticks /\ base' = base /\ left' = left
    BY <1>3 DEF systemVars, timerVars, readVars, tickVars
  <2>2. TickTypeOK' /\ PortOK' /\ FlightInv' /\ ModeInv'
    BY <2>1 DEF TickInv, TickTypeOK, TimerTypeOK, PortOK, FlightInv, ModeInv, Reading, Request,
                LowWrite, HighWrite
  <2>3. CompareInv' /\ DeadlineInv' /\ LineInv' /\ ReadInv'
    BY <2>1 DEF TickInv, CompareInv, DeadlineInv, LineInv, ReadInv, Counting, Due, Flushed,
                LowFrom, Arrived, place, Reading, HighWrite
  <2>4. QED
    BY <2>2, <2>3 DEF TickInv
<1>4. QED
  BY <1>1, <1>2, <1>3 DEF TickNext

\* RT-Thread's tick keeps time, for every period, width of the bus, length of the interrupt
\* line and of the epilogue: no tick before its deadline, and in a thread the comparator holds
\* a deadline that has not drifted (drv_timer.c, board.c).  The epilogue must outlast the line:
\* mret comes Restore + 4 core clocks after the handler's last store has run.
THEOREM TicksAreInTime ==
    ASSUME IrqStages <= Restore + 4 PROVE TickSpec => []TicksKeepTime
<1>1. TickInv => TicksKeepTime
  BY DEF TickInv, TicksKeepTime, TickNotEarly, CadenceKept, DeadlineInv, CompareInv, Counting,
         ModeInv
<1>2. QED
  BY <1>1, TickInitInv, TickStepInv, PTL DEF TickSpec

\* timer_read returns a time between its call and its return, wherever the low word overflows
\* and interrupts come (drv_timer.c:7-24).
THEOREM TimeIsReadWhole ==
    ASSUME IrqStages <= Restore + 4 PROVE TickSpec => ReadIsConsistent
<1>1. TickInv /\ [TickNext]_systemVars =>
        [value' # value => since <= value' /\ value' <= mtime]_systemVars
  <2> SUFFICES ASSUME TickInv, [TickNext]_systemVars, value' # value
               PROVE  since <= value' /\ value' <= mtime
    OBVIOUS
  <2>1. Done /\ TimerRead
    <3>1. ~UNCHANGED systemVars /\ ~PeriphClock
      BY DEF systemVars, readVars, PeriphClock
    <3>2. CoreClock /\ ~UNCHANGED readVars
      BY <3>1 DEF TickNext, readVars
    <3>3. QED
      BY <3>2 DEF CoreClock, Trap, Ask, Wait, Done, Handler, Tick, Epilogue, Compute,
                  timer_read, readVars
  <2>2. pc = "read_again" /\ access.data = high_before /\ value' = Word(access.data, low)
    BY <2>1 DEF TimerRead
  <2>3. value' \in since..mtime
    BY <2>1, <2>2, ValueIsATime DEF Done
  <2>4. QED
    BY <2>3, TickNumbers
<1>2. QED
  BY <1>1, TickInitInv, TickStepInv, PTL DEF TickSpec, ReadIsConsistent

-----------------------------------------------------------------------------
(***************************************************************************)
(* The bridge.                                                             *)
(***************************************************************************)
USE BridgeAssumption, MaxReqAssumption DEF BridgeAssumption, MaxReqAssumption

-----------------------------------------------------------------------------
(***************************************************************************)
(* Type correctness.                                                       *)
(***************************************************************************)

\* The two halves of a clock edge, each on the registers of its own domain.
CoreTypeOK ==
    /\ req_toggle_q \in Bit
    /\ req_busy_q \in Bit
    /\ req_q \in Requests
    /\ resp_meta_q \in Crossing(Responses)
    /\ resp_sync_q \in Crossing(Responses)
    /\ valid \in Bit
    /\ request \in Requests
    /\ issued \in 0..MaxReq
    /\ got \in Responses

PeriphTypeOK ==
    /\ req_meta_q \in Crossing(Requests)
    /\ req_sync_q \in Crossing(Requests)
    /\ req_seen_q \in Bit
    /\ periph_active_q \in Bit
    /\ periph_req_q \in Requests
    /\ resp_q \in Crossing(Responses)
    /\ peripheral_reset_release_q \in 0..2
    /\ dev \in Run

\* TypeOK splits into what each clock domain writes.
LEMMA TypeSplit == TypeOK <=> CoreTypeOK /\ PeriphTypeOK
  BY DEF TypeOK, BridgeTypeOK, CoreTypeOK, PeriphTypeOK

\* A core clock edge keeps the types of the registers it writes.
LEMMA CoreTickType == TypeOK /\ CoreTick => CoreTypeOK'
  <1> SUFFICES ASSUME TypeOK, CoreTick PROVE CoreTypeOK'
    OBVIOUS
  <1> USE DEF TypeOK, BridgeTypeOK
  <1>1. /\ resp_meta_q' \in Crossing(Responses)
        /\ resp_sync_q' \in Crossing(Responses)
    BY DEF CoreTick, CoreEdge
  <1>2. /\ req_toggle_q' \in Bit
        /\ req_busy_q' \in Bit
        /\ req_q' \in Requests
    BY DEF CoreTick, CoreEdge, CoreHandshake, CoreAccept, Bit
  <1>3. /\ valid' \in Bit
        /\ request' \in Requests
        /\ issued' \in 0..MaxReq
        /\ got' \in Responses
    <2>1. CASE ClientIssue
      BY <2>1 DEF ClientIssue, Bit
    <2>2. CASE ClientIdle \/ ClientWait
      BY <2>2 DEF ClientIdle, ClientWait, clientVars
    <2>3. CASE ClientTake
      BY <2>3 DEF ClientTake, core_req_resp, Crossing, Bit
    <2> QED
      BY <2>1, <2>2, <2>3 DEF CoreTick
  <1> QED
    BY <1>1, <1>2, <1>3 DEF CoreTypeOK

\* A peripheral clock edge keeps the types of the registers it writes.
LEMMA PeriphTickType == TypeOK /\ PeriphTick => PeriphTypeOK'
  <1> SUFFICES ASSUME TypeOK, PeriphTick PROVE PeriphTypeOK'
    OBVIOUS
  <1> USE DEF TypeOK, BridgeTypeOK, PeriphTypeOK
  <1>1. CASE PeriphHeld
    BY <1>1 DEF PeriphHeld, periphRegs, peripheral_rst_n
  <1>2. ASSUME NEW ready \in Bit, NEW resp \in Responses,
               PeriphRun(ready, resp)
        PROVE  PeriphTypeOK'
    <2>1. /\ req_meta_q' \in Crossing(Requests)
          /\ req_sync_q' \in Crossing(Requests)
      BY <1>2 DEF PeriphRun, PeriphEdge, Cross, Crossing, Bit
    <2>2. /\ req_seen_q' \in Bit
          /\ periph_active_q' \in Bit
          /\ periph_req_q' \in Requests
          /\ resp_q' \in Crossing(Responses)
      BY <1>2 DEF PeriphRun, PeriphEdge, PeriphHandshake, Cross, Crossing, Bit
    <2>3. /\ peripheral_reset_release_q' \in 0..2
          /\ dev' \in Run
      BY <1>2 DEF PeriphRun, Run
    <2> QED
      BY <2>1, <2>2, <2>3
  <1> QED
    BY <1>1, <1>2 DEF PeriphTick

\* Type correctness of the bridge with its client and device.
THEOREM TypeCorrect == Spec => []TypeOK
  <1>1. Init => TypeOK
    BY DEF Init, CoreInit, PeriphInit, EnvInit, TypeOK, BridgeTypeOK,
           Cross, Crossing, Bit, Run, NoRun
  <1>2. TypeOK /\ [Next]_vars => TypeOK'
    <2> SUFFICES ASSUME TypeOK, [Next]_vars PROVE TypeOK'
      OBVIOUS
    <2>1. CoreTypeOK /\ PeriphTypeOK
      BY TypeSplit
    <2>2. CASE CoreOnly
      <3>1. PeriphTypeOK'
        BY <2>1, <2>2 DEF CoreOnly, periphRegs, deviceVars, PeriphTypeOK
      <3> QED
        BY <2>2, <3>1, CoreTickType, TypeSplit DEF CoreOnly, TypeOK, BridgeTypeOK, CoreTypeOK,
            PeriphTypeOK
    <2>3. CASE PeriphOnly
      <3>1. CoreTypeOK'
        BY <2>1, <2>3 DEF PeriphOnly, coreRegs, clientVars, CoreTypeOK
      <3> QED
        BY <2>3, <3>1, PeriphTickType DEF PeriphOnly, TypeOK, BridgeTypeOK, CoreTypeOK,
            PeriphTypeOK
    <2>4. CASE BothTick
      BY <2>4, CoreTickType, PeriphTickType
         DEF BothTick, TypeOK, BridgeTypeOK, CoreTypeOK, PeriphTypeOK
    <2>5. CASE Reset
      BY <2>5 DEF Reset, BridgeReset, TypeOK, BridgeTypeOK, Cross, Crossing, Bit, Run, NoRun
    <2>6. CASE UNCHANGED vars
      BY <2>6 DEF vars, coreRegs, periphRegs, clientVars, deviceVars,
                  TypeOK, BridgeTypeOK
    <2> QED
      BY <2>2, <2>3, <2>4, <2>5, <2>6 DEF Next
  <1> QED
    BY <1>1, <1>2, PTL DEF Spec

-----------------------------------------------------------------------------
(***************************************************************************)
(* The inductive invariant.                                                *)
(***************************************************************************)

\* What one edge of the core clock leaves of HandshakeInv depends on the
\* peripheral registers only through their values before the edge, so the
\* three kinds of edge are treated together: a domain either ticks or not.
CoreStays   == UNCHANGED <<coreRegs, clientVars>>
PeriphStays == UNCHANGED <<periphRegs, deviceVars>>

\* A step is a reset, or an edge of one or both domains; a domain without an
\* edge keeps its registers.
LEMMA EdgeKinds ==
  ASSUME Next
  PROVE  \/ (CoreTick \/ CoreStays) /\ (PeriphTick \/ PeriphStays)
         \/ Reset
  BY DEF Next, CoreOnly, PeriphOnly, BothTick, CoreStays, PeriphStays

\* The three things an edge can do in a domain, given the invariant.
LEMMA CoreCases ==
  ASSUME TypeOK, HandshakeInv, CoreTick \/ CoreStays
  PROVE  \/ /\ req_busy_q = 0 /\ valid = 1
            /\ req_busy_q' = 1 /\ req_q' = request
            /\ req_toggle_q' = 1 - req_toggle_q
            /\ resp_meta_q' = resp_q /\ resp_sync_q' = resp_meta_q
            /\ UNCHANGED <<valid, request, issued>>
         \/ /\ req_busy_q = 1 /\ core_req_ready
            /\ req_busy_q' = 0 /\ valid' = 0
            /\ resp_meta_q' = resp_q /\ resp_sync_q' = resp_meta_q
            /\ UNCHANGED <<req_q, req_toggle_q, request, issued>>
         \/ /\ req_busy_q = 0 /\ valid = 0
            /\ valid' = 1 /\ issued' = issued + 1
            /\ resp_meta_q' = resp_q /\ resp_sync_q' = resp_meta_q
            /\ UNCHANGED <<req_busy_q, req_q, req_toggle_q>>
         \/ /\ \/ resp_meta_q' = resp_q /\ resp_sync_q' = resp_meta_q
               \/ UNCHANGED <<resp_meta_q, resp_sync_q>>
            /\ UNCHANGED <<req_busy_q, req_q, req_toggle_q, valid, request, issued>>
  <1> USE DEF TypeOK, BridgeTypeOK, HandshakeInv, InFlight, Bit
  <1>1. CASE CoreStays
    BY <1>1 DEF CoreStays, coreRegs, clientVars
  <1>2. CASE CoreTick
    BY <1>2 DEF CoreTick, CoreEdge, CoreHandshake, CoreAccept, CoreRelease,
                core_req_ready, ClientIssue, ClientIdle, ClientWait, ClientTake,
                clientVars
  <1> QED
    BY <1>1, <1>2

\* The same for the peripheral domain: it is still in reset, starts the request
\* that has arrived, finishes it, or only moves its synchroniser.
LEMMA PeriphCases ==
  ASSUME TypeOK, PeriphTick \/ PeriphStays
  PROVE  \/ /\ peripheral_rst_n => peripheral_rst_n'
            /\ UNCHANGED <<periphRegs, dev>>
         \/ /\ peripheral_rst_n
            /\ req_meta_q' = Cross(req_toggle_q, req_q)
            /\ req_sync_q' = req_meta_q
            /\ peripheral_reset_release_q' = peripheral_reset_release_q
            /\ \/ /\ periph_active_q = 0 /\ req_sync_q.toggle # req_seen_q
                  /\ periph_req_q' = req_sync_q.data
                  /\ periph_active_q' = 1
                  /\ UNCHANGED <<resp_q, req_seen_q, dev>>
               \/ \E resp \in Responses :
                  /\ periph_active_q = 1
                  /\ resp_q' = Cross(req_sync_q.toggle, resp)
                  /\ req_seen_q' = req_sync_q.toggle
                  /\ periph_active_q' = 0
                  /\ dev' = [count |-> dev.count + 1, req |-> periph_req_q, resp |-> resp]
                  /\ UNCHANGED periph_req_q
               \/ UNCHANGED <<periph_req_q, periph_active_q, resp_q, req_seen_q, dev>>
  <1>1. CASE PeriphStays
    BY <1>1 DEF PeriphStays, deviceVars, peripheral_rst_n
  <1>2. CASE PeriphHeld
    BY <1>2 DEF PeriphHeld
  <1> QED
    BY <1>1, <1>2 DEF PeriphTick, PeriphRun, PeriphEdge, PeriphHandshake,
                      PeriphStart, PeriphFinish

\* The handshake invariant is inductive.
LEMMA HandshakeStep ==
  ASSUME TypeOK, TypeOK', HandshakeInv,
         CoreTick \/ CoreStays, PeriphTick \/ PeriphStays
  PROVE  HandshakeInv'
  <1> USE DEF TypeOK, BridgeTypeOK, Bit, Crossing, Run, HandshakeInv, Cross
  <1>0. ~peripheral_rst_n' => ~peripheral_rst_n /\ UNCHANGED <<periphRegs, dev>>
    BY PeriphCases DEF peripheral_rst_n
  <1>1. req_seen_q' = resp_q'.toggle
    BY PeriphCases DEF periphRegs
  <1>2. ~peripheral_rst_n' => PeriphInit'
    BY <1>0 DEF PeriphInit, periphRegs
  <1>3. req_busy_q' = 0 => Quiet' /\ dev'.count + valid' = issued'
    <2> SUFFICES ASSUME req_busy_q' = 0 PROVE Quiet' /\ dev'.count + valid' = issued'
      OBVIOUS
    <2>1. CASE req_busy_q = 0
      <3>1. Quiet /\ dev.count + valid = issued
        BY <2>1
      <3>2. /\ UNCHANGED <<periph_active_q, resp_q, req_seen_q, dev>>
            /\ req_meta_q'.toggle = req_toggle_q
            /\ req_sync_q'.toggle = req_toggle_q
        BY <3>1, PeriphCases DEF Quiet, periphRegs
      <3>3. dev'.count + valid' = issued' /\ req_toggle_q' = req_toggle_q
        BY <2>1, <3>1, <3>2, CoreCases
      <3> QED
        BY <3>1, <3>2, <3>3, CoreCases DEF Quiet
    <2>2. CASE req_busy_q = 1
      <3>1. /\ core_req_ready /\ valid' = 0
            /\ UNCHANGED <<req_toggle_q, issued>>
            /\ resp_meta_q' = resp_q /\ resp_sync_q' = resp_meta_q
        BY <2>2, CoreCases
      <3>2. /\ resp_q.toggle = req_toggle_q
            /\ resp_meta_q.toggle = req_toggle_q
            /\ req_sync_q.toggle = req_toggle_q
            /\ req_meta_q.toggle = req_toggle_q
            /\ periph_active_q = 0
            /\ dev.count = issued
        BY <2>2, <3>1 DEF InFlight, core_req_ready
      <3>3. /\ UNCHANGED <<periph_active_q, resp_q, dev>>
            /\ req_meta_q'.toggle = req_toggle_q
            /\ req_sync_q'.toggle = req_toggle_q
        BY <3>2, PeriphCases DEF periphRegs
      <3> QED
        BY <3>1, <3>2, <3>3 DEF Quiet
    <2> QED
      BY <2>1, <2>2
  <1>4. req_busy_q' = 1 => InFlight'
    <2> SUFFICES ASSUME req_busy_q' = 1 PROVE InFlight'
      OBVIOUS
    <2>1. CASE req_busy_q = 0
      <3>1. /\ Quiet /\ dev.count + 1 = issued
            /\ valid' = 1 /\ req_q' = request /\ request' = request
            /\ req_toggle_q' = 1 - req_toggle_q
            /\ resp_meta_q' = resp_q /\ resp_sync_q' = resp_meta_q
            /\ UNCHANGED issued
        BY <2>1, CoreCases
      <3>2. /\ UNCHANGED <<periph_active_q, resp_q, dev>>
            /\ req_meta_q'.toggle = req_toggle_q
            /\ req_sync_q'.toggle = req_toggle_q
        BY <3>1, PeriphCases DEF Quiet, periphRegs
      <3> QED
        BY <3>1, <3>2 DEF Quiet, InFlight
    <2>2. CASE req_busy_q = 1
      <3>1. /\ \/ resp_meta_q' = resp_q /\ resp_sync_q' = resp_meta_q
               \/ UNCHANGED <<resp_meta_q, resp_sync_q>>
            /\ UNCHANGED <<req_q, req_toggle_q, valid, request, issued>>
        BY <2>2, CoreCases
      <3>2. InFlight
        BY <2>2
      <3>3. CASE UNCHANGED <<periphRegs, dev>>
        BY <3>1, <3>2, <3>3 DEF InFlight, periphRegs
      <3>4. CASE UNCHANGED <<periph_req_q, periph_active_q, resp_q, dev>>
                 /\ req_meta_q' = Cross(req_toggle_q, req_q) /\ req_sync_q' = req_meta_q
        BY <3>1, <3>2, <3>4 DEF InFlight
      <3>5. CASE /\ req_meta_q' = Cross(req_toggle_q, req_q) /\ req_sync_q' = req_meta_q
                 /\ periph_active_q = 0 /\ req_sync_q.toggle # req_seen_q
                 /\ periph_req_q' = req_sync_q.data
                 /\ periph_active_q' = 1
                 /\ UNCHANGED <<resp_q, req_seen_q, dev>>
        BY <3>1, <3>2, <3>5 DEF InFlight
      <3>6. ASSUME NEW resp \in Responses,
                   req_meta_q' = Cross(req_toggle_q, req_q),
                   req_sync_q' = req_meta_q,
                   periph_active_q = 1,
                   resp_q' = Cross(req_sync_q.toggle, resp),
                   periph_active_q' = 0,
                   dev' = [count |-> dev.count + 1, req |-> periph_req_q, resp |-> resp],
                   UNCHANGED periph_req_q
            PROVE  InFlight'
        BY <3>1, <3>2, <3>6 DEF InFlight
      <3> QED
        BY <3>3, <3>4, <3>5, <3>6, PeriphCases
    <2> QED
      BY <2>1, <2>2
  <1> QED
    BY <1>1, <1>2, <1>3, <1>4

\* The handshake invariant holds in every reachable state, for any payload
\* sets and any number of requests, resets and coincident clock edges.
THEOREM HandshakeCorrect == Spec => []HandshakeInv
  <1>1. Init => HandshakeInv
    BY DEF Init, CoreInit, PeriphInit, EnvInit, HandshakeInv, Quiet, Cross, NoRun
  <1>2. TypeOK /\ TypeOK' /\ HandshakeInv /\ [Next]_vars => HandshakeInv'
    <2> SUFFICES ASSUME TypeOK, TypeOK', HandshakeInv, [Next]_vars
                 PROVE  HandshakeInv'
      OBVIOUS
    <2>1. CASE Reset
      BY <2>1 DEF Reset, BridgeReset, HandshakeInv, PeriphInit, Quiet, Cross, NoRun
    <2>2. CASE UNCHANGED vars
      BY <2>2, HandshakeStep DEF vars, CoreStays, PeriphStays
    <2>3. CASE (CoreTick \/ CoreStays) /\ (PeriphTick \/ PeriphStays)
      BY <2>3, HandshakeStep
    <2> QED
      BY <2>1, <2>2, <2>3, EdgeKinds
  <1> QED
    BY <1>1, <1>2, TypeCorrect, PTL DEF Spec

\* Whenever core_req_ready is high, the answer beside it is the device's answer
\* to the request the client is holding.
THEOREM AnswersBelong == Spec => []AnswerBelongs
  <1>1. TypeOK /\ HandshakeInv => AnswerBelongs
    BY DEF AnswerBelongs, HandshakeInv, InFlight, core_req_ready, core_req_resp
  <1> QED
    BY <1>1, TypeCorrect, HandshakeCorrect, PTL

\* The device never runs a request that is not the one being waited for.
THEOREM ActiveAwaited == Spec => []ActiveIsAwaited
  <1>1. TypeOK /\ HandshakeInv => ActiveIsAwaited
    BY DEF ActiveIsAwaited, TypeOK, BridgeTypeOK, Bit, HandshakeInv, Quiet, InFlight
  <1> QED
    BY <1>1, TypeCorrect, HandshakeCorrect, PTL

-----------------------------------------------------------------------------
(***************************************************************************)
(* Refinement: every edge is a step of the port or leaves it alone.        *)
(***************************************************************************)
\* Every edge is a step of the abstract port or leaves its variables alone.
LEMMA PortStep ==
  ASSUME TypeOK, HandshakeInv, Next
  PROVE  Port!PortNext \/ UNCHANGED Port!portVars
  <1> USE DEF TypeOK, BridgeTypeOK, Bit, HandshakeInv, Port!portVars
  <1>1. CASE Reset
    BY <1>1 DEF Reset, NoRun, Port!PortNext, Port!PortReset, Port!PortInit
  <1>2. CASE (CoreTick \/ CoreStays) /\ (PeriphTick \/ PeriphStays)
    \* The device runs at this edge: it is active, so the client only waits.
    <2>1. ASSUME NEW ready \in Bit, NEW resp \in Responses,
                 PeriphRun(ready, resp), PeriphFinish(ready)
          PROVE  Port!Execute(resp)
      <3>1. /\ req_busy_q = 1 /\ InFlight /\ ~core_req_ready
            /\ periph_active_q = 1
        BY <2>1 DEF PeriphFinish, Quiet, InFlight, core_req_ready
      <3>2. UNCHANGED <<valid, request, issued, got>>
        BY <1>2, <3>1 DEF CoreTick, CoreStays, clientVars, InFlight,
                          ClientIssue, ClientIdle, ClientWait, ClientTake
      <3>3. dev' = [count |-> dev.count + 1, req |-> request, resp |-> resp]
        BY <2>1, <3>1 DEF PeriphRun, InFlight
      <3> QED
        BY <3>1, <3>2, <3>3 DEF Port!Execute, InFlight, Run
    <2>2. CASE dev' = dev
      <3>1. CASE CoreStays \/ ClientIdle \/ ClientWait
        BY <2>2, <3>1 DEF CoreStays, ClientIdle, ClientWait, clientVars
      <3>2. CASE ClientIssue
        BY <2>2, <3>2 DEF ClientIssue, Port!PortNext, Port!Issue
      <3>3. CASE ClientTake
        <4>1. dev.count = issued /\ dev.resp = core_req_resp
          BY <3>3 DEF ClientTake, core_req_ready, core_req_resp, InFlight
        <4> QED
          BY <2>2, <3>3, <4>1 DEF ClientTake, Port!PortNext, Port!Deliver
      <3> QED
        BY <1>2, <3>1, <3>2, <3>3 DEF CoreTick
    <2>3. \/ dev' = dev
          \/ \E ready \in Bit, resp \in Responses :
                PeriphRun(ready, resp) /\ PeriphFinish(ready)
      BY <1>2 DEF PeriphTick, PeriphStays, PeriphHeld, PeriphRun, deviceVars
    <2> QED
      BY <2>1, <2>2, <2>3 DEF Port!PortNext
  <1> QED
    BY <1>1, <1>2, EdgeKinds

\* The bridge with an obedient client implements the abstract port.
THEOREM BridgeRefinesPort == Spec => ImplementsPort
  <1>1. Init => Port!PortInit
    BY DEF Init, EnvInit, NoRun, Port!PortInit
  <1>2. TypeOK /\ HandshakeInv /\ [Next]_vars => [Port!PortNext]_(Port!portVars)
    <2> SUFFICES ASSUME TypeOK, HandshakeInv, [Next]_vars
                 PROVE  [Port!PortNext]_(Port!portVars)
      OBVIOUS
    <2>1. CASE Next
      BY <2>1, PortStep
    <2>2. CASE UNCHANGED vars
      BY <2>2 DEF vars, clientVars, deviceVars, Port!portVars
    <2> QED
      BY <2>1, <2>2
  <1> QED
    BY <1>1, <1>2, TypeCorrect, HandshakeCorrect, PTL
       DEF Spec, ImplementsPort, Port!PortSpec
=============================================================================
