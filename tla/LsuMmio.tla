------------------------------- MODULE LsuMmio -------------------------------
(***************************************************************************)
(* The load/store pipeline of the core (lsu.sv, lsu_lsc_ctl.sv) with its   *)
(* MMIO port (lsu_bus_intf.sv) in front of the clock bridge.               *)
(*                                                                         *)
(* An MMIO load asks the bus from stage dc2, before the instructions ahead *)
(* of it have resolved, and freezes the stages dc1..dc3 until the answer   *)
(* is there; an MMIO store asks after it has committed in dc5.  A branch   *)
(* that resolves in e2 flushes through flush_final_e3; an instruction that *)
(* traps or mispredicts in e4, and an interrupt, flush one cycle later     *)
(* through dec_tlu_flush_lower_wb.                                         *)
(*                                                                         *)
(* What is not a load or a store appears only through the flushes it       *)
(* causes.  A DCCM access matters as an occupant of a stage.  The registers*)
(* of the pipeline are updated at every core clock edge, together with the *)
(* core half of the bridge.                                                *)
(***************************************************************************)
EXTENDS ClockBridge

CONSTANTS
    LoadReqs, StoreReqs,   \* requests of MMIO loads and of MMIO stores
    MaxInterrupts          \* bound: interrupts taken (0: mstatus.MIE is clear)

ASSUME LsuAssumption ==
    /\ LoadReqs \subseteq Requests /\ StoreReqs \subseteq Requests
    /\ LoadReqs \cap StoreReqs = {}
    /\ MaxInterrupts \in Nat

VARIABLES
    pipe,             \* lsu_pkt_dc1 .. lsu_pkt_dc5
    load_pending, load_req,    \* load_pending, load_addr_q
    store_pending, store_req,  \* store_pending, store_{addr,wdata,wstrb}_q
    sideeffects,      \* is_sideeffects_dc1 .. is_sideeffects_dc3
    clken_q,          \* lsu_freeze_c1_dc2_clken_q, lsu_freeze_c1_dc3_clken_q
    flush_final_e3,   \* "none", "i0" or "i1": which branch of e2 redirected
    flush_wb,         \* dec_tlu_flush_lower_wb
    kill_wb,          \* it also kills the access in dc5 (dec_tlu_i*_kill_writeb_wb)
    exc_or_int_valid_wb,  \* it was a trap, an interrupt or an mret
    freeze_e4,        \* lsu_freeze_e4: the cycle before was frozen
    block_e4,         \* lsu_block_interrupts_e4
    interrupts,       \* interrupts taken so far
    dev,              \* at the device: the last request and its answer
    debt              \* accesses the program asked for minus requests run,
                      \* counted from -1 to 2

lsuVars == <<pipe, load_pending, load_req, store_pending, store_req, sideeffects,
             clken_q, flush_final_e3, flush_wb, kill_wb, exc_or_int_valid_wb,
             freeze_e4, block_e4, interrupts>>
vars == <<coreRegs, periphRegs, lsuVars, dev, debt>>

\* A stage: what is in it, whether it was squashed by a flush (dead) and
\* whether the bridge has accepted its request (bus).
NoOp == [kind |-> "none", req |-> ResetReq, dead |-> FALSE, bus |-> FALSE]
Op(k, r) == [NoOp EXCEPT !.kind = k, !.req = r]
Incoming == {Op("load", r) : r \in LoadReqs} \cup {Op("store", r) : r \in StoreReqs}
              \cup {Op("dccm", ResetReq), Op("fault", ResetReq)}
Stage == [kind : {"none", "load", "store", "dccm", "fault"}, req : Requests,
          dead : BOOLEAN, bus : BOOLEAN]

TypeOK ==
    /\ BridgeTypeOK
    /\ pipe \in [1..5 -> Stage]
    /\ load_pending \in Bit /\ load_req \in LoadReqs \cup {ResetReq}
    /\ store_pending \in Bit /\ store_req \in StoreReqs \cup {ResetReq}
    /\ sideeffects \in [1..3 -> Bit]
    /\ clken_q \in [2..3 -> BOOLEAN]
    /\ flush_final_e3 \in {"none", "i0", "i1"}
    /\ {flush_wb, kill_wb, exc_or_int_valid_wb, freeze_e4, block_e4} \subseteq Bit
    /\ dev \in [req : Requests, resp : Responses]
    /\ interrupts \in 0..MaxInterrupts
    /\ debt \in -1..2

-----------------------------------------------------------------------------
(***************************************************************************)
(* Combinational signals.                                                  *)
(***************************************************************************)
flush_dc2_up == flush_final_e3 # "none" \/ flush_wb = 1
flush_dc3    == flush_final_e3 = "i0" \/ flush_wb = 1
flush_dc4    == flush_wb = 1

\* A misaligned MMIO access ("fault") occupies the bus reservation but never
\* asks the bus: lsu_exc_dc2 stops it and it traps in dc4.
external(op)     == op.kind \in {"load", "store", "fault"}
external_in_pipe == \E i \in 1..5 : external(pipe[i])

load_request_dc2 == pipe[2].kind = "load" /\ ~flush_dc2_up

lsu_mmio_valid == IF load_pending = 1 \/ store_pending = 1 THEN 1 ELSE 0
lsu_mmio_req   == IF store_pending = 1 THEN store_req ELSE load_req

\* Mutant: the freeze starts a cycle late.
lsu_freeze_dc3_late == load_pending = 1 /\ ~core_req_ready

lsu_freeze_dc3 == /\ load_request_dc2 \/ load_pending = 1
                  /\ ~(load_pending = 1 /\ core_req_ready)

\* Mutant: accesses that are still in the pipeline reserve nothing.
lsu_bus_buffer_full_any_noPipe == load_pending = 1 \/ store_pending = 1

lsu_bus_buffer_full_any == external_in_pipe \/ load_pending = 1 \/ store_pending = 1

lsu_commit_dc5 == pipe[5] # NoOp /\ kill_wb = 0

-----------------------------------------------------------------------------
Init ==
    /\ CoreInit /\ PeriphInit
    /\ pipe = [i \in 1..5 |-> NoOp]
    /\ load_pending = 0 /\ load_req = ResetReq
    /\ store_pending = 0 /\ store_req = ResetReq
    /\ sideeffects = [i \in 1..3 |-> 0]
    /\ clken_q = [i \in 2..3 |-> FALSE]
    /\ flush_final_e3 = "none"
    /\ flush_wb = 0 /\ kill_wb = 0 /\ exc_or_int_valid_wb = 0
    /\ freeze_e4 = 0 /\ block_e4 = 0 /\ interrupts = 0
    /\ dev = [req |-> ResetReq, resp |-> ResetResp]
    /\ debt = 0

(***************************************************************************)
(* The stages.  Decode presents an access (or none) when the bus is not    *)
(* reserved; a flush empties the stages behind it, but only those that     *)
(* are clocked: a frozen stage keeps what it holds.                        *)
(***************************************************************************)
Squashed(i) == CASE i \in {1, 2} -> flush_dc2_up
                 [] i = 3 -> flush_dc3
                 [] i = 4 -> flush_dc4
                 [] OTHER -> FALSE

Passed(i) == IF Squashed(i) THEN NoOp ELSE pipe[i]

Held(i) == IF pipe[i] = NoOp THEN NoOp
           ELSE [pipe[i] EXCEPT
                   !.dead = @ \/ Squashed(i),
                   !.bus = @ \/ (i = 2 /\ load_pending = 1 /\ CoreAccept(lsu_mmio_valid))]

Decoded == {NoOp} \cup (IF lsu_bus_buffer_full_any \/ flush_dc2_up THEN {} ELSE Incoming)

\* is_sideeffects_dc<i> is clocked when a valid packet enters stage i and at
\* the edge after that.
Clocked(i) == pipe[i - 1] # NoOp \/ clken_q[i]

StagesMove ==
    /\ ~lsu_freeze_dc3
    /\ \E op \in Decoded :
         /\ pipe' = <<op, Passed(1), Passed(2), Passed(3), Passed(4)>>
         /\ sideeffects' =
              <<IF op = NoOp THEN sideeffects[1] ELSE IF external(op) THEN 1 ELSE 0,
                IF Clocked(2) THEN sideeffects[1] ELSE sideeffects[2],
                IF Clocked(3) THEN sideeffects[2] ELSE sideeffects[3]>>
    /\ clken_q' = [i \in 2..3 |-> pipe[i - 1] # NoOp]

StagesFreeze ==
    /\ lsu_freeze_dc3
    /\ pipe' = <<Held(1), Held(2), Held(3), NoOp, Passed(4)>>
    /\ UNCHANGED <<sideeffects, clken_q>>

(***************************************************************************)
(* The bus registers (lsu_bus_intf.sv:135-162).                            *)
(***************************************************************************)
LoadCancelled == flush_dc3 \/ flush_dc4 \/ kill_wb = 1

LoadPort ==
    \/ /\ load_pending = 1
       /\ load_pending' = IF core_req_ready \/ LoadCancelled THEN 0 ELSE 1
       /\ UNCHANGED load_req
    \/ /\ load_pending = 0 /\ load_request_dc2
       /\ load_pending' = 1 /\ load_req' = pipe[2].req
    \/ /\ load_pending = 0 /\ ~load_request_dc2
       /\ UNCHANGED <<load_pending, load_req>>

StoreCommits == store_pending = 0 /\ pipe[5].kind = "store" /\ lsu_commit_dc5

\* Mutant: the store is posted, it does not wait for ready.
StorePort_posted ==
    \/ store_pending = 1 /\ store_pending' = 0 /\ UNCHANGED store_req
    \/ StoreCommits /\ store_pending' = 1 /\ store_req' = pipe[5].req
    \/ store_pending = 0 /\ ~StoreCommits /\ UNCHANGED <<store_pending, store_req>>

StorePort ==
    \/ /\ store_pending = 1
       /\ store_pending' = IF core_req_ready THEN 0 ELSE 1
       /\ UNCHANGED store_req
    \/ /\ StoreCommits
       /\ store_pending' = 1 /\ store_req' = pipe[5].req
    \/ /\ store_pending = 0 /\ ~StoreCommits
       /\ UNCHANGED <<store_pending, store_req>>

(***************************************************************************)
(* Flushes.  An instruction can trap or mispredict in e4 only in the cycle *)
(* after an unfrozen one, since a frozen cycle sends a bubble to e4, and   *)
(* not in the shadow of another flush; a faulting access must.  An         *)
(* interrupt needs no instruction; it waits for lsu_block_interrupts_e4    *)
(* and is not taken directly behind a trap, an interrupt or an mret.       *)
(***************************************************************************)
LsuFault == pipe[4].kind = "fault" /\ flush_wb = 0

NoFlush ==
    /\ ~LsuFault
    /\ flush_wb' = 0 /\ kill_wb' = 0 /\ exc_or_int_valid_wb' = 0
    /\ UNCHANGED interrupts

SyncFlush ==
    /\ freeze_e4 = 0 /\ flush_wb = 0
    /\ flush_wb' = 1
    /\ kill_wb' \in IF LsuFault THEN {1} ELSE Bit
    /\ exc_or_int_valid_wb' \in IF LsuFault THEN {1} ELSE Bit
    /\ UNCHANGED interrupts

TakeInterrupt ==
    /\ interrupts < MaxInterrupts /\ ~LsuFault
    /\ ~(block_e4 = 1 /\ flush_wb = 0) /\ exc_or_int_valid_wb = 0
    /\ flush_wb' = 1 /\ kill_wb' = 0 /\ exc_or_int_valid_wb' = 1
    /\ interrupts' = interrupts + 1

Flushes ==
    /\ NoFlush \/ SyncFlush \/ TakeInterrupt
    /\ freeze_e4' = IF lsu_freeze_dc3 THEN 1 ELSE 0
    /\ block_e4' = IF lsu_freeze_dc3 /\ sideeffects[3] = 1 /\ flush_wb = 0 THEN 1 ELSE 0

\* A branch of e1 cannot redirect in the cycle of another redirect, so two
\* redirects are never adjacent (exu_alu_ctl.sv:185).
BranchResolves ==
    \/ lsu_freeze_dc3 /\ UNCHANGED flush_final_e3
    \/ ~lsu_freeze_dc3 /\ flush_wb = 1 /\ flush_final_e3' = "i0"
    \/ ~lsu_freeze_dc3 /\ flush_wb = 0 /\ flush_final_e3 # "none" /\ flush_final_e3' = "none"
    \/ /\ ~lsu_freeze_dc3 /\ flush_wb = 0 /\ flush_final_e3 = "none"
       /\ flush_final_e3' \in {"none", "i0", "i1"}

(***************************************************************************)
(* One edge of the core clock, of the peripheral clock, or of both.        *)
(***************************************************************************)
\* An access is asked for once: a load when it first reaches the port, a
\* store when it commits.
Asked == IF (load_pending = 0 /\ load_request_dc2 /\ ~pipe[2].bus) \/ StoreCommits
         THEN 1 ELSE 0

Saturated(n) == IF n > 2 THEN 2 ELSE IF n < -1 THEN -1 ELSE n

LsuEdge ==
    /\ StagesMove \/ StagesFreeze
    /\ LoadPort /\ StorePort /\ Flushes /\ BranchResolves
    /\ CoreEdge(lsu_mmio_valid, lsu_mmio_req)

DeviceEdge(ready, resp) ==
    /\ PeriphEdge(ready, resp)
    /\ dev' = IF PeriphFinish(ready) THEN [req |-> periph_req_q, resp |-> resp] ELSE dev

RunsAt(ready) == IF PeriphFinish(ready) THEN 1 ELSE 0

CoreTick ==
    LsuEdge /\ debt' = Saturated(debt + Asked) /\ UNCHANGED <<periphRegs, dev>>

PeriphTick == \E ready \in Bit, resp \in Responses :
    /\ DeviceEdge(ready, resp)
    /\ debt' = Saturated(debt - RunsAt(ready))
    /\ UNCHANGED <<coreRegs, lsuVars>>

BothTick == \E ready \in Bit, resp \in Responses :
    LsuEdge /\ DeviceEdge(ready, resp) /\ debt' = Saturated(debt + Asked - RunsAt(ready))

Next == CoreTick \/ PeriphTick \/ BothTick

Spec == Init /\ [][Next]_vars

\* Both clocks run and the device is ready in the end.
Fairness ==
    /\ WF_vars(CoreTick \/ BothTick)
    /\ WF_vars(\E resp \in Responses :
                  /\ DeviceEdge(1, resp)
                  /\ \/ debt' = Saturated(debt - RunsAt(1)) /\ UNCHANGED <<coreRegs, lsuVars>>
                     \/ LsuEdge /\ debt' = Saturated(debt + Asked - RunsAt(1)))

LiveSpec == Spec /\ Fairness
-----------------------------------------------------------------------------
(***************************************************************************)
(* Properties.                                                             *)
(***************************************************************************)
\* Load and store share one port, and store_pending selects the payload: the
\* two are never outstanding together, or the load would be answered for the
\* store (lsu_bus_intf.sv:165-169, reserved by lsu_bus_buffer_full_any).
NeverBothPending == ~(load_pending = 1 /\ store_pending = 1)

\* When the port sees ready, the request on its pins is the one the device
\* ran last and the data beside ready is that run's answer.
AnswerForOwner ==
    lsu_mmio_valid = 1 /\ core_req_ready =>
        dev.req = lsu_mmio_req /\ dev.resp = core_req_resp

\* AnswerForOwner as far as branches and traps can disturb it: until an
\* interrupt squashes a load whose request is already in the bridge.
AnswerForOwnerUndisturbed == interrupts = 0 => AnswerForOwner

\* A load waits in dc2 but picks its data up in dc3, one cycle after ready,
\* from the bridge's synchroniser: by then neither another answer nor another
\* request has taken its place (lsu_lsc_ctl.sv:205, lsu_bus_intf.sv:173).
LoadReadsItsAnswer ==
    pipe[3].kind = "load" /\ interrupts = 0 =>
        dev.req = pipe[3].req /\ dev.resp = core_req_resp /\ load_req = pipe[3].req

\* Every access that asked for the bus is run once: at most one is
\* outstanding, and then something still waits for it; a load that was
\* squashed and asks again is not run a second time.
ExactlyOnce ==
    interrupts = 0 =>
        /\ debt \in 0..1
        /\ debt = 1 => lsu_mmio_valid = 1 \/ (pipe[2].kind = "load" /\ pipe[2].bus)

\* A frozen pipeline moves again and a store leaves the port: whatever
\* accesses, flushes and interrupts follow, the port comes to a moment in
\* which nothing waits for it.
PortComesToRest ==
    lsu_freeze_dc3 \/ store_pending = 1 ~> ~lsu_freeze_dc3 /\ store_pending = 0

\* What the documents ask of an MMIO access: once the bridge has a load's
\* request, the load is no longer subject to a flush.
MmioNotSpeculative ==
    \A i \in 1..4 : pipe[i].bus => ~(pipe[i].dead \/ Squashed(i))

\* core_req_valid and its payload are held until ready.
RequestHeld ==
    [][lsu_mmio_valid = 1 /\ ~core_req_ready
         => lsu_mmio_valid' = 1 /\ lsu_mmio_req' = lsu_mmio_req]_vars

\* The registers of the port have their types, and a load and a store never wait
\* for it together (lsu_bus_buffer_full_any stalls decode until it is free).
PortInv == TypeOK /\ NeverBothPending

\* Whatever branches and traps flush, ready and the data beside it are for the access
\* on the pins, and still there for the load that picks them up a cycle later.
AnswersReachTheirAccess == AnswerForOwnerUndisturbed /\ LoadReadsItsAnswer
=============================================================================
