---------------------------- MODULE LsuMmioProofs ---------------------------
(***************************************************************************)
(* For any requests and responses: a load and a store never wait for the   *)
(* MMIO port together; and as long as no interrupt is taken, ready and its *)
(* data are for the access on the pins and every access is run once,       *)
(* whatever branches and traps flush.                                      *)
(***************************************************************************)
EXTENDS LsuMmio, TLAPS

\* What a stage holds: an access of its kind, or nothing at all.
StageOK(op) ==
    /\ op \in Stage
    /\ op.kind = "load" => op.req \in LoadReqs
    /\ op.kind = "store" => op.req \in StoreReqs
    /\ op.kind = "none" => op = NoOp

\* The types, with what a stage can hold.
PortTypes ==
    /\ BridgeTypeOK
    /\ pipe \in [1..5 -> Stage] /\ \A i \in 1..5 : StageOK(pipe[i])
    /\ load_pending \in Bit /\ load_req \in LoadReqs \cup {ResetReq}
    /\ store_pending \in Bit /\ store_req \in StoreReqs \cup {ResetReq}
    /\ sideeffects \in [1..3 -> Bit] /\ clken_q \in [2..3 -> BOOLEAN]
    /\ flush_final_e3 \in {"none", "i0", "i1"}
    /\ flush_wb \in Bit /\ kill_wb \in Bit /\ exc_or_int_valid_wb \in Bit
    /\ freeze_e4 \in Bit /\ block_e4 \in Bit
    /\ dev \in [req : Requests, resp : Responses]
    /\ interrupts \in 0..MaxInterrupts /\ debt \in -1..2

\* The reservation: one access to the bus in the pipeline and its registers together.  A
\* load that waits is still in dc2, a store that waits has left the pipeline.
OneAccess ==
    /\ \A i, j \in 1..5 : external(pipe[i]) /\ external(pipe[j]) => i = j
    /\ load_pending = 1 => pipe[2].kind = "load" /\ load_req = pipe[2].req
    /\ store_pending = 1 => ~external_in_pipe

\* A load whose request may be in the bridge is behind no branch, the cycle before was
\* frozen, so nothing new can trap, and it is cancelled at most once, in the cycle after
\* it was asked for.
Undisturbed ==
    /\ load_pending = 1 \/ pipe[2].bus => freeze_e4 = 1 /\ flush_final_e3 = "none"
    /\ pipe[2].bus => pipe[2].kind = "load" /\ flush_wb = 0
    /\ pipe[1].bus = FALSE
    /\ kill_wb = 1 => flush_wb = 1

\* The bridge works for the access that waits, and for nothing else.
Owner ==
    /\ req_busy_q = 0 => ~pipe[2].bus
    /\ req_busy_q = 1 =>
          \/ store_pending = 1 /\ req_q = store_req
          \/ pipe[2].bus /\ req_q = pipe[2].req

\* Nothing is in the bridge, and all its stages hold the last answer.
Quiet ==
    /\ periph_active_q = 0
    /\ req_meta_q.toggle = req_toggle_q /\ req_sync_q.toggle = req_toggle_q
    /\ resp_q = Cross(req_toggle_q, dev.resp)
    /\ resp_meta_q = resp_q /\ resp_sync_q = resp_q

\* A request on its way there, at the device, and on its way back.
InFlight ==
    /\ req_sync_q.toggle = req_toggle_q => req_meta_q.toggle = req_toggle_q
    /\ req_meta_q.toggle = req_toggle_q => req_meta_q.data = req_q
    /\ req_sync_q.toggle = req_toggle_q => req_sync_q.data = req_q
    /\ periph_active_q = 1 => /\ req_sync_q.toggle = req_toggle_q /\ periph_req_q = req_q
                              /\ resp_q.toggle # req_toggle_q
    /\ resp_q.toggle = req_toggle_q => /\ req_sync_q.toggle = req_toggle_q
                                       /\ dev = [req |-> req_q, resp |-> resp_q.data]
    /\ resp_meta_q.toggle = req_toggle_q => resp_meta_q = resp_q
    /\ resp_sync_q.toggle = req_toggle_q => resp_sync_q = resp_meta_q /\ resp_meta_q = resp_q

\* How the bridge stands and what the program is still owed.
Handshake ==
    /\ req_seen_q = resp_q.toggle
    /\ req_busy_q = 0 => Quiet /\ debt = lsu_mmio_valid
    /\ req_busy_q = 1 => InFlight /\ debt = IF resp_q.toggle = req_toggle_q THEN 0 ELSE 1
    /\ pipe[3].kind = "load" => /\ req_busy_q = 0 /\ dev.req = pipe[3].req
                                /\ load_req = pipe[3].req

LsuInv ==
    /\ PortTypes /\ OneAccess
    /\ interrupts = 0 => Undisturbed /\ Owner /\ Handshake
-----------------------------------------------------------------------------
(***************************************************************************)
(* What moves where.                                                       *)
(***************************************************************************)
\* An empty stage, and the accesses decode can present.
LEMMA NoOpFacts ==
    /\ NoOp \in Stage /\ StageOK(NoOp) /\ ~external(NoOp)
    /\ NoOp.kind = "none" /\ NoOp.req = ResetReq /\ NoOp.bus = FALSE
BY BridgeAssumption DEF NoOp, Stage, StageOK, external

\* An access that decode presents.
LEMMA IncomingFacts ==
    ASSUME NEW op \in Incoming
    PROVE  StageOK(op) /\ op.bus = FALSE /\ op.kind \in {"load", "store", "dccm", "fault"}
<1>1. ASSUME NEW k \in {"load", "store", "dccm", "fault"}, NEW r \in Requests
      PROVE  Op(k, r) \in Stage /\ Op(k, r).kind = k /\ Op(k, r).req = r /\ Op(k, r).bus = FALSE
  <2>1. NoOp \in Stage /\ NoOp.bus = FALSE
    BY NoOpFacts
  <2>2. QED
    BY <2>1 DEF Op, Stage
<1>2. \/ \E r \in LoadReqs : op = Op("load", r)
      \/ \E r \in StoreReqs : op = Op("store", r)
      \/ op = Op("dccm", ResetReq) \/ op = Op("fault", ResetReq)
  BY DEF Incoming
<1>3. LoadReqs \subseteq Requests /\ StoreReqs \subseteq Requests /\ ResetReq \in Requests
  BY LsuAssumption, BridgeAssumption
<1>4. CASE \E r \in LoadReqs : op = Op("load", r)
  <2>1. PICK r \in LoadReqs : op = Op("load", r)
    BY <1>4
  <2>2. op \in Stage /\ op.kind = "load" /\ op.req = r /\ op.bus = FALSE
    BY <1>1, <1>3, <2>1
  <2>3. QED
    BY <2>2 DEF StageOK
<1>5. CASE \E r \in StoreReqs : op = Op("store", r)
  <2>1. PICK r \in StoreReqs : op = Op("store", r)
    BY <1>5
  <2>2. op \in Stage /\ op.kind = "store" /\ op.req = r /\ op.bus = FALSE
    BY <1>1, <1>3, <2>1
  <2>3. QED
    BY <2>2 DEF StageOK
<1>6. CASE op = Op("dccm", ResetReq)
  <2>1. op \in Stage /\ op.kind = "dccm" /\ op.bus = FALSE
    BY <1>1, <1>3, <1>6
  <2>2. QED
    BY <2>1 DEF StageOK
<1>7. CASE op = Op("fault", ResetReq)
  <2>1. op \in Stage /\ op.kind = "fault" /\ op.bus = FALSE
    BY <1>1, <1>3, <1>7
  <2>2. QED
    BY <2>1 DEF StageOK
<1>8. QED
  BY <1>2, <1>4, <1>5, <1>6, <1>7

\* A stage that is frozen keeps its access; the bridge may have accepted it.
LEMMA HeldFacts ==
    ASSUME PortTypes, NEW i \in 1..5
    PROVE  /\ StageOK(Held(i)) /\ Held(i).kind = pipe[i].kind /\ Held(i).req = pipe[i].req
           /\ external(Held(i)) <=> external(pipe[i])
           /\ Held(i).bus <=> \/ pipe[i].bus
                              \/ /\ pipe[i] # NoOp /\ i = 2 /\ load_pending = 1
                                 /\ CoreAccept(lsu_mmio_valid)
<1>1. pipe[i] \in Stage /\ StageOK(pipe[i])
  BY DEF PortTypes
<1>2. CASE pipe[i] = NoOp
  BY <1>2, NoOpFacts DEF Held
<1>3. CASE pipe[i] # NoOp
  <2> DEFINE d == pipe[i].dead \/ Squashed(i)
             b == pipe[i].bus \/ (i = 2 /\ load_pending = 1 /\ CoreAccept(lsu_mmio_valid))
  <2>1. Held(i) = [pipe[i] EXCEPT !.dead = d, !.bus = b]
    BY <1>3 DEF Held
  <2>2. d \in BOOLEAN /\ b \in BOOLEAN
    OBVIOUS
  <2> HIDE DEF d, b
  <2>3. /\ Held(i) \in Stage /\ Held(i).kind = pipe[i].kind /\ Held(i).req = pipe[i].req
        /\ Held(i).bus = b
    BY <1>1, <2>1, <2>2 DEF Stage
  <2>4. pipe[i].kind # "none"
    BY <1>1, <1>3 DEF StageOK
  <2>5. QED
    BY <1>1, <1>3, <2>3, <2>4 DEF StageOK, external, b
<1>4. QED
  BY <1>2, <1>3

\* A stage that moves on passes its access, or an empty stage when it is squashed.
LEMMA PassedFacts ==
    ASSUME PortTypes, NEW i \in 1..5
    PROVE  /\ StageOK(Passed(i))
           /\ Passed(i) = pipe[i] \/ Passed(i) = NoOp
           /\ Squashed(i) => Passed(i) = NoOp
BY NoOpFacts DEF Passed, PortTypes

\* Decode presents nothing while the bus is reserved.
LEMMA DecodedFacts ==
    ASSUME NEW op \in Decoded
    PROVE  /\ StageOK(op) /\ op.bus = FALSE
           /\ external(op) => ~lsu_bus_buffer_full_any
<1>1. CASE op = NoOp
  BY <1>1, NoOpFacts
<1>2. CASE op \in Incoming /\ ~lsu_bus_buffer_full_any
  BY <1>2, IncomingFacts
<1>3. QED
  BY <1>1, <1>2 DEF Decoded

\* The pipeline after a core clock edge.
LEMMA StagesStep ==
    ASSUME LsuEdge
    PROVE  /\ DOMAIN pipe' = 1..5
           /\ lsu_freeze_dc3 =>
                /\ pipe'[1] = Held(1) /\ pipe'[2] = Held(2) /\ pipe'[3] = Held(3)
                /\ pipe'[4] = NoOp /\ pipe'[5] = Passed(4)
           /\ ~lsu_freeze_dc3 =>
                /\ pipe'[1] \in Decoded /\ pipe'[2] = Passed(1) /\ pipe'[3] = Passed(2)
                /\ pipe'[4] = Passed(3) /\ pipe'[5] = Passed(4)
<1>1. CASE StagesFreeze
  <2>1. lsu_freeze_dc3 /\ pipe' = <<Held(1), Held(2), Held(3), NoOp, Passed(4)>>
    BY <1>1 DEF StagesFreeze
  <2>2. QED
    BY <2>1
<1>2. CASE StagesMove
  <2>1. PICK op \in Decoded : pipe' = <<op, Passed(1), Passed(2), Passed(3), Passed(4)>>
    BY <1>2 DEF StagesMove
  <2>2. QED
    BY <1>2, <2>1 DEF StagesMove
<1>3. QED
  BY <1>1, <1>2 DEF LsuEdge

-----------------------------------------------------------------------------
(***************************************************************************)
(* The types, and one access at a time.                                    *)
(***************************************************************************)
\* What the stages hold after an edge has its type.
LEMMA PipeTypes ==
    ASSUME PortTypes, LsuEdge
    PROVE  pipe' \in [1..5 -> Stage] /\ \A i \in 1..5 : StageOK(pipe'[i])
<1>1. \A i \in 1..5 : StageOK(Held(i)) /\ StageOK(Passed(i))
  BY HeldFacts, PassedFacts
<1>2. StageOK(NoOp) /\ \A op \in Decoded : StageOK(op)
  BY NoOpFacts, DecodedFacts
<1>3. StageOK(pipe'[1]) /\ StageOK(pipe'[2]) /\ StageOK(pipe'[3])
  BY <1>1, <1>2, StagesStep
<1>4. StageOK(pipe'[4]) /\ StageOK(pipe'[5])
  BY <1>1, <1>2, StagesStep
<1>5. \A i \in 1..5 : StageOK(pipe'[i])
  BY <1>3, <1>4
<1>6. \A i \in 1..5 : pipe'[i] \in Stage
  BY <1>5 DEF StageOK
<1>7. pipe' = [i \in 1..5 |-> pipe'[i]]
  <2>1. CASE StagesFreeze
    BY <2>1 DEF StagesFreeze
  <2>2. CASE StagesMove
    BY <2>2 DEF StagesMove
  <2>3. QED
    BY <2>1, <2>2 DEF LsuEdge
<1>8. QED
  BY <1>5, <1>6, <1>7

\* The registers of the port and of the bridge's core half.
LEMMA PortRegisterTypes ==
    ASSUME PortTypes, LsuEdge
    PROVE  /\ load_pending' \in Bit /\ load_req' \in LoadReqs \cup {ResetReq}
           /\ store_pending' \in Bit /\ store_req' \in StoreReqs \cup {ResetReq}
           /\ req_toggle_q' \in Bit /\ req_busy_q' \in Bit /\ req_q' \in Requests
           /\ resp_meta_q' \in Crossing(Responses) /\ resp_sync_q' \in Crossing(Responses)
<1>1. StageOK(pipe[2]) /\ StageOK(pipe[5])
  BY DEF PortTypes
<1>2. load_pending' \in Bit /\ load_req' \in LoadReqs \cup {ResetReq}
  BY <1>1 DEF LsuEdge, LoadPort, load_request_dc2, PortTypes, StageOK, Bit
<1>3. store_pending' \in Bit /\ store_req' \in StoreReqs \cup {ResetReq}
  BY <1>1 DEF LsuEdge, StorePort, StoreCommits, PortTypes, StageOK, Bit
<1>4. lsu_mmio_req \in Requests
  BY LsuAssumption, BridgeAssumption DEF lsu_mmio_req, PortTypes
<1>5. req_toggle_q' \in Bit /\ req_busy_q' \in Bit /\ req_q' \in Requests
  BY <1>4 DEF LsuEdge, CoreEdge, CoreHandshake, PortTypes, BridgeTypeOK, Bit
<1>6. resp_meta_q' \in Crossing(Responses) /\ resp_sync_q' \in Crossing(Responses)
  BY DEF LsuEdge, CoreEdge, PortTypes, BridgeTypeOK
<1>7. QED
  BY <1>2, <1>3, <1>5, <1>6

\* The side-effect bits, their clock enables and the flushes.
LEMMA FlushTypes ==
    ASSUME PortTypes, LsuEdge
    PROVE  /\ sideeffects' \in [1..3 -> Bit] /\ clken_q' \in [2..3 -> BOOLEAN]
           /\ flush_final_e3' \in {"none", "i0", "i1"}
           /\ flush_wb' \in Bit /\ kill_wb' \in Bit /\ exc_or_int_valid_wb' \in Bit
           /\ freeze_e4' \in Bit /\ block_e4' \in Bit
           /\ interrupts' \in 0..MaxInterrupts
<1>1. sideeffects' \in [1..3 -> Bit] /\ clken_q' \in [2..3 -> BOOLEAN]
  <2>1. CASE StagesFreeze
    BY <2>1 DEF StagesFreeze, PortTypes
  <2>2. CASE StagesMove
    BY <2>2 DEF StagesMove, PortTypes, Bit
  <2>3. QED
    BY <2>1, <2>2 DEF LsuEdge
<1>2. flush_final_e3' \in {"none", "i0", "i1"}
  BY DEF LsuEdge, BranchResolves, PortTypes
<1>3. freeze_e4' \in Bit /\ block_e4' \in Bit
  BY DEF LsuEdge, Flushes, Bit
<1>4. /\ flush_wb' \in Bit /\ kill_wb' \in Bit /\ exc_or_int_valid_wb' \in Bit
      /\ interrupts' \in 0..MaxInterrupts
  <2>1. CASE NoFlush
    BY <2>1 DEF NoFlush, PortTypes, Bit
  <2>2. CASE SyncFlush
    BY <2>2 DEF SyncFlush, PortTypes, Bit
  <2>3. CASE TakeInterrupt
    BY <2>3, LsuAssumption DEF TakeInterrupt, PortTypes, Bit
  <2>4. QED
    BY <2>1, <2>2, <2>3 DEF LsuEdge, Flushes
<1>5. QED
  BY <1>1, <1>2, <1>3, <1>4

\* The peripheral half and the device.
LEMMA DeviceTypes ==
    ASSUME PortTypes, NEW ready \in Bit, NEW resp \in Responses, DeviceEdge(ready, resp)
    PROVE  /\ req_meta_q' \in Crossing(Requests) /\ req_sync_q' \in Crossing(Requests)
           /\ req_seen_q' \in Bit /\ periph_active_q' \in Bit /\ periph_req_q' \in Requests
           /\ resp_q' \in Crossing(Responses) /\ dev' \in [req : Requests, resp : Responses]
<1> USE DEF PortTypes, BridgeTypeOK
<1>1. req_meta_q' \in Crossing(Requests) /\ req_sync_q' \in Crossing(Requests)
  BY DEF DeviceEdge, PeriphEdge, Cross, Crossing
<1>2. /\ req_seen_q' \in Bit /\ periph_active_q' \in Bit /\ periph_req_q' \in Requests
      /\ resp_q' \in Crossing(Responses)
  BY DEF DeviceEdge, PeriphEdge, PeriphHandshake, Cross, Crossing, Bit
<1>3. dev' \in [req : Requests, resp : Responses]
  BY DEF DeviceEdge
<1>4. QED
  BY <1>1, <1>2, <1>3

\* The count of owed accesses is kept between its bounds.
LEMMA DebtType ==
    ASSUME debt \in -1..2, NEW a \in Bit, NEW r \in Bit
    PROVE  /\ Saturated(debt + a) \in -1..2 /\ Saturated(debt - r) \in -1..2
           /\ Saturated(debt + a - r) \in -1..2
BY DEF Saturated, Bit

\* One of the two halves has no clock edge in this step.
CoreStays   == UNCHANGED <<coreRegs, lsuVars>>
DeviceStays == UNCHANGED <<periphRegs, dev>>

\* A step of the system: each half takes its edge or keeps its registers.
LEMMA Edges ==
    ASSUME [Next]_vars
    PROVE  /\ LsuEdge \/ CoreStays
           /\ (\E ready \in Bit, resp \in Responses : DeviceEdge(ready, resp)) \/ DeviceStays
BY DEF Next, CoreTick, PeriphTick, BothTick, vars, CoreStays, DeviceStays

\* The types are preserved.
LEMMA PortTypesKept == PortTypes /\ [Next]_vars => PortTypes'
<1> SUFFICES ASSUME PortTypes, [Next]_vars PROVE PortTypes'
  OBVIOUS
<1>1. /\ pipe' \in [1..5 -> Stage] /\ \A i \in 1..5 : StageOK(pipe'[i])
  <2>1. CASE CoreStays
    BY <2>1 DEF CoreStays, lsuVars, PortTypes
  <2>2. QED
    BY <2>1, PipeTypes, Edges
<1>2. /\ load_pending' \in Bit /\ load_req' \in LoadReqs \cup {ResetReq}
      /\ store_pending' \in Bit /\ store_req' \in StoreReqs \cup {ResetReq}
      /\ req_toggle_q' \in Bit /\ req_busy_q' \in Bit /\ req_q' \in Requests
      /\ resp_meta_q' \in Crossing(Responses) /\ resp_sync_q' \in Crossing(Responses)
  <2>1. CASE CoreStays
    BY <2>1 DEF CoreStays, lsuVars, coreRegs, PortTypes, BridgeTypeOK
  <2>2. QED
    BY <2>1, PortRegisterTypes, Edges
<1>3. /\ sideeffects' \in [1..3 -> Bit] /\ clken_q' \in [2..3 -> BOOLEAN]
      /\ flush_final_e3' \in {"none", "i0", "i1"}
      /\ flush_wb' \in Bit /\ kill_wb' \in Bit /\ exc_or_int_valid_wb' \in Bit
      /\ freeze_e4' \in Bit /\ block_e4' \in Bit
      /\ interrupts' \in 0..MaxInterrupts
  <2>1. CASE CoreStays
    BY <2>1 DEF CoreStays, lsuVars, PortTypes
  <2>2. QED
    BY <2>1, FlushTypes, Edges
<1>4. /\ req_meta_q' \in Crossing(Requests) /\ req_sync_q' \in Crossing(Requests)
      /\ req_seen_q' \in Bit /\ periph_active_q' \in Bit /\ periph_req_q' \in Requests
      /\ resp_q' \in Crossing(Responses) /\ dev' \in [req : Requests, resp : Responses]
  <2>1. CASE DeviceStays
    BY <2>1 DEF DeviceStays, periphRegs, PortTypes, BridgeTypeOK
  <2>2. QED
    BY <2>1, DeviceTypes, Edges
<1>5. debt' \in -1..2
  <2>1. Asked \in Bit /\ \A ready \in Bit : RunsAt(ready) \in Bit
    BY DEF Asked, RunsAt, Bit
  <2>2. debt \in -1..2
    BY DEF PortTypes
  <2>3. CASE CoreTick
    BY <2>1, <2>2, <2>3, DebtType DEF CoreTick
  <2>4. CASE PeriphTick
    BY <2>1, <2>2, <2>4, DebtType DEF PeriphTick
  <2>5. CASE BothTick
    BY <2>1, <2>2, <2>5, DebtType DEF BothTick
  <2>6. CASE UNCHANGED vars
    BY <2>2, <2>6 DEF vars
  <2>7. QED
    BY <2>3, <2>4, <2>5, <2>6 DEF Next
<1>6. QED
  BY <1>1, <1>2, <1>3, <1>4, <1>5 DEF PortTypes, BridgeTypeOK

\* Where an access to the bus can be after an edge.
LEMMA ExternalMoves ==
    ASSUME PortTypes, LsuEdge
    PROVE  /\ lsu_freeze_dc3 =>
                /\ external(pipe'[1]) <=> external(pipe[1])
                /\ external(pipe'[2]) <=> external(pipe[2])
                /\ external(pipe'[3]) <=> external(pipe[3])
                /\ ~external(pipe'[4])
                /\ external(pipe'[5]) => external(pipe[4])
           /\ ~lsu_freeze_dc3 =>
                /\ external(pipe'[1]) => ~lsu_bus_buffer_full_any
                /\ external(pipe'[2]) => external(pipe[1])
                /\ external(pipe'[3]) => external(pipe[2])
                /\ external(pipe'[4]) => external(pipe[3])
                /\ external(pipe'[5]) => external(pipe[4])
<1>1. \A i \in 1..5 : external(Passed(i)) => external(pipe[i])
  BY PassedFacts, NoOpFacts
<1>2. \A i \in 1..5 : external(Held(i)) <=> external(pipe[i])
  BY HeldFacts
<1>3. \A op \in Decoded : external(op) => ~lsu_bus_buffer_full_any
  BY DecodedFacts
<1>4. CASE lsu_freeze_dc3
  BY <1>1, <1>2, <1>4, StagesStep, NoOpFacts
<1>5. CASE ~lsu_freeze_dc3
  BY <1>1, <1>3, <1>5, StagesStep
<1>6. QED
  BY <1>4, <1>5

\* A load that waits, or begins to wait, freezes the pipeline and stays in dc2.
LEMMA LoadStays ==
    ASSUME PortTypes, OneAccess, LsuEdge, load_pending' = 1
    PROVE  /\ lsu_freeze_dc3 /\ pipe[2].kind = "load"
           /\ pipe'[2].kind = "load" /\ load_req' = pipe'[2].req
<1>1. lsu_freeze_dc3 /\ pipe[2].kind = "load" /\ load_req' = pipe[2].req
  <2>1. CASE load_pending = 1
    BY <2>1 DEF LsuEdge, LoadPort, lsu_freeze_dc3, OneAccess
  <2>2. CASE load_pending = 0
    BY <2>2 DEF LsuEdge, LoadPort, lsu_freeze_dc3, load_request_dc2
  <2>3. QED
    BY <2>1, <2>2 DEF PortTypes, Bit
<1>2. pipe'[2] = Held(2)
  BY <1>1, StagesStep
<1>3. QED
  BY <1>1, <1>2, HeldFacts

\* Once a store has committed, nothing in the pipeline accesses the bus until it is run.
LEMMA StoreAlone ==
    ASSUME PortTypes, OneAccess, LsuEdge, store_pending' = 1
    PROVE  ~external_in_pipe'
<1>1. lsu_bus_buffer_full_any /\ \A i \in 1..4 : ~external(pipe[i])
  <2>1. CASE store_pending = 1
    BY <2>1 DEF OneAccess, lsu_bus_buffer_full_any, external_in_pipe
  <2>2. CASE StoreCommits
    <3>1. external(pipe[5])
      BY <2>2 DEF StoreCommits, external
    <3>2. QED
      BY <3>1 DEF OneAccess, lsu_bus_buffer_full_any, external_in_pipe
  <2>3. QED
    BY <2>1, <2>2 DEF LsuEdge, StorePort
<1>2. /\ ~external(pipe'[1]) /\ ~external(pipe'[2]) /\ ~external(pipe'[3])
      /\ ~external(pipe'[4]) /\ ~external(pipe'[5])
  BY <1>1, ExternalMoves
<1>3. QED
  BY <1>2 DEF external_in_pipe, external

\* At every edge the bus has one access at most.
LEMMA OneAccessKept == PortTypes /\ OneAccess /\ [Next]_vars => OneAccess'
<1> SUFFICES ASSUME PortTypes, OneAccess, [Next]_vars PROVE OneAccess'
  OBVIOUS
<1>1. CASE CoreStays
  BY <1>1 DEF CoreStays, lsuVars, OneAccess, external, external_in_pipe
<1>2. CASE LsuEdge
  <2>1. \A i, j \in 1..5 : external(pipe'[i]) /\ external(pipe'[j]) => i = j
    <3>1. CASE lsu_freeze_dc3
      BY <1>2, <3>1, ExternalMoves DEF OneAccess
    <3>2. CASE ~lsu_freeze_dc3
      <4>1. external(pipe'[1]) => \A i \in 1..5 : ~external(pipe[i])
        BY <1>2, <3>2, ExternalMoves DEF lsu_bus_buffer_full_any, external_in_pipe
      <4>2. QED
        BY <1>2, <3>2, <4>1, ExternalMoves DEF OneAccess
    <3>3. QED
      BY <3>1, <3>2
  <2>2. load_pending' = 1 => pipe'[2].kind = "load" /\ load_req' = pipe'[2].req
    BY <1>2, LoadStays
  <2>3. store_pending' = 1 => ~external_in_pipe'
    BY <1>2, StoreAlone
  <2>4. QED
    BY <2>1, <2>2, <2>3 DEF OneAccess, external
<1>3. QED
  BY <1>1, <1>2, Edges

-----------------------------------------------------------------------------
(***************************************************************************)
(* Without interrupts.                                                     *)
(***************************************************************************)
\* Interrupts are only counted up, and without one a flush needs an unfrozen cycle
\* before it and none in flight.
LEMMA Uninterrupted ==
    ASSUME PortTypes, LsuEdge, interrupts' = 0
    PROVE  /\ interrupts = 0 /\ (kill_wb' = 1 => flush_wb' = 1)
           /\ freeze_e4 = 1 => flush_wb' = 0
<1>1. CASE NoFlush
  BY <1>1 DEF NoFlush
<1>2. CASE SyncFlush
  BY <1>2 DEF SyncFlush
<1>3. CASE TakeInterrupt
  <2>1. interrupts \in Nat /\ interrupts' = interrupts + 1
    BY <1>3, LsuAssumption DEF TakeInterrupt, PortTypes
  <2>2. QED
    BY <2>1
<1>4. QED
  BY <1>1, <1>2, <1>3 DEF LsuEdge, Flushes

\* dc2 after an edge: a request that is in the bridge was there before, or was accepted
\* at this edge for the load that waits.
LEMMA BusMoves ==
    ASSUME PortTypes, Undisturbed, LsuEdge
    PROVE  /\ pipe'[1].bus = FALSE
           /\ pipe'[2].bus => /\ lsu_freeze_dc3 /\ pipe[2].kind = pipe'[2].kind
                              /\ pipe[2].bus \/ (load_pending = 1 /\ CoreAccept(lsu_mmio_valid))
           /\ lsu_freeze_dc3 => /\ pipe'[2].req = pipe[2].req /\ pipe'[2].kind = pipe[2].kind
                                /\ pipe'[2].bus <=>
                                     \/ pipe[2].bus
                                     \/ /\ pipe[2] # NoOp /\ load_pending = 1
                                        /\ CoreAccept(lsu_mmio_valid)
<1>1. CASE lsu_freeze_dc3
  <2>1. pipe'[1] = Held(1) /\ pipe'[2] = Held(2)
    BY <1>1, StagesStep
  <2>2. /\ Held(2).kind = pipe[2].kind /\ Held(2).req = pipe[2].req
        /\ Held(2).bus <=> \/ pipe[2].bus
                           \/ /\ pipe[2] # NoOp /\ load_pending = 1
                              /\ CoreAccept(lsu_mmio_valid)
    BY HeldFacts
  <2>3. StageOK(Held(1)) /\ (Held(1).bus <=> pipe[1].bus)
    BY HeldFacts
  <2>4. Held(1).bus = FALSE
    BY <2>3 DEF StageOK, Stage, Undisturbed
  <2>5. QED
    BY <1>1, <2>1, <2>2, <2>4
<1>2. CASE ~lsu_freeze_dc3
  <2>1. pipe'[1] \in Decoded /\ pipe'[2] = Passed(1)
    BY <1>2, StagesStep
  <2>2. pipe'[1].bus = FALSE
    BY <2>1, DecodedFacts
  <2>3. pipe'[2] = pipe[1] \/ pipe'[2] = NoOp
    BY <2>1, PassedFacts
  <2>4. pipe'[2].bus = FALSE
    BY <2>3, NoOpFacts DEF Undisturbed
  <2>5. QED
    BY <1>2, <2>2, <2>4
<1>3. QED
  BY <1>1, <1>2

\* A load is disturbed at most once, and not by a branch.
LEMMA UndisturbedKept ==
    ASSUME PortTypes, OneAccess, Undisturbed, LsuEdge, interrupts' = 0
    PROVE  Undisturbed'
<1>1. freeze_e4' = IF lsu_freeze_dc3 THEN 1 ELSE 0
  BY DEF LsuEdge, Flushes
<1>2. lsu_freeze_dc3 => flush_final_e3' = flush_final_e3
  BY DEF LsuEdge, BranchResolves
<1>3. load_pending' = 1 => freeze_e4' = 1 /\ flush_final_e3' = "none"
  <2> SUFFICES ASSUME load_pending' = 1 PROVE freeze_e4' = 1 /\ flush_final_e3' = "none"
    OBVIOUS
  <2>1. lsu_freeze_dc3
    BY LoadStays
  <2>2. flush_final_e3 = "none"
    BY DEF LsuEdge, LoadPort, Undisturbed, load_request_dc2, flush_dc2_up, PortTypes, Bit
  <2>3. QED
    BY <1>1, <1>2, <2>1, <2>2
<1>4. pipe'[2].bus => freeze_e4' = 1 /\ flush_final_e3' = "none"
  BY <1>1, <1>2, BusMoves DEF Undisturbed
<1>5. pipe'[2].bus => pipe'[2].kind = "load"
  BY BusMoves DEF Undisturbed, OneAccess
<1>6. pipe'[2].bus => flush_wb' = 0
  BY BusMoves, Uninterrupted DEF Undisturbed
<1>7. pipe'[1].bus = FALSE /\ (kill_wb' = 1 => flush_wb' = 1)
  BY BusMoves, Uninterrupted
<1>8. QED
  BY <1>3, <1>4, <1>5, <1>6, <1>7 DEF Undisturbed

\* While the bridge works for a load, the pipeline is frozen until the load takes its
\* answer: neither branch nor trap lets it go.
LEMMA BusFreezes ==
    ASSUME PortTypes, OneAccess, Undisturbed, pipe[2].bus
    PROVE  lsu_freeze_dc3 \/ (load_pending = 1 /\ core_req_ready)
<1>1. load_request_dc2
  BY DEF Undisturbed, load_request_dc2, flush_dc2_up
<1>2. QED
  BY <1>1 DEF lsu_freeze_dc3, PortTypes, Bit

\* What the program can ask for at an edge.
LEMMA AskedFacts ==
    ASSUME PortTypes, OneAccess, Undisturbed, Owner
    PROVE  Asked = 1 => req_busy_q = 0 /\ lsu_mmio_valid = 0
<1> SUFFICES ASSUME Asked = 1 PROVE req_busy_q = 0 /\ lsu_mmio_valid = 0
  OBVIOUS
<1>1. \/ load_pending = 0 /\ load_request_dc2 /\ ~pipe[2].bus
      \/ StoreCommits
  BY DEF Asked
<1>2. CASE load_pending = 0 /\ load_request_dc2 /\ ~pipe[2].bus
  <2>1. external(pipe[2])
    BY <1>2 DEF load_request_dc2, external
  <2>2. store_pending # 1
    BY <2>1 DEF OneAccess, external_in_pipe
  <2>3. QED
    BY <1>2, <2>2 DEF Owner, lsu_mmio_valid, PortTypes, BridgeTypeOK, Bit
<1>3. CASE StoreCommits
  <2>1. external(pipe[5]) /\ store_pending = 0
    BY <1>3 DEF StoreCommits, external
  <2>2. ~external(pipe[2])
    BY <2>1 DEF OneAccess
  <2>3. pipe[2].kind # "load"
    BY <2>2 DEF external
  <2>4. load_pending # 1
    BY <2>3 DEF OneAccess
  <2>5. QED
    BY <2>1, <2>3, <2>4 DEF Owner, Undisturbed, lsu_mmio_valid, PortTypes, BridgeTypeOK, Bit
<1>4. QED
  BY <1>1, <1>2, <1>3

\* A step in terms of what the core half asks for and what the device runs.
CoreDoes(a) == (LsuEdge /\ a = Asked) \/ (CoreStays /\ a = 0)
DeviceDoes(r) ==
    \/ \E ready \in Bit, resp \in Responses : DeviceEdge(ready, resp) /\ r = RunsAt(ready)
    \/ DeviceStays /\ r = 0

\* Every step is one of these on either side, and the debt counts both.
LEMMA StepKinds ==
    ASSUME PortTypes, [Next]_vars
    PROVE  \E a, r \in Bit : CoreDoes(a) /\ DeviceDoes(r) /\ debt' = Saturated(debt + a - r)
<1>1. Asked \in Bit /\ \A ready \in Bit : RunsAt(ready) \in Bit
  BY DEF Asked, RunsAt, Bit
<1>2. debt \in Int /\ 0 \in Bit /\ \A a, r \in Bit : a \in Int /\ r \in Int
  BY DEF PortTypes, Bit
<1>3. CASE CoreTick
  <2>1. CoreDoes(Asked) /\ DeviceDoes(0) /\ debt' = Saturated(debt + Asked)
    BY <1>3 DEF CoreTick, CoreDoes, DeviceDoes, DeviceStays
  <2>2. debt + Asked = debt + Asked - 0
    BY <1>1, <1>2
  <2>3. QED
    BY <1>1, <1>2, <2>1, <2>2
<1>4. CASE PeriphTick
  <2>1. PICK ready \in Bit, resp \in Responses :
              /\ DeviceEdge(ready, resp) /\ debt' = Saturated(debt - RunsAt(ready))
              /\ UNCHANGED <<coreRegs, lsuVars>>
    BY <1>4 DEF PeriphTick
  <2>2. CoreDoes(0) /\ DeviceDoes(RunsAt(ready))
    BY <2>1 DEF CoreDoes, CoreStays, DeviceDoes
  <2>3. debt - RunsAt(ready) = debt + 0 - RunsAt(ready)
    BY <1>1, <1>2
  <2>4. QED
    BY <1>1, <1>2, <2>1, <2>2, <2>3
<1>5. CASE BothTick
  <2>1. PICK ready \in Bit, resp \in Responses :
              LsuEdge /\ DeviceEdge(ready, resp)
                  /\ debt' = Saturated(debt + Asked - RunsAt(ready))
    BY <1>5 DEF BothTick
  <2>2. CoreDoes(Asked) /\ DeviceDoes(RunsAt(ready))
    BY <2>1 DEF CoreDoes, DeviceDoes
  <2>3. QED
    BY <1>1, <2>1, <2>2
<1>6. CASE UNCHANGED vars
  <2>1. CoreDoes(0) /\ DeviceDoes(0) /\ debt' = debt
    BY <1>6 DEF vars, CoreDoes, CoreStays, DeviceDoes, DeviceStays
  <2>2. debt = Saturated(debt + 0 - 0)
    BY DEF PortTypes, Saturated
  <2>3. QED
    BY <1>2, <2>1, <2>2
<1>7. QED
  BY <1>3, <1>4, <1>5, <1>6 DEF Next

\* What a core edge does to the bridge, seen from the port.
RespMoves == resp_meta_q' = resp_q /\ resp_sync_q' = resp_meta_q

Accepts ==
    /\ req_busy_q = 0 /\ lsu_mmio_valid = 1 /\ req_busy_q' = 1
    /\ req_q' = lsu_mmio_req /\ req_toggle_q' = 1 - req_toggle_q /\ RespMoves

Releases ==
    /\ core_req_ready /\ lsu_mmio_valid = 1 /\ req_busy_q = 1 /\ req_busy_q' = 0
    /\ UNCHANGED <<req_q, req_toggle_q>> /\ RespMoves

Rests ==
    /\ req_busy_q = 0 => lsu_mmio_valid = 0
    /\ req_busy_q = 1 => ~(core_req_ready /\ lsu_mmio_valid = 1)
    /\ UNCHANGED <<req_busy_q, req_q, req_toggle_q>>
    /\ RespMoves

\* At a core edge the bridge accepts a request, releases it, or rests.
LEMMA CoreEvents ==
    ASSUME PortTypes, LsuEdge PROVE Accepts \/ Releases \/ Rests
<1>1. CoreEdge(lsu_mmio_valid, lsu_mmio_req) /\ lsu_mmio_valid \in Bit /\ req_busy_q \in Bit
  BY DEF LsuEdge, lsu_mmio_valid, Bit, PortTypes, BridgeTypeOK
<1>2. QED
  BY <1>1 DEF CoreEdge, CoreHandshake, CoreAccept, CoreRelease, core_req_ready, Bit,
              Accepts, Releases, Rests, RespMoves

\* The load that waits owns the port alone, and so does the store.
LEMMA ValidFacts ==
    ASSUME PortTypes, OneAccess
    PROVE  /\ lsu_mmio_valid = 1 <=> load_pending = 1 \/ store_pending = 1
           /\ lsu_mmio_valid \in Bit
           /\ load_pending = 1 =>
                 /\ store_pending = 0 /\ pipe[2].kind = "load" /\ pipe[2] # NoOp
                 /\ lsu_mmio_req = pipe[2].req
           /\ store_pending = 1 =>
                 load_pending = 0 /\ pipe[2].kind # "load" /\ lsu_mmio_req = store_req
<1>1. lsu_mmio_valid \in Bit /\ (lsu_mmio_valid = 1 <=> load_pending = 1 \/ store_pending = 1)
  BY DEF lsu_mmio_valid, Bit
<1>2. store_pending = 1 => pipe[2].kind # "load"
  BY DEF OneAccess, external_in_pipe, external
<1>3. load_pending = 1 => pipe[2].kind = "load" /\ load_req = pipe[2].req
  BY DEF OneAccess
<1>4. pipe[2].kind = "load" => pipe[2] # NoOp
  BY NoOpFacts
<1>5. QED
  BY <1>1, <1>2, <1>3, <1>4 DEF lsu_mmio_req, PortTypes, Bit

\* The bridge goes on working for the access that waits.
LEMMA OwnerKept ==
    ASSUME PortTypes, OneAccess, Undisturbed, Owner, LsuEdge
    PROVE  Owner'
<1>1. store_pending = 1 /\ ~core_req_ready => store_pending' = 1 /\ store_req' = store_req
  BY DEF LsuEdge, StorePort, StoreCommits
<1>2. CASE Accepts
  <2>1. ~core_req_ready /\ CoreAccept(lsu_mmio_valid)
    BY <1>2 DEF Accepts, core_req_ready, CoreAccept
  <2>2. CASE store_pending = 1
    BY <1>1, <1>2, <2>1, <2>2, ValidFacts DEF Accepts, Owner
  <2>3. CASE load_pending = 1
    <3>1. lsu_freeze_dc3
      BY <2>1, <2>3 DEF lsu_freeze_dc3
    <3>2. pipe'[2].bus /\ pipe'[2].req = pipe[2].req
      BY <2>1, <2>3, <3>1, BusMoves, ValidFacts
    <3>3. QED
      BY <1>2, <2>3, <3>2, ValidFacts DEF Accepts, Owner
  <2>4. QED
    BY <1>2, <2>2, <2>3, ValidFacts DEF Accepts
<1>3. CASE Releases
  <2>1. ~CoreAccept(lsu_mmio_valid) /\ req_busy_q' = 0
    BY <1>3 DEF Releases, CoreAccept
  <2>2. CASE store_pending = 1
    <3>1. ~pipe[2].bus
      BY <2>2, ValidFacts DEF Undisturbed
    <3>2. ~pipe'[2].bus
      BY <2>1, <3>1, BusMoves
    <3>3. QED
      BY <2>1, <3>2 DEF Owner
  <2>3. CASE load_pending = 1
    <3>1. ~lsu_freeze_dc3
      BY <1>3, <2>3 DEF lsu_freeze_dc3, Releases
    <3>2. ~pipe'[2].bus
      BY <3>1, BusMoves
    <3>3. QED
      BY <2>1, <3>2 DEF Owner
  <2>4. QED
    BY <1>3, <2>2, <2>3, ValidFacts DEF Releases
<1>4. CASE Rests
  <2>1. ~CoreAccept(lsu_mmio_valid)
    BY <1>4, ValidFacts DEF Rests, CoreAccept, Bit
  <2>2. CASE req_busy_q = 0
    <3>1. ~pipe'[2].bus
      BY <2>1, <2>2, BusMoves DEF Owner
    <3>2. QED
      BY <1>4, <2>2, <3>1 DEF Rests, Owner
  <2>3. CASE req_busy_q = 1
    <3>1. CASE store_pending = 1 /\ req_q = store_req
      <4>1. ~core_req_ready
        BY <1>4, <2>3, <3>1, ValidFacts DEF Rests
      <4>2. QED
        BY <1>1, <1>4, <2>3, <3>1, <4>1 DEF Rests, Owner
    <3>2. CASE pipe[2].bus /\ req_q = pipe[2].req
      <4>1. lsu_freeze_dc3
        BY <1>4, <2>3, <3>2, BusFreezes, ValidFacts DEF Rests
      <4>2. pipe'[2].bus /\ pipe'[2].req = pipe[2].req
        BY <3>2, <4>1, BusMoves
      <4>3. QED
        BY <1>4, <2>3, <3>2, <4>2 DEF Rests, Owner
    <3>3. QED
      BY <2>3, <3>1, <3>2 DEF Owner
  <2>4. QED
    BY <2>2, <2>3 DEF PortTypes, BridgeTypeOK, Bit
<1>5. QED
  BY <1>2, <1>3, <1>4, CoreEvents

\* Who waits after an edge.
LEMMA ValidMoves ==
    ASSUME PortTypes, OneAccess, Undisturbed, Owner, LsuEdge
    PROVE  /\ Asked \in Bit /\ (Asked = 1 => req_busy_q = 0 /\ lsu_mmio_valid = 0)
           /\ Releases => lsu_mmio_valid' = 0
           /\ req_busy_q = 0 /\ lsu_mmio_valid = 0 => lsu_mmio_valid' = Asked
<1>1. Asked \in Bit /\ (Asked = 1 => req_busy_q = 0 /\ lsu_mmio_valid = 0)
  BY AskedFacts DEF Asked, Bit
<1>2. lsu_mmio_valid' = IF load_pending' = 1 \/ store_pending' = 1 THEN 1 ELSE 0
  BY DEF lsu_mmio_valid
<1>3. StoreCommits => Asked = 1
  BY DEF Asked
<1>4. Releases => lsu_mmio_valid' = 0
  <2> SUFFICES ASSUME Releases PROVE lsu_mmio_valid' = 0
    OBVIOUS
  <2>1. core_req_ready /\ lsu_mmio_valid = 1 /\ ~StoreCommits
    BY <1>1, <1>3 DEF Releases
  <2>2. store_pending' # 1
    BY <2>1 DEF LsuEdge, StorePort, PortTypes, Bit
  <2>3. load_pending' # 1
    <3>1. CASE load_pending = 1
      BY <2>1, <3>1 DEF LsuEdge, LoadPort
    <3>2. CASE store_pending = 1
      BY <3>2, ValidFacts DEF LsuEdge, LoadPort, load_request_dc2
    <3>3. QED
      BY <2>1, <3>1, <3>2, ValidFacts
  <2>4. QED
    BY <1>2, <2>2, <2>3
<1>5. req_busy_q = 0 /\ lsu_mmio_valid = 0 => lsu_mmio_valid' = Asked
  <2> SUFFICES ASSUME req_busy_q = 0, lsu_mmio_valid = 0 PROVE lsu_mmio_valid' = Asked
    OBVIOUS
  <2>1. load_pending = 0 /\ store_pending = 0
    BY ValidFacts DEF PortTypes, Bit
  <2>2. ~pipe[2].bus
    BY DEF Owner
  <2>3. load_pending' = 1 <=> load_request_dc2
    BY <2>1 DEF LsuEdge, LoadPort
  <2>4. store_pending' = 1 <=> StoreCommits
    BY <2>1 DEF LsuEdge, StorePort
  <2>5. QED
    BY <1>2, <2>1, <2>2, <2>3, <2>4 DEF Asked
<1>6. QED
  BY <1>1, <1>4, <1>5

\* What a peripheral clock edge does.
ReqMoves == req_meta_q' = Cross(req_toggle_q, req_q) /\ req_sync_q' = req_meta_q

Starts ==
    /\ periph_active_q = 0 /\ req_sync_q.toggle # req_seen_q
    /\ periph_req_q' = req_sync_q.data /\ periph_active_q' = 1
    /\ UNCHANGED <<resp_q, req_seen_q, dev>> /\ ReqMoves

Finishes ==
    /\ periph_active_q = 1 /\ periph_active_q' = 0
    /\ \E resp \in Responses : /\ resp_q' = Cross(req_sync_q.toggle, resp)
                               /\ dev' = [req |-> periph_req_q, resp |-> resp]
    /\ req_seen_q' = req_sync_q.toggle /\ UNCHANGED periph_req_q /\ ReqMoves

Waits ==
    /\ UNCHANGED <<periph_req_q, periph_active_q, resp_q, req_seen_q, dev>>
    /\ ReqMoves \/ UNCHANGED <<req_meta_q, req_sync_q>>

\* At a peripheral edge a request starts, finishes (and is run), or nothing happens.
LEMMA DeviceEvents ==
    ASSUME PortTypes, NEW r \in Bit, DeviceDoes(r)
    PROVE  (Starts /\ r = 0) \/ (Finishes /\ r = 1) \/ (Waits /\ r = 0)
<1>1. CASE DeviceStays /\ r = 0
  BY <1>1 DEF DeviceStays, periphRegs, Waits
<1>2. ASSUME NEW ready \in Bit, NEW resp \in Responses, DeviceEdge(ready, resp),
             r = RunsAt(ready)
      PROVE  (Starts /\ r = 0) \/ (Finishes /\ r = 1) \/ (Waits /\ r = 0)
  <2>1. CASE PeriphStart
    BY <1>2, <2>1 DEF DeviceEdge, PeriphEdge, PeriphHandshake, PeriphStart, PeriphFinish,
                      RunsAt, Starts, ReqMoves
  <2>2. CASE PeriphFinish(ready)
    BY <1>2, <2>2 DEF DeviceEdge, PeriphEdge, PeriphHandshake, PeriphStart, PeriphFinish,
                      RunsAt, Finishes, ReqMoves
  <2>3. CASE ~PeriphStart /\ ~PeriphFinish(ready)
    BY <1>2, <2>3 DEF DeviceEdge, PeriphEdge, PeriphHandshake, RunsAt, Waits, ReqMoves
  <2>4. QED
    BY <2>1, <2>2, <2>3
<1>3. QED
  BY <1>1, <1>2 DEF DeviceDoes

\* A quiet bridge stays quiet on the peripheral side.
LEMMA QuietDevice ==
    ASSUME PortTypes, Handshake, req_busy_q = 0, NEW r \in Bit, DeviceDoes(r)
    PROVE  /\ r = 0 /\ UNCHANGED <<periph_active_q, resp_q, req_seen_q, dev>>
           /\ req_meta_q'.toggle = req_toggle_q /\ req_sync_q'.toggle = req_toggle_q
<1>1. Quiet /\ req_sync_q.toggle = req_seen_q /\ periph_active_q = 0
  BY DEF Handshake, Quiet, Cross
<1>2. Waits /\ r = 0
  BY <1>1, DeviceEvents DEF Starts, Finishes
<1>3. Cross(req_toggle_q, req_q).toggle = req_toggle_q
  BY DEF Cross
<1>4. req_meta_q.toggle = req_toggle_q /\ req_sync_q.toggle = req_toggle_q
  BY <1>1 DEF Quiet
<1>5. UNCHANGED <<periph_active_q, resp_q, req_seen_q, dev>> /\ r = 0
  BY <1>2 DEF Waits
<1>6. CASE ReqMoves
  BY <1>3, <1>4, <1>5, <1>6 DEF ReqMoves
<1>7. CASE UNCHANGED <<req_meta_q, req_sync_q>>
  BY <1>4, <1>5, <1>7
<1>8. QED
  BY <1>2, <1>6, <1>7 DEF Waits

\* When ready is high the device has run the request and nothing moves there.
LEMMA ReadyDevice ==
    ASSUME PortTypes, Handshake, core_req_ready, NEW r \in Bit, DeviceDoes(r)
    PROVE  /\ r = 0 /\ UNCHANGED <<periph_active_q, resp_q, req_seen_q, dev>>
           /\ req_meta_q'.toggle = req_toggle_q /\ req_sync_q'.toggle = req_toggle_q
           /\ periph_active_q = 0 /\ resp_q.toggle = req_toggle_q
           /\ resp_meta_q = resp_q /\ resp_sync_q = resp_q
           /\ dev = [req |-> req_q, resp |-> resp_q.data]
<1>1. /\ InFlight /\ resp_sync_q.toggle = req_toggle_q
  BY DEF Handshake, core_req_ready
<1>2. resp_q.toggle = req_toggle_q /\ resp_meta_q = resp_q /\ resp_sync_q = resp_q
  BY <1>1 DEF InFlight
<1>3. /\ req_sync_q.toggle = req_toggle_q /\ req_meta_q.toggle = req_toggle_q
      /\ dev = [req |-> req_q, resp |-> resp_q.data] /\ req_seen_q = req_toggle_q
      /\ periph_active_q = 0
  BY <1>1, <1>2 DEF InFlight, Handshake, PortTypes, BridgeTypeOK, Bit
<1>4. Waits /\ r = 0
  BY <1>3, DeviceEvents DEF Starts, Finishes
<1>5. QED
  BY <1>2, <1>3, <1>4 DEF Waits, ReqMoves, Cross

\* A request in flight goes one step, and the device runs it once.
LEMMA InFlightStep ==
    ASSUME PortTypes, PortTypes', Handshake, req_busy_q = 1, NEW r \in Bit, DeviceDoes(r),
           RespMoves \/ UNCHANGED <<resp_meta_q, resp_sync_q>>,
           UNCHANGED <<req_q, req_toggle_q>>
    PROVE  /\ InFlight'
           /\ debt - r = IF resp_q'.toggle = req_toggle_q' THEN 0 ELSE 1
<1>1. InFlight /\ req_seen_q = resp_q.toggle
  BY DEF Handshake
<1>2. debt = IF resp_q.toggle = req_toggle_q THEN 0 ELSE 1
  BY DEF Handshake
<1> USE DEF PortTypes, BridgeTypeOK, Bit, Crossing, Cross, InFlight, RespMoves, ReqMoves
<1>3. CASE Waits /\ r = 0
  BY <1>1, <1>2, <1>3 DEF Waits
<1>4. CASE Starts /\ r = 0
  BY <1>1, <1>2, <1>4 DEF Starts
<1>5. CASE Finishes /\ r = 1
  <2>1. PICK resp \in Responses : /\ resp_q' = Cross(req_sync_q.toggle, resp)
                                  /\ dev' = [req |-> periph_req_q, resp |-> resp]
    BY <1>5 DEF Finishes
  <2>2. periph_active_q = 1 /\ periph_active_q' = 0 /\ ReqMoves
    BY <1>5 DEF Finishes
  <2>3. req_sync_q.toggle = req_toggle_q /\ periph_req_q = req_q /\ resp_q.toggle # req_toggle_q
    BY <1>1, <2>2
  <2>4. debt = 1 /\ r = 1 /\ resp_q'.toggle = req_toggle_q' /\ debt - r = 0
    BY <1>2, <1>5, <2>1, <2>3
  <2>5. InFlight'
    BY <1>1, <2>1, <2>2, <2>3
  <2>6. QED
    BY <2>4, <2>5
<1>6. QED
  BY <1>3, <1>4, <1>5, DeviceEvents

\* A load that reaches dc3 was just answered.
LEMMA LoadArrives ==
    ASSUME PortTypes, OneAccess, Undisturbed, Owner, LsuEdge, pipe'[3].kind = "load"
    PROVE  /\ Releases /\ req_q = pipe[2].req
           /\ pipe'[3] = pipe[2] /\ load_req' = pipe[2].req
<1>1. ~lsu_freeze_dc3
  <2> SUFFICES ASSUME lsu_freeze_dc3 PROVE pipe'[3].kind # "load"
    OBVIOUS
  <2>1. pipe[2].kind = "load"
    BY DEF lsu_freeze_dc3, load_request_dc2, OneAccess
  <2>2. ~external(pipe[3])
    BY <2>1 DEF OneAccess, external
  <2>3. ~external(pipe'[3])
    BY <2>2, ExternalMoves
  <2>4. QED
    BY <2>3 DEF external
<1>2. pipe'[3] = pipe[2] /\ ~Squashed(2)
  BY <1>1, StagesStep, PassedFacts, NoOpFacts
<1>3. load_request_dc2
  BY <1>2 DEF load_request_dc2, Squashed
<1>4. load_pending = 1 /\ core_req_ready
  BY <1>1, <1>3 DEF lsu_freeze_dc3
<1>5. lsu_mmio_valid = 1 /\ req_busy_q = 1 /\ store_pending = 0
  BY <1>4, ValidFacts DEF core_req_ready
<1>6. Releases
  BY <1>4, <1>5, CoreEvents DEF Accepts, Rests
<1>7. req_q = pipe[2].req
  BY <1>5 DEF Owner
<1>8. load_req' = pipe[2].req
  BY <1>4 DEF LsuEdge, LoadPort, OneAccess
<1>9. QED
  BY <1>2, <1>6, <1>7, <1>8

\* The handshake, and what is owed, after any step.
LEMMA HandshakeKept ==
    ASSUME PortTypes, PortTypes', OneAccess, Undisturbed, Owner, Handshake, [Next]_vars
    PROVE  Handshake'
<1>1. PICK a \in Bit, r \in Bit :
          CoreDoes(a) /\ DeviceDoes(r) /\ debt' = Saturated(debt + a - r)
  BY StepKinds
<1>2. req_seen_q' = resp_q'.toggle
  BY <1>1, DeviceEvents DEF Starts, Finishes, Waits, Handshake, Cross
<1>3. req_busy_q' = 0 => Quiet' /\ debt' = lsu_mmio_valid'
  <2> SUFFICES ASSUME req_busy_q' = 0 PROVE Quiet' /\ debt' = lsu_mmio_valid'
    OBVIOUS
  <2>1. CASE req_busy_q = 0
    <3>1. Quiet /\ debt = lsu_mmio_valid
      BY <2>1 DEF Handshake
    <3>2. /\ r = 0 /\ UNCHANGED <<periph_active_q, resp_q, req_seen_q, dev>>
          /\ req_meta_q'.toggle = req_toggle_q /\ req_sync_q'.toggle = req_toggle_q
      BY <1>1, <2>1, QuietDevice
    <3>3. CASE CoreStays /\ a = 0
      <4>1. Quiet' /\ lsu_mmio_valid' = lsu_mmio_valid
        BY <3>1, <3>2, <3>3 DEF CoreStays, coreRegs, lsuVars, Quiet, Cross, lsu_mmio_valid
      <4>2. debt' = debt
        BY <1>1, <3>2, <3>3 DEF Saturated, PortTypes
      <4>3. QED
        BY <3>1, <4>1, <4>2
    <3>4. CASE LsuEdge /\ a = Asked
      <4>1. Rests /\ lsu_mmio_valid = 0
        BY <2>1, <3>4, CoreEvents DEF Accepts, Releases, Rests
      <4>2. lsu_mmio_valid' = a
        BY <2>1, <3>4, <4>1, ValidMoves
      <4>3. debt' = a
        BY <1>1, <3>1, <3>2, <4>1 DEF Saturated, Bit
      <4>4. Quiet'
        BY <3>1, <3>2, <4>1 DEF Rests, RespMoves, Quiet, Cross
      <4>5. QED
        BY <4>2, <4>3, <4>4
    <3>5. QED
      BY <1>1, <3>3, <3>4 DEF CoreDoes
  <2>2. CASE req_busy_q = 1
    <3>1. LsuEdge /\ a = Asked /\ Releases
      <4>1. LsuEdge /\ a = Asked
        BY <1>1, <2>2 DEF CoreDoes, CoreStays, coreRegs
      <4>2. QED
        BY <2>2, <4>1, CoreEvents DEF Accepts, Rests
    <3>2. /\ r = 0 /\ UNCHANGED <<periph_active_q, resp_q, req_seen_q, dev>>
          /\ req_meta_q'.toggle = req_toggle_q /\ req_sync_q'.toggle = req_toggle_q
          /\ periph_active_q = 0 /\ resp_q.toggle = req_toggle_q
          /\ resp_meta_q = resp_q /\ resp_sync_q = resp_q
          /\ dev = [req |-> req_q, resp |-> resp_q.data]
      BY <1>1, <3>1, ReadyDevice DEF Releases
    <3>3. a = 0 /\ lsu_mmio_valid' = 0
      BY <2>2, <3>1, ValidMoves DEF Bit
    <3>4. debt = 0
      BY <2>2, <3>2 DEF Handshake
    <3>5. debt' = 0
      BY <1>1, <3>2, <3>3, <3>4 DEF Saturated
    <3>6. resp_q = Cross(req_toggle_q, dev.resp)
      BY <3>2 DEF PortTypes, BridgeTypeOK, Crossing, Cross
    <3>7. Quiet'
      BY <3>1, <3>2, <3>6 DEF Releases, RespMoves, Quiet, Cross
    <3>8. QED
      BY <3>3, <3>5, <3>7
  <2>3. QED
    BY <2>1, <2>2 DEF PortTypes, BridgeTypeOK, Bit
<1>4. req_busy_q' = 1 => InFlight' /\ debt' = IF resp_q'.toggle = req_toggle_q' THEN 0 ELSE 1
  <2> SUFFICES ASSUME req_busy_q' = 1
               PROVE  InFlight' /\ debt' = IF resp_q'.toggle = req_toggle_q' THEN 0 ELSE 1
    OBVIOUS
  <2>1. CASE req_busy_q = 0
    <3>1. LsuEdge /\ a = Asked /\ Accepts
      <4>1. LsuEdge /\ a = Asked
        BY <1>1, <2>1 DEF CoreDoes, CoreStays, coreRegs
      <4>2. QED
        BY <2>1, <4>1, CoreEvents DEF Releases, Rests
    <3>2. /\ r = 0 /\ UNCHANGED <<periph_active_q, resp_q, req_seen_q, dev>>
          /\ req_meta_q'.toggle = req_toggle_q /\ req_sync_q'.toggle = req_toggle_q
      BY <1>1, <2>1, QuietDevice
    <3>3. Quiet /\ debt = 1
      BY <2>1, <3>1 DEF Handshake, Accepts
    <3>4. a = 0
      BY <3>1, ValidMoves DEF Accepts, Bit
    <3>5. debt' = 1
      BY <1>1, <3>2, <3>3, <3>4 DEF Saturated
    <3>6. req_toggle_q' # req_toggle_q
      BY <3>1 DEF Accepts, PortTypes, BridgeTypeOK, Bit
    <3>7. /\ resp_q'.toggle = req_toggle_q /\ resp_meta_q'.toggle = req_toggle_q
          /\ resp_sync_q'.toggle = req_toggle_q /\ periph_active_q' = 0
      BY <3>1, <3>2, <3>3 DEF Accepts, RespMoves, Quiet, Cross
    <3>8. QED
      BY <3>2, <3>5, <3>6, <3>7 DEF InFlight
  <2>2. CASE req_busy_q = 1
    <3>1. /\ a = 0 /\ UNCHANGED <<req_q, req_toggle_q>>
          /\ RespMoves \/ UNCHANGED <<resp_meta_q, resp_sync_q>>
      <4>1. CASE CoreStays /\ a = 0
        BY <4>1 DEF CoreStays, coreRegs
      <4>2. CASE LsuEdge /\ a = Asked
        <5>1. Rests
          BY <2>2, <4>2, CoreEvents DEF Accepts, Releases
        <5>2. a = 0
          BY <2>2, <4>2, ValidMoves DEF Bit
        <5>3. QED
          BY <5>1, <5>2 DEF Rests
      <4>3. QED
        BY <1>1, <4>1, <4>2 DEF CoreDoes
    <3>2. InFlight' /\ debt - r = IF resp_q'.toggle = req_toggle_q' THEN 0 ELSE 1
      BY <1>1, <2>2, <3>1, InFlightStep
    <3>3. debt' = debt - r
      BY <1>1, <3>1, <3>2 DEF Saturated, PortTypes, Bit
    <3>4. QED
      BY <3>2, <3>3
  <2>3. QED
    BY <2>1, <2>2 DEF PortTypes, BridgeTypeOK, Bit
<1>5. pipe'[3].kind = "load" =>
         req_busy_q' = 0 /\ dev'.req = pipe'[3].req /\ load_req' = pipe'[3].req
  <2> SUFFICES ASSUME pipe'[3].kind = "load"
               PROVE  req_busy_q' = 0 /\ dev'.req = pipe'[3].req /\ load_req' = pipe'[3].req
    OBVIOUS
  <2>1. CASE CoreStays
    <3>1. UNCHANGED <<pipe, req_busy_q, load_req>>
      BY <2>1 DEF CoreStays, coreRegs, lsuVars
    <3>2. req_busy_q = 0 /\ dev.req = pipe[3].req /\ load_req = pipe[3].req
      BY <3>1 DEF Handshake
    <3>3. dev' = dev
      BY <1>1, <3>2, QuietDevice
    <3>4. QED
      BY <3>1, <3>2, <3>3
  <2>2. CASE LsuEdge
    <3>1. Releases /\ req_q = pipe[2].req /\ pipe'[3] = pipe[2] /\ load_req' = pipe[2].req
      BY <2>2, LoadArrives
    <3>2. dev' = dev /\ dev = [req |-> req_q, resp |-> resp_q.data]
      BY <1>1, <3>1, ReadyDevice DEF Releases
    <3>3. QED
      BY <3>1, <3>2 DEF Releases
  <2>3. QED
    BY <1>1, <2>1, <2>2 DEF CoreDoes
<1>6. QED
  BY <1>2, <1>3, <1>4, <1>5 DEF Handshake
-----------------------------------------------------------------------------
\* After reset the port and the bridge are empty.
LEMMA LsuInitInv == Init => LsuInv
<1> SUFFICES ASSUME Init PROVE LsuInv
  OBVIOUS
<1>1. pipe = [i \in 1..5 |-> NoOp] /\ \A i \in 1..5 : pipe[i] = NoOp
  BY DEF Init
<1>2. \A i \in 1..5 : StageOK(pipe[i]) /\ ~external(pipe[i])
  BY <1>1, NoOpFacts
<1>3. PortTypes
  <2>1. BridgeTypeOK
    BY BridgeAssumption DEF Init, CoreInit, PeriphInit, BridgeTypeOK, Bit, Crossing, Cross
  <2>2. pipe \in [1..5 -> Stage]
    BY <1>1, NoOpFacts
  <2>3. QED
    BY <1>2, <2>1, <2>2, BridgeAssumption, LsuAssumption DEF Init, PortTypes, Bit
<1>4. OneAccess
  BY <1>2 DEF OneAccess, external_in_pipe, Init
<1>5. pipe[1] = NoOp /\ pipe[2] = NoOp /\ pipe[3] = NoOp
  BY <1>1
<1>6. lsu_mmio_valid = 0
  BY DEF lsu_mmio_valid, Init
<1>7. Undisturbed /\ Owner
  BY <1>5, NoOpFacts DEF Undisturbed, Owner, Init, CoreInit
<1>8. Handshake
  BY <1>5, <1>6, NoOpFacts DEF Handshake, Quiet, Init, CoreInit, PeriphInit, Cross
<1>9. QED
  BY <1>3, <1>4, <1>7, <1>8 DEF LsuInv

\* The inductive invariant.
LEMMA LsuInvariant == Spec => []LsuInv
<1>1. LsuInv /\ [Next]_vars => LsuInv'
  <2> SUFFICES ASSUME LsuInv, [Next]_vars PROVE LsuInv'
    OBVIOUS
  <2>1. PortTypes /\ OneAccess
    BY DEF LsuInv
  <2>2. PortTypes' /\ OneAccess'
    BY <2>1, PortTypesKept, OneAccessKept
  <2>3. ASSUME interrupts' = 0 PROVE Undisturbed' /\ Owner' /\ Handshake'
    <3>1. CASE LsuEdge
      <4>1. Undisturbed /\ Owner /\ Handshake
        BY <2>1, <2>3, <3>1, Uninterrupted DEF LsuInv
      <4>2. QED
        BY <2>1, <2>2, <2>3, <3>1, <4>1, UndisturbedKept, OwnerKept, HandshakeKept
    <3>2. CASE CoreStays
      <4>1. Undisturbed /\ Owner /\ Handshake
        BY <2>3, <3>2 DEF LsuInv, CoreStays, lsuVars
      <4>2. Undisturbed' /\ Owner'
        BY <3>2, <4>1 DEF CoreStays, lsuVars, coreRegs, Undisturbed, Owner
      <4>3. QED
        BY <2>1, <2>2, <4>1, <4>2, HandshakeKept
    <3>3. QED
      BY <3>1, <3>2, Edges
  <2>4. QED
    BY <2>2, <2>3 DEF LsuInv
<1>2. QED
  BY <1>1, LsuInitInv, PTL DEF Spec
-----------------------------------------------------------------------------
(***************************************************************************)
(* What the invariant implies.                                             *)
(***************************************************************************)
\* For any requests, any peripheral and any number of interrupts: the registers of the
\* port keep their types, and a load and a store never wait for it together
\* (lsu_bus_intf.sv:165-169).  The reservation of lsu_bus_buffer_full_any is enough.
THEOREM PortNeverShared == Spec => []PortInv
<1>1. LsuInv => PortInv
  <2> SUFFICES ASSUME LsuInv PROVE PortInv
    OBVIOUS
  <2>1. TypeOK
    BY DEF LsuInv, PortTypes, TypeOK
  <2>2. NeverBothPending
    BY ValidFacts DEF LsuInv, NeverBothPending
  <2>3. QED
    BY <2>1, <2>2 DEF PortInv
<1>2. QED
  BY <1>1, LsuInvariant, PTL

\* For any requests, answers and flushes by branches and traps, until an interrupt is taken:
\* ready and the data beside it are for the access on the pins, and the data is still there
\* when the load picks it up in dc3 (lsu_bus_intf.sv:173, lsu_lsc_ctl.sv:205).
THEOREM AnswersReachTheirLoads == Spec => []AnswersReachTheirAccess
<1>1. LsuInv => AnswersReachTheirAccess
  <2> SUFFICES ASSUME LsuInv, interrupts = 0 PROVE AnswerForOwner /\
                  (pipe[3].kind = "load" => /\ dev.req = pipe[3].req
                                            /\ dev.resp = core_req_resp
                                            /\ load_req = pipe[3].req)
    BY DEF AnswersReachTheirAccess, AnswerForOwnerUndisturbed, LoadReadsItsAnswer
  <2>1. PortTypes /\ OneAccess /\ Undisturbed /\ Owner /\ Handshake
    BY DEF LsuInv
  <2>2. ASSUME lsu_mmio_valid = 1, core_req_ready
        PROVE  dev.req = lsu_mmio_req /\ dev.resp = core_req_resp
    <3>1. req_busy_q = 1 /\ resp_sync_q.toggle = req_toggle_q
      BY <2>2 DEF core_req_ready
    <3>2. dev = [req |-> req_q, resp |-> resp_q.data] /\ resp_sync_q = resp_q
      BY <2>1, <3>1 DEF Handshake, InFlight
    <3>3. req_q = lsu_mmio_req
      <4>1. CASE store_pending = 1 /\ req_q = store_req
        BY <4>1 DEF lsu_mmio_req
      <4>2. CASE pipe[2].bus /\ req_q = pipe[2].req
        <5>1. store_pending = 1 => ~external(pipe[2])
          BY <2>1 DEF OneAccess, external_in_pipe
        <5>2. external(pipe[2])
          BY <2>1, <4>2 DEF Undisturbed, external
        <5>3. load_pending = 1
          BY <2>1, <2>2, <5>1, <5>2, ValidFacts
        <5>4. QED
          BY <2>1, <4>2, <5>3, ValidFacts
      <4>3. QED
        BY <2>1, <3>1, <4>1, <4>2 DEF Owner
    <3>4. QED
      BY <3>2, <3>3 DEF core_req_resp
  <2>3. ASSUME pipe[3].kind = "load"
        PROVE  dev.req = pipe[3].req /\ dev.resp = core_req_resp /\ load_req = pipe[3].req
    BY <2>1, <2>3 DEF Handshake, Quiet, Cross, core_req_resp
  <2>4. QED
    BY <2>2, <2>3 DEF AnswerForOwner
<1>2. QED
  BY <1>1, LsuInvariant, PTL

\* For any requests, answers and flushes by branches and traps, until an interrupt is taken:
\* the device owes the program at most one access, something still waits for it, and a load
\* that was cancelled and asks again is not run twice (lsu_bus_intf.sv:135-162).
THEOREM EveryAccessOnce == Spec => []ExactlyOnce
<1>1. LsuInv => ExactlyOnce
  <2> SUFFICES ASSUME LsuInv, interrupts = 0
               PROVE  /\ debt \in 0..1
                      /\ debt = 1 => lsu_mmio_valid = 1 \/ (pipe[2].kind = "load" /\ pipe[2].bus)
    BY DEF ExactlyOnce
  <2>1. PortTypes /\ OneAccess /\ Undisturbed /\ Owner /\ Handshake
    BY DEF LsuInv
  <2>2. CASE req_busy_q = 0
    BY <2>1, <2>2, ValidFacts DEF Handshake, Bit
  <2>3. CASE req_busy_q = 1
    <3>1. debt \in 0..1
      BY <2>1, <2>3 DEF Handshake
    <3>2. lsu_mmio_valid = 1 \/ (pipe[2].kind = "load" /\ pipe[2].bus)
      BY <2>1, <2>3, ValidFacts DEF Owner, Undisturbed
    <3>3. QED
      BY <3>1, <3>2
  <2>4. QED
    BY <2>1, <2>2, <2>3 DEF PortTypes, BridgeTypeOK, Bit
<1>2. QED
  BY <1>1, LsuInvariant, PTL
=============================================================================
