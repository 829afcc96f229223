---------------------------- MODULE ClockBridge ----------------------------
(***************************************************************************)
(* The clock-domain-crossing MMIO bridge, rtl/soc/soc_clock_bridge.sv.     *)
(*                                                                         *)
(* The core side latches a request, flips a toggle and stays busy until    *)
(* the toggle comes back; the peripheral side runs the request and returns *)
(* the toggle with the response.  Toggle and payload cross each way        *)
(* through two flip-flops ("meta", then "sync") of equal depth.            *)
(*                                                                         *)
(* Every variable is a register (or a group of registers that are always   *)
(* written together) and every action is one clock edge of one domain: all *)
(* registers of the domain are updated from the values before the edge.    *)
(* An edge of the core clock and one of the peripheral clock can coincide, *)
(* and then each domain samples what the other held before the edge; the   *)
(* two halves write disjoint variables, so coincidence is a conjunction.   *)
(* The clock domains are kept timed (fpga/boards/*/constraints/cdc.xdc),   *)
(* so the bits of one crossing are sampled together.                       *)
(*                                                                         *)
(* The module defines the registers and the two halves of the bridge.  Who *)
(* drives core_req_valid and who answers at periph_req_ready is given by   *)
(* the modules that extend it.                                             *)
(***************************************************************************)

EXTENDS Integers

CONSTANTS
    Requests,    \* what {write, addr, wdata, wstrb} can hold
    Responses,   \* what {rdata, error} can hold
    ResetReq,    \* the all-zero request and response the registers are
    ResetResp    \* reset to

ASSUME BridgeAssumption == ResetReq \in Requests /\ ResetResp \in Responses

VARIABLES
    req_toggle_q, req_busy_q,   \* core domain: request handshake
    req_q,                      \* req_write_q, req_addr_q, req_wdata_q, req_wstrb_q
    resp_meta_q, resp_sync_q,   \* core domain: {toggle, data, error} synchroniser
    req_meta_q, req_sync_q,     \* peripheral domain: {toggle, payload} synchroniser
    req_seen_q,                 \* toggle of the last request that was finished
    periph_active_q,            \* periph_req_valid
    periph_req_q,               \* periph_req_{write,addr,wdata,wstrb}_q
    resp_q                      \* resp_toggle_q, resp_rdata_q, resp_error_q

coreRegs   == <<req_toggle_q, req_busy_q, req_q, resp_meta_q, resp_sync_q>>
periphRegs == <<req_meta_q, req_sync_q, req_seen_q, periph_active_q,
                periph_req_q, resp_q>>

Bit == {0, 1}

\* A toggle travelling with the payload it announces.
Crossing(Payload) == [toggle : Bit, data : Payload]
Cross(t, d)       == [toggle |-> t, data |-> d]

BridgeTypeOK ==
    /\ req_toggle_q \in Bit
    /\ req_busy_q \in Bit
    /\ req_q \in Requests
    /\ resp_meta_q \in Crossing(Responses)
    /\ resp_sync_q \in Crossing(Responses)
    /\ req_meta_q \in Crossing(Requests)
    /\ req_sync_q \in Crossing(Requests)
    /\ req_seen_q \in Bit
    /\ periph_active_q \in Bit
    /\ periph_req_q \in Requests
    /\ resp_q \in Crossing(Responses)

-----------------------------------------------------------------------------
(***************************************************************************)
(* Core domain.                                                            *)
(***************************************************************************)
core_req_ready_anyToggle == req_busy_q = 1   \* mutant: response toggle not compared

core_req_ready == req_busy_q = 1 /\ resp_sync_q.toggle = req_toggle_q
core_req_resp  == resp_sync_q.data

CoreInit ==
    /\ req_toggle_q = 0
    /\ req_busy_q = 0
    /\ req_q = ResetReq
    /\ resp_meta_q = Cross(0, ResetResp)
    /\ resp_sync_q = Cross(0, ResetResp)

CoreAccept(core_req_valid)  == req_busy_q = 0 /\ core_req_valid = 1
CoreRelease(core_req_valid) == core_req_ready /\ core_req_valid = 1

\* Mutant: the request is announced but its payload is not latched.
CoreHandshake_noLatch(core_req_valid, core_req) ==
    \/ /\ CoreAccept(core_req_valid)
       /\ req_toggle_q' = 1 - req_toggle_q
       /\ req_busy_q' = 1
       /\ UNCHANGED req_q
    \/ /\ CoreRelease(core_req_valid)
       /\ req_busy_q' = 0
       /\ UNCHANGED <<req_q, req_toggle_q>>
    \/ /\ ~CoreAccept(core_req_valid) /\ ~CoreRelease(core_req_valid)
       /\ UNCHANGED <<req_q, req_toggle_q, req_busy_q>>

\* What a core clock edge does to the handshake when the client drives
\* core_req_valid and the payload core_req.
CoreHandshake(core_req_valid, core_req) ==
    \/ /\ CoreAccept(core_req_valid)
       /\ req_q' = core_req
       /\ req_toggle_q' = 1 - req_toggle_q
       /\ req_busy_q' = 1
    \/ /\ CoreRelease(core_req_valid)
       /\ req_busy_q' = 0
       /\ UNCHANGED <<req_q, req_toggle_q>>
    \/ /\ ~CoreAccept(core_req_valid) /\ ~CoreRelease(core_req_valid)
       /\ UNCHANGED <<req_q, req_toggle_q, req_busy_q>>

CoreEdge(core_req_valid, core_req) ==
    /\ resp_meta_q' = resp_q
    /\ resp_sync_q' = resp_meta_q
    /\ CoreHandshake(core_req_valid, core_req)

-----------------------------------------------------------------------------
(***************************************************************************)
(* Peripheral domain.                                                      *)
(***************************************************************************)
PeriphInit ==
    /\ req_meta_q = Cross(0, ResetReq)
    /\ req_sync_q = Cross(0, ResetReq)
    /\ req_seen_q = 0
    /\ periph_active_q = 0
    /\ periph_req_q = ResetReq
    /\ resp_q = Cross(0, ResetResp)

PeriphStart  == periph_active_q = 0 /\ req_sync_q.toggle # req_seen_q
PeriphFinish(ready) == periph_active_q = 1 /\ ready = 1

\* Mutant: a finished request is not remembered in req_seen_q.
PeriphHandshake_notSeen(ready, resp) ==
    \/ /\ PeriphStart
       /\ periph_req_q' = req_sync_q.data
       /\ periph_active_q' = 1
       /\ UNCHANGED <<resp_q, req_seen_q>>
    \/ /\ PeriphFinish(ready)
       /\ resp_q' = Cross(req_sync_q.toggle, resp)
       /\ periph_active_q' = 0
       /\ UNCHANGED <<periph_req_q, req_seen_q>>
    \/ /\ ~PeriphStart /\ ~PeriphFinish(ready)
       /\ UNCHANGED <<periph_req_q, periph_active_q, resp_q, req_seen_q>>

\* Mutant: the answer carries the toggle of the request before.
PeriphHandshake_oldToggle(ready, resp) ==
    \/ /\ PeriphStart
       /\ periph_req_q' = req_sync_q.data
       /\ periph_active_q' = 1
       /\ UNCHANGED <<resp_q, req_seen_q>>
    \/ /\ PeriphFinish(ready)
       /\ resp_q' = Cross(req_seen_q, resp)
       /\ req_seen_q' = req_sync_q.toggle
       /\ periph_active_q' = 0
       /\ UNCHANGED periph_req_q
    \/ /\ ~PeriphStart /\ ~PeriphFinish(ready)
       /\ UNCHANGED <<periph_req_q, periph_active_q, resp_q, req_seen_q>>

\* What a peripheral clock edge does when the selected peripheral drives
\* periph_req_ready = ready and answers resp.
PeriphHandshake(ready, resp) ==
    \/ /\ PeriphStart
       /\ periph_req_q' = req_sync_q.data
       /\ periph_active_q' = 1
       /\ UNCHANGED <<resp_q, req_seen_q>>
    \/ /\ PeriphFinish(ready)
       /\ resp_q' = Cross(req_sync_q.toggle, resp)
       /\ req_seen_q' = req_sync_q.toggle
       /\ periph_active_q' = 0
       /\ UNCHANGED periph_req_q
    \/ /\ ~PeriphStart /\ ~PeriphFinish(ready)
       /\ UNCHANGED <<periph_req_q, periph_active_q, resp_q, req_seen_q>>

\* Mutant: the toggle skips the first synchroniser stage, its payload does not.
PeriphEdge_fastToggle(ready, resp) ==
    /\ req_meta_q' = Cross(req_toggle_q, req_q)
    /\ req_sync_q' = Cross(req_toggle_q, req_meta_q.data)
    /\ PeriphHandshake(ready, resp)

PeriphEdge(ready, resp) ==
    /\ req_meta_q' = Cross(req_toggle_q, req_q)
    /\ req_sync_q' = req_meta_q
    /\ PeriphHandshake(ready, resp)

\* Asserting rst_n resets the registers of both domains at once
\* (negedge core_rst_n, negedge periph_rst_n).
BridgeReset ==
    /\ req_toggle_q' = 0
    /\ req_busy_q' = 0
    /\ req_q' = ResetReq
    /\ resp_meta_q' = Cross(0, ResetResp)
    /\ resp_sync_q' = Cross(0, ResetResp)
    /\ req_meta_q' = Cross(0, ResetReq)
    /\ req_sync_q' = Cross(0, ResetReq)
    /\ req_seen_q' = 0
    /\ periph_active_q' = 0
    /\ periph_req_q' = ResetReq
    /\ resp_q' = Cross(0, ResetResp)
=============================================================================
