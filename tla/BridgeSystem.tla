---------------------------- MODULE BridgeSystem ----------------------------
(***************************************************************************)
(* The MMIO bridge between a client that holds core_req_valid until it is  *)
(* answered and a peripheral that may insert wait states, as soc_top wires *)
(* it: one reset for both domains, released two peripheral clock edges     *)
(* later on the peripheral side.                                           *)
(***************************************************************************)
EXTENDS ClockBridge

CONSTANT MaxReq   \* bound: requests issued between two resets

ASSUME MaxReqAssumption == MaxReq \in Nat

VARIABLES
    peripheral_reset_release_q,  \* ones shifted in since rst_n rose: 0, 1 or 2
    valid, request,              \* core_req_valid and the payload beside it
    issued, dev, got             \* what client and device observed (MmioPort)

clientVars == <<valid, request, issued, got>>
deviceVars == <<peripheral_reset_release_q, dev>>
vars == <<coreRegs, periphRegs, clientVars, deviceVars>>

peripheral_rst_n == peripheral_reset_release_q = 2

Run   == [count : Nat, req : Requests, resp : Responses]
NoRun == [count |-> 0, req |-> ResetReq, resp |-> ResetResp]

TypeOK ==
    /\ BridgeTypeOK
    /\ peripheral_reset_release_q \in 0..2
    /\ valid \in Bit
    /\ request \in Requests
    /\ issued \in 0..MaxReq
    /\ dev \in Run
    /\ got \in Responses

-----------------------------------------------------------------------------
EnvInit ==
    /\ peripheral_reset_release_q = 0
    /\ valid = 0
    /\ request = ResetReq
    /\ issued = 0
    /\ dev = NoRun
    /\ got = ResetResp

Init == CoreInit /\ PeriphInit /\ EnvInit

\* The client's registers at a core clock edge.
ClientIssue ==
    /\ valid = 0 /\ issued < MaxReq
    /\ valid' = 1
    /\ request' \in Requests
    /\ issued' = issued + 1
    /\ UNCHANGED got

ClientIdle == valid = 0 /\ UNCHANGED clientVars

ClientWait == valid = 1 /\ ~core_req_ready /\ UNCHANGED clientVars

ClientTake ==
    /\ valid = 1 /\ core_req_ready
    /\ valid' = 0
    /\ got' = core_req_resp
    /\ UNCHANGED <<request, issued>>

CoreTick ==
    /\ CoreEdge(valid, request)
    /\ ClientIssue \/ ClientIdle \/ ClientWait \/ ClientTake

\* Mutant: the release shift register does not stop at its second stage.
PeriphHeld_unsaturated ==
    /\ peripheral_reset_release_q' = peripheral_reset_release_q + 1
    /\ UNCHANGED <<periphRegs, dev>>

\* A peripheral clock edge while the peripheral domain is still in reset.
PeriphHeld ==
    /\ ~peripheral_rst_n
    /\ peripheral_reset_release_q' = peripheral_reset_release_q + 1
    /\ UNCHANGED <<periphRegs, dev>>

\* One after it.  The device runs a request at the edge at which it is ready.
PeriphRun(ready, resp) ==
    /\ peripheral_rst_n
    /\ PeriphEdge(ready, resp)
    /\ dev' = IF PeriphFinish(ready)
              THEN [count |-> dev.count + 1, req |-> periph_req_q, resp |-> resp]
              ELSE dev
    /\ UNCHANGED peripheral_reset_release_q

PeriphTick ==
    PeriphHeld \/ \E ready \in Bit, resp \in Responses : PeriphRun(ready, resp)

CoreOnly   == CoreTick /\ UNCHANGED <<periphRegs, deviceVars>>
PeriphOnly == PeriphTick /\ UNCHANGED <<coreRegs, clientVars>>
BothTick   == CoreTick /\ PeriphTick

\* rst_n falls and rises again.
Reset ==
    /\ BridgeReset
    /\ peripheral_reset_release_q' = 0
    /\ valid' = 0
    /\ request' = ResetReq
    /\ issued' = 0
    /\ dev' = NoRun
    /\ got' = ResetResp

Next == CoreOnly \/ PeriphOnly \/ BothTick \/ Reset

Spec == Init /\ [][Next]_vars

\* Both clocks run for ever and a peripheral that is asked is ready in the
\* end: only txdata of a full, enabled UART inserts wait states (uart.sv:48).
Fairness ==
    /\ WF_vars(CoreOnly \/ BothTick)
    /\ WF_vars(\E resp \in Responses : PeriphRun(1, resp)
                  /\ (CoreTick \/ UNCHANGED <<coreRegs, clientVars>>))
    /\ WF_vars(PeriphHeld /\ (CoreTick \/ UNCHANGED <<coreRegs, clientVars>>))

LiveSpec == Spec /\ Fairness

-----------------------------------------------------------------------------
(***************************************************************************)
(* Properties.                                                             *)
(***************************************************************************)
Port == INSTANCE MmioPort WITH
            valid <- valid, request <- request, issued <- issued,
            dev <- dev, got <- got

\* The bridge with an obedient client implements the port: however the two
\* clocks interleave or coincide, no request is run twice, dropped, run with
\* another payload, run after the client gave up, or answered with the
\* response of another run.
ImplementsPort == Port!PortSpec

\* When core_req_ready rises, the request on the client's pins is the one the
\* device ran last, it ran, and the data beside ready is its answer
\* (soc_clock_bridge.sv:49-51).
AnswerBelongs ==
    core_req_ready =>
        /\ valid = 1
        /\ dev.count = issued
        /\ dev.req = request
        /\ dev.resp = core_req_resp

\* While the peripheral bus is active, the toggle it will return is the one
\* the core waits for and the client is still there: finishing at any later
\* edge returns to the right transaction (lines 129-140).
ActiveIsAwaited ==
    periph_active_q = 1 =>
        /\ req_busy_q = 1 /\ valid = 1
        /\ req_sync_q.toggle = req_toggle_q
        /\ periph_req_q = request
        /\ dev.count + 1 = issued

\* Every request is answered.
EventuallyAnswered == valid = 1 ~> valid = 0

\* While the bridge is idle every copy of the toggle agrees.
Quiet ==
    /\ req_meta_q.toggle = req_toggle_q
    /\ req_sync_q.toggle = req_toggle_q
    /\ resp_q.toggle = req_toggle_q
    /\ resp_meta_q.toggle = req_toggle_q
    /\ resp_sync_q.toggle = req_toggle_q
    /\ periph_active_q = 0

\* While it is busy the new toggle advances through meta, sync, device,
\* response, meta, sync in that order, and wherever it has arrived the payload
\* beside it is the current one.
InFlight ==
    /\ valid = 1
    /\ req_q = request
    /\ req_meta_q.toggle = req_toggle_q => req_meta_q.data = req_q
    /\ req_sync_q.toggle = req_toggle_q =>
           req_sync_q.data = req_q /\ req_meta_q.toggle = req_toggle_q
    /\ periph_active_q = 1 =>
           /\ req_sync_q.toggle = req_toggle_q
           /\ resp_q.toggle # req_toggle_q
           /\ periph_req_q = req_q
    /\ resp_q.toggle = req_toggle_q =>
           /\ req_sync_q.toggle = req_toggle_q
           /\ dev.count = issued
           /\ dev.req = req_q
           /\ dev.resp = resp_q.data
    /\ resp_q.toggle # req_toggle_q => dev.count + 1 = issued
    /\ resp_meta_q.toggle = req_toggle_q =>
           resp_q.toggle = req_toggle_q /\ resp_meta_q.data = resp_q.data
    /\ resp_sync_q.toggle = req_toggle_q =>
           resp_meta_q.toggle = req_toggle_q /\ resp_sync_q.data = resp_q.data

\* The inductive strengthening of the two invariants above: at every edge the
\* bridge is quiet or a single request is in flight (lines 75-140).
HandshakeInv ==
    /\ req_seen_q = resp_q.toggle
    /\ ~peripheral_rst_n => PeriphInit
    /\ req_busy_q = 0 =>
           /\ Quiet
           /\ dev.count + valid = issued
    /\ req_busy_q = 1 => InFlight
=============================================================================
