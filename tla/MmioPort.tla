------------------------------ MODULE MmioPort ------------------------------
(***************************************************************************)
(* What the MMIO path promises its client, with nothing of how the bridge  *)
(* does it: one outstanding request; the device runs each request exactly  *)
(* once, with the payload that was issued, while the client waits for it;  *)
(* the client is given the answer of that very run.                        *)
(*                                                                         *)
(* The reference is the blocking, single-outstanding port described at     *)
(* docs/rtl_review_and_cleanup_plan.md:131-132.                            *)
(***************************************************************************)
EXTENDS Naturals

CONSTANTS Requests, Responses, ResetReq, ResetResp, MaxReq

VARIABLES
    valid,    \* the client is waiting for an answer
    request,  \* the payload it asked for
    issued,   \* how many requests it has issued since reset
    dev,      \* at the device: how many it ran, the last one and its answer
    got       \* the last answer given to the client

portVars == <<valid, request, issued, dev, got>>

PortInit ==
    /\ valid = 0
    /\ request = ResetReq
    /\ issued = 0
    /\ dev = [count |-> 0, req |-> ResetReq, resp |-> ResetResp]
    /\ got = ResetResp

Issue(r) ==
    /\ valid = 0 /\ issued < MaxReq
    /\ valid' = 1
    /\ request' = r
    /\ issued' = issued + 1
    /\ UNCHANGED <<dev, got>>

Execute(s) ==
    /\ valid = 1 /\ dev.count < issued
    /\ dev' = [count |-> dev.count + 1, req |-> request, resp |-> s]
    /\ UNCHANGED <<valid, request, issued, got>>

Deliver ==
    /\ valid = 1 /\ dev.count = issued
    /\ valid' = 0
    /\ got' = dev.resp
    /\ UNCHANGED <<request, issued, dev>>

PortReset == PortInit'

PortNext ==
    \/ \E r \in Requests : Issue(r)
    \/ \E s \in Responses : Execute(s)
    \/ Deliver
    \/ PortReset

PortSpec == PortInit /\ [][PortNext]_portVars
=============================================================================
