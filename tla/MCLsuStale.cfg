CONSTANTS
    Requests = {r0, la, lb, sa}
    Responses = {s0, s1}
    ResetReq = r0
    ResetResp = s0
    LoadReqs = {la, lb}
    StoreReqs = {sa}
    MaxInterrupts = 2
SPECIFICATION Spec
INVARIANT AnswerForOwner
