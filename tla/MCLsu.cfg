CONSTANTS
    Requests = {r0, la, sa}
    Responses = {s0, s1}
    ResetReq = r0
    ResetResp = s0
    LoadReqs = {la}
    StoreReqs = {sa}
    MaxInterrupts = 1
SPECIFICATION LiveSpec
INVARIANTS PortInv AnswersReachTheirAccess ExactlyOnce
PROPERTY PortComesToRest
