CONSTANTS
    Requests = {r0, r1, r2}
    Responses = {s0, s1, s2}
    ResetReq = r0
    ResetResp = s0
    MaxReq = 3
SPECIFICATION LiveSpec
INVARIANTS TypeOK HandshakeInv
PROPERTIES ImplementsPort EventuallyAnswered
