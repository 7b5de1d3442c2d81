CONSTANTS
    Msgs = {m1, m2}
    m1 = m1
    m2 = m2
    Times = {1}
    MsgSize <- MCMsgSize
    Overhead = 50
    Thresholds = {60}
    MaxBatch = 2
    OnChain = OnChain
    OffChain = OffChain
    KeyError = KeyError
INIT Init
NEXT Next
INVARIANT RoundTrip
