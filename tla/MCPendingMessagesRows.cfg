CONSTANTS
    r1 = r1  r2 = r2  r3 = r3
    m1 = m1  m2 = m2  c1 = c1
    Post = Post  Store = Store  None = None
    Rows = {r1, r2, r3}
    Msgs = {m1, m2}
    Types = {Post, Store}
    Chains = {c1}
    RowMsg <- SharedRowMsg
    RowChain <- SharedRowChain
    RowHeight <- SharedRowHeight
    MsgType <- MCMsgType
    SemValue <- DefaultSemValue
    Unparsable = {}
    InvalidContent = {}
    MaxConcurrency = 2
    HighWater = 0
    MaxLoopErrors = 0
SPECIFICATION Spec
INVARIANTS NoRowTwiceInFlight

