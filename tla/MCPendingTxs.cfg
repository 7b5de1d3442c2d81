CONSTANTS
    t1 = t1  t2 = t2  t3 = t3  t4 = t4
    m1 = m1  m2 = m2  f1 = f1
    Txs = {t1, t2, t3, t4}
    Msgs = {m1, m2}
    Files = {f1}
    Malformed = {}
    TxContent <- MCTxContent
    FileContent <- MCFileContent
    IpfsEnabled = TRUE
    MaxCrashes = 1
    None = None  P2P = P2P  Bad = Bad
    OnChain = OnChain  OffChain = OffChain  SmartContract = SmartContract  Unknown = Unknown
SPECIFICATION Spec
INVARIANTS TypeOK ExpandedTxAdmitted DecodableTxDeliverable
PROPERTIES TxEventuallyExpanded
