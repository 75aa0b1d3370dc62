SPECIFICATION CSpec
CONSTANTS
    t1 = t1
    t2 = t2
    t3 = t3
    uk1 = uk1
    uk2 = uk2
    k1 = k1
    k2 = k2
    v1 = v1
    Thread = {t1, t2}
    UpdateKey = {uk1}
    Key = {k1}
    Value = {v1}
    Footprint <- OneClient
    MaxTxId = 3
    None = None
    Unwritten = Unwritten
    NoKey = NoKey
    NoTx = NoTx
    OutputMaxLen = 2
    MaxOps = 4
    OcallMaxLen = 2
    Panic = Panic
INVARIANTS
    OutputFitsBuffer
