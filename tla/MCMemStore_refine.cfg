SPECIFICATION Spec
CONSTANTS
    t1 = t1
    t2 = t2
    uk1 = uk1
    uk2 = uk2
    k1 = k1
    k2 = k2
    v1 = v1
    Thread = {t1,t2}
    UpdateKey = {uk1, uk2}
    Key = {k1, k2}
    Value = {v1}
    Footprint <- DisjointPrints
    MaxTxId = 3
    None = None
    Unwritten = Unwritten
INVARIANT RunningWhileBegun
PROPERTY ImplementsCommitStore
