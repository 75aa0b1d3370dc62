SPECIFICATION RSpec
CONSTANTS
    t1 = t1
    t2 = t2
    uk1 = uk1
    k1 = k1
    v1 = v1
    Thread = {t1, t2}
    UpdateKey = {uk1}
    Key = {k1}
    Value = {v1}
    Footprint <- OneClient
    MaxTxId = 3
    None = None
    Unwritten = Unwritten
    NoKey = NoKey
    NoTx = NoTx
    OutputMaxLen = 2
INVARIANTS
    EntryPresentUnderRaces
