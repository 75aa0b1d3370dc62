SPECIFICATION LSpec
CONSTANTS
    z = z
    s1 = s1
    s2 = s2
    a1 = a1
    a2 = a2
    mr1 = mr1
    mr2 = mr2
    MaxTime = 100
    Height = {0, 1, 2, 3}
    StateID = {z, s1}
    ZeroID = z
    None = None
    Err = Err
    Address = {a1, a2}
    MrEnclave = {mr1, mr2}
    mr_enclave = mr1
    NanosPerSec = 2
    KeyExpiration = 1
    LastTime = 4
    Context <- Contexts
    Timestamp = {1, 2}
    Report <- Reports
    MaxU64 = 21
    U128 = 128
    MinIdLen = 3
    MaxIdLen = 5
    ClientType <- ClientTypes
    StateBytes <- Encodings
    Panic = Panic
CHECK_DEADLOCK FALSE
INVARIANTS SecondPrecision
