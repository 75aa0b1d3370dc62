SPECIFICATION SSpec
CONSTANTS
    z = z
    k1 = k1
    k2 = k2
    mr1 = mr1
    t1 = t1
    t2 = t2
    MaxTime = 100
    Height = {0, 1, 2, 3}
    StateID <- StateIDs
    ZeroID = z
    None = None
    Err = Err
    Thread = {t1, t2}
    Key = {k1}
    Registered = {"07-tendermint", "9999-mock"}
    InitialState <- InitialStates
    ClientMessage <- ClientMessages
    Query <- Queries
    LastTime = 2
    MaxCommands = 4
    NoJob = NoJob
    Unimplemented = Unimplemented
    MrEnclave = {mr1}
    mr_enclave = mr1
    NanosPerSec = 1
    KeyExpiration = 4
    Report <- Reports
SYMMETRY ThreadSymmetry
CHECK_DEADLOCK FALSE
INVARIANTS
    FreshClientIds
    ClientsQueryable
    SignedStatesAreStored
    AcceptedIsVerified
    OneLineage
    MembershipHolds
PROPERTIES
    FreezeIsFinal
