SPECIFICATION KSpec
CONSTANTS
    p1 = p1
    p2 = p2
    m1 = m1
    m2 = m2
    a1 = a1
    a2 = a2
    Process = {p1, p2}
    Mrenclave = {m1, m2}
    Address = {a1}
    EnclaveOf <- OneVersion
    UnsealPolicy <- NextVersionUnseals
    Cert <- Certs
    OperatorCert <- OperatorCerts
    IASAnswers <- IASAnswersMC
    OperatorAnswers <- OperatorAnswersMC
    Expiration = {1}
    TicksPerSec = 2
    Day = 2
    FirstTime = 25
    LastTime = 26
    MaxCommands = 2
    None = None
    Err = Err
    Panic = Panic
CHECK_DEADLOCK FALSE
INVARIANTS
    UnexpiredWhenStored
