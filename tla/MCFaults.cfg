SPECIFICATION FFairSpec
CONSTANTS
    m1 = m1
    m2 = m2
    o1 = o1
    NULL = NULL
    Messages = {m1}
    Workers = {w1, w2}
    Schedulers = {s1, s2}
    Orgs = {o1}
    OrgOf <- OneOrg
    MaxAttempts = 1
    BatchLimit = 1
    BadURL = {}
    BinaryReply = {}
    Deletable = {}
    MaxSecret = 0
    FaultKinds = {"push", "pop", "restart", "db", "crash"}
    MaxFaults = 1
INVARIANTS
    AttemptBound
    SuccessIsReal
    NoPrematureDeadLetter
PROPERTIES
    RetryServed
CHECK_DEADLOCK FALSE
