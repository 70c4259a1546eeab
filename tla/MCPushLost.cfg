SPECIFICATION FFairSpec
CONSTANTS
    m1 = m1
    m2 = m2
    o1 = o1
    NULL = NULL
    Messages = {m1}
    Workers = {w1}
    Schedulers = {s1}
    Orgs = {o1}
    OrgOf <- OneOrg
    MaxAttempts = 1
    BatchLimit = 1
    BadURL = {}
    BinaryReply = {}
    Deletable = {}
    MaxSecret = 0
    FaultKinds = {"push", "restart"}
    MaxFaults = 1
PROPERTIES
    FirstAttempt
CHECK_DEADLOCK FALSE
