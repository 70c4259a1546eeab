SPECIFICATION Spec
CONSTANTS
    m1 = m1
    m2 = m2
    m3 = m3
    o1 = o1
    o2 = o2
    NULL = NULL
    Messages = {m1, m2, m3}
    Workers = {w1, w2}
    Schedulers = {s1}
    Orgs = {o1}
    OrgOf <- OneOrg
    MaxAttempts = 2
    BatchLimit = 1
    BadURL = {m3}
    BinaryReply = {}
    Deletable = {}
    MaxSecret = 0
INVARIANTS
    TypeOK
    ExclusiveDelivery
    NotStranded
    AttemptLog
PROPERTIES
    FinalUnlessRequeued
    MeetsContract
CHECK_DEADLOCK FALSE
