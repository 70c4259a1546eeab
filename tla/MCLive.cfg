SPECIFICATION FairSpec
CONSTANTS
    m1 = m1
    m2 = m2
    m3 = m3
    o1 = o1
    o2 = o2
    NULL = NULL
    Messages = {m1, m2}
    Workers = {w1, w2}
    Schedulers = {s1}
    Orgs = {o1, o2}
    OrgOf <- TwoOrgs
    MaxAttempts = 1
    BatchLimit = 2
    BadURL = {}
    BinaryReply = {m2}
    Deletable = {o1}
    MaxSecret = 1
INVARIANTS
    NoOrphans
PROPERTIES
    MeetsContract
    RotationReaches
    FirstAttempt
    SettlesUnlessClobbered
CHECK_DEADLOCK FALSE
