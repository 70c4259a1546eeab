SPECIFICATION Spec
CONSTANTS
    m1 = m1
    m2 = m2
    m3 = m3
    o1 = o1
    o2 = o2
    NULL = NULL
    Messages = {m1}
    Workers = {w1}
    Schedulers = {s1}
    Orgs = {o1}
    OrgOf <- OneOrg
    MaxAttempts = 5
    BatchLimit = 10
    BadURL = {}
    BinaryReply = {}
    Deletable = {o1}
    MaxSecret = 0
PROPERTIES
    EverySendSigned
CHECK_DEADLOCK FALSE
