SPECIFICATION InvSpec
CONSTANTS
    u1 = u1
    u2 = u2
    o1 = o1
    o2 = o2
    NULL = NULL
    Users = {u1, u2}
    Orgs = {o1, o2}
    Founder <- Founders
    Invites <- Asked
    Deletable = {o1}
    Calls = {p1, p2}
    Ids = {i1, i2}
    Faulty = TRUE
INVARIANTS
    InvTypeOK
    AcceptedIsMember
    MembershipEarned
    DeletedOrgIsEmpty
PROPERTIES
    WithdrawnByAdmin
    MembershipKept
SYMMETRY Symmetry
