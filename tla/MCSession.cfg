SPECIFICATION SessionSpec
CONSTANTS
    None = None
    u1 = u1
    o1 = o1
    o2 = o2
    Tabs = {t1, t2}
    Users = {u1, u2}
    Orgs = {o1, o2}
    Workspace <- ByFirstName
    Slots = {s1, s2}
    Founders = {u1}
    MaxClicks = 5
    InviteRoles = {"member"}
SYMMETRY Alike
INVARIANTS
    SessionTypeOK
    HeaderMatchesView
    CurrentIsListed
    ListIsTheServers
    RegisteredIsComplete
PROPERTIES
    DeletesWhatItNames
CHECK_DEADLOCK FALSE
