SPECIFICATION PagesFairSpec
CONSTANTS
    o1 = o1
    o2 = o2
    i1 = i1
    i2 = i2
    i3 = i3
    i4 = i4
    None = None
    Orgs = {o1, o2}
    Admin = {o1}
    Ids = {i1, i2, i3, i4, i5}
    Start <- Tables
    Slots = {s1, s2}
    Elsewhere = {o2}
INVARIANTS
    PagesTypeOK
    ForeignRowsAreLate
    Converged
    OneOutcome
    BusyIsAwaited
PROPERTIES
    ShowsWhatItLoaded
    LoadingEnds
CHECK_DEADLOCK FALSE
