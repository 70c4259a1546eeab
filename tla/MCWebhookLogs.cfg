SPECIFICATION LogsFairSpec
CONSTANTS
    None = None
    o1 = o1
    o2 = o2
    Orgs = {o1, o2}
    Limit = 1
    MaxMsgs <- MCMaxMsgs
    Hits = {1}
    Statuses = {"pending", "success"}
    Offered = {"success"}
    Openable <- MCOpenable
INVARIANTS
    LogsTypeOK
    PageExists
    SheetShowsSelected
PROPERTIES
    ListAnswersQuery
    SearchIsApplied
    ListLoadingEnds
CHECK_DEADLOCK FALSE
