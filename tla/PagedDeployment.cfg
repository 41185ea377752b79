SPECIFICATION Spec
CONSTANTS
    Sharers = {"owner", "client"}
    Layouts = {"l1", "l2"}
    ValueCount <- MCValueCount
    DigestOf <- MCDigestOf
    LayoutOf <- MCLayoutOf
    MaxLogs = 2
    MaxFaults = 2
CHECK_DEADLOCK FALSE
INVARIANTS
    TypeOK
    ReturnedLogsStand
    AcceptedIsExact
