CONSTANTS
    r1 = r1
    r2 = r2
    r3 = r3
    Nobody = Nobody
    Request <- TwoRequests
    Files <- FewFiles
    RowLimit <- Limits
    MaxFaults = 0
SPECIFICATION Spec
PROPERTY TierNeedsAdministrator
CHECK_DEADLOCK FALSE
