CONSTANTS
    r1 = r1
    r2 = r2
    e1 = e1
    Request <- TwoRequests
    Execution <- OneExecution
    ImageLimit = 2
    MaxRequests = 3
    MaxFaults = 1
SPECIFICATION FairSpec
INVARIANT TypeOK
INVARIANT DecisionStands
INVARIANT PublicIsJudged
INVARIANT UploadsGuarded
PROPERTY PendingEnds
CHECK_DEADLOCK FALSE
