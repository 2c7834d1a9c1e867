CONSTANTS
    j1 = j1
    j2 = j2
    e1 = e1
    e2 = e2
    NoJob = NoJob
    Job <- TwoJobs
    Execution <- TwoExecutions
    Asked <- CardsOrOthers
    Balances <- OneEach
    MaxCalls = 2
    MaxFaults = 1
    Slow <- FirstJob
SPECIFICATION FairSpec
INVARIANT TypeOK
INVARIANT ChargedIsDelivered
INVARIANT CompletedIsPaid
INVARIANT ShowsItsOwn
PROPERTY Answered
CHECK_DEADLOCK FALSE
