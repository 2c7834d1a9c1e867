CONSTANTS
    j1 = j1
    j2 = j2
    w1 = w1
    w2 = w2
    d1 = d1
    d2 = d2
    NoJob = NoJob
    Job <- TwoJobs
    Worker <- TwoWorkers
    Dispatcher <- TwoDispatchers
    Handled <- OneJob
    MaxAttempts = 3
    MaxFaults = 2
SPECIFICATION Spec
SYMMETRY Symmetry
INVARIANT TypeOK
INVARIANT ClaimedIsPersisted
INVARIANT SingleDelivery
INVARIANT ExclusiveExecution
INVARIANT OutcomeTruthful
INVARIANT OutcomeSettles
PROPERTY SettledForGood ExhaustedForGood ImplementsJobDelivery
