CONSTANTS
    j1 = j1
    j2 = j2
    w1 = w1
    w2 = w2
    d1 = d1
    d2 = d2
    NoJob = NoJob
    Job <- TwoJobs
    Worker <- TwoWorkers
    Dispatcher <- OneDispatcher
    Handled <- OneJob
    MaxAttempts = 2
    MaxFaults = 1
SPECIFICATION FairSpec
PROPERTY EveryJobComesToRest
