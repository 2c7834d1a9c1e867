CONSTANTS
    j1 = j1
    j2 = j2
    w1 = w1
    w2 = w2
    d1 = d1
    d2 = d2
    NoJob = NoJob
    Job <- OneJob
    Worker <- OneWorker
    Dispatcher <- OneDispatcher
    Handled <- OneJob
    MaxAttempts = 2
    MaxFaults = 1
SPECIFICATION FairSpec
PROPERTY QueuedIsTaken
