CONSTANTS
    e1 = e1
    e2 = e2
    c1 = c1
    Default = Default
    Absent = Absent
    Execution <- TwoExecutions
    Client <- OneClient
    StartMode <- AnyStart
    GenerateMode <- AnyGenerate
    HasRepair = TRUE
    MaxRetries = 1
    MaxFaults = 1
    Redelivery = FALSE
SPECIFICATION FairSpec
INVARIANT TypeOK
INVARIANT OneExecution
INVARIANT QuietIsDecided
INVARIANT OutcomeCoherent
INVARIANT EffortBounded
PROPERTY OutcomeFinal ChargedIsDelivered
CHECK_DEADLOCK FALSE
