CONSTANTS
    e1 = e1
    e2 = e2
    c1 = c1
    Default = Default
    Absent = Absent
    Execution <- TwoExecutions
    Client <- NoClient
    StartMode <- UsualStart
    GenerateMode <- UsualGenerate
    HasRepair = FALSE
    MaxRetries = 1
    MaxFaults = 1
    Redelivery = TRUE
SPECIFICATION Spec
SYMMETRY Symmetry
INVARIANT CompletedIsCharged
CHECK_DEADLOCK FALSE
