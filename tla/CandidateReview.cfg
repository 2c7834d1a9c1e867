CONSTANTS
    r1 = r1
    r2 = r2
    r3 = r3
    Proposed = Proposed
    Known = Known
    Nothing = Nothing
    Reviewer <- Reviewers
    Kinds <- AllKinds
    MaxDecisions = 4
    MaxFaults = 1
SPECIFICATION Spec
SYMMETRY Symmetry
INVARIANT TypeOK
INVARIANT RecordFits
INVARIANT AuditTells
CHECK_DEADLOCK FALSE
