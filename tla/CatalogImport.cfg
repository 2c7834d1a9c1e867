CONSTANTS
    r1 = r1
    r2 = r2
    r3 = r3
    Nobody = Nobody
    Request <- ThreeRequests
    Files <- FewFiles
    RowLimit <- Limits
    MaxFaults = 2
SPECIFICATION Spec
SYMMETRY Symmetry
INVARIANT TypeOK
INVARIANT MerchantFits
INVARIANT ImportIsTold
INVARIANT OncePerKey
CHECK_DEADLOCK FALSE
