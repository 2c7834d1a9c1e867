CONSTANTS
    person = person
    business = business
    c1 = c1
    c2 = c2
    Nothing = Nothing
    Owner <- TwoOwners
    Request <- AllCalls
    Client <- TwoClients
    EventIdLength <- ShortLength
    MayAbort = TRUE
SPECIFICATION Spec
INVARIANT TypeOK
INVARIANT BookedOnce
INVARIANT NeverNegative
INVARIANT BalanceIsLastAfter
PROPERTY ImplementsAccountLedger
SYMMETRY ClientSymmetry
