CONSTANTS
    person = person
    business = business
    c1 = c1
    c2 = c2
    Nothing = Nothing
    Owner <- OnePerson
    Request <- GrantAndCharges
    Client <- OneClient
    EventIdLength <- RealLength
    MayAbort = FALSE
SPECIFICATION FairSpec
PROPERTY ChargeIsBooked
