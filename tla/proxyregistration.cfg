SPECIFICATION FairSpec
CONSTANTS
    None = None
    c1 = c1
    c2 = c2
    d1 = d1
    d2 = d2
    a1 = a1
    a2 = a2
    First <- MCFirst
    Later <- MCLater
    CRs = {c1, c2}
    Domains = {d1, d2}
    Addresses = {a1, a2}
    MaxRegs = 3
    MaxFaults = 1
INVARIANT RegistrationGuard
PROPERTY RegistrationsConverge
CHECK_DEADLOCK FALSE
