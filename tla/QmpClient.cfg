CONSTANTS
    Callers = {d, c1, c2}
    Dialer = d
    Owner = owner_
    None = none
SPECIFICATION FairSpec
INVARIANTS CallbackWithinCall OutcomeTellsClient
PROPERTIES HandedOutOpen ImplementsContract CallReturns SetupSettles
