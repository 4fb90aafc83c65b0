SPECIFICATION Spec
CONSTANTS
    r1 = r1
    r2 = r2
    r3 = r3
    alice = alice
    bob = bob
    Request = {r1, r2, r3}
    User = {alice, bob}
    Owner <- OwnedByBoth
    Source <- AllMcpSearch
    DailyLimit = 1
    TasterLimit = 1
    TTL = 1
    DayLength = 4
    MaxAge = 1
    MaxTime = 3
    Faults = {"crash"}
    NoRequest = NoRequest
INVARIANTS
    ChargeInv
    AnsweredIsCharged
PROPERTIES
    RefusedAtLimit
