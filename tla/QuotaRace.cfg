SPECIFICATION Spec
CONSTANTS
    r1 = r1
    r2 = r2
    r3 = r3
    alice = alice
    bob = bob
    Request = {r1, r2, r3}
    User = {alice}
    Owner <- OwnedByAlice
    Source <- AllMcpSearch
    DailyLimit = 2
    TasterLimit = 1
    TTL = 1
    DayLength = 2
    MaxAge = 1
    MaxTime = 3
    Faults = {"crash"}
    NoRequest = NoRequest
SYMMETRY Interchangeable
INVARIANTS
    AdmissionInv
    TasterHolds
    DailyHolds
