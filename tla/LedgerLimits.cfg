SPECIFICATION Spec
CONSTANTS
    alice = alice
    Request = {r1, r2, r3, r4}
    User = {alice}
    Owner <- OwnedByAlice
    DailyLimit = 2
    TasterLimit = 1
    TTL = 0
    DayLength = 2
    MaxTime = 3
    Refundable = {"reserved"}
SYMMETRY Interchangeable
CHECK_DEADLOCK FALSE
INVARIANTS
    LifetimeHolds
    DayHolds
