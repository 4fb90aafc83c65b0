SPECIFICATION Spec
CONSTANTS
    r1 = r1
    r2 = r2
    r3 = r3
    alice = alice
    bob = bob
    Request = {r1, r2}
    User = {alice}
    Owner <- OwnedByAlice
    Source <- TurnAndAgent
    DailyLimit = 1
    TasterLimit = 1
    TTL = 0
    DayLength = 1
    MaxAge = 1
    MaxTime = 1
    Faults = {"error", "cancel", "lost_ack", "cleanup", "trace", "crash"}
    NoRequest = NoRequest
INVARIANTS
    TypeOK
PROPERTIES
    LedgerSpec
