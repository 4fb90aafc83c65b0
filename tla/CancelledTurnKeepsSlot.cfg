SPECIFICATION Spec
CONSTANTS
    r1 = r1
    r2 = r2
    r3 = r3
    alice = alice
    bob = bob
    Request = {r1}
    User = {alice}
    Owner <- OwnedByAlice
    Source <- AllConversation
    DailyLimit = 2
    TasterLimit = 2
    TTL = 2
    DayLength = 2
    MaxAge = 1
    MaxTime = 1
    Faults = {"cancel"}
    NoRequest = NoRequest
INVARIANTS
    FailureReleases
