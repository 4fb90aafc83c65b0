SPECIFICATION FairSpec
CONSTANTS
    r1 = r1
    r2 = r2
    r3 = r3
    alice = alice
    bob = bob
    Request = {r1, r2}
    User = {alice}
    Owner <- OwnedByAlice
    Source <- OneTurn
    DailyLimit = 2
    TasterLimit = 2
    TTL = 1
    DayLength = 2
    MaxAge = 1
    MaxTime = 2
    Faults = {"error", "cancel", "crash"}
    NoRequest = NoRequest
INVARIANTS
    ReservationOwned
    UnchargedFailureTraced
    ThreadPaired
    ServedTracedOnce
    TraceFollowsAdmission
PROPERTIES
    EveryRequestEnds
    SlotsReturned
