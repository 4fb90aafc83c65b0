SPECIFICATION Spec
CONSTANTS
    a = a
    b = b
    c = c
    d = d
    e = e
    ada = ada
    Request = {a, b, c, d, e}
    Mixes <- Meetings
    Email = {ada}
    EmailOf <- AllAda
    Nobody = Nobody
    Faulty = TRUE
INVARIANTS
    TypeOK
    LinkTrue
    TwoLinksOnlyByRace
PROPERTIES
    EveryRequestEnds
