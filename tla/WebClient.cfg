SPECIFICATION FairSpec
CONSTANTS
    A = A
    d1 = d1
    k1 = k1
    k2 = k2
    None = None
    NoItem = NoItem
    NoChunk = NoChunk
    Turns = 2
    Moves = 3
    Stored <- MCStored
    Item <- MCItem
    Fetch <- MCFetch
    Probe <- MCAsk
    Bodies <- MCBodies
    Texts <- MCTexts
    Cited <- MCCited
INVARIANTS
    ShownTrue
    AnswerFaithful
PROPERTIES
    LinkAnswered
    WaitsEnd
CHECK_DEADLOCK FALSE
