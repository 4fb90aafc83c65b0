SPECIFICATION FairSpec
CONSTANTS
    d1 = d1
    d2 = d2
    q1 = q1
    q2 = q2
    alice = alice
    Document = {d1, d2}
    User = {alice}
    Owner <- OwnedByAlice
    Pages <- TwoAndOne
    Readable = {d1, d2}
    Removable = {d1}
    Question = {q1}
    Asker <- AskedByAlice
    All = All
    NoUpload = NoUpload
    DocumentLimit = 1
    PageLimit = 2
    MonthlyPages = 3
    MaxPages = 2
    Faults = {"upload", "index", "tail", "remove", "answer", "handler", "crash"}
INVARIANTS
    TypeOK
    TasterUploadsHold
    DocumentTrue
    StaleOnlyByRace
PROPERTIES
    IndexingSettles
