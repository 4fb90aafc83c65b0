SPECIFICATION Spec
CONSTANTS
    q1 = q1
    Question = {q1}
    SplitOf <- MCSplit
    Name = {"spec-1"}
    DocsOf <- MCDocs
    SweepDocs <- MCSweepDocs
    Cut <- MCCut
    Ladder <- MCLadder
    ConfigLists <- MCConfigLists
    Splits = {"tune", "holdout"}
    MaxCommands = 2
    MaxRuns = 2
    MaxEdits = 1
    Modes <- MCModes
    Items <- MCItems
    Take = {0, 1}
    Conditions = {c1}
    MaxTurns = 2
    CallCap = 1
    Tries = 2
    MaxProcesses = 2
    Answers <- MCAnswers
    Dims <- MCDims
    Scale = {0, 3}
    Samples = {0, 1}
    MaxRubric = 1
    MaxAnswers = 1
    MaxSittings = 2
    GoldSheets <- MCGoldSheets
    MaxMatches = 3
    Chunk = {1, 2, 3}
    MaxRank = 3
    MaxGroups = 3
    MaxCalls = 3
    MaxBudget = 2
    MaxRows = 2
    MaxOfType = 12
    Type = {1, 2, 3}
    MaxItems = 5
    Page <- MCPage
    MaxSentences = 2
INVARIANTS
    LadderTrue
    SweepExact
    JudgeTrue
    ScoresTrue
CHECK_DEADLOCK FALSE
