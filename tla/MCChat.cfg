\* One request of every shape, every fault, and its liveness.
SPECIFICATION FairSpec
CONSTANTS
    Requests = {r1}
    Shapes <- AllShapes
    Models = {"m1", "m2"}
    NoModel = ""
    NoRow = NoRow
    Registry = {"fake", "ollama", "openai", "plain"}
    Streamers = {"fake", "ollama", "openai"}
    DefaultProvider = "ollama"
    DefaultModel = "m1"
    AuthRequired = TRUE
    MaxChars = 3
    Faults = {"leave", "stall", "log", "crash"}
CHECK_DEADLOCK FALSE
INVARIANTS
    TypeOK
    RowTellsTheAnswer
    NoTokensForFailures
    DrainedLogIsComplete
PROPERTIES
    AnswersOnlyGrow
    RequestsReturn
    ImplementsLedger
