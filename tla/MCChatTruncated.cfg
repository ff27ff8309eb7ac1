\* One stream, no faults on our side.
SPECIFICATION Spec
CONSTANTS
    Requests = {r1}
    Shapes <- StreamShape
    Models = {"m1"}
    NoModel = ""
    NoRow = NoRow
    Registry = {"fake", "ollama"}
    Streamers = {"fake", "ollama"}
    DefaultProvider = "ollama"
    DefaultModel = "m1"
    AuthRequired = FALSE
    MaxChars = 1
    Faults = {}
CHECK_DEADLOCK FALSE
INVARIANTS
    DoneMeansComplete
