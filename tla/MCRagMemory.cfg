\* The in-memory store, ids known from the answer 201 only.
SPECIFICATION Spec
CONSTANTS
    Docs = {d1, d2}
    Deletes = {x1, x2}
    NoDoc = NoDoc
    Qdrant = FALSE
    Listing = FALSE
    Faults = {"sql", "leave", "crash"}
SYMMETRY AllAlike
CHECK_DEADLOCK FALSE
INVARIANTS
    TypeOK
    VectorsHaveRows
    AcknowledgedIsStored
