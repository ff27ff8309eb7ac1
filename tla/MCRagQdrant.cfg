\* Qdrant, with a client that lists the documents, and every fault.
SPECIFICATION Spec
CONSTANTS
    Docs = {d1}
    Deletes = {x1, x2}
    NoDoc = NoDoc
    Qdrant = TRUE
    Listing = TRUE
    Faults = {"sql", "leave", "crash"}
SYMMETRY DeletesAlike
CHECK_DEADLOCK FALSE
INVARIANTS
    AcknowledgedIsStored
    AnsweredDeleteIsFinal
    FailedUploadIsNotListed
