\* A delete of a document that is still being uploaded.
SPECIFICATION Spec
CONSTANTS
    Docs = {d1}
    Deletes = {x1}
    NoDoc = NoDoc
    Qdrant = FALSE
    Listing = TRUE
    Faults = {}
CHECK_DEADLOCK FALSE
INVARIANTS
    DeletedMeansGone
