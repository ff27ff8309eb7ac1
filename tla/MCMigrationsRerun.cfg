\* One gateway that stops once on its first way up.
SPECIFICATION Spec
CONSTANTS
    Gateways = {g1}
    Files <- TheFiles
    OnlyOnce = {"column rag_chunk_ids"}
    Faults = {"crash"}
CHECK_DEADLOCK FALSE
INVARIANTS
    NeverRunTwice
