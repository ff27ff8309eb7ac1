\* Two gateways on one database file and one Qdrant, either of which may stop or
\* fail at any point, from their start until they serve.
SPECIFICATION StartupFairSpec
CONSTANTS
    Gateways = {g1, g2}
    Files <- TheFiles
    OnlyOnce = {"column rag_chunk_ids"}
    Faults = {"crash", "sql"}
    Dims = {8, 768}
CHECK_DEADLOCK FALSE
INVARIANTS
    TypeOK
    RecordedIsThere
    OpenIsComplete
    ReopeningWorks
    StartupTypeOK
    FreshFits
PROPERTIES
    ComesBack
