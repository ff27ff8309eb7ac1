\* One gateway on Qdrant that is started again with another embedder.
SPECIFICATION StartupSpec
CONSTANTS
    Gateways = {g1}
    Files <- TheFiles
    OnlyOnce = {"column rag_chunk_ids"}
    Faults = {}
    Dims = {8, 768}
CHECK_DEADLOCK FALSE
INVARIANTS
    CollectionIsOfDim
