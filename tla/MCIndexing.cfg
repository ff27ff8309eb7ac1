\* Every text of up to nine runes, with every small size and overlap, its
\* chunks embedded in every way of SmallReplies, and searched for every phrase.
SPECIFICATION IndexingSpec
CONSTANTS
    Lengths  <- SmallLengths
    Sizes    <- SmallSizes
    Overlaps <- SmallOverlaps
    Replies  <- SmallReplies
    Limits   <- SmallLimits
CHECK_DEADLOCK FALSE
INVARIANTS
    NothingStraddles
    ChunksSlide
    OwnVectors
    PhraseFound
PROPERTIES
    LoopAdvances
