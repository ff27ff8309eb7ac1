\* Two calls of the user in any order and interleaving, with one Refresh or one
\* Clear before, between or behind them.  One row fills the log, and others add
\* documents.
SPECIFICATION FairSpec
CONSTANTS
    MaxCalls = 2
    MaxActs = 3
    LogLimit = 1
    DocumentLimit = 1
    Shared = {"documents"}
CHECK_DEADLOCK FALSE
INVARIANTS
    TypeOK
    HistoryIsShown
    QuietPageIsCurrent
    DisabledWaits
PROPERTIES
    Settles
