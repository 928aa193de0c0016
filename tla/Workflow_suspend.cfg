SPECIFICATION Spec
CONSTANTS
    Workflows <- Definitions
    MaxIterations = 2
    MaxRuns = 3
INVARIANTS
    ReplayShortCircuits
    SuspensionIsSaved
    WalksKeepApart
    ReportIsTrue
PROPERTIES
    EveryRunIsReported
