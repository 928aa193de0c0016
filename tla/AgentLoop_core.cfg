SPECIFICATION Spec
CONSTANTS
    MaxTurns = 2
    MaxRetries = 1
    MaxTokensRetryLimit = 1
    BenchmarkMaxRetries = 2
    KeepRecent = 2
    DoomWindow = 4
    EarlyTurns = 4
    VerifyFrom = 3
    Setups = {{"tools"}, {"tools", "auto_compact"}}
    BatchSizes = {0, 2}
    MaxRuns = 2
    MaxCrashes = 1
INVARIANTS
    ResultsFollowTheirCalls
    RequestShape
    AnsweredOnce
PROPERTIES
    CompactionKeepsRecent
    SavesExtendSession
