SPECIFICATION QuietSpec
CONSTANTS
    MaxTurns = 4
    MaxRetries = 1
    MaxTokensRetryLimit = 1
    BenchmarkMaxRetries = 2
    KeepRecent = 3
    DoomWindow = 2
    EarlyTurns = 4
    VerifyFrom = 2
    Setups = {{}, {"tools"}, {"tools", "benchmark_mode", "tests_in_prompt", "auto_compact"},
              {"tools", "benchmark_mode", "tests_in_prompt"}}
    BatchSizes = {0, 1}
    MaxRuns = 1
    MaxCrashes = 0
INVARIANTS
    ForcedOnlyAfterNudge
PROPERTIES
    EveryRunEnds
    CancelIsHeeded
