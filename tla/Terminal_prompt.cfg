SPECIFICATION FairSpec
CONSTANTS
    Tools <- ToolsOf
    Level <- LevelOf
    Batches <- BatchesOf
    Room = 1
    MaxRuns = 2
    MaxTexts = 1
    MaxKeys = 1
    MaxAsides = 1
INVARIANTS
    ConsentIsReal
    TurnsAreWhole
PROPERTIES
    PromptReturns
