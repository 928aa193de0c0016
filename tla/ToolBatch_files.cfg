SPECIFICATION Spec
CONSTANTS
    f1 = f1
    f2 = f2
    abs1 = abs1
    rel1 = rel1
    abs2 = abs2
    Files = {f1, f2}
    Names = {abs1, abs2}
    Resolves <- Here
    Opens <- Here
    Tools = {"Read", "Write", "Edit", "ApplyPatch"}
    BatchSize = 2
    MaxBatches = 2
    MaxRuns = 1
    MaxSurprises = 1
SYMMETRY Symmetry
INVARIANTS
    BarredCallsLeaveNoTrace
    LoneCallsLand
PROPERTIES
    NoBlindOverwrite
    RefusalsJustified
