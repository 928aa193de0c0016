SPECIFICATION MCSpec
CONSTANTS
    Writers = {w1, w2}
    MessageSize = 2
    MaxSize = 5
    MaxParts = 3
    MaxEntries = 3
    MaxCuts = 2
    MaxDeletes = 2
    Samples = 1
    MaxRounds = 2
    Proposals = 2
    MaxSolves = 2
    MaxTrouble = 2
    BoxFiles = {"f", "g"}
    BoxKeys = {"k"}
    Callers = {"c", "d"}
    MaxBoxes = 3
    MaxSnaps = 1
    MaxStamps = 1
    MaxStopped = 1
    MaxDeaths = 1
SYMMETRY Symmetry
INVARIANTS
    TranscriptsAreTrue
    RecoveryIsSound
    SnapshotsAreSound
