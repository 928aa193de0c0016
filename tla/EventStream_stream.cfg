SPECIFICATION QuietSpec
CONSTANTS
    Streaming = TRUE
    Capacity = 2
    ControlCapacity = 1
    MaxEvents = 4
INVARIANTS
    Lossless
    CollectTruthful
PROPERTIES
    StreamedRunEnds
