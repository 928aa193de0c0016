SPECIFICATION Spec
CONSTANTS
    Callers = {"c1", "c2"}
    MaxCalls <- Bound
    MaxServers = 2
    Room = 1
    OwnNumbers = {1}
INVARIANTS
    OwnAnswer
    NothingLeftBehind
PROPERTIES
    EveryCallEnds
