SPECIFICATION MCSpec
CONSTANTS
    Histories <- MCHistories
    Keeps = {1, 2, 3, 5}
    MaxTasks = 3
    MaxPermits = 2
    Publishers = {"p1", "p2"}
    Readers = {"r1", "r2", "r3"}
    Boxes = {"a", "b"}
    BoxOf <- BoxOfReader
    Capacity = 1
    MaxSeq = 2
    MaxReads = 4
INVARIANTS
    CompactionIsRight
    BatchIsRight
    MailArrives
    RequestsAreFaithful
PROPERTIES
    BatchEnds
