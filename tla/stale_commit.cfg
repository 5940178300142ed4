\* A writer commits a buffer from before a rebalance, which moves the group back.
SPECIFICATION Spec
CONSTANTS
    Writers = {w1, w2}
    Consoles = {c1}
    Partitions = {p1}
    NoMember = NoMember
    BatchSize = 5
    MaxMessages = 0
    StopsWhenIdle = FALSE
    Poison <- NoPoison
    MaxOffset = 4
    MaxExpired = 0
    MaxDate = 0
    MaxFaults = 0
CONSTRAINT StaleBufferCommitsLast
INVARIANTS CommittedStaysStored
CHECK_DEADLOCK FALSE
