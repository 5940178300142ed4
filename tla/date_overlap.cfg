\* A writer dies after a put, its successor cuts the same records differently.
SPECIFICATION Spec
CONSTANTS
    Writers = {w1}
    Consoles = {}
    Partitions = {p1}
    NoMember = NoMember
    BatchSize = 2
    MaxMessages = 0
    StopsWhenIdle = FALSE
    Poison <- NoPoison
    MaxOffset = 2
    MaxExpired = 0
    MaxDate = 0
    MaxFaults = 1
INVARIANTS DateReplayable
CHECK_DEADLOCK FALSE
