\* One writer that stops after three messages or when it is idle, two partitions,
\* a failed call, a crash or a lost membership, midnight.
SPECIFICATION Spec
CONSTANTS
    Writers = {w1}
    Consoles = {}
    Partitions = {p1, p2}
    NoMember = NoMember
    BatchSize = 2
    MaxMessages = 3
    StopsWhenIdle = TRUE
    Poison <- NoPoison
    MaxOffset = 2
    MaxExpired = 0
    MaxDate = 1
    MaxFaults = 1
INVARIANTS TypeOK CommittedIsStored NoReread ObjectsReplayable OverlapNeedsFault
CHECK_DEADLOCK FALSE
