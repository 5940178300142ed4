\* The first payload of a partition makes the JSONL serialisation raise.
SPECIFICATION RestartedSpec
CONSTANTS
    Writers = {w1}
    Consoles = {}
    Partitions = {p1}
    NoMember = NoMember
    BatchSize = 2
    MaxMessages = 0
    StopsWhenIdle = FALSE
    Poison <- PoisonAtStart
    MaxOffset = 2
    MaxExpired = 0
    MaxDate = 0
    MaxFaults = 0
PROPERTIES RecordsReachBronze
CHECK_DEADLOCK FALSE
