\* A writer that is started again when it stopped, two partitions, retention, one fault.
SPECIFICATION RestartedSpec
CONSTANTS
    Writers = {w1}
    Consoles = {}
    Partitions = {p1, p2}
    NoMember = NoMember
    BatchSize = 2
    MaxMessages = 0
    StopsWhenIdle = FALSE
    Poison <- NoPoison
    MaxOffset = 2
    MaxExpired = 1
    MaxDate = 0
    MaxFaults = 1
PROPERTIES RecordsGetCommitted RecordsReachBronze
CHECK_DEADLOCK FALSE
