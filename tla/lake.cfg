\* One writer and one replay run over the same date: midnight, retention, a
\* payload that raises, one fault of either side.
SPECIFICATION LakeSpec
CONSTANTS
    Writers = {w1}
    Consoles = {}
    Partitions <- OnePartition
    NoMember = NoMember
    BatchSize = 2
    MaxMessages = 0
    StopsWhenIdle = TRUE
    Poison <- PoisonAtEnd
    MaxOffset = 4
    MaxExpired = 1
    MaxDate = 1
    MaxFaults = 1
    Replays = {r1}
    Selected <- OnePartition
    Overwriting = {}
    AllowingGaps = {}
    Absent = Absent
    ReplayDate = 0
INVARIANTS BodiesAsAssumed ReplayHasCommitted
PROPERTIES FaultlessDateReplays
CHECK_DEADLOCK FALSE
