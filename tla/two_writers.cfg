\* Two writers and a console share one partition: stale buffers, fencing,
\* overwritten keys, retention overtaking the group.
SPECIFICATION Spec
CONSTANTS
    Writers = {w1, w2}
    Consoles = {c1}
    Partitions = {p1}
    NoMember = NoMember
    BatchSize = 2
    MaxMessages = 0
    StopsWhenIdle = FALSE
    Poison <- NoPoison
    MaxOffset = 2
    MaxExpired = 1
    MaxDate = 0
    MaxFaults = 1
SYMMETRY WriterSymmetry
INVARIANTS CommittedIsVerified IngestionInv StoreInv
PROPERTIES ImplementsPromise
CHECK_DEADLOCK FALSE
