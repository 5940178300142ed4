\* Two runs, with and without --overwrite and --allow-gaps, one after the other
\* or at once, while objects are put, overwritten and doubled.
SPECIFICATION Spec
CONSTANTS
    r1 = r1
    r2 = r2
    Replays = {r1, r2}
    Partitions <- TwoPartitions
    Selected <- TwoPartitions
    Overwriting <- SecondRun
    AllowingGaps <- SecondRun
    Absent = Absent
    Ranges <- SomeRanges
    MaxRepeats = 1
    MaxPuts = 3
    MaxFaults = 1
INVARIANTS ReplayInv OutputComplete OutputContiguous TemporaryRemoved ManifestDescribesOutput ManifestWhole
PROPERTIES OverwriteIsAsked ImplementsAtomicReplay
CHECK_DEADLOCK FALSE
