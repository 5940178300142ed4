\* A local queue of two messages, lost answers, expired messages, a broker
\* that may never answer.
SPECIFICATION FairSpec
CONSTANTS
    k1 = k1
    k2 = k2
    k3 = k3
    Datasets <- SomeDatasets
    PartitionFor <- TwoPartitions
    QueueLimit = 2
    RetryLimit = 2
    MaxSends = 2
    MaxFaults = 2
INVARIANTS ProducerInv ExitZeroMeansPublished PartitionOrderKept EveryRecordIsCounted
PROPERTIES ProducerEnds ImplementsPublication
CHECK_DEADLOCK FALSE
