\* Every shuffle, every choice of an original and every place for its copy;
\* publication with a lost answer or an expired message.
SPECIFICATION RunSpec
CONSTANTS
    o1 = o1
    o2 = o2
    Volume = 4
    Scale = 8
    Configs <- SomeRates
    Truncated <- OneProduct
    Orders = {o1, o2}
    NoSource = NoSource
    PartitionFor <- OrderPartitions
    QueueLimit = 2
    RetryLimit = 1
    MaxSends = 2
    MaxFaults = 1
INVARIANTS DuplicatesFollowOriginals DatasetAsPlanned MixAsConfigured DuplicateAfterOriginalInTopic
PROPERTIES AcceptedIsGenerated
CHECK_DEADLOCK FALSE
