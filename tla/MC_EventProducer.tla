-------------------------- MODULE MC_EventProducer ---------------------------
(* Values for the model-checking runs of EventProducer. *)
EXTENDS EventProducer, TLC

CONSTANTS k1, k2, k3

\* Two keys share a partition, as they do with more orders than partitions.
TwoPartitions == (k1 :> 0) @@ (k2 :> 0) @@ (k3 :> 1)

Order(k) == [key |-> k]
SomeDatasets == {<<Order(k1), Order(k2), Order(k1), Order(k3), Order(k2)>>,
                 <<Order(k3), Order(k1), Order(k3)>>}

=============================================================================
