------------------------------ MODULE ProducerRun ------------------------------
(***************************************************************************)
(* main of producer/event_producer.py: one run generates a dataset          *)
(* (EventGenerator) and publishes it (EventProducer).  With --dry-run the   *)
(* dataset is written to a file instead and nothing reaches the topic.      *)
(***************************************************************************)
EXTENDS EventGenerator

CONSTANTS
    PartitionFor, QueueLimit, RetryLimit, MaxSends, MaxFaults   \* EventProducer

\* EventProducer's assumptions, and the partitioner places every order.
ASSUME RunAssumption ==
    /\ Orders \subseteq DOMAIN PartitionFor
    /\ QueueLimit \in Nat \ {0}
    /\ RetryLimit \in Nat
    /\ MaxSends \in Nat
    /\ MaxFaults \in Nat

VARIABLES
    records, pc, next, retries, status, log, success,       \* EventProducer
    failure, undelivered, code, faults

Producer == INSTANCE EventProducer WITH Datasets <- {}

generatorVars == <<config, stage, plan, dataset>>
countVars == <<records, next, retries, status, log, success, failure,
               undelivered>>
producerVars == <<countVars, faults, pc, code>>
runVars == <<generatorVars, producerVars>>

RunInit == Init /\ Producer!Init

\* generate() up to its result.
Generate ==
    /\ pc = "idle"
    /\ Next
    /\ UNCHANGED producerVars

Publish ==
    /\ stage = "generated"
    /\ Producer!Start(dataset) \/ Producer!Publish
    /\ UNCHANGED generatorVars

\* --dry-run: write_jsonl, exit code 0 unless the file cannot be written.
DryRun ==
    /\ stage = "generated"
    /\ pc = "idle"
    /\ pc' = "dry"
    /\ \/ code' = 0 /\ UNCHANGED faults
       \/ code' = 1 /\ Producer!Fault
    /\ UNCHANGED <<generatorVars, countVars>>

\* The generator or its configuration raised: exit code 1.
GenerationFails ==
    /\ stage = "failed"
    /\ pc = "idle"
    /\ pc' = "exited"
    /\ code' = 1
    /\ UNCHANGED <<generatorVars, countVars, faults>>

RunNext == Generate \/ Publish \/ DryRun \/ GenerationFails

\* The generator is a plain loop; nothing is asked of the publication here.
RunSpec == RunInit /\ [][RunNext]_runVars /\ WF_runVars(Generate)

-----------------------------------------------------------------------------
(* Properties *)

\* In the topic, as in the dataset, the copy of a record comes after a record
\* it repeats, in the same partition: what lets a later deduplication keep
\* the first one.  Unless the original itself was lost.
DuplicateAfterOriginalInTopic ==
    \A p \in DOMAIN log : \A n \in DOMAIN log[p] :
        LET copy == records[log[p][n]] IN
        copy.scenario = "duplicate" =>
            \/ \E m \in 1..(n - 1) :
                 /\ records[log[p][m]].scenario = "valid"
                 /\ records[log[p][m]].id = copy.source
            \/ \E i \in DOMAIN records :
                 /\ records[i].scenario = "valid"
                 /\ records[i].id = copy.source
                 /\ status[i] \in {"failed", "reported"}

=============================================================================
