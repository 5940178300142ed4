---------------------------- MODULE EventProducer -----------------------------
(***************************************************************************)
(* producer/event_producer.py: publish_records hands a generated dataset to *)
(* a Kafka client with a bounded local queue, serves delivery reports as it *)
(* goes, flushes, and main turns the counts into an exit code.              *)
(*                                                                          *)
(* The client's sender thread and the broker are external.  A record is its *)
(* place in the dataset; reports are served by the calling thread only.     *)
(***************************************************************************)
EXTENDS Integers, Sequences, FiniteSets

CONSTANTS
    Datasets,       \* what the generator may hand over, see EventGenerator
    PartitionFor,   \* [keys -> partitions]: the client's partitioner
    QueueLimit,     \* messages the local queue holds (librdkafka)
    RetryLimit,     \* poll-and-retry attempts on a full queue; 10 in the code
    MaxSends,       \* bound: copies of one record a retry can append
    MaxFaults       \* bound: expired messages and failed calls

ASSUME ProducerAssumption ==
    /\ QueueLimit \in Nat \ {0}
    /\ RetryLimit \in Nat
    /\ MaxSends \in Nat
    /\ MaxFaults \in Nat

\* A dataset is a sequence, and every record has a key (order_id) that the
\* partitioner places.
WellKeyed(dataset) ==
    /\ dataset \in Seq({dataset[i] : i \in DOMAIN dataset})
    /\ \A i \in DOMAIN dataset : dataset[i].key \in DOMAIN PartitionFor

ASSUME DatasetAssumption == \A dataset \in Datasets : WellKeyed(dataset)

VARIABLES
    records,        \* Seq of records with a field key: the dataset
    pc,             \* where publish_records is
    next,           \* sequence: the record produce() is called with next
    retries,        \* queue_retry_count
    status,         \* [DOMAIN records -> where the client has the record]
    log,            \* [partitions -> Seq of the records appended]
    success,        \* tracker.success_count
    failure,        \* tracker.failure_count
    undelivered,    \* what flush() returned; 0 before
    code,           \* exit code, or Running
    faults

Running == -1
clientVars == <<pc, next, retries, success, failure, undelivered, code>>
vars == <<records, clientVars, status, log, faults>>

TopicPartitions == {PartitionFor[k] : k \in DOMAIN PartitionFor}
PartitionOf(i) == PartitionFor[records[i].key]
InStatus(S) == {i \in DOMAIN records : status[i] \in S}
Copies(i) == {n \in DOMAIN log[PartitionOf(i)] : log[PartitionOf(i)][n] = i}

\* Messages in the local queue, those whose report nobody has served included.
Outstanding == InStatus({"queued", "acked", "failed"})

Fault == faults < MaxFaults /\ faults' = faults + 1

Exit(c) == pc' = "exited" /\ code' = c

\* PublishResult.succeeded.
SucceededIfNoFailure(left) == failure = 0   \* mutant: reports are not counted
SucceededIfNoneLeft(left) == left = 0       \* mutant: only flush() is asked
Succeeded(left) == failure = 0 /\ left = 0 /\ success = next - 1

-----------------------------------------------------------------------------
Init ==
    /\ pc = "idle" /\ next = 1 /\ retries = 0
    /\ records = << >> /\ status = << >>
    /\ log = [p \in TopicPartitions |-> << >>]
    /\ success = 0 /\ failure = 0 /\ undelivered = 0
    /\ code = Running
    /\ faults = 0

\* main hands the generated dataset to a new client.
Start(dataset) ==
    /\ pc = "idle"
    /\ records' = dataset
    /\ status' = [i \in DOMAIN dataset |-> "new"]
    /\ pc' = IF dataset = << >> THEN "flushing" ELSE "producing"
    /\ UNCHANGED <<log, next, retries, success, failure, undelivered, code, faults>>

\* DeliveryTracker's callbacks, for every report that is waiting.
AfterReport(state) ==
    CASE state = "acked"  -> "delivered"
      [] state = "failed" -> "reported"
      [] OTHER            -> state

ServeReportsUncounted ==                    \* mutant: only failures are counted
    /\ status' = [i \in DOMAIN records |-> AfterReport(status[i])]
    /\ failure' = failure + Cardinality(InStatus({"failed"}))
    /\ UNCHANGED success
ServeReports ==
    /\ status' = [i \in DOMAIN records |-> AfterReport(status[i])]
    /\ success' = success + Cardinality(InStatus({"acked"}))
    /\ failure' = failure + Cardinality(InStatus({"failed"}))

\* produce() takes the record; poll(0) follows.
Produce ==
    /\ pc = "producing"
    /\ next <= Len(records)
    /\ Cardinality(Outstanding) < QueueLimit
    /\ status' = [status EXCEPT ![next] = "queued"]
    /\ next' = next + 1
    /\ retries' = 0
    /\ pc' = "polling"
    /\ UNCHANGED <<records, log, success, failure, undelivered, code, faults>>

\* produce() raises BufferError.  Past the limit publish_records raises and
\* main exits 1 without a flush; before it, poll(0.5) and another try.
CountRetryNever == 1                        \* mutant: counted anew every time
CountRetryTwice == retries + 2              \* mutant
CountRetry == retries + 1

QueueFull ==
    /\ pc = "producing"
    /\ next <= Len(records)
    /\ Cardinality(Outstanding) >= QueueLimit
    /\ retries' = CountRetry
    /\ IF CountRetry > RetryLimit
         THEN Exit(1)
         ELSE pc' = "retrying" /\ UNCHANGED code
    /\ UNCHANGED <<records, status, log, next, success, failure, undelivered,
                   faults>>

\* produce() raises KafkaException, or the client cannot be created.
ProduceFails ==
    /\ pc = "producing"
    /\ next <= Len(records)
    /\ Fault
    /\ Exit(1)
    /\ UNCHANGED <<records, status, log, next, retries, success, failure,
                   undelivered>>

Poll ==
    /\ pc \in {"polling", "retrying"}
    /\ ServeReports
    /\ pc' = IF pc = "polling" /\ next > Len(records) THEN "flushing" ELSE "producing"
    /\ UNCHANGED <<records, log, next, retries, undelivered, code, faults>>

\* flush() serves reports until none is outstanding or its timeout expires.
FlushServes ==
    /\ pc = "flushing"
    /\ InStatus({"acked", "failed"}) # {}
    /\ ServeReports
    /\ UNCHANGED <<records, log, pc, next, retries, undelivered, code, faults>>

\* What flush() returns includes the reports that came in too late for it.
FlushReturns ==
    /\ pc = "flushing"
    /\ undelivered' = Cardinality(Outstanding)
    /\ Exit(IF Succeeded(undelivered') THEN 0 ELSE 1)
    /\ UNCHANGED <<records, status, log, next, retries, success, failure, faults>>

\* KeyboardInterrupt: no flush, exit code 130.
Interrupt ==
    /\ pc \notin {"idle", "exited"}
    /\ Fault
    /\ Exit(130)
    /\ UNCHANGED <<records, status, log, next, retries, success, failure,
                   undelivered>>

-----------------------------------------------------------------------------
(* The sender thread and the broker (external) *)

\* create_kafka_producer's enable.idempotence: the broker drops a retried
\* record it has and takes the records of a partition in order.
NoIdempotence == FALSE                      \* mutant
Idempotence == TRUE

MayAppend(i) ==
    IF Idempotence
      THEN /\ Copies(i) = {}
           /\ \A j \in 1..(i - 1) :
                PartitionOf(j) = PartitionOf(i) /\ status[j] = "queued" => Copies(j) # {}
      ELSE Cardinality(Copies(i)) < MaxSends

\* A request that is under way is carried out, also after the process that
\* sent it has exited.
BrokerAppends(i) ==
    /\ status[i] = "queued"
    /\ MayAppend(i)
    /\ log' = [log EXCEPT ![PartitionOf(i)] = Append(@, i)]
    /\ UNCHANGED <<records, clientVars, status, faults>>

\* acks=all: every in-sync replica has the record.
BrokerAcks(i) ==
    /\ pc # "exited"
    /\ status[i] = "queued"
    /\ Copies(i) # {}
    /\ status' = [status EXCEPT ![i] = "acked"]
    /\ UNCHANGED <<records, clientVars, log, faults>>

\* message.timeout.ms or the retries are used up: appended or not, the record
\* is reported as failed.
MessageExpires(i) ==
    /\ pc # "exited"
    /\ status[i] = "queued"
    /\ Fault
    /\ status' = [status EXCEPT ![i] = "failed"]
    /\ UNCHANGED <<records, clientVars, log>>

-----------------------------------------------------------------------------
Publish ==
    \/ Produce
    \/ QueueFull
    \/ ProduceFails
    \/ Poll
    \/ FlushServes
    \/ FlushReturns
    \/ Interrupt
    \/ \E i \in DOMAIN records : BrokerAppends(i)
    \/ \E i \in DOMAIN records : BrokerAcks(i)
    \/ \E i \in DOMAIN records : MessageExpires(i)

Next == Publish \/ \E dataset \in Datasets : Start(dataset)

Spec == Init /\ [][Next]_vars

\* The calling thread goes on; the broker owes it nothing.
ClientFairness == WF_vars(Produce \/ QueueFull \/ Poll \/ FlushServes \/ FlushReturns)
FairSpec == Spec /\ ClientFairness

-----------------------------------------------------------------------------
(* Properties *)

\* Every variable has its type.
TypeOK ==
    /\ pc \in {"idle", "producing", "polling", "retrying", "flushing", "exited"}
    /\ next \in 1..(Len(records) + 1)
    /\ retries \in 0..(RetryLimit + 1)
    /\ status \in [DOMAIN records -> {"new", "queued", "acked", "failed",
                                      "delivered", "reported"}]
    /\ log \in [TopicPartitions -> Seq(DOMAIN records)]
    /\ success \in 0..Len(records) /\ failure \in 0..Len(records)
    /\ undelivered \in 0..Len(records)
    /\ code \in {Running, 0, 1, 130}
    /\ faults \in 0..MaxFaults

\* Exit code 0 (event_producer.py:716-720) is only given to a run whose whole
\* dataset is in the topic, whatever order the reports came in and however
\* often the local queue was full.
ExitZeroMeansPublished ==
    code = 0 => \A i \in DOMAIN records : Copies(i) # {}

\* The transport never repeats or reorders records of a partition
\* (event_producer.py:437-444), although acknowledgements are lost.
PartitionOrderKept ==
    \A p \in TopicPartitions : \A m, n \in DOMAIN log[p] :
        m < n => log[p][m] < log[p][n]

\* When flush() has returned, each record of the dataset is in exactly one of
\* the three counts of the run summary (event_producer.py:556-567).
EveryRecordIsCounted ==
    code \in {0, 1} /\ next > Len(records) =>
        success + failure + undelivered = Len(records)

\* What the proofs need beside the properties, from the calling thread ...
CallerIsConsistent ==
    /\ pc = "idle" => records = << >> /\ undelivered = 0
    /\ pc = "exited" <=> code # Running
    /\ pc = "flushing" => next > Len(records)
    /\ retries > RetryLimit => pc = "exited"

\* ... from the delivery reports, each counted once and for its own record ...
ReportsAreCounted ==
    /\ \A i \in DOMAIN records : status[i] = "new" <=> i >= next
    /\ success = Cardinality(InStatus({"delivered"}))
    /\ failure = Cardinality(InStatus({"reported"}))
    /\ code \in {0, 1} /\ next > Len(records) => undelivered = Cardinality(Outstanding)
    /\ code = 0 => Succeeded(undelivered) /\ next > Len(records)

\* ... and from the broker: only records that were sent are in the topic, each
\* in its partition, those with an acknowledgement are, and none stands before
\* an earlier one of its partition that is still to be appended.
TopicIsSound ==
    /\ \A p \in TopicPartitions : \A n \in DOMAIN log[p] :
         /\ log[p][n] < next
         /\ PartitionOf(log[p][n]) = p
         /\ \A i \in 1..(log[p][n] - 1) :
              PartitionOf(i) = p /\ status[i] = "queued" => Copies(i) # {}
    /\ \A i \in InStatus({"acked", "delivered"}) : Copies(i) # {}

\* The inductive invariant: after any number of full queues, lost answers and
\* late reports the caller's counts, the client's queue and the topic agree
\* about every record.
ProducerInv ==
    /\ WellKeyed(records)
    /\ TypeOK
    /\ CallerIsConsistent
    /\ ReportsAreCounted
    /\ TopicIsSound
    /\ PartitionOrderKept

\* How the run stands for whoever started it: exit code 0 or another one.
Outcome == CASE code = Running -> "running"
             [] code = 0       -> "success"
             [] OTHER          -> "failure"

\* A run keeps the abstract promise of an ordered publication.
Publication == INSTANCE OrderedPublication WITH
    Partitions <- TopicPartitions,
    length     <- Len(records),
    topic      <- log,
    outcome    <- Outcome
ImplementsPublication == Publication!Spec

\* publish_records ends even if the broker never answers.
ProducerEnds == (pc = "producing") ~> (pc = "exited")

=============================================================================
