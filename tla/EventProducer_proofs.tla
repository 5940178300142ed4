------------------------- MODULE EventProducer_proofs -------------------------
(***************************************************************************)
(* Proofs about EventProducer for every dataset, partitioner, queue size,   *)
(* retry limit and number of faults.  The invariant has one lemma per       *)
(* action; those of the calling thread share CountsStayConsistent.          *)
(***************************************************************************)
EXTENDS EventProducer, TLAPS, FiniteSetTheorems

\* Finite sets without a common element are counted one after the other.
LEMMA DisjointUnion ==
    ASSUME NEW A, NEW B, IsFiniteSet(A), IsFiniteSet(B), A \cap B = {}
    PROVE  /\ IsFiniteSet(A \cup B)
           /\ Cardinality(A \cup B) = Cardinality(A) + Cardinality(B)
           /\ Cardinality(A) \in Nat /\ Cardinality(B) \in Nat
<1>1. Cardinality(A) \in Nat /\ Cardinality(B) \in Nat
  BY FS_CardinalityType
<1>2. /\ IsFiniteSet(A \cup B)
      /\ Cardinality(A \cup B) = Cardinality(A) + Cardinality(B) - Cardinality(A \cap B)
  BY FS_Union
<1>3. Cardinality(A \cap B) = 0
  BY FS_EmptySet
<1>4. QED
  BY <1>1, <1>2, <1>3

\* A well-formed dataset is a sequence, and its records have a partition.
LEMMA RecordsAreASequence ==
    ASSUME WellKeyed(records)
    PROVE  /\ Len(records) \in Nat
           /\ DOMAIN records = 1..Len(records)
           /\ \A i \in DOMAIN records : PartitionOf(i) \in TopicPartitions
           /\ IsFiniteSet(DOMAIN records)
           /\ Cardinality(DOMAIN records) = Len(records)
<1>1. /\ Len(records) \in Nat
      /\ DOMAIN records = 1..Len(records)
  BY DEF WellKeyed
<1>2. \A i \in DOMAIN records : PartitionOf(i) \in TopicPartitions
  BY DEF WellKeyed, PartitionOf, TopicPartitions
<1>3. QED
  BY <1>1, <1>2, FS_Interval

\* The sets of records the client distinguishes are finite and disjoint.
LEMMA StatusSetsAreFinite ==
    ASSUME WellKeyed(records), NEW S
    PROVE  /\ IsFiniteSet(InStatus(S))
           /\ Cardinality(InStatus(S)) \in 0..Len(records)
           /\ Cardinality(InStatus(S)) = 0 <=> InStatus(S) = {}
           /\ Cardinality(InStatus(S)) = Len(records) => InStatus(S) = DOMAIN records
<1>1. InStatus(S) \in SUBSET DOMAIN records
  BY DEF InStatus
<1>2. QED
  BY <1>1, RecordsAreASequence, FS_Subset, FS_CardinalityType, FS_EmptySet

\* A record is new, outstanding, delivered or reported: the four counts add up.
LEMMA CountsAddUp ==
    ASSUME WellKeyed(records), TypeOK
    PROVE  Len(records) = Cardinality(InStatus({"new"})) + Cardinality(Outstanding)
               + Cardinality(InStatus({"delivered"})) + Cardinality(InStatus({"reported"}))
<1> DEFINE N == InStatus({"new"})
           O == Outstanding
           D == InStatus({"delivered"})
           R == InStatus({"reported"})
<1>1. IsFiniteSet(N) /\ IsFiniteSet(O) /\ IsFiniteSet(D) /\ IsFiniteSet(R)
  BY StatusSetsAreFinite DEF Outstanding
<1>2. /\ N \cap O = {}
      /\ (N \cup O) \cap D = {}
      /\ (N \cup O \cup D) \cap R = {}
      /\ N \cup O \cup D \cup R = DOMAIN records
  <2>1. \A i \in DOMAIN records : status[i] \in {"new", "queued", "acked", "failed",
                                                "delivered", "reported"}
    BY DEF TypeOK
  <2>2. DOMAIN records \subseteq N \cup O \cup D \cup R
    BY <2>1 DEF InStatus, Outstanding
  <2>3. QED
    BY <2>2 DEF InStatus, Outstanding
<1> HIDE DEF N, O, D, R
<1>3. /\ IsFiniteSet(N \cup O)
      /\ Cardinality(N \cup O) = Cardinality(N) + Cardinality(O)
  BY <1>1, <1>2, DisjointUnion
<1>4. /\ IsFiniteSet(N \cup O \cup D)
      /\ Cardinality(N \cup O \cup D) = Cardinality(N \cup O) + Cardinality(D)
  BY <1>1, <1>2, <1>3, DisjointUnion
<1>5. Cardinality(N \cup O \cup D \cup R) = Cardinality(N \cup O \cup D) + Cardinality(R)
  BY <1>1, <1>2, <1>4, DisjointUnion
<1>6. QED
  BY <1>2, <1>3, <1>4, <1>5, RecordsAreASequence DEF N, O, D, R

-----------------------------------------------------------------------------
(* The invariant *)

\* Before the start there is nothing to count and nothing in the topic.
LEMMA InitEstablishesProducerInv == Init => ProducerInv
<1> SUFFICES ASSUME Init
             PROVE  ProducerInv
  OBVIOUS
<1>1. /\ records = << >>
      /\ Len(records) = 0
      /\ DOMAIN records = {}
      /\ WellKeyed(records)
  BY DEF Init, WellKeyed
<1>2. TypeOK
  BY <1>1, ProducerAssumption DEF Init, TypeOK, Running
<1>3. CallerIsConsistent
  BY <1>1, ProducerAssumption DEF Init, CallerIsConsistent, Running
<1>4. /\ InStatus({"acked", "delivered"}) = {}
      /\ Cardinality(InStatus({"delivered"})) = 0
      /\ Cardinality(InStatus({"reported"})) = 0
  BY <1>1, FS_EmptySet DEF InStatus
<1>5. ReportsAreCounted
  BY <1>1, <1>4 DEF Init, ReportsAreCounted, Running
<1>6. \A p \in TopicPartitions : DOMAIN log[p] = {}
  BY DEF Init
<1>7. TopicIsSound /\ PartitionOrderKept
  BY <1>4, <1>6 DEF TopicIsSound, PartitionOrderKept
<1>8. QED
  BY <1>1, <1>2, <1>3, <1>5, <1>7 DEF ProducerInv

\* The topic stays sound in a step that appends nothing, takes at most the next
\* record into the queue and acknowledges only what is in the topic.
LEMMA TopicStaysSound ==
    ASSUME ProducerInv,
           UNCHANGED <<records, log>>,
           next' \in {next, next + 1},
           \A i \in DOMAIN records :
              /\ status'[i] = "queued" => status[i] = "queued" \/ i >= next
              /\ status'[i] \in {"acked", "delivered"} => Copies(i) # {}
    PROVE  TopicIsSound' /\ PartitionOrderKept'
<1>1. /\ Len(records) \in Nat
      /\ DOMAIN records = 1..Len(records)
      /\ next \in Nat
      /\ log \in [TopicPartitions -> Seq(DOMAIN records)]
  BY RecordsAreASequence DEF ProducerInv, TypeOK
<1>2. \A i : Copies(i)' = Copies(i) /\ PartitionOf(i)' = PartitionOf(i)
  BY DEF Copies, PartitionOf
<1>3. PartitionOrderKept'
  BY DEF ProducerInv, PartitionOrderKept
<1>4. ASSUME NEW p \in TopicPartitions, NEW n \in DOMAIN log[p]
      PROVE  /\ log[p][n] < next'
             /\ PartitionOf(log[p][n]) = p
             /\ \A i \in 1..(log[p][n] - 1) :
                  PartitionOf(i) = p /\ status'[i] = "queued" => Copies(i) # {}
  <2>1. log[p][n] \in DOMAIN records
    BY <1>1
  <2>2. /\ log[p][n] < next
        /\ PartitionOf(log[p][n]) = p
        /\ \A i \in 1..(log[p][n] - 1) :
             PartitionOf(i) = p /\ status[i] = "queued" => Copies(i) # {}
    BY DEF ProducerInv, TopicIsSound
  <2>3. log[p][n] \in Nat /\ log[p][n] <= Len(records) /\ log[p][n] < next'
    BY <1>1, <2>1, <2>2
  <2>4. ASSUME NEW i \in 1..(log[p][n] - 1), PartitionOf(i) = p, status'[i] = "queued"
        PROVE  Copies(i) # {}
    <3>1. i \in DOMAIN records /\ i < next
      BY <1>1, <2>2, <2>3
    <3>2. status[i] = "queued"
      BY <1>1, <2>4, <3>1
    <3>3. QED
      BY <2>2, <2>4, <3>2
  <2>5. QED
    BY <2>2, <2>3, <2>4
<1>5. \A i \in InStatus({"acked", "delivered"})' : Copies(i) # {}
  BY DEF InStatus
<1>6. QED
  BY <1>2, <1>3, <1>4, <1>5 DEF TopicIsSound

\* A new client's dataset is in no count and not in the topic.
LEMMA StartKeepsProducerInv ==
    ASSUME ProducerInv, NEW dataset, WellKeyed(dataset), Start(dataset)
    PROVE  ProducerInv'
<1>1. /\ Len(dataset) \in Nat
      /\ DOMAIN dataset = 1..Len(dataset)
      /\ dataset = << >> <=> Len(dataset) = 0
  BY DEF WellKeyed
<1>2. /\ records' = dataset
      /\ status' = [i \in DOMAIN dataset |-> "new"]
      /\ UNCHANGED <<log, next, retries, success, failure, undelivered, code, faults>>
      /\ pc' \in {"producing", "flushing"}
      /\ pc' = "flushing" => dataset = << >>
      /\ WellKeyed(records)'
  BY DEF Start, WellKeyed
<1>3. /\ pc = "idle"
      /\ records = << >>
      /\ Len(records) = 0
      /\ next = 1
      /\ success = 0 /\ failure = 0 /\ undelivered = 0
      /\ code = Running
      /\ ~(retries > RetryLimit)
      /\ faults \in 0..MaxFaults
      /\ retries \in 0..(RetryLimit + 1)
  BY DEF ProducerInv, TypeOK, CallerIsConsistent, Start
<1>4. log = [p \in TopicPartitions |-> << >>]
  <2>1. DOMAIN records = {}
    BY <1>3
  <2>2. log \in [TopicPartitions -> Seq({})]
    BY <2>1 DEF ProducerInv, TypeOK
  <2>3. \A q \in Seq({}) : q = << >>
    OBVIOUS
  <2>4. QED
    BY <2>2, <2>3
<1>5. TypeOK'
  <2>1. log' \in [TopicPartitions -> Seq(DOMAIN dataset)]
    BY <1>2, <1>4
  <2>2. QED
    BY <1>1, <1>2, <1>3, <2>1 DEF TypeOK
<1>6. CallerIsConsistent'
  BY <1>1, <1>2, <1>3 DEF CallerIsConsistent, Running
<1>7. /\ InStatus({"acked", "delivered"})' = {}
      /\ Cardinality(InStatus({"delivered"}))' = 0
      /\ Cardinality(InStatus({"reported"}))' = 0
  <2>1. /\ InStatus({"acked", "delivered"})' = {}
        /\ InStatus({"delivered"})' = {}
        /\ InStatus({"reported"})' = {}
    BY <1>2 DEF InStatus
  <2>2. QED
    BY <2>1, FS_EmptySet
<1>8. ReportsAreCounted'
  <2>1. \A i \in DOMAIN dataset : status'[i] = "new" /\ i >= next'
    BY <1>1, <1>2, <1>3
  <2>2. QED
    BY <1>2, <1>3, <1>7, <2>1 DEF ReportsAreCounted, Running
<1>9. TopicIsSound' /\ PartitionOrderKept'
  <2>1. \A p \in TopicPartitions : DOMAIN log'[p] = {}
    BY <1>2, <1>4
  <2>2. QED
    BY <1>7, <2>1 DEF TopicIsSound, PartitionOrderKept
<1>10. QED
  BY <1>2, <1>5, <1>6, <1>8, <1>9 DEF ProducerInv

\* Serving the waiting reports counts each of them once, and says delivered only
\* of what is in the topic.
LEMMA ServingCountsOnce ==
    ASSUME ProducerInv, ServeReports, code = Running,
           UNCHANGED <<records, log, next, undelivered, code>>
    PROVE  /\ status' \in [DOMAIN records -> {"new", "queued", "acked", "failed",
                                              "delivered", "reported"}]
           /\ success' \in 0..Len(records) /\ failure' \in 0..Len(records)
           /\ ReportsAreCounted'
           /\ TopicIsSound' /\ PartitionOrderKept'
<1> DEFINE D == InStatus({"delivered"})
           A == InStatus({"acked"})
           R == InStatus({"reported"})
           F == InStatus({"failed"})
<1>1. /\ WellKeyed(records)
      /\ \A i \in DOMAIN records :
           status[i] \in {"new", "queued", "acked", "failed", "delivered", "reported"}
      /\ Len(records) \in Nat
      /\ code = Running
      /\ next \in Nat
  BY RecordsAreASequence DEF ProducerInv, TypeOK
<1>2. status' = [i \in DOMAIN records |-> AfterReport(status[i])]
  BY DEF ServeReports
<1>3. /\ status' \in [DOMAIN records -> {"new", "queued", "acked", "failed",
                                         "delivered", "reported"}]
      /\ \A i \in DOMAIN records :
           /\ status'[i] = "new" <=> status[i] = "new"
           /\ status'[i] = "queued" <=> status[i] = "queued"
           /\ status'[i] = "delivered" <=> status[i] \in {"delivered", "acked"}
           /\ status'[i] = "reported" <=> status[i] \in {"reported", "failed"}
           /\ status'[i] # "acked"
  BY <1>1, <1>2 DEF AfterReport
<1>4. /\ D' = D \cup A /\ D \cap A = {}
      /\ R' = R \cup F /\ R \cap F = {}
  BY <1>3 DEF InStatus
<1>5. /\ IsFiniteSet(D) /\ IsFiniteSet(A) /\ IsFiniteSet(R) /\ IsFiniteSet(F)
      /\ Cardinality(D') \in 0..Len(records) /\ Cardinality(R') \in 0..Len(records)
  <2>1. /\ IsFiniteSet(DOMAIN records) /\ Cardinality(DOMAIN records) = Len(records)
    BY <1>1, RecordsAreASequence
  <2>2. D' \in SUBSET DOMAIN records /\ R' \in SUBSET DOMAIN records
    BY DEF InStatus
  <2>3. QED
    BY <1>1, <2>1, <2>2, StatusSetsAreFinite, FS_Subset, FS_CardinalityType
<1>6. /\ success = Cardinality(D) /\ success' = success + Cardinality(A)
      /\ failure = Cardinality(R) /\ failure' = failure + Cardinality(F)
  BY DEF ServeReports, ProducerInv, ReportsAreCounted
<1> HIDE DEF D, A, R, F
<1>7. success' = Cardinality(D') /\ failure' = Cardinality(R')
  BY <1>4, <1>5, <1>6, DisjointUnion
<1>8. ReportsAreCounted'
  <2>1. \A i \in DOMAIN records : status[i] = "new" <=> i >= next
    BY DEF ProducerInv, ReportsAreCounted
  <2>2. QED
    BY <1>1, <1>3, <1>7, <2>1 DEF ReportsAreCounted, Running, D, R
<1>9. TopicIsSound' /\ PartitionOrderKept'
  <2>1. \A i \in InStatus({"acked", "delivered"}) : Copies(i) # {}
    BY DEF ProducerInv, TopicIsSound
  <2>2. \A i \in DOMAIN records :
           /\ status'[i] = "queued" => status[i] = "queued" \/ i >= next
           /\ status'[i] \in {"acked", "delivered"} => Copies(i) # {}
    BY <1>3, <2>1 DEF InStatus
  <2>3. QED
    BY <2>2, TopicStaysSound
<1>10. QED
  BY <1>3, <1>5, <1>7, <1>8, <1>9

\* poll() serves the waiting reports and lets the loop go on.
LEMMA PollKeepsProducerInv ==
    ASSUME ProducerInv, Poll
    PROVE  ProducerInv'
<1>1. /\ ServeReports
      /\ UNCHANGED <<records, log, next, retries, undelivered, code, faults>>
      /\ pc \in {"polling", "retrying"}
      /\ pc' = IF pc = "polling" /\ next > Len(records) THEN "flushing" ELSE "producing"
  BY DEF Poll
<1>2. code = Running /\ ~(retries > RetryLimit)
  BY <1>1 DEF ProducerInv, CallerIsConsistent
<1>3. TypeOK'
  BY <1>1, <1>2, ServingCountsOnce DEF ProducerInv, TypeOK
<1>4. CallerIsConsistent'
  BY <1>1, <1>2 DEF CallerIsConsistent
<1>5. QED
  BY <1>1, <1>2, <1>3, <1>4, ServingCountsOnce DEF ProducerInv, WellKeyed

\* flush() serves the waiting reports until it returns.
LEMMA FlushServesKeepsProducerInv ==
    ASSUME ProducerInv, FlushServes
    PROVE  ProducerInv'
<1>1. /\ ServeReports
      /\ UNCHANGED <<records, log, pc, next, retries, undelivered, code, faults>>
      /\ pc = "flushing"
  BY DEF FlushServes
<1>2. code = Running
  BY <1>1 DEF ProducerInv, CallerIsConsistent
<1>3. TypeOK'
  BY <1>1, <1>2, ServingCountsOnce DEF ProducerInv, TypeOK
<1>4. CallerIsConsistent'
  BY <1>1 DEF ProducerInv, CallerIsConsistent
<1>5. QED
  BY <1>1, <1>2, <1>3, <1>4, ServingCountsOnce DEF ProducerInv, WellKeyed

\* produce() takes one record, the first that is new.
LEMMA ProduceKeepsProducerInv ==
    ASSUME ProducerInv, Produce
    PROVE  ProducerInv'
<1>1. /\ pc = "producing" /\ pc' = "polling"
      /\ next <= Len(records)
      /\ status' = [status EXCEPT ![next] = "queued"]
      /\ next' = next + 1
      /\ retries' = 0
      /\ UNCHANGED <<records, log, success, failure, undelivered, code, faults>>
  BY DEF Produce
<1>2. /\ Len(records) \in Nat /\ DOMAIN records = 1..Len(records)
      /\ next \in 1..(Len(records) + 1)
      /\ next \in DOMAIN records
      /\ status \in [DOMAIN records -> {"new", "queued", "acked", "failed",
                                        "delivered", "reported"}]
      /\ code = Running
      /\ \A i \in DOMAIN records : status[i] = "new" <=> i >= next
  <2>1. /\ Len(records) \in Nat /\ DOMAIN records = 1..Len(records)
        /\ next \in 1..(Len(records) + 1)
    BY RecordsAreASequence DEF ProducerInv, TypeOK
  <2>2. code = Running /\ \A i \in DOMAIN records : status[i] = "new" <=> i >= next
    BY <1>1 DEF ProducerInv, CallerIsConsistent, ReportsAreCounted
  <2>3. status \in [DOMAIN records -> {"new", "queued", "acked", "failed",
                                        "delivered", "reported"}]
    BY DEF ProducerInv, TypeOK
  <2>4. QED
    BY <1>1, <2>1, <2>2, <2>3
<1>3. \A i \in DOMAIN records : status'[i] = IF i = next THEN "queued" ELSE status[i]
  BY <1>1, <1>2
<1>4. TypeOK'
  <2>1. status' \in [DOMAIN records -> {"new", "queued", "acked", "failed",
                                        "delivered", "reported"}]
    BY <1>1, <1>2
  <2>2. next' \in 1..(Len(records) + 1) /\ retries' \in 0..(RetryLimit + 1)
    BY <1>1, <1>2, ProducerAssumption
  <2>3. QED
    BY <1>1, <2>1, <2>2 DEF ProducerInv, TypeOK
<1>5. CallerIsConsistent'
  BY <1>1, <1>2, ProducerAssumption DEF CallerIsConsistent, Running
<1>6. /\ InStatus({"delivered"})' = InStatus({"delivered"})
      /\ InStatus({"reported"})' = InStatus({"reported"})
  BY <1>1, <1>2, <1>3 DEF InStatus
<1>7. ReportsAreCounted'
  <2>1. \A i \in DOMAIN records : status'[i] = "new" <=> i >= next + 1
    BY <1>2, <1>3
  <2>2. QED
    BY <1>1, <1>2, <1>6, <2>1 DEF ProducerInv, ReportsAreCounted, Running
<1>8. TopicIsSound' /\ PartitionOrderKept'
  <2>1. \A i \in InStatus({"acked", "delivered"}) : Copies(i) # {}
    BY DEF ProducerInv, TopicIsSound
  <2>2. \A i \in DOMAIN records :
           /\ status'[i] = "queued" => status[i] = "queued" \/ i >= next
           /\ status'[i] \in {"acked", "delivered"} => Copies(i) # {}
    BY <1>2, <1>3, <2>1 DEF InStatus
  <2>3. QED
    BY <1>1, <2>2, TopicStaysSound
<1>9. QED
  BY <1>1, <1>4, <1>5, <1>7, <1>8 DEF ProducerInv, WellKeyed

\* A step that leaves the records, their states and the topic alone keeps the
\* counts, if the exit code it sets is one the counts allow.
LEMMA EndingIsConsistent ==
    ASSUME ProducerInv,
           UNCHANGED <<records, status, log, next, success, failure>>,
           code' \in {0, 1} /\ next > Len(records) =>
               undelivered' = Cardinality(Outstanding),
           code' = 0 => /\ failure = 0 /\ undelivered' = 0
                        /\ success = next - 1
                        /\ next > Len(records)
    PROVE  WellKeyed(records)' /\ ReportsAreCounted' /\ TopicIsSound' /\ PartitionOrderKept'
<1>1. /\ InStatus({"delivered"})' = InStatus({"delivered"})
      /\ InStatus({"reported"})' = InStatus({"reported"})
      /\ Outstanding' = Outstanding
  BY DEF InStatus, Outstanding
<1>2. ReportsAreCounted'
  BY <1>1 DEF ProducerInv, ReportsAreCounted, Succeeded
<1>3. TopicIsSound' /\ PartitionOrderKept'
  <2>1. \A i \in InStatus({"acked", "delivered"}) : Copies(i) # {}
    BY DEF ProducerInv, TopicIsSound
  <2>2. \A i \in DOMAIN records :
           /\ status'[i] = "queued" => status[i] = "queued" \/ i >= next
           /\ status'[i] \in {"acked", "delivered"} => Copies(i) # {}
    BY <2>1 DEF InStatus
  <2>3. QED
    BY <2>2, TopicStaysSound
<1>4. QED
  BY <1>2, <1>3 DEF ProducerInv, WellKeyed

\* A full queue is either waited for or, past the limit, the end of the run.
LEMMA QueueFullKeepsProducerInv ==
    ASSUME ProducerInv, QueueFull
    PROVE  ProducerInv'
<1>1. /\ pc = "producing" /\ next <= Len(records)
      /\ retries' = retries + 1
      /\ \/ retries + 1 > RetryLimit /\ pc' = "exited" /\ code' = 1
         \/ ~(retries + 1 > RetryLimit) /\ pc' = "retrying" /\ code' = code
      /\ UNCHANGED <<records, status, log, next, success, failure, undelivered, faults>>
  BY DEF QueueFull, CountRetry, Exit
<1>2. /\ code = Running /\ ~(retries > RetryLimit) /\ retries \in 0..(RetryLimit + 1)
      /\ Len(records) \in Nat /\ next \in Nat
  <2>1. code = Running /\ ~(retries > RetryLimit)
    BY <1>1 DEF ProducerInv, CallerIsConsistent
  <2>2. QED
    BY <2>1, RecordsAreASequence DEF ProducerInv, TypeOK
<1>3. TypeOK'
  <2>1. retries' \in 0..(RetryLimit + 1)
    BY <1>1, <1>2, ProducerAssumption
  <2>2. QED
    BY <1>1, <1>2, <2>1 DEF ProducerInv, TypeOK
<1>4. CallerIsConsistent'
  BY <1>1, <1>2, ProducerAssumption DEF CallerIsConsistent, Running
<1>5. QED
  <2>1. ~(next > Len(records)) /\ code' # 0
    BY <1>1, <1>2 DEF Running
  <2>2. QED
    BY <1>1, <1>3, <1>4, <2>1, EndingIsConsistent DEF ProducerInv

\* A failed produce() ends the run.
LEMMA ProduceFailsKeepsProducerInv ==
    ASSUME ProducerInv, ProduceFails
    PROVE  ProducerInv'
<1>1. /\ next <= Len(records)
      /\ pc' = "exited" /\ code' = 1
      /\ faults < MaxFaults /\ faults' = faults + 1
      /\ UNCHANGED <<records, status, log, next, retries, success, failure, undelivered>>
  BY DEF ProduceFails, Exit, Fault
<1>2. Len(records) \in Nat /\ next \in Nat
  BY RecordsAreASequence DEF ProducerInv, TypeOK
<1>3. TypeOK'
  BY <1>1, ProducerAssumption DEF ProducerInv, TypeOK
<1>4. CallerIsConsistent'
  BY <1>1 DEF CallerIsConsistent, Running
<1>5. QED
  <2>1. ~(next > Len(records)) /\ code' # 0
    BY <1>1, <1>2
  <2>2. QED
    BY <1>1, <1>3, <1>4, <2>1, EndingIsConsistent DEF ProducerInv

\* The exit code of a flushed run is decided from the counts.
LEMMA FlushReturnsKeepsProducerInv ==
    ASSUME ProducerInv, FlushReturns
    PROVE  ProducerInv'
<1>1. /\ pc = "flushing" /\ pc' = "exited"
      /\ undelivered' = Cardinality(Outstanding)
      /\ code' = IF Succeeded(undelivered') THEN 0 ELSE 1
      /\ UNCHANGED <<records, status, log, next, retries, success, failure, faults>>
  BY DEF FlushReturns, Exit
<1>2. next > Len(records)
  BY <1>1 DEF ProducerInv, CallerIsConsistent
<1>3. undelivered' \in 0..Len(records)
  BY <1>1, StatusSetsAreFinite DEF ProducerInv, Outstanding
<1>4. TypeOK'
  BY <1>1, <1>3 DEF ProducerInv, TypeOK
<1>5. CallerIsConsistent'
  BY <1>1 DEF CallerIsConsistent, Running
<1>6. QED
  <2>1. code' = 0 => failure = 0 /\ undelivered' = 0 /\ success = next - 1
    BY <1>1 DEF Succeeded
  <2>2. QED
    BY <1>1, <1>2, <1>4, <1>5, <2>1, EndingIsConsistent DEF ProducerInv

\* Ctrl-C ends the run in any state.
LEMMA InterruptKeepsProducerInv ==
    ASSUME ProducerInv, Interrupt
    PROVE  ProducerInv'
<1>1. /\ pc # "exited" /\ pc' = "exited" /\ code' = 130
      /\ faults < MaxFaults /\ faults' = faults + 1
      /\ UNCHANGED <<records, status, log, next, retries, success, failure, undelivered>>
  BY DEF Interrupt, Exit, Fault
<1>2. TypeOK'
  BY <1>1, ProducerAssumption DEF ProducerInv, TypeOK
<1>3. CallerIsConsistent'
  BY <1>1 DEF ProducerInv, CallerIsConsistent, Running
<1>4. QED
  BY <1>1, <1>2, <1>3, EndingIsConsistent DEF ProducerInv

-----------------------------------------------------------------------------
(* Steps of the client's sender thread and of the broker *)

\* Neither an acknowledgement nor an expiry is counted before it is served.
LEMMA ReportIsNotCountedYet ==
    ASSUME ProducerInv, pc # "exited", NEW i \in DOMAIN records, status[i] = "queued",
           NEW state \in {"acked", "failed"},
           state = "acked" => Copies(i) # {},
           status' = [status EXCEPT ![i] = state],
           UNCHANGED <<records, log, pc, next, retries, success, failure,
                       undelivered, code>>
    PROVE  /\ status' \in [DOMAIN records -> {"new", "queued", "acked", "failed",
                                              "delivered", "reported"}]
           /\ WellKeyed(records)' /\ CallerIsConsistent' /\ ReportsAreCounted'
           /\ TopicIsSound' /\ PartitionOrderKept'
<1>1. status \in [DOMAIN records -> {"new", "queued", "acked", "failed",
                                     "delivered", "reported"}]
  BY DEF ProducerInv, TypeOK
<1>2. /\ status' \in [DOMAIN records -> {"new", "queued", "acked", "failed",
                                         "delivered", "reported"}]
      /\ \A j \in DOMAIN records : status'[j] = IF j = i THEN state ELSE status[j]
  BY <1>1
<1>3. /\ InStatus({"delivered"})' = InStatus({"delivered"})
      /\ InStatus({"reported"})' = InStatus({"reported"})
  BY <1>2 DEF InStatus
<1>4. code = Running
  BY DEF ProducerInv, CallerIsConsistent
<1>5. ReportsAreCounted'
  <2>1. \A j \in DOMAIN records : status'[j] = "new" <=> j >= next
    BY <1>2 DEF ProducerInv, ReportsAreCounted
  <2>2. QED
    BY <1>3, <1>4, <2>1 DEF ProducerInv, ReportsAreCounted, Running
<1>6. TopicIsSound' /\ PartitionOrderKept'
  <2>1. \A j \in InStatus({"acked", "delivered"}) : Copies(j) # {}
    BY DEF ProducerInv, TopicIsSound
  <2>2. \A j \in DOMAIN records :
           /\ status'[j] = "queued" => status[j] = "queued" \/ j >= next
           /\ status'[j] \in {"acked", "delivered"} => Copies(j) # {}
    BY <1>2, <2>1 DEF InStatus
  <2>3. QED
    BY <2>2, TopicStaysSound
<1>7. CallerIsConsistent' /\ WellKeyed(records)'
  BY DEF ProducerInv, CallerIsConsistent, WellKeyed
<1>8. QED
  BY <1>2, <1>5, <1>6, <1>7

\* An acknowledgement waits to be served.
LEMMA BrokerAcksKeepsProducerInv ==
    ASSUME ProducerInv, NEW i \in DOMAIN records, BrokerAcks(i)
    PROVE  ProducerInv'
<1>1. /\ pc # "exited" /\ status[i] = "queued" /\ Copies(i) # {}
      /\ status' = [status EXCEPT ![i] = "acked"]
      /\ UNCHANGED <<records, pc, next, retries, success, failure, undelivered, code,
                     log, faults>>
  BY DEF BrokerAcks, clientVars
<1>2. /\ status' \in [DOMAIN records -> {"new", "queued", "acked", "failed",
                                         "delivered", "reported"}]
      /\ WellKeyed(records)' /\ CallerIsConsistent' /\ ReportsAreCounted'
      /\ TopicIsSound' /\ PartitionOrderKept'
  BY <1>1, ReportIsNotCountedYet
<1>3. TypeOK'
  BY <1>1, <1>2 DEF ProducerInv, TypeOK
<1>4. QED
  BY <1>2, <1>3 DEF ProducerInv

\* A message expires, whether the broker has appended it or not.
LEMMA MessageExpiresKeepsProducerInv ==
    ASSUME ProducerInv, NEW i \in DOMAIN records, MessageExpires(i)
    PROVE  ProducerInv'
<1>1. /\ pc # "exited" /\ status[i] = "queued"
      /\ status' = [status EXCEPT ![i] = "failed"]
      /\ faults < MaxFaults /\ faults' = faults + 1
      /\ UNCHANGED <<records, pc, next, retries, success, failure, undelivered, code, log>>
  BY DEF MessageExpires, clientVars, Fault
<1>2. /\ status' \in [DOMAIN records -> {"new", "queued", "acked", "failed",
                                         "delivered", "reported"}]
      /\ WellKeyed(records)' /\ CallerIsConsistent' /\ ReportsAreCounted'
      /\ TopicIsSound' /\ PartitionOrderKept'
  BY <1>1, ReportIsNotCountedYet
<1>3. TypeOK'
  BY <1>1, <1>2, ProducerAssumption DEF ProducerInv, TypeOK
<1>4. QED
  BY <1>2, <1>3 DEF ProducerInv

\* With idempotence the broker appends a record behind earlier ones only, and
\* only if the topic does not have it.
LEMMA AppendIsInOrder ==
    ASSUME ProducerInv, NEW i \in DOMAIN records, BrokerAppends(i)
    PROVE  /\ \A p \in TopicPartitions : \A n \in DOMAIN log[p] : log[p][n] # i
           /\ \A n \in DOMAIN log[PartitionOf(i)] : log[PartitionOf(i)][n] < i
<1> DEFINE q == PartitionOf(i)
<1>1. status[i] = "queued" /\ Copies(i) = {}
  BY DEF BrokerAppends, MayAppend, Idempotence
<1>2. /\ Len(records) \in Nat
      /\ DOMAIN records = 1..Len(records)
      /\ q \in TopicPartitions
      /\ \A p \in TopicPartitions : \A n \in DOMAIN log[p] : log[p][n] \in DOMAIN records
  BY RecordsAreASequence DEF ProducerInv, TypeOK
<1>3. ASSUME NEW p \in TopicPartitions, NEW n \in DOMAIN log[p]
      PROVE  log[p][n] # i
  BY <1>1 DEF ProducerInv, TopicIsSound, Copies
<1>4. ASSUME NEW n \in DOMAIN log[q]
      PROVE  log[q][n] < i
  <2>1. log[q][n] # i /\ log[q][n] \in 1..Len(records) /\ i \in 1..Len(records)
    BY <1>2, <1>3
  <2>2. ~(i < log[q][n])
    <3>1. \A j \in 1..(log[q][n] - 1) :
             PartitionOf(j) = q /\ status[j] = "queued" => Copies(j) # {}
      BY <1>2 DEF ProducerInv, TopicIsSound
    <3>2. QED
      BY <1>1, <2>1, <3>1
  <2>3. QED
    BY <2>1, <2>2
<1>5. QED
  BY <1>3, <1>4

\* The broker appends the first record of a partition that it does not have.
LEMMA BrokerAppendsKeepsProducerInv ==
    ASSUME ProducerInv, NEW i \in DOMAIN records, BrokerAppends(i)
    PROVE  ProducerInv'
<1> DEFINE q == PartitionOf(i)
<1>1. /\ status[i] = "queued"
      /\ \A j \in 1..(i - 1) : PartitionOf(j) = q /\ status[j] = "queued" => Copies(j) # {}
      /\ log' = [log EXCEPT ![q] = Append(@, i)]
      /\ UNCHANGED <<records, pc, next, retries, success, failure, undelivered, code,
                     status, faults>>
  BY DEF BrokerAppends, MayAppend, Idempotence, clientVars
<1>2. /\ Len(records) \in Nat
      /\ DOMAIN records = 1..Len(records)
      /\ q \in TopicPartitions
      /\ log \in [TopicPartitions -> Seq(DOMAIN records)]
      /\ next \in Nat /\ i < next
  <2>1. /\ Len(records) \in Nat
        /\ DOMAIN records = 1..Len(records)
        /\ q \in TopicPartitions
        /\ log \in [TopicPartitions -> Seq(DOMAIN records)]
        /\ next \in Nat
    BY RecordsAreASequence DEF ProducerInv, TypeOK
  <2>2. status[i] = "new" <=> i >= next
    BY DEF ProducerInv, ReportsAreCounted
  <2>3. QED
    BY <1>1, <2>1, <2>2
<1>3. /\ log' \in [TopicPartitions -> Seq(DOMAIN records)]
      /\ \A p \in TopicPartitions : p # q => log'[p] = log[p]
      /\ log'[q] = Append(log[q], i)
  BY <1>1, <1>2
<1>4. /\ Len(log[q]) \in Nat
      /\ DOMAIN log[q] = 1..Len(log[q])
      /\ DOMAIN log'[q] = 1..(Len(log[q]) + 1)
      /\ \A n \in DOMAIN log[q] : log'[q][n] = log[q][n]
      /\ log'[q][Len(log[q]) + 1] = i
  BY <1>2, <1>3
<1>5. \A j : PartitionOf(j)' = PartitionOf(j)
  BY <1>1 DEF PartitionOf
<1>6. \A j \in DOMAIN records : Copies(j) # {} => Copies(j)' # {}
  <2> SUFFICES ASSUME NEW j \in DOMAIN records, Copies(j) # {}
               PROVE  Copies(j)' # {}
    OBVIOUS
  <2>1. PICK n \in DOMAIN log[PartitionOf(j)] : log[PartitionOf(j)][n] = j
    BY DEF Copies
  <2>2. PartitionOf(j) \in TopicPartitions
    BY RecordsAreASequence DEF ProducerInv
  <2>3. n \in DOMAIN log'[PartitionOf(j)] /\ log'[PartitionOf(j)][n] = j
    BY <1>3, <1>4, <2>1, <2>2
  <2>4. QED
    BY <1>5, <2>3 DEF Copies
<1>7. TypeOK' /\ CallerIsConsistent' /\ WellKeyed(records)'
  BY <1>1, <1>3 DEF ProducerInv, TypeOK, CallerIsConsistent, WellKeyed
<1>8. ReportsAreCounted'
  BY <1>1 DEF ProducerInv, ReportsAreCounted, InStatus, Outstanding, Succeeded
<1>9. TopicIsSound'
  <2>1. ASSUME NEW p \in TopicPartitions, NEW n \in DOMAIN log'[p]
        PROVE  /\ log'[p][n] < next
               /\ PartitionOf(log'[p][n]) = p
               /\ \A j \in 1..(log'[p][n] - 1) :
                    PartitionOf(j) = p /\ status[j] = "queued" => Copies(j)' # {}
    <3>1. CASE n \in DOMAIN log[p] /\ log'[p][n] = log[p][n]
      <4>1. log[p][n] \in DOMAIN records
        BY <1>2, <3>1
      <4>2. \A j \in 1..(log[p][n] - 1) : j \in DOMAIN records
        BY <1>2, <4>1
      <4>3. /\ log[p][n] < next
            /\ PartitionOf(log[p][n]) = p
            /\ \A j \in 1..(log[p][n] - 1) :
                 PartitionOf(j) = p /\ status[j] = "queued" => Copies(j) # {}
        BY <3>1 DEF ProducerInv, TopicIsSound
      <4>4. QED
        BY <1>6, <3>1, <4>2, <4>3
    <3>2. CASE p = q /\ n = Len(log[q]) + 1
      <4>1. \A j \in 1..(i - 1) : j \in DOMAIN records
        BY <1>2
      <4>2. log'[p][n] = i
        BY <1>4, <3>2
      <4>3. QED
        BY <1>1, <1>2, <1>6, <3>2, <4>1, <4>2
    <3>3. p # q => n \in DOMAIN log[p] /\ log'[p][n] = log[p][n]
      BY <1>3
    <3>4. p = q => \/ n \in DOMAIN log[p] /\ log'[p][n] = log[p][n]
                   \/ n = Len(log[q]) + 1
      BY <1>4
    <3>5. QED
      BY <3>1, <3>2, <3>3, <3>4
  <2>2. \A j \in InStatus({"acked", "delivered"}) : Copies(j)' # {}
    <3>1. \A j \in InStatus({"acked", "delivered"}) : j \in DOMAIN records /\ Copies(j) # {}
      BY DEF ProducerInv, TopicIsSound, InStatus
    <3>2. QED
      BY <1>6, <3>1
  <2>3. InStatus({"acked", "delivered"})' = InStatus({"acked", "delivered"})
    BY <1>1 DEF InStatus
  <2>4. QED
    BY <1>1, <1>5, <2>1, <2>2, <2>3 DEF TopicIsSound
<1>10. PartitionOrderKept'
  <2> SUFFICES ASSUME NEW p \in TopicPartitions,
                      NEW m \in DOMAIN log'[p], NEW n \in DOMAIN log'[p], m < n
               PROVE  log'[p][m] < log'[p][n]
    BY <1>1 DEF PartitionOrderKept
  <2>1. CASE p # q
    BY <1>3, <2>1 DEF ProducerInv, PartitionOrderKept
  <2>2. CASE p = q /\ n \in DOMAIN log[q]
    <3>1. m \in DOMAIN log[q]
      BY <1>4, <2>2
    <3>2. log[q][m] < log[q][n]
      BY <1>2, <2>2, <3>1 DEF ProducerInv, PartitionOrderKept
    <3>3. QED
      BY <1>4, <2>2, <3>1, <3>2
  <2>3. CASE p = q /\ n = Len(log[q]) + 1
    <3>1. m \in DOMAIN log[q]
      BY <1>4, <2>3
    <3>2. QED
      BY <1>4, <2>3, <3>1, AppendIsInOrder
  <2>4. QED
    BY <1>4, <2>1, <2>2, <2>3
<1>11. QED
  BY <1>7, <1>8, <1>9, <1>10 DEF ProducerInv

-----------------------------------------------------------------------------
(* Theorems *)

\* Every step of the run keeps the invariant.
LEMMA NextKeepsProducerInv ==
    ASSUME ProducerInv, [Next]_vars
    PROVE  ProducerInv'
<1>1. CASE Publish
  <2>1. CASE Produce                        BY <2>1, ProduceKeepsProducerInv
  <2>2. CASE QueueFull                      BY <2>2, QueueFullKeepsProducerInv
  <2>3. CASE ProduceFails                   BY <2>3, ProduceFailsKeepsProducerInv
  <2>4. CASE Poll                           BY <2>4, PollKeepsProducerInv
  <2>5. CASE FlushServes                    BY <2>5, FlushServesKeepsProducerInv
  <2>6. CASE FlushReturns                   BY <2>6, FlushReturnsKeepsProducerInv
  <2>7. CASE Interrupt                      BY <2>7, InterruptKeepsProducerInv
  <2>8. CASE \E i \in DOMAIN records : BrokerAppends(i)
    BY <2>8, BrokerAppendsKeepsProducerInv
  <2>9. CASE \E i \in DOMAIN records : BrokerAcks(i)
    BY <2>9, BrokerAcksKeepsProducerInv
  <2>10. CASE \E i \in DOMAIN records : MessageExpires(i)
    BY <2>10, MessageExpiresKeepsProducerInv
  <2>11. QED
    BY <1>1, <2>1, <2>2, <2>3, <2>4, <2>5, <2>6, <2>7, <2>8, <2>9, <2>10 DEF Publish
<1>2. CASE \E dataset \in Datasets : Start(dataset)
  BY <1>2, StartKeepsProducerInv, DatasetAssumption
<1>3. CASE UNCHANGED vars
  <2>1. UNCHANGED <<records, pc, next, retries, success, failure, undelivered, code,
                    status, log, faults>>
    BY <1>3 DEF vars, clientVars
  <2>2. TypeOK' /\ CallerIsConsistent'
    BY <2>1 DEF ProducerInv, TypeOK, CallerIsConsistent
  <2>3. WellKeyed(records)' /\ ReportsAreCounted' /\ TopicIsSound' /\ PartitionOrderKept'
    BY <2>1, EndingIsConsistent DEF ProducerInv, ReportsAreCounted, Succeeded
  <2>4. QED
    BY <2>2, <2>3 DEF ProducerInv
<1>4. QED
  BY <1>1, <1>2, <1>3 DEF Next

\* The caller's counts, the client's queue and the topic agree in every
\* reachable state (publish_records and DeliveryTracker).
THEOREM ProducerInvHolds == Spec => []ProducerInv
<1>1. ProducerInv /\ [Next]_vars => ProducerInv'
  BY NextKeepsProducerInv
<1>2. QED
  BY InitEstablishesProducerInv, <1>1, PTL DEF Spec

\* Every variable has its type.
THEOREM TypeCorrect == Spec => []TypeOK
<1>1. ProducerInv => TypeOK
  BY DEF ProducerInv
<1>2. QED
  BY <1>1, ProducerInvHolds, PTL

\* The transport keeps the order of each partition and repeats nothing, for
\* every partitioner and queue size (create_kafka_producer's idempotence).
THEOREM OrderIsKept == Spec => []PartitionOrderKept
<1>1. ProducerInv => PartitionOrderKept
  BY DEF ProducerInv
<1>2. QED
  BY <1>1, ProducerInvHolds, PTL

\* A run that flushed has no new record left, so three counts are the dataset.
LEMMA FlushedRunIsCounted == ProducerInv => EveryRecordIsCounted
<1> SUFFICES ASSUME ProducerInv, code \in {0, 1}, next > Len(records)
             PROVE  success + failure + undelivered = Len(records)
  BY DEF EveryRecordIsCounted
<1>1. WellKeyed(records) /\ TypeOK
  BY DEF ProducerInv
<1>2. /\ success = Cardinality(InStatus({"delivered"}))
      /\ failure = Cardinality(InStatus({"reported"}))
      /\ undelivered = Cardinality(Outstanding)
      /\ success \in Nat /\ failure \in Nat /\ undelivered \in Nat
  BY DEF ProducerInv, ReportsAreCounted, TypeOK
<1>3. InStatus({"new"}) = {}
  <2>1. \A i \in DOMAIN records : i <= Len(records) /\ (status[i] = "new" <=> i >= next)
    BY <1>1, RecordsAreASequence DEF ProducerInv, ReportsAreCounted
  <2>2. \A i \in DOMAIN records : status[i] # "new"
    BY <1>1, <2>1, RecordsAreASequence DEF TypeOK
  <2>3. QED
    BY <2>2 DEF InStatus
<1>4. Cardinality(InStatus({"new"})) = 0
  BY <1>3, FS_EmptySet
<1>5. QED
  BY <1>1, <1>2, <1>4, CountsAddUp

\* Each record is in exactly one count of the run summary, however often the
\* queue was full and however late the reports came (event_producer.py:556-567).
THEOREM RecordsAreCounted == Spec => []EveryRecordIsCounted
BY FlushedRunIsCounted, ProducerInvHolds, PTL

\* With every record counted as delivered, every record is in the topic.
LEMMA SuccessIsPublished == ProducerInv => ExitZeroMeansPublished
<1> SUFFICES ASSUME ProducerInv, code = 0, NEW i \in DOMAIN records
             PROVE  Copies(i) # {}
  BY DEF ExitZeroMeansPublished
<1>1. /\ success = next - 1 /\ next > Len(records)
      /\ success = Cardinality(InStatus({"delivered"}))
  BY DEF ProducerInv, ReportsAreCounted, Succeeded
<1>2. success = Len(records)
  BY <1>1, RecordsAreASequence DEF ProducerInv, TypeOK
<1>3. InStatus({"delivered"}) = DOMAIN records
  BY <1>1, <1>2, StatusSetsAreFinite DEF ProducerInv
<1>4. QED
  BY <1>3 DEF ProducerInv, TopicIsSound, InStatus

\* Exit code 0 means that the whole dataset is in the topic
\* (event_producer.py:716-720).
THEOREM ExitZeroIsTrue == Spec => []ExitZeroMeansPublished
BY SuccessIsPublished, ProducerInvHolds, PTL

-----------------------------------------------------------------------------
(* Refinement *)

\* The mapping changes with the dataset, the topic and the exit code alone.
LEMMA StepsOutsideTheMapping ==
    ASSUME UNCHANGED <<records, log, code>>
    PROVE  UNCHANGED Publication!vars
BY DEF Publication!vars, Outcome

\* A run that ends is the abstract end with the same outcome: success only
\* when everything is published.
LEMMA EndingStep ==
    ASSUME ProducerInv, ExitZeroMeansPublished', pc # "exited", code' \in {0, 1, 130},
           UNCHANGED <<records, log>>
    PROVE  Publication!Succeed \/ Publication!Fail
<1>1. code = Running
  BY DEF ProducerInv, CallerIsConsistent
<1>2. Outcome = "running"
  BY <1>1 DEF Outcome, Running
<1>3. CASE code' = 0
  <2>1. Outcome' = "success"
    BY <1>3 DEF Outcome, Running
  <2>2. \A i \in 1..Len(records) : Publication!Published(i)
    <3> SUFFICES ASSUME NEW i \in 1..Len(records)
                 PROVE  \E p \in TopicPartitions : \E n \in DOMAIN log[p] : log[p][n] = i
      BY DEF Publication!Published
    <3>1. i \in DOMAIN records /\ PartitionOf(i) \in TopicPartitions
      BY RecordsAreASequence DEF ProducerInv
    <3>2. Copies(i)' # {}
      BY <1>3, <3>1 DEF ExitZeroMeansPublished
    <3>3. Copies(i) # {}
      BY <3>2 DEF Copies, PartitionOf
    <3>4. QED
      BY <3>1, <3>3 DEF Copies
  <2>3. QED
    BY <1>2, <2>1, <2>2 DEF Publication!Succeed
<1>4. CASE code' # 0
  <2>1. Outcome' = "failure"
    BY <1>4 DEF Outcome, Running
  <2>2. QED
    BY <1>2, <2>1 DEF Publication!Fail
<1>5. QED
  BY <1>3, <1>4

\* An append is a delivery: of a record that is not in the topic, behind earlier
\* ones.
LEMMA DeliveryStep ==
    ASSUME ProducerInv, NEW i \in DOMAIN records, BrokerAppends(i)
    PROVE  Publication!Deliver(PartitionOf(i))
<1>1. /\ log' = [log EXCEPT ![PartitionOf(i)] = Append(@, i)]
      /\ UNCHANGED <<records, code>>
  BY DEF BrokerAppends, clientVars
<1>2. i \in 1..Len(records)
  BY RecordsAreASequence DEF ProducerInv
<1>3. ~Publication!Published(i)
  BY AppendIsInOrder DEF Publication!Published
<1>4. \A n \in DOMAIN log[PartitionOf(i)] : log[PartitionOf(i)][n] < i
  BY AppendIsInOrder
<1>5. UNCHANGED <<Len(records), Outcome>>
  BY <1>1 DEF Outcome
<1>6. QED
  BY <1>1, <1>2, <1>3, <1>4, <1>5 DEF Publication!Deliver

\* Each step of the run is a step of the abstract publication, or none.
LEMMA StepSimulation ==
    ASSUME ProducerInv, ExitZeroMeansPublished', [Next]_vars
    PROVE  [Publication!Next]_(Publication!vars)
<1>1. CASE Produce \/ Poll \/ FlushServes
           \/ (\E i \in DOMAIN records : BrokerAcks(i) \/ MessageExpires(i))
  <2>1. UNCHANGED <<records, log, code>>
    BY <1>1 DEF Produce, Poll, FlushServes, BrokerAcks, MessageExpires, clientVars
  <2>2. QED
    BY <2>1, StepsOutsideTheMapping
<1>2. CASE QueueFull
  <2>1. CASE code' = code
    BY <1>2, <2>1, StepsOutsideTheMapping DEF QueueFull
  <2>2. CASE code' # code
    <3>1. pc # "exited" /\ code' = 1 /\ UNCHANGED <<records, log>>
      BY <1>2, <2>2 DEF QueueFull, Exit
    <3>2. QED
      BY <3>1, EndingStep DEF Publication!Next
  <2>3. QED
    BY <2>1, <2>2
<1>3. CASE ProduceFails \/ FlushReturns \/ Interrupt
  <2>1. pc # "exited" /\ code' \in {0, 1, 130} /\ UNCHANGED <<records, log>>
    BY <1>3 DEF ProduceFails, FlushReturns, Interrupt, Exit
  <2>2. QED
    BY <2>1, EndingStep DEF Publication!Next
<1>4. CASE \E i \in DOMAIN records : BrokerAppends(i)
  <2>1. PICK i \in DOMAIN records : BrokerAppends(i)
    BY <1>4
  <2>2. PartitionOf(i) \in TopicPartitions
    BY RecordsAreASequence DEF ProducerInv
  <2>3. QED
    BY <2>1, <2>2, DeliveryStep DEF Publication!Next
<1>5. CASE \E dataset \in Datasets : Start(dataset)
  <2>1. /\ pc = "idle" /\ code' = code /\ log' = log
        /\ Len(records)' \in Nat
    BY <1>5, RecordsAreASequence DEF Start, ProducerInv, WellKeyed
  <2>2. code = Running /\ Len(records) = 0
    BY <2>1 DEF ProducerInv, CallerIsConsistent
  <2>3. Outcome = "running" /\ Outcome' = Outcome
    BY <2>1, <2>2 DEF Outcome, Running
  <2>4. QED
    BY <2>1, <2>2, <2>3 DEF Publication!Next, Publication!Begin
<1>6. CASE UNCHANGED vars
  BY <1>6, StepsOutsideTheMapping DEF vars, clientVars
<1>7. QED
  BY <1>1, <1>2, <1>3, <1>4, <1>5, <1>6 DEF Next, Publish

\* Every run of publish_records is an ordered publication: its topic only grows
\* by records in order and without repetition, and success is the truth.
THEOREM Refinement == Spec => ImplementsPublication
<1>1. Init => Publication!Init
  BY DEF Init, Publication!Init, Outcome, Running
<1>2. ProducerInv /\ ExitZeroMeansPublished' /\ [Next]_vars => [Publication!Next]_(Publication!vars)
  BY StepSimulation
<1>3. QED
  BY <1>1, <1>2, ProducerInvHolds, ExitZeroIsTrue, PTL DEF Spec, ImplementsPublication, Publication!Spec

===============================================================================
