--------------------------- MODULE BronzeIngestion ---------------------------
(***************************************************************************)
(* Bronze ingestion: writer processes (ingestion/bronze_writer.py) that     *)
(* read one Kafka topic through ingestion/kafka_consumer.py, keep a buffer, *)
(* write one object per partition of a batch to the object store, verify    *)
(* every object with a HEAD request and only then commit the batch's        *)
(* offsets.  Console consumers (kafka_consumer.consume_to_console) use the  *)
(* same default consumer group and never commit.                            *)
(*                                                                          *)
(* The broker, its group coordinator and the object store are external:     *)
(* they appear as the writers use them.  A payload is abstracted to the     *)
(* offset it has in its partition; Poison says which payloads the envelope  *)
(* or its serialisation raises on.                                          *)
(***************************************************************************)
EXTENDS Integers, Sequences, FiniteSets

CONSTANTS
    Writers,        \* bronze_writer processes, one group
    Consoles,       \* kafka_consumer console processes, the same group
    Partitions,     \* partitions of the topic
    NoMember,       \* owner of a partition nobody is assigned
    BatchSize,      \* --batch-size
    MaxMessages,    \* --max-messages; 0 is None, no limit
    StopsWhenIdle,  \* --idle-timeout-seconds > 0
    Poison,         \* <<partition, offset>> pairs whose row cannot be serialised
    MaxOffset,      \* bound: records appended to each partition
    MaxExpired,     \* bound: records of each partition deleted by retention
    MaxDate,        \* bound: last UTC processing date
    MaxFaults       \* bound: failed calls, lost answers or memberships, crashes,
                    \* interrupts

Members == Writers \cup Consoles
NoOffset == -1      \* OFFSET_INVALID: the group has no committed offset

ASSUME MembersAssumption ==
    /\ Writers \cap Consoles = {}
    /\ NoMember \notin Members
ASSUME ConfigAssumption ==          \* consume_and_write_bronze's own checks
    /\ BatchSize \in Nat \ {0}
    /\ MaxMessages \in Nat
    /\ StopsWhenIdle \in BOOLEAN
    /\ Poison \subseteq Partitions \X Nat
ASSUME BoundsAssumption ==
    /\ MaxOffset \in Nat
    /\ MaxExpired \in Nat
    /\ MaxDate \in Nat
    /\ MaxFaults \in Nat

VARIABLES
    logEnd,     \* [Partitions -> Nat]: offset of the next record
    logStart,   \* [Partitions -> Nat]: first offset retention has left
    committed,  \* [Partitions -> Nat or NoOffset]: the group's offsets
    group,      \* members of the current generation
    owner,      \* [Partitions -> member or NoMember]: the assignment
    position,   \* [Partitions -> Nat or NoOffset]: the owner's next fetch
    store,      \* the objects in the bucket, at most one per key
    today,      \* the current UTC date
    pc,         \* [Members -> where the process is]
    buffer,     \* [Writers -> Seq of records]: polled and not yet flushed
    consumed,   \* [Writers -> Nat]: consumed_count, kept only under a limit
    written,    \* [Writers -> partitions of the batch already verified]
    flushDate,  \* [Writers -> date]: processing_date of the batch's context
    stopping,   \* [Writers -> BOOLEAN]: this flush is followed by close()
    faults,     \* faults so far
    verified,   \* history, [Partitions -> offsets of HEAD-verified objects]
    skipped,    \* history, [Partitions -> offsets deleted before being read]
    rewound,    \* history: has a commit moved a committed offset back?
    overtaken   \* history: has a rebalance met a buffer that held records?

brokerVars == <<logEnd, logStart, committed, group, owner, position>>
writerVars == <<pc, buffer, consumed, written, flushDate, stopping>>
historyVars == <<verified, skipped, rewound, overtaken>>
vars == <<brokerVars, store, today, writerVars, faults, historyVars>>

-----------------------------------------------------------------------------
(* Batches and objects *)

\* What group_records_by_partition gives for p: its offsets and its row count.
Rows(batch, p) == {batch[i].off : i \in {j \in DOMAIN batch : batch[j].part = p}}
RowCount(batch, p) == Cardinality({i \in DOMAIN batch : batch[i].part = p})
PartitionsOf(batch) == {batch[i].part : i \in DOMAIN batch}

\* First and last offset of a group that is sorted by offset.
StartOffset(rows) == CHOOSE o \in rows : \A h \in rows : o <= h
EndOffset(rows) == CHOOSE o \in rows : \A h \in rows : h <= o

\* build_commit_offsets: the offset after the last one of the batch.
CommitOffsetOfLast(batch, p) == EndOffset(Rows(batch, p))       \* mutant: no + 1
CommitOffsetPastNext(batch, p) == EndOffset(Rows(batch, p)) + 2 \* mutant
CommitOffset(batch, p) == EndOffset(Rows(batch, p)) + 1

\* Mutant: the key ends at the next offset instead of the last one.
ObjectForExclusiveEnd(w, p) ==
    LET rows == Rows(buffer[w], p)
    IN  [date  |-> flushDate[w], part |-> p, lo |-> StartOffset(rows),
         hi |-> EndOffset(rows) + 1, rows |-> rows,
         count |-> RowCount(buffer[w], p), by |-> w]

\* The object w writes for p: the key fields (date, part, lo, hi), the body
\* (rows, count) and the run metadata, which names the process.
ObjectFor(w, p) ==
    LET rows == Rows(buffer[w], p)
    IN  [date  |-> flushDate[w],
         part  |-> p,
         lo    |-> StartOffset(rows),
         hi    |-> EndOffset(rows),
         rows  |-> rows,
         count |-> RowCount(buffer[w], p),
         by    |-> w]

SameKeyAnyPartition(x, y) ==    \* mutant: the partition is not in the key
    x.date = y.date /\ x.lo = y.lo /\ x.hi = y.hi
SameKeyAnyEnd(x, y) ==          \* mutant: the end offset is not in the key
    x.date = y.date /\ x.part = y.part /\ x.lo = y.lo

SameKey(x, y) ==
    x.date = y.date /\ x.part = y.part /\ x.lo = y.lo /\ x.hi = y.hi

\* put_object replaces whatever its key held.
StoreWith(object) == {x \in store : ~SameKey(x, object)} \cup {object}

\* Groups are written in the order their first record entered the buffer.
IsNextGroup(w, p) ==
    \E i \in DOMAIN buffer[w] :
        /\ buffer[w][i].part = p
        /\ p \notin written[w]
        /\ \A j \in 1..(i - 1) : buffer[w][j].part \in written[w]

\* write_batch has no group left after p.
LastGroupAlways(w, p) == TRUE   \* mutant: commit after the first object
LastGroup(w, p) == PartitionsOf(buffer[w]) \subseteq written[w] \cup {p}

\* The HEAD of p's key answers for the very object w has put.
HeadMatches(w, p) == ObjectFor(w, p) \in store

\* What the key of p's object holds.
StoredRows(w, p) == UNION {x.rows : x \in {y \in store : SameKey(y, ObjectFor(w, p))}}

Unserialisable(w, p) == \E o \in Rows(buffer[w], p) : <<p, o>> \in Poison

-----------------------------------------------------------------------------
(* Steps every process shares *)

\* finally: consumer.close().  The process leaves the group and ends; its
\* buffer is gone and its partitions stay unread until the next rebalance.
Close(w) ==
    /\ pc'        = [pc EXCEPT ![w] = "down"]
    /\ group'     = group \ {w}
    /\ buffer'    = [buffer EXCEPT ![w] = << >>]
    /\ consumed'  = [consumed EXCEPT ![w] = 0]
    /\ written'   = [written EXCEPT ![w] = {}]
    /\ flushDate' = [flushDate EXCEPT ![w] = 0]
    /\ stopping'  = [stopping EXCEPT ![w] = FALSE]

Fault == faults < MaxFaults /\ faults' = faults + 1

\* flush_buffer up to its first call: the context fixes the processing date.
BeginFlush(w, last) ==
    /\ pc'        = [pc EXCEPT ![w] = "putting"]
    /\ flushDate' = [flushDate EXCEPT ![w] = today]
    /\ stopping'  = [stopping EXCEPT ![w] = last]

-----------------------------------------------------------------------------
(* The broker and the clock (external) *)

Init ==
    /\ logEnd    = [p \in Partitions |-> 0]
    /\ logStart  = [p \in Partitions |-> 0]
    /\ committed = [p \in Partitions |-> NoOffset]
    /\ group     = {}
    /\ owner     = [p \in Partitions |-> NoMember]
    /\ position  = [p \in Partitions |-> NoOffset]
    /\ store     = {}
    /\ today     = 0
    /\ pc        = [m \in Members |-> "down"]
    /\ buffer    = [w \in Writers |-> << >>]
    /\ consumed  = [w \in Writers |-> 0]
    /\ written   = [w \in Writers |-> {}]
    /\ flushDate = [w \in Writers |-> 0]
    /\ stopping  = [w \in Writers |-> FALSE]
    /\ faults    = 0
    /\ verified  = [p \in Partitions |-> {}]
    /\ skipped   = [p \in Partitions |-> {}]
    /\ rewound   = FALSE
    /\ overtaken = FALSE

\* A producer's record is appended to p.
Produce(p) ==
    /\ logEnd[p] < MaxOffset
    /\ logEnd' = [logEnd EXCEPT ![p] = @ + 1]
    /\ UNCHANGED <<logStart, committed, group, owner, position, store, today,
                   writerVars, faults, historyVars>>

\* retention.ms: the broker deletes the oldest record of p, read or not.
Expire(p) ==
    /\ logStart[p] < logEnd[p]
    /\ logStart[p] < MaxExpired
    /\ logStart' = [logStart EXCEPT ![p] = @ + 1]
    /\ UNCHANGED <<logEnd, committed, group, owner, position, store, today,
                   writerVars, faults, historyVars>>

\* Midnight UTC.
NextDay ==
    /\ today < MaxDate
    /\ today' = today + 1
    /\ UNCHANGED <<brokerVars, store, writerVars, faults, historyVars>>

\* A running member drops out of the group: session.timeout.ms pass in an outage
\* or a pause, max.poll.interval.ms in a long flush, or the topic's partitions
\* change and everybody has to join again.  on_lost and on_revoke only log: the
\* process keeps its buffer, and joins again if it is still polling.
LoseMembership(m) ==
    /\ m \in group
    /\ Fault
    /\ group' = group \ {m}
    /\ UNCHANGED <<logEnd, logStart, committed, owner, position, store, today,
                   writerVars, historyVars>>

\* A group that gained or lost a member gets a new generation, once its members
\* have joined it: the coordinator waits for those inside flush_buffer, unless
\* they lose their membership.  The eager assignor revokes everything and spreads
\* the partitions evenly; on_assign only logs, so no buffer is touched.
Rebalance ==
    LET joined == {m \in Members : pc[m] = "polling"}
        Evenly(f) == \A m, n \in joined :
            Cardinality({p \in Partitions : f[p] = m}) <=
                Cardinality({p \in Partitions : f[p] = n}) + 1
    IN  /\ \/ \E m \in joined : m \notin group
           \/ \E p \in Partitions : owner[p] # NoMember /\ owner[p] \notin group
        /\ group \subseteq joined
        /\ group' = joined
        /\ IF joined = {}
             THEN owner' = [p \in Partitions |-> NoMember]
             ELSE \E f \in [Partitions -> joined] : Evenly(f) /\ owner' = f
        /\ position' = [p \in Partitions |-> NoOffset]
        /\ overtaken' = (overtaken \/ \E w \in Writers : buffer[w] # << >>)
        /\ UNCHANGED <<logEnd, logStart, committed, store, today, writerVars, faults,
                       verified, skipped, rewound>>

\* The owner of p learns where to read: the committed offset, or the earliest
\* one (auto.offset.reset).  Reading below logStart resets there too, so 0
\* stands for "earliest" until the record is polled.
ResetEarliest(p) == 0               \* mutant: the committed offset is ignored
ResetLatest(p) ==                   \* mutant: auto.offset.reset = latest
    IF committed[p] = NoOffset THEN logEnd[p] ELSE committed[p]
ResetPosition(p) == IF committed[p] = NoOffset THEN 0 ELSE committed[p]

FetchOffset(p) ==
    /\ owner[p] \in group
    /\ position[p] = NoOffset
    /\ position' = [position EXCEPT ![p] = ResetPosition(p)]
    /\ UNCHANGED <<logEnd, logStart, committed, group, owner, store, today,
                   writerVars, faults, historyVars>>

\* The offset the next record of p has.
NextOffset(p) == IF position[p] < logStart[p] THEN logStart[p] ELSE position[p]

\* Mutant: a record is handed out before the position is known.
DeliverableUnpositioned(m, p) ==
    pc[m] = "polling" /\ m \in group /\ owner[p] = m /\ NextOffset(p) < logEnd[p]

\* m may be handed a record of p.
Deliverable(m, p) ==
    /\ pc[m] = "polling"
    /\ m \in group
    /\ owner[p] = m
    /\ position[p] # NoOffset
    /\ NextOffset(p) < logEnd[p]

-----------------------------------------------------------------------------
(* A console consumer: reads, prints, never commits *)

StartConsole(c) ==
    /\ pc[c] = "down"
    /\ pc' = [pc EXCEPT ![c] = "polling"]
    /\ UNCHANGED <<brokerVars, store, today, buffer, consumed, written,
                   flushDate, stopping, faults, historyVars>>

PollConsole(c, p) ==
    /\ Deliverable(c, p)
    /\ position' = [position EXCEPT ![p] = NextOffset(p) + 1]
    /\ UNCHANGED <<logEnd, logStart, committed, group, owner, store, today,
                   writerVars, faults, historyVars>>

StopConsole(c) ==
    /\ pc[c] = "polling"
    /\ pc' = [pc EXCEPT ![c] = "down"]
    /\ group' = group \ {c}
    /\ UNCHANGED <<logEnd, logStart, committed, owner, position, store, today,
                   buffer, consumed, written, flushDate, stopping, faults,
                   historyVars>>

-----------------------------------------------------------------------------
(* A writer *)

\* verify_bucket and subscribe succeed; the loop starts with an empty buffer.
StartWriter(w) ==
    /\ pc[w] = "down"
    /\ pc' = [pc EXCEPT ![w] = "polling"]
    /\ UNCHANGED <<brokerVars, store, today, buffer, consumed, written,
                   flushDate, stopping, faults, historyVars>>

\* One turn of the loop that got a record: append it, count it, flush a full
\* batch; the loop ends at max_messages with the flush of a partial batch.
PollRecord(w, p) ==
    LET offset == NextOffset(p)
        batch  == Append(buffer[w], [part |-> p, off |-> offset])
        count  == IF MaxMessages = 0 THEN 0 ELSE consumed[w] + 1
        last   == MaxMessages > 0 /\ count >= MaxMessages
    IN  /\ Deliverable(w, p)
        /\ position' = [position EXCEPT ![p] = offset + 1]
        /\ skipped'  = [skipped EXCEPT ![p] = @ \cup position[p]..(offset - 1)]
        /\ buffer'   = [buffer EXCEPT ![w] = batch]
        /\ consumed' = [consumed EXCEPT ![w] = count]
        /\ IF Len(batch) >= BatchSize \/ last
             THEN BeginFlush(w, last)
             ELSE UNCHANGED <<pc, flushDate, stopping>>
        /\ UNCHANGED <<logEnd, logStart, committed, group, owner, store, today,
                       written, faults, verified, rewound, overtaken>>

\* batch_wait_seconds flush whatever is buffered.
FullBatchFlush(w) == Len(buffer[w]) >= BatchSize    \* mutant: only full batches
PartialFlush(w) == buffer[w] # << >>

\* poll() timed out.  With a buffer, batch_wait_seconds may have passed, and
\* then the idle timeout may end the loop as well; without one only the idle
\* timeout ends it.
PollNone(w) ==
    /\ pc[w] = "polling"
    /\ \/ /\ PartialFlush(w)
          /\ \E last \in {FALSE, StopsWhenIdle} : BeginFlush(w, last)
          /\ UNCHANGED <<group, buffer, consumed, written>>
       \/ /\ buffer[w] = << >>
          /\ StopsWhenIdle
          /\ Close(w)
    /\ UNCHANGED <<logEnd, logStart, committed, owner, position, store, today,
                   faults, historyVars>>

\* _write_partition_batch up to put_object.  Building the envelopes or the
\* JSONL body of a poisonous row raises before the store is reached; a failed
\* put (its retries used up) may or may not have stored the object.
PutObject(w) ==
    /\ pc[w] = "putting"
    /\ \E p \in PartitionsOf(buffer[w]) :
         /\ IsNextGroup(w, p)
         /\ \/ /\ Unserialisable(w, p)
               /\ Close(w)
               /\ UNCHANGED <<store, faults>>
            \/ /\ ~Unserialisable(w, p)
               /\ store' = StoreWith(ObjectFor(w, p))
               /\ pc' = [pc EXCEPT ![w] = "verifying"]
               /\ UNCHANGED <<group, buffer, consumed, written, flushDate,
                              stopping, faults>>
            \/ /\ ~Unserialisable(w, p)
               /\ Fault
               /\ store' \in {store, StoreWith(ObjectFor(w, p))}
               /\ Close(w)
    /\ UNCHANGED <<logEnd, logStart, committed, owner, position, today,
                   historyVars>>

\* head_object and the comparison of size, digest, date, run and batch with
\* what was put; the last group of the batch leads to the commit.
VerifyObject(w) ==
    /\ pc[w] = "verifying"
    /\ \E p \in PartitionsOf(buffer[w]) :
         /\ IsNextGroup(w, p)
         /\ \/ /\ HeadMatches(w, p)
               /\ verified' = [verified EXCEPT ![p] = @ \cup StoredRows(w, p)]
               /\ written' = [written EXCEPT ![w] = @ \cup {p}]
               /\ pc' = [pc EXCEPT ![w] =
                            IF LastGroup(w, p) THEN "committing" ELSE "putting"]
               /\ UNCHANGED <<group, buffer, consumed, flushDate, stopping, faults>>
            \/ /\ ~HeadMatches(w, p)
               /\ Close(w)
               /\ UNCHANGED <<faults, verified>>
            \/ /\ Fault
               /\ Close(w)
               /\ UNCHANGED verified
    /\ UNCHANGED <<logEnd, logStart, committed, owner, position, store, today,
                   skipped, rewound, overtaken>>

CommitAll(w, parts) ==
    /\ committed' = [p \in Partitions |->
           IF p \in parts THEN CommitOffset(buffer[w], p) ELSE committed[p]]
    /\ rewound' = (rewound \/ \E p \in Partitions : committed'[p] < committed[p])

\* commit_offsets of the whole batch.  The coordinator checks that w belongs
\* to the current generation, not that it owns the partitions nor that its
\* offsets are ahead of the committed ones.  A partition's error or a lost
\* answer ends the process although offsets may be committed.
CommitOffsets(w) ==
    /\ pc[w] = "committing"
    /\ \/ /\ w \in group
          /\ CommitAll(w, PartitionsOf(buffer[w]))
          /\ \/ /\ ~stopping[w]
                /\ pc'      = [pc EXCEPT ![w] = "polling"]
                /\ buffer'  = [buffer EXCEPT ![w] = << >>]
                /\ written' = [written EXCEPT ![w] = {}]
                /\ flushDate' = [flushDate EXCEPT ![w] = 0]
                /\ UNCHANGED <<group, consumed, stopping>>
             \/ /\ stopping[w]
                /\ Close(w)
          /\ UNCHANGED faults
       \/ /\ w \notin group
          /\ Close(w)
          /\ UNCHANGED <<committed, rewound, faults>>
       \/ /\ w \in group
          /\ Fault
          /\ \E parts \in SUBSET PartitionsOf(buffer[w]) : CommitAll(w, parts)
          /\ Close(w)
    /\ UNCHANGED <<logEnd, logStart, owner, position, store, today, verified, skipped,
                   overtaken>>

\* A crash, an interrupt or an exception of poll(): no final flush.
Abort(w) ==
    /\ pc[w] # "down"
    /\ Fault
    /\ Close(w)
    /\ UNCHANGED <<logEnd, logStart, committed, owner, position, store, today,
                   historyVars>>

-----------------------------------------------------------------------------
Next ==
    \/ \E p \in Partitions : Produce(p)
    \/ \E p \in Partitions : Expire(p)
    \/ NextDay
    \/ \E m \in Members : LoseMembership(m)
    \/ Rebalance
    \/ \E p \in Partitions : FetchOffset(p)
    \/ \E c \in Consoles : StartConsole(c)
    \/ \E c \in Consoles, p \in Partitions : PollConsole(c, p)
    \/ \E c \in Consoles : StopConsole(c)
    \/ \E w \in Writers : StartWriter(w)
    \/ \E w \in Writers, p \in Partitions : PollRecord(w, p)
    \/ \E w \in Writers : PollNone(w)
    \/ \E w \in Writers : PutObject(w)
    \/ \E w \in Writers : VerifyObject(w)
    \/ \E w \in Writers : CommitOffsets(w)
    \/ \E w \in Writers : Abort(w)

Spec == Init /\ [][Next]_vars

-----------------------------------------------------------------------------
(* Properties *)

Record == [part : Partitions, off : Nat]
Object == [date : Nat, part : Partitions, lo : Nat, hi : Nat,
           rows : SUBSET Nat, count : Nat, by : Writers]

\* Every variable has its type.
TypeOK ==
    /\ logEnd    \in [Partitions -> Nat]
    /\ logStart  \in [Partitions -> Nat]
    /\ committed \in [Partitions -> Nat \cup {NoOffset}]
    /\ group     \subseteq Members
    /\ owner     \in [Partitions -> Members \cup {NoMember}]
    /\ position  \in [Partitions -> Nat \cup {NoOffset}]
    /\ store     \subseteq Object
    /\ today     \in Nat
    /\ pc        \in [Members -> {"down", "polling", "putting", "verifying",
                                  "committing"}]
    /\ buffer    \in [Writers -> Seq(Record)]
    /\ consumed  \in [Writers -> Nat]
    /\ written   \in [Writers -> SUBSET Partitions]
    /\ flushDate \in [Writers -> Nat]
    /\ stopping  \in [Writers -> BOOLEAN]
    /\ faults    \in Nat
    /\ verified  \in [Partitions -> SUBSET Nat]
    /\ skipped   \in [Partitions -> SUBSET Nat]
    /\ rewound   \in BOOLEAN
    /\ overtaken \in BOOLEAN

\* The at-least-once promise (bronze_writer.py:592-600): whatever the crashes,
\* rebalances, fenced and stale members, every offset below a committed one
\* is in an object that was stored and verified, or had been deleted by
\* retention before a writer read it.
CommittedIsVerified ==
    \A p \in Partitions : \A h \in 0..(committed[p] - 1) :
        h \in verified[p] \cup skipped[p]

\* The same, of the objects the bucket holds now: no later put, under the
\* same key, takes a committed record out of Bronze.  It is what "at least
\* once" (docs/bronze_layer.md:55) says to the reader of the bucket.
CommittedStaysStored ==
    \A p \in Partitions : \A h \in 0..(committed[p] - 1) :
        \/ h \in skipped[p]
        \/ \E x \in store : x.part = p /\ h \in x.rows

\* It is kept as long as no commit has moved an offset back, as that of a
\* buffer from before a rebalance does (bronze_writer.py:591-600,
\* kafka_consumer.py:265-296).
CommittedIsStored == ~rewound => CommittedStaysStored

\* A record whose offset was committed is never buffered again, so that an
\* acknowledged batch shares no record with another, unless a rebalance has met a
\* buffer that held records: the callbacks keep it (kafka_consumer.py:265-296)
\* while the position goes back to the committed offset.
NoReread ==
    ~overtaken => \A w \in Writers, p \in Partitions : \A o \in Rows(buffer[w], p) :
        o >= committed[p]

\* What read_and_validate_object (replay_bronze.py:522) demands of an object:
\* exactly one row for every offset its key names.
Replayable(x) == x.rows = x.lo..x.hi /\ x.count = x.hi - x.lo + 1

\* Every object in the bucket can be replayed, if no rebalance has met a buffer
\* that held records and retention deletes nothing unread.
ObjectsReplayable == ~overtaken => \A x \in store : Replayable(x)

\* Two objects that validate_object_ranges (replay_bronze.py:307) refuses to
\* replay together.
Overlap(x, y) ==
    x # y /\ x.part = y.part /\ x.lo <= y.hi /\ y.lo <= x.hi

\* With one writer in the group, stopping, restarting and midnight alone never make
\* two objects overlap: it takes a failed call, a lost answer or membership, or a
\* crash.
OverlapNeedsFault ==
    faults = 0 => \A x, y \in store : ~Overlap(x, y)

\* Objects that overlap within one processing date, so that the date can no
\* longer be replayed: what the replay of a date relies on never to find.
DateReplayable ==
    \A x, y \in store : x.date = y.date => ~Overlap(x, y)

\* The abstract promise this module keeps.
Promise == INSTANCE AtLeastOnce WITH
    produced <- logEnd,
    durable  <- [p \in Partitions |-> verified[p] \cup skipped[p]],
    acked    <- [p \in Partitions |->
                    IF committed[p] = NoOffset THEN 0 ELSE committed[p]]
ImplementsPromise == Promise!Spec

-----------------------------------------------------------------------------
(* The inductive invariant behind CommittedIsVerified and ImplementsPromise *)

Accounted(p) == verified[p] \cup skipped[p]

\* A group that is not empty has a first and a last offset.
BufferedIsBounded ==
    \A w \in Writers, p \in Partitions :
        LET rows == Rows(buffer[w], p)
        IN  rows # {} => /\ \E lo \in rows : \A h \in rows : lo <= h
                         /\ \E hi \in rows : \A h \in rows : h <= hi

\* Nothing is buffered, stored or accounted for that the log never held.
NothingInvented ==
    /\ \A w \in Writers, p \in Partitions : \A o \in Rows(buffer[w], p) : o < logEnd[p]
    /\ \A x \in store : \A o \in x.rows : o < logEnd[x.part]
    /\ \A p \in Partitions : \A o \in Accounted(p) : o < logEnd[p]

\* Below a buffered record everything is accounted for or in the same buffer:
\* what makes it safe to commit the buffer of a writer that lost the
\* partition in between.
NoHoleBelowBuffer ==
    \A w \in Writers, p \in Partitions : \A o \in Rows(buffer[w], p) :
        \A h \in 0..(o - 1) : h \in Accounted(p) \cup Rows(buffer[w], p)

\* Below the fetch position of a live owner as well.
NoHoleBelowPosition ==
    \A p \in Partitions :
        owner[p] \in Writers /\ owner[p] \in group =>
            \A h \in 0..(position[p] - 1) :
                h \in Accounted(p) \cup Rows(buffer[owner[p]], p)

\* The batch's progress: written groups are verified, a commit has them all.
FlushProgress ==
    \A w \in Writers :
        /\ \A p \in written[w] : Rows(buffer[w], p) \subseteq verified[p]
        /\ pc[w] \in {"down", "polling"} => written[w] = {}
        /\ pc[w] = "committing" => PartitionsOf(buffer[w]) \subseteq written[w]

\* Committed offsets stay true because every buffer and every position is
\* closed downwards, whoever owns the partition.
IngestionInv ==
    /\ TypeOK
    /\ CommittedIsVerified
    /\ BufferedIsBounded
    /\ NothingInvented
    /\ NoHoleBelowBuffer
    /\ NoHoleBelowPosition
    /\ FlushProgress

-----------------------------------------------------------------------------
(* The inductive invariant behind CommittedIsStored *)

\* Offsets of p that retention deleted unread, or that are in an object which
\* ends before offset n and so cannot be replaced by one that ends at n.
KeptBefore(p, n) ==
    skipped[p] \cup UNION {x.rows : x \in {y \in store : y.part = p /\ y.hi < n}}

\* The rows of p that w has buffered.
Buffered(w, p) == Rows(buffer[w], p)

Reads(w, p) == owner[p] = w /\ w \in group

\* A key names the first and the last offset of its object.
KeysAreRanges ==
    \A x \in store : x.lo \in x.rows /\ x.hi \in x.rows /\ x.rows \subseteq x.lo..x.hi

\* What is committed, or written by a flush that will commit it, is in an object
\* that ends before the committed offset.
CommittedIsKept ==
    /\ \A p \in Partitions : 0..(committed[p] - 1) \subseteq KeptBefore(p, committed[p])
    /\ \A w \in Writers : \A p \in written[w] :
          Buffered(w, p) \subseteq KeptBefore(p, CommitOffset(buffer[w], p))

\* A hole between two offsets of a buffer, which its object will have as well, is
\* in an object that ends before it ...
HolesAreKept ==
    \A w \in Writers, p \in Partitions : \A lo \in Buffered(w, p) :
        /\ \A hi \in Buffered(w, p) :
              lo..hi \subseteq Buffered(w, p) \cup KeptBefore(p, hi)
        /\ Reads(w, p) =>
              lo..(position[p] - 1) \subseteq Buffered(w, p) \cup KeptBefore(p, position[p])

\* ... since an offset that was read and not committed is still in the buffer.
UncommittedIsBuffered ==
    \A w \in Writers, p \in Partitions :
        /\ \A hi \in Buffered(w, p) : \A h \in 0..hi :
              h >= committed[p] => h \in Buffered(w, p) \cup skipped[p]
        /\ Reads(w, p) => \A h \in 0..(position[p] - 1) :
              h >= committed[p] => h \in Buffered(w, p) \cup skipped[p]
        /\ Reads(w, p) /\ position[p] # NoOffset => \A hi \in Buffered(w, p) :
              position[p]..hi \subseteq Buffered(w, p) \cup skipped[p]

\* While no commit goes back, an object is only replaced by one that lacks
\* nothing but what an object with an earlier end has.
StoreInv ==
    /\ KeysAreRanges
    /\ ~rewound => CommittedIsKept /\ HolesAreKept /\ UncommittedIsBuffered

-----------------------------------------------------------------------------
(* Liveness *)

\* What the code's own loop and the broker keep doing: poll returns records
\* that are there, batch_wait_seconds elapse, calls return, the coordinator
\* completes a rebalance and hands out positions.
LoopFairness ==
    /\ WF_vars(Rebalance)
    /\ \A p \in Partitions : WF_vars(FetchOffset(p))
    /\ \A w \in Writers :
         /\ WF_vars(\E p \in Partitions : PollRecord(w, p))
         /\ WF_vars(PollNone(w))
         /\ WF_vars(PutObject(w))
         /\ WF_vars(VerifyObject(w))
         /\ WF_vars(CommitOffsets(w))

FairSpec == Spec /\ LoopFairness

\* An operator or a scheduler that starts a writer again whenever it ended.
RestartedSpec == FairSpec /\ \A w \in Writers : WF_vars(StartWriter(w))

Running == \E w \in Writers : pc[w] # "down"

\* While writers run, a record of the log is committed in the end: a partial
\* batch is not kept back, and no rebalance or position leaves it unread.
RecordsGetCommitted ==
    \A p \in Partitions : \A o \in 0..(MaxOffset - 1) :
        (logEnd[p] > o /\ Running) ~>
            (committed[p] > o \/ logStart[p] > o \/ ~Running)

\* With restarts, every record of the log reaches a verified object, or
\* retention deletes it first.
RecordsReachBronze ==
    \A p \in Partitions : \A o \in 0..(MaxOffset - 1) :
        (logEnd[p] > o) ~> (o \in verified[p] \/ logStart[p] > o)

=============================================================================
