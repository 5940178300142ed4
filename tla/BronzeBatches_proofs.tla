------------------------ MODULE BronzeBatches_proofs ------------------------
(***************************************************************************)
(* What a batch owes to the offsets committed before it, for any number of  *)
(* writers and consoles.  As long as no rebalance has met a buffer that     *)
(* held records, a writer reads nothing twice that was committed, moves no  *)
(* offset back and writes only objects a replay accepts.  A group of one    *)
(* writer gets such a rebalance after a fault only, and overlaps its own    *)
(* objects after a fault only.                                              *)
(***************************************************************************)
EXTENDS BronzeStorage_proofs

\* Until a rebalance meets it, a buffer is what its writer, still the owner, has
\* read between the committed offset and the position.
FreshInv ==
    ~overtaken =>
        /\ \A w \in Writers, p \in Partitions : \A o \in Rows(buffer[w], p) :
              owner[p] = w /\ committed[p] <= o /\ o < position[p]
        /\ \A p \in Partitions : position[p] # NoOffset => committed[p] <= position[p]
        /\ ~rewound

-----------------------------------------------------------------------------
(* FreshInv is inductive *)

\* Only a rebalance meets a buffer.
LEMMA OvertakenByRebalance ==
    ASSUME [Next]_vars
    PROVE  Rebalance \/ overtaken' = overtaken
<1>1. CASE UNCHANGED vars
  BY <1>1 DEF vars, historyVars
<1>2. ASSUME NEW p \in Partitions, Produce(p) \/ Expire(p) \/ FetchOffset(p)
      PROVE  overtaken' = overtaken
  BY <1>2 DEF Produce, Expire, FetchOffset, historyVars
<1>3. ASSUME NextDay \/ \E m \in Members : LoseMembership(m)
      PROVE  overtaken' = overtaken
  BY <1>3 DEF NextDay, LoseMembership, historyVars
<1>4. ASSUME NEW c \in Consoles, NEW p, StartConsole(c) \/ StopConsole(c) \/ PollConsole(c, p)
      PROVE  overtaken' = overtaken
  BY <1>4 DEF StartConsole, StopConsole, PollConsole, historyVars
<1>5. ASSUME NEW w \in Writers, NEW p \in Partitions, PollRecord(w, p)
      PROVE  overtaken' = overtaken
  BY <1>5 DEF PollRecord
<1>6. ASSUME NEW w \in Writers, \/ StartWriter(w) \/ PollNone(w) \/ PutObject(w)
                                \/ VerifyObject(w) \/ CommitOffsets(w) \/ Abort(w)
      PROVE  overtaken' = overtaken
  BY <1>6 DEF StartWriter, PollNone, PutObject, VerifyObject, CommitOffsets, Abort, historyVars
<1>7. QED
  BY <1>1, <1>2, <1>3, <1>4, <1>5, <1>6 DEF Next

\* So what has been overtaken stays so.
LEMMA OvertakenStays ==
    ASSUME [Next]_vars, ~overtaken'
    PROVE  ~overtaken
<1>1. CASE Rebalance
  BY <1>1 DEF Rebalance
<1>2. QED
  BY <1>1, OvertakenByRebalance

\* A rebalance that overtakes nothing meets empty buffers.
LEMMA RebalanceOfEmptyBuffers ==
    ASSUME Rebalance, ~overtaken'
    PROVE  \A w \in Writers : buffer[w] = << >> /\ buffer'[w] = << >>
BY DEF Rebalance, writerVars

\* Steps that leave offsets and owners alone, and no buffer with other records.
LEMMA FreshFrame ==
    ASSUME FreshInv, ~overtaken,
           UNCHANGED <<owner, committed, position, rewound>>,
           \A w \in Writers : buffer'[w] = buffer[w] \/ buffer'[w] = << >>
    PROVE  FreshInv'
<1>1. \A w \in Writers : \A p : Rows(buffer'[w], p) \subseteq Rows(buffer[w], p)
  BY EmptyBatch
<1>2. QED
  BY <1>1 DEF FreshInv

\* What a commit of any part of a buffer does: it moves forward, and not beyond
\* the position.
LEMMA FreshCommit ==
    ASSUME IngestionInv, FreshInv, ~overtaken, NEW w \in Writers,
           NEW parts \in SUBSET PartitionsOf(buffer[w]), CommitAll(w, parts)
    PROVE  /\ ~rewound'
           /\ \A p \in Partitions :
                 /\ committed[p] <= committed'[p]
                 /\ position[p] # NoOffset => committed'[p] <= position[p]
           /\ \A p \in parts : /\ committed'[p] = EndOffset(Rows(buffer[w], p)) + 1
                               /\ owner[p] = w
           /\ \A p \in Partitions \ parts : committed'[p] = committed[p]
<1>1. \A p \in Partitions : committed[p] \in Int /\ position[p] \in Int
  BY DEF IngestionInv, TypeOK, NoOffset
<1>2. ASSUME NEW p \in parts
      PROVE  /\ p \in Partitions
             /\ EndOffset(Rows(buffer[w], p)) \in Nat
             /\ committed'[p] = EndOffset(Rows(buffer[w], p)) + 1
             /\ owner[p] = w
             /\ committed[p] <= EndOffset(Rows(buffer[w], p))
             /\ EndOffset(Rows(buffer[w], p)) < position[p]
  <2>1. /\ p \in Partitions
        /\ Rows(buffer[w], p) \subseteq Nat
        /\ EndOffset(Rows(buffer[w], p)) \in Rows(buffer[w], p)
    BY GroupEnds
  <2>2. QED
    BY <2>1 DEF FreshInv, CommitAll, CommitOffset
<1>3. \A p \in Partitions \ parts : committed'[p] = committed[p]
  BY DEF CommitAll
<1>4. \A p \in Partitions :
         /\ committed[p] <= committed'[p]
         /\ position[p] # NoOffset => committed'[p] <= position[p]
  BY <1>1, <1>2, <1>3 DEF FreshInv
<1>5. ~rewound'
  <2>1. \A p \in Partitions : ~(committed'[p] < committed[p])
    <3>1. \A p \in Partitions : committed'[p] \in Int
      BY <1>1, <1>2, <1>3
    <3>2. QED
      BY <1>1, <1>4, <3>1
  <2>2. QED
    BY <2>1 DEF FreshInv, CommitAll
<1>6. QED
  BY <1>2, <1>3, <1>4, <1>5

\* A commit ends with an empty buffer, of the writer or of none.
LEMMA CommitsEmptyTheirBuffer ==
    ASSUME IngestionInv, NEW w \in Writers, CommitOffsets(w)
    PROVE  /\ buffer'[w] = << >>
           /\ \A v \in Writers \ {w} : buffer'[v] = buffer[v]
           /\ \/ UNCHANGED <<committed, rewound>>
              \/ \E parts \in SUBSET PartitionsOf(buffer[w]) : CommitAll(w, parts)
BY DEF CommitOffsets, Close, IngestionInv, TypeOK

LEMMA NextKeepsFreshInv ==
    ASSUME IngestionInv, FreshInv, [Next]_vars
    PROVE  FreshInv'
<1> SUFFICES ASSUME ~overtaken'
             PROVE  FreshInv'
  BY DEF FreshInv
<1>0. ~overtaken
  BY OvertakenStays
<1>1. CASE \/ \E p \in Partitions : Produce(p) \/ Expire(p)
           \/ NextDay
           \/ \E m \in Members : LoseMembership(m)
           \/ \E c \in Consoles : StartConsole(c) \/ StopConsole(c)
           \/ \E w \in Writers : StartWriter(w)
           \/ UNCHANGED vars
  <2>1. UNCHANGED <<owner, committed, position, rewound, buffer>>
    BY <1>1 DEF Produce, Expire, NextDay, LoseMembership, StartConsole, StopConsole,
       StartWriter, vars, brokerVars, writerVars, historyVars
  <2>2. QED
    BY <1>0, <2>1, FreshFrame
<1>2. CASE Rebalance
  <2>1. \A w \in Writers : \A p : Rows(buffer'[w], p) = {}
    BY <1>2, RebalanceOfEmptyBuffers, EmptyBatch
  <2>2. /\ \A p \in Partitions : position'[p] = NoOffset
        /\ ~rewound'
    BY <1>0, <1>2 DEF Rebalance, FreshInv
  <2>3. QED
    BY <2>1, <2>2 DEF FreshInv
<1>3. ASSUME NEW p \in Partitions, FetchOffset(p)
      PROVE  FreshInv'
  <2>1. /\ position' = [position EXCEPT ![p] = ResetPosition(p)]
        /\ position[p] = NoOffset
        /\ UNCHANGED <<owner, buffer, committed, rewound>>
    BY <1>3 DEF FetchOffset, writerVars, historyVars
  <2>2. /\ position'[p] = ResetPosition(p)
        /\ committed[p] <= ResetPosition(p)
        /\ \A q \in Partitions \ {p} : position'[q] = position[q]
    BY <2>1 DEF IngestionInv, TypeOK, ResetPosition, NoOffset
  <2>3. ASSUME NEW w \in Writers, NEW o \in Rows(buffer[w], p)
        PROVE  FALSE
    <3>1. o \in Nat
      BY RowsAreOffsets DEF IngestionInv, TypeOK
    <3>2. QED
      BY <1>0, <2>1, <3>1 DEF FreshInv, NoOffset
  <2>4. QED
    BY <1>0, <2>1, <2>2, <2>3 DEF FreshInv
<1>4. ASSUME NEW c \in Consoles, NEW p \in Partitions, PollConsole(c, p)
      PROVE  FreshInv'
  <2>1. /\ position' = [position EXCEPT ![p] = NextOffset(p) + 1]
        /\ owner[p] = c /\ c \notin Writers
        /\ position[p] # NoOffset
        /\ UNCHANGED <<owner, buffer, committed, rewound>>
    BY <1>4, MembersAssumption DEF PollConsole, Deliverable, writerVars, historyVars
  <2>2. committed[p] <= position'[p]
    <3>1. /\ position[p] \in Nat /\ logStart[p] \in Nat
          /\ committed[p] \in Int /\ committed[p] <= position[p]
      BY <1>0, <2>1 DEF IngestionInv, TypeOK, FreshInv, NoOffset
    <3>2. position'[p] = NextOffset(p) + 1
      BY <2>1 DEF IngestionInv, TypeOK
    <3>3. QED
      BY <3>1, <3>2 DEF NextOffset
  <2>3. \A w \in Writers : Rows(buffer[w], p) = {}
    BY <1>0, <2>1 DEF FreshInv
  <2>4. \A q \in Partitions \ {p} : position'[q] = position[q]
    BY <2>1 DEF IngestionInv, TypeOK
  <2>5. QED
    BY <1>0, <2>1, <2>2, <2>3, <2>4 DEF FreshInv
<1>5. ASSUME NEW w \in Writers, NEW p \in Partitions, PollRecord(w, p)
      PROVE  FreshInv'
  <2> DEFINE o == NextOffset(p)
  <2>1. /\ o \in Nat /\ position[p] \in Nat /\ position[p] <= o
        /\ position'[p] = o + 1
        /\ position[p] # NoOffset
        /\ owner[p] = w
        /\ Rows(buffer'[w], p) = Rows(buffer[w], p) \cup {o}
        /\ \A q \in Partitions \ {p} : /\ position'[q] = position[q]
                                       /\ Rows(buffer'[w], q) = Rows(buffer[w], q)
        /\ \A v \in Writers \ {w} : buffer'[v] = buffer[v]
        /\ UNCHANGED <<committed, owner, rewound>>
    BY <1>5, PollRecordEffect DEF Buffered, Reads
  <2>2. committed[p] \in Int /\ Rows(buffer[w], p) \subseteq Nat
    BY RowsAreOffsets DEF IngestionInv, TypeOK, NoOffset
  <2> HIDE DEF o
  <2>3. /\ \A i \in Rows(buffer'[w], p) : committed[p] <= i /\ i < position'[p]
        /\ committed[p] <= position'[p]
    BY <1>0, <2>1, <2>2 DEF FreshInv
  <2>4. \A v \in Writers \ {w} : Rows(buffer'[v], p) = {}
    BY <1>0, <2>1 DEF FreshInv
  <2>5. QED
    BY <1>0, <2>1, <2>3, <2>4 DEF FreshInv
<1>6. ASSUME NEW w \in Writers, PollNone(w) \/ PutObject(w) \/ VerifyObject(w) \/ Abort(w)
      PROVE  FreshInv'
  <2>1. UNCHANGED <<owner, committed, position, rewound>>
    BY <1>6 DEF PollNone, PutObject, VerifyObject, Abort, historyVars
  <2>2. \A v \in Writers : buffer'[v] = buffer[v] \/ buffer'[v] = << >>
    <3>1. UNCHANGED buffer \/ Close(w)
      BY <1>6 DEF PollNone, PutObject, VerifyObject, Abort
    <3>2. QED
      BY <3>1 DEF Close, IngestionInv, TypeOK
  <2>3. QED
    BY <1>0, <2>1, <2>2, FreshFrame
<1>7. ASSUME NEW w \in Writers, CommitOffsets(w)
      PROVE  FreshInv'
  <2>1. UNCHANGED <<owner, position>>
    BY <1>7 DEF CommitOffsets
  <2>2. /\ buffer'[w] = << >>
        /\ \A v \in Writers \ {w} : buffer'[v] = buffer[v]
    BY <1>7, CommitsEmptyTheirBuffer
  <2>3. CASE UNCHANGED <<committed, rewound>>
    BY <1>0, <2>1, <2>2, <2>3, FreshFrame
  <2>4. ASSUME NEW parts \in SUBSET PartitionsOf(buffer[w]), CommitAll(w, parts)
        PROVE  FreshInv'
    <3>1. /\ ~rewound'
          /\ \A p \in Partitions : position[p] # NoOffset => committed'[p] <= position[p]
          /\ \A p \in parts : owner[p] = w
          /\ \A p \in Partitions \ parts : committed'[p] = committed[p]
      BY <1>0, <2>4, FreshCommit
    <3>2. \A p : Rows(buffer'[w], p) = {}
      BY <2>2, EmptyBatch
    <3>3. ASSUME NEW v \in Writers, NEW p \in Partitions, NEW o \in Rows(buffer'[v], p)
          PROVE  owner'[p] = v /\ committed'[p] <= o /\ o < position'[p]
      <4>1. v # w /\ o \in Rows(buffer[v], p)
        BY <2>2, <3>2, <3>3
      <4>2. owner[p] = v /\ committed[p] <= o /\ o < position[p]
        BY <1>0, <4>1 DEF FreshInv
      <4>3. QED
        BY <2>1, <3>1, <4>1, <4>2
    <3>4. QED
      BY <2>1, <3>1, <3>3 DEF FreshInv
  <2>5. QED
    BY <1>7, <2>3, <2>4, CommitsEmptyTheirBuffer
<1>8. QED
  BY <1>1, <1>2, <1>3, <1>4, <1>5, <1>6, <1>7 DEF Next

LEMMA FreshInvHolds == Spec => []FreshInv
<1>1. Init => FreshInv
  BY EmptyBatch DEF Init, FreshInv, NoOffset
<1>2. IngestionInv /\ FreshInv /\ [Next]_vars => FreshInv'
  BY NextKeepsFreshInv
<1>3. QED
  BY <1>1, <1>2, IngestionInvHolds, PTL DEF Spec

\* No writer buffers a record again whose offset was committed, whatever faults,
\* restarts and rebalances there were, until a rebalance meets records in a buffer.
THEOREM NothingCommittedIsReread == Spec => []NoReread
<1>1. IngestionInv /\ FreshInv => NoReread
  <2> SUFFICES ASSUME IngestionInv, FreshInv, ~overtaken, NEW w \in Writers,
                      NEW p \in Partitions, NEW o \in Rows(buffer[w], p)
               PROVE  o >= committed[p]
    BY DEF NoReread
  <2>1. o \in Nat /\ committed[p] \in Int
    BY RowsAreOffsets DEF IngestionInv, TypeOK, NoOffset
  <2>2. QED
    BY <2>1 DEF FreshInv
<1>2. QED
  BY <1>1, FreshInvHolds, IngestionInvHolds, PTL

\* Until then no commit moves an offset back either, by whatever member, so that no
\* committed record leaves the bucket: it takes a rebalance over a filled buffer to
\* bring about what the run stale_commit shows.
THEOREM StoredForGood == Spec => [](~overtaken => ~rewound /\ CommittedStaysStored)
<1>1. FreshInv /\ CommittedIsStored => (~overtaken => ~rewound /\ CommittedStaysStored)
  BY DEF FreshInv, CommittedIsStored
<1>2. QED
  BY <1>1, FreshInvHolds, CommittedRecordsAreStored, PTL

-----------------------------------------------------------------------------
(* Every object can be replayed, if retention deletes nothing *)

\* An empty buffer is an empty run, wherever the position is.
LEMMA EmptyRun ==
    ASSUME NEW p, NEW n \in Int
    PROVE  Rows(<< >>, p) = (n - RowCount(<< >>, p))..(n - 1)
<1>1. {i \in DOMAIN << >> : << >>[i].part = p} = {}
  OBVIOUS
<1>2. RowCount(<< >>, p) = 0
  BY <1>1, FS_EmptySet DEF RowCount
<1>3. (n - 0)..(n - 1) = {}
  OBVIOUS
<1>4. Rows(<< >>, p) = {}
  BY EmptyBatch
<1>5. QED
  BY <1>2, <1>3, <1>4

\* A polled record is one more row of its own partition.
LEMMA RowCountOfAppend ==
    ASSUME NEW batch \in Seq(Record), NEW r \in Record, NEW p
    PROVE  RowCount(Append(batch, r), p) =
               IF r.part = p THEN RowCount(batch, p) + 1 ELSE RowCount(batch, p)
<1> DEFINE longer == Append(batch, r)
           n == Len(batch)
           I == {i \in DOMAIN batch : batch[i].part = p}
           J == {i \in DOMAIN longer : longer[i].part = p}
<1>1. /\ longer \in Seq(Record)
      /\ Len(longer) = n + 1
      /\ n \in Nat
      /\ longer[n + 1] = r
      /\ \A i \in 1..n : longer[i] = batch[i]
  OBVIOUS
<1>2. DOMAIN longer = 1..(n + 1) /\ DOMAIN batch = 1..n
  BY <1>1
<1>3. J = IF r.part = p THEN I \cup {n + 1} ELSE I
  <2>1. \A i \in 1..n : i \in J <=> i \in I
    BY <1>1, <1>2
  <2>2. n + 1 \in J <=> r.part = p
    BY <1>1, <1>2
  <2>3. I \subseteq 1..n /\ J \subseteq 1..(n + 1) /\ n + 1 \notin I
    BY <1>1, <1>2
  <2>4. 1..(n + 1) = 1..n \cup {n + 1}
    BY <1>1
  <2> HIDE DEF I, J
  <2>5. ASSUME NEW i
        PROVE  i \in J <=> IF r.part = p THEN i \in I \/ i = n + 1 ELSE i \in I
    <3>1. i \in J \/ i \in I => i \in 1..n \/ i = n + 1
      BY <2>3, <2>4
    <3>2. QED
      BY <2>1, <2>2, <2>3, <3>1
  <2>6. QED
    BY <2>5
<1>4. IsFiniteSet(I) /\ n + 1 \notin I
  <2>1. IsFiniteSet(1..n)
    BY <1>1, FS_Interval
  <2>2. QED
    BY <1>1, <1>2, <2>1, FS_Subset
<1>5. Cardinality(I \cup {n + 1}) = Cardinality(I) + 1
  <2> HIDE DEF I
  <2>1. QED
    BY <1>4, FS_AddElement
<1>6. RowCount(batch, p) = Cardinality(I) /\ RowCount(longer, p) = Cardinality(J)
  BY DEF RowCount
<1> HIDE DEF I, J, longer
<1>7. QED
  BY <1>3, <1>5, <1>6 DEF longer

\* Until a rebalance meets it, a buffer holds every offset of a partition from its
\* first one to the position.
RunsInv ==
    ~overtaken =>
        /\ \A w \in Writers, p \in Partitions :
              Rows(buffer[w], p) = (position[p] - RowCount(buffer[w], p))..(position[p] - 1)
        /\ \A x \in store : Replayable(x)

\* A run of rows makes an object with one row for every offset of its key.
LEMMA ObjectOfRun ==
    ASSUME IngestionInv, RunsInv, ~overtaken, NEW w \in Writers,
           NEW p \in PartitionsOf(buffer[w])
    PROVE  Replayable(ObjectFor(w, p))
<1> DEFINE rows == Rows(buffer[w], p)
           cnt == RowCount(buffer[w], p)
           o == ObjectFor(w, p)
<1>1. /\ p \in Partitions
      /\ StartOffset(rows) \in rows
      /\ EndOffset(rows) \in rows
      /\ rows \subseteq Nat
      /\ \A h \in rows : StartOffset(rows) <= h /\ h <= EndOffset(rows)
  BY GroupEnds, EndsBound DEF Buffered
<1>2. cnt \in Nat /\ position[p] \in Int
  BY <1>1, RowsAreOffsets DEF IngestionInv, TypeOK, NoOffset
<1>3. rows = (position[p] - cnt)..(position[p] - 1)
  BY <1>1 DEF RunsInv
<1> HIDE DEF rows, cnt
<1>4. /\ position[p] - cnt \in rows
      /\ position[p] - 1 \in rows
  BY <1>1, <1>2, <1>3
<1>5. /\ StartOffset(rows) = position[p] - cnt
      /\ EndOffset(rows) = position[p] - 1
  BY <1>1, <1>2, <1>3, <1>4
<1>6. o.rows = rows /\ o.count = cnt /\ o.lo = StartOffset(rows) /\ o.hi = EndOffset(rows)
  BY DEF ObjectFor, rows, cnt
<1>7. QED
  BY <1>2, <1>3, <1>5, <1>6 DEF Replayable

\* Steps that poll nothing.
LEMMA RunsFrame ==
    ASSUME IngestionInv, RunsInv, ~overtaken, UNCHANGED position,
           \A w \in Writers : buffer'[w] = buffer[w] \/ buffer'[w] = << >>,
           \A x \in store' : x \in store \/ Replayable(x)
    PROVE  RunsInv'
<1>1. ASSUME NEW w \in Writers, NEW p \in Partitions
      PROVE  Rows(buffer'[w], p) = (position'[p] - RowCount(buffer'[w], p))..(position'[p] - 1)
  <2>1. CASE buffer'[w] = buffer[w]
    BY <2>1 DEF RunsInv
  <2>2. CASE buffer'[w] = << >>
    <3>1. position'[p] \in Int
      BY DEF IngestionInv, TypeOK, NoOffset
    <3>2. QED
      BY <2>2, <3>1, EmptyRun
  <2>3. QED
    BY <2>1, <2>2
<1>2. QED
  BY <1>1 DEF RunsInv

\* A partition of which nothing is buffered has an empty run at any position.
LEMMA NothingBuffered ==
    ASSUME IngestionInv, RunsInv, ~overtaken, NEW w \in Writers, NEW p \in Partitions,
           Rows(buffer[w], p) = {}, NEW n \in Int
    PROVE  Rows(buffer[w], p) = (n - RowCount(buffer[w], p))..(n - 1)
<1>1. RowCount(buffer[w], p) \in Nat /\ position[p] \in Int
  BY RowsAreOffsets DEF IngestionInv, TypeOK, NoOffset
<1>2. (position[p] - RowCount(buffer[w], p))..(position[p] - 1) = {}
  BY DEF RunsInv
<1>3. RowCount(buffer[w], p) = 0
  <2> DEFINE cnt == RowCount(buffer[w], p)
  <2> HIDE DEF cnt
  <2>1. cnt # 0 => position[p] - 1 \in (position[p] - cnt)..(position[p] - 1)
    BY <1>1 DEF cnt
  <2>2. QED
    BY <1>2, <2>1 DEF cnt
<1>4. QED
  BY <1>3

LEMMA NextKeepsRunsInv ==
    ASSUME IngestionInv, FreshInv, RunsInv, [Next]_vars,
           \A p \in Partitions : logStart[p] = 0
    PROVE  RunsInv'
<1> SUFFICES ASSUME ~overtaken'
             PROVE  RunsInv'
  BY DEF RunsInv
<1>0. ~overtaken
  BY OvertakenStays
<1>1. CASE \/ \E p \in Partitions : Produce(p) \/ Expire(p)
           \/ NextDay
           \/ \E m \in Members : LoseMembership(m)
           \/ \E c \in Consoles : StartConsole(c) \/ StopConsole(c)
           \/ \E w \in Writers : StartWriter(w)
           \/ UNCHANGED vars
  <2>1. UNCHANGED <<position, buffer, store>>
    BY <1>1 DEF Produce, Expire, NextDay, LoseMembership, StartConsole, StopConsole,
       StartWriter, vars, brokerVars, writerVars
  <2>2. QED
    BY <1>0, <2>1, RunsFrame
<1>2. CASE Rebalance
  <2>1. \A w \in Writers : buffer'[w] = << >>
    BY <1>2, RebalanceOfEmptyBuffers
  <2>2. /\ \A p \in Partitions : position'[p] = NoOffset
        /\ UNCHANGED store
    BY <1>2 DEF Rebalance
  <2>3. \A w \in Writers, p \in Partitions :
           Rows(buffer'[w], p) = (position'[p] - RowCount(buffer'[w], p))..(position'[p] - 1)
    BY <2>1, <2>2, EmptyRun DEF NoOffset
  <2>4. QED
    BY <1>0, <2>2, <2>3 DEF RunsInv
<1>3. ASSUME NEW p \in Partitions,
             FetchOffset(p) \/ \E c \in Consoles : PollConsole(c, p)
      PROVE  RunsInv'
  <2>1. /\ position' \in [Partitions -> Int]
        /\ \A q \in Partitions \ {p} : position'[q] = position[q]
        /\ UNCHANGED <<buffer, store>>
    <3>1. /\ position \in [Partitions -> Int]
          /\ ResetPosition(p) \in Int /\ NextOffset(p) \in Int
      BY DEF IngestionInv, TypeOK, ResetPosition, NextOffset, NoOffset
    <3>2. QED
      BY <1>3, <3>1 DEF FetchOffset, PollConsole, writerVars
  <2>2. ASSUME NEW w \in Writers, NEW o \in Rows(buffer[w], p)
        PROVE  FALSE
    <3>1. owner[p] = w /\ o < position[p] /\ o \in Nat
      BY <1>0, RowsAreOffsets DEF FreshInv, IngestionInv, TypeOK
    <3>2. ~FetchOffset(p)
      BY <3>1 DEF FetchOffset, NoOffset
    <3>3. \A c \in Consoles : ~PollConsole(c, p)
      BY <3>1, MembersAssumption DEF PollConsole, Deliverable
    <3>4. QED
      BY <1>3, <3>2, <3>3
  <2>3. \A w \in Writers :
           Rows(buffer'[w], p) = (position'[p] - RowCount(buffer'[w], p))..(position'[p] - 1)
    BY <1>0, <2>1, <2>2, NothingBuffered
  <2>4. QED
    BY <1>0, <2>1, <2>3 DEF RunsInv
<1>4. ASSUME NEW w \in Writers, NEW p \in Partitions, PollRecord(w, p)
      PROVE  RunsInv'
  <2> DEFINE o == NextOffset(p)
             r == [part |-> p, off |-> o]
             cnt == RowCount(buffer[w], p)
  <2>1. /\ o \in Nat
        /\ position'[p] = o + 1
        /\ owner[p] = w
        /\ Rows(buffer'[w], p) = Rows(buffer[w], p) \cup {o}
        /\ \A q \in Partitions \ {p} : /\ position'[q] = position[q]
                                       /\ Rows(buffer'[w], q) = Rows(buffer[w], q)
        /\ \A v \in Writers \ {w} : buffer'[v] = buffer[v]
        /\ UNCHANGED store
        /\ position[p] \in Nat
    BY <1>4, PollRecordEffect DEF Buffered, Reads
  <2>2. o = position[p]
    BY <2>1 DEF NextOffset
  <2>3. buffer'[w] = Append(buffer[w], r)
    BY <1>4 DEF PollRecord, IngestionInv, TypeOK
  <2>4. r \in Record /\ buffer[w] \in Seq(Record)
    BY <2>1 DEF Record, IngestionInv, TypeOK
  <2>5. /\ RowCount(buffer'[w], p) = cnt + 1
        /\ \A q \in Partitions \ {p} : RowCount(buffer'[w], q) = RowCount(buffer[w], q)
    BY <2>3, <2>4, RowCountOfAppend
  <2>6. cnt \in Nat
    BY <2>4, RowsAreOffsets
  <2> HIDE DEF o, cnt
  <2>7. Rows(buffer[w], p) = (position[p] - cnt)..(position[p] - 1)
    BY <1>0 DEF RunsInv, cnt
  <2>8. Rows(buffer'[w], p) = (position'[p] - RowCount(buffer'[w], p))..(position'[p] - 1)
    <3>1. (position[p] - cnt)..(position[p] - 1) \cup {position[p]}
              = (position[p] - cnt)..position[p]
      BY <2>1, <2>6
    <3>2. /\ position'[p] - RowCount(buffer'[w], p) = position[p] - cnt
          /\ position'[p] - 1 = position[p]
      BY <2>1, <2>2, <2>5, <2>6
    <3>3. QED
      BY <2>1, <2>2, <2>7, <3>1, <3>2
  <2>9. ASSUME NEW v \in Writers \ {w}, NEW q \in Partitions
        PROVE  Rows(buffer'[v], q) = (position'[q] - RowCount(buffer'[v], q))..(position'[q] - 1)
    <3>1. CASE q # p
      BY <1>0, <2>1, <2>9, <3>1 DEF RunsInv
    <3>2. CASE q = p
      <4>1. Rows(buffer[v], p) = {}
        BY <1>0, <2>1, <2>9 DEF FreshInv
      <4>2. QED
        BY <1>0, <2>1, <2>9, <3>2, <4>1, NothingBuffered
    <3>3. QED
      BY <3>1, <3>2
  <2>10. \A q \in Partitions :
            Rows(buffer'[w], q) = (position'[q] - RowCount(buffer'[w], q))..(position'[q] - 1)
    BY <1>0, <2>1, <2>5, <2>8 DEF RunsInv
  <2>11. QED
    BY <1>0, <2>1, <2>9, <2>10 DEF RunsInv
<1>5. ASSUME NEW w \in Writers, PollNone(w) \/ VerifyObject(w) \/ Abort(w)
      PROVE  RunsInv'
  <2>1. UNCHANGED <<position, store>> /\ (UNCHANGED buffer \/ Close(w))
    BY <1>5 DEF PollNone, VerifyObject, Abort
  <2>2. QED
    BY <1>0, <2>1, RunsFrame DEF Close, IngestionInv, TypeOK
<1>6. ASSUME NEW w \in Writers, PutObject(w)
      PROVE  RunsInv'
  <2>1. /\ UNCHANGED position
        /\ UNCHANGED buffer \/ Close(w)
        /\ \/ UNCHANGED store
           \/ \E p \in PartitionsOf(buffer[w]) : store' = StoreWith(ObjectFor(w, p))
    BY <1>6 DEF PutObject
  <2>2. \A x \in store' : x \in store \/ Replayable(x)
    BY <1>0, <2>1, ObjectOfRun DEF StoreWith
  <2>3. QED
    BY <1>0, <2>1, <2>2, RunsFrame DEF Close, IngestionInv, TypeOK
<1>7. ASSUME NEW w \in Writers, CommitOffsets(w)
      PROVE  RunsInv'
  <2>1. UNCHANGED <<position, store>>
    BY <1>7 DEF CommitOffsets
  <2>2. QED
    BY <1>0, <1>7, <2>1, CommitsEmptyTheirBuffer, RunsFrame
<1>8. QED
  BY <1>1, <1>2, <1>3, <1>4, <1>5, <1>6, <1>7 DEF Next

\* Without retention the log starts where it always did.
LEMMA LogKeepsItsStart ==
    ASSUME MaxExpired = 0, [Next]_vars, \A p \in Partitions : logStart[p] = 0
    PROVE  \A p \in Partitions : logStart'[p] = 0
<1>1. CASE UNCHANGED vars
  BY <1>1 DEF vars, brokerVars
<1>2. ASSUME NEW p \in Partitions, Produce(p) \/ FetchOffset(p)
      PROVE  logStart' = logStart
  BY <1>2 DEF Produce, FetchOffset
<1>3. ASSUME NextDay \/ Rebalance \/ \E m \in Members : LoseMembership(m)
      PROVE  logStart' = logStart
  BY <1>3 DEF NextDay, Rebalance, LoseMembership, brokerVars
<1>4. ASSUME NEW c \in Consoles, NEW p, StartConsole(c) \/ StopConsole(c) \/ PollConsole(c, p)
      PROVE  logStart' = logStart
  BY <1>4 DEF StartConsole, StopConsole, PollConsole, brokerVars
<1>5. ASSUME NEW w \in Writers, NEW p \in Partitions, PollRecord(w, p)
      PROVE  logStart' = logStart
  BY <1>5 DEF PollRecord
<1>6. ASSUME NEW w \in Writers, \/ StartWriter(w) \/ PollNone(w) \/ PutObject(w)
                                \/ VerifyObject(w) \/ CommitOffsets(w) \/ Abort(w)
      PROVE  logStart' = logStart
  BY <1>6 DEF StartWriter, PollNone, PutObject, VerifyObject, CommitOffsets, Abort, brokerVars
<1>7. \A p \in Partitions : ~Expire(p)
  BY DEF Expire
<1>8. QED
  BY <1>1, <1>2, <1>3, <1>4, <1>5, <1>6, <1>7 DEF Next

\* What writers leave in the bucket, read_and_validate_object
\* (replay_bronze.py:522) accepts: one row for every offset of the key, however
\* they were interrupted, as long as no rebalance has met records in a buffer and
\* retention deletes nothing unread.
THEOREM EveryObjectIsReplayable ==
    ASSUME MaxExpired = 0
    PROVE  Spec => []ObjectsReplayable
<1> DEFINE Kept == RunsInv /\ \A p \in Partitions : logStart[p] = 0
<1>1. Init => Kept
  <2> SUFFICES ASSUME Init PROVE Kept
    OBVIOUS
  <2>1. \A w \in Writers : buffer[w] = << >>
    BY DEF Init
  <2>2. \A p \in Partitions : position[p] \in Int /\ logStart[p] = 0
    BY DEF Init, NoOffset
  <2>3. store = {}
    BY DEF Init
  <2>4. QED
    BY <2>1, <2>2, <2>3, EmptyRun DEF RunsInv
<1>2. IngestionInv /\ FreshInv /\ Kept /\ [Next]_vars => Kept'
  BY NextKeepsRunsInv, LogKeepsItsStart
<1>3. Kept => ObjectsReplayable
  BY DEF RunsInv, ObjectsReplayable
<1> HIDE DEF Kept
<1>4. QED
  BY <1>1, <1>2, <1>3, FreshInvHolds, IngestionInvHolds, PTL DEF Spec

-----------------------------------------------------------------------------
(* A group of one writer is rebalanced only while it is empty, until a fault *)

\* The group has one writer, and no console shares its group id.
Alone(w) == Writers = {w} /\ Consoles = {}

\* No rebalance has met w's buffer, and none will while it is in the group; the
\* buffer is what was read between the committed offset and the position.
Settled(w) ==
    /\ w \notin group => buffer[w] = << >> /\ pc[w] \in {"down", "polling"}
    /\ \A p \in Partitions :
          /\ \A o \in Rows(buffer[w], p) : committed[p] <= o /\ o < position[p]
          /\ position[p] # NoOffset => committed[p] <= position[p]
    /\ ~rewound
    /\ ~overtaken

SingleInv(w) == faults = 0 => Settled(w)

\* Its group of one member is not rebalanced as long as it is in it.
LEMMA RebalanceIsIdle ==
    ASSUME IngestionInv, NEW w, Alone(w), Settled(w), Rebalance
    PROVE  buffer[w] = << >> /\ pc[w] \in {"down", "polling"} /\ w \notin group
<1>1. Members = {w}
  BY DEF Alone, Members
<1>2. w \notin group
  BY <1>1 DEF Rebalance, IngestionInv, TypeOK
<1>3. QED
  BY <1>2 DEF Settled

\* The part of Settled that is not of FreshInv.
LEMMA FreshIsSettled ==
    ASSUME NEW w \in Writers, FreshInv, ~overtaken,
           w \notin group => buffer[w] = << >> /\ pc[w] \in {"down", "polling"}
    PROVE  Settled(w)
BY DEF FreshInv, Settled

\* Steps that leave the writer, its buffer and the offsets where they are.
LEMMA SingleFrame ==
    ASSUME NEW w, SingleInv(w), faults' = 0 => faults = 0,
           UNCHANGED <<group, buffer, committed, position, pc, rewound, overtaken>>
    PROVE  SingleInv(w)'
BY DEF SingleInv, Settled

LEMMA NextKeepsSingleInv ==
    ASSUME IngestionInv, FreshInv, NEW w, Alone(w), SingleInv(w), [Next]_vars
    PROVE  SingleInv(w)'
<1> USE DEF Alone
<1>0. w \in Writers /\ w \in Members /\ Members = {w} /\ faults \in Nat
  BY DEF Members, IngestionInv, TypeOK
<1> SUFFICES ASSUME faults' = 0
             PROVE  Settled(w)'
  BY DEF SingleInv
<1> DEFINE Calm == w \notin group => buffer[w] = << >> /\ pc[w] \in {"down", "polling"}
<1>1. ASSUME faults = 0
      PROVE  Settled(w) /\ ~overtaken /\ Calm
  BY <1>1 DEF SingleInv, Settled
<1>2. ASSUME Close(w)
      PROVE  Calm'
  BY <1>0, <1>2 DEF Close, IngestionInv, TypeOK
<1>3. CASE \/ \E p \in Partitions : Produce(p) \/ Expire(p) \/ FetchOffset(p)
           \/ NextDay
           \/ UNCHANGED vars
  <2>1. UNCHANGED <<group, buffer, pc, faults, overtaken>>
    BY <1>3 DEF Produce, Expire, FetchOffset, NextDay, vars, brokerVars, writerVars, historyVars
  <2>2. QED
    BY <1>1, <2>1, NextKeepsFreshInv, FreshIsSettled DEF Settled, FreshInv
<1>4. CASE Rebalance
  <2>1. faults = 0
    BY <1>4 DEF Rebalance
  <2>2. buffer[w] = << >> /\ pc[w] \in {"down", "polling"}
    BY <1>1, <1>4, <2>1, RebalanceIsIdle
  <2>3. UNCHANGED <<pc, buffer>> /\ ~overtaken'
    BY <1>1, <1>4, <2>1, <2>2 DEF Rebalance, writerVars
  <2>4. FreshInv'
    BY NextKeepsFreshInv
  <2>5. QED
    BY <2>2, <2>3, <2>4 DEF Settled, FreshInv
<1>5. ASSUME NEW v \in Writers,
             \/ StartWriter(v) \/ PollNone(v) \/ PutObject(v) \/ VerifyObject(v)
             \/ CommitOffsets(v)
             \/ \E p \in Partitions : PollRecord(v, p)
      PROVE  Settled(w)'
  <2>1. v = w /\ faults = 0 /\ ~overtaken'
    <3>1. faults' = faults \/ faults' = faults + 1
      BY <1>5 DEF StartWriter, PollNone, PutObject, VerifyObject, CommitOffsets,
         PollRecord, Fault
    <3>2. overtaken' = overtaken
      BY <1>5 DEF StartWriter, PollNone, PutObject, VerifyObject, CommitOffsets,
         PollRecord, historyVars
    <3>3. QED
      BY <1>0, <1>1, <3>1, <3>2
  <2>2. Calm'
    <3>1. CASE StartWriter(w)
      BY <1>0, <1>1, <2>1, <3>1 DEF StartWriter, brokerVars, IngestionInv, TypeOK
    <3>2. CASE Close(w)
      BY <1>2, <3>2
    <3>3. ASSUME w \in group, UNCHANGED group
          PROVE  Calm'
      BY <3>3
    <3>4. CASE PollNone(w)
      BY <1>1, <2>1, <3>2, <3>3, <3>4 DEF PollNone, PartialFlush
    <3>5. CASE \E p \in Partitions : PollRecord(w, p)
      BY <3>3, <3>5 DEF PollRecord, Deliverable
    <3>6. CASE PutObject(w) \/ VerifyObject(w) \/ CommitOffsets(w)
      <4>1. w \in group
        BY <1>1, <2>1, <3>6 DEF PutObject, VerifyObject, CommitOffsets
      <4>2. UNCHANGED group \/ Close(w)
        BY <3>6 DEF PutObject, VerifyObject, CommitOffsets
      <4>3. QED
        BY <3>2, <3>3, <4>1, <4>2
    <3>7. QED
      BY <1>5, <2>1, <3>1, <3>4, <3>5, <3>6
  <2>3. FreshInv'
    BY NextKeepsFreshInv
  <2> HIDE DEF Calm
  <2>4. QED
    BY <1>0, <2>1, <2>2, <2>3 DEF Settled, FreshInv, Calm
<1>6. ASSUME Abort(w) \/ \E m \in Members : LoseMembership(m)
      PROVE  FALSE
  BY <1>0, <1>6 DEF Abort, LoseMembership, Fault
<1>7. QED
  BY <1>0, <1>3, <1>4, <1>5, <1>6 DEF Next

LEMMA SingleInvHolds ==
    ASSUME NEW CONSTANT w, Alone(w)
    PROVE  Spec => []SingleInv(w)
<1>1. Init => SingleInv(w)
  BY EmptyBatch DEF Init, Alone, Members, SingleInv, Settled, NoOffset
<1>2. IngestionInv /\ FreshInv /\ SingleInv(w) /\ [Next]_vars => SingleInv(w)'
  BY NextKeepsSingleInv
<1>3. QED
  BY <1>1, <1>2, IngestionInvHolds, FreshInvHolds, PTL DEF Spec

-----------------------------------------------------------------------------
(* Objects overlap after a fault only *)

\* x is what the flush that is under way writes for its partition.
InFlight(w, x) ==
    /\ pc[w] \in {"putting", "verifying", "committing"}
    /\ x.part \in PartitionsOf(buffer[w])
    /\ x = ObjectFor(w, x.part)

\* Before the first fault an object is committed or of the flush under way, and
\* a HEAD finds what was put.
FaultlessInv(w) ==
    faults = 0 =>
        /\ \A x, y \in store : ~Overlap(x, y)
        /\ \A x \in store : x.hi < committed[x.part] \/ InFlight(w, x)
        /\ pc[w] = "verifying" => \A p \in Partitions : IsNextGroup(w, p) => HeadMatches(w, p)

\* The groups of a batch are put and verified in one order.
LEMMA NextGroupIsUnique ==
    ASSUME IngestionInv, NEW w \in Writers, NEW p, NEW q, IsNextGroup(w, p), IsNextGroup(w, q)
    PROVE  p = q
<1>1. PICK i \in DOMAIN buffer[w] :
         buffer[w][i].part = p /\ \A j \in 1..(i - 1) : buffer[w][j].part \in written[w]
  BY DEF IsNextGroup
<1>2. PICK k \in DOMAIN buffer[w] :
         buffer[w][k].part = q /\ \A j \in 1..(k - 1) : buffer[w][j].part \in written[w]
  BY DEF IsNextGroup
<1>3. p \notin written[w] /\ q \notin written[w]
  BY DEF IsNextGroup
<1>4. i \in Nat /\ k \in Nat /\ i >= 1 /\ k >= 1
  <2>1. buffer[w] \in Seq(Record)
    BY DEF IngestionInv, TypeOK
  <2>2. DOMAIN buffer[w] = 1..Len(buffer[w])
    BY <2>1
  <2>3. QED
    BY <2>1, <2>2
<1>5. ~(i < k) /\ ~(k < i)
  BY <1>1, <1>2, <1>3, <1>4
<1>6. QED
  BY <1>1, <1>2, <1>4, <1>5

\* A new object of the batch begins at or after the committed offset, where all
\* other objects of its partition have ended.
LEMMA PutDoesNotOverlap ==
    ASSUME IngestionInv, StoreInv, NEW w, Alone(w), Settled(w), FaultlessInv(w), faults = 0,
           NEW p \in PartitionsOf(buffer[w]), store' = StoreWith(ObjectFor(w, p))
    PROVE  \A x, y \in store' : ~Overlap(x, y)
<1> DEFINE o == ObjectFor(w, p)
<1>1. /\ o.part = p /\ o.lo \in Nat /\ o.hi \in Nat
      /\ committed[p] <= o.lo
      /\ p \in Partitions
  <2>1. o \in Object /\ o.part = p /\ o.rows = Rows(buffer[w], p)
    BY ObjectIsTyped DEF Alone
  <2>2. o.lo \in o.rows /\ p \in Partitions
    BY ObjectIsRange, GroupEnds DEF Alone
  <2>3. QED
    BY <2>1, <2>2 DEF Object, Settled
<1>2. /\ \A x \in store : x.hi < committed[x.part] \/ InFlight(w, x)
      /\ \A x, y \in store : ~Overlap(x, y)
  BY DEF FaultlessInv
<1>3. \A x \in store : x.part \in Partitions /\ x.hi \in Nat /\ committed[x.part] \in Int
  BY DEF IngestionInv, TypeOK, Object, NoOffset
<1>4. \A x \in store' : x \in store \/ x = o
  BY DEF StoreWith
<1> HIDE DEF o
<1>5. ASSUME NEW x \in store, x.part = p
      PROVE  x.hi < o.lo \/ x = o
  <2>1. CASE InFlight(w, x)
    BY <1>5, <2>1 DEF InFlight, o
  <2>2. CASE x.hi < committed[x.part]
    BY <1>1, <1>3, <1>5, <2>2
  <2>3. QED
    BY <1>2, <2>1, <2>2
<1>6. ASSUME NEW x \in store
      PROVE  ~Overlap(x, o) /\ ~Overlap(o, x)
  BY <1>1, <1>3, <1>5 DEF Overlap
<1>7. ~Overlap(o, o)
  BY DEF Overlap
<1>8. QED
  BY <1>2, <1>4, <1>6, <1>7

\* Steps outside a flush, and those that begin one.
LEMMA FaultlessFrame ==
    ASSUME IngestionInv, NEW w, FaultlessInv(w), UNCHANGED <<store, committed>>,
           faults' = 0 => faults = 0,
           \/ pc[w] \in {"down", "polling"} /\ pc'[w] \in {"down", "polling", "putting"}
           \/ UNCHANGED <<buffer, written, flushDate>> /\ pc'[w] = pc[w]
    PROVE  FaultlessInv(w)'
<1> SUFFICES ASSUME faults' = 0
             PROVE  /\ \A x, y \in store' : ~Overlap(x, y)
                    /\ \A x \in store' : x.hi < committed'[x.part] \/ InFlight(w, x)'
                    /\ pc'[w] = "verifying" =>
                          \A p \in Partitions : IsNextGroup(w, p)' => HeadMatches(w, p)'
  BY DEF FaultlessInv
<1>1. CASE pc[w] \in {"down", "polling"} /\ pc'[w] \in {"down", "polling", "putting"}
  BY <1>1 DEF FaultlessInv, InFlight
<1>2. CASE UNCHANGED <<buffer, written, flushDate>> /\ pc'[w] = pc[w]
  BY <1>2 DEF FaultlessInv, InFlight, IsNextGroup, HeadMatches, ObjectFor
<1>3. QED
  BY <1>1, <1>2

LEMMA NextKeepsFaultlessInv ==
    ASSUME Poison = {}, IngestionInv, IngestionInv', StoreInv, FreshInv, NEW w, Alone(w),
           SingleInv(w), FaultlessInv(w), [Next]_vars
    PROVE  FaultlessInv(w)'
<1> USE DEF Alone
<1>0. /\ w \in Writers /\ w \in Members /\ Writers = {w}
      /\ faults \in Nat
      /\ faults' = faults + 1 => faults' # 0
      /\ pc \in [Members -> {"down", "polling", "putting", "verifying", "committing"}]
  BY DEF Members, IngestionInv, TypeOK
<1>1. CASE \/ \E p \in Partitions : Produce(p) \/ Expire(p) \/ FetchOffset(p)
           \/ NextDay
           \/ UNCHANGED vars
  BY <1>1, FaultlessFrame DEF Produce, Expire, FetchOffset, NextDay, vars,
     brokerVars, writerVars, historyVars
<1>2. CASE Rebalance \/ \E m \in Members : LoseMembership(m)
  <2>1. UNCHANGED <<store, committed, buffer, written, flushDate, pc>>
    BY <1>2 DEF Rebalance, LoseMembership, writerVars
  <2>2. faults' = 0 => faults = 0
    BY <1>0, <1>2 DEF Rebalance, LoseMembership, Fault
  <2>3. QED
    BY <2>1, <2>2, FaultlessFrame
<1>3. ASSUME NEW v \in Writers, StartWriter(v)
      PROVE  FaultlessInv(w)'
  <2>1. pc[w] = "down" /\ pc'[w] = "polling"
    BY <1>0, <1>3 DEF StartWriter
  <2>2. UNCHANGED <<store, committed, faults>>
    BY <1>3 DEF StartWriter, brokerVars
  <2>3. QED
    BY <2>1, <2>2, FaultlessFrame
<1>4. ASSUME NEW v \in Writers, NEW p \in Partitions, PollRecord(v, p)
      PROVE  FaultlessInv(w)'
  <2>1. /\ pc[w] = "polling" /\ pc'[w] \in {"polling", "putting"}
        /\ UNCHANGED <<store, committed, faults>>
    BY <1>0, <1>4 DEF PollRecord, Deliverable, BeginFlush
  <2>2. QED
    BY <2>1, FaultlessFrame
<1>5. ASSUME NEW v \in Writers, PollNone(v)
      PROVE  FaultlessInv(w)'
  <2>1. /\ pc[w] = "polling" /\ pc'[w] \in {"down", "putting"}
        /\ UNCHANGED <<store, committed, faults>>
    BY <1>0, <1>5 DEF PollNone, BeginFlush, Close
  <2>2. QED
    BY <2>1, FaultlessFrame
<1>6. ASSUME NEW v \in Writers, PutObject(v)
      PROVE  FaultlessInv(w)'
  <2>1. PICK p \in PartitionsOf(buffer[w]) :
           /\ IsNextGroup(w, p)
           /\ \/ faults' = faults + 1
              \/ /\ store' = StoreWith(ObjectFor(w, p))
                 /\ pc' = [pc EXCEPT ![w] = "verifying"]
                 /\ UNCHANGED <<buffer, written, flushDate, faults>>
    BY <1>0, <1>6 DEF PutObject, Unserialisable, Fault
  <2>2. pc[w] = "putting" /\ UNCHANGED committed
    BY <1>0, <1>6 DEF PutObject
  <2>3. SUFFICES ASSUME faults' = 0
                 PROVE  FaultlessInv(w)'
    BY DEF FaultlessInv
  <2>4. /\ store' = StoreWith(ObjectFor(w, p))
        /\ pc'[w] = "verifying"
        /\ UNCHANGED <<buffer, written, flushDate, faults>>
        /\ faults = 0
    BY <1>0, <2>1, <2>3
  <2>5. /\ \A q : ObjectFor(w, q)' = ObjectFor(w, q)
        /\ \A q : IsNextGroup(w, q)' = IsNextGroup(w, q)
        /\ ObjectFor(w, p).part = p
    BY <2>4 DEF ObjectFor, IsNextGroup
  <2>6. \A x, y \in store' : ~Overlap(x, y)
    BY <2>4, PutDoesNotOverlap DEF SingleInv
  <2>7. ASSUME NEW x \in store'
        PROVE  x.hi < committed'[x.part] \/ InFlight(w, x)'
    <3>1. x \in store \/ x = ObjectFor(w, p)
      BY <2>4 DEF StoreWith
    <3>2. CASE x = ObjectFor(w, p)
      BY <2>4, <2>5, <3>2 DEF InFlight
    <3>3. CASE x \in store
      BY <2>2, <2>4, <2>5, <3>3 DEF FaultlessInv, InFlight
    <3>4. QED
      BY <3>1, <3>2, <3>3
  <2>8. ASSUME NEW q \in Partitions, IsNextGroup(w, q)'
        PROVE  HeadMatches(w, q)'
    <3>1. q = p
      BY <1>0, <2>1, <2>5, <2>8, NextGroupIsUnique
    <3>2. QED
      BY <2>4, <2>5, <3>1 DEF HeadMatches, StoreWith
  <2>9. QED
    BY <2>6, <2>7, <2>8 DEF FaultlessInv
<1>7. ASSUME NEW v \in Writers, VerifyObject(v)
      PROVE  FaultlessInv(w)'
  <2>1. SUFFICES ASSUME faults' = 0
                 PROVE  FaultlessInv(w)'
    BY DEF FaultlessInv
  <2>2. pc[w] = "verifying" /\ UNCHANGED <<store, committed>>
    BY <1>0, <1>7 DEF VerifyObject
  <2>3. PICK p \in PartitionsOf(buffer[w]) :
           /\ IsNextGroup(w, p)
           /\ \/ faults' = faults + 1
              \/ ~HeadMatches(w, p) /\ UNCHANGED faults
              \/ /\ pc' = [pc EXCEPT ![w] = IF LastGroup(w, p) THEN "committing" ELSE "putting"]
                 /\ UNCHANGED <<buffer, flushDate, faults>>
    BY <1>0, <1>7 DEF VerifyObject, Fault
  <2>4. p \in Partitions
    BY <1>0, GroupEnds
  <2>5. /\ pc'[w] \in {"committing", "putting"}
        /\ UNCHANGED <<buffer, flushDate, faults>>
        /\ faults = 0
    BY <1>0, <2>1, <2>2, <2>3, <2>4 DEF FaultlessInv
  <2>6. QED
    BY <2>2, <2>5 DEF FaultlessInv, InFlight, ObjectFor
<1>8. ASSUME NEW v \in Writers, CommitOffsets(v)
      PROVE  FaultlessInv(w)'
  <2>1. SUFFICES ASSUME faults' = 0
                 PROVE  FaultlessInv(w)'
    BY DEF FaultlessInv
  <2>2. pc[w] = "committing" /\ UNCHANGED store
    BY <1>0, <1>8 DEF CommitOffsets
  <2>3. w \in group /\ ~overtaken /\ faults = 0
    <3>1. faults = 0
      BY <1>0, <1>8, <2>1 DEF CommitOffsets, Fault
    <3>2. QED
      BY <2>2, <3>1 DEF SingleInv, Settled
  <2>4. /\ CommitAll(w, PartitionsOf(buffer[w]))
        /\ pc'[w] \in {"down", "polling"}
    BY <1>0, <1>8, <2>1, <2>3 DEF CommitOffsets, Fault, Close
  <2>5. /\ \A p \in Partitions : committed[p] <= committed'[p]
        /\ \A p \in PartitionsOf(buffer[w]) : committed'[p] = EndOffset(Rows(buffer[w], p)) + 1
    BY <1>0, <2>3, <2>4, FreshCommit
  <2>6. ASSUME NEW x \in store
        PROVE  x.hi < committed'[x.part]
    <3>1. /\ x.part \in Partitions /\ x.hi \in Nat
          /\ committed[x.part] \in Int /\ committed'[x.part] \in Int
      <4>1. /\ store \subseteq Object
            /\ committed \in [Partitions -> Nat \cup {NoOffset}]
            /\ committed' \in [Partitions -> Nat \cup {NoOffset}]
        BY DEF IngestionInv, TypeOK
      <4>2. QED
        BY <4>1 DEF Object, NoOffset
    <3>2. CASE x.hi < committed[x.part]
      BY <2>5, <3>1, <3>2
    <3>3. CASE InFlight(w, x)
      <4>1. x.hi = EndOffset(Rows(buffer[w], x.part)) /\ x.part \in PartitionsOf(buffer[w])
        BY <3>3, ObjectIsRange DEF InFlight, Buffered
      <4>2. QED
        BY <2>5, <3>1, <4>1
    <3>4. QED
      BY <2>3, <3>2, <3>3 DEF FaultlessInv
  <2>7. QED
    BY <2>2, <2>3, <2>4, <2>6 DEF FaultlessInv
<1>9. ASSUME NEW v \in Writers, Abort(v)
      PROVE  FaultlessInv(w)'
  BY <1>0, <1>9 DEF Abort, Fault, FaultlessInv
<1>10. QED
  BY <1>1, <1>2, <1>3, <1>4, <1>5, <1>6, <1>7, <1>8, <1>9 DEF Next

\* Stopping, restarting and midnight alone never make a writer that is alone
\* overlap its own objects: it takes a failed call, a lost answer or membership, a
\* crash or an unserialisable payload (which ends a batch after some of its objects).
THEOREM OverlapTakesAFault ==
    ASSUME NEW CONSTANT w, Alone(w), Poison = {}
    PROVE  Spec => []OverlapNeedsFault
<1>1. Init => FaultlessInv(w)
  BY DEF Init, FaultlessInv, Alone, Members
<1>2. IngestionInv /\ IngestionInv' /\ StoreInv /\ FreshInv /\ SingleInv(w) /\ FaultlessInv(w)
          /\ [Next]_vars => FaultlessInv(w)'
  BY NextKeepsFaultlessInv
<1>3. FaultlessInv(w) => OverlapNeedsFault
  BY DEF FaultlessInv, OverlapNeedsFault
<1>4. QED
  BY <1>1, <1>2, <1>3, SingleInvHolds, FreshInvHolds, IngestionInvHolds, StoreInvHolds, PTL DEF Spec

=============================================================================
