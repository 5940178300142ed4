------------------------ MODULE BronzeIngestion_proofs ------------------------
(***************************************************************************)
(* Proofs about BronzeIngestion for every number of writers, consoles,      *)
(* partitions and records and every bound.  Each action has one lemma, the  *)
(* ways a writer ends share one (CloseKeepsIngestionInv).                         *)
(***************************************************************************)
EXTENDS BronzeIngestion, TLAPS, FiniteSetTheorems

\* What Rows, RowCount and PartitionsOf return for the two ways a buffer changes.
LEMMA EmptyBatch ==
    ASSUME NEW p
    PROVE  Rows(<< >>, p) = {} /\ PartitionsOf(<< >>) = {}
BY DEF Rows, PartitionsOf

\* A polled record joins the rows of its own partition only.
LEMMA RowsOfAppend ==
    ASSUME NEW batch \in Seq(Record), NEW r \in Record, NEW p
    PROVE  Rows(Append(batch, r), p) =
               IF r.part = p THEN Rows(batch, p) \cup {r.off} ELSE Rows(batch, p)
<1> DEFINE longer == Append(batch, r)
           n == Len(batch)
<1>1. /\ longer \in Seq(Record)
      /\ Len(longer) = n + 1
      /\ n \in Nat
      /\ longer[n + 1] = r
      /\ \A i \in 1..n : longer[i] = batch[i]
  OBVIOUS
<1>2. DOMAIN longer = 1..(n + 1) /\ DOMAIN batch = 1..n
  BY <1>1
<1>3. Rows(batch, p) \subseteq Rows(longer, p)
  BY <1>1, <1>2 DEF Rows
<1>4. r.part = p => r.off \in Rows(longer, p)
  BY <1>1, <1>2 DEF Rows
<1>5. ASSUME NEW o \in Rows(longer, p)
      PROVE  o \in Rows(batch, p) \/ (r.part = p /\ o = r.off)
  <2>1. PICK i \in 1..(n + 1) : longer[i].part = p /\ o = longer[i].off
    BY <1>2 DEF Rows
  <2>2. CASE i = n + 1
    BY <2>1, <2>2, <1>1
  <2>3. CASE i \in 1..n
    BY <2>1, <2>3, <1>1, <1>2 DEF Rows
  <2>4. QED
    BY <2>2, <2>3, <1>1
<1>6. QED
  BY <1>3, <1>4, <1>5

\* The rows of a buffer are offsets, and a partition of a batch has a row.
LEMMA RowsAreOffsets ==
    ASSUME NEW batch \in Seq(Record), NEW p
    PROVE  /\ Rows(batch, p) \subseteq Nat
           /\ RowCount(batch, p) \in Nat
           /\ p \in PartitionsOf(batch) => Rows(batch, p) # {}
           /\ PartitionsOf(batch) \subseteq Partitions
<1>1. DOMAIN batch = 1..Len(batch) /\ Len(batch) \in Nat
  OBVIOUS
<1>2. \A i \in DOMAIN batch : batch[i] \in Record
  BY <1>1
<1>3. Rows(batch, p) \subseteq Nat
  BY <1>2 DEF Rows, Record
<1>4. RowCount(batch, p) \in Nat
  <2> DEFINE I == {i \in DOMAIN batch : batch[i].part = p}
  <2>1. IsFiniteSet(1..Len(batch))
    BY <1>1, FS_Interval
  <2>2. IsFiniteSet(I)
    BY <2>1, <1>1, FS_Subset
  <2>3. QED
    BY <2>2, FS_CardinalityType DEF RowCount
<1>5. p \in PartitionsOf(batch) => Rows(batch, p) # {}
  BY DEF PartitionsOf, Rows
<1>6. PartitionsOf(batch) \subseteq Partitions
  BY <1>2 DEF PartitionsOf, Record
<1>7. QED
  BY <1>3, <1>4, <1>5, <1>6

\* The ends of a group of a batch exist and belong to it.
LEMMA GroupEnds ==
    ASSUME IngestionInv, NEW w \in Writers, NEW p \in PartitionsOf(buffer[w])
    PROVE  LET rows == Rows(buffer[w], p)
           IN  /\ p \in Partitions
               /\ rows \subseteq Nat
               /\ StartOffset(rows) \in rows
               /\ EndOffset(rows) \in rows
               /\ CommitOffset(buffer[w], p) \in Nat
               /\ CommitOffset(buffer[w], p) - 1 \in rows
<1> DEFINE rows == Rows(buffer[w], p)
<1>1. buffer[w] \in Seq(Record)
  BY DEF IngestionInv, TypeOK
<1>2. rows \subseteq Nat /\ rows # {} /\ p \in Partitions
  BY <1>1, RowsAreOffsets
<1>3. /\ \E lo \in rows : \A h \in rows : lo <= h
      /\ \E hi \in rows : \A h \in rows : h <= hi
  BY <1>2 DEF IngestionInv, BufferedIsBounded
<1>4. StartOffset(rows) \in rows /\ EndOffset(rows) \in rows
  BY <1>3 DEF StartOffset, EndOffset
<1>5. QED
  BY <1>2, <1>4 DEF CommitOffset

\* The object written for a group is well formed and holds just its rows.
LEMMA ObjectIsTyped ==
    ASSUME IngestionInv, NEW w \in Writers, NEW p \in PartitionsOf(buffer[w])
    PROVE  /\ ObjectFor(w, p) \in Object
           /\ ObjectFor(w, p).rows = Rows(buffer[w], p)
           /\ ObjectFor(w, p).part = p
<1> DEFINE rows == Rows(buffer[w], p)
<1>1. /\ buffer[w] \in Seq(Record)
      /\ flushDate[w] \in Nat
  BY DEF IngestionInv, TypeOK
<1>2. RowCount(buffer[w], p) \in Nat
  BY <1>1, RowsAreOffsets
<1>3. /\ p \in Partitions
      /\ rows \subseteq Nat
      /\ StartOffset(rows) \in Nat
      /\ EndOffset(rows) \in Nat
  BY GroupEnds
<1>4. QED
  BY <1>1, <1>2, <1>3 DEF ObjectFor, Object

\* Storing it keeps the store typed and free of invented records.
LEMMA StoreStaysSound ==
    ASSUME IngestionInv, NEW w \in Writers, NEW p \in PartitionsOf(buffer[w]),
           NEW bucket \in {store, StoreWith(ObjectFor(w, p))}
    PROVE  /\ bucket \subseteq Object
           /\ \A x \in bucket : \A o \in x.rows : o < logEnd[x.part]
<1>1. /\ store \subseteq Object
      /\ \A x \in store : \A o \in x.rows : o < logEnd[x.part]
  BY DEF IngestionInv, TypeOK, NothingInvented
<1>2. /\ ObjectFor(w, p) \in Object
      /\ \A o \in ObjectFor(w, p).rows : o < logEnd[ObjectFor(w, p).part]
  <2>1. p \in Partitions
    BY GroupEnds
  <2>2. QED
    BY <2>1, ObjectIsTyped DEF IngestionInv, NothingInvented
<1>3. QED
  BY <1>1, <1>2 DEF StoreWith

-----------------------------------------------------------------------------
(* Steps of the broker and of the consoles *)

\* No member, no record, no commit: nothing to account for yet.
LEMMA InitEstablishesIngestionInv == Init => IngestionInv
<1> SUFFICES ASSUME Init PROVE IngestionInv
  OBVIOUS
<1> USE DEF Init
<1>1. TypeOK
  <2>1. << >> \in Seq(Record)
    OBVIOUS
  <2>2. QED
    BY <2>1, MembersAssumption DEF TypeOK, Members, NoOffset
<1>2. CommittedIsVerified
  BY DEF CommittedIsVerified, NoOffset
<1>3. \A w \in Writers, p \in Partitions : Rows(buffer[w], p) = {}
  BY EmptyBatch
<1>4. BufferedIsBounded
  BY <1>3 DEF BufferedIsBounded
<1>5. NothingInvented
  BY <1>3 DEF NothingInvented, Accounted
<1>6. NoHoleBelowBuffer
  BY <1>3 DEF NoHoleBelowBuffer
<1>7. NoHoleBelowPosition
  BY DEF NoHoleBelowPosition
<1>8. FlushProgress
  BY DEF FlushProgress, Members
<1>9. QED
  BY <1>1, <1>2, <1>4, <1>5, <1>6, <1>7, <1>8 DEF IngestionInv

\* The broker's appends only raise the log's end.
LEMMA ProduceKeepsIngestionInv ==
    ASSUME IngestionInv, NEW p \in Partitions, Produce(p)
    PROVE  IngestionInv'
<1> USE DEF IngestionInv, Produce, writerVars, historyVars
<1>1. TypeOK'
  BY DEF TypeOK
<1>2. NothingInvented'
  <2>1. \A q \in Partitions : logEnd[q] \in Nat /\ logEnd'[q] >= logEnd[q]
                              /\ logEnd'[q] \in Nat
    BY DEF TypeOK
  <2>2. \A w \in Writers, q \in Partitions : \A o \in Rows(buffer[w], q) : o \in Nat
    BY RowsAreOffsets DEF TypeOK
  <2>3. \A x \in store : x.part \in Partitions /\ x.rows \subseteq Nat
    BY DEF TypeOK, Object
  <2>4. \A q \in Partitions : Accounted(q) \subseteq Nat
    BY DEF TypeOK, Accounted
  <2>5. QED
    BY <2>1, <2>2, <2>3, <2>4 DEF NothingInvented, Accounted
<1>3. QED
  BY <1>1, <1>2 DEF CommittedIsVerified, BufferedIsBounded, NoHoleBelowBuffer,
                    NoHoleBelowPosition, FlushProgress, Accounted

\* Steps that leave alone everything the invariant relates.
LEMMA OtherStepsKeepIngestionInv ==
    ASSUME IngestionInv,
           \/ \E p \in Partitions : Expire(p)
           \/ NextDay
    PROVE  IngestionInv'
<1> USE DEF IngestionInv, brokerVars, writerVars, historyVars
<1>1. TypeOK'
  <2>1. ASSUME NEW p \in Partitions, Expire(p)
        PROVE  TypeOK'
    BY <2>1 DEF Expire, TypeOK
  <2>2. CASE NextDay
    BY <2>2 DEF NextDay, TypeOK
  <2>3. QED
    BY <2>1, <2>2
<1>2. UNCHANGED <<logEnd, committed, group, owner, position, store, writerVars,
                  historyVars>>
  BY DEF Expire, NextDay
<1>3. QED
  BY <1>1, <1>2 DEF CommittedIsVerified, BufferedIsBounded, NothingInvented,
     NoHoleBelowBuffer, NoHoleBelowPosition, FlushProgress, Accounted

\* Who is not in the group reads nothing.
LEMMA LoseMembershipKeepsIngestionInv ==
    ASSUME IngestionInv, NEW m \in Members, LoseMembership(m)
    PROVE  IngestionInv'
<1> USE DEF IngestionInv, writerVars, historyVars
<1>1. /\ group' \subseteq group
      /\ faults' \in Nat
      /\ UNCHANGED <<logEnd, logStart, committed, owner, position, store, today,
                     writerVars, historyVars>>
  BY DEF LoseMembership, Fault, TypeOK
<1>2. TypeOK'
  BY <1>1 DEF TypeOK
<1>3. NoHoleBelowPosition'
  BY <1>1 DEF NoHoleBelowPosition, Accounted
<1>4. QED
  BY <1>1, <1>2, <1>3 DEF CommittedIsVerified, BufferedIsBounded,
     NothingInvented, NoHoleBelowBuffer, FlushProgress, Accounted

\* A new owner has no position yet; buffers stay as they are, stale or not.
LEMMA RebalanceKeepsIngestionInv ==
    ASSUME IngestionInv, Rebalance
    PROVE  IngestionInv'
<1> USE DEF IngestionInv, writerVars, historyVars
<1>1. /\ group' \subseteq Members
      /\ owner' \in [Partitions -> Members \cup {NoMember}]
      /\ position' = [p \in Partitions |-> NoOffset]
      /\ overtaken' \in BOOLEAN
      /\ UNCHANGED <<logEnd, logStart, committed, store, today, writerVars, faults,
                     verified, skipped, rewound>>
  BY DEF Rebalance, TypeOK
<1>2. TypeOK'
  BY <1>1 DEF TypeOK
<1>3. NoHoleBelowPosition'
  BY <1>1 DEF NoHoleBelowPosition, NoOffset
<1>4. QED
  BY <1>1, <1>2, <1>3 DEF CommittedIsVerified, BufferedIsBounded,
     NothingInvented, NoHoleBelowBuffer, FlushProgress, Accounted

\* A position taken from the committed offset or the log's start has no hole
\* below it: what is below was committed or is skipped.
LEMMA FetchOffsetKeepsIngestionInv ==
    ASSUME IngestionInv, NEW p \in Partitions, FetchOffset(p)
    PROVE  IngestionInv'
<1> USE DEF IngestionInv, FetchOffset, ResetPosition, writerVars, historyVars
<1>1. TypeOK'
  BY DEF TypeOK
<1>2. NoHoleBelowPosition'
  BY DEF NoHoleBelowPosition, CommittedIsVerified, Accounted, TypeOK, NoOffset
<1>3. QED
  BY <1>1, <1>2 DEF CommittedIsVerified, BufferedIsBounded, NothingInvented,
                    NoHoleBelowBuffer, FlushProgress, Accounted

\* The console neither buffers for Bronze nor commits.
LEMMA ConsoleKeepsIngestionInv ==
    ASSUME IngestionInv, NEW c \in Consoles,
           \/ StartConsole(c)
           \/ \E p \in Partitions : PollConsole(c, p)
           \/ StopConsole(c)
    PROVE  IngestionInv'
<1> USE DEF IngestionInv, brokerVars, writerVars, historyVars
<1>1. c \in Members /\ c \notin Writers
  BY MembersAssumption DEF Members
<1>2. /\ pc' \in [Members -> {"down", "polling", "putting", "verifying", "committing"}]
      /\ \A w \in Writers : pc'[w] = pc[w]
      /\ group' \subseteq group
      /\ UNCHANGED <<logEnd, logStart, committed, owner, store, today, buffer,
                     consumed, written, flushDate, stopping, faults, historyVars>>
  BY <1>1 DEF TypeOK, StartConsole, PollConsole, StopConsole, Members
<1>3. /\ position' \in [Partitions -> Nat \cup {NoOffset}]
      /\ \A p \in Partitions : owner[p] # c => position'[p] = position[p]
  <2>1. CASE StartConsole(c) \/ StopConsole(c)
    BY <2>1 DEF StartConsole, StopConsole, TypeOK
  <2>2. ASSUME NEW p \in Partitions, PollConsole(c, p)
        PROVE  <1>3!:
    <3>1. owner[p] = c /\ NextOffset(p) + 1 \in Nat
      BY <2>2 DEF PollConsole, Deliverable, NextOffset, TypeOK
    <3>2. QED
      BY <2>2, <3>1 DEF PollConsole, TypeOK
  <2>3. QED
    BY <2>1, <2>2
<1>4. TypeOK'
  BY <1>2, <1>3 DEF TypeOK
<1>5. NoHoleBelowPosition'
  BY <1>1, <1>2, <1>3 DEF NoHoleBelowPosition, Accounted
<1>6. FlushProgress'
  BY <1>2 DEF FlushProgress
<1>7. QED
  BY <1>2, <1>4, <1>5, <1>6 DEF CommittedIsVerified, BufferedIsBounded,
     NothingInvented, NoHoleBelowBuffer, Accounted

-----------------------------------------------------------------------------
(* Steps of a writer *)

\* However a writer ends, what remains is sound if the store and the
\* committed offsets it leaves are.
LEMMA CloseKeepsIngestionInv ==
    ASSUME IngestionInv, NEW w \in Writers, Close(w),
           UNCHANGED <<logEnd, logStart, owner, position, today, verified, skipped, overtaken>>,
           rewound' \in BOOLEAN,
           faults' \in Nat,
           store' \subseteq Object,
           \A x \in store' : \A o \in x.rows : o < logEnd[x.part],
           committed' \in [Partitions -> Nat \cup {NoOffset}],
           CommittedIsVerified'
    PROVE  IngestionInv'
<1> USE DEF IngestionInv, Close, historyVars
<1>1. /\ w \in Members
      /\ pc'[w] = "down"
      /\ buffer'[w] = << >>
      /\ written'[w] = {}
      /\ w \notin group'
      /\ group' \subseteq group
      /\ \A v \in Writers \ {w} : /\ pc'[v] = pc[v]
                                  /\ buffer'[v] = buffer[v]
                                  /\ written'[v] = written[v]
  BY DEF TypeOK, Members
<1>2. TypeOK'
  BY DEF TypeOK, Members
<1>3. \A p : Rows(buffer'[w], p) = {}
  BY <1>1, EmptyBatch
<1>4. BufferedIsBounded'
  BY <1>1, <1>3 DEF BufferedIsBounded
<1>5. NothingInvented'
  BY <1>1, <1>3 DEF NothingInvented, Accounted
<1>6. NoHoleBelowBuffer'
  BY <1>1, <1>3 DEF NoHoleBelowBuffer, Accounted
<1>7. NoHoleBelowPosition'
  BY <1>1 DEF NoHoleBelowPosition, Accounted
<1>8. FlushProgress'
  BY <1>1 DEF FlushProgress
<1>9. QED
  BY <1>2, <1>4, <1>5, <1>6, <1>7, <1>8

\* The usual case: the store and the committed offsets stay as they are.
LEMMA FailKeepsIngestionInv ==
    ASSUME IngestionInv, NEW w \in Writers, Close(w), faults' \in Nat,
           UNCHANGED <<logEnd, logStart, committed, owner, position, store,
                       today, historyVars>>
    PROVE  IngestionInv'
<1>1. /\ store' \subseteq Object
      /\ \A x \in store' : \A o \in x.rows : o < logEnd[x.part]
      /\ committed' \in [Partitions -> Nat \cup {NoOffset}]
      /\ CommittedIsVerified'
      /\ rewound' \in BOOLEAN
  BY DEF IngestionInv, TypeOK, NothingInvented, CommittedIsVerified, historyVars
<1>2. QED
  BY <1>1, CloseKeepsIngestionInv DEF historyVars

\* A started writer has an empty buffer.
LEMMA StartWriterKeepsIngestionInv ==
    ASSUME IngestionInv, NEW w \in Writers, StartWriter(w)
    PROVE  IngestionInv'
<1> USE DEF IngestionInv, StartWriter, brokerVars, historyVars
<1>1. TypeOK'
  BY DEF TypeOK, Members
<1>2. FlushProgress'
  BY DEF FlushProgress, TypeOK, Members
<1>3. QED
  BY <1>1, <1>2 DEF CommittedIsVerified, BufferedIsBounded, NothingInvented,
     NoHoleBelowBuffer, NoHoleBelowPosition, Accounted

\* The record at an owner's position extends its buffer without a hole.
LEMMA PollRecordKeepsIngestionInv ==
    ASSUME IngestionInv, NEW w \in Writers, NEW p \in Partitions, PollRecord(w, p)
    PROVE  IngestionInv'
<1> DEFINE o == NextOffset(p)
           r == [part |-> p, off |-> o]
           gap == position[p]..(o - 1)
<1>1. /\ o \in Nat
      /\ position[p] \in Nat
      /\ position[p] <= o
      /\ o < logEnd[p]
      /\ owner[p] = w
      /\ w \in group
      /\ pc[w] = "polling"
      /\ r \in Record
      /\ w \in Members
  BY DEF PollRecord, Deliverable, NextOffset, IngestionInv, TypeOK, Record, Members
<1>2. /\ position' = [position EXCEPT ![p] = o + 1]
      /\ skipped' = [skipped EXCEPT ![p] = @ \cup gap]
      /\ buffer' = [buffer EXCEPT ![w] = Append(@, r)]
      /\ consumed' \in [Writers -> Nat]
      /\ \A v \in Writers \ {w} : pc'[v] = pc[v]
      /\ pc'[w] \in {"polling", "putting"}
      /\ UNCHANGED <<logEnd, logStart, committed, group, owner, store, today,
                     written, faults, verified, rewound, overtaken>>
  <2>1. consumed' \in [Writers -> Nat]
    BY ConfigAssumption DEF PollRecord, IngestionInv, TypeOK
  <2>2. pc' = pc \/ pc' = [pc EXCEPT ![w] = "putting"]
    BY DEF PollRecord, BeginFlush
  <2>3. QED
    BY <1>1, <2>1, <2>2 DEF PollRecord, IngestionInv, TypeOK, Members
<1>3. TypeOK'
  <2>1. /\ pc' = pc \/ pc' = [pc EXCEPT ![w] = "putting"]
        /\ flushDate' = flushDate \/ flushDate' = [flushDate EXCEPT ![w] = today]
        /\ \/ stopping' = stopping
           \/ \E last \in BOOLEAN : stopping' = [stopping EXCEPT ![w] = last]
    BY DEF PollRecord, BeginFlush
  <2>2. /\ pc' \in [Members -> {"down", "polling", "putting", "verifying", "committing"}]
        /\ flushDate' \in [Writers -> Nat]
        /\ stopping' \in [Writers -> BOOLEAN]
    <3>1. pc' \in [Members -> {"down", "polling", "putting", "verifying", "committing"}]
      <4>1. pc \in [Members -> {"down", "polling", "putting", "verifying", "committing"}]
        BY DEF IngestionInv, TypeOK
      <4>2. QED
        BY <2>1, <4>1
    <3>2. flushDate' \in [Writers -> Nat]
      <4>1. flushDate \in [Writers -> Nat] /\ today \in Nat
        BY DEF IngestionInv, TypeOK
      <4>2. QED
        BY <2>1, <4>1
    <3>3. stopping' \in [Writers -> BOOLEAN]
      <4>1. stopping \in [Writers -> BOOLEAN]
        BY DEF IngestionInv, TypeOK
      <4>2. QED
        BY <2>1, <4>1
    <3>4. QED
      BY <3>1, <3>2, <3>3
  <2>3. buffer' \in [Writers -> Seq(Record)]
    BY <1>1, <1>2 DEF IngestionInv, TypeOK
  <2>4. /\ position' \in [Partitions -> Nat \cup {NoOffset}]
        /\ skipped' \in [Partitions -> SUBSET Nat]
    BY <1>1, <1>2 DEF IngestionInv, TypeOK
  <2>5. rewound' \in BOOLEAN
    BY <1>2 DEF IngestionInv, TypeOK
  <2>6. QED
    BY <1>2, <2>2, <2>3, <2>4, <2>5 DEF IngestionInv, TypeOK
<1>4. /\ Rows(buffer'[w], p) = Rows(buffer[w], p) \cup {o}
      /\ \A q \in Partitions \ {p} : Rows(buffer'[w], q) = Rows(buffer[w], q)
      /\ \A v \in Writers \ {w} : buffer'[v] = buffer[v]
  <2>1. buffer[w] \in Seq(Record) /\ buffer'[w] = Append(buffer[w], r)
    BY <1>2 DEF IngestionInv, TypeOK
  <2>2. r.part = p /\ r.off = o /\ r \in Record
    BY <1>1
  <2>3. \A q \in Partitions :
           Rows(buffer'[w], q) = IF r.part = q THEN Rows(buffer[w], q) \cup {r.off}
                                               ELSE Rows(buffer[w], q)
    <3> HIDE DEF r
    <3>1. ASSUME NEW q \in Partitions
          PROVE  Rows(Append(buffer[w], r), q) =
                     IF r.part = q THEN Rows(buffer[w], q) \cup {r.off}
                                   ELSE Rows(buffer[w], q)
      BY <2>1, <2>2, RowsOfAppend
    <3>2. QED
      BY <2>1, <3>1
  <2>4. QED
    BY <1>2, <2>2, <2>3 DEF IngestionInv, TypeOK
<1>5. /\ Accounted(p)' = Accounted(p) \cup gap
      /\ \A q \in Partitions \ {p} : Accounted(q)' = Accounted(q)
  BY <1>2 DEF Accounted, IngestionInv, TypeOK
<1>6. \A v \in Writers, q \in Partitions : Rows(buffer[v], q) \subseteq Nat
  BY RowsAreOffsets DEF IngestionInv, TypeOK
<1>7. CommittedIsVerified'
  BY <1>2 DEF CommittedIsVerified, IngestionInv, TypeOK
<1>8. BufferedIsBounded'
  <2>1. ASSUME NEW v \in Writers, NEW q \in Partitions, v # w \/ q # p
        PROVE  Rows(buffer'[v], q) = Rows(buffer[v], q)
    BY <2>1, <1>4
  <2>2. /\ \E lo \in Rows(buffer'[w], p) : \A h \in Rows(buffer'[w], p) : lo <= h
        /\ \E hi \in Rows(buffer'[w], p) : \A h \in Rows(buffer'[w], p) : h <= hi
    <3>1. CASE Rows(buffer[w], p) = {}
      BY <3>1, <1>1, <1>4
    <3>2. CASE Rows(buffer[w], p) # {}
      <4>1. PICK lo \in Rows(buffer[w], p), hi \in Rows(buffer[w], p) :
               \A h \in Rows(buffer[w], p) : lo <= h /\ h <= hi
        BY <3>2 DEF IngestionInv, BufferedIsBounded
      <4>2. \E l \in Rows(buffer'[w], p) : \A h \in Rows(buffer'[w], p) : l <= h
        <5>1. CASE lo <= o
          BY <5>1, <4>1, <1>1, <1>4, <1>6
        <5>2. CASE ~(lo <= o)
          BY <5>2, <4>1, <1>1, <1>4, <1>6
        <5>3. QED
          BY <5>1, <5>2
      <4>3. \E l \in Rows(buffer'[w], p) : \A h \in Rows(buffer'[w], p) : h <= l
        <5>1. CASE o <= hi
          BY <5>1, <4>1, <1>1, <1>4, <1>6
        <5>2. CASE ~(o <= hi)
          BY <5>2, <4>1, <1>1, <1>4, <1>6
        <5>3. QED
          BY <5>1, <5>2
      <4>4. QED
        BY <4>2, <4>3
    <3>3. QED
      BY <3>1, <3>2
  <2>3. QED
    BY <2>1, <2>2 DEF IngestionInv, BufferedIsBounded
<1>9. NothingInvented'
  <2>1. logEnd[p] \in Nat
    BY DEF IngestionInv, TypeOK
  <2>2. \A v \in Writers, q \in Partitions : \A h \in Rows(buffer'[v], q) : h < logEnd[q]
    BY <1>1, <1>4 DEF IngestionInv, NothingInvented
  <2>3. \A q \in Partitions : \A h \in Accounted(q)' : h < logEnd[q]
    BY <1>1, <1>5, <2>1 DEF IngestionInv, NothingInvented
  <2>4. QED
    BY <1>2, <2>2, <2>3 DEF IngestionInv, NothingInvented
<1>10. \A h \in 0..(o - 1) : h \in Accounted(p)' \cup Rows(buffer[w], p)
  <2>1. \A h \in 0..(position[p] - 1) : h \in Accounted(p) \cup Rows(buffer[w], p)
    BY <1>1 DEF IngestionInv, NoHoleBelowPosition
  <2>2. \A h \in 0..(o - 1) : h \in 0..(position[p] - 1) \/ h \in gap
    BY <1>1
  <2>3. QED
    BY <2>1, <2>2, <1>5
<1>11. NoHoleBelowBuffer'
  <2> SUFFICES ASSUME NEW v \in Writers, NEW q \in Partitions,
                      NEW b \in Rows(buffer'[v], q), NEW h \in 0..(b - 1)
               PROVE  h \in Accounted(q)' \cup Rows(buffer'[v], q)
    BY DEF NoHoleBelowBuffer
  <2>1. CASE v = w /\ q = p /\ b = o
    BY <2>1, <1>4, <1>10
  <2>2. CASE b \in Rows(buffer[v], q)
    BY <2>2, <1>4, <1>5 DEF IngestionInv, NoHoleBelowBuffer
  <2>3. QED
    BY <2>1, <2>2, <1>4
<1>12. NoHoleBelowPosition'
  <2> SUFFICES ASSUME NEW q \in Partitions, owner[q] \in Writers, owner[q] \in group,
                      NEW h \in 0..(position'[q] - 1)
               PROVE  h \in Accounted(q)' \cup Rows(buffer'[owner[q]], q)
    BY <1>2 DEF NoHoleBelowPosition
  <2>1. CASE q = p
    <3>1. position'[p] = o + 1
      BY <1>2 DEF IngestionInv, TypeOK
    <3>2. h = o \/ h \in 0..(o - 1)
      BY <1>1, <2>1, <3>1
    <3>3. QED
      BY <3>2, <2>1, <1>1, <1>4, <1>10
  <2>2. CASE q # p
    <3>1. position'[q] = position[q]
      BY <1>2, <2>2 DEF IngestionInv, TypeOK
    <3>2. QED
      BY <3>1, <2>2, <1>4, <1>5 DEF IngestionInv, NoHoleBelowPosition
  <2>3. QED
    BY <2>1, <2>2
<1>13. FlushProgress'
  <2>1. written[w] = {}
    BY <1>1 DEF IngestionInv, FlushProgress
  <2>2. QED
    BY <1>2, <1>4, <2>1 DEF IngestionInv, FlushProgress
<1>14. QED
  BY <1>3, <1>7, <1>8, <1>9, <1>11, <1>12, <1>13 DEF IngestionInv

\* Beginning a flush, or stopping, changes no record.
LEMMA PollNoneKeepsIngestionInv ==
    ASSUME IngestionInv, NEW w \in Writers, PollNone(w)
    PROVE  IngestionInv'
<1>1. ASSUME NEW last \in {FALSE, StopsWhenIdle}, BeginFlush(w, last),
             pc[w] = "polling",
             UNCHANGED <<brokerVars, buffer, consumed, written, store, today,
                         faults, historyVars>>
      PROVE  IngestionInv'
  <2> USE <1>1 DEF IngestionInv, BeginFlush, brokerVars, historyVars
  <2>1. TypeOK'
    BY ConfigAssumption DEF TypeOK
  <2>2. FlushProgress'
    BY DEF FlushProgress, TypeOK, Members
  <2>3. QED
    BY <2>1, <2>2 DEF CommittedIsVerified, BufferedIsBounded, NothingInvented,
       NoHoleBelowBuffer, NoHoleBelowPosition, Accounted
<1>2. ASSUME Close(w),
             UNCHANGED <<logEnd, logStart, committed, owner, position, store,
                         today, faults, historyVars>>
      PROVE  IngestionInv'
  BY <1>2, FailKeepsIngestionInv DEF IngestionInv, TypeOK
<1>3. QED
  BY <1>1, <1>2 DEF PollNone, brokerVars

\* A put changes the store and the writer's place in the flush.
LEMMA PutObjectKeepsIngestionInv ==
    ASSUME IngestionInv, NEW w \in Writers, PutObject(w)
    PROVE  IngestionInv'
<1>0. faults' \in Nat
  <2>1. faults \in Nat
    BY DEF IngestionInv, TypeOK
  <2>2. faults' = faults \/ faults' = faults + 1
    BY DEF PutObject, Fault
  <2>3. QED
    BY <2>1, <2>2
<1>1. PICK p \in PartitionsOf(buffer[w]) :
         \/ /\ Close(w)
            /\ store' \in {store, StoreWith(ObjectFor(w, p))}
         \/ /\ store' = StoreWith(ObjectFor(w, p))
            /\ pc' = [pc EXCEPT ![w] = "verifying"]
            /\ UNCHANGED <<group, buffer, consumed, written, flushDate,
                           stopping, faults>>
  BY DEF PutObject
<1>2. /\ UNCHANGED <<logEnd, logStart, committed, owner, position, today, historyVars>>
      /\ store' \in {store, StoreWith(ObjectFor(w, p))}
  BY <1>1 DEF PutObject
<1>3. /\ store' \subseteq Object
      /\ \A x \in store' : \A o \in x.rows : o < logEnd[x.part]
  BY <1>2, StoreStaysSound
<1>4. CASE Close(w)
  <2>1. /\ committed' \in [Partitions -> Nat \cup {NoOffset}]
        /\ CommittedIsVerified'
        /\ rewound' \in BOOLEAN
    BY <1>2 DEF IngestionInv, TypeOK, CommittedIsVerified, historyVars
  <2>2. QED
    BY <1>0, <1>2, <1>3, <1>4, <2>1, CloseKeepsIngestionInv DEF historyVars
<1>5. CASE /\ pc' = [pc EXCEPT ![w] = "verifying"]
           /\ UNCHANGED <<group, buffer, consumed, written, flushDate, stopping, faults>>
  <2> USE <1>2, <1>5 DEF IngestionInv, historyVars
  <2>1. TypeOK'
    BY <1>3 DEF TypeOK
  <2>2. NothingInvented'
    BY <1>3 DEF NothingInvented, Accounted
  <2>3. FlushProgress'
    BY DEF FlushProgress, TypeOK, Members
  <2>4. QED
    BY <2>1, <2>2, <2>3 DEF CommittedIsVerified, BufferedIsBounded,
       NoHoleBelowBuffer, NoHoleBelowPosition, Accounted
<1>6. QED
  BY <1>1, <1>4, <1>5

\* A matching HEAD makes the group's rows, and only rows of the log, durable.
LEMMA VerifiedRows ==
    ASSUME IngestionInv, NEW w \in Writers, NEW p \in PartitionsOf(buffer[w])
    PROVE  /\ HeadMatches(w, p) => Rows(buffer[w], p) \subseteq StoredRows(w, p)
           /\ StoredRows(w, p) \subseteq Nat
           /\ \A o \in StoredRows(w, p) : o < logEnd[p]
<1>1. ObjectFor(w, p).rows = Rows(buffer[w], p) /\ ObjectFor(w, p).part = p
  BY ObjectIsTyped
<1>2. store \subseteq Object /\ \A x \in store : \A o \in x.rows : o < logEnd[x.part]
  BY DEF IngestionInv, TypeOK, NothingInvented
<1>3. HeadMatches(w, p) => Rows(buffer[w], p) \subseteq StoredRows(w, p)
  BY <1>1 DEF HeadMatches, StoredRows, SameKey
<1>4. StoredRows(w, p) \subseteq Nat
  BY <1>2 DEF StoredRows, Object
<1>5. \A o \in StoredRows(w, p) : o < logEnd[p]
  BY <1>1, <1>2 DEF StoredRows, SameKey
<1>6. QED
  BY <1>3, <1>4, <1>5

\* A verified group, or a batch that is given up.
LEMMA VerifyObjectKeepsIngestionInv ==
    ASSUME IngestionInv, NEW w \in Writers, VerifyObject(w)
    PROVE  IngestionInv'
<1>1. UNCHANGED <<logEnd, logStart, committed, owner, position, store, today,
                  skipped, rewound, overtaken>>
  BY DEF VerifyObject
<1>2. ASSUME NEW p \in PartitionsOf(buffer[w]), HeadMatches(w, p),
             verified' = [verified EXCEPT ![p] = @ \cup StoredRows(w, p)],
             written' = [written EXCEPT ![w] = @ \cup {p}],
             pc' = [pc EXCEPT ![w] =
                      IF LastGroup(w, p) THEN "committing" ELSE "putting"],
             UNCHANGED <<group, buffer, consumed, flushDate, stopping, faults>>
      PROVE  IngestionInv'
  <2> USE <1>1, <1>2
  <2>1. /\ p \in Partitions
        /\ Rows(buffer[w], p) \subseteq StoredRows(w, p)
        /\ StoredRows(w, p) \subseteq Nat
        /\ \A o \in StoredRows(w, p) : o < logEnd[p]
    BY GroupEnds, VerifiedRows
  <2>2. /\ verified'[p] = verified[p] \cup StoredRows(w, p)
        /\ \A q \in Partitions : verified[q] \subseteq verified'[q]
        /\ \A q \in Partitions : Accounted(q) \subseteq Accounted(q)'
        /\ \A q \in Partitions \ {p} : Accounted(q) = Accounted(q)'
        /\ Accounted(p)' = Accounted(p) \cup StoredRows(w, p)
    BY <2>1 DEF IngestionInv, TypeOK, Accounted
  <2>3. TypeOK'
    BY <2>1 DEF IngestionInv, TypeOK
  <2>4. CommittedIsVerified'
    BY <2>2 DEF IngestionInv, CommittedIsVerified
  <2>5. BufferedIsBounded'
    BY DEF IngestionInv, BufferedIsBounded
  <2>6. NothingInvented'
    <3>1. \A q \in Partitions : \A o \in Accounted(q)' : o < logEnd[q]
      BY <2>1, <2>2 DEF IngestionInv, NothingInvented
    <3>2. QED
      BY <3>1 DEF IngestionInv, NothingInvented
  <2>7. NoHoleBelowBuffer'
    BY <2>2 DEF IngestionInv, NoHoleBelowBuffer
  <2>8. NoHoleBelowPosition'
    BY <2>2 DEF IngestionInv, NoHoleBelowPosition
  <2>9. FlushProgress'
    <3> SUFFICES ASSUME NEW v \in Writers
                 PROVE  /\ \A q \in written'[v] : Rows(buffer[v], q) \subseteq verified'[q]
                        /\ pc'[v] \in {"down", "polling"} => written'[v] = {}
                        /\ pc'[v] = "committing" => PartitionsOf(buffer[v]) \subseteq written'[v]
      BY DEF FlushProgress
    <3>1. written[v] \subseteq Partitions /\ v \in Members
      BY DEF IngestionInv, TypeOK, Members
    <3>2. \A q \in written[v] : Rows(buffer[v], q) \subseteq verified'[q]
      BY <2>2, <3>1 DEF IngestionInv, FlushProgress
    <3>3. CASE v = w
      <4>1. /\ written'[w] = written[w] \cup {p}
            /\ pc'[w] = IF LastGroup(w, p) THEN "committing" ELSE "putting"
        BY <3>1, <3>3 DEF IngestionInv, TypeOK
      <4>2. QED
        BY <4>1, <3>2, <3>3, <2>1, <2>2 DEF LastGroup
    <3>4. CASE v # w
      <4>1. written'[v] = written[v] /\ pc'[v] = pc[v]
        BY <3>1, <3>4 DEF IngestionInv, TypeOK
      <4>2. QED
        BY <4>1, <3>2 DEF IngestionInv, FlushProgress
    <3>5. QED
      BY <3>3, <3>4
  <2>10. QED
    BY <2>3, <2>4, <2>5, <2>6, <2>7, <2>8, <2>9 DEF IngestionInv
<1>3. ASSUME Close(w), faults' = faults \/ faults' = faults + 1, UNCHANGED verified
      PROVE  IngestionInv'
  <2>1. faults' \in Nat
    BY <1>3 DEF IngestionInv, TypeOK
  <2>2. QED
    BY <1>1, <1>3, <2>1, FailKeepsIngestionInv DEF historyVars
<1>4. QED
  BY <1>2, <1>3 DEF VerifyObject, Fault

\* Whichever partitions of a verified batch are committed, what lies below
\* the committed offsets is accounted for.
LEMMA CommitIsSafe ==
    ASSUME IngestionInv, NEW w \in Writers, pc[w] = "committing",
           NEW parts \in SUBSET PartitionsOf(buffer[w]), CommitAll(w, parts),
           UNCHANGED <<verified, skipped>>
    PROVE  /\ committed' \in [Partitions -> Nat \cup {NoOffset}]
           /\ rewound' \in BOOLEAN
           /\ CommittedIsVerified'
<1>1. ASSUME NEW p \in parts
      PROVE  /\ CommitOffset(buffer[w], p) \in Nat
             /\ CommitOffset(buffer[w], p) - 1 \in Rows(buffer[w], p)
  BY GroupEnds
<1>2. committed' \in [Partitions -> Nat \cup {NoOffset}]
  BY <1>1 DEF CommitAll, IngestionInv, TypeOK
<1>3. CommittedIsVerified'
  <2> SUFFICES ASSUME NEW p \in Partitions, NEW h \in 0..(committed'[p] - 1)
               PROVE  h \in Accounted(p)
    BY DEF CommittedIsVerified, Accounted
  <2>1. CASE p \in parts
    <3> DEFINE last == CommitOffset(buffer[w], p) - 1
    <3>1. committed'[p] - 1 = last /\ last \in Rows(buffer[w], p)
      BY <1>1, <2>1 DEF CommitAll
    <3>2. h = last \/ h \in 0..(last - 1)
      BY <3>1, <1>1, <2>1
    <3>3. h \in Accounted(p) \cup Rows(buffer[w], p)
      BY <3>1, <3>2 DEF IngestionInv, NoHoleBelowBuffer
    <3>4. Rows(buffer[w], p) \subseteq verified[p]
      BY <2>1 DEF IngestionInv, FlushProgress
    <3>5. QED
      BY <3>3, <3>4 DEF Accounted
  <2>2. CASE p \notin parts
    BY <2>2 DEF CommitAll, IngestionInv, CommittedIsVerified, Accounted
  <2>3. QED
    BY <2>1, <2>2
<1>4. rewound' \in BOOLEAN
  BY DEF CommitAll, IngestionInv, TypeOK
<1>5. QED
  BY <1>2, <1>3, <1>4

\* A commit, its partial failure and its lost answer.
LEMMA CommitOffsetsKeepsIngestionInv ==
    ASSUME IngestionInv, NEW w \in Writers, CommitOffsets(w)
    PROVE  IngestionInv'
<1>1. /\ pc[w] = "committing"
      /\ UNCHANGED <<logEnd, logStart, owner, position, store, today,
                     verified, skipped, overtaken>>
  BY DEF CommitOffsets
<1>2. /\ store' \subseteq Object
      /\ \A x \in store' : \A o \in x.rows : o < logEnd[x.part]
  BY <1>1 DEF IngestionInv, TypeOK, NothingInvented
<1>3. ASSUME Close(w), faults' = faults \/ faults' = faults + 1,
             NEW parts \in SUBSET PartitionsOf(buffer[w]), CommitAll(w, parts)
      PROVE  IngestionInv'
  <2>1. faults' \in Nat
    BY <1>3 DEF IngestionInv, TypeOK
  <2>2. /\ committed' \in [Partitions -> Nat \cup {NoOffset}]
        /\ rewound' \in BOOLEAN
        /\ CommittedIsVerified'
    BY <1>1, <1>3, CommitIsSafe
  <2>3. QED
    BY <1>1, <1>2, <1>3, <2>1, <2>2, CloseKeepsIngestionInv
<1>4. ASSUME Close(w), UNCHANGED <<committed, rewound, faults>>
      PROVE  IngestionInv'
  BY <1>1, <1>4, FailKeepsIngestionInv DEF IngestionInv, TypeOK, historyVars
<1>5. ASSUME CommitAll(w, PartitionsOf(buffer[w])),
             pc' = [pc EXCEPT ![w] = "polling"],
             buffer' = [buffer EXCEPT ![w] = << >>],
             written' = [written EXCEPT ![w] = {}],
             flushDate' = [flushDate EXCEPT ![w] = 0],
             UNCHANGED <<group, consumed, stopping, faults>>
      PROVE  IngestionInv'
  <2>1. /\ committed' \in [Partitions -> Nat \cup {NoOffset}]
        /\ rewound' \in BOOLEAN
        /\ CommittedIsVerified'
    BY <1>1, <1>5, CommitIsSafe
  <2>2. /\ w \in Members
        /\ \A v \in Writers \ {w} : /\ pc'[v] = pc[v]
                                    /\ buffer'[v] = buffer[v]
                                    /\ written'[v] = written[v]
        /\ pc'[w] = "polling" /\ buffer'[w] = << >> /\ written'[w] = {}
        /\ \A p \in Partitions : Accounted(p)' = Accounted(p)
    BY <1>1, <1>5 DEF IngestionInv, TypeOK, Members, Accounted
  <2>3. \A p : Rows(buffer'[w], p) = {}
    BY <2>2, EmptyBatch
  <2>4. TypeOK'
    <3>1. << >> \in Seq(Record)
      OBVIOUS
    <3>2. buffer' \in [Writers -> Seq(Record)]
      BY <3>1, <1>5 DEF IngestionInv, TypeOK
    <3>3. QED
      BY <1>1, <1>5, <2>1, <2>2, <3>2 DEF IngestionInv, TypeOK
  <2>5. BufferedIsBounded'
    BY <2>2, <2>3 DEF IngestionInv, BufferedIsBounded
  <2>6. NothingInvented'
    BY <1>1, <2>2, <2>3 DEF IngestionInv, NothingInvented
  <2>7. NoHoleBelowBuffer'
    BY <2>2, <2>3 DEF IngestionInv, NoHoleBelowBuffer
  <2>8. NoHoleBelowPosition'
    <3>1. \A p \in Partitions : Rows(buffer[w], p) \subseteq Accounted(p)
      <4> TAKE p \in Partitions
      <4>1. CASE p \in PartitionsOf(buffer[w])
        BY <4>1, <1>1 DEF IngestionInv, FlushProgress, Accounted
      <4>2. CASE p \notin PartitionsOf(buffer[w])
        BY <4>2 DEF PartitionsOf, Rows
      <4>3. QED
        BY <4>1, <4>2
    <3> SUFFICES ASSUME NEW p \in Partitions, owner[p] \in Writers, owner[p] \in group,
                        NEW h \in 0..(position[p] - 1)
                 PROVE  h \in Accounted(p) \cup Rows(buffer'[owner[p]], p)
      BY <1>1, <1>5, <2>2 DEF NoHoleBelowPosition
    <3>2. h \in Accounted(p) \cup Rows(buffer[owner[p]], p)
      BY DEF IngestionInv, NoHoleBelowPosition
    <3>3. QED
      BY <2>2, <3>1, <3>2
  <2>9. FlushProgress'
    BY <1>1, <2>2 DEF IngestionInv, FlushProgress
  <2>10. QED
    BY <2>1, <2>4, <2>5, <2>6, <2>7, <2>8, <2>9 DEF IngestionInv
<1>6. QED
  BY <1>3, <1>4, <1>5 DEF CommitOffsets, Fault

\* A crash or an interrupt drops a buffer and commits nothing.
LEMMA AbortKeepsIngestionInv ==
    ASSUME IngestionInv, NEW w \in Writers, Abort(w)
    PROVE  IngestionInv'
<1>1. faults' \in Nat
  BY DEF Abort, Fault, IngestionInv, TypeOK
<1>2. QED
  BY <1>1, FailKeepsIngestionInv DEF Abort

\* Every step keeps the inductive invariant.
LEMMA NextKeepsIngestionInv == IngestionInv /\ [Next]_vars => IngestionInv'
<1> SUFFICES ASSUME IngestionInv, [Next]_vars PROVE IngestionInv'
  OBVIOUS
<1>1. CASE Next
  <2>1. CASE \E p \in Partitions : Produce(p)
    BY <2>1, ProduceKeepsIngestionInv
  <2>2. CASE (\E p \in Partitions : Expire(p)) \/ NextDay
    BY <2>2, OtherStepsKeepIngestionInv
  <2>3. CASE Rebalance \/ \E m \in Members : LoseMembership(m)
    BY <2>3, RebalanceKeepsIngestionInv, LoseMembershipKeepsIngestionInv
  <2>4. CASE \E p \in Partitions : FetchOffset(p)
    BY <2>4, FetchOffsetKeepsIngestionInv
  <2>5. CASE \E c \in Consoles :
               StartConsole(c) \/ (\E p \in Partitions : PollConsole(c, p)) \/ StopConsole(c)
    BY <2>5, ConsoleKeepsIngestionInv
  <2>6. CASE \E w \in Writers : StartWriter(w)
    BY <2>6, StartWriterKeepsIngestionInv
  <2>7. CASE \E w \in Writers, p \in Partitions : PollRecord(w, p)
    BY <2>7, PollRecordKeepsIngestionInv
  <2>8. CASE \E w \in Writers : PollNone(w)
    BY <2>8, PollNoneKeepsIngestionInv
  <2>9. CASE \E w \in Writers : PutObject(w)
    BY <2>9, PutObjectKeepsIngestionInv
  <2>10. CASE \E w \in Writers : VerifyObject(w)
    BY <2>10, VerifyObjectKeepsIngestionInv
  <2>11. CASE \E w \in Writers : CommitOffsets(w)
    BY <2>11, CommitOffsetsKeepsIngestionInv
  <2>12. CASE \E w \in Writers : Abort(w)
    BY <2>12, AbortKeepsIngestionInv
  <2>13. QED
    BY <1>1, <2>1, <2>2, <2>3, <2>4, <2>5, <2>6, <2>7, <2>8, <2>9, <2>10,
       <2>11, <2>12 DEF Next
<1>2. CASE UNCHANGED vars
  BY <1>2 DEF vars, brokerVars, writerVars, historyVars, IngestionInv, TypeOK,
     CommittedIsVerified, BufferedIsBounded, NothingInvented,
     NoHoleBelowBuffer, NoHoleBelowPosition, FlushProgress, Accounted
<1>3. QED
  BY <1>1, <1>2

\* The inductive invariant holds throughout.
THEOREM IngestionInvHolds == Spec => []IngestionInv
<1>1. Init => IngestionInv
  BY InitEstablishesIngestionInv
<1>2. IngestionInv /\ [Next]_vars => IngestionInv'
  BY NextKeepsIngestionInv
<1>3. QED
  BY <1>1, <1>2, PTL DEF Spec

\* Every variable keeps its type: an object's range always has two ends, a
\* commit always has an offset to send.
THEOREM TypeCorrect == Spec => []TypeOK
<1>1. IngestionInv => TypeOK
  BY DEF IngestionInv
<1>2. QED
  BY <1>1, IngestionInvHolds, PTL

\* At least once (bronze_writer.py:592-600), for any number of writers of the
\* group, rebalances, crashes and failed calls: below a committed offset
\* nothing is missing from the verified objects but what retention deleted.
THEOREM CommittedOffsetsAreVerified == Spec => []CommittedIsVerified
<1>1. IngestionInv => CommittedIsVerified
  BY DEF IngestionInv
<1>2. QED
  BY <1>1, IngestionInvHolds, PTL

-----------------------------------------------------------------------------
(* BronzeIngestion implements AtLeastOnce *)

durableNow == [p \in Partitions |-> verified[p] \cup skipped[p]]
ackedNow == [p \in Partitions |-> IF committed[p] = NoOffset THEN 0 ELSE committed[p]]

\* Accounting for more offsets is a Persist step of the promise.
LEMMA PersistStep ==
    ASSUME IngestionInv', UNCHANGED <<logEnd, committed>>,
           \A p \in Partitions : Accounted(p) \subseteq Accounted(p)'
    PROVE  Promise!Persist
<1>1. durableNow' \in [Partitions -> SUBSET Nat]
  BY DEF durableNow, IngestionInv, TypeOK
<1>2. \A p \in Partitions : \A o \in durableNow'[p] : o < logEnd[p]
  BY DEF durableNow, IngestionInv, NothingInvented, Accounted
<1>3. \A p \in Partitions : durableNow[p] \subseteq durableNow'[p]
  BY DEF durableNow, Accounted
<1>4. QED
  BY <1>1, <1>2, <1>3 DEF Promise!Persist, durableNow

\* Moving committed offsets is an Acknowledge step.
LEMMA AcknowledgeStep ==
    ASSUME IngestionInv', UNCHANGED <<logEnd, verified, skipped>>
    PROVE  Promise!Acknowledge
<1>1. ackedNow' \in [Partitions -> Nat]
  BY DEF ackedNow, IngestionInv, TypeOK
<1>2. ASSUME NEW p \in Partitions, NEW h \in 0..(ackedNow'[p] - 1)
      PROVE  h \in durableNow[p]
  <2>1. committed'[p] \in Nat \cup {NoOffset}
    BY DEF IngestionInv, TypeOK
  <2>2. h \in 0..(committed'[p] - 1)
    BY <1>2, <2>1 DEF ackedNow, NoOffset
  <2>3. QED
    BY <2>2 DEF IngestionInv, CommittedIsVerified, durableNow
<1>3. QED
  BY <1>1, <1>2 DEF Promise!Acknowledge, durableNow, ackedNow

\* Every step of the writers is a step of the promise or a stutter.
LEMMA StepSimulation ==
    ASSUME IngestionInv, IngestionInv', [Next]_vars
    PROVE  [Promise!Next]_(Promise!vars)
<1>1. CASE UNCHANGED <<logEnd, committed, verified, skipped>>
  BY <1>1 DEF Promise!vars, historyVars
<1>2. ASSUME NEW p \in Partitions, Produce(p)
      PROVE  Promise!Produce(p)
  BY <1>2 DEF Produce, Promise!Produce, historyVars
<1>3. ASSUME NEW w \in Writers, NEW p \in Partitions, PollRecord(w, p)
      PROVE  Promise!Persist
  <2>1. /\ UNCHANGED <<logEnd, committed, verified>>
        /\ \A q \in Partitions : skipped[q] \subseteq skipped'[q]
    BY <1>3 DEF PollRecord, IngestionInv, TypeOK
  <2>2. QED
    BY <2>1, PersistStep DEF Accounted
<1>4. ASSUME NEW w \in Writers, VerifyObject(w)
      PROVE  Promise!Persist
  <2>1. /\ UNCHANGED <<logEnd, committed, skipped>>
        /\ \/ UNCHANGED verified
           \/ \E p \in PartitionsOf(buffer[w]) :
                 verified' = [verified EXCEPT ![p] = @ \cup StoredRows(w, p)]
    BY <1>4 DEF VerifyObject
  <2>2. \A q \in Partitions : verified[q] \subseteq verified'[q]
    <3>1. ASSUME NEW p, NEW rows, NEW q \in Partitions,
                 verified' = [verified EXCEPT ![p] = @ \cup rows]
          PROVE  verified[q] \subseteq verified'[q]
      BY <3>1 DEF IngestionInv, TypeOK
    <3>2. QED
      BY <2>1, <3>1
  <2>3. QED
    BY <2>1, <2>2, PersistStep DEF Accounted
<1>5. ASSUME NEW w \in Writers, CommitOffsets(w)
      PROVE  Promise!Acknowledge
  BY <1>5, AcknowledgeStep DEF CommitOffsets
<1>6. ASSUME Next
      PROVE  \/ UNCHANGED <<logEnd, committed, verified, skipped>>
             \/ \E p \in Partitions : Produce(p)
             \/ \E w \in Writers, p \in Partitions : PollRecord(w, p)
             \/ \E w \in Writers : VerifyObject(w)
             \/ \E w \in Writers : CommitOffsets(w)
  <2>1. CASE \/ \E p \in Partitions : Expire(p) \/ FetchOffset(p)
             \/ NextDay
             \/ Rebalance \/ \E m \in Members : LoseMembership(m)
    BY <2>1 DEF Expire, FetchOffset, NextDay, Rebalance, LoseMembership, brokerVars, historyVars
  <2>2. CASE \E c \in Consoles :
               StartConsole(c) \/ (\E p \in Partitions : PollConsole(c, p)) \/ StopConsole(c)
    BY <2>2 DEF StartConsole, PollConsole, StopConsole, brokerVars, historyVars
  <2>3. CASE \E w \in Writers : StartWriter(w) \/ PollNone(w) \/ PutObject(w) \/ Abort(w)
    BY <2>3 DEF StartWriter, PollNone, PutObject, Abort, brokerVars, historyVars
  <2>4. QED
    BY <1>6, <2>1, <2>2, <2>3 DEF Next
<1>7. QED
  BY <1>1, <1>2, <1>3, <1>4, <1>5, <1>6 DEF Promise!Next, vars, brokerVars, historyVars

\* Every behaviour of the writers, the group and the store is one that the
\* abstract at-least-once reader allows.
THEOREM Refinement == Spec => ImplementsPromise
<1>1. Init => Promise!Init
  BY DEF Init, Promise!Init, NoOffset
<1>2. IngestionInv /\ IngestionInv' /\ [Next]_vars => [Promise!Next]_(Promise!vars)
  BY StepSimulation
<1>3. QED
  BY <1>1, <1>2, IngestionInvHolds, PTL DEF Spec, ImplementsPromise, Promise!Spec

=============================================================================
