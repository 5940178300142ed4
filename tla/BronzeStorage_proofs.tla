------------------------ MODULE BronzeStorage_proofs ------------------------
(***************************************************************************)
(* What a committed offset says about the bucket, for every number of       *)
(* writers, partitions and records: as long as no commit moves an offset    *)
(* back, no later put takes a committed record out of it                    *)
(* (CommittedIsStored).  StoreInv is the inductive invariant, IngestionInv gives  *)
(* the types.                                                               *)
(***************************************************************************)
EXTENDS BronzeIngestion_proofs

-----------------------------------------------------------------------------
(* What KeptBefore contains, and what a put does to it *)

\* A later end keeps more.
LEMMA KeptMonotone ==
    ASSUME TypeOK, NEW p \in Partitions, NEW m \in Int, NEW n \in Int, m <= n
    PROVE  KeptBefore(p, m) \subseteq KeptBefore(p, n)
<1>1. \A x \in store : x.hi \in Nat
  BY DEF TypeOK, Object
<1>2. \A x \in {y \in store : y.part = p /\ y.hi < m} :
          x \in {y \in store : y.part = p /\ y.hi < n}
  BY <1>1
<1>3. QED
  BY <1>2 DEF KeptBefore

\* A bucket and a set of skipped offsets that only grow keep what they had.
LEMMA KeptStays ==
    ASSUME NEW p \in Partitions, NEW n, store \subseteq store',
           skipped[p] \subseteq skipped'[p]
    PROVE  KeptBefore(p, n) \subseteq KeptBefore(p, n)'
BY DEF KeptBefore

\* The last offset of a group is its greatest one, the first its least.
LEMMA EndsBound ==
    ASSUME IngestionInv, NEW w \in Writers, NEW p \in PartitionsOf(buffer[w])
    PROVE  /\ Buffered(w, p) \subseteq Nat
           /\ \A h \in Buffered(w, p) :
                 StartOffset(Buffered(w, p)) <= h /\ h <= EndOffset(Buffered(w, p))
<1> DEFINE rows == Rows(buffer[w], p)
<1>1. rows \subseteq Nat /\ rows # {} /\ p \in Partitions
  BY RowsAreOffsets DEF IngestionInv, TypeOK
<1>2. /\ \E lo \in rows : \A h \in rows : lo <= h
      /\ \E hi \in rows : \A h \in rows : h <= hi
  BY <1>1 DEF IngestionInv, BufferedIsBounded
<1>3. QED
  BY <1>1, <1>2 DEF StartOffset, EndOffset, Buffered

\* The object of a group spans exactly its rows.
LEMMA ObjectIsRange ==
    ASSUME IngestionInv, NEW w \in Writers, NEW p \in PartitionsOf(buffer[w])
    PROVE  LET o == ObjectFor(w, p)
           IN  /\ o.part = p
               /\ o.rows = Buffered(w, p)
               /\ o.lo \in o.rows
               /\ o.hi \in o.rows
               /\ o.rows \subseteq o.lo..o.hi
               /\ o.hi = EndOffset(Buffered(w, p))
<1>1. /\ StartOffset(Buffered(w, p)) \in Buffered(w, p)
      /\ EndOffset(Buffered(w, p)) \in Buffered(w, p)
  BY GroupEnds DEF Buffered
<1>2. QED
  BY <1>1, EndsBound DEF ObjectFor, Buffered

\* Replacing the object of a key loses nothing: what the old object has and the
\* new one lacks is a hole, and holes are in objects that end earlier.
LEMMA PutKeeps ==
    ASSUME IngestionInv, KeysAreRanges, HolesAreKept,
           NEW w \in Writers, NEW p \in PartitionsOf(buffer[w]),
           store' = StoreWith(ObjectFor(w, p)), UNCHANGED skipped,
           NEW q \in Partitions, NEW n \in Int
    PROVE  KeptBefore(q, n) \subseteq KeptBefore(q, n)'
<1> DEFINE o == ObjectFor(w, p)
<1>1. /\ o.part = p /\ o.rows = Buffered(w, p)
      /\ o.lo \in o.rows /\ o.hi \in o.rows
  BY ObjectIsRange
<1>2. p \in Partitions /\ o.hi \in Nat /\ \A x \in store : x.hi \in Nat
  BY GroupEnds, ObjectIsTyped DEF IngestionInv, TypeOK, Object
<1>3. o \in store' /\ \A x \in store : SameKey(x, o) \/ x \in store'
  BY DEF StoreWith
<1> HIDE DEF o
<1> SUFFICES ASSUME NEW h \in KeptBefore(q, n)
             PROVE  h \in KeptBefore(q, n)'
  OBVIOUS
<1>4. CASE h \in skipped[q]
  BY <1>4 DEF KeptBefore
<1>5. ASSUME NEW x \in store, x.part = q, x.hi < n, h \in x.rows
      PROVE  h \in KeptBefore(q, n)'
  <2>1. CASE x \in store'
    BY <1>5, <2>1 DEF KeptBefore
  <2>2. CASE SameKey(x, o)
    <3>1. q = p /\ x.lo = o.lo /\ x.hi = o.hi
      BY <1>1, <1>5, <2>2 DEF SameKey
    <3>2. h \in o.lo..o.hi
      BY <1>5, <3>1 DEF KeysAreRanges
    <3>3. h \in Buffered(w, p) \cup KeptBefore(p, o.hi)
      BY <1>1, <1>2, <3>2 DEF HolesAreKept
    <3>4. CASE h \in Buffered(w, p)
      BY <1>1, <1>3, <1>5, <3>1, <3>4 DEF KeptBefore
    <3>5. CASE h \in skipped[p]
      BY <3>1, <3>5 DEF KeptBefore
    <3>6. ASSUME NEW y \in store, y.part = p, y.hi < o.hi, h \in y.rows
          PROVE  h \in KeptBefore(q, n)'
      <4>1. ~SameKey(y, o)
        BY <1>2, <3>6 DEF SameKey
      <4>2. y \in store' /\ y.hi < n
        BY <1>2, <1>3, <1>5, <3>1, <3>6, <4>1
      <4>3. QED
        BY <3>1, <3>6, <4>2 DEF KeptBefore
    <3>7. QED
      BY <3>3, <3>4, <3>5, <3>6 DEF KeptBefore
  <2>3. QED
    BY <1>3, <1>5, <2>1, <2>2
<1>6. QED
  BY <1>4, <1>5 DEF KeptBefore

-----------------------------------------------------------------------------
(* The steps that read nothing and fetch no position *)

\* A writer's buffer stays, with groups verified since, or is emptied.
BufferStays(w) ==
    /\ buffer'[w] = buffer[w]
    /\ \A p \in written'[w] :
          \/ p \in written[w]
          \/ Buffered(w, p) \subseteq KeptBefore(p, CommitOffset(buffer[w], p))
BufferEmptied(w) == buffer'[w] = << >> /\ written'[w] = {}

\* A reader loses its position, or goes on from it with what it had buffered
\* or has committed.
ReaderStays(w, p) ==
    \/ position'[p] = NoOffset
    \/ /\ Reads(w, p)
       /\ position'[p] = position[p]
       /\ \/ buffer'[w] = buffer[w]
          \/ \A h \in Buffered(w, p) : h < committed'[p]

\* No committed offset goes back, and what a new one covers is kept.
CommitsKeep ==
    \A p \in Partitions :
        /\ committed[p] <= committed'[p]
        /\ 0..(committed'[p] - 1) \subseteq KeptBefore(p, committed'[p])

\* What such a step must leave for StoreInv to hold after it.
LEMMA FrameKeepsStoreInv ==
    ASSUME IngestionInv, IngestionInv', StoreInv, KeysAreRanges', rewound => rewound',
           UNCHANGED skipped,
           \A w \in Writers : BufferStays(w) \/ BufferEmptied(w),
           \A w \in Writers, p \in Partitions : Reads(w, p)' => ReaderStays(w, p),
           ~rewound' =>
               /\ CommitsKeep
               /\ \A p \in Partitions : \A n \in Int :
                     KeptBefore(p, n) \subseteq KeptBefore(p, n)'
    PROVE  StoreInv'
<1> SUFFICES ASSUME ~rewound'
             PROVE  CommittedIsKept' /\ HolesAreKept' /\ UncommittedIsBuffered'
  BY DEF StoreInv
<1>1. CommittedIsKept /\ HolesAreKept /\ UncommittedIsBuffered
  BY DEF StoreInv
<1>2. \A p \in Partitions : \A n \in Int : KeptBefore(p, n) \subseteq KeptBefore(p, n)'
  OBVIOUS
<1>3. \A p \in Partitions :
         /\ committed[p] \in Int /\ committed'[p] \in Int
         /\ position[p] \in Int /\ position'[p] \in Int
  BY DEF IngestionInv, TypeOK, NoOffset
<1>4. \A w \in Writers, p \in Partitions : BufferEmptied(w) => Buffered(w, p)' = {}
  BY EmptyBatch DEF Buffered, BufferEmptied
<1>5. \A w \in Writers, p \in Partitions : 
         buffer'[w] = buffer[w] => Buffered(w, p)' = Buffered(w, p)
  BY DEF Buffered
<1>6. \A w \in Writers, p \in Partitions : Buffered(w, p) \subseteq Nat
  BY RowsAreOffsets DEF Buffered, IngestionInv, TypeOK
<1>7. CommittedIsKept'
  <2>1. ASSUME NEW p \in Partitions
        PROVE  0..(committed'[p] - 1) \subseteq KeptBefore(p, committed[p])'
    BY <1>2, <1>3 DEF CommitsKeep
  <2>2. ASSUME NEW w \in Writers, NEW p \in written'[w]
        PROVE  Buffered(w, p)' \subseteq KeptBefore(p, CommitOffset(buffer[w], p))'
    <3>1. CASE BufferEmptied(w)
      BY <3>1, <1>4, <2>2 DEF BufferEmptied
    <3>2. CASE BufferStays(w)
      <4>1. Buffered(w, p) \subseteq KeptBefore(p, CommitOffset(buffer[w], p))
        BY <1>1, <2>2, <3>2 DEF BufferStays, CommittedIsKept
      <4>2. p \in Partitions
        BY <2>2 DEF IngestionInv, TypeOK
      <4>3. CASE p \in PartitionsOf(buffer[w])
        <5>1. CommitOffset(buffer[w], p) \in Int
          BY <4>3, GroupEnds
        <5>2. CommitOffset(buffer[w], p)' = CommitOffset(buffer[w], p)
          BY <3>2 DEF BufferStays, CommitOffset
        <5>3. KeptBefore(p, CommitOffset(buffer[w], p)) \subseteq
                  KeptBefore(p, CommitOffset(buffer[w], p))'
          BY <1>2, <4>2, <5>1, <5>2, <3>2 DEF BufferStays, KeptBefore
        <5>4. QED
          BY <1>5, <4>1, <4>2, <5>3, <3>2 DEF BufferStays, KeptBefore
      <4>4. CASE p \notin PartitionsOf(buffer[w])
        <5>1. Buffered(w, p) = {}
          BY <4>4 DEF Buffered, Rows, PartitionsOf
        <5>2. QED
          BY <1>5, <4>2, <5>1, <3>2 DEF BufferStays
      <4>5. QED
        BY <4>3, <4>4
    <3>3. QED
      BY <3>1, <3>2
  <2>3. QED
    BY <2>1, <2>2 DEF CommittedIsKept
<1>8. HolesAreKept'
  <2> SUFFICES ASSUME NEW w \in Writers, NEW p \in Partitions, NEW lo \in Buffered(w, p)'
               PROVE  /\ \A hi \in Buffered(w, p)' :
                            lo..hi \subseteq Buffered(w, p)' \cup KeptBefore(p, hi)'
                      /\ Reads(w, p)' =>
                            lo..(position'[p] - 1) \subseteq
                                Buffered(w, p)' \cup KeptBefore(p, position[p])'
    BY DEF HolesAreKept
  <2>1. buffer'[w] = buffer[w]
    BY <1>4 DEF BufferStays
  <2>2. Buffered(w, p)' = Buffered(w, p) /\ lo \in Nat
    BY <1>5, <1>6, <2>1
  <2>3. ASSUME NEW hi \in Buffered(w, p)
        PROVE  lo..hi \subseteq Buffered(w, p) \cup KeptBefore(p, hi)'
    <3>1. lo..hi \subseteq Buffered(w, p) \cup KeptBefore(p, hi)
      BY <1>1, <2>2 DEF HolesAreKept
    <3>2. hi \in Int
      BY <1>6
    <3>3. KeptBefore(p, hi) \subseteq KeptBefore(p, hi)'
      BY <1>2, <3>2
    <3>4. QED
      BY <3>1, <3>3
  <2>4. ASSUME Reads(w, p)'
        PROVE  lo..(position'[p] - 1) \subseteq
                   Buffered(w, p) \cup KeptBefore(p, position[p])'
    <3>1. CASE position'[p] = NoOffset
      BY <2>2, <3>1 DEF NoOffset
    <3>2. CASE Reads(w, p) /\ position'[p] = position[p]
      <4>1. lo..(position[p] - 1) \subseteq Buffered(w, p) \cup KeptBefore(p, position[p])
        BY <1>1, <2>2, <3>2 DEF HolesAreKept
      <4>2. KeptBefore(p, position[p]) \subseteq KeptBefore(p, position[p])'
        BY <1>2, <1>3, <3>2 DEF KeptBefore
      <4>3. QED
        BY <4>1, <4>2, <3>2 DEF KeptBefore
    <3>3. QED
      BY <2>4, <3>1, <3>2 DEF ReaderStays
  <2>5. QED
    BY <2>2, <2>3, <2>4
<1>9. UncommittedIsBuffered'
  <2> SUFFICES ASSUME NEW w \in Writers, NEW p \in Partitions
               PROVE  /\ \A hi \in Buffered(w, p)' : \A h \in 0..hi :
                            h >= committed'[p] => h \in Buffered(w, p)' \cup skipped[p]
                      /\ Reads(w, p)' => \A h \in 0..(position'[p] - 1) :
                            h >= committed'[p] => h \in Buffered(w, p)' \cup skipped[p]
                      /\ Reads(w, p)' /\ position'[p] # NoOffset =>
                            \A hi \in Buffered(w, p)' :
                               position'[p]..hi \subseteq Buffered(w, p)' \cup skipped[p]
    BY DEF UncommittedIsBuffered
  <2>0. committed[p] \in Int /\ committed'[p] \in Int /\ committed[p] <= committed'[p]
    BY <1>3 DEF CommitsKeep
  <2>1. ASSUME NEW hi \in Buffered(w, p)', NEW h \in 0..hi, h >= committed'[p]
        PROVE  h \in Buffered(w, p)' \cup skipped[p]
    <3>1. buffer'[w] = buffer[w]
      BY <1>4, <2>1 DEF BufferStays
    <3>2. Buffered(w, p)' = Buffered(w, p) /\ hi \in Nat
      BY <1>5, <1>6, <2>1, <3>1
    <3>3. h >= committed[p]
      BY <2>0, <2>1, <3>2
    <3>4. QED
      BY <1>1, <2>1, <3>2, <3>3 DEF UncommittedIsBuffered
  <2>2. ASSUME Reads(w, p)', NEW h \in 0..(position'[p] - 1), h >= committed'[p]
        PROVE  h \in Buffered(w, p)' \cup skipped[p]
    <3>1. position'[p] # NoOffset
      BY <2>2 DEF NoOffset
    <3>2. Reads(w, p) /\ position'[p] = position[p]
      BY <2>2, <3>1 DEF ReaderStays
    <3>3. h >= committed[p]
      BY <1>3, <2>0, <2>2
    <3>4. h \in Buffered(w, p) \cup skipped[p]
      BY <1>1, <2>2, <3>2, <3>3 DEF UncommittedIsBuffered
    <3>5. CASE buffer'[w] = buffer[w]
      BY <1>5, <3>4, <3>5
    <3>6. CASE \A i \in Buffered(w, p) : i < committed'[p]
      BY <2>0, <2>2, <1>3, <3>4, <3>6
    <3>7. QED
      BY <2>2, <3>1, <3>5, <3>6 DEF ReaderStays
  <2>3. ASSUME Reads(w, p)', position'[p] # NoOffset, NEW hi \in Buffered(w, p)'
        PROVE  position'[p]..hi \subseteq Buffered(w, p)' \cup skipped[p]
    <3>1. Reads(w, p) /\ position'[p] = position[p]
      BY <2>3 DEF ReaderStays
    <3>2. buffer'[w] = buffer[w]
      BY <1>4, <2>3 DEF BufferStays
    <3>3. Buffered(w, p)' = Buffered(w, p)
      BY <1>5, <3>2
    <3>4. QED
      BY <1>1, <2>3, <3>1, <3>3 DEF UncommittedIsBuffered
  <2>4. QED
    BY <2>1, <2>2, <2>3
<1>10. QED
  BY <1>7, <1>8, <1>9

-----------------------------------------------------------------------------
(* Each action *)

\* Nothing is stored, committed or buffered at first.
LEMMA InitEstablishesStoreInv == Init => StoreInv
<1> SUFFICES ASSUME Init PROVE StoreInv
  OBVIOUS
<1>1. /\ store = {}
      /\ \A p \in Partitions : committed[p] = -1 /\ position[p] = -1
      /\ \A w \in Writers : written[w] = {}
  BY DEF Init, NoOffset
<1>2. \A w \in Writers, p \in Partitions : Buffered(w, p) = {}
  BY EmptyBatch DEF Init, Buffered
<1>3. KeysAreRanges /\ CommittedIsKept /\ HolesAreKept /\ UncommittedIsBuffered
  BY <1>1, <1>2 DEF KeysAreRanges, CommittedIsKept, HolesAreKept, UncommittedIsBuffered
<1>4. QED
  BY <1>3 DEF StoreInv

\* While nothing was committed anew, every offset stays where it was.
LEMMA NoCommitKeeps ==
    ASSUME IngestionInv, StoreInv, ~rewound, UNCHANGED committed
    PROVE  CommitsKeep
<1>1. \A p \in Partitions : committed[p] \in Int
  BY DEF IngestionInv, TypeOK, NoOffset
<1>2. QED
  BY <1>1 DEF StoreInv, CommittedIsKept, CommitsKeep

\* The broker, the clock and the consoles: a writer may lose a position.
LEMMA BrokerKeepsStoreInv ==
    ASSUME IngestionInv, IngestionInv', StoreInv,
           UNCHANGED <<store, committed, buffer, written, skipped, rewound>>,
           \A w \in Writers, p \in Partitions : Reads(w, p)' =>
               position'[p] = NoOffset \/ (Reads(w, p) /\ position'[p] = position[p])
    PROVE  StoreInv'
<1>1. KeysAreRanges'
  BY DEF StoreInv, KeysAreRanges
<1>2. \A w \in Writers : BufferStays(w)
  BY DEF BufferStays
<1>3. \A w \in Writers, p \in Partitions : Reads(w, p)' => ReaderStays(w, p)
  BY DEF ReaderStays
<1>4. \A p \in Partitions : \A n \in Int : KeptBefore(p, n) \subseteq KeptBefore(p, n)'
  BY DEF KeptBefore
<1>5. QED
  BY <1>1, <1>2, <1>3, <1>4, NoCommitKeeps, FrameKeepsStoreInv

LEMMA OtherStepsKeepStoreInv ==
    ASSUME IngestionInv, IngestionInv', StoreInv,
           \/ \E p \in Partitions : Produce(p) \/ Expire(p)
           \/ NextDay
           \/ Rebalance \/ \E m \in Members : LoseMembership(m)
           \/ \E w \in Writers : StartWriter(w)
           \/ \E c \in Consoles :
                StartConsole(c) \/ (\E p \in Partitions : PollConsole(c, p)) \/ StopConsole(c)
    PROVE  StoreInv'
<1>1. UNCHANGED <<store, committed, buffer, written, skipped, rewound>>
  BY DEF Produce, Expire, NextDay, Rebalance, LoseMembership, StartWriter, StartConsole,
         PollConsole, StopConsole, writerVars, brokerVars, historyVars
<1>2. ASSUME NEW w \in Writers, NEW p \in Partitions, Reads(w, p)'
      PROVE  position'[p] = NoOffset \/ (Reads(w, p) /\ position'[p] = position[p])
  <2>1. CASE \/ \E q \in Partitions : Produce(q) \/ Expire(q)
             \/ NextDay
             \/ \E v \in Writers : StartWriter(v)
             \/ \E c \in Consoles : StartConsole(c) \/ StopConsole(c)
             \/ \E m \in Members : LoseMembership(m)
    BY <1>2, <2>1 DEF Produce, Expire, NextDay, LoseMembership, StartWriter, StartConsole,
       StopConsole, brokerVars, Reads
  <2>2. CASE Rebalance
    BY <2>2 DEF Rebalance
  <2>3. ASSUME NEW c \in Consoles, NEW q \in Partitions, PollConsole(c, q)
        PROVE  Reads(w, p) /\ position'[p] = position[p]
    <3>1. w # c
      BY MembersAssumption
    <3>2. owner[p] = w /\ owner[q] = c /\ Reads(w, p)
      BY <1>2, <2>3 DEF PollConsole, Deliverable, Reads
    <3>3. QED
      BY <2>3, <3>1, <3>2 DEF PollConsole, IngestionInv, TypeOK
  <2>4. QED
    BY <2>1, <2>2, <2>3
<1>3. QED
  BY <1>1, <1>2, BrokerKeepsStoreInv

\* However a writer ends, its buffer is gone and it reads no more.
LEMMA CloseKeepsStoreInv ==
    ASSUME IngestionInv, IngestionInv', StoreInv, KeysAreRanges', rewound => rewound',
           NEW w \in Writers, Close(w), UNCHANGED <<owner, position, skipped>>,
           ~rewound' =>
               /\ CommitsKeep
               /\ \A p \in Partitions : \A n \in Int :
                     KeptBefore(p, n) \subseteq KeptBefore(p, n)'
    PROVE  StoreInv'
<1>1. \A v \in Writers : BufferStays(v) \/ BufferEmptied(v)
  BY DEF Close, BufferStays, BufferEmptied, IngestionInv, TypeOK
<1>2. \A v \in Writers, p \in Partitions : Reads(v, p)' => ReaderStays(v, p)
  BY DEF Close, Reads, ReaderStays, IngestionInv, TypeOK
<1>3. QED
  BY <1>1, <1>2, FrameKeepsStoreInv

\* The usual case: the bucket and the committed offsets stay as they are.
LEMMA FailKeepsStoreInv ==
    ASSUME IngestionInv, IngestionInv', StoreInv, NEW w \in Writers, Close(w),
           UNCHANGED <<store, committed, owner, position, skipped, rewound>>
    PROVE  StoreInv'
<1>1. KeysAreRanges'
  BY DEF StoreInv, KeysAreRanges
<1>2. \A p \in Partitions : \A n \in Int : KeptBefore(p, n) \subseteq KeptBefore(p, n)'
  BY DEF KeptBefore
<1>3. QED
  BY <1>1, <1>2, NoCommitKeeps, CloseKeepsStoreInv

\* A flush begins with the buffer as it is.
LEMMA PollNoneKeepsStoreInv ==
    ASSUME IngestionInv, IngestionInv', StoreInv, NEW w \in Writers, PollNone(w)
    PROVE  StoreInv'
<1>1. UNCHANGED <<store, committed, owner, position, skipped, rewound>>
  BY DEF PollNone, historyVars
<1>2. CASE Close(w)
  BY <1>1, <1>2, FailKeepsStoreInv
<1>3. CASE UNCHANGED <<group, buffer, written>>
  BY <1>1, <1>3, BrokerKeepsStoreInv DEF Reads
<1>4. QED
  BY <1>2, <1>3 DEF PollNone

\* A put keeps what is kept, whether its answer arrives or not.
LEMMA PutObjectKeepsStoreInv ==
    ASSUME IngestionInv, IngestionInv', StoreInv, NEW w \in Writers, PutObject(w)
    PROVE  StoreInv'
<1>1. PICK p \in PartitionsOf(buffer[w]) :
         /\ store' \in {store, StoreWith(ObjectFor(w, p))}
         /\ \/ Close(w)
            \/ UNCHANGED <<group, buffer, written>>
  BY DEF PutObject
<1>2. UNCHANGED <<committed, owner, position, skipped, rewound>>
  BY DEF PutObject, historyVars
<1>3. KeysAreRanges'
  <2>1. \A x \in store : x.lo \in x.rows /\ x.hi \in x.rows /\ x.rows \subseteq x.lo..x.hi
    BY DEF StoreInv, KeysAreRanges
  <2>2. \A x \in store' : x \in store \/ x = ObjectFor(w, p)
    BY <1>1 DEF StoreWith
  <2>3. QED
    BY <2>1, <2>2, ObjectIsRange DEF KeysAreRanges
<1>4. ASSUME ~rewound, NEW q \in Partitions, NEW n \in Int
      PROVE  KeptBefore(q, n) \subseteq KeptBefore(q, n)'
  <2>1. CASE store' = store
    BY <1>2, <2>1 DEF KeptBefore
  <2>2. CASE store' = StoreWith(ObjectFor(w, p))
    BY <1>2, <1>4, <2>2, PutKeeps DEF StoreInv
  <2>3. QED
    BY <1>1, <2>1, <2>2
<1>5. ~rewound => CommitsKeep
  BY <1>2, NoCommitKeeps
<1>6. CASE Close(w)
  BY <1>2, <1>3, <1>4, <1>5, <1>6, CloseKeepsStoreInv
<1>7. CASE UNCHANGED <<group, buffer, written>>
  <2>1. \A v \in Writers : BufferStays(v)
    BY <1>7 DEF BufferStays
  <2>2. \A v \in Writers, q \in Partitions : Reads(v, q)' => ReaderStays(v, q)
    BY <1>2, <1>7 DEF Reads, ReaderStays
  <2>3. QED
    BY <1>2, <1>3, <1>4, <1>5, <2>1, <2>2, FrameKeepsStoreInv
<1>8. QED
  BY <1>1, <1>6, <1>7

\* A verified object is in the bucket, under a key that ends at its last offset.
LEMMA VerifyObjectKeepsStoreInv ==
    ASSUME IngestionInv, IngestionInv', StoreInv, NEW w \in Writers, VerifyObject(w)
    PROVE  StoreInv'
<1>1. UNCHANGED <<store, committed, owner, position, skipped, rewound>>
  BY DEF VerifyObject
<1>2. CASE Close(w)
  BY <1>1, <1>2, FailKeepsStoreInv
<1>3. ASSUME NEW p \in PartitionsOf(buffer[w]), HeadMatches(w, p),
             written' = [written EXCEPT ![w] = @ \cup {p}],
             UNCHANGED <<group, buffer>>
      PROVE  StoreInv'
  <2>1. Buffered(w, p) \subseteq KeptBefore(p, CommitOffset(buffer[w], p))
    <3>1. /\ ObjectFor(w, p).part = p
          /\ ObjectFor(w, p).rows = Buffered(w, p)
          /\ ObjectFor(w, p).hi = EndOffset(Buffered(w, p))
          /\ EndOffset(Buffered(w, p)) \in Nat
      BY ObjectIsRange, GroupEnds DEF Buffered
    <3>2. ObjectFor(w, p).hi < CommitOffset(buffer[w], p)
      BY <3>1 DEF CommitOffset, Buffered
    <3>3. QED
      BY <1>3, <3>1, <3>2 DEF KeptBefore, HeadMatches
  <2>2. \A v \in Writers : BufferStays(v)
    BY <1>3, <2>1 DEF BufferStays, IngestionInv, TypeOK
  <2>3. \A v \in Writers, q \in Partitions : Reads(v, q)' => ReaderStays(v, q)
    BY <1>1, <1>3 DEF Reads, ReaderStays
  <2>4. \A q \in Partitions : \A n \in Int : KeptBefore(q, n) \subseteq KeptBefore(q, n)'
    BY <1>1 DEF KeptBefore
  <2>5. KeysAreRanges'
    BY <1>1 DEF StoreInv, KeysAreRanges
  <2>6. QED
    BY <1>1, <2>2, <2>3, <2>4, <2>5, NoCommitKeeps, FrameKeepsStoreInv
<1>4. QED
  BY <1>2, <1>3 DEF VerifyObject

\* A fetched position is the committed offset: what is below it is kept, what a
\* buffer has above it was read in one piece.
LEMMA FetchOffsetKeepsStoreInv ==
    ASSUME IngestionInv, IngestionInv', StoreInv, NEW p \in Partitions, FetchOffset(p)
    PROVE  StoreInv'
<1> DEFINE n == ResetPosition(p)
<1>1. /\ position' = [position EXCEPT ![p] = n]
      /\ UNCHANGED <<store, committed, owner, group, buffer, written, skipped, rewound>>
  BY DEF FetchOffset, writerVars, historyVars
<1>2. /\ n \in Nat
      /\ committed[p] \in Int
      /\ committed[p] <= n
      /\ n = committed[p] \/ n = 0
      /\ position'[p] = n
      /\ \A q \in Partitions \ {p} : position'[q] = position[q]
  BY <1>1 DEF ResetPosition, IngestionInv, TypeOK, NoOffset
<1> HIDE DEF n
<1>3. \A w \in Writers, q \in Partitions :
         Buffered(w, q)' = Buffered(w, q) /\ Buffered(w, q) \subseteq Nat
  BY <1>1, RowsAreOffsets DEF Buffered, IngestionInv, TypeOK
<1>4. \A w \in Writers, q \in Partitions : Reads(w, q)' = Reads(w, q)
  BY <1>1 DEF Reads
<1> SUFFICES ASSUME ~rewound
             PROVE  StoreInv'
  BY <1>1 DEF StoreInv, KeysAreRanges
<1>5. CommittedIsKept /\ HolesAreKept /\ UncommittedIsBuffered
  BY DEF StoreInv
<1>6. CommittedIsKept'
  BY <1>1, <1>5 DEF CommittedIsKept, KeptBefore, Buffered
<1>7. 0..(n - 1) \subseteq KeptBefore(p, n)
  BY <1>2, <1>5 DEF CommittedIsKept
<1>8. HolesAreKept'
  <2> SUFFICES ASSUME NEW w \in Writers, NEW q \in Partitions, NEW lo \in Buffered(w, q)
               PROVE  /\ \A hi \in Buffered(w, q) :
                            lo..hi \subseteq Buffered(w, q) \cup KeptBefore(q, hi)
                      /\ Reads(w, q) =>
                            lo..(position'[q] - 1) \subseteq
                                Buffered(w, q) \cup KeptBefore(q, position'[q])
    BY <1>1, <1>3, <1>4 DEF HolesAreKept, KeptBefore
  <2>1. CASE q = p
    BY <1>2, <1>3, <1>5, <1>7, <2>1 DEF HolesAreKept
  <2>2. CASE q # p
    BY <1>2, <1>5, <2>2 DEF HolesAreKept
  <2>3. QED
    BY <2>1, <2>2
<1>9. UncommittedIsBuffered'
  <2> SUFFICES ASSUME NEW w \in Writers, NEW q \in Partitions
               PROVE  /\ \A hi \in Buffered(w, q) : \A h \in 0..hi :
                            h >= committed[q] => h \in Buffered(w, q) \cup skipped[q]
                      /\ Reads(w, q) => \A h \in 0..(position'[q] - 1) :
                            h >= committed[q] => h \in Buffered(w, q) \cup skipped[q]
                      /\ Reads(w, q) /\ position'[q] # NoOffset => \A hi \in Buffered(w, q) :
                            position'[q]..hi \subseteq Buffered(w, q) \cup skipped[q]
    BY <1>1, <1>3, <1>4 DEF UncommittedIsBuffered
  <2>1. CASE q = p
    <3>1. \A hi \in Buffered(w, p) : \A h \in 0..hi :
             h >= committed[p] => h \in Buffered(w, p) \cup skipped[p]
      BY <1>5 DEF UncommittedIsBuffered
    <3>2. \A h \in 0..(n - 1) : ~(h >= committed[p]) 
      BY <1>2
    <3>3. \A hi \in Buffered(w, p) : n..hi \subseteq Buffered(w, p) \cup skipped[p]
      BY <1>2, <1>3, <3>1
    <3>4. QED
      BY <1>2, <2>1, <3>1, <3>2, <3>3
  <2>2. CASE q # p
    BY <1>2, <1>5, <2>2 DEF UncommittedIsBuffered
  <2>3. QED
    BY <2>1, <2>2
<1>10. QED
  BY <1>1, <1>6, <1>8, <1>9 DEF StoreInv, KeysAreRanges

\* What PollRecord(w, p) changes of what StoreInv speaks of: the reader's own
\* rows and position, and the offsets it passed over.
LEMMA PollRecordEffect ==
    ASSUME IngestionInv, NEW w \in Writers, NEW p \in Partitions, PollRecord(w, p)
    PROVE  LET o == NextOffset(p)
           IN  /\ o \in Nat /\ position[p] \in Nat /\ position[p] <= o
               /\ position'[p] = o + 1
               /\ position[p] # NoOffset
               /\ Reads(w, p)
               /\ written[w] = {}
               /\ skipped'[p] = skipped[p] \cup position[p]..(o - 1)
               /\ Buffered(w, p)' = Buffered(w, p) \cup {o}
               /\ \A q \in Partitions \ {p} : /\ position'[q] = position[q]
                                              /\ skipped'[q] = skipped[q]
                                              /\ Buffered(w, q)' = Buffered(w, q)
               /\ \A v \in Writers \ {w} : buffer'[v] = buffer[v] /\ ~Reads(v, p)'
               /\ UNCHANGED <<store, committed, owner, group, written, rewound>>
<1> DEFINE o == NextOffset(p)
           r == [part |-> p, off |-> o]
<1>1. /\ owner[p] = w
      /\ w \in group
      /\ pc[w] = "polling"
      /\ position[p] # NoOffset
      /\ UNCHANGED <<store, committed, owner, group, written, rewound>>
      /\ buffer' = [buffer EXCEPT ![w] = Append(buffer[w], r)]
      /\ position' = [position EXCEPT ![p] = o + 1]
      /\ skipped' = [skipped EXCEPT ![p] = @ \cup position[p]..(o - 1)]
  BY DEF PollRecord, Deliverable
<1>2. o \in Nat /\ position[p] \in Nat /\ position[p] <= o
  BY <1>1 DEF NextOffset, IngestionInv, TypeOK
<1>3. r \in Record /\ buffer[w] \in Seq(Record)
  BY <1>2 DEF Record, IngestionInv, TypeOK
<1>4. written[w] = {}
  BY <1>1 DEF IngestionInv, FlushProgress
<1>5. /\ position'[p] = o + 1
      /\ skipped'[p] = skipped[p] \cup position[p]..(o - 1)
      /\ \A q \in Partitions \ {p} : position'[q] = position[q] /\ skipped'[q] = skipped[q]
  BY <1>1 DEF IngestionInv, TypeOK
<1>6. /\ buffer'[w] = Append(buffer[w], r)
      /\ \A v \in Writers \ {w} : buffer'[v] = buffer[v]
  BY <1>1 DEF IngestionInv, TypeOK
<1> HIDE DEF o
<1>7. /\ Buffered(w, p)' = Buffered(w, p) \cup {o}
      /\ \A q \in Partitions \ {p} : Buffered(w, q)' = Buffered(w, q)
  BY <1>3, <1>6, RowsOfAppend DEF Buffered
<1>8. \A v \in Writers \ {w} : ~Reads(v, p)'
  BY <1>1 DEF Reads
<1>9. Reads(w, p)
  BY <1>1 DEF Reads
<1>10. QED
  BY <1>1, <1>2, <1>4, <1>5, <1>6, <1>7, <1>8, <1>9 DEF o

\* A polled record continues the run below the position; the gap before it, if
\* there is one, was deleted.
LEMMA PollRecordKeepsStoreInv ==
    ASSUME IngestionInv, IngestionInv', StoreInv, NEW w \in Writers, NEW p \in Partitions,
           PollRecord(w, p)
    PROVE  StoreInv'
<1> DEFINE o == NextOffset(p)
           before == position[p]
           old == Buffered(w, p)
<1>1. /\ o \in Nat /\ before \in Nat /\ before <= o
      /\ position'[p] = o + 1
      /\ position[p] # NoOffset
      /\ Reads(w, p)
      /\ written[w] = {}
      /\ skipped'[p] = skipped[p] \cup before..(o - 1)
      /\ Buffered(w, p)' = old \cup {o}
      /\ \A q \in Partitions \ {p} : /\ position'[q] = position[q]
                                     /\ skipped'[q] = skipped[q]
                                     /\ Buffered(w, q)' = Buffered(w, q)
      /\ \A v \in Writers \ {w} : buffer'[v] = buffer[v] /\ ~Reads(v, p)'
      /\ UNCHANGED <<store, committed, owner, group, written, rewound>>
  BY PollRecordEffect
<1> HIDE DEF o
<1> SUFFICES ASSUME ~rewound
             PROVE  StoreInv'
  BY <1>1 DEF StoreInv, KeysAreRanges
<1>2. CommittedIsKept /\ HolesAreKept /\ UncommittedIsBuffered
  BY DEF StoreInv
<1>3. /\ \A v \in Writers \ {w}, q \in Partitions : Buffered(v, q)' = Buffered(v, q)
      /\ \A v \in Writers, q \in Partitions : Reads(v, q)' = Reads(v, q)
      /\ \A v \in Writers, q \in Partitions : Buffered(v, q) \subseteq Nat
  BY <1>1, RowsAreOffsets DEF Buffered, Reads, IngestionInv, TypeOK
<1>4. \A q \in Partitions : skipped[q] \subseteq skipped'[q]
  BY <1>1
<1>5. \A q \in Partitions : \A n \in Int : \A h \in KeptBefore(q, n) : h \in KeptBefore(q, n)'
  BY <1>1, <1>4 DEF KeptBefore
<1>6. CommittedIsKept'
  <2>1. ASSUME NEW q \in Partitions
        PROVE  0..(committed'[q] - 1) \subseteq KeptBefore(q, committed[q])'
    BY <1>1, <1>2, <1>4 DEF CommittedIsKept, KeptBefore
  <2>2. ASSUME NEW v \in Writers, NEW q \in written'[v]
        PROVE  Buffered(v, q)' \subseteq KeptBefore(q, CommitOffset(buffer[v], q))'
    <3>1. v # w /\ buffer'[v] = buffer[v] /\ q \in written[v] /\ q \in Partitions
      BY <1>1, <2>2 DEF IngestionInv, TypeOK
    <3>2. Buffered(v, q) \subseteq KeptBefore(q, CommitOffset(buffer[v], q))
      BY <1>2, <3>1 DEF CommittedIsKept
    <3>3. QED
      BY <1>1, <1>3, <1>4, <3>1, <3>2 DEF KeptBefore
  <2>3. QED
    BY <2>1, <2>2 DEF CommittedIsKept
<1>7. HolesAreKept'
  <2> SUFFICES ASSUME NEW v \in Writers, NEW q \in Partitions, NEW lo \in Buffered(v, q)'
               PROVE  /\ \A hi \in Buffered(v, q)' :
                            lo..hi \subseteq Buffered(v, q)' \cup KeptBefore(q, hi)'
                      /\ Reads(v, q)' =>
                            lo..(position'[q] - 1) \subseteq
                                Buffered(v, q)' \cup KeptBefore(q, position[q])'
    BY DEF HolesAreKept
  <2>1. CASE v # w \/ q # p
    <3>1. Buffered(v, q)' = Buffered(v, q)
      BY <1>1, <1>3, <2>1
    <3>2. Reads(v, q)' => Reads(v, q) /\ position'[q] = position[q]
      BY <1>1, <1>3, <2>1
    <3>3. ASSUME NEW hi \in Buffered(v, q)
          PROVE  lo..hi \subseteq Buffered(v, q) \cup KeptBefore(q, hi)'
      <4>1. lo..hi \subseteq Buffered(v, q) \cup KeptBefore(q, hi)
        BY <1>2, <3>1 DEF HolesAreKept
      <4>2. QED
        BY <1>3, <1>5, <4>1
    <3>4. ASSUME Reads(v, q)'
          PROVE  lo..(position'[q] - 1) \subseteq
                     Buffered(v, q) \cup KeptBefore(q, position[q])'
      <4>1. lo..(position[q] - 1) \subseteq Buffered(v, q) \cup KeptBefore(q, position[q])
        BY <1>2, <3>1, <3>2, <3>4 DEF HolesAreKept
      <4>2. QED
        BY <1>1, <1>4, <3>2, <3>4, <4>1 DEF KeptBefore
    <3>5. QED
      BY <3>1, <3>3, <3>4
  <2>2. CASE v = w /\ q = p
    <3>1. lo \in old \/ lo = o
      BY <1>1, <2>2
    <3>2. \A h \in before..(o - 1) : h \in skipped'[p]
      BY <1>1
    <3>3. \A n : skipped'[p] \subseteq KeptBefore(p, n)'
      BY DEF KeptBefore
    <3>4. ASSUME NEW h \in lo..o, h # o, NEW n \in Int, o <= n
          PROVE  h \in old \cup KeptBefore(p, n)'
      <4>1. lo \in old /\ lo \in Nat
        BY <3>1, <3>4, <1>1, <1>3
      <4>2. CASE h >= before
        BY <1>1, <3>2, <3>3, <3>4, <4>1, <4>2
      <4>3. CASE h < before
        <5>1. h \in lo..(before - 1)
          BY <1>1, <4>1, <4>3
        <5>2. h \in old \cup KeptBefore(p, before)
          BY <1>1, <1>2, <4>1, <5>1 DEF HolesAreKept
        <5>3. before \in Int /\ before <= n
          BY <1>1, <3>4
        <5>4. h \in old \cup KeptBefore(p, n)
          BY <5>2, <5>3, KeptMonotone DEF IngestionInv
        <5>5. QED
          BY <1>5, <5>4
      <4>4. QED
        BY <1>1, <4>1, <4>2, <4>3
    <3>5. ASSUME NEW hi \in old \cup {o}, NEW h \in lo..hi
          PROVE  h \in old \cup {o} \cup KeptBefore(p, hi)'
      <4>1. CASE hi = o
        BY <1>1, <3>4, <3>5, <4>1
      <4>2. CASE hi \in old /\ lo \in old
        <5>1. h \in old \cup KeptBefore(p, hi)
          BY <1>2, <3>5, <4>2 DEF HolesAreKept
        <5>2. QED
          BY <1>3, <1>5, <4>2, <5>1
      <4>3. CASE hi \in old /\ lo = o
        <5>1. h \in before..hi
          BY <1>1, <1>3, <3>5, <4>3
        <5>2. h \in old \cup skipped[p]
          BY <1>1, <1>2, <4>3, <5>1 DEF UncommittedIsBuffered
        <5>3. QED
          BY <1>4, <3>3, <5>2
      <4>4. QED
        BY <3>1, <3>5, <4>1, <4>2, <4>3
    <3>6. ASSUME NEW h \in lo..o
          PROVE  h \in old \cup {o} \cup KeptBefore(p, position[p])'
      <4>1. PICK n \in Int : n = o + 1
        BY <1>1
      <4>2. h # o => h \in old \cup KeptBefore(p, n)'
        BY <1>1, <3>4, <4>1
      <4>3. KeptBefore(p, n)' = KeptBefore(p, position[p])'
        BY <1>1, <4>1 DEF KeptBefore
      <4>4. QED
        BY <4>2, <4>3
    <3>7. QED
      BY <1>1, <2>2, <3>5, <3>6
  <2>3. QED
    BY <2>1, <2>2
<1>8. UncommittedIsBuffered'
  <2> SUFFICES ASSUME NEW v \in Writers, NEW q \in Partitions
               PROVE  /\ \A hi \in Buffered(v, q)' : \A h \in 0..hi :
                            h >= committed[q] => h \in Buffered(v, q)' \cup skipped'[q]
                      /\ Reads(v, q)' => \A h \in 0..(position'[q] - 1) :
                            h >= committed[q] => h \in Buffered(v, q)' \cup skipped'[q]
                      /\ Reads(v, q)' /\ position'[q] # NoOffset =>
                            \A hi \in Buffered(v, q)' :
                               position'[q]..hi \subseteq Buffered(v, q)' \cup skipped'[q]
    BY <1>1 DEF UncommittedIsBuffered
  <2>1. CASE v # w \/ q # p
    <3>1. Buffered(v, q)' = Buffered(v, q)
      BY <1>1, <1>3, <2>1
    <3>2. Reads(v, q)' => Reads(v, q) /\ position'[q] = position[q]
      BY <1>1, <1>3, <2>1
    <3>3. QED
      BY <1>2, <1>4, <3>1, <3>2 DEF UncommittedIsBuffered
  <2>2. CASE v = w /\ q = p
    <3>1. ASSUME NEW h \in 0..o, h >= committed[p]
          PROVE  h \in old \cup {o} \cup skipped'[p]
      <4>1. CASE h < before
        <5>1. h \in 0..(before - 1)
          BY <1>1, <4>1
        <5>2. h \in old \cup skipped[p]
          BY <1>1, <1>2, <3>1, <5>1 DEF UncommittedIsBuffered
        <5>3. QED
          BY <1>4, <5>2
      <4>2. CASE h >= before
        BY <1>1, <4>2
      <4>3. QED
        BY <1>1, <4>1, <4>2
    <3>2. ASSUME NEW hi \in old, NEW h \in 0..hi, h >= committed[p]
          PROVE  h \in old \cup skipped[p]
      BY <1>2, <3>2 DEF UncommittedIsBuffered
    <3>3. ASSUME NEW hi \in old \cup {o}, NEW h \in (o + 1)..hi
          PROVE  h \in old \cup skipped[p]
      <4>1. hi \in old /\ h \in before..hi
        BY <1>1, <1>3, <3>3
      <4>2. QED
        BY <1>1, <1>2, <4>1 DEF UncommittedIsBuffered
    <3>4. /\ position'[p] - 1 = o
          /\ skipped[p] \subseteq skipped'[p]
      BY <1>1, <1>4
    <3>5. QED
      BY <1>1, <2>2, <3>1, <3>2, <3>3, <3>4
  <2>3. QED
    BY <2>1, <2>2
<1>9. QED
  BY <1>1, <1>6, <1>7, <1>8 DEF StoreInv, KeysAreRanges

\* A commit that does not go back covers what its own buffer has, which was
\* verified, and what is below it, which is kept or was deleted unread.
LEMMA CommitKeeps ==
    ASSUME IngestionInv, StoreInv, NEW w \in Writers, pc[w] = "committing",
           NEW parts \in SUBSET PartitionsOf(buffer[w]), CommitAll(w, parts),
           ~rewound'
    PROVE  /\ ~rewound
           /\ CommitsKeep
           /\ \A p \in parts : \A h \in Buffered(w, p) : h < committed'[p]
<1>1. /\ committed' = [p \in Partitions |->
             IF p \in parts THEN CommitOffset(buffer[w], p) ELSE committed[p]]
      /\ ~rewound
      /\ \A p \in Partitions : ~(committed'[p] < committed[p])
  BY DEF CommitAll
<1>2. CommittedIsKept /\ UncommittedIsBuffered
  BY <1>1 DEF StoreInv
<1>3. \A p \in Partitions : committed[p] \in Int
  BY DEF IngestionInv, TypeOK, NoOffset
<1>4. ASSUME NEW p \in parts
      PROVE  /\ p \in Partitions
             /\ committed'[p] = CommitOffset(buffer[w], p)
             /\ committed'[p] \in Nat
             /\ committed'[p] - 1 \in Buffered(w, p)
             /\ Buffered(w, p) \subseteq Nat
             /\ \A h \in Buffered(w, p) : h < committed'[p]
  <2>1. /\ p \in Partitions
        /\ CommitOffset(buffer[w], p) \in Nat
        /\ CommitOffset(buffer[w], p) - 1 \in Buffered(w, p)
    BY GroupEnds DEF Buffered
  <2>2. /\ Buffered(w, p) \subseteq Nat
        /\ \A h \in Buffered(w, p) : h <= EndOffset(Buffered(w, p))
    BY EndsBound
  <2>3. \A h \in Buffered(w, p) : h < CommitOffset(buffer[w], p)
    <3>1. CommitOffset(buffer[w], p) = EndOffset(Buffered(w, p)) + 1
      BY DEF CommitOffset, Buffered
    <3>2. EndOffset(Buffered(w, p)) \in Nat
      BY GroupEnds DEF Buffered
    <3>3. QED
      BY <2>2, <3>1, <3>2
  <2>4. QED
    BY <1>1, <2>1, <2>2, <2>3
<1>5. ASSUME NEW p \in Partitions
      PROVE  committed[p] <= committed'[p]
  BY <1>1, <1>3, <1>4
<1>6. ASSUME NEW p \in Partitions, NEW h \in 0..(committed'[p] - 1)
      PROVE  h \in KeptBefore(p, committed'[p])
  <2>1. CASE p \notin parts
    BY <1>1, <1>2, <1>6, <2>1 DEF CommittedIsKept
  <2>2. CASE p \in parts /\ h < committed[p]
    <3>1. h \in KeptBefore(p, committed[p])
      BY <1>2, <1>3, <1>6, <2>2 DEF CommittedIsKept
    <3>2. QED
      BY <1>3, <1>4, <1>5, <2>2, <3>1, KeptMonotone DEF IngestionInv
  <2>3. CASE p \in parts /\ h >= committed[p]
    <3>1. h \in Buffered(w, p) \cup skipped[p]
      BY <1>2, <1>4, <1>6, <2>3 DEF UncommittedIsBuffered
    <3>2. Buffered(w, p) \subseteq KeptBefore(p, CommitOffset(buffer[w], p))
      BY <1>2, <2>3 DEF CommittedIsKept, IngestionInv, FlushProgress
    <3>3. h \in skipped[p] => h \in KeptBefore(p, committed'[p])
      BY DEF KeptBefore
    <3>4. QED
      BY <1>4, <2>3, <3>1, <3>2, <3>3
  <2>4. QED
    BY <1>3, <1>4, <1>6, <2>1, <2>2, <2>3
<1>7. QED
  BY <1>1, <1>4, <1>5, <1>6 DEF CommitsKeep

LEMMA CommitOffsetsKeepsStoreInv ==
    ASSUME IngestionInv, IngestionInv', StoreInv, NEW w \in Writers, CommitOffsets(w)
    PROVE  StoreInv'
<1>1. /\ pc[w] = "committing"
      /\ UNCHANGED <<store, owner, position, skipped>>
  BY DEF CommitOffsets
<1>2. KeysAreRanges'
  BY <1>1 DEF StoreInv, KeysAreRanges
<1>3. \A p \in Partitions : \A n \in Int : KeptBefore(p, n) \subseteq KeptBefore(p, n)'
  BY <1>1 DEF KeptBefore
<1>4. ASSUME Close(w), UNCHANGED <<committed, rewound>>
      PROVE  StoreInv'
  BY <1>1, <1>4, FailKeepsStoreInv
<1>5. ASSUME NEW parts \in SUBSET PartitionsOf(buffer[w]), CommitAll(w, parts), Close(w)
      PROVE  StoreInv'
  <2>1. rewound => rewound'
    BY <1>5 DEF CommitAll
  <2>2. ~rewound' => CommitsKeep
    BY <1>1, <1>5, CommitKeeps
  <2>3. QED
    BY <1>1, <1>2, <1>3, <1>5, <2>1, <2>2, CloseKeepsStoreInv
<1>6. ASSUME CommitAll(w, PartitionsOf(buffer[w])),
             buffer' = [buffer EXCEPT ![w] = << >>],
             written' = [written EXCEPT ![w] = {}],
             UNCHANGED group
      PROVE  StoreInv'
  <2>1. rewound => rewound'
    BY <1>6 DEF CommitAll
  <2>2. SUFFICES ASSUME ~rewound'
                 PROVE  StoreInv'
    BY <1>2 DEF StoreInv
  <2>3. /\ CommitsKeep
        /\ \A p \in PartitionsOf(buffer[w]) : \A h \in Buffered(w, p) : h < committed'[p]
    BY <1>1, <1>6, <2>2, CommitKeeps
  <2>4. \A p \in Partitions : \A h \in Buffered(w, p) : h < committed'[p]
    <3>1. \A p \in Partitions : p \notin PartitionsOf(buffer[w]) => Buffered(w, p) = {}
      BY DEF Buffered, Rows, PartitionsOf
    <3>2. QED
      BY <2>3, <3>1
  <2>5. \A v \in Writers : BufferStays(v) \/ BufferEmptied(v)
    BY <1>6 DEF BufferStays, BufferEmptied, IngestionInv, TypeOK
  <2>6. \A v \in Writers, p \in Partitions : Reads(v, p)' => ReaderStays(v, p)
    BY <1>1, <1>6, <2>4 DEF Reads, ReaderStays, IngestionInv, TypeOK
  <2>7. QED
    BY <1>1, <1>2, <1>3, <2>1, <2>3, <2>5, <2>6, FrameKeepsStoreInv
<1>7. QED
  BY <1>4, <1>5, <1>6 DEF CommitOffsets

-----------------------------------------------------------------------------
(* The theorems *)

LEMMA NextKeepsStoreInv == IngestionInv /\ IngestionInv' /\ StoreInv /\ [Next]_vars => StoreInv'
<1> SUFFICES ASSUME IngestionInv, IngestionInv', StoreInv, [Next]_vars PROVE StoreInv'
  OBVIOUS
<1>1. CASE Next
  <2>1. CASE \/ \E p \in Partitions : Produce(p) \/ Expire(p)
             \/ NextDay
             \/ Rebalance \/ \E m \in Members : LoseMembership(m)
             \/ \E w \in Writers : StartWriter(w)
             \/ \E c \in Consoles : StartConsole(c)
                                    \/ (\E p \in Partitions : PollConsole(c, p))
                                    \/ StopConsole(c)
    BY <2>1, OtherStepsKeepStoreInv
  <2>2. CASE \E p \in Partitions : FetchOffset(p)
    BY <2>2, FetchOffsetKeepsStoreInv
  <2>3. CASE \E w \in Writers, p \in Partitions : PollRecord(w, p)
    BY <2>3, PollRecordKeepsStoreInv
  <2>4. CASE \E w \in Writers : PollNone(w)
    BY <2>4, PollNoneKeepsStoreInv
  <2>5. CASE \E w \in Writers : PutObject(w)
    BY <2>5, PutObjectKeepsStoreInv
  <2>6. CASE \E w \in Writers : VerifyObject(w)
    BY <2>6, VerifyObjectKeepsStoreInv
  <2>7. CASE \E w \in Writers : CommitOffsets(w)
    BY <2>7, CommitOffsetsKeepsStoreInv
  <2>8. CASE \E w \in Writers : Abort(w)
    BY <2>8, FailKeepsStoreInv DEF Abort, historyVars
  <2>9. QED
    BY <1>1, <2>1, <2>2, <2>3, <2>4, <2>5, <2>6, <2>7, <2>8 DEF Next
<1>2. CASE UNCHANGED vars
  <2>1. /\ UNCHANGED <<store, committed, buffer, written, skipped, rewound>>
        /\ UNCHANGED <<owner, group, position>>
    BY <1>2 DEF vars, brokerVars, writerVars, historyVars
  <2>2. QED
    BY <2>1, BrokerKeepsStoreInv DEF Reads
<1>3. QED
  BY <1>1, <1>2

\* An object is only ever replaced by one that lacks nothing but what objects
\* with an earlier end have, until a commit goes back.
THEOREM StoreInvHolds == Spec => []StoreInv
<1>1. Init => StoreInv
  BY InitEstablishesStoreInv
<1>2. IngestionInv /\ IngestionInv' /\ StoreInv /\ [Next]_vars => StoreInv'
  BY NextKeepsStoreInv
<1>3. QED
  BY <1>1, <1>2, IngestionInvHolds, PTL DEF Spec

\* What is kept before the committed offset is in an object.
LEMMA KeptIsStored == StoreInv => CommittedIsStored
<1> SUFFICES ASSUME StoreInv, ~rewound, NEW p \in Partitions,
                    NEW h \in 0..(committed[p] - 1)
             PROVE  h \in skipped[p] \/ \E x \in store : x.part = p /\ h \in x.rows
  BY DEF CommittedIsStored, CommittedStaysStored
<1>1. h \in KeptBefore(p, committed[p])
  BY DEF StoreInv, CommittedIsKept
<1>2. QED
  BY <1>1 DEF KeptBefore

\* What a committed offset tells the reader of the bucket: every earlier record
\* is in an object it holds now or was deleted by retention before being read,
\* however many writers, restarts, rebalances and failed calls there were,
\* unless a stale buffer has moved an offset back.
THEOREM CommittedRecordsAreStored == Spec => []CommittedIsStored
BY KeptIsStored, StoreInvHolds, PTL

=============================================================================
