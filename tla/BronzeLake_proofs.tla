-------------------------- MODULE BronzeLake_proofs --------------------------
(***************************************************************************)
(* Proofs about BronzeLake for every number of writers, consoles, replay    *)
(* runs, partitions and faults.  The writers keep their invariants, since a *)
(* replay changes nothing they see but the number of faults; a replay run   *)
(* keeps the invariant of BronzeReplay_proofs, since what the writers do to *)
(* the objects of its date takes no key away.  Together they give what a    *)
(* replay owes to the offsets that were committed when it began to list,    *)
(* and, as long as nothing has failed, that it finds nothing to refuse.     *)
(***************************************************************************)
EXTENDS BronzeLake, BronzeBatches_proofs, SequenceTheorems

\* What is proved of replay runs, of the runs over the writers' bucket.
Copy == INSTANCE BronzeReplay_proofs WITH
    bucket  <- ObjectsOfDate,
    pc      <- replay,
    puts    <- 0,
    MaxPuts <- 0,
    MaxRepeats <- BatchSize,
    Ranges  <- {}

-----------------------------------------------------------------------------
(* The two instances say the same *)

LEMMA SameCounts ==
    ASSUME NEW S
    PROVE  /\ Copy!Cardinality(S) = Cardinality(S)
           /\ Copy!IsFiniteSet(S) <=> IsFiniteSet(S)
<1>1. Copy!Cardinality(S) = Cardinality(S)
  BY DEF Copy!Cardinality, Cardinality
<1>2. Copy!IsFiniteSet(S) <=> IsFiniteSet(S)
  BY DEF Copy!IsFiniteSet, IsFiniteSet
<1>3. QED
  BY <1>1, <1>2

LEMMA NoFileIsAbsent == Absent \notin Copy!File
BY NoOutputAssumption DEF Replay!File, Replay!Row, Replay!ObjectReference,
   Copy!File, Copy!Row, Copy!ObjectReference

LEMMA InitIsInit ==
    ASSUME Replay!Init
    PROVE  Copy!Init
BY DEF Replay!Init, Copy!Init

\* The steps of a replay are those of the lake.
LEMMA StepIsStep ==
    ASSUME NEW r \in Replays
    PROVE  /\ TakeListing(r) => Copy!ListObjects(r) \/ Copy!ListFirstPage(r)
           /\ ReplayStep(r) =>
                \/ Copy!Preflight(r) \/ Copy!CheckOutput(r) \/ Copy!ListLastPage(r)
                \/ Copy!HeadObject(r) \/ Copy!ReadObject(r) \/ Copy!ReplaceOutput(r)
                \/ Copy!OpenManifest(r) \/ Copy!FillManifest(r) \/ Copy!ReplaceManifest(r)
           /\ ReplayFails(r) => Copy!CallFails(r) \/ Copy!Killed(r)
<1> USE DEF Replay!bucketVars, Replay!outputVars, Replay!manifestVars, Replay!fileVars,
            Replay!Goto, Replay!CleanUp, Replay!End, Replay!Fail, Replay!Ended,
            Replay!Reference, Replay!Before, Replay!Neighbours, Replay!ValidRanges,
            Replay!Listing, Replay!ObjectAt, Replay!Current,
            Copy!bucketVars, Copy!outputVars, Copy!manifestVars, Copy!fileVars,
            Copy!Goto, Copy!CleanUp, Copy!End, Copy!Fail, Copy!Ended,
            Copy!Reference, Copy!Before, Copy!Neighbours, Copy!ValidRanges,
            Copy!Listing, Copy!ObjectAt, Copy!Current
<1>1. Replay!Preflight(r) => Copy!Preflight(r)
  BY DEF Replay!Preflight, Replay!Acceptable, Copy!Preflight, Copy!Acceptable
<1>2. Replay!CheckOutput(r) => Copy!CheckOutput(r)
  BY DEF Replay!CheckOutput, Replay!MayWrite, Copy!CheckOutput, Copy!MayWrite
<1>3. Replay!ListObjects(r) => Copy!ListObjects(r)
  BY DEF Replay!ListObjects, Replay!Begin, Copy!ListObjects, Copy!Begin
<1>4. Replay!ListFirstPage(r) => Copy!ListFirstPage(r)
  BY DEF Replay!ListFirstPage, Copy!ListFirstPage
<1>5. Replay!ListLastPage(r) => Copy!ListLastPage(r)
  BY DEF Replay!ListLastPage, Replay!NextPage, Replay!Begin,
         Copy!ListLastPage, Copy!NextPage, Copy!Begin
<1>6. Replay!HeadObject(r) => Copy!HeadObject(r)
  BY DEF Replay!HeadObject, Replay!SizeUnchanged, Copy!HeadObject, Copy!SizeUnchanged
<1>7. Replay!ReadObject(r) => Copy!ReadObject(r)
  BY DEF Replay!ReadObject, Replay!BodyValid, Replay!RowsOf,
         Copy!ReadObject, Copy!BodyValid, Copy!RowsOf
<1>8. Replay!ReplaceOutput(r) => Copy!ReplaceOutput(r)
  BY DEF Replay!ReplaceOutput, Copy!ReplaceOutput
<1>9. Replay!OpenManifest(r) => Copy!OpenManifest(r)
  BY DEF Replay!OpenManifest, Replay!OpenForWriting, Copy!OpenManifest, Copy!OpenForWriting
<1>10. Replay!FillManifest(r) => Copy!FillManifest(r)
  BY DEF Replay!FillManifest, Copy!FillManifest
<1>11. Replay!ReplaceManifest(r) => Copy!ReplaceManifest(r)
  BY DEF Replay!ReplaceManifest, Copy!ReplaceManifest
<1>12. Replay!CallFails(r) => Copy!CallFails(r)
  BY DEF Replay!CallFails, Copy!CallFails
<1>13. Replay!Killed(r) => Copy!Killed(r)
  BY DEF Replay!Killed, Copy!Killed
<1>14. QED
  BY <1>1, <1>2, <1>3, <1>4, <1>5, <1>6, <1>7, <1>8, <1>9, <1>10, <1>11, <1>12, <1>13
     DEF TakeListing, ReplayStep, ReplayFails

-----------------------------------------------------------------------------
(* The bucket *)

\* The offsets of a finite set make a sequence.
LEMMA RowsMakeASequence ==
    ASSUME NEW rows, rows \subseteq Nat, IsFiniteSet(rows)
    PROVE  /\ SortedRows(rows) \in Seq(Nat)
           /\ SortedRows(rows) = Replay!InOrder(rows)
<1>1. Copy!InOrder(rows) = SortedRows(rows)
  BY SameCounts DEF Copy!InOrder, SortedRows
<1>2. SortedRows(rows) \in Seq(rows)
  BY <1>1, SameCounts, Copy!InOrderIsSorted, NoFileIsAbsent, LakeAssumption, BoundsAssumption,
     ConfigAssumption
<1>3. SortedRows(rows) = Replay!InOrder(rows)
  BY DEF Replay!InOrder, SortedRows, Replay!Cardinality, Cardinality
<1>4. QED
  BY <1>2, <1>3, SeqMonotonic

\* An object of the store is one the replay can list.
LEMMA BodyIsASequence ==
    ASSUME IngestionInv, StoreInv, NEW x \in store
    PROVE  /\ x.rows \subseteq Nat /\ IsFiniteSet(x.rows)
           /\ x.lo \in x.rows /\ x.hi \in x.rows /\ x.rows \subseteq x.lo..x.hi
           /\ Body(x) \in Seq(Nat)
<1>1. /\ x.part \in Partitions /\ x.lo \in Nat /\ x.hi \in Nat
      /\ x.rows \subseteq Nat /\ x.count \in Nat
  BY DEF IngestionInv, TypeOK, Object
<1>2. x.lo \in x.rows /\ x.hi \in x.rows /\ x.rows \subseteq x.lo..x.hi
  BY DEF StoreInv, KeysAreRanges
<1>3. IsFiniteSet(x.rows)
  <2>1. x.lo \in Int /\ x.hi \in Int
    BY <1>1
  <2>2. IsFiniteSet(x.lo..x.hi)
    BY <2>1, FS_Interval
  <2>3. QED
    BY <1>2, <2>2, FS_Subset
<1> DEFINE n == x.count - Cardinality(x.rows)
           twice == [i \in 1..n |-> x.lo]
<1>4. n \in Int
  BY <1>1, <1>3, FS_CardinalityType
<1>5. twice \in Seq(Nat)
  <2> HIDE DEF n
  <2>1. CASE n \in Nat
    BY <1>1, <2>1
  <2>2. CASE n \notin Nat
    <3>1. 1..n = 1..0
      BY <1>4, <2>2
    <3>2. twice \in [1..0 -> Nat]
      BY <1>1, <3>1
    <3> HIDE DEF twice
    <3>3. QED
      BY <3>2, SeqDef
  <2>3. QED
    BY <2>1, <2>2
<1>6. SortedRows(x.rows) \in Seq(Nat)
  BY <1>1, <1>3, RowsMakeASequence
<1>7. Body(x) \in Seq(Nat)
  BY <1>5, <1>6, ConcatProperties DEF Body
<1>8. QED
  BY <1>1, <1>2, <1>3, <1>7

\* What lies under the replayed date is what a replay run relies on.
ObjectsSound ==
    /\ ObjectsOfDate \subseteq Copy!Object
    /\ Copy!OnePerKey(ObjectsOfDate)

LEMMA ObjectsAreSound ==
    IngestionInv /\ StoreInv /\ OneObjectPerKey => ObjectsSound
<1> SUFFICES ASSUME IngestionInv, StoreInv, OneObjectPerKey
             PROVE  ObjectsSound
  OBVIOUS
<1> DEFINE T == {y \in store : y.date = ReplayDate}
           f == [x \in T |-> [part |-> x.part, lo |-> x.lo, hi |-> x.hi, body |-> Body(x)]]
<1>1. ASSUME NEW x \in T
      PROVE  f[x] \in Copy!Object /\ f[x].lo <= f[x].hi
  <2>1. x.part \in Partitions /\ x.lo \in Nat /\ x.hi \in Nat
    BY DEF IngestionInv, TypeOK, Object
  <2>2. Body(x) \in Seq(Nat) /\ x.lo \in x.rows /\ x.rows \subseteq x.lo..x.hi
    BY BodyIsASequence
  <2>3. x.lo <= x.hi
    BY <2>1, <2>2
  <2>4. QED
    BY <2>1, <2>2, <2>3 DEF Copy!Object
<1>2. ObjectsOfDate = {f[x] : x \in T}
  BY DEF ObjectsOfDate
<1>3. IsFiniteSet(ObjectsOfDate)
  <2>1. IsFiniteSet(T)
    BY FS_Subset DEF OneObjectPerKey
  <2>2. f \in Surjection(T, ObjectsOfDate)
    BY <1>2 DEF Surjection
  <2>3. QED
    BY <2>1, <2>2, FS_Surjection
<1>4. ASSUME NEW a \in ObjectsOfDate, NEW b \in ObjectsOfDate, Copy!SameKey(a, b)
      PROVE  a = b
  <2>1. PICK x \in T : a = f[x]
    BY <1>2
  <2>2. PICK y \in T : b = f[y]
    BY <1>2
  <2>3. SameKey(x, y)
    BY <1>4, <2>1, <2>2 DEF SameKey, Copy!SameKey
  <2>4. x = y
    BY <2>3 DEF OneObjectPerKey
  <2>5. QED
    BY <2>1, <2>2, <2>4
<1> HIDE DEF f
<1>5. QED
  BY <1>1, <1>2, <1>3, <1>4, SameCounts DEF ObjectsSound, Copy!OnePerKey

\* Only a writer's put changes the store ...
LEMMA OnlyPutStores ==
    ASSUME [Next]_vars, \A w \in Writers : ~PutObject(w)
    PROVE  store' = store
<1>1. CASE UNCHANGED vars
  BY <1>1 DEF vars
<1>2. ASSUME NEW p \in Partitions, Produce(p) \/ Expire(p) \/ FetchOffset(p)
      PROVE  store' = store
  BY <1>2 DEF Produce, Expire, FetchOffset
<1>3. ASSUME NextDay \/ Rebalance \/ \E m \in Members : LoseMembership(m)
      PROVE  store' = store
  BY <1>3 DEF NextDay, Rebalance, LoseMembership
<1>4. ASSUME NEW c \in Consoles, NEW p \in Partitions, PollConsole(c, p)
      PROVE  store' = store
  BY <1>4 DEF PollConsole
<1>5. ASSUME NEW c \in Consoles, StartConsole(c) \/ StopConsole(c)
      PROVE  store' = store
  BY <1>5 DEF StartConsole, StopConsole
<1>6. ASSUME NEW w \in Writers,
             \/ StartWriter(w) \/ PollNone(w) \/ VerifyObject(w) \/ CommitOffsets(w) \/ Abort(w)
             \/ \E p \in Partitions : PollRecord(w, p)
      PROVE  store' = store
  BY <1>6 DEF StartWriter, PollNone, VerifyObject, CommitOffsets, Abort, PollRecord
<1>7. QED
  BY <1>1, <1>2, <1>3, <1>4, <1>5, <1>6 DEF Next

\* ... and it puts an object of the writer's batch.
LEMMA StoreChange ==
    ASSUME [Next]_vars
    PROVE  \/ store' = store
           \/ \E w \in Writers : \E p \in PartitionsOf(buffer[w]) :
                 store' = StoreWith(ObjectFor(w, p))
<1>1. ASSUME NEW w \in Writers, PutObject(w)
      PROVE  store' = store \/ \E p \in PartitionsOf(buffer[w]) : store' = StoreWith(ObjectFor(w, p))
  BY <1>1 DEF PutObject
<1>2. QED
  BY <1>1, OnlyPutStores

\* A put takes no key away, and leaves one object per key.
LEMMA KeysStay ==
    ASSUME IngestionInv, OneObjectPerKey, [Next]_vars
    PROVE  /\ OneObjectPerKey'
           /\ \A x \in store : \E y \in store' : SameKey(y, x)
<1>1. CASE store' = store
  BY <1>1 DEF OneObjectPerKey, SameKey
<1>2. ASSUME NEW w \in Writers, NEW p \in PartitionsOf(buffer[w]),
             store' = StoreWith(ObjectFor(w, p))
      PROVE  /\ OneObjectPerKey'
             /\ \A x \in store : \E y \in store' : SameKey(y, x)
  <2> DEFINE o == ObjectFor(w, p)
             kept == {x \in store : ~SameKey(x, o)}
  <2>1. store' = kept \cup {o}
    BY <1>2 DEF StoreWith
  <2>2. IsFiniteSet(kept)
    BY FS_Subset DEF OneObjectPerKey
  <2>3. IsFiniteSet(store')
    BY <2>1, <2>2, FS_AddElement
  <2> HIDE DEF o
  <2>4. \A x, y \in store' : SameKey(x, y) => x = y
    BY <2>1 DEF OneObjectPerKey, SameKey
  <2>5. \A x \in store : \E y \in store' : SameKey(y, x)
    BY <2>1 DEF SameKey
  <2>6. QED
    BY <2>3, <2>4, <2>5 DEF OneObjectPerKey
<1>3. QED
  BY <1>1, <1>2, StoreChange

LEMMA ListedKeysStay ==
    ASSUME \A x \in store : \E y \in store' : SameKey(y, x), NEW x \in ObjectsOfDate
    PROVE  \E y \in ObjectsOfDate' : y.part = x.part /\ y.lo = x.lo /\ y.hi = x.hi
<1>1. PICK a \in store :
         /\ a.date = ReplayDate
         /\ x = [part |-> a.part, lo |-> a.lo, hi |-> a.hi, body |-> Body(a)]
  BY DEF ObjectsOfDate
<1>2. PICK b \in store' : SameKey(b, a)
  OBVIOUS
<1> DEFINE y == [part |-> b.part, lo |-> b.lo, hi |-> b.hi, body |-> Body(b)]
<1>3. y \in ObjectsOfDate'
  BY <1>1, <1>2 DEF ObjectsOfDate, SameKey, Body, SortedRows
<1>4. y.part = x.part /\ y.lo = x.lo /\ y.hi = x.hi
  BY <1>1, <1>2 DEF SameKey
<1>5. QED
  BY <1>3, <1>4

-----------------------------------------------------------------------------
(* The writers' invariants in the lake *)

\* A replay changes nothing of the writers but the number of faults.
LEMMA ReplaysLeaveWritersAlone ==
    ASSUME IngestionInv, StoreInv, OneObjectPerKey, UNCHANGED ingestionVars, faults' \in Nat
    PROVE  IngestionInv' /\ StoreInv' /\ OneObjectPerKey'
<1>1. UNCHANGED <<logEnd, logStart, committed, group, owner, position, store, today, pc,
                  buffer, consumed, written, flushDate, stopping, verified, skipped, rewound, overtaken>>
  BY DEF ingestionVars, brokerVars, writerVars, historyVars
<1>2. IngestionInv'
  BY <1>1 DEF IngestionInv, TypeOK, CommittedIsVerified, BufferedIsBounded, NothingInvented,
              NoHoleBelowBuffer, NoHoleBelowPosition, FlushProgress, Accounted
<1>3. StoreInv'
  BY <1>1 DEF StoreInv, KeysAreRanges, CommittedIsKept, HolesAreKept,
              UncommittedIsBuffered, KeptBefore, Buffered, Reads
<1>4. OneObjectPerKey'
  BY <1>1 DEF OneObjectPerKey, SameKey
<1>5. QED
  BY <1>2, <1>3, <1>4

\* Faults are bounded, and an offset that went back is not forgotten.
LEMMA WritersFaultsAndRewinds ==
    ASSUME faults \in 0..MaxFaults, [Next]_vars
    PROVE  /\ faults' \in 0..MaxFaults
           /\ rewound => rewound'
<1> DEFINE Mild == /\ faults' = faults \/ Fault
                   /\ rewound' = rewound \/ \E w, parts : CommitAll(w, parts)
<1>1. ASSUME UNCHANGED vars PROVE Mild
  BY <1>1 DEF vars, historyVars
<1>2. ASSUME NEW p \in Partitions, Produce(p) \/ Expire(p) \/ FetchOffset(p)
      PROVE  Mild
  BY <1>2 DEF Produce, Expire, FetchOffset, historyVars
<1>3. ASSUME NextDay PROVE Mild
  BY <1>3 DEF NextDay, historyVars
<1>4. ASSUME Rebalance \/ \E m \in Members : LoseMembership(m)
      PROVE  Mild
  BY <1>4 DEF Rebalance, LoseMembership, historyVars
<1>5. ASSUME NEW c \in Consoles, NEW p, StartConsole(c) \/ StopConsole(c) \/ PollConsole(c, p)
      PROVE  Mild
  BY <1>5 DEF StartConsole, PollConsole, StopConsole, historyVars
<1>6. ASSUME NEW w \in Writers, StartWriter(w) \/ PollNone(w)
      PROVE  Mild
  BY <1>6 DEF StartWriter, PollNone, historyVars
<1>7. ASSUME NEW w \in Writers, NEW p \in Partitions, PollRecord(w, p)
      PROVE  Mild
  BY <1>7 DEF PollRecord
<1>8. ASSUME NEW w \in Writers, PutObject(w)
      PROVE  Mild
  BY <1>8 DEF PutObject, historyVars
<1>9. ASSUME NEW w \in Writers, VerifyObject(w) \/ Abort(w)
      PROVE  Mild
  BY <1>9 DEF VerifyObject, Abort, historyVars
<1>10. ASSUME NEW w \in Writers, CommitOffsets(w)
       PROVE  Mild
  <2>1. faults' = faults \/ Fault
    BY <1>10 DEF CommitOffsets
  <2>2. rewound' = rewound \/ \E parts : CommitAll(w, parts)
    BY <1>10 DEF CommitOffsets
  <2>3. QED
    BY <2>1, <2>2
<1> HIDE DEF Mild
<1>11. Mild
  BY <1>1, <1>2, <1>3, <1>4, <1>5, <1>6, <1>7, <1>8, <1>9, <1>10 DEF Next
<1>12. faults' \in 0..MaxFaults
  BY <1>11, BoundsAssumption DEF Mild, Fault
<1>13. ASSUME NEW w, NEW parts, CommitAll(w, parts)
       PROVE  rewound => rewound'
  <2>1. rewound' = (rewound \/ \E p \in Partitions : committed'[p] < committed[p])
    BY <1>13 DEF CommitAll
  <2>2. QED
    BY <2>1, Zenon
<1>14. rewound => rewound'
  <2>1. rewound' = rewound \/ \E w, parts : CommitAll(w, parts)
    BY <1>11 DEF Mild
  <2>2. QED
    BY <1>13, <2>1, Zenon
<1>15. QED
  BY <1>12, <1>14

\* A put under the replayed date is what a replay run bears from its environment.
LEMMA ObjectsStaySound ==
    IngestionInv' /\ StoreInv' /\ OneObjectPerKey' => ObjectsSound'
BY ObjectsAreSound, PTL

-----------------------------------------------------------------------------
(* What is owed to a replay *)

Copying == {"heading", "reading", "replacing"}

LakeInv ==
    /\ owed \in [Replays -> SUBSET (Selected \X (0..MaxOffset))]
    /\ IngestionInv
    /\ StoreInv
    /\ OneObjectPerKey
    /\ Copy!ReplayInv
    /\ OwedInv

\* Every committed offset is under a key of the date, or in another date, or was
\* deleted before it was read.
LEMMA CommittedIsListed ==
    ASSUME IngestionInv, StoreInv, ~rewound, NEW k \in CommittedUnderDate
    PROVE  \E x \in ObjectsOfDate : x.part \in Selected /\ Names(x, k)
<1>1. /\ k[1] \in Selected /\ k[1] \in Partitions
      /\ k[2] \in Nat /\ k[2] < committed[k[1]]
      /\ k[2] \notin skipped[k[1]]
      /\ ~\E x \in store : x.date # ReplayDate /\ x.part = k[1] /\ k[2] \in x.rows
  <2>1. /\ k \in Selected \X (0..MaxOffset)
        /\ k[2] < committed[k[1]]
        /\ k[2] \notin skipped[k[1]]
        /\ ~\E x \in store : x.date # ReplayDate /\ x.part = k[1] /\ k[2] \in x.rows
    BY DEF CommittedUnderDate
  <2>2. k[1] \in Selected /\ k[2] \in 0..MaxOffset
    BY <2>1
  <2>3. k[1] \in Partitions
    BY <2>2, LakeAssumption
  <2>4. k[2] \in Nat
    BY <2>2, BoundsAssumption
  <2>5. QED
    BY <2>1, <2>2, <2>3, <2>4
<1>2. committed[k[1]] \in Int
  BY <1>1 DEF IngestionInv, TypeOK, NoOffset
<1>3. k[2] \in 0..(committed[k[1]] - 1)
  BY <1>1, <1>2
<1>4. PICK x \in store : x.part = k[1] /\ k[2] \in x.rows
  BY <1>1, <1>3, KeptIsStored DEF CommittedIsStored, CommittedStaysStored
<1>5. x.date = ReplayDate
  BY <1>1, <1>4
<1>6. k[2] \in x.lo..x.hi
  BY <1>4 DEF StoreInv, KeysAreRanges
<1> DEFINE y == [part |-> x.part, lo |-> x.lo, hi |-> x.hi, body |-> Body(x)]
<1>7. y \in ObjectsOfDate
  BY <1>5 DEF ObjectsOfDate
<1>8. y.part \in Selected /\ Names(y, k)
  BY <1>1, <1>4, <1>6 DEF Names
<1>9. QED
  BY <1>7, <1>8

\* An object of a selected partition has its key in the listing.
LEMMA ObjectIsListed ==
    ASSUME NEW x \in ObjectsOfDate, x.part \in Selected
    PROVE  \E ref \in Copy!Listing : ref.part = x.part /\ ref.lo = x.lo /\ ref.hi = x.hi
<1>1. Copy!Reference(x) \in Copy!Listing
  BY DEF Copy!Listing
<1>2. /\ Copy!Reference(x).part = x.part /\ Copy!Reference(x).lo = x.lo
      /\ Copy!Reference(x).hi = x.hi
  BY DEF Copy!Reference
<1>3. QED
  BY <1>1, <1>2

\* The writers' steps leave what is owed under its key.
LEMMA IngestKeepsOwed ==
    ASSUME OwedInv, rewound => rewound', UNCHANGED <<replayVars, owed>>,
           \A x \in store : \E y \in store' : SameKey(y, x)
    PROVE  OwedInv'
<1> SUFFICES ASSUME ~rewound'
             PROVE  OwedIsListed' /\ OwedIsCopied'
  BY DEF OwedInv
<1>1. OwedIsListed /\ OwedIsCopied
  BY DEF OwedInv
<1>2. UNCHANGED <<replay, refs, output, published, owed>>
  BY DEF replayVars
<1>3. OwedIsCopied'
  BY <1>1, <1>2 DEF OwedIsCopied, Names
<1>4. ASSUME NEW r \in Replays, replay[r] = "paging", NEW k \in owed[r]
      PROVE  \E x \in ObjectsOfDate' :
                /\ x.part \in Selected /\ Names(x, k)
                /\ \/ \E y \in refs[r] : Replay!SameKey(x, y)
                   \/ \A y \in refs[r] : Replay!Before(y, x)
  <2>1. PICK x \in ObjectsOfDate :
           /\ x.part \in Selected /\ Names(x, k)
           /\ \/ \E y \in refs[r] : Replay!SameKey(x, y)
              \/ \A y \in refs[r] : Replay!Before(y, x)
    BY <1>1, <1>4 DEF OwedIsListed
  <2>2. PICK z \in ObjectsOfDate' : z.part = x.part /\ z.lo = x.lo /\ z.hi = x.hi
    BY ListedKeysStay
  <2>3. z.part \in Selected /\ Names(z, k)
    BY <2>1, <2>2 DEF Names
  <2>4. \/ \E y \in refs[r] : Replay!SameKey(z, y)
        \/ \A y \in refs[r] : Replay!Before(y, z)
    BY <2>1, <2>2 DEF Replay!SameKey, Replay!Before
  <2>5. QED
    BY <2>2, <2>3, <2>4
<1>5. ASSUME NEW r \in Replays, replay[r] \in Copying, NEW k \in owed[r]
      PROVE  \E x \in refs[r] : Names(x, k)
  BY <1>1, <1>5 DEF OwedIsListed, Copying
<1>6. OwedIsListed'
  BY <1>2, <1>4, <1>5 DEF OwedIsListed, Names, Copying, Replay!SameKey, Replay!Before
<1>7. QED
  BY <1>3, <1>6

\* A step of r disturbs neither the other runs nor the output in place, and r
\* itself only if it lists or starts to copy.
LEMMA OthersKeepOwed ==
    ASSUME OwedInv, NEW r \in Replays,
           UNCHANGED <<store, rewound, output, published>>,
           \A s \in Replays : s # r =>
              replay'[s] = replay[s] /\ refs'[s] = refs[s] /\ owed'[s] = owed[s],
           output # Absent => output.by \in Replays,
           ~rewound => /\ owed'[r] = owed[r] \/ (output # Absent => output.by # r)
                       /\ replay'[r] = "paging" => \A k \in owed'[r] :
                            \E x \in ObjectsOfDate :
                               /\ x.part \in Selected /\ Names(x, k)
                               /\ \/ \E y \in refs'[r] : Replay!SameKey(x, y)
                                  \/ \A y \in refs'[r] : Replay!Before(y, x)
                       /\ replay'[r] \in Copying =>
                            \A k \in owed'[r] : \E x \in refs'[r] : Names(x, k)
    PROVE  OwedInv'
<1> SUFFICES ASSUME ~rewound
             PROVE  OwedIsListed' /\ OwedIsCopied'
  BY DEF OwedInv
<1>1. OwedIsListed /\ OwedIsCopied
  BY DEF OwedInv
<1>2. OwedIsCopied'
  BY <1>1 DEF OwedIsCopied, Names
<1>3. ObjectsOfDate' = ObjectsOfDate
  BY DEF ObjectsOfDate, Body, SortedRows
<1>4. ASSUME NEW s \in Replays
      PROVE  /\ replay'[s] = "paging" => \A k \in owed'[s] :
                  \E x \in ObjectsOfDate :
                     /\ x.part \in Selected /\ Names(x, k)
                     /\ \/ \E y \in refs'[s] : Replay!SameKey(x, y)
                        \/ \A y \in refs'[s] : Replay!Before(y, x)
             /\ replay'[s] \in Copying => \A k \in owed'[s] : \E x \in refs'[s] : Names(x, k)
  <2>1. CASE s = r
    BY <2>1
  <2>2. CASE s # r
    BY <1>1, <2>2 DEF OwedIsListed, Copying
  <2>3. QED
    BY <2>1, <2>2
<1>5. OwedIsListed'
  BY <1>3, <1>4 DEF OwedIsListed, Copying, Names, Replay!SameKey, Replay!Before
<1>6. QED
  BY <1>2, <1>5

\* What the runs' own invariant says of the state.
LEMMA RunsAreTyped ==
    ASSUME Copy!ReplayInv
    PROVE  /\ faults \in 0..MaxFaults
           /\ DOMAIN replay = Replays /\ DOMAIN refs = Replays
           /\ \A r \in Replays : refs[r] \subseteq Copy!ObjectReference
           /\ output # Absent => output.by \in Replays
           /\ \A r \in Replays : replay[r] \in Copy!BeforeOutput => r \notin published
BY DEF Copy!ReplayInv, Copy!TypeOK, Copy!File, Copy!FilesAreSound

LEMMA ListingIsSound ==
    ASSUME Copy!ReplayInv
    PROVE  /\ \A x \in Copy!Listing : x.part \in Nat /\ x.lo \in Nat /\ x.hi \in Nat
           /\ \A x, y \in Copy!Listing : Copy!SameKey(x, y) => x = y
<1>1. /\ Copy!Listing \subseteq Copy!ObjectReference
      /\ Copy!OnePerKey(Copy!Listing)
  BY Copy!ListingIsSound, NoFileIsAbsent, LakeAssumption, BoundsAssumption,
     ConfigAssumption DEF Copy!ReplayInv
<1>2. QED
  BY <1>1, LakeAssumption DEF Copy!ObjectReference, Copy!OnePerKey

\* No step of a run takes a fault back.
LEMMA RunsKeepFaults ==
    ASSUME Copy!ReplayInv, NEW r \in Replays, TakeListing(r) \/ ReplayStep(r) \/ ReplayFails(r)
    PROVE  faults' = 0 => faults = 0
<1>1. faults' = faults \/ faults' = faults + 1
  <2>1. Copy!Step(r) \/ Copy!CallFails(r) \/ Copy!Killed(r)
    BY StepIsStep DEF Copy!Step
  <2>2. QED
    BY <2>1 DEF Copy!Step, Copy!ListObjects, Copy!ListFirstPage, Copy!Preflight,
       Copy!CheckOutput, Copy!ListLastPage, Copy!HeadObject, Copy!ReadObject,
       Copy!ReplaceOutput, Copy!OpenManifest, Copy!FillManifest, Copy!ReplaceManifest,
       Copy!CallFails, Copy!Killed
<1>2. QED
  BY <1>1, RunsAreTyped, BoundsAssumption

\* What is owed when a listing begins is in its first page or behind it.
LEMMA ListingHasOwed ==
    ASSUME LakeInv, NEW r \in Replays, TakeListing(r), ~rewound,
           NEW k \in CommittedUnderDate
    PROVE  /\ replay'[r] = "paging" =>
                \E x \in ObjectsOfDate :
                   /\ x.part \in Selected /\ Names(x, k)
                   /\ \/ \E y \in refs'[r] : Replay!SameKey(x, y)
                      \/ \A y \in refs'[r] : Replay!Before(y, x)
           /\ replay'[r] \in Copying => \E x \in refs'[r] : Names(x, k)
<1>1. PICK x \in ObjectsOfDate : x.part \in Selected /\ Names(x, k)
  BY CommittedIsListed DEF LakeInv
<1>2. PICK ref \in Copy!Listing : ref.part = x.part /\ ref.lo = x.lo /\ ref.hi = x.hi
  BY <1>1, ObjectIsListed
<1>3. Names(ref, k)
  BY <1>1, <1>2 DEF Names
<1>4. DOMAIN replay = Replays /\ DOMAIN refs = Replays
  BY RunsAreTyped DEF LakeInv
<1>5. CASE Copy!ListObjects(r)
  <2>1. \/ /\ refs' = [refs EXCEPT ![r] = Copy!Listing]
           /\ replay' = [replay EXCEPT ![r] = "heading"]
        \/ replay' = [replay EXCEPT ![r] = "failed"]
    BY <1>5 DEF Copy!ListObjects, Copy!Begin, Copy!Goto
  <2>2. \/ refs'[r] = Copy!Listing /\ replay'[r] = "heading"
        \/ replay'[r] = "failed"
    BY <1>4, <2>1
  <2>3. QED
    BY <1>3, <2>2 DEF Copying
<1>6. CASE Copy!ListFirstPage(r)
  <2>1. PICK last \in Copy!Listing :
           refs' = [refs EXCEPT ![r] = {y \in Copy!Listing : y = last \/ Copy!Before(y, last)}]
    BY <1>6 DEF Copy!ListFirstPage
  <2>2. replay' = [replay EXCEPT ![r] = "paging"]
    BY <1>6 DEF Copy!ListFirstPage, Copy!Goto
  <2>3. /\ refs'[r] = {y \in Copy!Listing : y = last \/ Copy!Before(y, last)}
        /\ replay'[r] = "paging"
    BY <1>4, <2>1, <2>2
  <2>4. /\ \A y \in Copy!Listing : y.part \in Nat /\ y.lo \in Nat /\ y.hi \in Nat
        /\ \A y, z \in Copy!Listing : Copy!SameKey(y, z) => y = z
    BY ListingIsSound DEF LakeInv
  <2>5. CASE ref \in refs'[r]
    <3>1. Replay!SameKey(x, ref)
      BY <1>2 DEF Replay!SameKey
    <3>2. QED
      BY <1>1, <2>3, <2>5, <3>1 DEF Copying
  <2>6. CASE ref \notin refs'[r]
    <3>1. ref # last /\ ~Copy!Before(ref, last)
      BY <2>3, <2>6
    <3>2. ~Copy!SameKey(ref, last)
      BY <2>4, <3>1
    <3>3. Copy!Before(last, ref)
      BY <2>4, <3>1, <3>2 DEF Copy!Before, Copy!SameKey
    <3>4. ASSUME NEW y \in refs'[r]
          PROVE  Copy!Before(y, ref)
      BY <2>3, <2>4, <3>3, <3>4 DEF Copy!Before
    <3>5. \A y \in refs'[r] : Replay!Before(y, x)
      BY <1>2, <3>4 DEF Replay!Before, Copy!Before
    <3>6. QED
      BY <1>1, <2>3, <3>5 DEF Copying
  <2>7. QED
    BY <2>5, <2>6
<1>7. QED
  BY <1>5, <1>6, StepIsStep

LEMMA TakeListingKeepsOwed ==
    ASSUME LakeInv, NEW r \in Replays, TakeListing(r)
    PROVE  OwedInv'
<1>1. Copy!ListObjects(r) \/ Copy!ListFirstPage(r)
  BY StepIsStep
<1>2. /\ replay[r] = "listing"
      /\ UNCHANGED <<output, published>>
      /\ \E label, listing : /\ replay' = [replay EXCEPT ![r] = label]
                             /\ refs' = [refs EXCEPT ![r] = listing]
  BY <1>1 DEF Copy!ListObjects, Copy!ListFirstPage, Copy!Begin, Copy!Goto, Copy!outputVars
<1>3. UNCHANGED <<store, rewound>> /\ owed' = [owed EXCEPT ![r] = CommittedUnderDate]
  BY DEF TakeListing, ingestionVars, historyVars
<1>4. /\ DOMAIN owed = Replays /\ DOMAIN replay = Replays /\ DOMAIN refs = Replays
      /\ output # Absent => output.by \in Replays
      /\ r \notin published
  BY <1>2, RunsAreTyped DEF LakeInv, Copy!BeforeOutput
<1>5. /\ \A s \in Replays : s # r =>
            replay'[s] = replay[s] /\ refs'[s] = refs[s] /\ owed'[s] = owed[s]
      /\ owed'[r] = CommittedUnderDate
  BY <1>2, <1>3, <1>4
<1>6. ~rewound => (output # Absent => output.by # r)
  BY <1>4 DEF LakeInv, OwedInv, OwedIsCopied
<1>7. QED
  BY <1>2, <1>3, <1>4, <1>5, <1>6, ListingHasOwed, OthersKeepOwed DEF LakeInv

\* The last page brings what the first one did not have.
LEMMA LastPageHasOwed ==
    ASSUME LakeInv, NEW r \in Replays, Copy!ListLastPage(r), ~rewound, NEW k \in owed[r]
    PROVE  /\ replay'[r] # "paging"
           /\ replay'[r] \in Copying => \E x \in refs'[r] : Names(x, k)
<1>1. /\ replay[r] = "paging"
      /\ \/ /\ refs' = [refs EXCEPT ![r] = refs[r] \cup Copy!NextPage(r)]
            /\ replay' = [replay EXCEPT ![r] = "heading"]
         \/ replay' = [replay EXCEPT ![r] = "failed"]
  BY DEF Copy!ListLastPage, Copy!Begin, Copy!Goto
<1>2. DOMAIN replay = Replays /\ DOMAIN refs = Replays
  BY RunsAreTyped DEF LakeInv
<1>3. \/ refs'[r] = refs[r] \cup Copy!NextPage(r) /\ replay'[r] = "heading"
      \/ replay'[r] = "failed"
  BY <1>1, <1>2
<1>4. PICK x \in ObjectsOfDate :
         /\ x.part \in Selected /\ Names(x, k)
         /\ \/ \E y \in refs[r] : Replay!SameKey(x, y)
            \/ \A y \in refs[r] : Replay!Before(y, x)
  BY <1>1 DEF LakeInv, OwedInv, OwedIsListed
<1>5. \E y \in refs[r] \cup Copy!NextPage(r) : Names(y, k)
  <2>1. CASE \E y \in refs[r] : Replay!SameKey(x, y)
    BY <1>4, <2>1 DEF Replay!SameKey, Names
  <2>2. CASE \A y \in refs[r] : Replay!Before(y, x)
    <3>1. PICK ref \in Copy!Listing : ref.part = x.part /\ ref.lo = x.lo /\ ref.hi = x.hi
      BY <1>4, ObjectIsListed
    <3>2. \A y \in refs[r] : Copy!Before(y, ref)
      BY <2>2, <3>1 DEF Replay!Before, Copy!Before
    <3>3. ref \in Copy!NextPage(r)
      BY <3>2 DEF Copy!NextPage
    <3>4. QED
      BY <1>4, <3>1, <3>3 DEF Names
  <2>3. QED
    BY <1>4, <2>1, <2>2
<1>6. QED
  BY <1>3, <1>5 DEF Copying

\* os.replace puts in place what was listed.
LEMMA ReplaceOutputKeepsOwed ==
    ASSUME LakeInv, NEW r \in Replays, Copy!ReplaceOutput(r),
           UNCHANGED <<store, rewound, owed>>
    PROVE  OwedInv'
<1> SUFFICES ASSUME ~rewound
             PROVE  OwedIsListed' /\ OwedIsCopied'
  BY DEF OwedInv
<1>1. /\ replay[r] = "replacing"
      /\ output' = [rows |-> temporary[r], by |-> r, refs |-> refs[r]]
      /\ published' = published \cup {r}
      /\ replay' = [replay EXCEPT ![r] = "describing"]
      /\ refs' = refs
  BY DEF Copy!ReplaceOutput, Copy!Goto
<1>2. DOMAIN replay = Replays
  BY RunsAreTyped DEF LakeInv
<1>3. \A s \in Replays : replay'[s] = IF s = r THEN "describing" ELSE replay[s]
  BY <1>1, <1>2
<1>4. OwedIsListed
  BY DEF LakeInv, OwedInv
<1>5. OwedIsCopied'
  <2>1. \A k \in owed[r] : \E x \in refs[r] : Names(x, k)
    BY <1>1, <1>4 DEF OwedIsListed
  <2>2. output'.by = r /\ output'.refs = refs[r] /\ r \in published'
    BY <1>1
  <2>3. QED
    BY <2>1, <2>2 DEF OwedIsCopied, Names
<1>6. ObjectsOfDate' = ObjectsOfDate
  BY DEF ObjectsOfDate, Body, SortedRows
<1>7. OwedIsListed'
  BY <1>1, <1>3, <1>4, <1>6 DEF OwedIsListed, Names, Replay!SameKey, Replay!Before
<1>8. QED
  BY <1>5, <1>7

\* Every other step of a run goes on copying what was listed, or is outside of
\* the copy.
LEMMA StepOfARun ==
    ASSUME Copy!ReplayInv, NEW r \in Replays,
           \/ Copy!Preflight(r) \/ Copy!CheckOutput(r)
           \/ Copy!HeadObject(r) \/ Copy!ReadObject(r)
           \/ Copy!OpenManifest(r) \/ Copy!FillManifest(r) \/ Copy!ReplaceManifest(r)
           \/ Copy!CallFails(r) \/ Copy!Killed(r)
    PROVE  /\ UNCHANGED <<output, published>>
           /\ \A s \in Replays : s # r => replay'[s] = replay[s] /\ refs'[s] = refs[s]
           /\ \/ replay'[r] \notin Copying \cup {"paging"}
              \/ replay[r] \in Copying /\ replay'[r] \in Copying /\ refs'[r] = refs[r]
<1>1. DOMAIN replay = Replays /\ DOMAIN refs = Replays
  BY RunsAreTyped
<1>2. /\ UNCHANGED <<output, published>>
      /\ \/ /\ refs' = refs
            /\ \E label \in {"checking", "done", "failed", "listing", "filling", "publishing"} :
                  replay' = [replay EXCEPT ![r] = label]
         \/ /\ \E listing : refs' = [refs EXCEPT ![r] = listing]
            /\ \E label \in {"done", "failed", "killed"} : replay' = [replay EXCEPT ![r] = label]
         \/ /\ refs' = refs /\ replay[r] \in Copying
            /\ \E label \in Copying : replay' = [replay EXCEPT ![r] = label]
  <2> USE DEF Copy!Goto, Copy!End, Copy!Fail, Copy!fileVars, Copy!outputVars, Copying
  <2>1. CASE Copy!Preflight(r)
    BY <2>1 DEF Copy!Preflight
  <2>2. CASE Copy!CheckOutput(r)
    BY <2>2 DEF Copy!CheckOutput
  <2>3. CASE Copy!HeadObject(r)
    BY <2>3 DEF Copy!HeadObject
  <2>4. CASE Copy!ReadObject(r)
    BY <2>4 DEF Copy!ReadObject
  <2>5. CASE Copy!OpenManifest(r)
    BY <2>5 DEF Copy!OpenManifest
  <2>6. CASE Copy!FillManifest(r)
    BY <2>6 DEF Copy!FillManifest
  <2>7. CASE Copy!ReplaceManifest(r)
    <3>1. /\ UNCHANGED <<output, published>>
          /\ Copy!End(r, "failed") \/ Copy!End(r, "done")
      BY <2>7 DEF Copy!ReplaceManifest
    <3>2. QED
      BY <3>1
  <2>8. CASE Copy!CallFails(r) \/ Copy!Killed(r)
    <3>1. /\ UNCHANGED <<output, published>>
          /\ Copy!End(r, "failed") \/ Copy!End(r, "killed")
      BY <2>8 DEF Copy!CallFails, Copy!Killed
    <3>2. QED
      BY <3>1
  <2>9. QED
    BY <2>1, <2>2, <2>3, <2>4, <2>5, <2>6, <2>7, <2>8
<1>3. QED
  BY <1>1, <1>2 DEF Copying

LEMMA RunKeepsOwed ==
    ASSUME LakeInv, NEW r \in Replays, ReplayStep(r) \/ ReplayFails(r)
    PROVE  OwedInv'
<1>1. UNCHANGED <<store, rewound, owed>>
  BY DEF ReplayStep, ReplayFails, ingestionVars, historyVars
<1>2. Copy!ReplayInv /\ (output # Absent => output.by \in Replays)
  BY RunsAreTyped DEF LakeInv
<1>3. CASE Copy!ReplaceOutput(r)
  BY <1>1, <1>3, ReplaceOutputKeepsOwed
<1>4. CASE Copy!ListLastPage(r)
  <2>1. /\ UNCHANGED <<output, published>>
        /\ \E label, listing : /\ replay' = [replay EXCEPT ![r] = label]
                               /\ refs' = [refs EXCEPT ![r] = listing]
    BY <1>4 DEF Copy!ListLastPage, Copy!Begin, Copy!Goto, Copy!outputVars
  <2>2. \A s \in Replays : s # r =>
           replay'[s] = replay[s] /\ refs'[s] = refs[s] /\ owed'[s] = owed[s]
    BY <1>1, <1>2, <2>1, RunsAreTyped
  <2>3. ~rewound =>
           /\ replay'[r] = "paging" => owed[r] = {}
           /\ replay'[r] \in Copying => \A k \in owed[r] : \E x \in refs'[r] : Names(x, k)
    BY <1>4, LastPageHasOwed
  <2>4. QED
    BY <1>1, <1>2, <2>1, <2>2, <2>3, OthersKeepOwed DEF LakeInv
<1>5. CASE \/ Copy!Preflight(r) \/ Copy!CheckOutput(r)
           \/ Copy!HeadObject(r) \/ Copy!ReadObject(r)
           \/ Copy!OpenManifest(r) \/ Copy!FillManifest(r) \/ Copy!ReplaceManifest(r)
           \/ Copy!CallFails(r) \/ Copy!Killed(r)
  <2>1. /\ UNCHANGED <<output, published>>
        /\ \A s \in Replays : s # r => replay'[s] = replay[s] /\ refs'[s] = refs[s]
        /\ \/ replay'[r] \notin Copying \cup {"paging"}
           \/ replay[r] \in Copying /\ replay'[r] \in Copying /\ refs'[r] = refs[r]
    BY <1>2, <1>5, StepOfARun
  <2>2. ~rewound =>
           /\ replay'[r] # "paging"
           /\ replay'[r] \in Copying => \A k \in owed[r] : \E x \in refs'[r] : Names(x, k)
    BY <2>1 DEF LakeInv, OwedInv, OwedIsListed, Copying
  <2>3. QED
    BY <1>1, <1>2, <2>1, <2>2, OthersKeepOwed DEF LakeInv
<1>6. QED
  BY <1>3, <1>4, <1>5, StepIsStep

-----------------------------------------------------------------------------
(* What holds of the lake *)

LEMMA InitEstablishesLakeInv == LakeInit => LakeInv
<1> SUFFICES ASSUME LakeInit
             PROVE  LakeInv
  OBVIOUS
<1>1. Init /\ Copy!Init /\ owed = [r \in Replays |-> {}]
  BY InitIsInit DEF LakeInit
<1>2. IngestionInv /\ StoreInv
  BY <1>1, InitEstablishesIngestionInv, InitEstablishesStoreInv
<1>3. OneObjectPerKey
  BY <1>1, FS_EmptySet DEF Init, OneObjectPerKey
<1>4. Copy!ReplayInv
  BY <1>1, Copy!InitEstablishesReplayInv, NoFileIsAbsent, LakeAssumption, BoundsAssumption,
     ConfigAssumption
<1>5. OwedInv
  BY <1>1 DEF Copy!Init, OwedInv, OwedIsListed, OwedIsCopied
<1>6. QED
  BY <1>1, <1>2, <1>3, <1>4, <1>5 DEF LakeInv

\* A writer's step, whatever it puts under the date that is being replayed.
LEMMA IngestKeepsLakeInv ==
    ASSUME LakeInv, [Next]_vars, UNCHANGED <<replayVars, owed>>
    PROVE  LakeInv'
<1>1. IngestionInv' /\ StoreInv'
  BY NextKeepsIngestionInv, NextKeepsStoreInv DEF LakeInv
<1>2. OneObjectPerKey' /\ \A x \in store : \E y \in store' : SameKey(y, x)
  BY KeysStay DEF LakeInv
<1>3. faults' \in 0..MaxFaults /\ (rewound => rewound')
  BY RunsAreTyped, WritersFaultsAndRewinds DEF LakeInv
<1>4. ObjectsOfDate' \subseteq Copy!Object /\ Copy!OnePerKey(ObjectsOfDate)'
  BY <1>1, <1>2, ObjectsStaySound DEF ObjectsSound
<1>5. ASSUME NEW ref, NEW x \in ObjectsOfDate, Copy!SameKey(x, ref)
      PROVE  \E y \in ObjectsOfDate' : Copy!SameKey(y, ref)
  BY <1>2, <1>5, ListedKeysStay DEF Copy!SameKey
<1>6. Copy!ReplayInv'
  <2>1. UNCHANGED <<replay, refs, done, temporary, output, published, manifestTemp, manifest,
                    handle, text, overlapped>>
    BY DEF replayVars
  <2>2. Copy!ReplayInv
    BY DEF LakeInv
  <2>3. 0 \in 0..0
    OBVIOUS
  <2>4. QED
    BY <1>3, <1>4, <1>5, <2>1, <2>2, <2>3, Copy!BucketKeepsReplayInv, NoFileIsAbsent,
       LakeAssumption, BoundsAssumption, ConfigAssumption
<1>7. OwedInv'
  BY <1>2, <1>3, IngestKeepsOwed DEF LakeInv
<1>8. QED
  BY <1>1, <1>2, <1>6, <1>7 DEF LakeInv

\* A step of a replay run, whatever the writers have left it.
LEMMA ReplayKeepsLakeInv ==
    ASSUME LakeInv, NEW r \in Replays, TakeListing(r) \/ ReplayStep(r) \/ ReplayFails(r)
    PROVE  LakeInv'
<1>1. Copy!Step(r) \/ Copy!CallFails(r) \/ Copy!Killed(r)
  BY StepIsStep DEF Copy!Step
<1>2. Copy!ReplayInv'
  BY <1>1, Copy!StepKeepsReplayInv, NoFileIsAbsent, LakeAssumption, BoundsAssumption,
     ConfigAssumption DEF LakeInv
<1>3. faults' \in Nat
  BY <1>2, BoundsAssumption DEF Copy!ReplayInv, Copy!TypeOK
<1>4. UNCHANGED ingestionVars
  BY DEF TakeListing, ReplayStep, ReplayFails
<1>5. IngestionInv' /\ StoreInv' /\ OneObjectPerKey'
  BY <1>3, <1>4, ReplaysLeaveWritersAlone DEF LakeInv
<1>6. OwedInv'
  BY TakeListingKeepsOwed, RunKeepsOwed
<1>7. owed' \in [Replays -> SUBSET (Selected \X (0..MaxOffset))]
  <2>1. owed' = owed \/ owed' = [owed EXCEPT ![r] = CommittedUnderDate]
    BY DEF TakeListing, ReplayStep, ReplayFails
  <2>2. CommittedUnderDate \subseteq Selected \X (0..MaxOffset)
    BY DEF CommittedUnderDate
  <2> HIDE DEF CommittedUnderDate
  <2>3. QED
    BY <2>1, <2>2 DEF LakeInv
<1>8. QED
  BY <1>2, <1>5, <1>6, <1>7 DEF LakeInv

LEMMA LakeNextKeepsLakeInv == LakeInv /\ [LakeNext]_lakeVars => LakeInv'
<1> SUFFICES ASSUME LakeInv, [LakeNext]_lakeVars
             PROVE  LakeInv'
  OBVIOUS
<1>1. CASE Ingest \/ UNCHANGED lakeVars
  BY <1>1, IngestKeepsLakeInv DEF Ingest, lakeVars
<1>2. ASSUME NEW r \in Replays, TakeListing(r) \/ ReplayStep(r) \/ ReplayFails(r)
      PROVE  LakeInv'
  BY <1>2, ReplayKeepsLakeInv
<1>3. QED
  BY <1>1, <1>2 DEF LakeNext

\* Writers and replay runs keep their invariants over one bucket, and what is owed
\* to a run is in its listing from its first page to its output.
THEOREM LakeInvHolds == LakeSpec => []LakeInv
BY InitEstablishesLakeInv, LakeNextKeepsLakeInv, PTL DEF LakeSpec

\* A published replay brings back every record that was committed when its listing
\* began, retention and other dates aside: with any number of writers, batches,
\* replays and faults, unless a stale buffer has moved an offset back
\* (bronze_writer.py:592, replay_bronze.py:612).
THEOREM ReplayBringsBackCommitted == LakeSpec => []ReplayHasCommitted
<1>1. LakeInv => ReplayHasCommitted
  <2> SUFFICES ASSUME LakeInv, ~rewound, output # Absent, NEW k \in owed[output.by]
               PROVE  k \in {<<output.rows[i].part, output.rows[i].off>> :
                                i \in DOMAIN output.rows}
    BY DEF ReplayHasCommitted
  <2>1. PICK x \in output.refs : Names(x, k)
    BY DEF LakeInv, OwedInv, OwedIsCopied
  <2>2. k \in Selected \X (0..MaxOffset)
    BY RunsAreTyped DEF LakeInv
  <2>3. k = <<k[1], k[2]>>
    BY <2>2
  <2>4. <<k[1], k[2]>> \in {x.part} \X (x.lo..x.hi)
    BY <2>1 DEF Names
  <2>5. k \in UNION {{y.part} \X (y.lo..y.hi) : y \in output.refs}
    BY <2>1, <2>3, <2>4
  <2>6. Copy!Covers(output.rows, output.refs)
    BY DEF LakeInv, Copy!ReplayInv, Copy!OutputIsSound
  <2>7. QED
    BY <2>5, <2>6 DEF Copy!Covers
<1>2. QED
  BY <1>1, LakeInvHolds, PTL

-----------------------------------------------------------------------------
(* What the writers leave in the bucket *)

\* Only a poll makes a batch longer.
LEMMA BatchesGrowByPolls ==
    ASSUME IngestionInv, [Next]_vars, NEW w \in Writers
    PROVE  \/ buffer'[w] = buffer[w]
           \/ buffer'[w] = << >>
           \/ \E p \in Partitions : PollRecord(w, p)
<1>0. buffer \in [Writers -> Seq(Record)]
  BY DEF IngestionInv, TypeOK
<1>1. ASSUME NEW v \in Writers, \/ PollNone(v) \/ PutObject(v) \/ VerifyObject(v)
                                \/ CommitOffsets(v) \/ Abort(v)
      PROVE  buffer'[w] = buffer[w] \/ buffer'[w] = << >>
  BY <1>0, <1>1 DEF PollNone, PutObject, VerifyObject, CommitOffsets, Abort, Close
<1>2. ASSUME NEW p \in Partitions, Produce(p) \/ Expire(p) \/ FetchOffset(p)
      PROVE  buffer' = buffer
  BY <1>2 DEF Produce, Expire, FetchOffset, writerVars
<1>3. ASSUME NextDay \/ Rebalance \/ UNCHANGED vars \/ \E m \in Members : LoseMembership(m)
      PROVE  buffer' = buffer
  BY <1>3 DEF NextDay, Rebalance, LoseMembership, vars, writerVars
<1>4. ASSUME NEW v \in Writers, StartWriter(v)
      PROVE  buffer' = buffer
  BY <1>4 DEF StartWriter
<1>5. ASSUME NEW c \in Consoles, \/ StartConsole(c) \/ StopConsole(c)
                                 \/ \E p \in Partitions : PollConsole(c, p)
      PROVE  buffer' = buffer
  BY <1>5 DEF StartConsole, StopConsole, PollConsole, writerVars
<1>6. ASSUME NEW v \in Writers, NEW p \in Partitions, PollRecord(v, p)
      PROVE  buffer'[w] = buffer[w] \/ v = w
  BY <1>0, <1>6 DEF PollRecord
<1>7. QED
  BY <1>1, <1>2, <1>3, <1>4, <1>5, <1>6 DEF Next

\* The objects a step leaves are old ones, or the group of a buffer.
LEMMA ObjectsComeFromBuffers ==
    ASSUME IngestionInv, [Next]_vars, NEW x \in store', x \notin store
    PROVE  \E w \in Writers, p \in Partitions :
              /\ x.count = RowCount(buffer[w], p)
              /\ x.rows = Rows(buffer[w], p)
<1>1. PICK w \in Writers : \E p \in PartitionsOf(buffer[w]) : x = ObjectFor(w, p)
  BY StoreChange DEF StoreWith
<1>2. PICK p \in PartitionsOf(buffer[w]) : x = ObjectFor(w, p)
  BY <1>1
<1>3. p \in Partitions
  BY GroupEnds
<1>4. x.count = RowCount(buffer[w], p) /\ x.rows = Rows(buffer[w], p)
  BY <1>2 DEF ObjectFor
<1>5. QED
  BY <1>3, <1>4

LEMMA NothingInAnEmptyBatch ==
    ASSUME NEW p
    PROVE  Rows(<< >>, p) = {} /\ RowCount(<< >>, p) = 0
<1>1. {i \in DOMAIN << >> : << >>[i].part = p} = {}
  OBVIOUS
<1>2. QED
  BY <1>1, EmptyBatch, FS_EmptySet DEF RowCount

\* What a writer reads next lies beyond everything it has buffered, until a rebalance
\* moves its position back.
LEMMA NextKeepsOneRowPerOffset ==
    ASSUME IngestionInv, FreshInv, OneRowPerOffset, [Next]_vars
    PROVE  OneRowPerOffset'
<1> SUFFICES ASSUME ~overtaken'
             PROVE  OneRowPerOffset'
  BY DEF OneRowPerOffset
<1>0. ~overtaken
  BY OvertakenStays
<1> DEFINE Single(batch) ==
              \A p \in Partitions : /\ IsFiniteSet(Rows(batch, p))
                                    /\ RowCount(batch, p) = Cardinality(Rows(batch, p))
<1>1. /\ \A w \in Writers : Single(buffer[w])
      /\ \A x \in store : x.count = Cardinality(x.rows)
  BY <1>0 DEF OneRowPerOffset
<1>2. Single(<< >>)
  BY NothingInAnEmptyBatch, FS_EmptySet
<1>3. \A x \in store' : x.count = Cardinality(x.rows)
  BY <1>1, ObjectsComeFromBuffers
<1>4. ASSUME NEW w \in Writers, NEW p \in Partitions, PollRecord(w, p)
      PROVE  Single(buffer'[w])
  <2> DEFINE o == NextOffset(p)
             r == [part |-> p, off |-> o]
  <2>1. /\ o \in Nat /\ position[p] \in Nat /\ position[p] <= o
        /\ Rows(buffer'[w], p) = Rows(buffer[w], p) \cup {o}
        /\ \A q \in Partitions \ {p} : Rows(buffer'[w], q) = Rows(buffer[w], q)
    BY <1>4, PollRecordEffect DEF Buffered
  <2>2. buffer'[w] = Append(buffer[w], r)
    BY <1>4 DEF PollRecord, IngestionInv, TypeOK
  <2>3. r \in Record /\ buffer[w] \in Seq(Record)
    BY <2>1 DEF Record, IngestionInv, TypeOK
  <2>4. /\ RowCount(buffer'[w], p) = RowCount(buffer[w], p) + 1
        /\ \A q \in Partitions \ {p} : RowCount(buffer'[w], q) = RowCount(buffer[w], q)
    BY <2>2, <2>3, RowCountOfAppend
  <2>5. o \notin Rows(buffer[w], p)
    <3>1. \A i \in Rows(buffer[w], p) : i \in Nat /\ i < position[p]
      BY <1>0, <2>3, RowsAreOffsets DEF FreshInv
    <3>2. QED
      BY <2>1, <3>1
  <2> HIDE DEF o, r
  <2>6. /\ IsFiniteSet(Rows(buffer[w], p))
        /\ Single(buffer[w])
    BY <1>1
  <2>7. /\ IsFiniteSet(Rows(buffer'[w], p))
        /\ Cardinality(Rows(buffer'[w], p)) = Cardinality(Rows(buffer[w], p)) + 1
    BY <2>1, <2>5, <2>6, FS_AddElement
  <2>8. QED
    BY <2>1, <2>4, <2>6, <2>7
<1>5. ASSUME NEW w \in Writers
      PROVE  Single(buffer'[w])
  <2> HIDE DEF Single
  <2>1. QED
    BY <1>1, <1>2, <1>4, BatchesGrowByPolls
<1>6. QED
  BY <1>3, <1>5 DEF OneRowPerOffset

\* A batch repeats at most as many rows as it has.
LEMMA RepeatedRowsAreBounded ==
    ASSUME NEW batch \in Seq(Record), NEW p
    PROVE  /\ RowCount(batch, p) - Cardinality(Rows(batch, p)) \in Nat
           /\ RowCount(batch, p) - Cardinality(Rows(batch, p)) <= Len(batch)
<1> DEFINE I == {i \in DOMAIN batch : batch[i].part = p}
           f == [i \in I |-> batch[i].off]
<1>1. DOMAIN batch = 1..Len(batch) /\ Len(batch) \in Nat
  OBVIOUS
<1>2. IsFiniteSet(1..Len(batch)) /\ Cardinality(1..Len(batch)) = Len(batch)
  BY <1>1, FS_Interval
<1>3. IsFiniteSet(I) /\ Cardinality(I) <= Len(batch)
  <2>1. I \subseteq 1..Len(batch)
    BY <1>1
  <2> HIDE DEF I
  <2>2. QED
    BY <1>2, <2>1, FS_Subset
<1>4. Rows(batch, p) = {f[i] : i \in I}
  BY DEF Rows
<1>5. f \in Surjection(I, Rows(batch, p))
  BY <1>4 DEF Surjection
<1>6. IsFiniteSet(Rows(batch, p)) /\ Cardinality(Rows(batch, p)) <= Cardinality(I)
  BY <1>3, <1>5, FS_Surjection
<1>7. RowCount(batch, p) = Cardinality(I)
  BY DEF RowCount
<1>8. Cardinality(I) \in Nat /\ Cardinality(Rows(batch, p)) \in Nat
  BY <1>3, <1>6, FS_CardinalityType
<1> HIDE DEF I, f
<1>9. QED
  BY <1>1, <1>3, <1>6, <1>7, <1>8

LEMMA NextKeepsBatchesBounded ==
    ASSUME IngestionInv, BatchesAreBounded, [Next]_vars
    PROVE  BatchesAreBounded'
<1>0. /\ BatchSize \in Nat \ {0}
      /\ buffer \in [Writers -> Seq(Record)]
      /\ DOMAIN pc = Members /\ pc = [m \in Members |-> pc[m]] /\ Writers \subseteq Members
  BY ConfigAssumption DEF IngestionInv, TypeOK, Members
<1>1. \A x \in store' : x.count - Cardinality(x.rows) \in 0..BatchSize
  <2>1. ASSUME NEW x \in store', x \notin store
        PROVE  x.count - Cardinality(x.rows) \in 0..BatchSize
    <3>1. PICK w \in Writers, p \in Partitions :
             x.count = RowCount(buffer[w], p) /\ x.rows = Rows(buffer[w], p)
      BY <2>1, ObjectsComeFromBuffers
    <3>2. buffer[w] \in Seq(Record) /\ Len(buffer[w]) <= BatchSize
      BY <1>0 DEF BatchesAreBounded
    <3>3. Len(buffer[w]) \in Nat
      BY <3>2
    <3>4. QED
      BY <1>0, <3>1, <3>2, <3>3, RepeatedRowsAreBounded
  <2>2. QED
    BY <2>1 DEF BatchesAreBounded
<1> DEFINE Bounded(b, label) == /\ Len(b) <= BatchSize
                                /\ label = "polling" => Len(b) < BatchSize
                                /\ label = "down" => b = << >>
<1>2. \A w \in Writers : Bounded(buffer[w], pc[w])
  BY DEF BatchesAreBounded
<1>3. \A label : Bounded(<< >>, label)
  BY <1>0
<1>4. ASSUME NEW w \in Writers, Close(w), NEW v \in Writers
      PROVE  Bounded(buffer'[v], pc'[v])
  <2>1. IF v = w THEN buffer'[v] = << >>
                 ELSE buffer'[v] = buffer[v] /\ pc'[v] = pc[v]
    BY <1>0, <1>4 DEF Close
  <2> HIDE DEF Bounded
  <2>2. QED
    BY <1>2, <1>3, <2>1
<1>5. ASSUME NEW w \in Writers, NEW p \in Partitions, PollRecord(w, p), NEW v \in Writers
      PROVE  Bounded(buffer'[v], pc'[v])
  <2> DEFINE batch == Append(buffer[w], [part |-> p, off |-> NextOffset(p)])
  <2>1. /\ buffer' = [buffer EXCEPT ![w] = batch]
        /\ \/ pc' = [pc EXCEPT ![w] = "putting"]
           \/ Len(batch) < BatchSize /\ pc' = pc
        /\ pc[w] = "polling"
    <3>1. Len(batch) \in Nat
      BY <1>0
    <3>2. QED
      BY <1>0, <1>5, <3>1 DEF PollRecord, BeginFlush, Deliverable
  <2>2. Len(batch) <= BatchSize
    <3>1. Len(buffer[w]) \in Nat /\ Len(batch) = Len(buffer[w]) + 1
      BY <1>0
    <3>2. Len(buffer[w]) < BatchSize
      BY <1>2, <2>1
    <3> HIDE DEF batch
    <3>3. QED
      BY <1>0, <3>1, <3>2
  <2> HIDE DEF batch
  <2>3. QED
    BY <1>0, <1>2, <2>1, <2>2
<1>6. ASSUME NEW w \in Writers, StartWriter(w), NEW v \in Writers
      PROVE  Bounded(buffer'[v], pc'[v])
  BY <1>0, <1>2, <1>3, <1>6 DEF StartWriter
<1>7. ASSUME NEW w \in Writers, ~Close(w), NEW v \in Writers,
             PollNone(w) \/ PutObject(w) \/ VerifyObject(w) \/ Abort(w)
      PROVE  Bounded(buffer'[v], pc'[v])
  <2>1. /\ buffer' = buffer
        /\ \E label \in {"putting", "verifying", "committing"} :
              pc' = [pc EXCEPT ![w] = label]
    BY <1>7 DEF PollNone, PutObject, VerifyObject, Abort, BeginFlush
  <2>2. QED
    BY <1>0, <1>2, <2>1
<1>8. ASSUME NEW w \in Writers, ~Close(w), CommitOffsets(w), NEW v \in Writers
      PROVE  Bounded(buffer'[v], pc'[v])
  <2>1. IF v = w THEN buffer'[v] = << >>
                 ELSE buffer'[v] = buffer[v] /\ pc'[v] = pc[v]
    BY <1>0, <1>8 DEF CommitOffsets
  <2> HIDE DEF Bounded
  <2>2. QED
    BY <1>2, <1>3, <2>1
<1>9. ASSUME NEW v \in Writers, buffer'[v] = buffer[v], pc'[v] = pc[v]
      PROVE  Bounded(buffer'[v], pc'[v])
  BY <1>2, <1>9
<1>10. ASSUME NEW c \in Consoles, NEW v \in Writers,
              \/ StartConsole(c) \/ StopConsole(c)
              \/ \E p \in Partitions : PollConsole(c, p)
       PROVE  buffer'[v] = buffer[v] /\ pc'[v] = pc[v]
  BY <1>0, <1>10, MembersAssumption DEF StartConsole, StopConsole, PollConsole, Members,
     writerVars
<1>11. ASSUME \/ \E p \in Partitions : Produce(p) \/ Expire(p) \/ FetchOffset(p)
              \/ NextDay \/ Rebalance \/ \E m \in Members : LoseMembership(m)
              \/ UNCHANGED vars
       PROVE  buffer' = buffer /\ pc' = pc
  BY <1>11 DEF Produce, Expire, FetchOffset, NextDay, Rebalance, LoseMembership, vars,
     writerVars
<1> HIDE DEF Bounded
<1>12. \A v \in Writers : Bounded(buffer'[v], pc'[v])
  BY <1>4, <1>5, <1>6, <1>7, <1>8, <1>9, <1>10, <1>11 DEF Next
<1>13. QED
  BY <1>1, <1>12 DEF BatchesAreBounded, Bounded

\* What the batches and the objects of any group keep, and the replays leave alone.
BatchInv == FreshInv /\ OneRowPerOffset /\ BatchesAreBounded

LEMMA LakeNextKeepsBatchInv ==
    ASSUME LakeInv, BatchInv, [LakeNext]_lakeVars
    PROVE  BatchInv'
<1>1. CASE Ingest \/ UNCHANGED lakeVars
  <2>1. [Next]_vars
    BY <1>1 DEF Ingest, lakeVars
  <2>2. QED
    BY <2>1, NextKeepsFreshInv, NextKeepsOneRowPerOffset, NextKeepsBatchesBounded
       DEF LakeInv, BatchInv
<1>2. CASE UNCHANGED ingestionVars
  <2>1. UNCHANGED <<owner, buffer, committed, position, rewound, overtaken, store, pc>>
    BY <1>2 DEF ingestionVars, brokerVars, writerVars, historyVars
  <2>2. FreshInv'
    BY <2>1 DEF BatchInv, FreshInv
  <2>3. OneRowPerOffset'
    BY <2>1 DEF BatchInv, OneRowPerOffset
  <2>4. BatchesAreBounded'
    BY <2>1 DEF BatchInv, BatchesAreBounded
  <2>5. QED
    BY <2>2, <2>3, <2>4 DEF BatchInv
<1>3. QED
  BY <1>1, <1>2 DEF LakeNext, TakeListing, ReplayStep, ReplayFails

LEMMA BatchInvHolds == LakeSpec => []BatchInv
<1>1. LakeInit => BatchInv
  <2> SUFFICES ASSUME LakeInit
               PROVE  BatchInv
    OBVIOUS
  <2>1. /\ \A w \in Writers : buffer[w] = << >> /\ pc[w] = "down"
        /\ store = {} /\ ~rewound
        /\ \A p \in Partitions : position[p] = NoOffset
    BY DEF LakeInit, Init, Members
  <2>2. FreshInv
    BY <2>1, EmptyBatch DEF FreshInv
  <2>3. OneRowPerOffset
    BY <2>1, NothingInAnEmptyBatch, FS_EmptySet DEF OneRowPerOffset
  <2>4. BatchesAreBounded
    BY <2>1, ConfigAssumption DEF BatchesAreBounded
  <2>5. QED
    BY <2>2, <2>3, <2>4 DEF BatchInv
<1>2. LakeInv /\ BatchInv /\ [LakeNext]_lakeVars => BatchInv'
  BY LakeNextKeepsBatchInv
<1>3. QED
  BY <1>1, <1>2, LakeInvHolds, PTL DEF LakeSpec

\* Every group of writers leaves in the bucket what BronzeReplay assumes of its
\* environment, for every batch size, retention, restart, rebalance and fault: rows
\* of the key, both ends included, behind at most a batch of repeated ones.
THEOREM WritersLeaveBodiesAsAssumed == LakeSpec => []BodiesAsAssumed
<1>1. LakeInv /\ BatchInv => BodiesAsAssumed
  <2> SUFFICES ASSUME LakeInv, BatchInv, NEW x \in store
               PROVE  Body(x) \in Replay!Bodies(x.lo, x.hi)
    BY DEF BodiesAsAssumed, ObjectsOfDate
  <2> DEFINE n == x.count - Cardinality(x.rows)
  <2>1. /\ x.rows \subseteq Nat /\ IsFiniteSet(x.rows)
        /\ x.lo \in x.rows /\ x.hi \in x.rows /\ x.rows \subseteq x.lo..x.hi
    BY BodyIsASequence DEF LakeInv
  <2>2. n \in 0..BatchSize
    BY DEF BatchInv, BatchesAreBounded
  <2>3. Body(x) = Replay!Repeated(n, x.lo) \o SortedRows(x.rows)
    BY DEF Body, Replay!Repeated
  <2>4. SortedRows(x.rows) = Replay!InOrder(x.rows)
    BY <2>1, RowsMakeASequence
  <2>5. x.rows = x.rows \cup {x.lo, x.hi} /\ x.rows \in SUBSET (x.lo..x.hi)
    BY <2>1
  <2> HIDE DEF SortedRows, n
  <2>6. Replay!InOrder(x.rows) \in Replay!EachOnce(x.lo, x.hi)
    BY <2>5, Zenon DEF Replay!EachOnce
  <2>7. Body(x) \in {Replay!Repeated(n, x.lo) \o rows : rows \in Replay!EachOnce(x.lo, x.hi)}
    BY <2>3, <2>4, <2>6
  <2>8. QED
    BY <2>2, <2>7, Zenon DEF Replay!Bodies
<1>2. QED
  BY <1>1, LakeInvHolds, BatchInvHolds, PTL

-----------------------------------------------------------------------------
(* A group of one writer *)

LEMMA LakeNextKeepsSingleInv ==
    ASSUME LakeInv, BatchInv, NEW w, Alone(w), SingleInv(w), [LakeNext]_lakeVars
    PROVE  SingleInv(w)'
<1>1. CASE Ingest \/ UNCHANGED lakeVars
  <2>1. [Next]_vars
    BY <1>1 DEF Ingest, lakeVars
  <2>2. QED
    BY <2>1, NextKeepsSingleInv DEF LakeInv, BatchInv
<1>2. ASSUME NEW r \in Replays, TakeListing(r) \/ ReplayStep(r) \/ ReplayFails(r)
      PROVE  SingleInv(w)'
  <2>1. UNCHANGED <<group, buffer, committed, position, pc, rewound, overtaken>>
    BY <1>2 DEF TakeListing, ReplayStep, ReplayFails, ingestionVars, brokerVars, writerVars,
       historyVars
  <2>2. faults' = 0 => faults = 0
    BY <1>2, RunsKeepFaults DEF LakeInv
  <2>3. QED
    BY <2>1, <2>2, SingleFrame
<1>3. QED
  BY <1>1, <1>2 DEF LakeNext

LEMMA SingleInvHoldsInLake ==
    ASSUME NEW CONSTANT w, Alone(w)
    PROVE  LakeSpec => []SingleInv(w)
<1>1. LakeInit => SingleInv(w)
  BY EmptyBatch DEF LakeInit, Init, Members, SingleInv, Settled, Alone
<1>2. LakeInv /\ BatchInv /\ SingleInv(w) /\ [LakeNext]_lakeVars => SingleInv(w)'
  BY LakeNextKeepsSingleInv
<1>3. QED
  BY <1>1, <1>2, LakeInvHolds, BatchInvHolds, PTL DEF LakeSpec

AloneInv(w) == BatchInv /\ SingleInv(w)

LEMMA AloneInvHolds ==
    ASSUME NEW CONSTANT w, Alone(w)
    PROVE  LakeSpec => []AloneInv(w)
<1>1. BatchInv /\ SingleInv(w) => AloneInv(w)
  BY DEF AloneInv
<1>2. QED
  BY <1>1, BatchInvHolds, SingleInvHoldsInLake, PTL

\* The body of an object that counts each of its rows once.
LEMMA BodyIsItsRows ==
    ASSUME IngestionInv, StoreInv, OneRowPerOffset, ~overtaken, NEW x \in store
    PROVE  Body(x) = SortedRows(x.rows)
<1>1. x.rows \subseteq Nat /\ IsFiniteSet(x.rows)
  BY BodyIsASequence
<1>2. x.count - Cardinality(x.rows) = 0
  BY <1>1, FS_CardinalityType DEF OneRowPerOffset
<1>3. [i \in 1..(x.count - Cardinality(x.rows)) |-> x.lo] = << >>
  BY <1>2
<1>4. SortedRows(x.rows) \in Seq(Nat)
  BY <1>1, RowsMakeASequence
<1>5. << >> \o SortedRows(x.rows) = SortedRows(x.rows)
  BY <1>4, ConcatEmptySeq
<1>6. QED
  BY <1>3, <1>5 DEF Body

-----------------------------------------------------------------------------
(* A date that nothing went wrong for *)

\* No step takes a fault or a loss back.
LEMMA FaultlessBefore ==
    ASSUME IngestionInv, [Next]_vars, Faultless'
    PROVE  Faultless
<1>1. faults \in Nat /\ skipped \in [Partitions -> SUBSET Nat]
  BY DEF IngestionInv, TypeOK
<1> DEFINE Grow == /\ faults' = faults \/ Fault
                   /\ \A p \in Partitions : skipped[p] \subseteq skipped'[p]
<1>2. ASSUME NEW p \in Partitions, Produce(p) \/ Expire(p) \/ FetchOffset(p)
      PROVE  Grow
  BY <1>2 DEF Produce, Expire, FetchOffset, historyVars
<1>3. ASSUME NextDay \/ UNCHANGED vars PROVE Grow
  BY <1>3 DEF NextDay, vars, historyVars
<1>4. ASSUME Rebalance \/ \E m \in Members : LoseMembership(m)
      PROVE  Grow
  BY <1>4 DEF Rebalance, LoseMembership, historyVars
<1>5. ASSUME NEW c \in Consoles, NEW p, StartConsole(c) \/ StopConsole(c) \/ PollConsole(c, p)
      PROVE  Grow
  BY <1>5 DEF StartConsole, PollConsole, StopConsole, historyVars
<1>6. ASSUME NEW w \in Writers, \/ StartWriter(w) \/ PollNone(w) \/ PutObject(w) \/ Abort(w)
      PROVE  Grow
  BY <1>6 DEF StartWriter, PollNone, PutObject, Abort, historyVars
<1>7. ASSUME NEW w \in Writers, VerifyObject(w) \/ CommitOffsets(w)
      PROVE  Grow
  BY <1>7 DEF VerifyObject, CommitOffsets
<1>8. ASSUME NEW w \in Writers, NEW p \in Partitions, PollRecord(w, p)
      PROVE  Grow
  <2>1. faults' = faults /\ skipped' = [skipped EXCEPT ![p] = @ \cup position[p]..(NextOffset(p) - 1)]
    BY <1>8 DEF PollRecord
  <2>2. QED
    BY <1>1, <2>1
<1> HIDE DEF Grow
<1>9. Grow
  BY <1>2, <1>3, <1>4, <1>5, <1>6, <1>7, <1>8 DEF Next
<1>10. QED
  BY <1>1, <1>9 DEF Grow, Faultless, Fault

\* The rows of a group are all offsets from the committed one to the position.
LEMMA GroupOfARun ==
    ASSUME IngestionInv, NEW w, Alone(w), SingleInv(w), NoHoles, Faultless, w \in group,
           NEW p \in PartitionsOf(buffer[w])
    PROVE  /\ p \in Partitions /\ position[p] \in Nat
           /\ Rows(buffer[w], p) = ResetPosition(p)..(position[p] - 1)
           /\ StartOffset(Rows(buffer[w], p)) = ResetPosition(p)
           /\ EndOffset(Rows(buffer[w], p)) = position[p] - 1
<1> DEFINE rows == Rows(buffer[w], p)
<1>1. /\ p \in Partitions
      /\ StartOffset(rows) \in rows
      /\ EndOffset(rows) \in rows
      /\ rows \subseteq Nat
      /\ \A h \in rows : StartOffset(rows) <= h /\ h <= EndOffset(rows)
  BY GroupEnds, EndsBound DEF Alone, Buffered
<1>2. EndOffset(rows) < position[p]
  BY <1>1 DEF SingleInv, Settled, Faultless
<1>3. position[p] \in Nat /\ position[p] # NoOffset /\ committed[p] \in Int
  BY <1>1, <1>2 DEF IngestionInv, TypeOK, NoOffset
<1>4. rows = ResetPosition(p)..(position[p] - 1)
  BY <1>1, <1>3 DEF NoHoles, Alone
<1>5. ResetPosition(p) \in Int
  BY <1>3 DEF ResetPosition
<1> HIDE DEF rows
<1>6. ResetPosition(p) \in rows /\ position[p] - 1 \in rows
  BY <1>1, <1>3, <1>4, <1>5
<1>7. StartOffset(rows) = ResetPosition(p) /\ EndOffset(rows) = position[p] - 1
  BY <1>1, <1>3, <1>4, <1>5, <1>6
<1>8. QED
  BY <1>1, <1>3, <1>4, <1>7 DEF rows

\* A put adds an object behind all others of its partition, and changes none.
LEMMA FaultlessPut ==
    ASSUME Poison = {}, IngestionInv, StoreInv, NEW w, Alone(w), SingleInv(w), FaultlessInv(w),
           NoHoles, Faultless, faults' = 0, PutObject(w)
    PROVE  \E p \in PartitionsOf(buffer[w]) :
              LET o == ObjectFor(w, p)
              IN  /\ o.part = p
                  /\ o.rows = o.lo..o.hi
                  /\ o.lo = ResetPosition(p)
                  /\ o.date = flushDate[w]
                  /\ store' = store \cup {o}
                  /\ \A x \in store : x.part = p => x.hi < o.lo \/ x = o
                  /\ pc[w] = "putting" /\ pc'[w] = "verifying"
                  /\ UNCHANGED <<buffer, flushDate, group, position, committed, today>>
<1>1. PICK p \in PartitionsOf(buffer[w]) :
         \/ faults' = faults + 1
         \/ /\ store' = StoreWith(ObjectFor(w, p))
            /\ pc' = [pc EXCEPT ![w] = "verifying"]
            /\ UNCHANGED <<buffer, flushDate, group>>
  BY DEF PutObject, Unserialisable, Fault
<1>2. pc[w] = "putting" /\ UNCHANGED <<position, committed, today>>
  BY DEF PutObject
<1>3. /\ store' = StoreWith(ObjectFor(w, p))
      /\ pc' = [pc EXCEPT ![w] = "verifying"]
      /\ UNCHANGED <<buffer, flushDate, group>>
  BY <1>1 DEF Faultless
<1>4. pc'[w] = "verifying"
  BY <1>3 DEF IngestionInv, TypeOK, Alone, Members
<1>5. w \in group
  BY <1>2 DEF SingleInv, Settled, Faultless
<1> DEFINE o == ObjectFor(w, p)
<1>6. /\ p \in Partitions /\ position[p] \in Nat
      /\ Rows(buffer[w], p) = ResetPosition(p)..(position[p] - 1)
      /\ StartOffset(Rows(buffer[w], p)) = ResetPosition(p)
      /\ EndOffset(Rows(buffer[w], p)) = position[p] - 1
  BY <1>5, GroupOfARun
<1>7. /\ o.part = p /\ o.date = flushDate[w]
      /\ o.rows = Rows(buffer[w], p)
      /\ o.lo = StartOffset(Rows(buffer[w], p))
      /\ o.hi = EndOffset(Rows(buffer[w], p))
  BY DEF ObjectFor
<1>8. ASSUME NEW x \in store, x.part = p
      PROVE  x.hi < o.lo \/ x = o
  <2>1. x.hi < committed[p] \/ InFlight(w, x)
    BY <1>8 DEF FaultlessInv, Faultless
  <2>2. CASE InFlight(w, x)
    BY <1>8, <2>2 DEF InFlight
  <2>3. CASE x.hi < committed[p]
    <3>1. x.hi \in Nat /\ committed[p] \in Int
      BY <1>6 DEF IngestionInv, TypeOK, Object, NoOffset
    <3>2. ResetPosition(p) = committed[p]
      BY <2>3, <3>1 DEF ResetPosition, NoOffset
    <3>3. QED
      BY <1>6, <1>7, <2>3, <3>2
  <2>4. QED
    BY <2>1, <2>2, <2>3
<1>9. store' = store \cup {o}
  <2>1. \A x \in store : x.lo <= x.hi /\ x.lo \in Nat /\ x.hi \in Nat
    BY BodyIsASequence DEF IngestionInv, TypeOK, Object
  <2>2. ASSUME NEW x \in store, SameKey(x, o)
        PROVE  x = o
    <3>1. x.part = p /\ x.lo = o.lo
      BY <1>7, <2>2 DEF SameKey
    <3>2. QED
      BY <1>8, <2>1, <3>1
  <2> HIDE DEF o
  <2>3. store' = {x \in store : ~SameKey(x, o)} \cup {o}
    BY <1>3 DEF StoreWith, o
  <2>4. QED
    BY <2>2, <2>3
<1>10. QED
  BY <1>2, <1>3, <1>4, <1>6, <1>7, <1>8, <1>9

\* The writer holds every record it has read and not committed.
Held(w) == \A p \in Partitions :
    w \in group /\ position[p] # NoOffset =>
        Rows(buffer[w], p) = ResetPosition(p)..(position[p] - 1)

LEMMA NextKeepsHeld ==
    ASSUME Poison = {}, IngestionInv, NEW w, Alone(w), SingleInv(w), NoHoles, Faultless,
           [Next]_vars, Faultless'
    PROVE  Held(w)'
<1> USE DEF Alone
<1>0. /\ w \in Writers /\ Writers = {w}
      /\ \A p \in Partitions : position[p] \in Int /\ committed[p] \in Int
      /\ faults = 0 /\ faults' = 0
  BY DEF IngestionInv, TypeOK, NoOffset, Faultless
<1>1. Held(w)
  BY DEF NoHoles, Held
<1>2. ASSUME UNCHANGED <<group, position, committed, buffer>>
      PROVE  Held(w)'
  BY <1>1, <1>2 DEF Held, ResetPosition
<1>3. ASSUME Close(w)
      PROVE  Held(w)'
  BY <1>3 DEF Held, Close
<1>4. ASSUME NEW p \in Partitions, Produce(p) \/ Expire(p)
      PROVE  Held(w)'
  BY <1>2, <1>4 DEF Produce, Expire, writerVars
<1>5. CASE NextDay \/ UNCHANGED vars
  BY <1>2, <1>5 DEF NextDay, vars, brokerVars, writerVars
<1>6. CASE Rebalance
  BY <1>6 DEF Rebalance, Held
<1>7. ASSUME NEW p \in Partitions, FetchOffset(p)
      PROVE  Held(w)'
  <2>1. /\ position' = [position EXCEPT ![p] = ResetPosition(p)]
        /\ position[p] = NoOffset
        /\ UNCHANGED <<committed, group, buffer>>
    BY <1>7 DEF FetchOffset, writerVars
  <2>2. /\ position'[p] = ResetPosition(p) /\ ResetPosition(p) \in Int
        /\ \A q \in Partitions \ {p} : position'[q] = position[q]
        /\ \A q : ResetPosition(q)' = ResetPosition(q)
    BY <1>0, <2>1 DEF IngestionInv, TypeOK, ResetPosition
  <2>3. Rows(buffer[w], p) = {}
    <3>1. Rows(buffer[w], p) \subseteq Nat
      BY RowsAreOffsets DEF IngestionInv, TypeOK
    <3>2. QED
      BY <2>1, <3>1 DEF SingleInv, Settled, Faultless, NoOffset
  <2>4. Rows(buffer'[w], p) = ResetPosition(p)'..(position'[p] - 1)
    BY <2>1, <2>2, <2>3
  <2>5. QED
    BY <1>1, <2>1, <2>2, <2>4 DEF Held
<1>8. ASSUME NEW v \in Writers, StartWriter(v)
      PROVE  Held(w)'
  BY <1>2, <1>8 DEF StartWriter, brokerVars
<1>9. ASSUME NEW v \in Writers, NEW p \in Partitions, PollRecord(v, p)
      PROVE  Held(w)'
  <2> DEFINE o == NextOffset(p)
  <2>1. /\ o \in Nat /\ position[p] \in Nat /\ position[p] <= o
        /\ position'[p] = o + 1
        /\ position[p] # NoOffset
        /\ skipped'[p] = skipped[p] \cup position[p]..(o - 1)
        /\ Rows(buffer'[w], p) = Rows(buffer[w], p) \cup {o}
        /\ \A q \in Partitions \ {p} : /\ position'[q] = position[q]
                                       /\ Rows(buffer'[w], q) = Rows(buffer[w], q)
        /\ UNCHANGED <<committed, group>>
        /\ w \in group
    BY <1>0, <1>9, PollRecordEffect DEF Buffered, Reads
  <2> HIDE DEF o
  <2>2. o = position[p]
    <3>1. position[p] \notin position[p]..(o - 1)
      BY <2>1 DEF Faultless
    <3>2. QED
      BY <2>1, <3>1
  <2>3. Rows(buffer[w], p) = ResetPosition(p)..(position[p] - 1)
    BY <1>1, <2>1 DEF Held
  <2>4. ResetPosition(p) \in Int /\ ResetPosition(p) <= position[p]
    BY <1>0, <2>1 DEF SingleInv, Settled, Faultless, ResetPosition
  <2>5. \A q : ResetPosition(q)' = ResetPosition(q)
    BY <2>1 DEF ResetPosition
  <2>6. Rows(buffer'[w], p) = ResetPosition(p)..(position'[p] - 1)
    <3>1. ResetPosition(p)..(position[p] - 1) \cup {position[p]} = ResetPosition(p)..position[p]
      BY <2>1, <2>4
    <3>2. position'[p] - 1 = position[p]
      BY <2>1, <2>2
    <3>3. QED
      BY <2>1, <2>2, <2>3, <3>1, <3>2
  <2>7. QED
    BY <1>1, <2>1, <2>5, <2>6 DEF Held
<1>10. ASSUME NEW v \in Writers, PollNone(v)
       PROVE  Held(w)'
  BY <1>2, <1>3, <1>10 DEF PollNone
<1>11. ASSUME NEW v \in Writers, PutObject(v)
       PROVE  Held(w)'
  BY <1>2, <1>3, <1>11 DEF PutObject
<1>12. ASSUME NEW v \in Writers, VerifyObject(v)
       PROVE  Held(w)'
  BY <1>2, <1>3, <1>12 DEF VerifyObject
<1>13. ASSUME NEW v \in Writers, CommitOffsets(v)
       PROVE  Held(w)'
  <2>1. CASE Close(w)
    BY <1>3, <2>1
  <2>2. CASE ~Close(w)
    <3>1. /\ w \in group
          /\ CommitAll(w, PartitionsOf(buffer[w]))
          /\ buffer' = [buffer EXCEPT ![w] = << >>]
          /\ UNCHANGED <<group, position>>
      BY <1>0, <1>13, <2>2 DEF CommitOffsets
    <3>2. buffer'[w] = << >> /\ \A p : Rows(buffer'[w], p) = {}
      BY <3>1, EmptyBatch DEF IngestionInv, TypeOK
    <3>3. ASSUME NEW p \in Partitions, position[p] # NoOffset
          PROVE  ResetPosition(p)' = position[p]
      <4>1. position[p] \in Nat
        BY <1>0, <3>3 DEF IngestionInv, TypeOK, NoOffset
      <4>2. CASE p \in PartitionsOf(buffer[w])
        <5>1. committed'[p] = EndOffset(Rows(buffer[w], p)) + 1
          BY <3>1, <4>2 DEF CommitAll, CommitOffset
        <5>2. EndOffset(Rows(buffer[w], p)) = position[p] - 1
          BY <3>1, <4>2, GroupOfARun
        <5>3. QED
          BY <4>1, <5>1, <5>2 DEF ResetPosition, NoOffset
      <4>3. CASE p \notin PartitionsOf(buffer[w])
        <5>1. committed'[p] = committed[p]
          BY <3>1, <4>3 DEF CommitAll
        <5>2. Rows(buffer[w], p) = {}
          BY <4>3 DEF Rows, PartitionsOf
        <5>3. ResetPosition(p)..(position[p] - 1) = {}
          BY <1>1, <3>1, <3>3, <5>2 DEF Held
        <5>4. ResetPosition(p) \in Int /\ ResetPosition(p) <= position[p]
          BY <1>0, <3>3, <4>1 DEF SingleInv, Settled, Faultless, ResetPosition
        <5>5. ResetPosition(p) = position[p]
          BY <4>1, <5>3, <5>4
        <5>6. QED
          BY <5>1, <5>5 DEF ResetPosition
      <4>4. QED
        BY <4>2, <4>3
    <3>4. ASSUME NEW p \in Partitions, position'[p] # NoOffset
          PROVE  Rows(buffer'[w], p) = ResetPosition(p)'..(position'[p] - 1)
      <4>1. ResetPosition(p)' = position[p] /\ position'[p] = position[p]
        BY <3>1, <3>3, <3>4
      <4>2. position[p]..(position[p] - 1) = {}
        BY <1>0
      <4>3. QED
        BY <3>2, <4>1, <4>2
    <3>5. QED
      BY <3>1, <3>4 DEF Held
  <2>3. QED
    BY <2>1, <2>2
<1>14. ASSUME \/ \E v \in Writers : Abort(v)
              \/ \E m \in Members : LoseMembership(m)
       PROVE  Held(w)'
  BY <1>0, <1>14 DEF Abort, LoseMembership, Fault
<1>15. QED
  BY <1>4, <1>5, <1>6, <1>7, <1>8, <1>9, <1>10, <1>11, <1>12, <1>13, <1>14 DEF Next

LEMMA NextKeepsNoHoles ==
    ASSUME Poison = {}, IngestionInv, StoreInv, NEW w, Alone(w), SingleInv(w), FaultlessInv(w),
           NoHoles, [Next]_vars
    PROVE  NoHoles'
<1> SUFFICES ASSUME Faultless'
             PROVE  Held(w)' /\ \A x \in store' : x.rows = x.lo..x.hi
  BY DEF NoHoles, Held, Alone
<1>1. Faultless
  BY FaultlessBefore
<1>2. Held(w)'
  BY <1>1, NextKeepsHeld
<1>3. \A x \in store' : x.rows = x.lo..x.hi
  <2>1. CASE PutObject(w)
    <3>1. PICK p \in PartitionsOf(buffer[w]) :
             LET o == ObjectFor(w, p)
             IN  o.rows = o.lo..o.hi /\ store' = store \cup {o}
      BY <1>1, <2>1, FaultlessPut DEF Faultless
    <3>2. QED
      BY <1>1, <3>1 DEF NoHoles
  <2>2. CASE ~PutObject(w)
    BY <1>1, <2>2, OnlyPutStores DEF NoHoles, Alone
  <2>3. QED
    BY <2>1, <2>2
<1>4. QED
  BY <1>2, <1>3

\* Time goes on, and a flush has the date of its beginning.
LEMMA FlushDates ==
    ASSUME IngestionInv, NEW w, Alone(w), [Next]_vars
    PROVE  /\ today \in Nat /\ today' \in Nat /\ today <= today'
           /\ InFlush(w)' => \/ InFlush(w) /\ flushDate'[w] = flushDate[w]
                             \/ flushDate'[w] = today'
<1> USE DEF Alone
<1>0. /\ w \in Writers /\ w \in Members /\ Writers = {w}
      /\ today \in Nat /\ DOMAIN pc = Members /\ DOMAIN flushDate = Writers
  BY DEF IngestionInv, TypeOK, Members
<1> DEFINE Dated == InFlush(w)' => \/ InFlush(w) /\ flushDate'[w] = flushDate[w]
                                   \/ flushDate'[w] = today'
<1>1. ASSUME UNCHANGED today, Close(w) \/ UNCHANGED <<pc, flushDate>>
      PROVE  Dated
  BY <1>0, <1>1 DEF Close, InFlush
<1>2. ASSUME NEW p \in Partitions, Produce(p) \/ Expire(p) \/ FetchOffset(p)
      PROVE  UNCHANGED today /\ Dated
  BY <1>1, <1>2 DEF Produce, Expire, FetchOffset, writerVars
<1>3. ASSUME NextDay
      PROVE  today' = today + 1 /\ Dated
  BY <1>3 DEF NextDay, writerVars, InFlush
<1>4. ASSUME Rebalance \/ UNCHANGED vars \/ \E m \in Members : LoseMembership(m)
      PROVE  UNCHANGED today /\ Dated
  BY <1>1, <1>4 DEF Rebalance, LoseMembership, vars, writerVars
<1>5. ASSUME NEW v \in Writers, StartWriter(v)
      PROVE  UNCHANGED today /\ Dated
  BY <1>0, <1>5 DEF StartWriter, InFlush
<1>6. ASSUME NEW v \in Writers, NEW p \in Partitions, PollRecord(v, p)
      PROVE  UNCHANGED today /\ Dated
  <2>1. UNCHANGED today /\ (UNCHANGED <<pc, flushDate>> \/ flushDate' = [flushDate EXCEPT ![w] = today])
    BY <1>0, <1>6 DEF PollRecord, BeginFlush
  <2>2. QED
    BY <1>0, <1>1, <2>1
<1>7. ASSUME NEW v \in Writers, PollNone(v)
      PROVE  UNCHANGED today /\ Dated
  <2>1. UNCHANGED today /\ (Close(w) \/ flushDate' = [flushDate EXCEPT ![w] = today])
    BY <1>0, <1>7 DEF PollNone, BeginFlush
  <2>2. QED
    BY <1>0, <1>1, <2>1
<1>8. ASSUME NEW v \in Writers, PutObject(v) \/ VerifyObject(v)
      PROVE  UNCHANGED today /\ Dated
  <2>1. /\ UNCHANGED today /\ (Close(w) \/ UNCHANGED flushDate)
        /\ pc[w] \in {"putting", "verifying"}
    BY <1>0, <1>8 DEF PutObject, VerifyObject
  <2>2. QED
    BY <1>1, <2>1 DEF InFlush
<1>9. ASSUME NEW v \in Writers, CommitOffsets(v) \/ Abort(v)
      PROVE  UNCHANGED today /\ Dated
  <2>1. UNCHANGED today /\ (Close(w) \/ pc' = [pc EXCEPT ![w] = "polling"])
    BY <1>0, <1>9 DEF CommitOffsets, Abort
  <2>2. QED
    BY <1>0, <1>1, <2>1 DEF InFlush
<1> HIDE DEF Dated
<1>10. (UNCHANGED today /\ Dated) \/ (today' = today + 1 /\ Dated)
  BY <1>2, <1>3, <1>4, <1>5, <1>6, <1>7, <1>8, <1>9 DEF Next
<1>11. QED
  BY <1>0, <1>10 DEF Dated

LEMMA NextKeepsDatesInOrder ==
    ASSUME Poison = {}, IngestionInv, StoreInv, NEW w, Alone(w), SingleInv(w), FaultlessInv(w),
           NoHoles, DatesInOrder, [Next]_vars
    PROVE  DatesInOrder'
<1> USE DEF Alone
<1> SUFFICES ASSUME Faultless'
             PROVE  /\ InFlush(w)' => flushDate'[w] <= today'
                    /\ \A x \in store' : /\ x.date <= today'
                                         /\ InFlush(w)' => x.date <= flushDate'[w]
                    /\ \A x, y \in store' : x.part = y.part /\ x.lo < y.lo => x.date <= y.date
  BY DEF DatesInOrder
<1>1. Faultless
  BY FaultlessBefore
<1>2. /\ today \in Nat /\ today' \in Nat /\ today <= today'
      /\ InFlush(w)' => \/ InFlush(w) /\ flushDate'[w] = flushDate[w]
                        \/ flushDate'[w] = today'
  BY FlushDates
<1>3. /\ InFlush(w) => flushDate[w] <= today
      /\ \A x \in store : /\ x.date <= today
                          /\ InFlush(w) => x.date <= flushDate[w]
      /\ \A x, y \in store : x.part = y.part /\ x.lo < y.lo => x.date <= y.date
  BY <1>1 DEF DatesInOrder
<1>4. /\ \A x \in store : x.date \in Nat /\ x.lo \in Nat /\ x.hi \in Nat /\ x.lo <= x.hi
      /\ flushDate[w] \in Nat
  BY BodyIsASequence DEF IngestionInv, TypeOK, Object
<1>5. InFlush(w)' => flushDate'[w] <= today'
  BY <1>2, <1>3, <1>4
<1>6. CASE ~PutObject(w)
  <2>1. store' = store
    BY <1>6, OnlyPutStores
  <2>2. QED
    BY <1>2, <1>3, <1>4, <1>5, <2>1
<1>7. CASE PutObject(w)
  <2>1. PICK p \in PartitionsOf(buffer[w]) :
           LET o == ObjectFor(w, p)
           IN  /\ o.part = p /\ o.date = flushDate[w]
               /\ store' = store \cup {o}
               /\ \A x \in store : x.part = p => x.hi < o.lo \/ x = o
               /\ pc[w] = "putting" /\ UNCHANGED <<flushDate, today>>
    BY <1>1, <1>7, FaultlessPut DEF Faultless
  <2> DEFINE o == ObjectFor(w, p)
  <2>2. o.lo \in Nat
    BY ObjectIsTyped DEF Object
  <2>3. /\ o.part = p /\ o.date = flushDate[w]
        /\ store' = store \cup {o}
        /\ \A x \in store : x.part = p => x.hi < o.lo \/ x = o
        /\ InFlush(w) /\ flushDate' = flushDate /\ today' = today
    BY <2>1 DEF InFlush
  <2> HIDE DEF o
  <2>4. \A x \in store' : x.date <= today' /\ x.date <= flushDate'[w]
    BY <1>2, <1>3, <1>4, <2>3
  <2>5. \A x, y \in store' : x.part = y.part /\ x.lo < y.lo => x.date <= y.date
    <3>1. ASSUME NEW x \in store', NEW y \in store', x.part = y.part, x.lo < y.lo
          PROVE  x.date <= y.date
      <4>1. CASE x \in store /\ y \in store
        BY <1>3, <3>1, <4>1
      <4>2. CASE y = o
        BY <2>3, <2>4, <4>2
      <4>3. CASE x = o /\ y \in store
        <5>1. y.hi < o.lo \/ y = o
          BY <2>3, <3>1, <4>3
        <5>2. QED
          BY <1>4, <2>2, <3>1, <4>3, <5>1
      <4>4. QED
        BY <2>3, <4>1, <4>2, <4>3
    <3>2. QED
      BY <3>1
  <2>6. QED
    BY <1>5, <2>4, <2>5
<1>8. QED
  BY <1>6, <1>7

\* Between two objects of a date there is another one, or no offset.
LEMMA DateHasNoHole ==
    ASSUME IngestionInv, StoreInv, NEW w, Alone(w), SingleInv(w), FaultlessInv(w), NoHoles,
           DatesInOrder, Faultless,
           NEW x \in store, NEW y \in store, x.part = y.part, x.date = y.date,
           x.lo < y.lo
    PROVE  /\ x.hi < y.lo
           /\ \/ y.lo = x.hi + 1
              \/ \E z \in store : /\ z.part = x.part /\ z.date = x.date
                                  /\ x.hi < z.lo /\ z.hi < y.lo
<1> DEFINE p == x.part
           o == x.hi + 1
<1>1. ASSUME NEW z \in store
      PROVE  /\ z.part \in Partitions /\ z.date \in Nat
             /\ z.lo \in Nat /\ z.hi \in Nat /\ z.lo <= z.hi
             /\ z.rows \subseteq z.lo..z.hi
  <2>1. z.part \in Partitions /\ z.date \in Nat /\ z.lo \in Nat /\ z.hi \in Nat
    BY DEF IngestionInv, TypeOK, Object
  <2>2. z.lo \in z.rows /\ z.rows \subseteq z.lo..z.hi
    BY BodyIsASequence
  <2>3. QED
    BY <2>1, <2>2
<1>2. \A a, b \in store : a.part = b.part /\ a # b => a.hi < b.lo \/ b.hi < a.lo
  <2>1. \A a, b \in store : ~Overlap(a, b)
    BY DEF FaultlessInv, Faultless
  <2>2. QED
    BY <1>1, <2>1 DEF Overlap
<1>3. x.hi < y.lo
  BY <1>1, <1>2
<1>4. ASSUME y.lo # o
      PROVE  \E z \in store : /\ z.part = x.part /\ z.date = x.date
                              /\ x.hi < z.lo /\ z.hi < y.lo
  <2>1. o \in Nat /\ o < y.lo /\ p \in Partitions /\ committed[p] \in Int
    BY <1>1, <1>3, <1>4 DEF IngestionInv, TypeOK, NoOffset
  <2>2. o < committed[p]
    <3>1. CASE y.hi < committed[p]
      BY <1>1, <2>1, <3>1
    <3>2. CASE InFlight(w, y)
      <4>1. /\ w \in group /\ p \in PartitionsOf(buffer[w])
            /\ y.lo = StartOffset(Rows(buffer[w], p))
        BY <3>2 DEF InFlight, ObjectFor, SingleInv, Settled, Faultless
      <4>2. y.lo = ResetPosition(p)
        BY <4>1, GroupOfARun
      <4>3. QED
        BY <2>1, <4>2 DEF ResetPosition
    <3>3. QED
      BY <3>1, <3>2 DEF FaultlessInv, Faultless
  <2>3. o \in 0..(committed[p] - 1)
    BY <2>1, <2>2
  <2>4. PICK z \in store : z.part = p /\ o \in z.rows
    BY <2>1, <2>3, KeptIsStored DEF CommittedIsStored, CommittedStaysStored, SingleInv, Settled, Faultless
  <2>5. z.lo <= o /\ o <= z.hi
    BY <1>1, <2>1, <2>4
  <2>6. x.hi < z.lo /\ z.hi < y.lo
    <3>1. z # x /\ z # y
      BY <1>1, <2>1, <2>5
    <3>2. QED
      BY <1>1, <1>2, <2>1, <2>4, <2>5, <3>1
  <2>7. x.date <= z.date /\ z.date <= y.date
    <3>1. x.lo < z.lo /\ z.lo < y.lo
      BY <1>1, <2>6
    <3>2. QED
      BY <2>4, <3>1 DEF DatesInOrder
  <2>8. QED
    BY <1>1, <2>4, <2>6, <2>7
<1>5. QED
  BY <1>3, <1>4

\* The offsets of a range, sorted, count up from its start.
LEMMA SortedRange ==
    ASSUME NEW lo \in Nat, NEW hi \in Nat, lo <= hi
    PROVE  /\ SortedRows(lo..hi) \in [1..(hi - lo + 1) -> Nat]
           /\ \A i \in 1..(hi - lo + 1) : SortedRows(lo..hi)[i] = lo + i - 1
<1> DEFINE n == hi - lo + 1
           Increasing(s) == \A i, j \in DOMAIN s : i < j => s[i] < s[j]
           up == [i \in 1..n |-> lo + i - 1]
           s == SortedRows(lo..hi)
<1>1. Cardinality(lo..hi) = n /\ n \in Nat
  BY FS_Interval
<1>2. up \in [1..n -> lo..hi] /\ Increasing(up)
  OBVIOUS
<1>3. s \in [1..n -> lo..hi] /\ Increasing(s)
  <2>1. \E t \in [1..n -> lo..hi] : Increasing(t)
    BY <1>2
  <2>2. s = CHOOSE t \in [1..n -> lo..hi] : Increasing(t)
    BY <1>1 DEF SortedRows
  <2> HIDE DEF Increasing, s, n
  <2>3. QED
    BY <2>1, <2>2
<1> HIDE DEF s, up, n
<1>4. ASSUME NEW i \in 1..n
      PROVE  s[i] = lo + i - 1
  <2>1. s[i] \in lo..hi /\ s[i] \in Int /\ i \in Int
    BY <1>3
  <2>2. i <= s[i] - lo + 1
    <3> DEFINE f == [j \in 1..i |-> s[j]]
    <3>1. \A j \in 1..i : j \in 1..n /\ (j < i => s[j] < s[i])
      BY <1>1, <1>3
    <3>2. \A j \in 1..i : s[j] \in lo..s[i]
      BY <1>3, <2>1, <3>1
    <3>3. \A j, k \in 1..i : s[j] = s[k] => j = k
      <4>1. \A j, k \in 1..i : j < k => s[j] < s[k]
        BY <1>3, <3>1
      <4>2. \A j \in 1..i : s[j] \in Int
        BY <2>1, <3>2
      <4>3. QED
        BY <4>1, <4>2
    <3>4. f \in Injection(1..i, lo..s[i])
      <4>1. f \in [1..i -> lo..s[i]] /\ \A j \in 1..i : f[j] = s[j]
        BY <3>2
      <4> HIDE DEF f
      <4>2. QED
        BY <3>3, <4>1 DEF Injection, IsInjective
    <3> HIDE DEF f
    <3>5. IsFiniteSet(lo..s[i]) /\ Cardinality(lo..s[i]) = s[i] - lo + 1
      BY <2>1, FS_Interval
    <3>6. Cardinality(1..i) = i
      BY <2>1, FS_Interval
    <3>7. QED
      BY <3>4, <3>5, <3>6, FS_Injection
  <2>3. n - i + 1 <= hi - s[i] + 1
    <3> DEFINE f == [j \in i..n |-> s[j]]
    <3>1. \A j \in i..n : j \in 1..n /\ (i < j => s[i] < s[j])
      BY <1>1, <1>3
    <3>2. \A j \in i..n : s[j] \in s[i]..hi
      BY <1>3, <2>1, <3>1
    <3>3. \A j, k \in i..n : s[j] = s[k] => j = k
      <4>1. \A j, k \in i..n : j < k => s[j] < s[k]
        BY <1>3, <3>1
      <4>2. \A j \in i..n : s[j] \in Int
        BY <2>1, <3>2
      <4>3. QED
        BY <1>1, <4>1, <4>2
    <3>4. f \in Injection(i..n, s[i]..hi)
      <4>1. f \in [i..n -> s[i]..hi] /\ \A j \in i..n : f[j] = s[j]
        BY <3>2
      <4> HIDE DEF f
      <4>2. QED
        BY <3>3, <4>1 DEF Injection, IsInjective
    <3> HIDE DEF f
    <3>5. IsFiniteSet(s[i]..hi) /\ Cardinality(s[i]..hi) = hi - s[i] + 1
      BY <2>1, FS_Interval
    <3>6. Cardinality(i..n) = n - i + 1
      BY <1>1, <2>1, FS_Interval
    <3>7. QED
      BY <3>4, <3>5, <3>6, FS_Injection
  <2>4. QED
    BY <2>1, <2>2, <2>3 DEF n
<1>5. s \in [1..n -> Nat]
  <2>1. \A i \in 1..n : s[i] \in Nat
    BY <1>3
  <2>2. QED
    BY <1>3, <2>1
<1>6. QED
  BY <1>4, <1>5 DEF n, s

\* What a run relies on to copy a date: FaultlessInv and what follows it.
GoodInv(w) ==
    /\ IngestionInv /\ StoreInv /\ Copy!ReplayInv
    /\ AloneInv(w)
    /\ FaultlessInv(w)
    /\ NoHoles /\ DatesInOrder /\ ListedIsThere

\* read_and_validate_object accepts every object of the date.
LEMMA FaultlessBody ==
    ASSUME NEW w, Alone(w), GoodInv(w), Faultless, NEW x \in ObjectsOfDate
    PROVE  Copy!BodyValid(x)
<1>1. PICK y \in store : x = [part |-> y.part, lo |-> y.lo, hi |-> y.hi, body |-> Body(y)]
  BY DEF ObjectsOfDate
<1>2. y.lo \in Nat /\ y.hi \in Nat
  BY DEF GoodInv, IngestionInv, TypeOK, Object
<1>3. y.lo <= y.hi /\ y.rows = y.lo..y.hi
  <2>1. y.lo \in y.rows
    BY BodyIsASequence DEF GoodInv
  <2>2. y.rows = y.lo..y.hi
    BY DEF GoodInv, NoHoles
  <2>3. QED
    BY <1>2, <2>1, <2>2
<1>4. Body(y) = SortedRows(y.lo..y.hi)
  <2>1. OneRowPerOffset /\ ~overtaken
    BY DEF GoodInv, AloneInv, BatchInv, SingleInv, Settled, Faultless
  <2>2. QED
    BY <1>3, <2>1, BodyIsItsRows DEF GoodInv
<1>5. /\ Body(y) \in [1..(y.hi - y.lo + 1) -> Nat]
      /\ \A i \in 1..(y.hi - y.lo + 1) : Body(y)[i] = y.lo + i - 1
  <2>1. /\ SortedRows(y.lo..y.hi) \in [1..(y.hi - y.lo + 1) -> Nat]
        /\ \A i \in 1..(y.hi - y.lo + 1) : SortedRows(y.lo..y.hi)[i] = y.lo + i - 1
    BY <1>2, <1>3, SortedRange
  <2>2. QED
    BY <1>4, <2>1
<1>6. Len(Body(y)) = y.hi - y.lo + 1 /\ DOMAIN Body(y) = 1..(y.hi - y.lo + 1)
  <2>1. y.hi - y.lo + 1 \in Nat
    BY <1>2, <1>3
  <2>2. DOMAIN Body(y) = 1..(y.hi - y.lo + 1)
    BY <1>5
  <2>3. Body(y) \in Seq(Nat)
    BY BodyIsASequence DEF GoodInv
  <2>4. Len(Body(y)) \in Nat /\ DOMAIN Body(y) = 1..Len(Body(y))
    BY <2>3
  <2>5. QED
    BY <1>2, <2>1, <2>2, <2>4
<1>7. QED
  BY <1>1, <1>5, <1>6 DEF Copy!BodyValid

-----------------------------------------------------------------------------
LEMMA SameListing == Replay!Listing = Copy!Listing
BY DEF Replay!Listing, Replay!Reference, Copy!Listing, Copy!Reference

\* A reference is that of an object of the store.
LEMMA ListedIsStored ==
    ASSUME NEW a \in Copy!Listing
    PROVE  /\ a.part \in Selected
           /\ \E x \in store : /\ x.date = ReplayDate
                               /\ a.part = x.part /\ a.lo = x.lo /\ a.hi = x.hi
                               /\ a = [part |-> x.part, lo |-> x.lo, hi |-> x.hi,
                                       size |-> Len(Body(x))]
BY DEF Copy!Listing, Copy!Reference, ObjectsOfDate

LEMMA StoredIsListed ==
    ASSUME NEW x \in store, x.date = ReplayDate, x.part \in Selected
    PROVE  [part |-> x.part, lo |-> x.lo, hi |-> x.hi, size |-> Len(Body(x))] \in Copy!Listing
<1> DEFINE y == [part |-> x.part, lo |-> x.lo, hi |-> x.hi, body |-> Body(x)]
<1>1. y \in ObjectsOfDate /\ y.part \in Selected
  BY DEF ObjectsOfDate
<1>2. Copy!Reference(y) = [part |-> x.part, lo |-> x.lo, hi |-> x.hi, size |-> Len(Body(x))]
  BY DEF Copy!Reference
<1>3. Copy!Reference(y) \in Copy!Listing
  BY <1>1 DEF Copy!Listing
<1>4. QED
  BY <1>2, <1>3

\* Between two keys of the listing there is another one, or no offset.
LEMMA ListingHasNoHole ==
    ASSUME NEW w, Alone(w), GoodInv(w), Faultless,
           NEW a \in Copy!Listing, NEW b \in Copy!Listing, a.part = b.part, Copy!Before(a, b)
    PROVE  /\ a.hi < b.lo
           /\ \/ b.lo = a.hi + 1
              \/ \E c \in Copy!Listing : /\ c.part = a.part
                                         /\ Copy!Before(a, c) /\ Copy!Before(c, b)
<1>1. PICK x \in store : x.date = ReplayDate /\ a.part = x.part /\ a.lo = x.lo /\ a.hi = x.hi
  BY ListedIsStored
<1>2. PICK y \in store : y.date = ReplayDate /\ b.part = y.part /\ b.lo = y.lo /\ b.hi = y.hi
  BY ListedIsStored
<1>3. ASSUME NEW z \in store
      PROVE  z.part \in Nat /\ z.lo \in Nat /\ z.hi \in Nat /\ z.lo <= z.hi
  <2>1. z.part \in Partitions /\ z.lo \in Nat /\ z.hi \in Nat
    BY DEF GoodInv, IngestionInv, TypeOK, Object
  <2>2. z.lo \in z.rows /\ z.rows \subseteq z.lo..z.hi
    BY BodyIsASequence DEF GoodInv
  <2>3. z.part \in Nat
    BY <2>1, LakeAssumption
  <2>4. QED
    BY <2>1, <2>2, <2>3
<1>4. x.lo < y.lo
  <2>1. /\ x.part \in Nat /\ x.lo \in Nat /\ x.hi \in Nat /\ x.lo <= x.hi
        /\ y.part \in Nat /\ y.lo \in Nat /\ y.hi \in Nat /\ y.lo <= y.hi
    BY <1>3
  <2>2. ~Overlap(x, y)
    BY DEF GoodInv, FaultlessInv, Faultless
  <2>3. x # y /\ x.part = y.part /\ x.lo <= y.lo
    <3>1. x.part = y.part
      BY <1>1, <1>2
    <3>2. \/ x.part < y.part
          \/ x.part = y.part /\ x.lo < y.lo
          \/ x.part = y.part /\ x.lo = y.lo /\ x.hi < y.hi
      BY <1>1, <1>2 DEF Copy!Before
    <3>3. QED
      BY <2>1, <3>1, <3>2
  <2>4. QED
    BY <2>1, <2>2, <2>3 DEF Overlap
<1>5. /\ x.hi < y.lo
      /\ \/ y.lo = x.hi + 1
         \/ \E z \in store : /\ z.part = x.part /\ z.date = x.date
                             /\ x.hi < z.lo /\ z.hi < y.lo
  <2>1. /\ IngestionInv /\ StoreInv /\ SingleInv(w) /\ FaultlessInv(w)
        /\ NoHoles /\ DatesInOrder
    BY DEF GoodInv, AloneInv
  <2>2. x.part = y.part /\ x.date = y.date
    BY <1>1, <1>2
  <2>3. QED
    BY <1>4, <2>1, <2>2, DateHasNoHole
<1>6. ASSUME NEW z \in store, z.part = x.part, z.date = x.date, x.hi < z.lo, z.hi < y.lo
      PROVE  \E c \in Copy!Listing : /\ c.part = a.part
                                     /\ Copy!Before(a, c) /\ Copy!Before(c, b)
  <2> DEFINE c == [part |-> z.part, lo |-> z.lo, hi |-> z.hi, size |-> Len(Body(z))]
  <2>1. a.part \in Selected
    BY ListedIsStored
  <2>2. c \in Copy!Listing
    BY <1>1, <1>6, <2>1, StoredIsListed
  <2>3. c.part = a.part /\ Copy!Before(a, c) /\ Copy!Before(c, b)
    BY <1>1, <1>2, <1>3, <1>6 DEF Copy!Before
  <2>4. QED
    BY <2>2, <2>3
<1>7. QED
  BY <1>1, <1>2, <1>5, <1>6

\* A part of the listing that leaves no key out passes validate_object_ranges.
LEMMA RangesAreValid ==
    ASSUME NEW w, Alone(w), GoodInv(w), Faultless, NEW r,
           NEW L, L \subseteq Copy!Listing,
           \A a, b \in L, c \in Copy!Listing :
              a.part = b.part /\ c.part = a.part /\ Copy!Before(a, c) /\ Copy!Before(c, b)
                  => c \in L
    PROVE  Copy!ValidRanges(r, L)
<1> SUFFICES ASSUME NEW a \in L, NEW b \in L, Copy!Neighbours(L, a, b)
             PROVE  b.lo > a.hi /\ b.lo = a.hi + 1
  BY DEF Copy!ValidRanges
<1>1. /\ a \in Copy!Listing /\ b \in Copy!Listing
      /\ a.part = b.part /\ Copy!Before(a, b)
      /\ ~\E c \in L : Copy!Before(a, c) /\ Copy!Before(c, b)
  BY DEF Copy!Neighbours
<1>2. a.hi < b.lo /\ b.lo = a.hi + 1
  BY <1>1, ListingHasNoHole
<1>3. a.hi \in Nat /\ b.lo \in Nat
  BY <1>1, ListingIsSound DEF GoodInv
<1>4. QED
  BY <1>2, <1>3

\* The listing only grows, at the end of each partition.
LEMMA ListingGrows ==
    ASSUME Poison = {}, NEW w, Alone(w), GoodInv(w), [Next]_vars, Faultless'
    PROVE  /\ Copy!Listing \subseteq Copy!Listing'
           /\ \A z \in Copy!Listing', a \in Copy!Listing :
                 z.part = a.part /\ z.lo < a.lo => z \in Copy!Listing
<1>1. Faultless
  BY FaultlessBefore DEF GoodInv
<1>2. /\ store \subseteq store'
      /\ \A x \in store', y \in store : x.part = y.part /\ x.lo < y.lo => x \in store
  <2>1. CASE PutObject(w)
    <3>1. PICK p \in PartitionsOf(buffer[w]) :
             LET o == ObjectFor(w, p)
             IN  /\ o.part = p
                 /\ store' = store \cup {o}
                 /\ \A x \in store : x.part = p => x.hi < o.lo \/ x = o
      BY <1>1, <2>1, FaultlessPut DEF GoodInv, AloneInv, Faultless
    <3> DEFINE o == ObjectFor(w, p)
    <3>2. o.lo \in Nat
      BY ObjectIsTyped DEF GoodInv, Alone, Object
    <3> HIDE DEF o
    <3>3. /\ o.part = p
          /\ store' = store \cup {o}
          /\ \A x \in store : x.part = p => x.hi < o.lo \/ x = o
      BY <3>1 DEF o
    <3>4. ASSUME NEW y \in store, y.part = p, o.lo < y.lo
          PROVE  o \in store
      <4>1. y.lo \in Nat /\ y.hi \in Nat
        BY DEF GoodInv, IngestionInv, TypeOK, Object
      <4>2. y.lo \in y.rows /\ y.rows \subseteq y.lo..y.hi
        BY BodyIsASequence DEF GoodInv
      <4>3. y.lo <= y.hi
        BY <4>1, <4>2
      <4>4. QED
        BY <3>2, <3>3, <3>4, <4>1, <4>3
    <3>5. QED
      BY <3>3, <3>4
  <2>2. CASE ~PutObject(w)
    BY <2>2, OnlyPutStores DEF Alone
  <2>3. QED
    BY <2>1, <2>2
<1>3. ASSUME NEW a \in Copy!Listing
      PROVE  a \in Copy!Listing'
  <2>1. PICK x \in store : /\ x.date = ReplayDate /\ x.part \in Selected
                           /\ a = [part |-> x.part, lo |-> x.lo, hi |-> x.hi,
                                   size |-> Len(Body(x))]
    BY ListedIsStored
  <2> DEFINE b == [part |-> x.part, lo |-> x.lo, hi |-> x.hi, body |-> Body(x)]
  <2>2. b \in ObjectsOfDate' /\ b.part \in Selected
    BY <1>2, <2>1 DEF ObjectsOfDate, Body, SortedRows
  <2>3. Copy!Reference(b) = a
    BY <2>1 DEF Copy!Reference
  <2>4. Copy!Reference(b) \in Copy!Listing'
    BY <2>2 DEF Copy!Listing, Copy!Reference
  <2>5. QED
    BY <2>3, <2>4
<1>4. ASSUME NEW z \in Copy!Listing', NEW a \in Copy!Listing, z.part = a.part, z.lo < a.lo
      PROVE  z \in Copy!Listing
  <2>1. PICK x \in store' : /\ x.date = ReplayDate /\ x.part \in Selected
                            /\ z = [part |-> x.part, lo |-> x.lo, hi |-> x.hi,
                                    size |-> Len(Body(x))]
    <3>1. PICK b \in ObjectsOfDate' : b.part \in Selected /\ z = Copy!Reference(b)
      BY DEF Copy!Listing, Copy!Reference
    <3>2. PICK x \in store' : /\ x.date = ReplayDate
                              /\ b = [part |-> x.part, lo |-> x.lo, hi |-> x.hi,
                                      body |-> Body(x)]
      BY DEF ObjectsOfDate, Body, SortedRows
    <3>3. QED
      BY <3>1, <3>2 DEF Copy!Reference
  <2>2. PICK y \in store : a.part = y.part /\ a.lo = y.lo
    BY ListedIsStored
  <2>3. x \in store
    BY <1>2, <1>4, <2>1, <2>2
  <2>4. QED
    BY <2>1, <2>3, StoredIsListed
<1>5. QED
  BY <1>3, <1>4

LEMMA IngestKeepsListed ==
    ASSUME Poison = {}, NEW w, Alone(w), GoodInv(w), [Next]_vars, UNCHANGED replayVars
    PROVE  ListedIsThere'
<1>0. Replay!Listing' = Copy!Listing'
  BY DEF Replay!Listing, Replay!Reference, Copy!Listing, Copy!Reference
<1> SUFFICES ASSUME Faultless', NEW r \in Replays
             PROVE  /\ replay'[r] \in {"checking", "listing"} => Copy!Listing' # {}
                    /\ replay'[r] \in {"paging", "heading", "reading"} =>
                          refs'[r] # {} /\ refs'[r] \subseteq Copy!Listing'
                    /\ replay'[r] = "paging" =>
                          \A ref \in refs'[r], z \in Copy!Listing' :
                              z.part = ref.part /\ z.lo < ref.lo => z \in refs'[r]
  BY <1>0 DEF ListedIsThere
<1>1. /\ replay[r] \in {"checking", "listing"} => Copy!Listing # {}
      /\ replay[r] \in {"paging", "heading", "reading"} =>
            refs[r] # {} /\ refs[r] \subseteq Copy!Listing
      /\ replay[r] = "paging" =>
            \A ref \in refs[r], z \in Copy!Listing :
                z.part = ref.part /\ z.lo < ref.lo => z \in refs[r]
  BY FaultlessBefore, SameListing DEF GoodInv, ListedIsThere
<1>2. /\ Copy!Listing \subseteq Copy!Listing'
      /\ \A z \in Copy!Listing', a \in Copy!Listing :
            z.part = a.part /\ z.lo < a.lo => z \in Copy!Listing
  BY ListingGrows
<1>3. replay' = replay /\ refs' = refs
  BY DEF replayVars
<1>4. QED
  BY <1>1, <1>2, <1>3

\* A run's own step: only its label and its references change.
LEMMA ReplayKeepsListed ==
    ASSUME NEW w, Alone(w), GoodInv(w), NEW r \in Replays,
           TakeListing(r) \/ ReplayStep(r) \/ ReplayFails(r)
    PROVE  ListedIsThere'
<1> DEFINE There(label, S) ==
              /\ label \in {"checking", "listing"} => Copy!Listing # {}
              /\ label \in {"paging", "heading", "reading"} =>
                    S # {} /\ S \subseteq Copy!Listing
              /\ label = "paging" =>
                    \A ref \in S, z \in Copy!Listing :
                        z.part = ref.part /\ z.lo < ref.lo => z \in S
<1>1. UNCHANGED <<store, skipped>>
  BY DEF TakeListing, ReplayStep, ReplayFails, ingestionVars, historyVars
<1>2. Replay!Listing' = Copy!Listing
  <2>1. ObjectsOfDate' = ObjectsOfDate
    BY <1>1 DEF ObjectsOfDate, Body, SortedRows
  <2>2. QED
    BY <2>1, SameListing DEF Replay!Listing, Replay!Reference
<1>3. /\ faults \in Nat
      /\ DOMAIN replay = Replays /\ DOMAIN refs = Replays
  BY RunsAreTyped, BoundsAssumption DEF GoodInv
<1> SUFFICES ASSUME Faultless'
             PROVE  \A s \in Replays : There(replay'[s], refs'[s])
  BY <1>2 DEF ListedIsThere
<1>4. ~ReplayFails(r)
  BY <1>3 DEF ReplayFails, Replay!CallFails, Replay!Killed, Faultless
<1>5. faults' = faults
  <2>1. \/ Copy!ListObjects(r) \/ Copy!ListFirstPage(r)
        \/ Copy!Preflight(r) \/ Copy!CheckOutput(r) \/ Copy!ListLastPage(r)
        \/ Copy!HeadObject(r) \/ Copy!ReadObject(r) \/ Copy!ReplaceOutput(r)
        \/ Copy!OpenManifest(r) \/ Copy!FillManifest(r) \/ Copy!ReplaceManifest(r)
    BY <1>4, StepIsStep
  <2>2. QED
    BY <2>1 DEF Copy!ListObjects, Copy!ListFirstPage, Copy!Preflight, Copy!CheckOutput,
       Copy!ListLastPage, Copy!HeadObject, Copy!ReadObject, Copy!ReplaceOutput,
       Copy!OpenManifest, Copy!FillManifest, Copy!ReplaceManifest
<1>6. Faultless
  BY <1>1, <1>5 DEF Faultless
<1>7. \A s \in Replays : There(replay[s], refs[s])
  BY <1>6, SameListing DEF GoodInv, ListedIsThere
<1> HIDE DEF There
<1>8. ASSUME NEW label, NEW S, There(label, S),
             replay' = [replay EXCEPT ![r] = label],
             refs' = [refs EXCEPT ![r] = S]
      PROVE  \A s \in Replays : There(replay'[s], refs'[s])
  BY <1>3, <1>7, <1>8
<1>9. ASSUME NEW label, There(label, refs[r]),
             replay' = [replay EXCEPT ![r] = label], UNCHANGED refs
      PROVE  \A s \in Replays : There(replay'[s], refs'[s])
  BY <1>3, <1>7, <1>9
<1>10. ASSUME NEW label, label \notin {"checking", "listing", "paging", "heading", "reading"},
              NEW S
       PROVE  There(label, S)
  BY <1>10 DEF There
<1>11. ASSUME NEW L, L \subseteq Copy!Listing, Copy!Begin(r, L)
       PROVE  \A s \in Replays : There(replay'[s], refs'[s])
  <2>1. CASE L # {} /\ Copy!ValidRanges(r, L)
    <3>1. There("heading", L)
      BY <1>11, <2>1 DEF There
    <3>2. QED
      BY <1>8, <1>11, <2>1, <3>1 DEF Copy!Begin, Copy!Goto
  <2>2. CASE ~(L # {} /\ Copy!ValidRanges(r, L))
    <3>1. replay' = [replay EXCEPT ![r] = "failed"] /\ refs' = [refs EXCEPT ![r] = {}]
      BY <1>11, <2>2 DEF Copy!Begin, Copy!Goto
    <3>2. There("failed", {})
      BY <1>10
    <3>3. QED
      BY <1>8, <3>1, <3>2
  <2>3. QED
    BY <2>1, <2>2
<1>12. CASE Copy!ListObjects(r)
  BY <1>11, <1>12 DEF Copy!ListObjects
<1>13. CASE Copy!ListFirstPage(r)
  <2>1. PICK last \in Copy!Listing :
           refs' = [refs EXCEPT ![r] = {y \in Copy!Listing : y = last \/ Copy!Before(y, last)}]
    BY <1>13 DEF Copy!ListFirstPage
  <2> DEFINE S == {y \in Copy!Listing : y = last \/ Copy!Before(y, last)}
  <2>2. \A y \in Copy!Listing : y.part \in Nat /\ y.lo \in Nat /\ y.hi \in Nat
    BY ListingIsSound DEF GoodInv
  <2>3. ASSUME NEW ref \in S, NEW z \in Copy!Listing, z.part = ref.part, z.lo < ref.lo
        PROVE  z \in S
    <3>1. Copy!Before(z, last)
      BY <2>2, <2>3 DEF Copy!Before
    <3>2. QED
      BY <3>1
  <2>4. last \in S /\ S \subseteq Copy!Listing
    OBVIOUS
  <2>5. replay' = [replay EXCEPT ![r] = "paging"]
    BY <1>13 DEF Copy!ListFirstPage, Copy!Goto
  <2> HIDE DEF S
  <2>6. There("paging", S)
    BY <2>3, <2>4 DEF There
  <2>7. QED
    BY <1>8, <2>1, <2>5, <2>6 DEF S
<1>14. CASE Copy!ListLastPage(r)
  <2>1. replay[r] = "paging" /\ Copy!Begin(r, refs[r] \cup Copy!NextPage(r))
    BY <1>14 DEF Copy!ListLastPage
  <2>2. refs[r] \cup Copy!NextPage(r) \subseteq Copy!Listing
    BY <1>7, <2>1 DEF There, Copy!NextPage
  <2>3. QED
    BY <1>11, <2>1, <2>2
<1>15. CASE Copy!Preflight(r)
  <2>1. /\ refs' = refs
        /\ \/ replay' = [replay EXCEPT ![r] = "checking"] /\ Copy!Listing # {}
           \/ replay' = [replay EXCEPT ![r] = "done"]
           \/ replay' = [replay EXCEPT ![r] = "failed"]
    BY <1>15 DEF Copy!Preflight, Copy!Acceptable, Copy!Goto
  <2>2. /\ Copy!Listing # {} => There("checking", refs[r])
        /\ There("done", refs[r]) /\ There("failed", refs[r])
    BY DEF There
  <2>3. QED
    BY <1>9, <2>1, <2>2
<1>16. CASE Copy!CheckOutput(r)
  <2>1. /\ refs' = refs /\ replay[r] = "checking"
        /\ \/ replay' = [replay EXCEPT ![r] = "listing"]
           \/ replay' = [replay EXCEPT ![r] = "failed"]
    BY <1>16 DEF Copy!CheckOutput, Copy!Goto
  <2>2. There("listing", refs[r]) /\ There("failed", refs[r])
    BY <1>7, <2>1 DEF There
  <2>3. QED
    BY <1>9, <2>1, <2>2
<1>17. CASE Copy!HeadObject(r) \/ Copy!ReadObject(r)
  <2>1. /\ replay[r] \in {"heading", "reading"}
        /\ \/ /\ refs' = refs
              /\ \E label \in {"heading", "reading", "replacing"} :
                    replay' = [replay EXCEPT ![r] = label]
           \/ /\ replay' = [replay EXCEPT ![r] = "failed"]
              /\ refs' = [refs EXCEPT ![r] = {}]
    BY <1>17 DEF Copy!HeadObject, Copy!ReadObject, Copy!Goto, Copy!Fail, Copy!End
  <2>2. /\ \A label \in {"heading", "reading", "replacing"} : There(label, refs[r])
        /\ There("failed", {})
    BY <1>7, <2>1 DEF There
  <2>3. QED
    BY <1>8, <1>9, <2>1, <2>2
<1>18. CASE \/ Copy!ReplaceOutput(r) \/ Copy!OpenManifest(r) \/ Copy!FillManifest(r)
            \/ Copy!ReplaceManifest(r)
  <2>1. \/ /\ refs' = refs
           /\ \E label \in {"describing", "filling", "publishing"} :
                 replay' = [replay EXCEPT ![r] = label]
        \/ /\ refs' = [refs EXCEPT ![r] = {}]
           /\ \E label \in {"failed", "done"} : replay' = [replay EXCEPT ![r] = label]
    <3>1. CASE Copy!ReplaceManifest(r)
      <4>1. Copy!End(r, "failed") \/ Copy!End(r, "done")
        BY <3>1 DEF Copy!ReplaceManifest
      <4>2. QED
        BY <4>1 DEF Copy!End, Copy!Goto
    <3>2. CASE Copy!ReplaceOutput(r) \/ Copy!OpenManifest(r) \/ Copy!FillManifest(r)
      BY <3>2 DEF Copy!ReplaceOutput, Copy!OpenManifest, Copy!FillManifest, Copy!Goto
    <3>3. QED
      BY <1>18, <3>1, <3>2
  <2>2. QED
    BY <1>8, <1>9, <1>10, <2>1
<1>19. QED
  BY <1>4, <1>12, <1>13, <1>14, <1>15, <1>16, <1>17, <1>18, StepIsStep

-----------------------------------------------------------------------------
(* What a run relies on holds in the lake *)

LEMMA ReplayKeepsGoodInv ==
    ASSUME NEW w, Alone(w), GoodInv(w), LakeInv', AloneInv(w)', NEW r \in Replays,
           TakeListing(r) \/ ReplayStep(r) \/ ReplayFails(r)
    PROVE  GoodInv(w)'
<1>1. UNCHANGED <<group, buffer, committed, position, store, today, pc, written,
                  flushDate, skipped>>
  BY DEF TakeListing, ReplayStep, ReplayFails, ingestionVars, brokerVars, writerVars,
         historyVars
<1>2. faults' = 0 => faults = 0
  BY RunsKeepFaults DEF GoodInv, LakeInv
<1>3. Faultless' => Faultless
  BY <1>1, <1>2 DEF Faultless
<1>4. FaultlessInv(w)'
  BY <1>1, <1>2, FaultlessFrame DEF GoodInv
<1>5. NoHoles' /\ DatesInOrder'
  BY <1>1, <1>3 DEF GoodInv, NoHoles, DatesInOrder, ResetPosition, InFlush
<1>6. ListedIsThere'
  BY ReplayKeepsListed
<1>7. QED
  BY <1>4, <1>5, <1>6 DEF GoodInv, LakeInv

LEMMA LakeNextKeepsGoodInv ==
    ASSUME Poison = {}, NEW w, Alone(w), GoodInv(w), LakeInv', AloneInv(w)',
           [LakeNext]_lakeVars
    PROVE  GoodInv(w)'
<1>1. CASE Ingest \/ UNCHANGED lakeVars
  <2>1. [Next]_vars /\ UNCHANGED replayVars
    BY <1>1 DEF Ingest, lakeVars
  <2>2. FaultlessInv(w)'
    BY <2>1, NextKeepsFaultlessInv DEF GoodInv, AloneInv, BatchInv, LakeInv
  <2>3. NoHoles'
    BY <2>1, NextKeepsNoHoles DEF GoodInv, AloneInv
  <2>4. DatesInOrder'
    BY <2>1, NextKeepsDatesInOrder DEF GoodInv, AloneInv
  <2>5. ListedIsThere'
    BY <2>1, IngestKeepsListed
  <2>6. QED
    BY <2>2, <2>3, <2>4, <2>5 DEF GoodInv, LakeInv
<1>2. QED
  BY <1>1, ReplayKeepsGoodInv DEF LakeNext

LEMMA GoodInvHolds ==
    ASSUME Poison = {}, NEW CONSTANT w, Alone(w)
    PROVE  LakeSpec => []GoodInv(w)
<1>1. LakeInit /\ LakeInv /\ AloneInv(w) => GoodInv(w)
  <2> SUFFICES ASSUME LakeInit, LakeInv, AloneInv(w)
               PROVE  GoodInv(w)
    OBVIOUS
  <2>1. /\ store = {} /\ pc[w] = "down" /\ \A v \in Writers : pc[v] = "down"
        /\ \A p \in Partitions : position[p] = NoOffset
    BY DEF LakeInit, Init, Alone, Members
  <2>2. Copy!Init
    BY InitIsInit DEF LakeInit
  <2>3. FaultlessInv(w)
    BY <2>1 DEF FaultlessInv
  <2>4. NoHoles /\ DatesInOrder
    BY <2>1 DEF NoHoles, DatesInOrder, InFlush
  <2>5. ListedIsThere
    BY <2>2 DEF ListedIsThere, Copy!Init
  <2>6. QED
    BY <2>3, <2>4, <2>5 DEF GoodInv, LakeInv
<1>2. /\ LakeInv' /\ AloneInv(w)' /\ GoodInv(w) /\ [LakeNext]_lakeVars
      => GoodInv(w)'
  BY LakeNextKeepsGoodInv
<1>3. QED
  BY <1>1, <1>2, LakeInvHolds, AloneInvHolds, PTL DEF LakeSpec

-----------------------------------------------------------------------------
(* Nothing stops a run that takes its turn *)

\* What a run has of the listing and what its last page adds leaves no key out.
LEMMA PagesLeaveNothingOut ==
    ASSUME NEW w, Alone(w), GoodInv(w), Faultless, NEW r \in Replays, replay[r] = "paging",
           NEW a \in refs[r] \cup Copy!NextPage(r), NEW b \in refs[r] \cup Copy!NextPage(r),
           NEW c \in Copy!Listing, a.part = b.part, c.part = a.part,
           Copy!Before(a, c), Copy!Before(c, b)
    PROVE  c \in refs[r] \cup Copy!NextPage(r)
<1>1. /\ refs[r] \subseteq Copy!Listing
      /\ \A ref \in refs[r], z \in Copy!Listing :
            z.part = ref.part /\ z.lo < ref.lo => z \in refs[r]
  BY SameListing DEF GoodInv, ListedIsThere
<1>2. /\ \A x \in Copy!Listing : x.part \in Nat /\ x.lo \in Nat /\ x.hi \in Nat /\ x.lo <= x.hi
      /\ \A x, y \in Copy!Listing : Copy!SameKey(x, y) => x = y
  <2>1. ASSUME NEW x \in Copy!Listing
        PROVE  x.lo <= x.hi
    <3>1. PICK y \in store : x.lo = y.lo /\ x.hi = y.hi
      BY ListedIsStored
    <3>2. y.lo \in y.rows /\ y.rows \subseteq y.lo..y.hi
      BY BodyIsASequence DEF GoodInv
    <3>3. y.lo \in Nat /\ y.hi \in Nat
      BY DEF GoodInv, IngestionInv, TypeOK, Object
    <3>4. QED
      BY <3>1, <3>2, <3>3
  <2>2. QED
    BY <2>1, ListingIsSound DEF GoodInv
<1>3. ASSUME NEW y \in refs[r], y.part = c.part, Copy!Before(c, y)
      PROVE  c \in refs[r]
  <2>1. c.hi < y.lo
    BY <1>1, <1>3, ListingHasNoHole
  <2>2. c.lo < y.lo
    BY <1>1, <1>2, <2>1
  <2>3. QED
    BY <1>1, <1>3, <2>2
<1>4. CASE b \in refs[r]
  BY <1>3, <1>4
<1>5. CASE b \in Copy!NextPage(r) /\ c \notin refs[r]
  <2>1. b \in Copy!Listing /\ \A y \in refs[r] : Copy!Before(y, b)
    BY <1>5 DEF Copy!NextPage
  <2>2. ASSUME NEW y \in refs[r]
        PROVE  Copy!Before(y, c)
    <3>1. y \in Copy!Listing /\ y # c
      BY <1>1, <1>5
    <3>2. Copy!Before(y, c) \/ Copy!Before(c, y)
      BY <1>2, <3>1 DEF Copy!Before, Copy!SameKey
    <3>3. CASE Copy!Before(c, y)
      <4>1. y.part = c.part
        BY <1>2, <2>1, <3>1, <3>3 DEF Copy!Before
      <4>2. QED
        BY <1>3, <1>5, <3>3, <4>1
    <3>4. QED
      BY <3>2, <3>3
  <2>3. QED
    BY <2>2 DEF Copy!NextPage
<1>6. QED
  BY <1>4, <1>5

\* The object a run is at is the one it has listed.
LEMMA CurrentIsListed ==
    ASSUME NEW w, Alone(w), GoodInv(w), Faultless, NEW r \in Replays,
           replay[r] \in {"heading", "reading"}
    PROVE  /\ Copy!ObjectAt(Copy!Current(r)) \in ObjectsOfDate
           /\ Copy!SizeUnchanged(Copy!Current(r))
<1> DEFINE ref == Copy!Current(r)
           x == Copy!ObjectAt(ref)
<1>1. ref \in refs[r] /\ x \in ObjectsOfDate /\ Copy!SameKey(x, ref)
  BY Copy!CurrentIsNext, NoFileIsAbsent, LakeAssumption, BoundsAssumption,
     ConfigAssumption DEF GoodInv
<1>2. refs[r] \subseteq Copy!Listing
  BY SameListing DEF GoodInv, ListedIsThere
<1> HIDE DEF ref, x
<1>3. PICK y \in ObjectsOfDate : ref = Copy!Reference(y)
  BY <1>1, <1>2 DEF Copy!Listing
<1>4. Copy!SameKey(x, y)
  BY <1>1, <1>3 DEF Copy!SameKey, Copy!Reference
<1>5. x = y
  BY <1>1, <1>4 DEF GoodInv, Copy!ReplayInv, Copy!ListingsAreSound, Copy!OnePerKey
<1>6. Copy!SizeUnchanged(ref)
  BY <1>3, <1>5 DEF Copy!SizeUnchanged, Copy!Reference, x
<1>7. QED
  BY <1>1, <1>6 DEF ref, x

\* A run that takes its turn fails at nothing it lists, reads or moves.
LEMMA FaultlessRunGoesOn ==
    ASSUME NEW w, Alone(w), GoodInv(w), Faultless, ~overlapped, NEW r \in Replays,
           TakeListing(r) \/ ReplayStep(r), replay'[r] = "failed"
    PROVE  NothingToDo(r)
<1>1. DOMAIN replay = Replays
  BY RunsAreTyped DEF GoodInv
<1>2. /\ replay[r] \in {"checking", "listing"} => Copy!Listing # {}
      /\ replay[r] = "paging" => refs[r] # {} /\ refs[r] \subseteq Copy!Listing
  BY SameListing DEF GoodInv, ListedIsThere
<1>3. ASSUME NEW L, L # {}, L \subseteq Copy!Listing, Copy!Begin(r, L),
             \A a, b \in L, c \in Copy!Listing :
                a.part = b.part /\ c.part = a.part /\ Copy!Before(a, c) /\ Copy!Before(c, b)
                    => c \in L
      PROVE  FALSE
  <2>1. Copy!ValidRanges(r, L)
    BY <1>3, RangesAreValid
  <2>2. QED
    BY <1>1, <1>3, <2>1 DEF Copy!Begin, Copy!Goto
<1>4. CASE Copy!ListObjects(r)
  BY <1>2, <1>3, <1>4 DEF Copy!ListObjects
<1>5. CASE Copy!ListFirstPage(r)
  BY <1>1, <1>5 DEF Copy!ListFirstPage, Copy!Goto
<1>6. CASE Copy!Preflight(r)
  <2>1. replay[r] = "waiting" /\ ~Copy!Acceptable(r)
    BY <1>1, <1>6 DEF Copy!Preflight, Copy!Goto
  <2>2. Copy!ValidRanges(r, Copy!Listing)
    BY RangesAreValid
  <2>3. QED
    BY <2>1, <2>2, SameListing DEF Copy!Acceptable, NothingToDo
<1>7. CASE Copy!CheckOutput(r)
  BY <1>1, <1>7 DEF Copy!CheckOutput, Copy!Goto, Copy!MayWrite, NothingToDo
<1>8. CASE Copy!ListLastPage(r)
  <2> DEFINE L == refs[r] \cup Copy!NextPage(r)
  <2>1. replay[r] = "paging" /\ Copy!Begin(r, L)
    BY <1>8 DEF Copy!ListLastPage
  <2>2. L # {} /\ L \subseteq Copy!Listing
    BY <1>2, <2>1 DEF Copy!NextPage
  <2>3. \A a, b \in L, c \in Copy!Listing :
           a.part = b.part /\ c.part = a.part /\ Copy!Before(a, c) /\ Copy!Before(c, b)
              => c \in L
    BY <2>1, PagesLeaveNothingOut
  <2> HIDE DEF L
  <2>4. QED
    BY <1>3, <2>1, <2>2, <2>3
<1>9. CASE Copy!HeadObject(r)
  <2>1. replay[r] = "heading" /\ ~Copy!SizeUnchanged(Copy!Current(r))
    BY <1>1, <1>9 DEF Copy!HeadObject, Copy!Goto
  <2>2. QED
    BY <2>1, CurrentIsListed
<1>10. CASE Copy!ReadObject(r)
  <2>1. replay[r] = "reading" /\ ~Copy!BodyValid(Copy!ObjectAt(Copy!Current(r)))
    BY <1>1, <1>10 DEF Copy!ReadObject, Copy!Goto
  <2>2. QED
    BY <2>1, CurrentIsListed, FaultlessBody
<1>11. CASE Copy!ReplaceOutput(r) \/ Copy!OpenManifest(r) \/ Copy!FillManifest(r)
  BY <1>1, <1>11 DEF Copy!ReplaceOutput, Copy!OpenManifest, Copy!FillManifest, Copy!Goto
<1>12. CASE Copy!ReplaceManifest(r)
  <2>1. manifestTemp # Absent
    BY <1>12 DEF Copy!ReplaceManifest, GoodInv, Copy!ReplayInv, Copy!RunsTakeTurns,
       Copy!AfterOutput
  <2>2. QED
    BY <1>1, <1>12, <2>1 DEF Copy!ReplaceManifest, Copy!End, Copy!Goto
<1>13. QED
  BY <1>4, <1>5, <1>6, <1>7, <1>8, <1>9, <1>10, <1>11, <1>12, StepIsStep

\* As long as nothing has failed, nothing was lost to retention and runs take turns, a
\* replay of what the group's one writer is putting ends with an error only if the date
\* is empty or an output is in its way: at whatever point of a batch it lists and
\* whatever is put between its pages (replay_bronze.py:307, 522).
THEOREM AloneDateIsReplayable ==
    ASSUME Poison = {}, NEW CONSTANT w, Alone(w)
    PROVE  LakeSpec => FaultlessDateReplays
<1> DEFINE Goes == \A r \in Replays :
              (/\ Faultless
               /\ ~overlapped
               /\ replay[r] # "failed"
               /\ replay'[r] = "failed"
               /\ faults' = 0) => NothingToDo(r)
<1>1. GoodInv(w) /\ [LakeNext]_lakeVars => [Goes]_lakeVars
  <2> SUFFICES ASSUME GoodInv(w), LakeNext, NEW r \in Replays, Faultless, ~overlapped,
                      replay[r] # "failed", replay'[r] = "failed", faults' = 0
               PROVE  NothingToDo(r)
    OBVIOUS
  <2>1. DOMAIN replay = Replays
    BY RunsAreTyped DEF GoodInv
  <2>2. ~Ingest
    BY DEF Ingest, replayVars
  <2>3. PICK s \in Replays : TakeListing(s) \/ ReplayStep(s) \/ ReplayFails(s)
    BY <2>2 DEF LakeNext
  <2>4. ~ReplayFails(s)
    BY <2>3, StepIsStep DEF Copy!CallFails, Copy!Killed, Faultless
  <2>5. s = r
    <3>1. \E label : replay' = [replay EXCEPT ![s] = label]
      <4>1. Copy!Step(s)
        BY <2>3, <2>4, StepIsStep DEF Copy!Step
      <4> USE DEF Copy!Goto, Copy!Begin, Copy!End, Copy!Fail
      <4>2. CASE Copy!ListObjects(s) \/ Copy!ListFirstPage(s) \/ Copy!ListLastPage(s)
        BY <4>2 DEF Copy!ListObjects, Copy!ListFirstPage, Copy!ListLastPage
      <4>3. CASE Copy!Preflight(s) \/ Copy!CheckOutput(s)
        BY <4>3 DEF Copy!Preflight, Copy!CheckOutput
      <4>4. CASE Copy!HeadObject(s) \/ Copy!ReadObject(s)
        BY <4>4 DEF Copy!HeadObject, Copy!ReadObject
      <4>5. CASE Copy!ReplaceOutput(s) \/ Copy!OpenManifest(s) \/ Copy!FillManifest(s)
        BY <4>5 DEF Copy!ReplaceOutput, Copy!OpenManifest, Copy!FillManifest
      <4>6. CASE Copy!ReplaceManifest(s)
        BY <4>6 DEF Copy!ReplaceManifest
      <4>7. QED
        BY <4>1, <4>2, <4>3, <4>4, <4>5, <4>6 DEF Copy!Step
    <3>2. QED
      BY <2>1, <3>1
  <2>6. QED
    BY <2>3, <2>4, <2>5, FaultlessRunGoesOn
<1>2. QED
  BY <1>1, GoodInvHolds, PTL DEF LakeSpec, FaultlessDateReplays

=============================================================================
