------------------------------ MODULE BronzeLake ------------------------------
(***************************************************************************)
(* The writers of BronzeIngestion and the replay runs of BronzeReplay over  *)
(* one bucket: a replay lists and reads the objects of one processing date  *)
(* while the writers go on putting, verifying and committing.               *)
(*                                                                          *)
(* Neither component knows of the other.  What a replay finds under its     *)
(* date is the store of the writers, and the objects BronzeReplay expects   *)
(* of its environment are what the writers have to leave there.             *)
(***************************************************************************)
EXTENDS BronzeIngestion

CONSTANTS
    Replays,        \* replay runs, all of ReplayDate
    Selected,       \* the partitions --partition lets through
    Overwriting,    \* the runs started with --overwrite
    AllowingGaps,   \* the runs started with --allow-gaps
    Absent,         \* a file that does not exist
    ReplayDate      \* --processing-date

ASSUME LakeAssumption ==
    /\ Partitions \subseteq Nat
    /\ Selected \subseteq Partitions
    /\ Overwriting \subseteq Replays
    /\ AllowingGaps \subseteq Replays
    /\ Absent \notin Replays
    /\ ReplayDate \in Nat

VARIABLES
    replay,         \* [Replays -> where the run is]
    refs, done, temporary, output, manifestTemp, manifest, handle, text,
    published, overlapped,      \* as in BronzeReplay
    owed            \* history, [Replays -> offsets its listing must bring back]

replayVars == <<replay, refs, done, temporary, output, manifestTemp, manifest,
                handle, text, published, overlapped>>
ingestionVars == <<brokerVars, store, today, writerVars, historyVars>>
lakeVars == <<vars, replayVars, owed>>

-----------------------------------------------------------------------------
(* The bucket the replay sees *)

SortedRows(rows) ==
    CHOOSE s \in [1..Cardinality(rows) -> rows] :
        \A i, j \in DOMAIN s : i < j => s[i] < s[j]

\* An object's rows in order; of the rows that repeat others only the number is
\* known, so the first one stands for them.
Body(x) ==
    [i \in 1..(x.count - Cardinality(x.rows)) |-> x.lo] \o SortedRows(x.rows)

ObjectsOfDate ==
    {[part |-> x.part, lo |-> x.lo, hi |-> x.hi, body |-> Body(x)] :
        x \in {y \in store : y.date = ReplayDate}}

Replay == INSTANCE BronzeReplay WITH
    bucket <- ObjectsOfDate,
    pc     <- replay,
    puts   <- 0,
    MaxPuts <- 0,
    MaxRepeats <- BatchSize,
    Ranges <- {}

ASSUME NoOutputAssumption == Absent \notin Replay!File

\* Offsets the group has committed whose record retention spared and no other
\* date holds.
CommittedUnderDate ==
    {k \in Selected \X (0..MaxOffset) :
        /\ k[2] < committed[k[1]]
        /\ k[2] \notin skipped[k[1]]
        /\ ~\E x \in store : x.date # ReplayDate /\ x.part = k[1] /\ k[2] \in x.rows}

-----------------------------------------------------------------------------
LakeInit ==
    /\ Init
    /\ Replay!Init
    /\ owed = [r \in Replays |-> {}]

Ingest == Next /\ UNCHANGED <<replayVars, owed>>

\* The listing a run replays begins: what is committed now is owed.
TakeListing(r) ==
    /\ UNCHANGED ingestionVars
    /\ Replay!ListObjects(r) \/ Replay!ListFirstPage(r)
    /\ owed' = [owed EXCEPT ![r] = CommittedUnderDate]

ReplayStep(r) ==
    /\ UNCHANGED <<ingestionVars, owed>>
    /\ \/ Replay!Preflight(r)
       \/ Replay!CheckOutput(r)
       \/ Replay!ListLastPage(r)
       \/ Replay!HeadObject(r)
       \/ Replay!ReadObject(r)
       \/ Replay!ReplaceOutput(r)
       \/ Replay!OpenManifest(r)
       \/ Replay!FillManifest(r)
       \/ Replay!ReplaceManifest(r)

ReplayFails(r) ==
    /\ UNCHANGED <<ingestionVars, owed>>
    /\ Replay!CallFails(r) \/ Replay!Killed(r)

LakeNext ==
    \/ Ingest
    \/ \E r \in Replays : TakeListing(r)
    \/ \E r \in Replays : ReplayStep(r)
    \/ \E r \in Replays : ReplayFails(r)

LakeSpec == LakeInit /\ [][LakeNext]_lakeVars

-----------------------------------------------------------------------------
(* Properties *)

\* What BronzeReplay assumes of the bucket (replay_bronze.py:404-555) is what
\* the writers leave there (bronze_writer.py:342-412), whatever failed and whatever
\* the group went through: rows in order, both ends of the key among them, with no
\* more repeated than a batch has.
BodiesAsAssumed ==
    \A x \in ObjectsOfDate : x.body \in Replay!Bodies(x.lo, x.hi)

\* A replay that is published brings back every record that was committed
\* when its listing began, retention and other dates aside, unless a commit has gone
\* back: the writers' at-least-once promise reaches the reader of the replayed file
\* (bronze_writer.py:592, replay_bronze.py:612).
ReplayHasCommitted ==
    ~rewound /\ output # Absent =>
        owed[output.by] \subseteq
            {<<output.rows[i].part, output.rows[i].off>> : i \in DOMAIN output.rows}

\* The date has no objects, or an output is in the way: the two refusals that
\* are no failure of the lake.
NothingToDo(r) ==
    \/ replay[r] = "waiting" /\ Replay!Listing = {}
    \/ replay[r] = "checking" /\ output # Absent

\* No call has failed, no process was stopped and retention has deleted nothing
\* unread.
Faultless == faults = 0 /\ \A p \in Partitions : skipped[p] = {}

\* As long as that holds and replay runs take turns, a date can be replayed at any
\* moment, also while the one writer of the group is in the middle of a batch
\* (replay_bronze.py:307, 522).  With several partitions this takes payloads that can
\* be serialised: one that raises ends a batch of which other partitions are put.
FaultlessDateReplays ==
    [][\A r \in Replays :
          (/\ Faultless
           /\ ~overlapped
           /\ replay[r] # "failed"
           /\ replay'[r] = "failed"
           /\ faults' = 0) => NothingToDo(r)]_lakeVars

-----------------------------------------------------------------------------
(* What the proofs need beside the properties *)

\* The bucket has one object per key, with a row count that counts each offset
\* once until a rebalance makes a writer read its buffer again.
OneObjectPerKey ==
    /\ IsFiniteSet(store)
    /\ \A x, y \in store : SameKey(x, y) => x = y
OneRowPerOffset ==
    ~overtaken =>
        /\ \A w \in Writers, p \in Partitions :
              /\ IsFiniteSet(Rows(buffer[w], p))
              /\ RowCount(buffer[w], p) = Cardinality(Rows(buffer[w], p))
        /\ \A x \in store : x.count = Cardinality(x.rows)

\* A batch has at most BatchSize records, and so many rows an object repeats at most.
BatchesAreBounded ==
    /\ \A w \in Writers :
          /\ Len(buffer[w]) <= BatchSize
          /\ pc[w] = "polling" => Len(buffer[w]) < BatchSize
          /\ pc[w] = "down" => buffer[w] = << >>
    /\ \A x \in store : x.count - Cardinality(x.rows) \in 0..BatchSize

Names(x, k) == x.part = k[1] /\ k[2] \in x.lo..x.hi

\* What is owed to a run is under a key it has listed, or that its next page will
\* list, since the keys come in order and none goes away ...
OwedIsListed ==
    \A r \in Replays :
        /\ replay[r] = "paging" => \A k \in owed[r] :
              \E x \in ObjectsOfDate :
                  /\ x.part \in Selected /\ Names(x, k)
                  /\ \/ \E y \in refs[r] : Replay!SameKey(x, y)
                     \/ \A y \in refs[r] : Replay!Before(y, x)
        /\ replay[r] \in {"heading", "reading", "replacing"} =>
              \A k \in owed[r] : \E x \in refs[r] : Names(x, k)

\* ... and the output in place was copied from such a listing.
OwedIsCopied ==
    output # Absent =>
        /\ output.by \in published
        /\ \A k \in owed[output.by] : \E x \in output.refs : Names(x, k)

\* As long as no commit goes back, what is committed is in the bucket to be listed.
OwedInv == ~rewound => OwedIsListed /\ OwedIsCopied

\* One writer that nothing has gone wrong for holds what lies between the committed
\* offset and its position, and cuts it into objects without a hole, ...
NoHoles ==
    Faultless =>
        /\ \A w \in Writers, p \in Partitions :
              w \in group /\ position[p] # NoOffset =>
                  Rows(buffer[w], p) = ResetPosition(p)..(position[p] - 1)
        /\ \A x \in store : x.rows = x.lo..x.hi

\* ... whose dates follow their offsets.
InFlush(w) == pc[w] \in {"putting", "verifying", "committing"}
DatesInOrder ==
    Faultless =>
        /\ \A w \in Writers : InFlush(w) => flushDate[w] <= today
        /\ \A x \in store :
              /\ x.date <= today
              /\ \A w \in Writers : InFlush(w) => x.date <= flushDate[w]
        /\ \A x, y \in store : x.part = y.part /\ x.lo < y.lo => x.date <= y.date

\* What a run has listed is still there, unchanged; of each partition a first page
\* has everything up to its last key.
ListedIsThere ==
    Faultless => \A r \in Replays :
        /\ replay[r] \in {"checking", "listing"} => Replay!Listing # {}
        /\ replay[r] \in {"paging", "heading", "reading"} =>
              refs[r] # {} /\ refs[r] \subseteq Replay!Listing
        /\ replay[r] = "paging" =>
              \A ref \in refs[r], z \in Replay!Listing :
                  z.part = ref.part /\ z.lo < ref.lo => z \in refs[r]

=============================================================================
