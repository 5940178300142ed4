----------------------------- MODULE BronzeReplay -----------------------------
(***************************************************************************)
(* scripts/replay_bronze.py: runs that copy the Bronze objects of one       *)
(* processing date into a local JSONL file and describe the file in a       *)
(* manifest.  Runs may follow one another or overlap in time, and the       *)
(* writers of BronzeIngestion go on putting objects under the same date.    *)
(*                                                                          *)
(* The bucket and the file system are external.  A row is the offset it     *)
(* carries; a size is a number of rows.  A manifest file is known by the    *)
(* run that created it: os.replace moves a file, and a run that has it open *)
(* goes on writing into it under its new name.                              *)
(***************************************************************************)
EXTENDS Integers, Sequences, FiniteSets

CONSTANTS
    Replays,        \* runs of replay_bronze.py, by replay_run_id
    Partitions,     \* partition numbers of the topic
    Selected,       \* the partitions --partition lets through
    Overwriting,    \* the runs started with --overwrite
    AllowingGaps,   \* the runs started with --allow-gaps
    Absent,         \* a file that does not exist
    Ranges,         \* bound: [part, lo, hi] of the keys that are put
    MaxRepeats,     \* bound: rows of an object that repeat others
    MaxPuts,        \* bound: objects put while the model runs
    MaxFaults       \* bound: failed S3 or file calls, crashes, interrupts

ASSUME ReplayAssumption ==
    /\ Partitions \subseteq Nat
    /\ Selected \subseteq Partitions
    /\ Overwriting \subseteq Replays
    /\ AllowingGaps \subseteq Replays
    /\ Absent \notin Replays
ASSUME ReplayBounds ==
    /\ \A x \in Ranges : x.part \in Partitions /\ x.lo \in Nat /\ x.hi \in Nat /\ x.lo <= x.hi
    /\ MaxRepeats \in Nat /\ MaxPuts \in Nat /\ MaxFaults \in Nat

\* A row of the output, an object of the bucket, what a listing says of it, and
\* an output file with the run that wrote it and the listing it copied.
Row == [part : Partitions, off : Nat]
Object == [part : Partitions, lo : Nat, hi : Nat, body : Seq(Nat)]
ObjectReference == [part : Partitions, lo : Nat, hi : Nat, size : Nat]
File == [rows : Seq(Row), by : Replays, refs : SUBSET ObjectReference]

ASSUME AbsentAssumption == Absent \notin File

VARIABLES
    bucket,         \* the date's objects, at most one per key
    puts,           \* number of puts so far
    pc,             \* [Replays -> where the run is]
    refs,           \* [Replays -> references listed]
    done,           \* [Replays -> references already copied]
    temporary,      \* [Replays -> rows of the run's temporary file, or Absent]
    output,         \* the output file: [rows, by], or Absent
    manifestTemp,   \* the file the manifest's one temporary name leads to
    manifest,       \* the file the manifest's name leads to, or Absent
    handle,         \* [Replays -> the manifest file the run has opened]
    text,           \* [files -> runs whose text it holds]; two: torn
    published,      \* history: runs that replaced the output
    overlapped,     \* history: has a run started while another was under way?
    faults

bucketVars == <<bucket, puts>>
outputVars == <<output, published>>
manifestVars == <<manifestTemp, manifest, handle, text>>
fileVars == <<temporary, outputVars, manifestVars>>
vars == <<bucketVars, pc, refs, done, fileVars, overlapped, faults>>

-----------------------------------------------------------------------------
(* Objects, references and ranges *)

\* The offsets of an object's rows, sorted as group_records_by_partition does.
InOrder(offsets) ==
    CHOOSE s \in [1..Cardinality(offsets) -> offsets] :
        \A i, j \in DOMAIN s : i < j => s[i] < s[j]

\* What a put of lo..hi may store: some of its offsets, both ends included
\* (retention can overtake a batch), ...
EachOnce(lo, hi) == {InOrder(offsets \cup {lo, hi}) : offsets \in SUBSET (lo..hi)}

\* ... behind rows that repeat others (a rebalance makes a writer, also the only one,
\* read its buffer again).  Which rows are repeated is the same to a reader that
\* counts on one row per offset.
Repeated(n, o) == [i \in 1..n |-> o]
Bodies(lo, hi) ==
    UNION {{Repeated(n, lo) \o rows : rows \in EachOnce(lo, hi)} : n \in 0..MaxRepeats}

Reference(x) == [part |-> x.part, lo |-> x.lo, hi |-> x.hi, size |-> Len(x.body)]

\* The sort key of list_replay_objects: partition, start, end.
Before(x, y) ==
    \/ x.part < y.part
    \/ x.part = y.part /\ x.lo < y.lo
    \/ x.part = y.part /\ x.lo = y.lo /\ x.hi < y.hi

\* Neighbours in the sorted list of one partition.
Neighbours(listing, x, y) ==
    /\ x.part = y.part
    /\ Before(x, y)
    /\ ~\E z \in listing : Before(x, z) /\ Before(z, y)

\* validate_object_ranges: each object starts after its predecessor's end,
\* right after it unless gaps are allowed.
ValidRangesNoGapCheck(r, listing) ==        \* mutant: gaps always allowed
    \A x, y \in listing : Neighbours(listing, x, y) => y.lo > x.hi
ValidRanges(r, listing) ==
    \A x, y \in listing : Neighbours(listing, x, y) =>
        y.lo > x.hi /\ (r \in AllowingGaps \/ y.lo = x.hi + 1)

\* list_replay_objects.
Listing == {Reference(x) : x \in {y \in bucket : y.part \in Selected}}

\* The object a reference's key names now.
ObjectAt(ref) ==
    CHOOSE x \in bucket : x.part = ref.part /\ x.lo = ref.lo /\ x.hi = ref.hi

CurrentFromEnd(r) ==        \* mutant: the references are sorted the other way
    CHOOSE x \in refs[r] \ done[r] : \A y \in refs[r] \ done[r] : x = y \/ Before(y, x)

\* The reference the loop of replay_processing_date is at.
Current(r) ==
    CHOOSE x \in refs[r] \ done[r] : \A y \in refs[r] \ done[r] : x = y \/ Before(x, y)

\* validate_object_metadata compares the size of LIST with that of HEAD.
SizeUnchanged(ref) == Len(ObjectAt(ref).body) = ref.size

\* read_and_validate_object: one row per offset of the range, in order.
BodyLengthOnly(x) == Len(x.body) >= x.hi - x.lo + 1         \* mutant
BodyValid(x) ==
    /\ Len(x.body) = x.hi - x.lo + 1
    /\ \A i \in DOMAIN x.body : x.body[i] = x.lo + i - 1

RowsOfFirst(x) ==           \* mutant: rows are numbered from 0
    [i \in DOMAIN x.body |-> [part |-> x.part, off |-> x.body[i] - 1]]
RowsOf(x) == [i \in DOMAIN x.body |-> [part |-> x.part, off |-> x.body[i]]]

-----------------------------------------------------------------------------
Init ==
    /\ bucket       = {}
    /\ puts         = 0
    /\ pc           = [r \in Replays |-> "waiting"]
    /\ refs         = [r \in Replays |-> {}]
    /\ done         = [r \in Replays |-> {}]
    /\ temporary    = [r \in Replays |-> Absent]
    /\ output       = Absent
    /\ manifestTemp = Absent
    /\ manifest     = Absent
    /\ handle       = [r \in Replays |-> Absent]
    /\ text         = [f \in Replays |-> {}]
    /\ published    = {}
    /\ overlapped   = FALSE
    /\ faults       = 0

\* A writer puts an object under the date, new or over an existing key.
PutObject ==
    /\ puts < MaxPuts
    /\ puts' = puts + 1
    /\ \E k \in Ranges : \E body \in Bodies(k.lo, k.hi) :
         bucket' = {x \in bucket : x.part # k.part \/ x.lo # k.lo \/ x.hi # k.hi} \cup
                   {[part |-> k.part, lo |-> k.lo, hi |-> k.hi, body |-> body]}
    /\ UNCHANGED <<pc, refs, done, fileVars, overlapped, faults>>

Goto(r, label) == pc' = [pc EXCEPT ![r] = label]

Ended(r) == pc[r] \in {"waiting", "done", "failed", "killed"}

Acceptable(r) == Listing # {} /\ ValidRanges(r, Listing)

\* main: list and validate once before anything local is touched; --dry-run
\* stops here.
Preflight(r) ==
    /\ pc[r] = "waiting"
    /\ overlapped' = (overlapped \/ \E s \in Replays : ~Ended(s))
    /\ \/ Acceptable(r) /\ Goto(r, "checking")
       \/ Acceptable(r) /\ Goto(r, "done")
       \/ ~Acceptable(r) /\ Goto(r, "failed")
    /\ UNCHANGED <<bucketVars, refs, done, fileVars, faults>>

\* output_path.exists() and not overwrite.
MayWriteAlways(r) == TRUE       \* mutant: --overwrite is not asked for
MayWrite(r) == output = Absent \/ r \in Overwriting

CheckOutput(r) ==
    /\ pc[r] = "checking"
    /\ Goto(r, IF MayWrite(r) THEN "listing" ELSE "failed")
    /\ UNCHANGED <<bucketVars, refs, done, fileVars, overlapped, faults>>

\* The references are complete: check their ranges, open the temporary file.
Begin(r, listing) ==
    IF listing # {} /\ ValidRanges(r, listing)
      THEN /\ refs' = [refs EXCEPT ![r] = listing]
           /\ temporary' = [temporary EXCEPT ![r] = << >>]
           /\ Goto(r, "heading")
      ELSE /\ refs' = [refs EXCEPT ![r] = {}]
           /\ Goto(r, "failed")
           /\ UNCHANGED temporary

\* The second listing is the one that is replayed; it fits into one page.
ListObjects(r) ==
    /\ pc[r] = "listing"
    /\ Begin(r, Listing)
    /\ UNCHANGED <<bucketVars, done, outputVars, manifestVars, overlapped, faults>>

\* A listing of more keys than a page holds is several requests.  The pages
\* are in the order of the keys, which is that of the offsets, and the last
\* one continues behind the keys the run has.
ListFirstPage(r) ==
    /\ pc[r] = "listing"
    /\ \E last \in Listing :
         refs' = [refs EXCEPT ![r] = {x \in Listing : x = last \/ Before(x, last)}]
    /\ refs'[r] # Listing
    /\ Goto(r, "paging")
    /\ UNCHANGED <<bucketVars, done, temporary, outputVars, manifestVars,
                   overlapped, faults>>

NextPage(r) == {x \in Listing : \A y \in refs[r] : Before(y, x)}

ListLastPage(r) ==
    /\ pc[r] = "paging"
    /\ Begin(r, refs[r] \cup NextPage(r))
    /\ UNCHANGED <<bucketVars, done, outputVars, manifestVars, overlapped, faults>>

\* A process that ends has no references and no open file any more.
End(r, label) ==
    /\ Goto(r, label)
    /\ handle' = [handle EXCEPT ![r] = Absent]
    /\ refs' = [refs EXCEPT ![r] = {}]
    /\ done' = [done EXCEPT ![r] = {}]

\* except Exception: unlink the temporary file, raise.
CleanUp(r) == temporary' = [temporary EXCEPT ![r] = Absent]
FailWithoutCleanUp(r) == End(r, "failed") /\ UNCHANGED temporary     \* mutant
Fail(r) == End(r, "failed") /\ CleanUp(r)

HeadObject(r) ==
    /\ pc[r] = "heading"
    /\ IF SizeUnchanged(Current(r))
         THEN Goto(r, "reading") /\ UNCHANGED <<refs, done, temporary, handle>>
         ELSE Fail(r)
    /\ UNCHANGED <<bucketVars, outputVars, manifestTemp, manifest, text,
                   overlapped, faults>>

ReadObject(r) ==
    LET ref == Current(r)
        x   == ObjectAt(ref)
    IN  /\ pc[r] = "reading"
        /\ IF BodyValid(x)
             THEN /\ temporary' = [temporary EXCEPT ![r] = @ \o RowsOf(x)]
                  /\ done' = [done EXCEPT ![r] = @ \cup {ref}]
                  /\ Goto(r, IF refs[r] = done'[r] THEN "replacing" ELSE "heading")
                  /\ UNCHANGED <<refs, handle>>
             ELSE Fail(r)
        /\ UNCHANGED <<bucketVars, outputVars, manifestTemp, manifest, text,
                       overlapped, faults>>

ReplaceOutputOnly(r) ==         \* mutant: no manifest for a second run
    /\ pc[r] = "replacing"
    /\ output' = [rows |-> temporary[r], by |-> r, refs |-> refs[r]]
    /\ published' = published \cup {r}
    /\ CleanUp(r)
    /\ Goto(r, IF manifest = Absent THEN "describing" ELSE "done")
    /\ UNCHANGED <<bucketVars, refs, done, manifestVars, overlapped, faults>>

\* os.replace of the output.
ReplaceOutput(r) ==
    /\ pc[r] = "replacing"
    /\ output' = [rows |-> temporary[r], by |-> r, refs |-> refs[r]]
    /\ published' = published \cup {r}
    /\ CleanUp(r)
    /\ Goto(r, "describing")
    /\ UNCHANGED <<bucketVars, refs, done, manifestVars, overlapped, faults>>

\* write_json_atomic opens its temporary file, whose name has no run id: a
\* new file, or the one another run left there or is writing, cut to nothing.
OpenForAppending(r) ==          \* mutant: the file found there is not cut
    /\ IF manifestTemp = Absent
         THEN manifestTemp' = r /\ handle' = [handle EXCEPT ![r] = r]
         ELSE handle' = [handle EXCEPT ![r] = manifestTemp] /\ UNCHANGED manifestTemp
    /\ UNCHANGED text
OpenForWriting(r) ==
    IF manifestTemp = Absent
      THEN /\ manifestTemp' = r
           /\ handle' = [handle EXCEPT ![r] = r]
           /\ UNCHANGED text
      ELSE /\ handle' = [handle EXCEPT ![r] = manifestTemp]
           /\ text' = [text EXCEPT ![manifestTemp] = {}]
           /\ UNCHANGED manifestTemp

OpenManifest(r) ==
    /\ pc[r] = "describing"
    /\ OpenForWriting(r)
    /\ Goto(r, "filling")
    /\ UNCHANGED <<bucketVars, refs, done, temporary, outputVars, manifest,
                   overlapped, faults>>

\* write_text writes from the start: over a longer text that another run has
\* written meanwhile, whose rest stays.
FillManifest(r) ==
    /\ pc[r] = "filling"
    /\ \E rest \in {{}, text[handle[r]]} :
         text' = [text EXCEPT ![handle[r]] = {r} \cup rest]
    /\ handle' = [handle EXCEPT ![r] = Absent]
    /\ Goto(r, "publishing")
    /\ UNCHANGED <<bucketVars, refs, done, temporary, outputVars, manifestTemp,
                   manifest, overlapped, faults>>

\* os.replace of the manifest moves whatever file has the temporary name, and
\* raises when another run has already moved it away.
ReplaceManifest(r) ==
    /\ pc[r] = "publishing"
    /\ IF manifestTemp = Absent
         THEN End(r, "failed") /\ UNCHANGED <<manifestTemp, manifest>>
         ELSE /\ manifest' = manifestTemp
              /\ manifestTemp' = Absent
              /\ End(r, "done")
    /\ UNCHANGED <<bucketVars, temporary, outputVars, text, overlapped, faults>>

\* A call raises: the run cleans up if it is copying, and exits 1.
CallFails(r) ==
    /\ ~Ended(r)
    /\ faults < MaxFaults
    /\ faults' = faults + 1
    /\ Fail(r)
    /\ UNCHANGED <<bucketVars, outputVars, manifestTemp, manifest, text, overlapped>>

\* A crash or a keyboard interrupt, which is no Exception: nothing is removed.
Killed(r) ==
    /\ ~Ended(r)
    /\ faults < MaxFaults
    /\ faults' = faults + 1
    /\ End(r, "killed")
    /\ UNCHANGED <<bucketVars, temporary, outputVars, manifestTemp, manifest, text,
                   overlapped>>

Step(r) ==
    \/ Preflight(r)
    \/ CheckOutput(r)
    \/ ListObjects(r)
    \/ ListFirstPage(r)
    \/ ListLastPage(r)
    \/ HeadObject(r)
    \/ ReadObject(r)
    \/ ReplaceOutput(r)
    \/ OpenManifest(r)
    \/ FillManifest(r)
    \/ ReplaceManifest(r)

Next ==
    \/ PutObject
    \/ \E r \in Replays : Step(r)
    \/ \E r \in Replays : CallFails(r)
    \/ \E r \in Replays : Killed(r)

Spec == Init /\ [][Next]_vars

-----------------------------------------------------------------------------
(* Properties *)

\* Every variable has its type.
TypeOK ==
    /\ bucket \subseteq Object
    /\ puts \in 0..MaxPuts
    /\ pc \in [Replays -> {"waiting", "checking", "listing", "paging", "heading",
                           "reading", "replacing", "describing", "filling", "publishing",
                           "done", "failed", "killed"}]
    /\ refs \in [Replays -> SUBSET ObjectReference]
    /\ done \in [Replays -> SUBSET ObjectReference]
    /\ DOMAIN temporary = Replays
    /\ \A r \in Replays : temporary[r] = Absent \/ temporary[r] \in Seq(Row)
    /\ output = Absent \/ output \in File
    /\ manifest \in Replays \cup {Absent}
    /\ manifestTemp \in Replays \cup {Absent}
    /\ handle \in [Replays -> Replays \cup {Absent}]
    /\ text \in [Replays -> SUBSET Replays]
    /\ published \subseteq Replays
    /\ overlapped \in BOOLEAN
    /\ faults \in 0..MaxFaults

\* A row for every offset of every object listed ...
Covers(rows, listing) ==
    {<<rows[i].part, rows[i].off>> : i \in DOMAIN rows} =
        UNION {{x.part} \X (x.lo..x.hi) : x \in listing}

\* ... each once, in the order of partition and offset.
Sorted(rows) ==
    \A i, j \in DOMAIN rows : i < j =>
        \/ rows[i].part < rows[j].part
        \/ rows[i].part = rows[j].part /\ rows[i].off < rows[j].off

\* The output file is always a whole replay (replay_bronze.py:636-706) of one
\* accepted listing, although objects are put, overwritten and doubled while
\* the run reads.
OutputComplete ==
    output # Absent => Covers(output.rows, output.refs) /\ Sorted(output.rows)

\* A run without --allow-gaps leaves an output whose offsets have no hole, in
\* no partition, between the first and the last one.
OutputContiguous ==
    (output # Absent /\ output.by \notin AllowingGaps) =>
        \A i, j \in DOMAIN output.rows : \A o \in output.rows[i].off..output.rows[j].off :
            output.rows[i].part = output.rows[j].part =>
                \E k \in DOMAIN output.rows :
                    output.rows[k].part = output.rows[i].part /\ output.rows[k].off = o

\* A temporary file outlives its run only if the run was killed
\* (replay_bronze.py:708-712).
TemporaryRemoved ==
    \A r \in Replays :
        temporary[r] # Absent => pc[r] \in {"heading", "reading", "replacing", "killed"}

\* As long as runs do not overlap in time, the manifest in place describes the
\* output in place, unless the run that wrote the output is still at it or was
\* stopped between the two os.replace calls (replay_bronze.py:703, 584).
ManifestDescribesOutput ==
    (output # Absent /\ ~overlapped) =>
        \/ manifest # Absent /\ text[manifest] = {output.by}
        \/ pc[output.by] \in {"describing", "filling", "publishing", "failed", "killed"}

\* As long as runs do not overlap in time, the manifest in place is the whole
\* text of one run, whatever an earlier run that was stopped has left under
\* the temporary name (replay_bronze.py:558-587).
ManifestWhole ==
    (manifest # Absent /\ ~overlapped) => Cardinality(text[manifest]) = 1

\* As long as runs do not overlap in time, an existing output is replaced only
\* by a run that was told to overwrite (replay_bronze.py:605).
OverwriteIsAsked ==
    [][(output # Absent /\ output' # output /\ ~overlapped) =>
           output'.by \in Overwriting]_output

SameKey(x, y) == x.part = y.part /\ x.lo = y.lo /\ x.hi = y.hi

\* What the proofs need beside the properties.  The bucket has one object per
\* key, a listing one reference per key ...
OnePerKey(S) ==
    /\ IsFiniteSet(S)
    /\ \A x \in S : x.lo <= x.hi
    /\ \A x, y \in S : SameKey(x, y) => x = y

\* ... whose object may change but does not go away ...
ListingsAreSound ==
    /\ OnePerKey(bucket)
    /\ \A r \in Replays :
         /\ OnePerKey(refs[r])
         /\ \A ref \in refs[r] : \E x \in bucket : SameKey(x, ref)

\* ... a run that is copying has accepted its listing and has copied the objects
\* that come first in it, each with one row per offset ...
CopyIsSound(r) ==
    /\ pc[r] \in {"waiting", "checking", "listing", "paging"} => done[r] = {}
    /\ pc[r] \in {"heading", "reading", "replacing"} =>
         /\ refs[r] # {} /\ ValidRanges(r, refs[r])
         /\ done[r] \subseteq refs[r]
         /\ done[r] = refs[r] <=> pc[r] = "replacing"
         /\ \A x \in done[r], y \in refs[r] \ done[r] : Before(x, y)
         /\ temporary[r] \in Seq(Row)
         /\ Covers(temporary[r], done[r])
         /\ Sorted(temporary[r])
CopiesAreSound == \A r \in Replays : CopyIsSound(r)

\* ... and the output in place is such a copy that was finished.
OutputIsSound ==
    output # Absent =>
        /\ OnePerKey(output.refs)
        /\ output.refs # {}
        /\ ValidRanges(output.by, output.refs)
        /\ Covers(output.rows, output.refs)
        /\ Sorted(output.rows)

BeforeOutput == {"waiting", "checking", "listing", "paging", "heading", "reading", "replacing"}
AfterOutput == {"describing", "filling", "publishing"}

\* A run has a manifest file only after it has replaced the output, and the file
\* in place is not the one that is being written.
FilesAreSound ==
    /\ \A r \in Replays :
         /\ pc[r] \in BeforeOutput => r \notin published
         /\ pc[r] \in AfterOutput => r \in published
         /\ pc[r] \in BeforeOutput \cup {"describing"} =>
              /\ text[r] = {} /\ manifest # r /\ manifestTemp # r
              /\ \A s \in Replays : handle[s] # r
         /\ pc[r] = "filling" => handle[r] # Absent
         /\ text[r] \subseteq published
    /\ manifest # Absent => manifest # manifestTemp

\* As long as runs do not overlap, one run at most is under way; it found no
\* output or was told to overwrite it, and from its first os.replace to its
\* second the output and the file under the temporary name are its own.
RunsTakeTurns ==
    ~overlapped =>
        /\ \A r, s \in Replays : ~Ended(r) /\ ~Ended(s) => r = s
        /\ \A r \in Replays :
             /\ pc[r] \in BeforeOutput \ {"waiting", "checking"} => MayWrite(r)
             /\ pc[r] \in AfterOutput => output # Absent /\ output.by = r
             /\ pc[r] = "filling" => handle[r] = manifestTemp /\ text[manifestTemp] = {}
             /\ pc[r] = "publishing" => manifestTemp # Absent /\ text[manifestTemp] = {r}
        /\ manifest # Absent => \E r \in Replays : text[manifest] = {r}

\* The inductive invariant: whatever is put and whoever stops when, a run's files
\* and its place in the code agree with the listing it has accepted.
ReplayInv ==
    /\ TypeOK
    /\ ListingsAreSound
    /\ CopiesAreSound
    /\ OutputIsSound
    /\ TemporaryRemoved
    /\ FilesAreSound
    /\ RunsTakeTurns
    /\ ManifestDescribesOutput

\* The runs keep the abstract promise, overlapping or not.
Atomic == INSTANCE AtomicReplay WITH
    Runs      <- Replays,
    NoOutput  <- Absent,
    described <- IF manifest = Absent THEN {} ELSE text[manifest]
ImplementsAtomicReplay == Atomic!Spec

=============================================================================
