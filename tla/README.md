# Verification of the retail lakehouse pipeline

TLA+ modules, TLC configurations and TLAPS proofs for the parts of this
repository that hold state or decide something: the synthetic event producer,
the Kafka-to-S3 Bronze writer, the Bronze replay script and the Silver
validation.  Every definition was read off the Python source; `PROJECT.json`
gives, for each of them, the file and the lines it stands for.

## 1. Inventory

The pipeline is `producer -> Kafka topic -> Bronze objects -> (replay) / Silver`.

| Component | Source | State it keeps | Operations |
|---|---|---|---|
| Event generator | `producer/bad_event_generator.py`, `producer/config.py` | scenario plan, list of records | plan and shuffle, build a record, insert a duplicate, length check |
| Event schema | `producer/schemas.py` | none | accept an event, cross-field rules, serialise |
| Event producer | `producer/event_producer.py` | the client's local queue, delivery counts, position in the dataset | produce, retry on a full queue, poll, flush, exit code, `--dry-run` |
| Kafka topic | external | partition logs, group generation, committed offsets | append, retention, rebalance, offset fetch, commit |
| Consumer wrapper and console | `ingestion/kafka_consumer.py` | subscription, position | subscribe, poll, commit synchronously, close; the console only polls |
| Bronze writer | `ingestion/bronze_writer.py` | buffer, counter, idle and batch clocks, the batch's context | poll, flush, put one object per partition, verify it by HEAD, commit, close |
| Bronze metadata | `ingestion/bronze_metadata.py` | none | envelope, best-effort parse of the payload |
| Object store | external | objects by key | put, head, get, list |
| Bronze replay | `scripts/replay_bronze.py` | references, temporary file, output, manifest | preflight, list, check ranges, HEAD, GET and validate, replace output, publish manifest |
| Validation rules | `quality/validation_rules.py` | none | decode, parse, an ordered list of checks |
| Silver transform | `processing/silver_transform.py` | none | validate each row, split into valid and invalid candidates |
| Silver/Gold/DLQ jobs, DAG, dashboards, benchmark | `processing/*`, `orchestration/*`, `monitoring/*`, `benchmark/*` | none | files that are empty or placeholders at this commit |

**Interactions.**  The producer and the writers share only the topic.  Writers
share the consumer group (and so the committed offsets) and the bucket.  Console
consumers use the same default group id and never commit.  Replay runs share
with writers the bucket, which they only read, and with one another the output
path, the manifest path and the manifest's temporary name.  Silver reads the
payload bytes that Bronze stored.

**Hard behaviour.**  Rebalances while records are buffered (the assignment
callbacks only log); a fault between put and commit; two writers that put the
same key; a commit whose answer is lost or that fails for some partitions; a
put that stored its object and still reports failure; retention overtaking the
group; midnight between a batch and its repetition; objects overwritten between
LIST, HEAD and GET; two replay runs on one path; a full local queue, expired
messages and lost acknowledgements in the producer; insertions that move the
records they refer to; the order of some twenty validation checks.

**What makes each component correct.**

- Writer: below a committed offset nothing is missing from verified objects,
  except what retention deleted unread; no later put takes it away; every record
  gets there in the end.
- Replay: the output is one whole accepted listing, in order, never a mixture of
  a failed and a successful copy; no temporary file is left by a run that failed.
- Producer: exit code 0 means the whole dataset is in the topic, in order, once.
- Generator: exactly the planned mix; each copy behind its original.
- Validation: each scenario ends in the branch it was made for; what the schema
  accepts, the validator accepts; the reason is the one of highest priority.

`PROJECT.json` lists each hazard at the line where it bites with the properties
that cover it.

## 2. Modules and how they correspond to the code

### `BronzeIngestion` (and `AtLeastOnce`)

One module for the writers, the console consumers, the group and the bucket,
because the interesting failures are between them.

| Variable | Code |
|---|---|
| `pc` | where a process is: `down`, in `poll_record` (`polling`), in `put_object` (`putting`), in `head_object` (`verifying`), in `commit_offsets` (`committing`) |
| `buffer`, `consumed`, `stopping` | `buffer`, `consumed_count`, and whether the loop ends after this flush |
| `flushDate`, `written` | `processing_date` of the batch's context, partitions already written in this `write_batch` |
| `position`, `owner`, `group`, `committed` | the client's positions, the assignment, the generation's members, the group's offsets |
| `store` | the objects, at most one per key |
| `verified`, `skipped`, `rewound`, `overtaken` | history: offsets in an object whose HEAD matched; offsets deleted before they were read; whether a commit has moved a committed offset back; whether a rebalance has met a buffer that held records |

Each network call of `flush_buffer` is a step of its own (`PutObject`,
`VerifyObject`, `CommitOffsets`), since other processes run between them; the
code between two calls is inside a step.  `PollRecord` appends, counts and begins
the flush in one step because nothing happens in between.  `PollNone` is the
branch of `consume_and_write_bronze` where `poll` returned nothing:
`batch_wait_seconds` or the idle timeout may have passed.  All ways a process
ends go through `Close`, the `finally` block.

The coordinator checks a commit's generation, not the ownership of its
partitions, so a writer that kept its buffer across a rebalance may still
commit.  Any member, also the only one, may drop out of its group while it is
running (`LoseMembership`, a fault of the model): `session.timeout.ms` pass in a
pause or an outage, `max.poll.interval.ms` in a long flush, or the topic gets
partitions.  Inside a flush it delays the rebalance until then and its commit is
refused; while it polls it joins again with its buffer as it was and its
position back at the committed offset, since `on_revoke` and `on_lost` only log.
`overtaken` remembers that some rebalance, of this or another origin, met a
buffer with records: from then on a record can be read twice.  A failed put,
HEAD or commit ends the process; a failed put may have stored the object; a
failed commit may have committed any subset.

`AtLeastOnce` is what the component promises with no writer in it: offsets are
acknowledged only when everything below them is durable.  `ImplementsPromise`
is the refinement, with `durable = verified \cup skipped`.

### `BronzeReplay` (and `AtomicReplay`)

Runs of `replay_bronze.py` on one date.  `Preflight` is the listing in `main`
that also serves `--dry-run`; `CheckOutput` is `output_path.exists()`;
the second listing is `ListObjects` when one page holds it and `ListFirstPage`,
`ListLastPage` when it takes several requests; `HeadObject` and `ReadObject`
alternate over the sorted references; `ReplaceOutput` and `ReplaceManifest` are
the two `os.replace` calls.  `PutObject` is the writers' side: an object covers a
range, its body has rows for some offsets of it, both ends included (retention
can overtake a batch), and perhaps rows repeated, `MaxRepeats` at most (a rebalance
in the middle of a batch).  `overlapped` is a history variable that tells whether two runs were ever
under way together.

The manifest's temporary name has no run id, so the files behind the names are
modelled: `manifestTemp` and `manifest` say which file a name leads to, `handle`
which file a run has open, `text` whose text a file holds.  `write_json_atomic`
is three steps: `OpenManifest` cuts what it finds under the temporary name,
`FillManifest` writes, `ReplaceManifest` moves whatever has the name by then.

`AtomicReplay` is what a reader of the two files is promised: the output changes
only as a whole, each time to the complete replay of one listing, and a manifest
never names a run that has not published.  `ImplementsAtomicReplay` is the
refinement, and holds of overlapping runs too.

### `BronzeLake`

The writers of `BronzeIngestion` and replay runs of `BronzeReplay` on one bucket.
The module extends the first and instantiates the second with `bucket` replaced
by the writers' own objects of `ReplayDate`, so that the environment
`BronzeReplay` invents is exchanged for the one the code has; `BodiesAsAssumed`
says that the invented one covers it, with `MaxRepeats` read as `BatchSize`.  A step belongs to one side and leaves the
other's variables alone, except for the bucket, which replay only reads, and the
common bound on faults.  `owed` is history: the offsets that were committed when
a run began its listing.

### `EventGenerator`, `EventProducer`, `ProducerRun`

`EventGenerator` turns rates, given in fractions of `Scale`, into scenario counts:
`RateCount` is `int(volume * rate)`, with `Truncated` naming the rates whose
binary product falls just below a whole number.  Then every shuffle, every
original and every place for a copy is possible: the seeded generator becomes a
nondeterministic choice.  `EventProducer` has the calling thread (`Produce`,
`QueueFull`, `Poll`, `FlushServes`, `FlushReturns`), the delivery tracker, and
as external steps the broker's append, its acknowledgement and the client's
message timeout.  Reports are served only inside `poll` and `flush`, as in the
code; `flush` may return with reports nobody served, and a request that is under
way may be carried out after the process has exited.  `OrderedPublication` is
the abstract promise (each partition gets records of the dataset in its order,
none twice, and success means that none is missing), `ImplementsPublication` the
refinement.  `ProducerRun` extends the generator and instantiates the producer,
the way `main` calls them.

### `SilverValidation`

One payload from the topic to a Silver branch: `Ingest` notes Bronze's parse
status, `Transform` runs the validator and flattens a valid event into its text
columns.  `IngestFails` and `TransformFails` are the payloads on which
`json.loads` raises something else than `JSONDecodeError` (an integer of too many
digits always, a deep nesting perhaps) or which the JSONL encoding refuses: the
writer is stuck, or the whole Spark job ends.  A field's value is its class (absent,
null, blank, a non-string, a string the field refuses, an accepted one), which is
what the checks and the columns tell apart.  `Checks` is the ordered list of the code;
`Catalogue` is the independent table of `docs/data_quality.md`, section 7.  An empty
string is missing in it (line 279), except in a common field and in `payment_id`,
where the table calls it a wrong value (lines 338, 344, 509-513).

### Proof and model-checking modules

| Module | Extends | Proves |
|---|---|---|
| `BronzeIngestion_proofs` | `BronzeIngestion` | types, `CommittedIsVerified`, refinement of `AtLeastOnce` |
| `BronzeStorage_proofs` | the former | `StoreInv`, `CommittedIsStored` |
| `BronzeBatches_proofs` | the former | what a batch owes to those committed before it: `NoReread`, `ObjectsReplayable`, `CommittedStaysStored` up to the first rebalance over a filled buffer; `OverlapNeedsFault` |
| `BronzeReplay_proofs` | `BronzeReplay` | types, all safety and action properties, refinement of `AtomicReplay` |
| `BronzeLake_proofs` | `BronzeLake`, `BronzeBatches_proofs`; `BronzeReplay_proofs` instantiated | all properties of the composition |
| `EventProducer_proofs` | `EventProducer` | types, all safety properties, refinement of `OrderedPublication` |
| `ProducerRun_proofs` | `ProducerRun` | all safety properties of the generator and of the whole run, what exit code 0 means for the mix |
| `SilverValidation_proofs` | `SilverValidation` | all its invariants, for all events |

The inductive invariants `IngestionInv`, `StoreInv`, `ReplayInv` and `ProducerInv`
stand in the modules they are about, beside the properties, and the runs check
them too.  `GeneratorInv` also stands in its module; those of
`BronzeBatches_proofs`, which speak of what holds up to a rebalance or of a lone
writer, of `BronzeLake_proofs` and `ProducerRun_proofs`, which join two modules,
and of `SilverValidation_proofs` stand with their proofs, and the conjuncts that
are about the bucket of `BronzeLake` (`OneObjectPerKey`, `OneRowPerOffset`,
`BatchesAreBounded`, `OwedInv`, `NoHoles`, `DatesInOrder`, `ListedIsThere`) at the
end of that module.  The `MC_*` modules only give values to constants (sets of
events, configurations, partitioners), and one of them the constraint of
`stale_commit`.

## 3. Runs

| Run | Question | Instance |
|---|---|---|
| `single` | one writer with several partitions: at-least-once, and up to a rebalance over a filled buffer no second read and replayable objects | 2 partitions, batches of 2, 2 records each, `--max-messages` 3, midnight, 1 fault (also a lost membership), idle timeout |
| `two_writers` | two writers and a console taking a partition from each other; both inductive invariants of the proofs; refinement | 1 partition, batches of 2, 2 records, 1 expired, 1 fault; no idle timeout; symmetry of the writers, which differ only by name |
| `stale_commit` | violation: a buffer from before a rebalance is committed | 2 writers and a console, 1 partition, batches of 5, 4 records, no fault; a constraint |
| `liveness` | every record is committed and reaches Bronze | 1 writer, 2 partitions, retention, 1 fault, restarts |
| `poison_payload` | violation: a payload that cannot be serialised | its partition never moves on |
| `date_overlap` | violation: a fault and a restart | two overlapping objects under one date |
| `replay` | two replay runs, overlapping or not; the proof's inductive invariant; refinement | 2 partitions, 5 offsets, objects of up to 3 with at most one row repeated, 3 puts, 1 fault; listings of one or two pages; one run has `--overwrite` and `--allow-gaps` |
| `lake` | a replay run beside the writer whose objects it reads | 1 writer, 1 partition, batches of 2, 4 records of which the last cannot be serialised, 1 expired, 2 dates, 1 replay run, 1 fault of either side |
| `publish` | exit code, order, counts, termination; the proof's inductive invariant; refinement | 5 records on 2 partitions, queue of 2, 2 retries, 2 faults |
| `producer_run` | generation (mix, duplicates, termination) followed by publication | volume of 4, eight configurations of rates in eighths, 2 orders, queue of 2, 1 retry, 1 fault |
| `silver` | routing, agreement of schema, Bronze and Silver, columns | all generated payloads; all events with up to 2 fields off; seven kinds of payloads that are no event |
| `silver_priority` | violation: the catalogue of the documentation and its priority rule | the same events |

**Why the bounds are enough.**  Two records per partition and batches of two give
full, partial and mixed batches, and a restart can cut the same records in
another place.  In `two_writers` two records and a console are enough for a
buffer that outlives its assignment, a commit that goes back, a second read of
the same range and a put under a key that is there; what more records, members
or partitions might add is covered by the theorems, which have no bounds.
`stale_commit` needs a third member (the rebalance that makes a writer read
again with a record in its buffer) and four records (the hole lies between two
others, behind the offset that is committed last); its constraint
`StaleBufferCommitsLast` only cuts the search down to such behaviours, and a
behaviour that is found under a constraint is one of the specification.  One fault
reaches every single failure point in every interleaving; more crashes
only repeat restarts, each of which forgets everything but the committed offsets
and the bucket.  A lost membership is a fault too; what one leaves behind, a
second read into the same buffer, is in `single` and `lake`, and a rebalance that
needs none of them (a member joins) is in `two_writers`.  `two_writers` has one
partition: that a commit waits for the objects of *all* partitions of a batch is
checked in `single` (`CommittedIsStored`) and proved for any number.  The queue of two is full before the dataset ends, and the retry
limit of two is reached both with and without a report in between.  The rates of
`producer_run` include sums above one, products that are no whole number, a
truncated one, and configurations that leave nothing to copy.  In `lake` four
records give two batches and so two objects on one or two dates, with a restart,
an expired record or midnight between them while the replay is at any of its
steps; several partitions and two runs at once are in `single` and `replay`.  A check
involves at most two fields, so two defects show every pair of checks in the
wrong order.

`CHECK_DEADLOCK FALSE` is used everywhere because every program here ends, and
the bounded logs and puts run out.

**Fairness.**  `FairSpec` of `BronzeIngestion` is weak fairness of a running
writer's own calls (a poll returns records that are there, or times out; put, HEAD
and commit return), of the coordinator completing a rebalance, and of handing
out positions.  `RestartedSpec` adds that somebody starts a writer that ended,
which `docs/bronze_layer.md:34,72` takes for granted when it
says that records are read again once the consumer is restarted.  There is no
fairness on faults, on retention, on the producer or on the clock.
`RecordsGetCommitted` is checked for a single writer, and asks that a record gets
committed, not that it stays so: the commit of a stale buffer can move the offset
back.  In `EventProducer` only the calling thread is fair, never the broker:
`ProducerEnds` rests on the retry limit and on the flush timeout.  The generator
is a plain loop: `RunSpec` has weak fairness of its steps (`Generate`) and none of
the publication.

## 4. What the runs found

Each of these is in `PROJECT.json` with the line it contradicts:

- `poison_payload`: `bronze_metadata.py:5` says malformed payloads are never
  rejected in Bronze.  A JSON object with an unpaired surrogate in a metadata
  field makes the JSONL encoding raise; the batch fails before anything is
  stored, and again after each restart.
- `date_overlap`: after a fault between put and commit the successor may cut
  batches elsewhere; the two objects overlap and `validate_object_ranges`
  refuses that date from then on.
- `stale_commit`: `architecture.md:39` says that Bronze keeps raw immutable data.
  The callbacks of a rebalance only log, so a writer may commit a buffer whose
  partition it has lost, which moves the group's offset back.  The writer that
  reads the partition by then starts again from there when the next member
  joins, with a later record in its buffer; its batch {1, 3} makes an object
  whose key names the range from 1 to 3, and replaces the complete object of
  that key.  Then the commit covers offset 2, which is in no object any more.
  Each record was verified in Bronze once (`CommittedIsVerified` holds); as long
  as no commit goes back none of them goes away (`CommittedIsStored`), and no
  commit goes back before a rebalance has met a buffer that held records
  (`StoredForGood`).
- `silver_priority`, of which there are two findings.  TLC stops at an empty
  string: the catalogue gives an empty `order_id` `INVALID_REQUIRED_FIELD` and
  the empty `payment_id` of a payment `INVALID_PAYMENT_ID` (lines 338, 344,
  509-513), the code the reason of a missing one (`_is_missing`).  The document
  contradicts itself here, as its line 279 calls an empty string missing; what
  it means has to be decided there.  With `-continue` TLC also shows the second:
  the amount/currency pairing is checked before the amount and the currency,
  against the documented order of priorities.  A third, smaller one is that of a
  missing common field and another of a wrong type the code reports whichever
  comes first in its list.  `ReasonHasPriorityElsewhere` says that
  outside these the reason is the catalogue's.

Seen while modelling, not given a run of their own:

- A rebalance in the middle of a batch leaves the buffer and moves the position
  back to the committed offset.  So a batch can be [0, 1, 0, 1]: its object holds
  offsets twice and replay refuses it; or a batch [0, 1, 2, 0] is committed and a
  batch [1] after it moves the committed offset back and is read again.  It takes
  no second member: a lone writer that is paused for longer than its session
  timeout, or whose topic gets partitions, goes through the same (see
  `LoseMembership`).  `docs/bronze_layer.md:453` lists rebalance-aware flushing
  as future work, so `NoReread` and `ObjectsReplayable` are stated up to the
  first such rebalance (`~overtaken`).
- Two replay runs at once both pass the existence check and the later one
  replaces the output without `--overwrite`; the manifest in place may then
  describe the other run, be empty or hold parts of two texts, and a run can
  fail at the end because the other one has moved the temporary file away.  This
  is why `OverwriteIsAsked`, `ManifestDescribesOutput` and `ManifestWhole` assume
  that runs did not overlap.  Two runs at once under the same `--run-id` would
  share the output's temporary file as well; the model gives each its own.
- Objects are read one by one without version ids, so an output can hold
  versions that were never in the bucket at the same moment.
- An amount that is a blank string counts as missing, so an event that is no
  payment, with a blank amount and no currency, is valid.
- A valid event that is no payment may have a `payment_id` that is no string; in
  Silver the column holds the text `from_json` makes of it
  (`ColumnsAreValidated` excepts just this).
- A producer run that exits 1 or 130 may nevertheless have appended records, and
  some of them may be appended after its end.
- `int(volume * rate)` truncates a binary product (`100 * 0.29` gives 28): a
  scenario may get one record less than its exact share, and an ordinary valid
  record takes the place (`MixAsConfigured`).
- A payload nested so deep that the writer's `json.loads` just manages it can
  still end the whole Spark job; it is the only such payload that Bronze lets
  through (`BronzeShieldsSilver`).

## 5. Proofs

Every theorem is about the specification (`Spec`, `RunSpec`, `LakeSpec`) and so about every
reachable state, for any value of the constants that the assumptions allow.  The
assumptions are those the modules name: `MembersAssumption`, `ConfigAssumption`
and `BoundsAssumption` (members are no model value used for nobody, batches are
not empty, bounds are numbers), `ReplayAssumption`, `ReplayBounds` and
`AbsentAssumption`, `LakeAssumption` and `NoOutputAssumption` (the same of the
replay runs of the composition), `ProducerAssumption` and `DatasetAssumption` (every record
has an order, every order a partition), `GeneratorAssumption` and
`RunAssumption`.  Three theorems have hypotheses of their own, which the code does
not guarantee: nothing expired (`MaxExpired = 0`) for `EveryObjectIsReplayable`,
and `Writers = {w}`, no console (`Alone`) and no payload that cannot be serialised
(`Poison = {}`) for `OverlapTakesAFault` and `AloneDateIsReplayable`.  TLC finds each conclusion violated where the one about retention
or about payloads is dropped: a batch with an expired record leaves an object with a hole, and
a payload that raises in one partition makes the writer put the other partition's
records again, cut in another place.

**Writers** (`BronzeIngestion_proofs`: `TypeCorrect`,
`CommittedOffsetsAreVerified`, `Refinement`).  `CommittedIsVerified` alone does
not survive a commit: it says nothing of the batch a commit covers.  A commit
sets a partition's offset after the last record of the batch, so everything
below that record must be accounted for, also the part the batch does not hold,
and also if the partition now belongs to somebody else.  `NoHoleBelowBuffer` says
just that of every buffer, stale or not; it is kept because `verified` and
`skipped` only grow.  A polled record extends the buffer without a hole because
of `NoHoleBelowPosition`, which in turn holds after a rebalance because a
position starts at the committed offset (`CommittedIsVerified`) and is lost with
the assignment.  `FlushProgress` says that a batch being committed has all its
groups verified.  `NothingInvented` and `BufferedIsBounded` are what the
refinement and the type of an object's range need.  The proof has one lemma per
action; all the ways a process ends share `CloseKeepsIngestionInv`.

**Storage** (`BronzeStorage_proofs`: `CommittedRecordsAreStored`).  A key names
the first and the last offset of a batch, so a put may replace an object, and a
batch with a hole may replace a complete one.  The theorem says that this never
takes a committed record away as long as no commit went back; without that
condition it is false (`stale_commit`).  The argument (`StoreInv`): an object is
replaced only by one with the same end, so what a committed offset rests on is
looked for in objects that end *before* it (`KeptBefore`).  A hole of a batch lies
before the batch's end and, as nothing that was read is forgotten without being
committed (`UncommittedIsBuffered`), the offsets of the hole were committed
before, and so are in an object with an earlier end (`HolesAreKept`), which this
put leaves alone.  One lemma per action; `CommitOffsets` uses the condition.

**Batches** (`BronzeBatches_proofs`).  Until a rebalance meets a buffer that holds
records, and whatever else happens, a buffered record lies between the committed
offset and the position, its writer still owns the partition, and no commit has
gone back (`FreshInv`): a rebalance that finds all buffers empty takes nothing
from anybody, and everything else that takes a partition away empties the buffer
with it.  From that, for any number of writers and consoles, `NoReread` and
`StoredForGood`.  Without retention the buffer is moreover a run of consecutive
offsets, each read once (`RunsInv`), hence `EveryObjectIsReplayable`.  The condition
`~overtaken` is a limit of the code and not of the proof: a writer that loses its
membership while it polls keeps its buffer and reads it again, also a lone one.
For a lone writer it takes a fault to lose its membership (`SingleInv`), so
`OverlapTakesAFault` needs no such condition: its ranges overlap only when a
batch is cut anew after a fault.

**Replay** (`BronzeReplay_proofs`: five safety theorems, `OverwriteWasAsked`,
`Refinement`).  The first part is about listings: a finite set of keys in which
neighbours do not overlap, which is all that `validate_object_ranges` looks at,
has no two keys that overlap, so the rows of all objects, one after the other, are
sorted and have each offset once.  The second part is the invariant: what was
listed stays one object per key although bodies change, the temporary file is the
concatenation of the objects that are done and those come first in the listing,
and `FilesAreSound` follows the manifest's two names through every order in which
overlapping runs open, fill and move the same file.  `RunsTakeTurns` has what
needs the condition that no two runs overlapped.

**The lake** (`BronzeLake_proofs`).  The proof instantiates
`BronzeReplay_proofs` with the writers' bucket (`Copy`).  Replay changes nothing a
writer sees but the number of faults, so the writers' invariants are kept.  What a
writer does to the objects of the date takes no key away and leaves one object per
key, which is all the runs' invariant asks of its environment, so that is kept
as well (`LakeInvHolds`).  What is committed when a listing begins is stored
(`KeptIsStored`), hence under a listed key or behind the first page, where the
second finds it, since pages come in the order of keys and no key goes away
(`OwedIsListed`); the output covers every range of its listing.  So
`ReplayBringsBackCommitted` holds for any number of writers, batches, replays and
faults unless a commit went back (`~rewound`, which `stale_commit` shows can
happen), and so as long as no rebalance has met a filled buffer (`StoredForGood`).
That the bodies are those `BronzeReplay` assumes holds of every group, whatever was
read twice (`WritersLeaveBodiesAsAssumed`): a batch grows by one record at a time and
is flushed when it has `BatchSize` of them (`BatchInv`), so an object repeats no more
rows than that.  The replay theorems do not rest on it, for their invariant lets a
put store any body.

`AloneDateIsReplayable` says that no step of a run ends it as long as nothing has
failed, whatever point of a batch its listing meets.  Its invariant `GoodInv` adds
what makes a date acceptable: the writer holds all from the committed offset to
its position and cuts it into objects that follow one another (`NoHoles`), whose
dates follow their offsets as the clock does not go back (`DatesInOrder`), so that
offsets between two objects of one date are in objects of that date
(`DateHasNoHole`); a put adds an object behind all others of its partition, so
what was listed is still there with its size (`ListedIsThere`), and the two pages
together leave out no key between two others (`PagesLeaveNothingOut`).
`validate_object_ranges`, the comparison of sizes and the check of each row then
have nothing to refuse.  The condition `~overlapped` is needed for the last call: a
run whose manifest another run has moved away fails without any fault.

**Publication** (`EventProducer_proofs`).  The three counts of the code are the
cardinalities of the records in the corresponding states, whoever served the
report.  The topic's order survives retries because a record is never appended
behind one of its partition that is still to come (`TopicIsSound`).  Exit code 0
needs all three counts, and then leaves no record that is not in the topic.

**Generation and the whole run** (`ProducerRun_proofs`).  The records that are no
copies correspond one to one, in order, to the places of the plan
(`RecordsFollowPlan`); `InsertAt` moves records but keeps their order, so a copy
inserted behind its original stays behind it.  The exchange of two places keeps
the plan's counts, and lemmas about the integer division bound what truncation
takes from each scenario, however rates are chosen.  The producer's theorems are
instantiated (`Published`), and its invariant and the generator's are shown to be
kept together by the steps of `main`.  An original comes before its copy in the
dataset and has its key, hence its partition; so in the topic it comes before it
or its delivery failed.  `ExitZeroPublishesTheMix` joins the two halves: exit code
0 means that the configured mix is in the topic, record for record.

**Validation** (`SilverValidation_proofs`).  The runs have events with two fields
off; the theorems have no such bound, so three or more defects, and every pair of
an accepted event with any other field, are covered.  `FirstBrokenOfJoin` (the
first broken check of two lists) reduces the list of 28 checks to one conditional,
`ReasonOfEvent`, and that to the contract `Conforms`, which knows no order
(`EventIsValid`).  From the contract follow what the schema accepts, what a valid
candidate has and which columns may be coerced.  For the priorities, the catalogue
is listed as a relation of priority and condition (`CatalogueIs`), and the smallest
priority that holds is shown to be the reason, list of checks by list of checks.

**Only model-checked.**  Liveness under fairness (`RecordsGetCommitted`,
`RecordsReachBronze`, `ProducerEnds`, `AcceptedIsGenerated`) and enabledness are
outside the prover.  The properties of the four violation runs are false, and are
shown so by TLC.

## 6. Not modelled

- Spark's execution, the typed Silver columns and their write modes.
- Base64, UTF-8, JSON, date and decimal parsing: their outcomes are classes.
- Values of generated fields, skewed key choice.
- The text of a field that holds half a surrogate pair on its way from the
  validator's UDF to Spark: what becomes of it is decided outside the repository.
- Key layout and `--topic` of the replay, checksums of the output (a body is
  compared as a sequence of rows), logging, argument parsing.
- Creation of topics and buckets, the database script, schema export: start-up
  scripts that run alone before the pipeline and whose only object, the smoke
  test's, lies under a key no other component reads.  In the modules the topic
  and the bucket exist.
- The pages of the listing in `main`, which only decides whether a run starts
  (those of the listing that is replayed are modelled).
- Deduplication, DLQ, Gold, orchestration, monitoring: empty at this commit.

## 7. Plan

Done, in this order: `AtLeastOnce`, `BronzeIngestion` and its proofs,
`BronzeReplay`, `EventProducer`, `EventGenerator`, `ProducerRun`,
`SilverValidation`; then the abstract specifications `AtomicReplay` and
`OrderedPublication`, the manifest's files and the pages of a listing in
`BronzeReplay`, the rates of `EventGenerator`, the failures and columns of
`SilverValidation`, and the composition `BronzeLake`.

Then the proofs, in this order: the writers' promise, what the bucket keeps,
batches, replay, publication, generation with the whole producer run,
validation, and the composition of writers and replay; after that lost
memberships, and with them the batches of any group in place of those of a lone
writer.

Next: what a group of several writers keeps of `NoHoles` and `DatesInOrder`, so
that `AloneDateIsReplayable` might hold of it between rebalances.
