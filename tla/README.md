# Verification of the mainframe → Target migration

TLA+ models, TLC runs and TLAPS proofs about the migration lane in this
repository: what happens to a source record between the extractor's bundle and
the balance gate when pods die, jobs keep writing, messages come twice and
operators clear tasks.

The reference is the source. Every definition that stands for code names its
lines in `PROJECT.json` (`map`), and each run, mutant, finding, hazard and
theorem is listed there.

## 1. The system

One migration run, identified by a run id, goes through these parts.

| part | source | state it keeps | operations | interacts by |
|---|---|---|---|---|
| Extractor | `apps/extractor-app` | none | split the extract, write `.CHS .ERR .RPT`, encrypt the bundle, write `.FLG` last | landing bucket |
| File Processor | `pipelines/file_processor` | rows of the run in `account_src`, `reject_log`, `record_lineage`, `run_ledger` | purge, verify and read the bundle, parse, append rows, replace the ledger row | BigQuery, recon bucket |
| Dataform | `local/scripts/run_dataform.py`, `dataform/` | `account_curated`, one table for all runs | `CREATE OR REPLACE` for one run id | BigQuery |
| Data Enrichment | `pipelines/data_enrichment` | `account_enriched` | purge, query, append | BigQuery |
| JSON Producer | `pipelines/json_producer`, `common/sinks.py` | `account_target`, more rejects and lineage, `json/<run>/`, target topic | purge, map and validate, append, number and emit batches to Kafka and to files | BigQuery, Kafka, JSON bucket |
| Loader App | `apps/loader-app` | the sets of one attempt; `.CHS .ERR .RPT .FLG` of the load lane | publish every document, settle against the return topics, report, exit | Kafka or HTTP, recon bucket |
| Target System mock | `apps/target-system-mock` | accounts and idempotency map in memory, a one-shot suppress flag, a consumer group's offsets | apply a document from Kafka or HTTP, confirm or reject, reset | Kafka, HTTP |
| Reconciliation | `apps/recon-service` | none | one count after another, key checks, confirmation join, verdict | BigQuery, Kafka |
| DAG | `composer/dags` | task attempts | run the tasks in order, retry, gate on `run_ledger` | all |
| Mapping engine | `pipelines/common` | the contract as loaded; the batch at hand of `run_batches` | load a contract, route a record, cut batches | in process |
| Shared clients, formats, scripts, Terraform | `apps/common`, `local`, `terraform` | caches | transport | |

What is hard in it:

* **At-least-once everywhere.** The JSON producer, the loader and every retry
  publish the same documents; the mock replays what it did not commit; Beam
  retries bundles; a job outlives the pod that launched it.
* **Verdicts on two topics.** The loader learns what happened only from events
  it reads from the beginning of two topics shared by all runs, in an order
  nobody controls, against a deadline.
* **Memory only.** What makes redelivery safe at the Target System does not
  survive its process.
* **Counting.** Rows carry no unique key. That each record left through one
  door is inferred from counts that are taken one after another while other
  actors may write.
* **Shared tables.** One `account_curated` for all runs; a streaming buffer
  that blocks every run's DELETE.

What makes each part correct is stated by the properties in section 3; the
hazards, each with its line and its properties, or the reason why none catches it,
are in `PROJECT.json`.

## 2. The modules

### TargetIntake — the mock's Kafka consumer

State: three topics, the idempotency map (`idempotency`), the suppress flag, the
consumer loop, its three positions (`applied`, `fetched`, `committed`).
A topic is partitioned by message key, so it is a log per key: order is kept
within a key and free between keys, which covers every assignment of keys to
partitions. `Blank` is the lane of messages without a usable key. A document is
reduced to what `applyDocument` tells apart: its run, and whether it has an
account id, has none, or is not JSON.

| action | code |
|---|---|
| `Poll`, `ApplyDocument`, `CommitBatch` | `consumeLoop`: poll, apply each, `commitSync` |
| `Refuse`, `AcknowledgeDuplicate`, `Create` | the branches of `applyDocument` |
| `PublishConfirmation`, `PublishRejection` | the two publish methods; a failed send is only logged |
| `LoopStops` | the catch clause that ends the loop and not the process |
| `Restart` | the process dies: maps and flag gone, positions back to the committed ones |
| `Reset`, `SuppressNextConfirmation` | the admin endpoints |
| `ForeignPublish` | other producers of the topic: the JSON producer's own copy, other runs, hand-made documents |

### LoaderSettle — the loader on top of it

Extends TargetIntake with the attempts of one run of the loader: reading the
lines, publishing, flushing, the settle loop of `ReturnStream`, the arithmetic
of `settleAgainst`, the four puts and the exit code. `ReadBatch` is one poll of
both return topics: any stretch of each key's two logs, in either order when a
key has both kinds of event. `SendFails` has two outcomes, because a send
reported as failed may have been appended. `Die` may strike anywhere;
`BeginAttempt` is Airflow's retry, with the topics and artefacts of the earlier
attempts in place. The HTTP sink is in HttpLoad.

### LoadContract — what the loader promises

The abstract specification: keys are offered, somebody says verdicts about
keys, at the end each offered key is put in one class that was really said, or
in "unsettled", and the exit is clean only when none is unsettled. LoaderSettle
implements it under the mapping `Contract` (`INSTANCE LoadContract WITH`),
stated as `KeepsContract`.

### HttpLoad — the HTTP sink, and handlers that interleave

TargetIntake takes `applyDocument` in one step, which is right while one thread
calls it. With HTTP the mock calls it from a pool of eight threads and from the
consumer thread at once, on two maps that are each safe but are not changed
together. HttpLoad therefore splits a handler: `stage` says how far each *job*
(one attempt at a line, or one delivery from the target topic) has come, and
`at` which instance has it.

| action | code |
|---|---|
| `Offer`, `Resend` | the next line of the file; the next turn of `HttpSink`'s loop |
| `Receive` with `Verdict`, `FailOrBackOff` | the status code: 201, 200, 429/503, anything else |
| `TransportFailure` | an `IOException`: a timeout, a broken connection, a lost answer; the request may still be handled |
| `Deliver` | the consumer thread takes the next document of the topic |
| `TurnAway` | an injected 429/503, or Cloud Run's own answer when no instance takes the request |
| `Claim`, `Acknowledge` | `idempotency.putIfAbsent`, with its two results |
| `Store`, `Confirm` | `accounts.put`; the confirmation, then the 201 |
| `ResetStep` | `handleReset`, one clear at a time, in `ResetOrder` |
| `Restart` | Cloud Run replaces an instance: its maps and requests are gone |

Instances share nothing: Terraform allows two of them
(`target_system_mock/main.tf:121`), so what the class comment says of a document
delivered by two transports is true of one instance, and `CreatedOncePerMap` is
stated per instance. The bound on an instance's creations counts the restarts
and resets of all instances together, which is weaker than counting its own.

Abstractions: a key stands for its account id as well, since each document has
its own; a delivery that was in work when its instance died comes again (the
offset is committed after the batch; TargetIntake has the offsets); the loader's
own death and Airflow's retry are LoaderSettle's; a reset runs under the other
handlers but resets of one instance do not overlap.

### RunLane — one run through the DAG

Tasks 1 to 7 of the DAG with their attempts, retries and clears, the rows of the
run in six tables, Dataflow jobs that append one row at a time and may repeat
it, jobs orphaned by a dead pod, refused DELETEs, the emission to Kafka and
files, reconciliation one query at a time, and the gate. A row is a record and a
number that tells its copies apart, because the tables have no key. The inside
of the Target System and of the settle loop is in the modules above: here a
document on the topic may be confirmed or rejected for good at any time, and the
loader succeeds when each of its documents has a verdict: it exits 0 with rejected
documents too, and it is reconciliation that stops such a run. The Kafka sink is the
one modelled, so reconciliation always has its confirmation stream.

Abstractions, each on the side of more behaviours unless said otherwise:

* Records with equal keys are not modelled: `Records` are distinct keys.
* A clear takes the task and everything after it, as the Airflow UI does by
  default, after the run has ended.
* A load job or an `insertAll` of up to 500 rows is a sequence of single rows.
* An attempt's failure leaves the tables as they are at any statement, which
  covers exceptions and pods killed alike; BigQuery refusing a DELETE is kept
  apart because it costs an attempt and nothing else.
* Another run's effect on this one is the rebuild of `account_curated` and the
  streaming buffer. Its rows carry another run id and no query here sees them.
* The `balanced` column of the ledger is always TRUE when the row is written,
  since `require_balance` comes first, so the gate's second test cannot fail.

### TdsEngine — through which door a record leaves

The engine of `pipelines/common` as operators: the definition language of
`tds.py`, the checks of `load_mapping`, parsing, mapping, validation, and the
three callers, `route_intake`, `RecordRouter.route` and the JSON producer's
`MapAndValidateFn`. A cell of a record is one of six kinds ("ok", blank, JSON
null, junk, of its type but not in the enumeration, a number too long for the
decimal context), which is all that a stage tells apart; the text of values is
left out. A NaN in a decimal field would be of the fifth kind and is not among
the inputs. An exception that is no `RecordError` is the outcome `Uncaught`.

### RouterBatches — run_batches

The generator with its heap: the consumer's list holds references, so `object`
is a sequence of entries and `current` the one the generator's names are bound
to. `Yield` rebinds, which is what `YieldedBatchesStable` is about. The routed
lines are selected with `ElementsAt` of Places, SelectSeq written as a function
of the place, so that a proof can follow it.

### FileLane — from the extract to the ledger

Extends RouterBatches with the Extractor (`Extract`, `RaiseFlag`, `ExtractorDies`),
the landing bucket (`Damage`: a member lost or changed), the File Processor's
job (`StartAttempt`, `ReadBundle` one read or put at a time, `ParseNext`,
`WriteBatch`, `WriteLedger`), Beam's retry of a bundle (`BundleRaises`,
`BundleFails`: rows that were written stay, tallies are those of the committed
try) and a job left behind (`PodDies`, `StrayReads`). When a job is done the
router may go over its lines, so that the two paths can be compared; it shares
no state with the lane and does not interleave with it. A checksum is the
content it was computed from. Rows that a test of the Extractor diverts on purpose
(`--inject-extract-errors`) are left out.

### DataformOrder — the executor of the Dataform project

`order_actions` is a recursive depth-first search. The model takes it step by
step, with the frames of the recursion in `stack`, the dependencies of a frame
and the roots in any order, so that it covers whatever order the compiler lists
them in, and without a recursive operator, so that it can be proved about.
`fresh` says which tables have been built from tables of this run. `Compile`
takes any graph of `Graphs`, or fails. `ExecuteFails` is a failure of a statement; a
failure of the row counts printed after the last one (`run_dataform.py:158-161`) is
left out, since every table is built by then.

### EmitBatches — enrichment, and the JSON producer with its sinks

The two Beam pipelines as bundles that are committed or fail after storing some
of their rows (`EnrichBundle`, `MapBundle`), then the numbering query
(`NumberRows`), the emit loop (`TakeRow`, `OpenWrite`, `CloseBatch`), the Kafka
writer (`Produce`, `BrokerAnswers` by its callback, `Flush`, which returns with
an empty queue or when time is up), the file writer (`PutFile`) and the three
checks (`Checks`). A row's identity is its record: tables are bags. `Dies` ends
a task anywhere; a job of the producer that it leaves behind writes on
(`StrayWrites`). Jobs left behind owe a record once between them, and an enrichment
job left behind is not followed: RunLane has both, each job with its own rows. The
reject and lineage rows of the same bundles are RunLane's.

### TransformLane — Dataform, enrichment and producer together

Extends DataformOrder and EmitBatches: the two tasks run when Dataform has
finished, and find this run's rows if the curated table was built from fresh
tables.

### Proof modules

`TargetIntake_proofs`, `LoaderSettle_proofs`, `HttpLoad_proofs`,
`RunLane_proofs`, `FileLane_proofs` (with RouterBatches, which it extends),
`DataformOrder_proofs` and `TransformLane_proofs` (with EmitBatches) extend the
module they are named for. `FoldLemmas` has the lemmas about sums, concatenation
and selected places that three of them share.

### MC modules

Each `MC` module extends the module it is named for with the enumerated inputs;
the `.cfg` files give the constants their values.

## 3. What is checked

| run | module | what it shows |
|---|---|---|
| `target_intake` | TargetIntake | nothing is committed unanswered (`NothingSkipped`); one creation per key between two losses of the map (`CreatedOncePerLife`); a duplicate has an original (`DuplicateHasOriginal`); a confirmed key is held (`ConfirmedIsHeld`); each document is reached while the loop lives (`EveryDocumentReached`) |
| `replay_after_crash` | TargetIntake | violated: `AppliedOnce` |
| `loader_settle` | LoaderSettle | the tally is exact (`UnsettledIsExact`), counts only held accounts (`CountedIsHeld`), verdicts only grow (`VerdictsOnlyGrow`), the loop is honest without rejections (`SatisfiedUnlessRejected`), refinement of LoadContract (`KeepsContract`) |
| `loader_retry` | LoaderSettle | over three attempts: a clean exit is answered (`CleanExitAnswered`), the semaphore is never ahead of its artefacts, though an earlier attempt's may stand beside newer ones (`FlagNeverAhead`), attempts end (`AttemptEnds`), `KeepsContract` |
| `early_stop` | LoaderSettle | violated: `SatisfiedMeansSettled` |
| `http_load` | HttpLoad | the two maps stay in step (`HeldIsStored`), one creation per life of a map across both transports (`CreatedOncePerMap`), an acknowledged line is stored or about to be (`AckedIsBacked`, `AckedGetsStored`), confirmations neither outnumber the writes nor fall short of the 201s (`ConfirmationsMatchWrites`), each line is in one counter (`EveryLineSettled`), the load ends (`LoadEnds`) |
| `run_lane` | RunLane | a run that passes reconciliation has counted each record once, behind its own door (`OneDoor`), no stage loses a record (`NothingLost`), the DAG run ends (`RunEnds`) |
| `lane_cleared` | RunLane | under clears and a foreign rebuild: without the rebuild still each record once; after it a record can be missing from the counts only behind a doubled row, and never a parse reject (`OneDoor`); a stage deletes only what will be written again (`PurgesItsOwn`) |
| `keys_trace` | RunLane | violated: `KeysTraceBothWays` |
| `file_lane` | FileLane | the artefacts and the claim that reconciliation reads are of the bundle that was read (`ClaimHolds`), each count of the ledger has its rows (`LedgerIsBacked`), the batches are the written records cut every `BatchSize` (`BatchesPartition`) and do not change under their consumer (`YieldedBatchesStable`), and the in-memory router, the File Processor and the JSON producer decide alike (`RouterAgrees`) |
| `poison_record` | FileLane | violated: `OnlyRecordErrors` |
| `transform_lane` | TransformLane | tables are built after what they read, and a circle is reported exactly when there is one (`BuiltInOrder`); when the producer succeeds every document is acknowledged and in its file, and no file is ahead of Kafka (`SuccessMeansDelivered`); the three checks stop no run that is right (`NoFalseAlarm`) |

Every property of a passing run has a mutant: a change of one mapped definition,
of the kind a patch could make, under which the property fails in that run.

### Bounds

* `target_intake`: two keys and the blank lane, one run, two documents, one
  restart, one reset, one arming, one lost verdict per lane. Two documents of one
  key give redelivery; two of different keys give a batch that is half applied.
* `loader_settle`: two keys, two runs, one document from elsewhere, one lost
  verdict, one attempt. Two keys are needed for a count to be satisfied by the
  wrong key; the second run is the traffic to be filtered.
* `loader_retry`: one key, three attempts, one restart, one lost verdict:
  attempts see one another's verdicts and artefacts.
* `http_load`: one key, offered by a good line and by the topic, and a malformed
  line; two instances, two threads each, one retry, one restart, one admin call,
  one lost confirmation. Two attempts at the line and the delivery are three
  handlers of one key, on one instance or on two; a second key would meet the
  first only in the flag and the thread count.
* `run_lane`: one record per door and stage (a parse reject, a map reject, a
  good one), one retry, one failure, one repeated row. With three records a
  doubled row and a missing one can cancel out.
* `lane_cleared`: the same records, no automatic retry, one clear, one failure,
  one repeated row, one foreign rebuild. The rebuild and the repeated row together
  give the balanced run with a record missing (`keys_trace` shows it), which the
  second half of `OneDoor` has to allow and to delimit.
* `file_lane`: four contracts (one does not load), extracts
  with good, short, blank, NUL, repeated-header and too-long lines, parts of two
  records, batches of two, two runs of the extractor, two attempts, one fault.
  The second extract replaces the first at every point of a job; a batch is cut
  by documents with a reject in between. `poison_record`: the CSV contract alone,
  the same extracts and sizes, one run of the extractor, one attempt, no fault.
* `transform_lane`: all graphs over three tables (512, with circles and tables
  that depend on themselves, each with a declaration and with one action of a
  known or an unknown kind), then four records of which one is rejected, batches
  of two, three attempts of the two tasks together, two faults, each choice of
  sinks. Three documents are a full batch and a short one; two faults on top
  make a third batch, and the third attempt meets what two earlier ones left.

Deadlock checking is off in all of them: each system stops when the attempt, the
run or the documents are used up.

### Fairness

* `FairTargetSpec`: weak fairness of the consumer thread's steps. The thread
  loops over `poll` and nothing blocks it for ever; it may stop by an exception
  (`LoopStops`), and `EveryDocumentReached` says so.
* `FairSpec` of LoaderSettle: weak fairness of the loader's own steps. Each send
  completes or fails within the producer's delivery timeout, and the settle loop
  has a deadline. Nothing is assumed of the Target System.
* `FairSpec` of HttpLoad: weak fairness of the loader's thread, whose clock
  reaches the 30 s of `TransportFailure` whatever the mock does, and of `Store`,
  because between `putIfAbsent` and `accounts.put` a handler waits for nothing.
* `FairSpec` of RunLane: weak fairness of the tasks together: Airflow schedules,
  the pod runs, Dataflow drives a job to its end, the settle deadline passes.

### Disagreements found

1. **Replay after a crash.** `TargetSystemMock.java:353-354` rests at-least-once
   delivery on the idempotency map, which dies with the process that is being
   recovered. The account is stored again under the same id, so the effect is a
   second `created` confirmation and a second count.
2. **Early stop.** `ReturnStream.java:101` counts a key twice when its rejection
   is read before its confirmation. The loop then stops before the deadline with
   another key silent; `settleAgainst` still reports that key as unsettled, so
   the run fails although it might have succeeded.
3. **One-way key check.** `ReconService.java:146` looks for target rows without a
   source row and not the reverse. A record lost to another run's rebuild and a
   reject row doubled by a retried bundle pass reconciliation together.
4. **A record that ends the run.** `tds.py:248` quantizes outside the handler
   that turns a bad number into a reject. A decimal with more digits than the
   context holds raises `InvalidOperation`, which nothing catches as a reject:
   the bundle fails, is tried again, fails again, and so does every attempt,
   although `tds.py:219` promises a `RecordError` and `doors.py:25` two doors.
   `mapping.py:58` has the same form.

Noted while modelling, without a run of their own:

* `LoaderApp.java:324` records a key whatever the send callback says, against the
  comment above it. The run is saved by the verdict filter unless an earlier
  attempt, or the JSON producer's copy of the document, has settled the key.
* `file_processor/pipeline.py:438` says that a fresh run id issues no DML; the
  first statements of the enrichment and the JSON producer delete without
  counting, so such a run can be refused by a streaming buffer it never filled.
* `engine.py:53-57` expects a router at intake to reject everything; since the
  branch columns are optional it does not.
* A test counts `ceil(written / 200)` batches of `run_batches`; rejects after the
  last full batch make one more, without documents.
* The Extractor splits lines as Java does and drops the header by position, the
  File Processor splits as Python does and skips a header by content: with an
  unusual line terminator or a header that comes twice, the claim in the .RPT
  and the count in the ledger differ. `ClaimHolds` excludes the second case by
  name (`NoRepeatedHeader`); lines of FileLane have no terminator.
* A job left behind may put the artefacts of another bundle over the ones of the
  current attempt; `ClaimHolds` excludes that case by name.
* The enrichment's check compares two metrics and not the table: rows that a
  retried bundle wrote twice pass it, are mapped and emitted twice, and are first
  seen by reconciliation. `SuccessMeansDelivered` therefore says "at least once".

## 4. What is proved

Every invariant and every action property of the passing runs is a theorem of the
specification it is checked on; one of them, `RouterAgrees`, under a hypothesis about
the contracts (below).

The theorems hold for every set of keys, records, runs and instances, every file,
graph, contract and input and every bound, under the assumptions the modules name:

| module | assumed of the constants |
|---|---|
| TargetIntake | the blank lane is no key and "no run" no run (`NamesDistinct`); bounds are naturals |
| LoaderSettle | finitely many keys; the run is among the runs; the file has a line, and each is a key or malformed |
| HttpLoad | the same about lines and deliveries; finitely many instances and at least one |
| RunLane | finitely many records; the two kinds of rejects are disjoint (`DoorsAreDisjoint`); bounds are naturals |
| RouterBatches | a positive batch size |
| TdsEngine | "nothing" is no cell and no error (`NoneIsNoValue`) |
| FileLane | positive split and bundle sizes, at least one try of a bundle; extracts are sequences of lines, whose cells are of the enumerated kinds (`SourcesAreLines`) |
| DataformOrder | bounds are naturals |
| EmitBatches | a positive batch size; the rejects are among the records; the sinks are one of the three lists the producer can be started with |

**TargetIntake.** `IntakeInv` is inductive. `NothingSkipped` alone is not: it
needs that positions are in order (`OffsetsInOrder`) and that every applied
document, committed or not, was answered (`AppliedIsAnswered`).
`CreatedOncePerLife` counts creations in a log; it needs to know that a key the
map does not hold was created at most once per loss of the map
(`ForgottenPerLoss`), so that the next creation stays within the bound.
`DuplicateHasOriginal` needs that a held key has a creation in the log or a lost
verdict (`HeldWasCreated`). The lemmas about appending to a log
(what the indexes with outcome "created" become) carry the counting.

**LoaderSettle.** `LoaderInv` takes the intake's invariants along (the intake's
steps are also steps of the composition, and the loader's own sends are one more
publisher), and adds `Evidence`, that each key in one of the loader's sets has
its verdict on the topics, and `ArtefactsInOrder`. From it follow type
correctness, `CleanExitAnswered`, `UnsettledIsExact` (by cardinalities of the three
disjoint sets), `CountedIsHeld` and `FlagNeverAhead`. `SettleInv` adds that
no key is both confirmed and duplicate, from which the loop's sum of three
cardinalities counts a key twice only if it was rejected: that is
`SatisfiedUnlessRejected`. `VerdictsOnlyGrow` needs of each step only what it may
do to the three sets.

`KeepsContract` is proved step by step under the mapping `Contract`: the initial
states map to an initial state of LoadContract; an offer, a verdict on a topic, the
end of the settle loop and the exit map to its actions; every other step, those of
the Target System included, to a stutter. The hard step is the tally, where the class
of each offered key (`ClassBySets`) must have been said, which is `Evidence`, and the
exit is clean exactly when no key is left, which is `UnsettledIsExact`.

**HttpLoad.** `HttpInv` is a part about the mock and a part about the loader;
neither side's step touches the other's variables except that a request sent is a
new job, so each action is proved against its own part and one small lemma
carries it over. `HeldIsStored` is inductive almost as it stands, given that a
request the loader has not come to is in no handler (`NotYetSent`), since
sending must not take a claimed job away. `CreatedOncePerMap` needs the counting
invariant `CreationsPerLife`: creations of a key at an instance plus the claims
of it in work stay within the lives of the map, strictly below while the key is
free, and a reset that has cleared the accounts but not yet the map has not begun
a new life. `AckedIsBacked` needs that a line counted as acknowledged has an
attempt answered 200 or 201 (`AckedWasAnswered`) and that a job past
`putIfAbsent` has its key in the map (`EnteredIsHeld`). `EveryLineSettled` and the
bound on the retries come from sums kept line by line (`CountsAddUp`,
`RetriesInBudget`). `ConfirmationsMatchWrites` compares events with a sum of
creations over instances. `Books` says that the 201s of a key are within its
confirmations, published or lost, and that these plus the handlers between
`accounts.put` and publishing are within the creations. The sum is a fold of the
library; FoldLemmas gives what one more creation does to it.

**RunLane.** `LaneInv` says where a step may be (`PlaceOK`), what a job has yet to
write (`JobOwes`), that each count of reconciliation saw all it counts
(`Snapshots`), that no row is or will be behind the wrong door (`RightDoors`), that a
count taken is its table still unless a job was left behind (`CountsOK`), and the
properties. `NothingLost` is not inductive alone: while a job
runs, its records are in its table or among what it owes; a job orphaned by a dead
pod is relied on for nothing, it can only add rows. `OneDoor` is over
the snapshots that reconciliation took: a row that a job left behind adds after its
table was counted is in none of them, and no property speaks of it. The property is a
pigeonhole from either side. Where `account_curated` was not rebuilt under the run
(`rebuilds = 0`), the targets and the rejects that were counted cover their records, and
reconciliation passes only if the two counts add up to the number of records and the
lineage has as many rows as there are rejects: then no row is doubled, since a set of
rows that covers its records and is not larger has one row for each
(`BalanceForces`). No row's uniqueness is assumed. After a rebuild the tables need not
cover their records. There, rows that are none doubled and all behind their own door
are no more than the records, and the balance again leaves none missing
(`BalanceOfOnce`): what passes with a record missing has a doubled row. That a parse
reject is never missing needs no such condition, since the file processor's rows do not
go through `account_curated`. `NothingLost` has the same `rebuilds = 0` on the stages
after Dataform; what a rebuild does to them is `keys_trace`.
Tables are purged only in their writer's turn (`PurgesItsOwn`) because a step's place
tells whose turn it is. `LaneGoodConfirmed`, which no run checks, is what a passed
reconciliation says about the Target System: every good record was confirmed.

**DataformOrder.** `DataformInv` says of the search that its frames are a path of
dependencies without repetition (`StackInv`), that what a frame has looked at is
done or is the frame above it (`LookedAt`), and that no circle lies within what is
done (`NoCircle`). The path gives the circle when a name is met that is being
visited; `LookedAt` gives that a frame leaves with all its dependencies done.
That a finished order excludes every circle would need an induction along the
order; keeping `NoCircle` in the invariant, one finished name at a time, avoids
it: a set without the new name is covered by what held before, and the new name
is nobody's dependency among the names done before it.

**EmitBatches and TransformLane.** `EmitInv` follows a row from the curated table to
the sinks, in parts: how often a record may have been written, one more time per
bundle that failed (`CopiesBounded`); that the committed metric is at most the size
of the table and each record that maps is in the table or still to come (`MapInv`);
that the closed batches cover the numbered places before the open batch, each full
but perhaps the last (`LoopInv`); which places Kafka has acknowledged or in its queue
(`KafkaInv`) and which are in their file (`FilesInv`); what the checks found
(`Verdicts`). `SuccessMeansDelivered` and `NoFalseAlarm` follow. Numbering lays the
bag of rows out as a sequence, whose length is the sum of the bag: FoldLemmas has
both. The Dataform half carries its own invariant through the composition.

**FileLane.** `FileInv` ties a job to its place in the bundle it has verified,
whatever the extractor has put there since. `Tallies(p)` is the centre: at place `p`
the job has counted the records before `p`, their rows are in the tables or in its
hands, and in a first try nothing else is. `LandingInv` gives that who is past the
manifest holds a whole bundle, `FreshInv` that who is before the lines holds nothing,
`PublishInv` which artefacts stand at each place. `ClaimHolds` follows by counting
the lines that the extractor wrote and the job's records of them (that a bundle split
into parts of `SplitSize` has the lines of the extract again), `LedgerIsBacked` from
`Tallies` at the end of the lines.

**RouterBatches**, as part of FileLane. `RouterInv`: while the generator runs, the
entries its consumer holds lie strictly below `current`, each with `BatchSize`
documents, and the entry at hand has fewer; each entry balances and counts its own
lists (`Tallied`). From it follow `YieldedBatchesStable`, since a step changes only
the entry at `current`, and `BatchesClose`, which is proved and not in a run.
`CutInv`: entry `c` holds the routed documents from place `(c - 1) * BatchSize` on,
the rejects of the entries laid end to end are the rejected lines, and the consumer
holds the entries in order. With the sum of the counts that is `BatchesPartition`.
The engine's decision is not expanded here: all of it holds for whatever `Route` answers.

**The two paths agree.** `RouterAgreement` proves `RouterAgrees`, for every extract,
split and batch size, under one hypothesis: each contract that loads satisfies
`ReadsByAlias`. It says that every rule reads a column the curated table has under its
alias (or is a `const` or `concat`), and that the branch, which only the enrichment
adds, is no source field and fills no required value. The code does not enforce this:
`load_mapping` accepts a contract whose branch column is required or whose rules read
columns by their raw names, and for those the in-memory router and the JSON producer
do differ. So it is a hypothesis of the theorem and not an assumption of the module.
Both contracts in `contracts/mappings` meet it, and TLC evaluates it for those of the
run (`ContractsReadByAlias` in MCFileLane). The proof goes in three parts:

* the engine. `LineParsed`, `CuratedFields` and `MappedAlike` follow one line through
  parse, map and schema; `ParsedFirst` concludes that a line the parse rejects is
  rejected alike by both, with its reason, and that one it accepts is decided alike
  from its fields and from its curated row. `StageIs` reads off the reason which of
  the two it was;
* the lines. `AgreeInv`, inductive beside the two invariants above, says that the
  router's input is the text of the bundle the job has read, and that no line it has
  passed has raised;
* the sequences. What the job counted, wrote and rejected, and what the router put
  into its batches, are elements of the same lines at some places. `PlacesOfImages`
  and `PlacesWithinPlaces` (FoldLemmas) move the selections onto the lines, where
  `PlacesAlike` shows that the places are the same; `CountApart`, `SumOfBoth` and
  `LengthOfFlat` do so for the counts.

**FoldLemmas.** Sums (`FoldFunction`, `MapThenSumSet`), `FlattenSeq` and `ElementsAt`
are recursive functions. A theorem of induction that takes an operator cannot be
instantiated, but for one fixed function induction is a well-founded order: take the
least natural number at which it would fail. So the lemmas show first that the
function exists (`SumExists`, `FlatExists`, `UpToExists`), and then what one more
element does to it (`SumOfOneMore`, `SumOfAdded`, `FlattenAppend`, `NextPlace`). The
sum of a bag is shown to be a cardinality (`SumIsCopies`), which makes it independent
of the order in which the fold picks; a sum over places is also the sum by steps
(`TotalBySteps`), and the concatenation of images is the image of the concatenation
(`FlatOfImages`).

Model-checked only:

* The liveness properties `EveryDocumentReached`, `AttemptEnds`, `LoadEnds`,
  `AckedGetsStored` and `RunEnds`, which are out of the prover's reach.
* The four violations, which are behaviours and not theorems.

## 5. What is not modelled, and the plan

Of the plan nothing is left. Not modelled, and why:

* `readConfirmations` with its end-offset snapshot: RunLane reads the confirmed
  records in the step of the verdict. A confirmation that comes after the snapshot is
  not read, which can only make the verdict stricter than the model's;
* the text of values and the SQL of the two Dataform models: functions of data
  whose only effect here is the door a record takes;
* encryption, archives and the byte layout of the artefacts (`apps/common`,
  `artefacts.py`, `pgp.py`): no control beyond what FileLane has of the manifest;
* token caching, client configuration and the priming of the Kafka client's
  authentication: transport, whose failures are faults of the models;
* the staged file of a load job and `ensure_table`: a write stores all of its rows
  or none, and a table is there;
* report rendering and the statistics counters of the mock; the sensor that waits
  for the extract; Terraform; the local scripts (`run_pipeline.py`, `init_infra.py`),
  development drivers around the same stages.
