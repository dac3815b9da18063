---------------------------- MODULE EmitBatches -----------------------------
(***************************************************************************)
(* Data Enrichment (data_enrichment/pipeline.py) and the JSON Data         *)
(* Producer (json_producer/pipeline.py) with its sinks (sinks.py): rows    *)
(* are appended by Beam bundles that may be tried again, numbered by the   *)
(* warehouse, and emitted in batches to Kafka and to files, and three      *)
(* checks at the end decide whether the task succeeds.                     *)
(*                                                                         *)
(* A record is its place in the order of account_key; a table is a bag,    *)
(* how often each record's row is in it.  The rejects the producer writes  *)
(* at the same time are in RunLane.                                        *)
(***************************************************************************)
EXTENDS Naturals, FiniteSets, SequencesExt

CONSTANTS
    N,              \* the run's records are 1..N
    MapRejects,     \* those that do not map or validate
    BatchSize,      \* mapping.batch_size
    WriterLists,    \* what target_writer may choose
    MaxStarts,      \* bound: attempts of the two tasks
    MaxFaults       \* bound: bundles that fail

ASSUME EmitAssumption ==
    /\ N \in Nat /\ BatchSize \in Nat \ {0}
    /\ MapRejects \subseteq 1..N
    /\ WriterLists \subseteq {<<"kafka", "gcs">>, <<"gcs">>, <<"kafka">>}
    /\ MaxStarts \in Nat /\ MaxFaults \in Nat

VARIABLES
    enriched, target,   \* the tables' rows of this run
    epc,                \* "idle", "enriching", "enriched"
    ppc,                \* "idle", "mapping", "emitting", "writing", "flushing", "done", "alarm", "failed"
    rows,               \* what the running pipeline has read and not yet committed
    reads, commits,     \* how many rows it read, and the metric: enriched or written
    numbered,           \* the rows as the query numbers them
    batch, currentId,   \* current_batch, as places in numbered, and current_id
    taken,              \* how many of numbered the loop has taken
    toWrite,            \* writers the open write_batch has still to call
    counters,           \* batch_counters
    queue, errors,      \* the Kafka client's queue (places in numbered), _errors
    acked,              \* places in numbered the broker acknowledged
    topic, files,       \* the records on the topic; json/<run>/ACCOUNT.<id>.json
    writers,            \* the sinks of this deployment
    stray,              \* rows that a job left behind may still write
    starts, faults      \* counters for the bounds

tables == <<enriched, target, stray>>
job == <<rows, reads, commits>>
loop == <<numbered, batch, currentId, taken, toWrite, counters>>
broker == <<queue, errors, acked, topic>>
emitVars == <<tables, epc, ppc, job, loop, broker, files, writers, starts, faults>>

Records == 1..N
NoRows == [r \in Records |-> 0]
Add(bag, S) == [r \in Records |-> IF r \in S THEN bag[r] + 1 ELSE bag[r]]
Size(bag) == FoldFunction(+, 0, bag)

EmitInit ==
    /\ enriched = NoRows /\ target = NoRows /\ stray = {}
    /\ epc = "idle" /\ ppc = "idle"
    /\ rows = NoRows /\ reads = 0 /\ commits = 0
    /\ numbered = <<>> /\ batch = <<>> /\ currentId = 0 /\ taken = 0
    /\ toWrite = <<>> /\ counters = <<>>
    /\ queue = {} /\ errors = 0 /\ acked = {} /\ topic = {} /\ files = <<>>
    /\ writers \in WriterLists
    /\ starts = 0 /\ faults = 0

ProducerRuns == ppc \in {"mapping", "emitting", "writing", "flushing"}
Running == epc = "enriching" \/ ProducerRuns

(* A new process: nothing is left of the one before.                       *)
FreshLoop ==
    /\ numbered' = <<>> /\ batch' = <<>> /\ currentId' = 0 /\ taken' = 0
    /\ toWrite' = <<>> /\ counters' = <<>>
    /\ queue' = {} /\ errors' = 0 /\ acked' = {} /\ UNCHANGED topic

Start(table) ==
    /\ ~Running /\ starts < MaxStarts
    /\ starts' = starts + 1
    /\ rows' = table /\ reads' = Size(table) /\ commits' = 0
    /\ FreshLoop
    /\ UNCHANGED <<stray, files, writers, faults>>

-----------------------------------------------------------------------------
(* The Beam bundles of either pipeline: some of the rows, each copy of a   *)
(* record on its own.  The metrics are of committed bundles.               *)

Bundles == {B \in SUBSET Records : B # {} /\ \A r \in B : rows[r] > 0}
Take(B) == [r \in Records |-> IF r \in B THEN rows[r] - 1 ELSE rows[r]]

(* EnrichFn gives each row back with its branch, or with none.             *)
EnrichBundle(B) ==
    /\ epc = "enriching"
    /\ \/ /\ enriched' = Add(enriched, B) /\ rows' = Take(B)
          /\ commits' = commits + Cardinality(B)
          /\ UNCHANGED faults
       \/ \E stored \in SUBSET B :
             /\ faults < MaxFaults /\ faults' = faults + 1
             /\ enriched' = Add(enriched, stored)
             /\ UNCHANGED <<rows, commits>>
    /\ UNCHANGED <<target, stray, epc, ppc, reads, loop, broker, files, writers, starts>>

(* MapAndValidateFn and WriteRowsFn, fused.  A write that raises has       *)
(* stored all of its rows or none, and writes of the bundle before it are  *)
(* in the table: the bundle is tried again with new rows.                  *)
MapBundle(B) ==
    LET docs == B \ MapRejects
    IN  /\ ppc = "mapping"
        /\ \/ /\ target' = Add(target, docs) /\ rows' = Take(B)
              /\ commits' = commits + Cardinality(docs)
              /\ UNCHANGED faults
           \/ \E stored \in SUBSET docs :
                 /\ faults < MaxFaults /\ faults' = faults + 1
                 /\ target' = Add(target, stored)
                 /\ UNCHANGED <<rows, commits>>
        /\ UNCHANGED <<enriched, stray, epc, ppc, reads, loop, broker, files, writers, starts>>

-----------------------------------------------------------------------------
(* Data Enrichment.                                                        *)

StartEnrichment(curated) ==
    /\ Start(curated)
    /\ enriched' = NoRows /\ epc' = "enriching" /\ ppc' = "idle"
    /\ UNCHANGED target

(* read # enriched raises.                                                 *)
EndEnrichment ==
    /\ epc = "enriching" /\ rows = NoRows
    /\ epc' = IF reads = commits THEN "enriched" ELSE "idle"
    /\ UNCHANGED <<tables, ppc, job, loop, broker, files, writers, starts, faults>>

-----------------------------------------------------------------------------
(* The producer's first stage.                                             *)

StartProducer ==
    /\ epc = "enriched"
    /\ Start(enriched)
    /\ target' = NoRows /\ ppc' = "mapping"
    /\ UNCHANGED <<enriched, epc>>

(* A task may die at any point, and its Dataflow job outlives it.  Only the *)
(* producer's job is followed here, and jobs left behind owe a record      *)
(* once between them; RunLane has the enrichment's too, each on its own.   *)
Dies ==
    /\ Running /\ faults < MaxFaults
    /\ faults' = faults + 1
    /\ epc' = IF epc = "enriching" THEN "idle" ELSE epc
    /\ ppc' = IF ProducerRuns THEN "failed" ELSE ppc
    /\ stray' = IF ppc = "mapping" THEN stray \cup {r \in Records \ MapRejects : rows[r] > 0}
                                  ELSE stray
    /\ \E sent \in SUBSET queue : topic' = topic \cup {numbered[i] : i \in sent}
    /\ UNCHANGED <<enriched, target, job, loop, queue, errors, acked, files, writers, starts>>

StrayWrites(r) ==
    /\ r \in stray
    /\ stray' = stray \ {r} /\ target' = Add(target, {r})
    /\ UNCHANGED <<enriched, epc, ppc, job, loop, broker, files, writers, starts, faults>>

(* Mutant: DIV(ROW_NUMBER(), batch_size).                                  *)
BatchIdOf_FromOne(i) == i \div BatchSize

(* DIV(ROW_NUMBER() OVER (ORDER BY account_key) - 1, batch_size).          *)
BatchIdOf(i) == (i - 1) \div BatchSize

Numbered == FlattenSeq([r \in Records |-> [i \in 1..target[r] |-> r]])

NumberRows ==
    /\ ppc = "mapping" /\ rows = NoRows
    /\ numbered' = Numbered
    /\ ppc' = "emitting"
    /\ UNCHANGED <<tables, epc, job, batch, currentId, taken, toWrite, counters, broker, files, writers, starts, faults>>

-----------------------------------------------------------------------------
(* The emit loop.                                                          *)

(* A file or a counter under a key, new or in place of the one before.     *)
Put(f, key, value) == [k \in DOMAIN f \cup {key} |-> IF k = key THEN value ELSE f[k]]

NextRow == taken + 1
AllTaken == taken = Len(numbered)

TakeRow ==
    /\ ppc = "emitting" /\ ~AllTaken
    /\ batch = <<>> \/ BatchIdOf(NextRow) = currentId
    /\ currentId' = BatchIdOf(NextRow)
    /\ batch' = Append(batch, NextRow)
    /\ taken' = NextRow
    /\ UNCHANGED <<tables, epc, ppc, job, numbered, toWrite, counters, broker, files, writers, starts, faults>>

OpenWrite ==
    /\ ppc = "emitting" /\ batch # <<>>
    /\ AllTaken \/ BatchIdOf(NextRow) # currentId
    /\ ppc' = "writing" /\ toWrite' = writers
    /\ UNCHANGED <<tables, epc, job, numbered, batch, currentId, taken, counters, broker, files, writers, starts, faults>>

(* KafkaTargetWriter.write_batch up to the flush.                          *)
Produce ==
    /\ ppc = "writing" /\ toWrite # <<>> /\ Head(toWrite) = "kafka"
    /\ queue' = queue \cup ToSet(batch)
    /\ ppc' = "flushing"
    /\ UNCHANGED <<tables, epc, job, loop, errors, acked, topic, files, writers, starts, faults>>

BrokerAnswers(i) ==
    /\ i \in queue
    /\ queue' = queue \ {i}
    /\ \/ acked' = acked \cup {i} /\ topic' = topic \cup {numbered[i]} /\ UNCHANGED errors
       \/ errors' = errors + 1 /\ UNCHANGED <<acked, topic>>
    /\ UNCHANGED <<tables, epc, ppc, job, loop, files, writers, starts, faults>>

(* Mutant: the number flush returns is ignored.                            *)
Delivered_ErrorsOnly == errors = 0

(* _check_delivered.                                                       *)
Delivered == queue = {} /\ errors = 0

(* flush(30) returns when the queue is empty or when time is up.           *)
Flush ==
    /\ ppc = "flushing"
    /\ IF Delivered
       THEN ppc' = "writing" /\ toWrite' = Tail(toWrite)
       ELSE ppc' = "failed" /\ UNCHANGED toWrite
    /\ UNCHANGED <<tables, epc, job, numbered, batch, currentId, taken, counters, broker, files, writers, starts, faults>>

(* GcsJsonTargetWriter.write_batch: the file replaces one of its name.     *)
PutFile ==
    /\ ppc = "writing" /\ toWrite # <<>> /\ Head(toWrite) = "gcs"
    /\ files' = Put(files, currentId, [k \in DOMAIN batch |-> numbered[batch[k]]])
    /\ toWrite' = Tail(toWrite)
    /\ UNCHANGED <<tables, epc, ppc, job, numbered, batch, currentId, taken, counters, broker, writers, starts, faults>>

CloseBatch ==
    /\ ppc = "writing" /\ toWrite = <<>>
    /\ counters' = Put(counters, currentId, Len(batch))
    /\ batch' = <<>>
    /\ ppc' = "emitting"
    /\ UNCHANGED <<tables, epc, job, numbered, currentId, taken, toWrite, broker, files, writers, starts, faults>>

Ceil(a, b) == (a + b - 1) \div b
NoShortBatch == \A b \in DOMAIN counters : counters[b] = BatchSize \/ \A c \in DOMAIN counters : c <= b
CountsAgree ==
    /\ Cardinality(DOMAIN counters) = Ceil(commits, BatchSize)
    /\ FoldFunction(+, 0, counters) = commits

(* writer.close(), which flushes once more, and the three checks.          *)
Checks ==
    /\ ppc = "emitting" /\ AllTaken /\ batch = <<>>
    /\ ppc' = IF Delivered THEN IF NoShortBatch /\ CountsAgree THEN "done" ELSE "alarm"
                           ELSE "failed"
    /\ UNCHANGED <<tables, epc, job, loop, broker, files, writers, starts, faults>>

EmitNext(curated) ==
    \/ StartEnrichment(curated)
    \/ \E B \in Bundles : EnrichBundle(B) \/ MapBundle(B)
    \/ EndEnrichment
    \/ StartProducer
    \/ Dies
    \/ \E r \in Records : StrayWrites(r)
    \/ NumberRows
    \/ TakeRow
    \/ OpenWrite
    \/ Produce
    \/ \E i \in queue : BrokerAnswers(i)
    \/ Flush
    \/ PutFile
    \/ CloseBatch
    \/ Checks

-----------------------------------------------------------------------------
BagOf(S) == [Records -> 0..S]
MaxCopies == 2 + MaxFaults      \* per record: its row, and one per fault

EmitTypeOK ==
    /\ {enriched, target, rows} \subseteq BagOf(2 * MaxCopies)
    /\ stray \subseteq Records /\ topic \subseteq Records
    /\ epc \in {"idle", "enriching", "enriched"}
    /\ ppc \in {"idle", "mapping", "emitting", "writing", "flushing", "done", "alarm", "failed"}
    /\ {reads, commits, currentId, taken, errors, starts, faults} \subseteq Nat
    /\ numbered \in Seq(Records)
    /\ {ToSet(batch), queue, acked} \subseteq SUBSET DOMAIN numbered
    /\ queue \cap acked = {}
    /\ taken <= Len(numbered) /\ Len(batch) <= BatchSize
    /\ starts <= MaxStarts /\ faults <= MaxFaults

(* Places in numbered that belong to a batch, in order.                    *)
PlacesOf(b) == {i \in DOMAIN numbered : BatchIdOf(i) = b}

(* A batch that both sinks have in this attempt.                           *)
Uses(sink) == sink \in ToSet(writers)

(* Every document that maps is where the Loader and the Target look for    *)
(* it once the producer succeeds: no flush that gave up, no task that died *)
(* and no bundle that was tried again in an earlier attempt passes for     *)
(* success.  The file with the number of a batch holds that batch, and,    *)
(* with both sinks, no file has a document that Kafka has not.             *)
SuccessMeansDelivered ==
    /\ ppc = "done" =>
          /\ Len(numbered) = commits
          /\ \A r \in Records \ MapRejects : enriched[r] > 0 => r \in ToSet(numbered)
          /\ Uses("kafka") => acked = DOMAIN numbered
          /\ Uses("gcs") =>
                \A i \in DOMAIN numbered :
                    /\ BatchIdOf(i) \in DOMAIN files
                    /\ files[BatchIdOf(i)][i - BatchSize * BatchIdOf(i)] = numbered[i]
    /\ Uses("kafka") => \A b \in DOMAIN files : ToSet(files[b]) \subseteq topic

(* The checks raise only about rows of a bundle or a job that wrote more   *)
(* than the metric counted: they never stop a run that is right.           *)
NoFalseAlarm ==
    ppc = "alarm" => Len(numbered) > commits
=============================================================================
