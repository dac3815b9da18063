------------------------------ MODULE RunLane -------------------------------
(***************************************************************************)
(* One run through the DAG mig_000001_1_migration: the file processor,     *)
(* Dataform, the data enrichment, the JSON producer, the loader (Kafka     *)
(* sink), reconciliation and the balance gate, with the BigQuery tables    *)
(* they share.                                                             *)
(*                                                                         *)
(* Every record must leave through one of two doors, migrated or rejected. *)
(* The stages write their rows from Dataflow jobs, at least once; a pod    *)
(* that dies leaves its job running; Airflow retries tasks and operators   *)
(* clear them; and other runs share the tables.  Nothing but counting      *)
(* stands between that and the gate.                                       *)
(***************************************************************************)
EXTENDS Naturals, Sequences, FiniteSets

CONSTANTS
    Records,           \* the source records of the run
    ParseRejects,      \* those that do not parse
    MapRejects,        \* those that parse and fail mapping or the schema
    Retries,           \* DEFAULT_ARGS["retries"]
    MaxFailures,       \* bound: failures of a task, beside refusals and verdicts
    MaxBundleRetries,  \* bound: rows written again because a bundle is retried
    MaxClears,         \* bound: clears of a task by an operator
    MaxRebuilds        \* bound: rebuilds of account_curated by another run

ASSUME DoorsAreDisjoint ==
    /\ IsFiniteSet(Records)
    /\ ParseRejects \subseteq Records
    /\ MapRejects \subseteq Records \ ParseRejects
ASSUME LaneBoundsAreNat ==
    {Retries, MaxFailures, MaxBundleRetries, MaxClears, MaxRebuilds} \subseteq Nat

Parsed == Records \ ParseRejects
Good == Parsed \ MapRejects
Rejects == ParseRejects \cup MapRejects

(* The tables, restricted to this run id.  A row is a record and a number  *)
(* that tells its copies apart.                                            *)
Tables == {"src", "rejectLog", "lineage", "curated", "enriched", "target"}
Rows == Records \X Nat
RowsOf(S, r) == {x \in S : x[1] = r}
RecordsIn(S) == {x[1] : x \in S}

(* The tasks of the DAG, in order.                                         *)
FileProcessor == 1
DataformRun == 2
DataEnrichment == 3
JsonProducer == 4
LoaderApp == 5
Reconciliation == 6
BalanceGate == 7

VARIABLES
    dag,        \* the state of the DAG run
    task,       \* the task that runs or will run
    tries,      \* attempts of that task so far
    pc,         \* the next statement of the attempt, "queued" between attempts
    rows,       \* table -> rows of this run
    ledger,     \* whether run_ledger has the row of this run
    due,        \* rows the job of the current attempt has yet to write
    written,    \* the JSON producer's metric: documents its job was to write
    orphans,    \* the same for each job whose pod died
    json,       \* records with a document under json/<run>/
    offered,    \* records with a document on the target topic
    confirmed,  \* records confirmed by the Target System for this run
    refused,    \* records it has rejected for good, in some attempt
    seen,       \* what each COUNT(*) of reconciliation counted
    failures, bundleRetries, clears, rebuilds   \* counters for the bounds

dagVars == <<dag, task, tries, pc>>
tableVars == <<rows, ledger>>
jobVars == <<due, written, orphans>>
loadVars == <<json, offered, confirmed, refused>>
counters == <<failures, bundleRetries, clears, rebuilds>>
vars == <<dagVars, tableVars, jobVars, loadVars, seen, counters>>

Due == Tables \X Rows
Steps == {"queued", "purgeSrc", "purgeRejects", "purgeLineage", "purgeEnriched",
          "purgeTarget", "purgeLateRejects", "purgeLateLineage", "submit", "run",
          "dropLedger", "insertLedger", "rebuild", "emit", "offer", "settle",
          "countRejects", "countTargets", "checkOrphans", "readLedger",
          "countLineage", "matchConfirmations", "gate"}

LaneTypeOK ==
    /\ dag \in {"running", "failed", "success"}
    /\ task \in FileProcessor..BalanceGate
    /\ tries \in Nat
    /\ pc \in Steps
    /\ rows \in [Tables -> SUBSET Rows]
    /\ \A t \in Tables : IsFiniteSet(rows[t])
    /\ ledger \in BOOLEAN
    /\ due \in SUBSET Due
    /\ written \in Nat
    /\ orphans \in Seq(SUBSET Due)
    /\ json \in SUBSET Records
    /\ offered \in SUBSET Records
    /\ confirmed \in SUBSET Records
    /\ refused \in SUBSET Records
    /\ seen \in [{"rejects", "targets", "lineage"} -> SUBSET Rows]
    /\ \A c \in {"rejects", "targets", "lineage"} : IsFiniteSet(seen[c])
    /\ failures \in Nat /\ bundleRetries \in Nat /\ clears \in Nat /\ rebuilds \in Nat

LaneInit ==
    /\ dag = "running" /\ task = FileProcessor /\ tries = 0 /\ pc = "queued"
    /\ rows = [t \in Tables |-> {}] /\ ledger = FALSE
    /\ due = {} /\ written = 0 /\ orphans = <<>>
    /\ json = {} /\ offered = {} /\ confirmed = {} /\ refused = {}
    /\ seen = [c \in {"rejects", "targets", "lineage"} |-> {}]
    /\ failures = 0 /\ bundleRetries = 0 /\ clears = 0 /\ rebuilds = 0

-----------------------------------------------------------------------------
(* Tasks.                                                                  *)

FirstStep(t) ==
    CASE t = FileProcessor -> "purgeSrc"
      [] t = DataformRun -> "rebuild"
      [] t = DataEnrichment -> "purgeEnriched"
      [] t = JsonProducer -> "purgeTarget"
      [] t = LoaderApp -> "offer"
      [] t = Reconciliation -> "countRejects"
      [] t = BalanceGate -> "gate"

(* Airflow starts an attempt of the current task.                          *)
StartTask ==
    /\ dag = "running" /\ pc = "queued"
    /\ tries' = tries + 1
    /\ pc' = FirstStep(task)
    /\ UNCHANGED <<dag, task, tableVars, jobVars, loadVars, seen, counters>>

GoTo(step) == pc' = step /\ UNCHANGED <<dag, task, tries>>

(* Mutant: the last task of the DAG has a successor.                       *)
Succeed_PastTheGate ==
    pc' = "queued" /\ tries' = 0 /\ task' = task + 1 /\ UNCHANGED dag

(* The attempt ends well, and the next task may start.                     *)
Succeed ==
    /\ pc' = "queued" /\ tries' = 0
    /\ IF task = BalanceGate THEN dag' = "success" /\ UNCHANGED task
                             ELSE task' = task + 1 /\ UNCHANGED dag

(* The attempt fails: another one, or the end of the run.                  *)
Fail ==
    /\ pc' = "queued"
    /\ dag' = IF tries > Retries THEN "failed" ELSE "running"
    /\ UNCHANGED <<task, tries>>

(* An exception out of any statement, or the loss of the pod.  The job it  *)
(* has submitted runs on.                                                  *)
AttemptFails ==
    /\ dag = "running" /\ pc # "queued"
    /\ failures < MaxFailures
    /\ failures' = failures + 1
    /\ Fail
    /\ orphans' = IF due = {} THEN orphans ELSE Append(orphans, due)
    /\ due' = {}
    /\ UNCHANGED <<tableVars, written, loadVars, seen, bundleRetries, clears,
                   rebuilds>>

(* An operator clears a task and what follows it, after the run has ended. *)
Clear(n) ==
    /\ dag # "running"
    /\ clears < MaxClears
    /\ clears' = clears + 1
    /\ n <= task
    /\ dag' = "running" /\ task' = n /\ tries' = 0 /\ pc' = "queued"
    /\ UNCHANGED <<tableVars, jobVars, loadVars, seen, failures,
                   bundleRetries, rebuilds>>

-----------------------------------------------------------------------------
(* The rerun discipline: each stage deletes what it is about to write.     *)

PurgeSteps == {"purgeSrc", "purgeRejects", "purgeLineage", "purgeEnriched",
               "purgeTarget", "purgeLateRejects", "purgeLateLineage"}

PurgedTable(step) ==
    CASE step = "purgeSrc" -> "src"
      [] step \in {"purgeRejects", "purgeLateRejects"} -> "rejectLog"
      [] step \in {"purgeLineage", "purgeLateLineage"} -> "lineage"
      [] step = "purgeEnriched" -> "enriched"
      [] step = "purgeTarget" -> "target"

(* Mutant: the JSON producer's DELETE without its stage predicate.         *)
PurgedRecords_AllStages(step) == Records

(* The JSON producer deletes only the rejects of stages map and schema.    *)
PurgedRecords(step) ==
    IF step \in {"purgeLateRejects", "purgeLateLineage"} THEN MapRejects ELSE Records

AfterPurge(step) ==
    CASE step = "purgeSrc" -> "purgeRejects"
      [] step = "purgeRejects" -> "purgeLineage"
      [] step = "purgeTarget" -> "purgeLateRejects"
      [] step = "purgeLateRejects" -> "purgeLateLineage"
      [] step \in {"purgeLineage", "purgeEnriched", "purgeLateLineage"} -> "submit"

Purged(step) == {x \in rows[PurgedTable(step)] : x[1] \in PurgedRecords(step)}

PurgeOldRows ==
    /\ dag = "running" /\ pc \in PurgeSteps
    /\ rows' = [rows EXCEPT ![PurgedTable(pc)] = @ \ Purged(pc)]
    /\ GoTo(AfterPurge(pc))
    /\ UNCHANGED <<ledger, jobVars, loadVars, seen, counters>>

(* The file processor counts first and deletes only what is there.  The    *)
(* other DELETEs are unconditional.                                        *)
IssuesDelete ==
    \/ pc \in {"purgeSrc", "purgeRejects", "purgeLineage"} /\ Purged(pc) # {}
    \/ pc \in {"purgeEnriched", "purgeTarget", "purgeLateRejects", "purgeLateLineage"}
    \/ pc = "dropLedger"

(* BigQuery refuses a DELETE while the table has a streaming buffer: this  *)
(* run or another one has streamed into it in the last 90 minutes.         *)
DeleteRefused ==
    /\ dag = "running"
    /\ IssuesDelete
    /\ failures < MaxFailures
    /\ failures' = failures + 1
    /\ Fail
    /\ UNCHANGED <<tableVars, jobVars, loadVars, seen, bundleRetries, clears, rebuilds>>

-----------------------------------------------------------------------------
(* Dataflow jobs.                                                          *)

RowsFor(t, S) == {<<t, x>> : x \in S}
Firsts(R) == {<<r, 0>> : r \in R}

(* What the stage's job has to write.  The file processor reads the        *)
(* bundle; the other two query their source table before they submit.      *)
JobOutput ==
    CASE task = FileProcessor ->
            RowsFor("src", Firsts(Parsed)) \cup RowsFor("rejectLog", Firsts(ParseRejects))
                \cup RowsFor("lineage", Firsts(ParseRejects))
      [] task = DataEnrichment -> RowsFor("enriched", rows["curated"])
      [] task = JsonProducer ->
            RowsFor("target", {x \in rows["enriched"] : x[1] \in Good})
                \cup RowsFor("rejectLog", {x \in rows["enriched"] : x[1] \in MapRejects})
                \cup RowsFor("lineage", {x \in rows["enriched"] : x[1] \in MapRejects})
      [] OTHER -> {}

SubmitJob ==
    /\ dag = "running" /\ pc = "submit"
    /\ due' = JobOutput
    /\ written' = Cardinality({d \in JobOutput : d[1] = "target"})
    /\ GoTo("run")
    /\ UNCHANGED <<tableVars, orphans, loadVars, seen, counters>>

(* A row in its table: a new copy, whatever the table has already.         *)
AddRow(t, r) ==
    rows' = [rows EXCEPT ![t] = @ \cup {<<r, Cardinality(RowsOf(@, r))>>}]

(* One row is written; its bundle is committed, or will be retried.        *)
WriteRow ==
    /\ \E d \in due :
          /\ AddRow(d[1], d[2][1])
          /\ \/ due' = due \ {d} /\ UNCHANGED bundleRetries
             \/ /\ bundleRetries < MaxBundleRetries
                /\ bundleRetries' = bundleRetries + 1
                /\ UNCHANGED due
    /\ UNCHANGED <<dagVars, ledger, written, orphans, loadVars, seen, failures,
                   clears, rebuilds>>

(* A job whose pod is gone goes on writing.                                *)
OrphanWrites ==
    /\ \E j \in 1..Len(orphans) : \E d \in orphans[j] :
          /\ AddRow(d[1], d[2][1])
          /\ orphans' = [orphans EXCEPT ![j] = @ \ {d}]
    /\ UNCHANGED <<dagVars, ledger, due, written, loadVars, seen, counters>>

(* Mutant: pipeline.run() without wait_until_finish().                     *)
JobFinishes_NoWait ==
    /\ dag = "running" /\ pc = "run"
    /\ \/ task = FileProcessor /\ GoTo("dropLedger")
       \/ task = DataEnrichment /\ Succeed
       \/ task = JsonProducer /\ GoTo("emit")
    /\ UNCHANGED <<tableVars, jobVars, loadVars, seen, counters>>

(* wait_until_finish returns.  The metrics are those of the committed      *)
(* bundles, so require_balance and the lost-rows check of the enrichment   *)
(* hold.                                                                   *)
JobFinishes ==
    /\ dag = "running" /\ pc = "run" /\ due = {}
    /\ \/ task = FileProcessor /\ GoTo("dropLedger")
       \/ task = DataEnrichment /\ Succeed
       \/ task = JsonProducer /\ GoTo("emit")
    /\ UNCHANGED <<tableVars, jobVars, loadVars, seen, counters>>

-----------------------------------------------------------------------------
(* What follows the jobs.                                                  *)

(* The run_ledger row: dropped, then inserted.  balanced is TRUE whenever  *)
(* the row is written at all, so the row's presence is all it says.        *)
DropLedger ==
    /\ dag = "running" /\ pc = "dropLedger"
    /\ ledger' = FALSE
    /\ GoTo("insertLedger")
    /\ UNCHANGED <<rows, jobVars, loadVars, seen, counters>>

InsertLedger ==
    /\ dag = "running" /\ pc = "insertLedger"
    /\ ledger' = TRUE
    /\ Succeed
    /\ UNCHANGED <<rows, jobVars, loadVars, seen, counters>>

(* CREATE OR REPLACE TABLE account_curated: every row of this run in       *)
(* account_src, and no row of any other run.                               *)
RebuildCurated ==
    /\ dag = "running" /\ pc = "rebuild"
    /\ rows' = [rows EXCEPT !["curated"] = rows["src"]]
    /\ Succeed
    /\ UNCHANGED <<ledger, jobVars, loadVars, seen, counters>>

(* Another run, of the DAG before a clear or from an operator's laptop,    *)
(* rebuilds the one table for itself.                                      *)
OtherRunRebuilds ==
    /\ rebuilds < MaxRebuilds
    /\ rebuilds' = rebuilds + 1
    /\ rows' = [rows EXCEPT !["curated"] = {}]
    /\ UNCHANGED <<dagVars, ledger, jobVars, loadVars, seen, failures,
                   bundleRetries, clears>>

(* The checks after the emit loop: as many documents as were written.      *)
EmittedMatchesWritten == Cardinality(rows["target"]) = written

(* Files of an earlier attempt with more batches stay under json/<run>/.   *)
KeepsStale(files) == \E stale \in SUBSET json : json' = files \cup stale

(* Batches go to Kafka, then to their file, and are counted at the end.    *)
EmitBatches ==
    /\ dag = "running" /\ pc = "emit"
    /\ EmittedMatchesWritten
    /\ offered' = offered \cup RecordsIn(rows["target"])
    /\ KeepsStale(RecordsIn(rows["target"]))
    /\ Succeed
    /\ UNCHANGED <<tableVars, jobVars, confirmed, refused, seen, counters>>

(* Some batches are out when a sink raises, or all when the count does.    *)
EmitFails ==
    /\ dag = "running" /\ pc = "emit"
    /\ \E sent \in SUBSET RecordsIn(rows["target"]), filed \in SUBSET RecordsIn(rows["target"]) :
          /\ filed \subseteq sent
          /\ offered' = offered \cup sent
          /\ KeepsStale(filed)
          /\ \/ failures < MaxFailures /\ failures' = failures + 1
             \/ /\ ~EmittedMatchesWritten
                /\ filed = RecordsIn(rows["target"])
                /\ UNCHANGED failures
    /\ Fail
    /\ UNCHANGED <<tableVars, jobVars, confirmed, refused, seen, bundleRetries,
                   clears, rebuilds>>

-----------------------------------------------------------------------------
(* The load.                                                               *)

(* The Target System applies a document and confirms it (TargetIntake).    *)
TargetConfirms ==
    /\ \E r \in offered \ confirmed : confirmed' = confirmed \cup {r}
    /\ UNCHANGED <<dagVars, tableVars, jobVars, json, offered, refused, seen, counters>>

(* Or it rejects the document for good, for want of an account id or a     *)
(* key.  That it may answer another copy otherwise only adds behaviour.    *)
TargetRefuses ==
    /\ \E r \in offered \ refused : refused' = refused \cup {r}
    /\ UNCHANGED <<dagVars, tableVars, jobVars, json, offered, confirmed, seen,
                   counters>>

(* The loader publishes every document it finds, or throws for lack of     *)
(* files.                                                                  *)
OfferDocuments ==
    /\ dag = "running" /\ pc = "offer"
    /\ json # {}
    /\ offered' = offered \cup json
    /\ GoTo("settle")
    /\ UNCHANGED <<tableVars, jobVars, json, confirmed, refused, seen, counters>>

(* It exits 0 when each of them has its verdict, a rejection included      *)
(* (LoaderSettle): that a document was refused is for reconciliation.      *)
Settle ==
    /\ dag = "running" /\ pc = "settle"
    /\ json \subseteq confirmed \cup refused
    /\ Succeed
    /\ UNCHANGED <<tableVars, jobVars, loadVars, seen, counters>>

(* Mutant: the settle loop has no deadline.                                *)
LoadFails_NoDeadline ==
    /\ dag = "running" /\ pc = "offer" /\ json = {}
    /\ Fail
    /\ UNCHANGED <<tableVars, jobVars, loadVars, seen, counters>>

(* No files, or the settle deadline.                                       *)
LoadFails ==
    /\ dag = "running"
    /\ \/ pc = "offer" /\ json = {}
       \/ pc = "settle" /\ ~(json \subseteq confirmed \cup refused)
    /\ Fail
    /\ UNCHANGED <<tableVars, jobVars, loadVars, seen, counters>>

-----------------------------------------------------------------------------
(* Reconciliation: one query after another, and the verdict.               *)

Count(step, what, next, table) ==
    /\ dag = "running" /\ pc = step
    /\ seen' = [seen EXCEPT ![what] = rows[table]]
    /\ GoTo(next)
    /\ UNCHANGED <<tableVars, jobVars, loadVars, counters>>

CountRejects == Count("countRejects", "rejects", "countTargets", "rejectLog")
CountTargets == Count("countTargets", "targets", "checkOrphans", "target")
CountLineage == Count("countLineage", "lineage", "matchConfirmations", "lineage")

(* orphanTargets: every TARGET row has a SRC row.  The verdict on it comes *)
(* with the others after the last query; to fail at once leaves the same   *)
(* state behind.                                                           *)
NoOrphanTargets == RecordsIn(rows["target"]) \subseteq RecordsIn(rows["src"])

CheckOrphans ==
    /\ dag = "running" /\ pc = "checkOrphans"
    /\ NoOrphanTargets
    /\ GoTo("readLedger")
    /\ UNCHANGED <<tableVars, jobVars, loadVars, seen, counters>>

ReadLedger ==
    /\ dag = "running" /\ pc = "readLedger"
    /\ ledger
    /\ GoTo("countLineage")
    /\ UNCHANGED <<tableVars, jobVars, loadVars, seen, counters>>

(* Mutant: the imbalance is tolerated in one direction.                    *)
Balances_AtLeast ==
    Cardinality(Records) <= Cardinality(seen["targets"]) + Cardinality(seen["rejects"])

(* srcRead is what the extractor's report says; the rest was counted.      *)
Balances ==
    Cardinality(Records) = Cardinality(seen["targets"]) + Cardinality(seen["rejects"])
LedgerAgreesWithLineage == Cardinality(seen["lineage"]) = Cardinality(seen["rejects"])
AllConfirmed == RecordsIn(rows["target"]) \subseteq confirmed

MatchConfirmations ==
    /\ dag = "running" /\ pc = "matchConfirmations"
    /\ Balances /\ LedgerAgreesWithLineage /\ AllConfirmed
    /\ Succeed
    /\ UNCHANGED <<tableVars, jobVars, loadVars, seen, counters>>

ReconFails ==
    /\ dag = "running"
    /\ \/ pc = "checkOrphans" /\ ~NoOrphanTargets
       \/ pc = "readLedger" /\ ~ledger
       \/ /\ pc = "matchConfirmations"
          /\ ~(Balances /\ LedgerAgreesWithLineage /\ AllConfirmed)
    /\ Fail
    /\ UNCHANGED <<tableVars, jobVars, loadVars, seen, counters>>

(* assert_run_balanced: a row, and its balanced column, which is TRUE.     *)
AssertRunBalanced ==
    /\ dag = "running" /\ pc = "gate"
    /\ IF ledger THEN Succeed ELSE Fail
    /\ UNCHANGED <<tableVars, jobVars, loadVars, seen, counters>>

-----------------------------------------------------------------------------
TaskStep ==
    \/ StartTask
    \/ PurgeOldRows
    \/ SubmitJob
    \/ WriteRow
    \/ JobFinishes
    \/ DropLedger
    \/ InsertLedger
    \/ RebuildCurated
    \/ EmitBatches
    \/ EmitFails
    \/ OfferDocuments
    \/ Settle
    \/ LoadFails
    \/ CountRejects
    \/ CountTargets
    \/ CheckOrphans
    \/ ReadLedger
    \/ CountLineage
    \/ MatchConfirmations
    \/ ReconFails
    \/ AssertRunBalanced

Next ==
    \/ TaskStep
    \/ AttemptFails
    \/ DeleteRefused
    \/ OrphanWrites
    \/ TargetConfirms
    \/ TargetRefuses
    \/ OtherRunRebuilds
    \/ \E n \in FileProcessor..BalanceGate : Clear(n)

Spec == LaneInit /\ [][Next]_vars

(* Airflow schedules the task, its pod runs, and Dataflow drives a job to  *)
(* its end.                                                                *)
FairSpec == Spec /\ WF_vars(TaskStep)

-----------------------------------------------------------------------------
(* Properties.                                                             *)

NoneTwice(S) == \A x, y \in S : x[1] = y[1] => x = y
ExactlyOnce(S, R) == RecordsIn(S) = R /\ NoneTwice(S)

(* The table that each snapshot of reconciliation counts.                  *)
CountedTable == [rejects |-> "rejectLog", targets |-> "target", lineage |-> "lineage"]

(* What reconciliation counted, in a run that it has passed.  Each record  *)
(* is counted behind its own door, if at all, and no parse reject is       *)
(* missing there or in the register.  Where account_curated was not        *)
(* rebuilt under the run, the counts leave no room: each record was        *)
(* counted exactly once, whatever pods, jobs and operators did.  After a   *)
(* rebuild the counts can still balance with a record missing, but only if *)
(* some other row was doubled.  All this is over the snapshots.  They are  *)
(* the tables themselves while no dead pod has left a job behind; a row    *)
(* such a job adds after its table was counted is in none of them.         *)
OneDoor ==
    task = BalanceGate =>
        /\ RecordsIn(seen["targets"]) \subseteq Good
        /\ \A c \in {"rejects", "lineage"} :
              /\ ParseRejects \subseteq RecordsIn(seen[c])
              /\ RecordsIn(seen[c]) \subseteq Rejects
        /\ rebuilds = 0 \/ (\A c \in DOMAIN seen : NoneTwice(seen[c])) =>
              /\ ExactlyOnce(seen["targets"], Good)
              /\ ExactlyOnce(seen["rejects"], Rejects)
              /\ ExactlyOnce(seen["lineage"], Rejects)
        /\ orphans = <<>> => \A c \in DOMAIN seen : seen[c] = rows[CountedTable[c]]

Covers(t, R) == R \subseteq RecordsIn(rows[t])

(* No stage loses a record: once a stage is done, each record it handles   *)
(* has a row where the stage puts it, and keeps it until the stage runs    *)
(* again.                                                                  *)
NothingLost ==
    /\ task > FileProcessor =>
          /\ Covers("src", Parsed)
          /\ Covers("rejectLog", ParseRejects)
          /\ Covers("lineage", ParseRejects)
          /\ ledger
    /\ rebuilds = 0 =>
          /\ task > DataformRun => Covers("curated", Parsed)
          /\ task > DataEnrichment => Covers("enriched", Parsed)
          /\ task > JsonProducer =>
                /\ Covers("target", Good)
                /\ Covers("rejectLog", Rejects)
                /\ Covers("lineage", Rejects)
                /\ Good \subseteq json

(* The task that writes a record's row in a table.                         *)
WriterOf(t, r) ==
    CASE t = "src" -> FileProcessor
      [] t = "curated" -> DataformRun
      [] t = "enriched" -> DataEnrichment
      [] t = "target" -> JsonProducer
      [] t \in {"rejectLog", "lineage"} ->
            IF r \in ParseRejects THEN FileProcessor ELSE JsonProducer

(* A stage deletes no row that it, or a stage after it, will not write     *)
(* again: a task cleared on its own leaves the rows of the earlier ones.   *)
PurgesItsOwn ==
    [][\A t \in Tables : \A x \in rows[t] \ rows'[t] :
          task <= WriterOf(t, x[1]) \/ rebuilds' > rebuilds]_vars

(* The DAG run ends, well or not.                                          *)
RunEnds == dag = "running" ~> dag # "running"

(* "Key-level: every TARGET key must trace back to an Extraction key, and  *)
(* vice versa" (ReconService): a run that passes reconciliation has a      *)
(* target row or a reject row for every record in account_src.             *)
KeysTraceBothWays ==
    task = BalanceGate =>
        RecordsIn(rows["src"]) \subseteq RecordsIn(seen["targets"]) \cup RecordsIn(seen["rejects"])
=============================================================================
