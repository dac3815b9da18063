------------------------------- MODULE FileLane -------------------------------
(***************************************************************************)
(* The way of the records into the lane: the Extractor, which splits an    *)
(* extract and lands it as one encrypted bundle under a semaphore, and the *)
(* File Processor, whose job reads the bundle, publishes the artefacts in  *)
(* it, parses every line and writes rows and tallies.  Then the in-memory  *)
(* router of RouterBatches goes over the same lines.                       *)
(*                                                                         *)
(* The extractor may run again, with another extract, at any time; a Beam  *)
(* bundle may be retried, a pod may die under a job that runs on, and an   *)
(* operator may clear the task.  Every count that reconciliation compares  *)
(* starts here.                                                            *)
(***************************************************************************)
EXTENDS RouterBatches

CONSTANTS
    Contracts,      \* the contracts a run may have
    Sources,        \* the extracts: sequences of lines, the header first
    Blank,          \* the empty line
    SplitSize,      \* --split
    RowBatch,       \* rows of a table that are written in one call
    BundleTries,    \* tries of a Beam bundle before the job fails
    MaxAttempts,    \* bound: attempts of the task, clears included
    MaxExtracts,    \* bound: runs of the extractor
    MaxFaults       \* bound: bundles failed, archives damaged and jobs left behind

ASSUME SizesArePositive == {SplitSize, RowBatch, BundleTries} \subseteq Nat \ {0}
ASSUME FileBoundsAreNat == {MaxAttempts, MaxExtracts, MaxFaults} \subseteq Nat
ASSUME SourcesAreLines ==
    /\ \A source \in Sources :
          /\ source \in Seq({source[k] : k \in DOMAIN source})
          /\ \A k \in DOMAIN source : source[k].cells \in Seq(Cells)
    /\ IsBlank(Blank)

VARIABLES
    extractor,  \* "idle", or "stored": the bundle is up and the semaphore is not
    landing,    \* the landing bucket: [bundle, flg]
    recon,      \* the artefacts in the clear: [rpt, chs, err]
    job,        \* the File Processor's job: its place and what it holds
    stray,      \* a job whose pod has died, and its bundle
    tables,     \* rows of this run: [src, rejects, lineage]
    ledger,     \* the row in run_ledger, or None
    attempts, extracts, faults   \* counters for the bounds

counters == <<attempts, extracts, faults>>
fileVars == <<extractor, landing, recon, job, stray, tables, ledger, counters>>
vars == <<mapping, batchVars, fileVars>>

NoRows == [src |-> <<>>, rejects |-> <<>>, lineage |-> <<>>]
Artefacts == <<"rpt", "chs", "err">>
IdleJob == [pc |-> "idle", bundle |-> None, todo |-> <<>>, read |-> 0, written |-> 0,
            rejected |-> 0, out |-> NoRows, tries |-> 0]

Init ==
    /\ mapping \in {LoadMapping(c) : c \in Contracts}
    /\ BatchInit
    /\ extractor = "idle"
    /\ landing = [bundle |-> None, flg |-> FALSE]
    /\ recon = [a \in {"rpt", "chs", "err"} |-> None]
    /\ job = IdleJob /\ stray = [pc |-> "none", bundle |-> None]
    /\ tables = NoRows /\ ledger = None
    /\ attempts = 0 /\ extracts = 0 /\ faults = 0

(* A step of the lane.  The router shares no state with it and goes over   *)
(* its lines when the lane has come to rest: the two do not interleave.    *)
LaneOnly == generator = "unstarted" /\ UNCHANGED <<mapping, batchVars>>

-----------------------------------------------------------------------------
(* The Extractor.                                                          *)

(* The first line is the header, by position; blank lines are skipped and  *)
(* rows with a NUL byte are diverted to .ERR.  Rows that a test diverts on *)
(* purpose (--inject-extract-errors) are left out.                         *)
Body(source) == IF source = <<>> THEN <<>> ELSE Tail(source)
Extracted(source) ==
    LET body == Body(source)
    IN  ElementsAt(body, {k \in DOMAIN body : body[k].form \notin {"blank", "nul"}})
ExtractErrors(source) ==
    LET body == Body(source)
    IN  ElementsAt(body, {k \in DOMAIN body : body[k].form = "nul"})

Parts(n) == (n + SplitSize - 1) \div SplitSize

(* The .DAT members.  There is always one: without records it holds an     *)
(* empty line.                                                             *)
Split(records) ==
    IF records = <<>> THEN <<<<Blank>>>>
    ELSE [i \in 1..Parts(Len(records)) |->
            SubSeq(records, (i - 1) * SplitSize + 1, Least(i * SplitSize, Len(records)))]

(* The archive.  A checksum stands for the content it was computed from.   *)
MakeBundle(source) ==
    [dats |-> Split(Extracted(source)),
     chs |-> Split(Extracted(source)),
     err |-> ExtractErrors(source),
     rpt |-> [recordsWritten |-> Len(Extracted(source)),
              extractionErrors |-> Len(ExtractErrors(source))]]

Extract(source) ==
    /\ extractor = "idle" /\ extracts < MaxExtracts
    /\ extracts' = extracts + 1
    /\ landing' = [landing EXCEPT !.bundle = MakeBundle(source)]
    /\ extractor' = "stored"
    /\ LaneOnly /\ UNCHANGED <<recon, job, stray, tables, ledger, attempts, faults>>

(* The semaphore goes up last.                                             *)
RaiseFlag ==
    /\ extractor = "stored"
    /\ landing' = [landing EXCEPT !.flg = TRUE]
    /\ extractor' = "idle"
    /\ LaneOnly /\ UNCHANGED <<recon, job, stray, tables, ledger, counters>>

ExtractorDies ==
    /\ extractor = "stored"
    /\ extractor' = "idle"
    /\ LaneOnly /\ UNCHANGED <<landing, recon, job, stray, tables, ledger, counters>>

(* A member of the archive is lost, or is not what the manifest says.      *)
Damage ==
    /\ faults < MaxFaults /\ landing.bundle # None
    /\ faults' = faults + 1
    /\ \E i \in DOMAIN landing.bundle.dats :
          \/ landing' = [landing EXCEPT !.bundle.dats =
                           [j \in DOMAIN @ \ {i} |-> @[j]]]
          \/ landing' = [landing EXCEPT !.bundle.dats[i] = <<Blank>> \o Tail(@)]
    /\ LaneOnly /\ UNCHANGED <<extractor, recon, job, stray, tables, ledger, attempts, extracts>>

-----------------------------------------------------------------------------
(* ReadBundleFn.                                                           *)

Verified(b) == \A i \in DOMAIN b.chs : i \in DOMAIN b.dats /\ b.dats[i] = b.chs[i]

(* The lines of every .DAT member in the order of the names, each with the *)
(* name of its file.                                                       *)
LinesOf(b) ==
    FlattenSeq([i \in DOMAIN b.chs |->
        IF i \in DOMAIN b.dats
        THEN [k \in DOMAIN b.dats[i] |-> [file |-> i, line |-> b.dats[i][k]]] ELSE <<>>])
RecordsOf(b) ==
    LET lines == LinesOf(b)
    IN  ElementsAt(lines, {k \in DOMAIN lines : ~Skipped(lines[k].line)})

Running == {"flag", "get", "rpt", "chs", "err", "lines", "uncaught"}

(* An attempt of the task: the contract is loaded and this run's rows are  *)
(* deleted before the job is submitted.                                    *)
StartAttempt ==
    /\ job.pc \in {"idle", "done"} /\ attempts < MaxAttempts
    /\ attempts' = attempts + 1
    /\ IF mapping # None
       THEN job' = [IdleJob EXCEPT !.pc = "flag"] /\ tables' = NoRows
       ELSE job' = IdleJob /\ UNCHANGED tables
    /\ LaneOnly /\ UNCHANGED <<extractor, landing, recon, stray, ledger, extracts, faults>>

(* The next place of a job that reads the bundle, or None when it raises.  *)
AfterRead(pc, bundle) ==
    CASE pc = "flag" -> IF landing.flg THEN "get" ELSE None
      [] pc = "get" -> IF Verified(landing.bundle) THEN "rpt" ELSE None
      [] pc = "rpt" -> "chs"
      [] pc = "chs" -> "err"
      [] pc = "err" -> "lines"

(* Mutant: the artefacts are those of the bundle that is there now.        *)
Published_Now(pc, bundle) ==
    IF pc \in DOMAIN recon THEN [recon EXCEPT ![pc] = landing.bundle[pc]] ELSE recon

(* The artefacts go to the recon bucket, one put after the other.          *)
Published(pc, bundle) ==
    IF pc \in DOMAIN recon THEN [recon EXCEPT ![pc] = bundle[pc]] ELSE recon

ReadBundle ==
    /\ job.pc \in {"flag", "get", "rpt", "chs", "err"}
    /\ AfterRead(job.pc, job.bundle) # None
    /\ LET bundle == IF job.pc = "get" THEN landing.bundle ELSE job.bundle
       IN  job' = [job EXCEPT !.pc = AfterRead(job.pc, job.bundle), !.bundle = bundle,
                              !.todo = IF job.pc = "err" THEN RecordsOf(bundle) ELSE <<>>]
    /\ recon' = Published(job.pc, job.bundle)
    /\ LaneOnly /\ UNCHANGED <<extractor, landing, stray, tables, ledger, counters>>

-----------------------------------------------------------------------------
(* ParseFn, the writers, and the end of the job.                           *)

SrcRow(e) == [key |-> e.line, file |-> e.file]
RejectRow(outcome) == [raw |-> outcome.line, reason |-> outcome.reason]
LineageRow(outcome) == [name |-> LineageName(outcome), reason |-> outcome.reason]

(* The next line: counted as read, and handed to one of the outputs.       *)
ParseNext ==
    /\ job.pc = "lines" /\ job.todo # <<>>
    /\ \A t \in DOMAIN tables : Len(job.out[t]) < RowBatch
    /\ LET e == Head(job.todo)
           outcome == RouteIntake(mapping, e.line)
       IN  CASE outcome.reason = Uncaught -> job' = [job EXCEPT !.pc = "uncaught"]
             [] outcome.door = "written" ->
                  job' = [job EXCEPT !.todo = Tail(@), !.read = @ + 1, !.written = @ + 1,
                                     !.out.src = Append(@, SrcRow(e))]
             [] OTHER ->
                  job' = [job EXCEPT !.todo = Tail(@), !.read = @ + 1, !.rejected = @ + 1,
                                     !.out.rejects = Append(@, RejectRow(outcome)),
                                     !.out.lineage = Append(@, LineageRow(outcome))]
    /\ LaneOnly /\ UNCHANGED <<extractor, landing, recon, stray, tables, ledger, counters>>

(* A batch of rows is written: when it is full, or when the bundle ends.   *)
WriteBatch(t) ==
    /\ job.pc = "lines" /\ job.out[t] # <<>>
    /\ job.todo = <<>> \/ Len(job.out[t]) >= RowBatch
    /\ tables' = [tables EXCEPT ![t] = @ \o job.out[t]]
    /\ job' = [job EXCEPT !.out[t] = <<>>]
    /\ LaneOnly /\ UNCHANGED <<extractor, landing, recon, stray, ledger, counters>>

(* Mutant: a try too many.                                                 *)
RetryOrFail_OneMore ==
    job' = IF job.tries < BundleTries
           THEN [IdleJob EXCEPT !.pc = "flag", !.tries = job.tries + 1]
           ELSE IdleJob

(* Mutant: the counters of a failed try are not discarded with it.         *)
RetryOrFail_KeepsCounts ==
    job' = IF job.tries + 1 < BundleTries
           THEN [IdleJob EXCEPT !.pc = "flag", !.tries = job.tries + 1, !.read = job.read,
                                !.written = job.written, !.rejected = job.rejected]
           ELSE IdleJob

(* An exception in the bundle: its counters and buffers are gone, what it  *)
(* has written stays; it is tried again until the job fails.               *)
RetryOrFail ==
    job' = IF job.tries + 1 < BundleTries
           THEN [IdleJob EXCEPT !.pc = "flag", !.tries = job.tries + 1]
           ELSE IdleJob

BundleRaises ==
    /\ \/ job.pc \in {"flag", "get"} /\ AfterRead(job.pc, job.bundle) = None
       \/ job.pc = "uncaught"
    /\ RetryOrFail
    /\ LaneOnly /\ UNCHANGED <<extractor, landing, recon, stray, tables, ledger, counters>>

BundleFails ==
    /\ job.pc \in Running \ {"uncaught"} /\ faults < MaxFaults
    /\ faults' = faults + 1
    /\ RetryOrFail
    /\ LaneOnly /\ UNCHANGED <<extractor, landing, recon, stray, tables, ledger, attempts, extracts>>

(* The job has ended: its counters balance, and the ledger row is replaced.*)
WriteLedger ==
    /\ job.pc = "lines" /\ job.todo = <<>> /\ job.out = NoRows
    /\ job.read = job.written + job.rejected
    /\ ledger' = [srcRead |-> job.read, written |-> job.written, rejected |-> job.rejected]
    /\ job' = [job EXCEPT !.pc = "done"]
    /\ LaneOnly /\ UNCHANGED <<extractor, landing, recon, stray, tables, counters>>

(* The pod dies and Dataflow runs the job on.  What a job left behind does *)
(* to the tables is in RunLane; here it publishes.                         *)
PodDies ==
    /\ job.pc \in Running \ {"lines", "uncaught"} /\ faults < MaxFaults /\ stray.pc = "none"
    /\ faults' = faults + 1
    /\ stray' = [pc |-> job.pc, bundle |-> job.bundle]
    /\ job' = IdleJob
    /\ LaneOnly /\ UNCHANGED <<extractor, landing, recon, tables, ledger, attempts, extracts>>

StrayReads ==
    /\ stray.pc \in {"flag", "get", "rpt", "chs", "err"}
    /\ AfterRead(stray.pc, stray.bundle) # None
    /\ stray' = [pc |-> AfterRead(stray.pc, stray.bundle),
                 bundle |-> IF stray.pc = "get" THEN landing.bundle ELSE stray.bundle]
    /\ recon' = Published(stray.pc, stray.bundle)
    /\ LaneOnly /\ UNCHANGED <<extractor, landing, job, tables, ledger, counters>>

(* A step of the router, which leaves the lane alone.                      *)
RouterStep == UNCHANGED <<mapping, fileVars>>

(* The router of the smoke tests and the recon checks, over the lines the  *)
(* job has read.                                                           *)
StartRouter ==
    /\ job.pc = "done"
    /\ StartBatches([k \in DOMAIN LinesOf(job.bundle) |-> LinesOf(job.bundle)[k].line])
    /\ RouterStep

-----------------------------------------------------------------------------
Next ==
    \/ \E source \in Sources : Extract(source)
    \/ RaiseFlag
    \/ ExtractorDies
    \/ Damage
    \/ StartAttempt
    \/ ReadBundle
    \/ ParseNext
    \/ \E t \in {"src", "rejects", "lineage"} : WriteBatch(t)
    \/ BundleRaises
    \/ BundleFails
    \/ WriteLedger
    \/ PodDies
    \/ StrayReads
    \/ StartRouter
    \/ SkipLine /\ RouterStep
    \/ RouteNext /\ RouterStep
    \/ RouteRaises /\ RouterStep
    \/ EndOfInput /\ RouterStep

Spec == Init /\ [][Next]_vars

-----------------------------------------------------------------------------
(* Properties.                                                             *)

(* Every variable keeps its type; a job past "get" holds a bundle whose    *)
(* files are the ones in its manifest.                                     *)
FileLaneTypeOK ==
    /\ mapping \in {LoadMapping(c) : c \in Contracts}
    /\ extractor \in {"idle", "stored"}
    /\ landing.flg \in BOOLEAN
    /\ job.pc \in Running \cup {"idle", "done"}
    /\ job.pc \in {"rpt", "chs", "err", "lines", "done"} => Verified(job.bundle)
    /\ {job.read, job.written, job.rejected, job.tries} \subseteq Nat
    /\ job.tries < BundleTries
    /\ \A t \in DOMAIN tables : \A k \in DOMAIN job.out[t] : job.pc \in {"lines", "uncaught"}
    /\ generator \in {"unstarted", "running", "exhausted", "raised"}
    /\ next \in 1..(Len(input) + 1) /\ current \in DOMAIN object
    /\ \A b \in DOMAIN yielded : yielded[b].entry \in 1..current

(* A job has ended well; the router that may follow changes nothing here.  *)
Committed == job.pc = "done" /\ generator = "unstarted"

(* The header is dropped by position upstream and by content downstream:   *)
(* an extract that repeats it has claimed a record that nobody reads.      *)
NoRepeatedHeader(b) == \A k \in DOMAIN LinesOf(b) : ~IsHeader(mapping, LinesOf(b)[k].line)

(* What the extractor claims in the .RPT that reconciliation reads is what *)
(* the ledger says was read from the bundle, and the three artefacts are   *)
(* those of that bundle, whatever the extractor replaced meanwhile; unless *)
(* a job left behind publishes another one.                                *)
ClaimHolds ==
    /\ Committed
    /\ stray.pc \in {"none", "flag", "get"} \/ stray.bundle = job.bundle
    => /\ \A a \in DOMAIN recon : recon[a] = job.bundle[a]
       /\ NoRepeatedHeader(job.bundle) => recon.rpt.recordsWritten = ledger.srcRead

RangeOf(q) == {q[k] : k \in DOMAIN q}

(* What the tables hold of a bundle that has been read once.               *)
RowsOf(b) ==
    LET read == RecordsOf(b)
        outcome == [k \in DOMAIN read |-> RouteIntake(mapping, read[k].line)]
        through(door) == {k \in DOMAIN read : outcome[k].door = door}
    IN  [src |-> ElementsAt([k \in DOMAIN read |-> SrcRow(read[k])], through("written")),
         rejects |-> ElementsAt([k \in DOMAIN read |-> RejectRow(outcome[k])], through("rejected")),
         lineage |-> ElementsAt([k \in DOMAIN read |-> LineageRow(outcome[k])], through("rejected"))]

(* The ledger counts the lines of one bundle once, however often its       *)
(* reading was tried, and each of them is in the table of its door, the    *)
(* rejected ones under a name in lineage too. Rows in excess of it come    *)
(* only from tries of the same attempt.                                    *)
LedgerIsBacked ==
    Committed =>
       LET rows == RowsOf(job.bundle)
       IN  /\ ledger = [srcRead |-> Len(RecordsOf(job.bundle)), written |-> Len(rows.src),
                        rejected |-> Len(rows.rejects)]
           /\ \A t \in DOMAIN tables : RangeOf(rows[t]) \subseteq RangeOf(tables[t])
           /\ job.tries = 0 => tables = rows

(* The in-memory path and the distributed one agree: over the same lines   *)
(* the router rejects at the parse what the File Processor rejected, for   *)
(* the same reasons, and what it decides about the others is what the JSON *)
(* producer decides about their curated rows, with or without a branch.    *)
RouterAgrees ==
    generator = "exhausted" =>
       LET rejects == FlattenSeq([b \in DOMAIN yielded |-> Batch(b).rejects])
           rows == RowsOf(job.bundle)
       IN  /\ ledger.srcRead = MapThenSumSet(LAMBDA b : Batch(b).srcRead, DOMAIN yielded)
           /\ ElementsAt(rejects, {k \in DOMAIN rejects : StageOf(rejects[k].reason) = "parse"})
                 = [k \in DOMAIN rows.rejects |->
                       [line |-> rows.rejects[k].raw, reason |-> rows.rejects[k].reason]]
           /\ \A k \in DOMAIN rows.src, branch \in {None, "ok"} :
                 MapCurated(mapping, rows.src[k].key, branch) = Route(mapping, rows.src[k].key)

(* A record leaves through one of the doors: no line ends the whole run.   *)
OnlyRecordErrors == job.pc # "uncaught"
=============================================================================
