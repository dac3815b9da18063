--------------------------- MODULE RunLane_proofs ---------------------------
(***************************************************************************)
(* Theorems about RunLane, for every set of records, every choice of the   *)
(* doors and every bound: no stage loses a record (NothingLost), no stage  *)
(* deletes what a later clear would miss (PurgesItsOwn), and what the      *)
(* counts of reconciliation leave open to a record (OneDoor).              *)
(*                                                                         *)
(* The inductive invariant says where an attempt can be (PlaceOK), what    *)
(* the rows and the job at work cover together (JobOwes), what the counts  *)
(* of reconciliation have covered so far (Snapshots), that no row lies or  *)
(* will lie behind the wrong door (RightDoors), and what a count taken     *)
(* says of its table (CountsOK).  That three counts then force a bijection *)
(* is a pigeonhole: from below where the tables cover their records, from  *)
(* above, after a foreign rebuild, where no record is counted twice.       *)
(***************************************************************************)
EXTENDS RunLane, FiniteSetTheorems, TLAPS

-----------------------------------------------------------------------------
(* The inductive invariant.                                                *)

Counts == {"rejects", "targets", "lineage"}

(* The statements of a task's attempt.                                     *)
StepsOf(t) ==
    CASE t = FileProcessor -> {"purgeSrc", "purgeRejects", "purgeLineage", "submit",
                               "run", "dropLedger", "insertLedger"}
      [] t = DataformRun -> {"rebuild"}
      [] t = DataEnrichment -> {"purgeEnriched", "submit", "run"}
      [] t = JsonProducer -> {"purgeTarget", "purgeLateRejects", "purgeLateLineage",
                              "submit", "run", "emit"}
      [] t = LoaderApp -> {"offer", "settle"}
      [] t = Reconciliation -> {"countRejects", "countTargets", "checkOrphans",
                                "readLedger", "countLineage", "matchConfirmations"}
      [] t = BalanceGate -> {"gate"}

(* An attempt executes its own task's statements, of a DAG run that runs,  *)
(* and only while it waits for its job does the job have rows to write.    *)
PlaceOK ==
    /\ pc = "queued" \/ (pc \in StepsOf(task) /\ dag = "running")
    /\ due # {} => pc = "run"

(* What the job of the current attempt has yet to write in a table.        *)
Owed(t) == {d[2][1] : d \in {e \in due : e[1] = t}}
Owes(t, R) == R \subseteq RecordsIn(rows[t]) \cup Owed(t)

(* From its submission to the end of the attempt, what a job handles is in *)
(* its table or will be.                                                   *)
JobOwes ==
    pc \in {"run", "dropLedger", "insertLedger", "emit"} =>
        /\ task = FileProcessor => /\ Owes("src", Parsed)
                                   /\ Owes("rejectLog", ParseRejects)
                                   /\ Owes("lineage", ParseRejects)
        /\ task = DataEnrichment /\ rebuilds = 0 => Owes("enriched", Parsed)
        /\ task = JsonProducer /\ rebuilds = 0 => /\ Owes("target", Good)
                                                  /\ Owes("rejectLog", MapRejects)
                                                  /\ Owes("lineage", MapRejects)

(* Each count of reconciliation was of a table that covered its records.   *)
Snapshots ==
    rebuilds = 0 =>
        /\ pc \in {"countTargets", "checkOrphans", "readLedger", "countLineage",
                   "matchConfirmations"} => Rejects \subseteq RecordsIn(seen["rejects"])
        /\ pc \in {"checkOrphans", "readLedger", "countLineage", "matchConfirmations"} =>
              Good \subseteq RecordsIn(seen["targets"])
        /\ pc = "matchConfirmations" => Rejects \subseteq RecordsIn(seen["lineage"])

(* The records whose rows may be in a table.                               *)
BehindDoor(t) ==
    CASE t = "target" -> Good
      [] t \in {"rejectLog", "lineage"} -> Rejects
      [] OTHER -> Records

(* Every row, and every row a job has yet to write, is behind its door;    *)
(* and so is every row that reconciliation has counted.                    *)
RightDoors ==
    /\ \A t \in Tables : RecordsIn(rows[t]) \subseteq BehindDoor(t)
    /\ \A d \in due : d[2][1] \in BehindDoor(d[1])
    /\ \A j \in 1..Len(orphans) : \A d \in orphans[j] : d[2][1] \in BehindDoor(d[1])
    /\ \A c \in Counts : RecordsIn(seen[c]) \subseteq BehindDoor(CountedTable[c])

(* The attempt of reconciliation, or the one that has passed, has taken a  *)
(* count.                                                                  *)
AfterCount(c) ==
    CASE c = "rejects" -> {"countTargets", "checkOrphans", "readLedger", "countLineage",
                           "matchConfirmations"}
      [] c = "targets" -> {"checkOrphans", "readLedger", "countLineage", "matchConfirmations"}
      [] c = "lineage" -> {"matchConfirmations"}
Counted(c) == task = BalanceGate \/ pc \in AfterCount(c)

(* A count taken has the parse rejects, and is its table still while no    *)
(* job has been left behind.                                               *)
CountsOK ==
    \A c \in Counts : Counted(c) =>
        /\ c # "targets" => ParseRejects \subseteq RecordsIn(seen[c])
        /\ orphans = <<>> => seen[c] = rows[CountedTable[c]]

(* A run that reconciliation has passed has every good record confirmed by *)
(* the Target System.                                                      *)
GoodIsConfirmed ==
    task = BalanceGate /\ rebuilds = 0 => Good \subseteq confirmed

(* The inductive invariant of the lane.                                    *)
LaneInv ==
    /\ LaneTypeOK
    /\ PlaceOK
    /\ JobOwes
    /\ NothingLost
    /\ Snapshots
    /\ RightDoors
    /\ CountsOK
    /\ OneDoor
    /\ GoodIsConfirmed

-----------------------------------------------------------------------------
(* Rows and their records.                                                 *)

(* Pairing each element of a finite set with a table leaves it finite.     *)
LEMMA RowsForFinite ==
    ASSUME NEW t, NEW S, IsFiniteSet(S)
    PROVE  IsFiniteSet(RowsFor(t, S))
<1> DEFINE f == [x \in S |-> <<t, x>>]
<1>1. f \in Surjection(S, RowsFor(t, S))
  BY DEF Surjection, RowsFor
<1>2. QED
  BY <1>1, FS_Surjection

(* The first copies of a finite set of records are finitely many rows.     *)
LEMMA FirstsFinite ==
    ASSUME NEW R \in SUBSET Records
    PROVE  /\ IsFiniteSet(Firsts(R))
           /\ Firsts(R) \subseteq Rows
           /\ RecordsIn(Firsts(R)) = R
<1> DEFINE f == [r \in R |-> <<r, 0>>]
<1>1. f \in Surjection(R, Firsts(R))
  BY DEF Surjection, Firsts
<1>2. IsFiniteSet(R)
  BY FS_Subset, DoorsAreDisjoint
<1>3. IsFiniteSet(Firsts(R))
  BY <1>1, <1>2, FS_Surjection
<1>4. Firsts(R) \subseteq Rows
  BY DEF Firsts, Rows
<1>5. RecordsIn(Firsts(R)) = R
  <2>1. \A r \in R : <<r, 0>>[1] = r
    OBVIOUS
  <2>2. ASSUME NEW r
        PROVE  r \in RecordsIn(Firsts(R)) <=> r \in R
    BY <2>1, Zenon DEF RecordsIn, Firsts
  <2>3. QED
    BY <2>2, Zenon
<1>6. QED
  BY <1>3, <1>4, <1>5

(* A table has at least as many rows as records, and as many only when no  *)
(* record has two.                                                         *)
LEMMA CountOfRows ==
    ASSUME NEW S, IsFiniteSet(S)
    PROVE  /\ IsFiniteSet(RecordsIn(S))
           /\ Cardinality(RecordsIn(S)) \in Nat
           /\ Cardinality(S) \in Nat
           /\ Cardinality(RecordsIn(S)) <= Cardinality(S)
           /\ Cardinality(RecordsIn(S)) = Cardinality(S) =>
                 \A x, y \in S : x[1] = y[1] => x = y
<1> DEFINE f == [x \in S |-> x[1]]
<1>1. f \in Surjection(S, RecordsIn(S))
  BY DEF Surjection, RecordsIn
<1>2. /\ IsFiniteSet(RecordsIn(S))
      /\ Cardinality(RecordsIn(S)) <= Cardinality(S)
      /\ Cardinality(RecordsIn(S)) = Cardinality(S) <=> f \in Injection(S, RecordsIn(S))
  BY <1>1, FS_Surjection
<1>3. f \in Injection(S, RecordsIn(S)) => \A x, y \in S : x[1] = y[1] => x = y
  BY DEF Injection, IsInjective
<1>4. QED
  BY <1>2, <1>3, FS_CardinalityType

(* A table with no more rows than the records it covers has each of them   *)
(* exactly once, and no other.                                             *)
LEMMA CoverIsExact ==
    ASSUME NEW S, IsFiniteSet(S), NEW R, R \subseteq RecordsIn(S),
           Cardinality(S) <= Cardinality(R)
    PROVE  ExactlyOnce(S, R)
<1>1. /\ IsFiniteSet(RecordsIn(S))
      /\ Cardinality(RecordsIn(S)) \in Nat
      /\ Cardinality(S) \in Nat
      /\ Cardinality(RecordsIn(S)) <= Cardinality(S)
      /\ Cardinality(RecordsIn(S)) = Cardinality(S) =>
            \A x, y \in S : x[1] = y[1] => x = y
  BY CountOfRows
<1>2. /\ IsFiniteSet(R)
      /\ Cardinality(R) <= Cardinality(RecordsIn(S))
      /\ Cardinality(RecordsIn(S)) = Cardinality(R) => RecordsIn(S) = R
  BY <1>1, FS_Subset
<1>3. Cardinality(R) \in Nat
  BY <1>2, FS_CardinalityType
<1>4. Cardinality(RecordsIn(S)) = Cardinality(R) /\ Cardinality(RecordsIn(S)) = Cardinality(S)
  BY <1>1, <1>2, <1>3
<1>5. QED
  BY <1>1, <1>2, <1>4 DEF ExactlyOnce, NoneTwice

(* The doors share the records out: what is good and what is rejected      *)
(* number as many as there are.                                            *)
LEMMA DoorsAddUp ==
    /\ Cardinality(Good) \in Nat
    /\ Cardinality(Rejects) \in Nat
    /\ Cardinality(Records) = Cardinality(Good) + Cardinality(Rejects)
<1>1. /\ Good \subseteq Records /\ Rejects \subseteq Records
      /\ Good \cup Rejects = Records /\ Good \cap Rejects = {}
  BY DoorsAreDisjoint DEF Good, Parsed, Rejects
<1>2. IsFiniteSet(Good) /\ IsFiniteSet(Rejects)
  BY <1>1, FS_Subset, DoorsAreDisjoint
<1>3. /\ Cardinality(Good) \in Nat /\ Cardinality(Rejects) \in Nat
      /\ Cardinality(Good \cap Rejects) = 0
  BY <1>1, <1>2, FS_CardinalityType, FS_EmptySet
<1>4. Cardinality(Good \cup Rejects) =
         Cardinality(Good) + Cardinality(Rejects) - Cardinality(Good \cap Rejects)
  BY <1>2, FS_Union
<1>5. Cardinality(Good \cup Rejects) = Cardinality(Records)
  BY <1>1
<1>6. QED
  BY <1>3, <1>4, <1>5

(* A new copy of a row that is typed leaves the tables typed, takes none   *)
(* away, and adds its record to its table and nothing else.                *)
LEMMA AddRowAdds ==
    ASSUME LaneTypeOK, NEW t \in Tables, NEW r \in Records, AddRow(t, r)
    PROVE  /\ rows' \in [Tables -> SUBSET Rows]
           /\ \A u \in Tables : IsFiniteSet(rows'[u])
           /\ \A u \in Tables : rows[u] \subseteq rows'[u]
           /\ r \in RecordsIn(rows'[t])
<1> DEFINE x == <<r, Cardinality(RowsOf(rows[t], r))>>
<1>1. rows \in [Tables -> SUBSET Rows] /\ \A u \in Tables : IsFiniteSet(rows[u])
  BY DEF LaneTypeOK
<1>2. rows' = [rows EXCEPT ![t] = rows[t] \cup {x}]
  BY <1>1 DEF AddRow
<1>3. x \in Rows
  <2>1. RowsOf(rows[t], r) \subseteq rows[t]
    BY DEF RowsOf
  <2>2. Cardinality(RowsOf(rows[t], r)) \in Nat
    BY <1>1, <2>1, FS_Subset, FS_CardinalityType
  <2>3. QED
    BY <2>2 DEF Rows
<1>4. IsFiniteSet(rows[t] \cup {x})
  BY <1>1, FS_AddElement
<1>5. x[1] = r
  OBVIOUS
<1> HIDE DEF x
<1>6. rows' \in [Tables -> SUBSET Rows]
  BY <1>1, <1>2, <1>3
<1>7. \A u \in Tables : rows'[u] = IF u = t THEN rows[t] \cup {x} ELSE rows[u]
  BY <1>1, <1>2
<1>8. r \in RecordsIn(rows'[t])
  BY <1>5, <1>7 DEF RecordsIn
<1>9. QED
  BY <1>1, <1>4, <1>6, <1>7, <1>8

(* What a job is to write are rows of tables, finitely many.               *)
LEMMA JobOutputTyped ==
    ASSUME LaneTypeOK
    PROVE  JobOutput \subseteq Due /\ IsFiniteSet(JobOutput)
<1>1. /\ rows \in [Tables -> SUBSET Rows]
      /\ \A t \in Tables : IsFiniteSet(rows[t])
      /\ {"src", "rejectLog", "lineage", "curated", "enriched", "target"} \subseteq Tables
  BY DEF LaneTypeOK, Tables
<1>2. ASSUME NEW t \in Tables, NEW S \in SUBSET Rows, IsFiniteSet(S)
      PROVE  RowsFor(t, S) \in SUBSET Due /\ IsFiniteSet(RowsFor(t, S))
  <2>1. IsFiniteSet(RowsFor(t, S))
    BY <1>2, RowsForFinite
  <2>2. \A x \in S : <<t, x>> \in Due
    BY DEF Due
  <2>3. RowsFor(t, S) \subseteq Due
    BY <2>2, Zenon DEF RowsFor
  <2>4. QED
    BY <2>1, <2>3
<1>3. ASSUME NEW A \in SUBSET Due, NEW B \in SUBSET Due, NEW C \in SUBSET Due,
             IsFiniteSet(A), IsFiniteSet(B), IsFiniteSet(C)
      PROVE  A \cup B \cup C \in SUBSET Due /\ IsFiniteSet(A \cup B \cup C)
  BY <1>3, FS_Union
<1>4. CASE task = FileProcessor
  <2>1. Parsed \subseteq Records /\ ParseRejects \subseteq Records
    BY DoorsAreDisjoint DEF Parsed
  <2>2. /\ Firsts(Parsed) \in SUBSET Rows /\ IsFiniteSet(Firsts(Parsed))
        /\ Firsts(ParseRejects) \in SUBSET Rows /\ IsFiniteSet(Firsts(ParseRejects))
    <3>1. Firsts(Parsed) \subseteq Rows /\ IsFiniteSet(Firsts(Parsed))
      BY <2>1, FirstsFinite, Zenon
    <3>2. Firsts(ParseRejects) \subseteq Rows /\ IsFiniteSet(Firsts(ParseRejects))
      BY <2>1, FirstsFinite, Zenon
    <3>3. QED
      BY <3>1, <3>2
  <2> DEFINE A == RowsFor("src", Firsts(Parsed))
             B == RowsFor("rejectLog", Firsts(ParseRejects))
             C == RowsFor("lineage", Firsts(ParseRejects))
  <2>3. JobOutput = A \cup B \cup C
    BY <1>4 DEF JobOutput, FileProcessor, DataEnrichment, JsonProducer
  <2>4. A \in SUBSET Due /\ B \in SUBSET Due /\ C \in SUBSET Due
    BY <1>1, <1>2, <2>2
  <2>5. IsFiniteSet(A) /\ IsFiniteSet(B) /\ IsFiniteSet(C)
    BY <1>1, <1>2, <2>2
  <2> HIDE DEF A, B, C
  <2>6. QED
    BY <1>3, <2>3, <2>4, <2>5
<1>5. CASE task = DataEnrichment
  <2>1. JobOutput = RowsFor("enriched", rows["curated"])
    BY <1>5 DEF JobOutput, FileProcessor, DataEnrichment, JsonProducer
  <2>2. QED
    BY <1>1, <1>2, <2>1
<1>6. CASE task = JsonProducer
  <2> DEFINE late == {x \in rows["enriched"] : x[1] \in MapRejects}
             good == {x \in rows["enriched"] : x[1] \in Good}
  <2>1. late \in SUBSET rows["enriched"] /\ good \in SUBSET rows["enriched"]
    OBVIOUS
  <2>2. late \in SUBSET Rows /\ good \in SUBSET Rows /\ IsFiniteSet(late) /\ IsFiniteSet(good)
    BY <1>1, <2>1, FS_Subset
  <2>3. JobOutput = RowsFor("target", good) \cup RowsFor("rejectLog", late)
                       \cup RowsFor("lineage", late)
    BY <1>6 DEF JobOutput, FileProcessor, DataEnrichment, JsonProducer
  <2> HIDE DEF late, good
  <2>4. QED
    BY <1>1, <1>2, <1>3, <2>2, <2>3
<1>7. CASE task \notin {FileProcessor, DataEnrichment, JsonProducer}
  <2>1. JobOutput = {}
    BY <1>7 DEF JobOutput
  <2>2. QED
    BY <2>1, FS_EmptySet
<1>8. QED
  BY <1>4, <1>5, <1>6, <1>7

-----------------------------------------------------------------------------
(* Types and places.                                                       *)

(* A sequence keeps its type when one of its elements shrinks.             *)
LEMMA OrphansTyped ==
    ASSUME orphans \in Seq(SUBSET Due), NEW j \in 1..Len(orphans), NEW d,
           orphans' = [orphans EXCEPT ![j] = orphans[j] \ {d}]
    PROVE  orphans' \in Seq(SUBSET Due)
<1>1. orphans[j] \in SUBSET Due
  OBVIOUS
<1>2. orphans[j] \ {d} \in SUBSET Due
  BY <1>1
<1>3. QED
  BY <1>2

(* The initial state is well typed.                                        *)
LEMMA LaneTypeInit == LaneInit => LaneTypeOK
<1> SUFFICES ASSUME LaneInit PROVE LaneTypeOK
  OBVIOUS
<1>1. IsFiniteSet({})
  BY FS_EmptySet
<1>2. rows \in [Tables -> SUBSET Rows] /\ \A t \in Tables : IsFiniteSet(rows[t])
  BY <1>1 DEF LaneInit
<1>3. /\ seen \in [{"rejects", "targets", "lineage"} -> SUBSET Rows]
      /\ \A c \in {"rejects", "targets", "lineage"} : IsFiniteSet(seen[c])
  BY <1>1 DEF LaneInit
<1>4. /\ dag \in {"running", "failed", "success"}
      /\ task \in FileProcessor..BalanceGate
      /\ pc \in Steps
  BY DEF LaneInit, Steps, FileProcessor, BalanceGate
<1>5. ledger \in BOOLEAN
  BY Zenon DEF LaneInit
<1>6. orphans \in Seq(SUBSET Due)
  BY DEF LaneInit
<1>7. /\ due \in SUBSET Due
      /\ json \in SUBSET Records /\ offered \in SUBSET Records /\ confirmed \in SUBSET Records
      /\ refused \in SUBSET Records
      /\ tries \in Nat /\ written \in Nat
      /\ failures \in Nat /\ bundleRetries \in Nat /\ clears \in Nat /\ rebuilds \in Nat
  BY DEF LaneInit
<1>8. QED
  BY <1>2, <1>3, <1>4, <1>5, <1>6, <1>7 DEF LaneTypeOK

(* The places an attempt can go on to are statements.                      *)
LEMMA PlacesTyped ==
    /\ \A t \in FileProcessor..BalanceGate : FirstStep(t) \in StepsOf(t)
    /\ \A t \in FileProcessor..BalanceGate : StepsOf(t) \subseteq Steps
    /\ \A step \in PurgeSteps : AfterPurge(step) \in Steps /\ PurgedTable(step) \in Tables
<1>1. ASSUME NEW t \in FileProcessor..BalanceGate
      PROVE  FirstStep(t) \in StepsOf(t) /\ StepsOf(t) \subseteq Steps
  <2>1. t \in {1, 2, 3, 4, 5, 6, 7}
    BY DEF FileProcessor, BalanceGate
  <2>2. QED
    BY <2>1 DEF FirstStep, StepsOf, Steps, FileProcessor, DataformRun, DataEnrichment,
       JsonProducer, LoaderApp, Reconciliation, BalanceGate
<1>2. ASSUME NEW step \in PurgeSteps
      PROVE  AfterPurge(step) \in Steps /\ PurgedTable(step) \in Tables
  BY DEF PurgeSteps, AfterPurge, PurgedTable, Steps, Tables
<1>3. QED
  BY <1>1, <1>2

(* The ends of an attempt keep the types of the DAG's variables.           *)
LEMMA EndsTyped ==
    ASSUME LaneTypeOK, Succeed \/ Fail
    PROVE  /\ dag' \in {"running", "failed", "success"}
           /\ task' \in FileProcessor..BalanceGate
           /\ tries' \in Nat /\ pc' \in Steps
  BY DEF LaneTypeOK, Succeed, Fail, Steps, FileProcessor, BalanceGate

(* Every step keeps the types.                                             *)
LEMMA LaneTypeStep ==
    ASSUME LaneTypeOK, [Next]_vars
    PROVE  LaneTypeOK'
<1> USE DEF LaneTypeOK, GoTo, tableVars, jobVars, loadVars, counters
<1>1. CASE StartTask
  BY <1>1, PlacesTyped DEF StartTask
<1>2. CASE PurgeOldRows
  <2>1. pc \in PurgeSteps /\ PurgedTable(pc) \in Tables /\ pc' \in Steps
    BY <1>2, PlacesTyped DEF PurgeOldRows
  <2> DEFINE t == PurgedTable(pc)
  <2>2. rows' = [rows EXCEPT ![t] = rows[t] \ Purged(pc)]
    BY <1>2, <2>1 DEF PurgeOldRows
  <2>3. IsFiniteSet(rows[t] \ Purged(pc))
    BY <2>1, FS_Difference
  <2>4. rows' \in [Tables -> SUBSET Rows] /\ \A u \in Tables : IsFiniteSet(rows'[u])
    <3> HIDE DEF t
    <3>1. QED
      BY <2>1, <2>2, <2>3 DEF t
  <2>5. QED
    BY <1>2, <2>1, <2>4 DEF PurgeOldRows
<1>3. CASE SubmitJob
  <2>1. Cardinality({d \in JobOutput : d[1] = "target"}) \in Nat
    BY JobOutputTyped, FS_Subset, FS_CardinalityType
  <2>2. QED
    BY <1>3, <2>1, JobOutputTyped DEF SubmitJob, Steps
<1>4. CASE WriteRow
  <2>1. PICK d \in due : AddRow(d[1], d[2][1]) /\ due' \in {due, due \ {d}}
    BY <1>4 DEF WriteRow
  <2>2. d[1] \in Tables /\ d[2][1] \in Records
    BY <2>1 DEF Due, Rows
  <2>3. rows' \in [Tables -> SUBSET Rows] /\ \A u \in Tables : IsFiniteSet(rows'[u])
    BY <2>1, <2>2, AddRowAdds
  <2>4. bundleRetries' \in Nat /\ due' \in SUBSET Due
    BY <1>4, <2>1 DEF WriteRow
  <2>5. QED
    BY <1>4, <2>3, <2>4 DEF WriteRow, dagVars
<1>5. CASE OrphanWrites
  <2>0. PICK j \in 1..Len(orphans) : \E d \in orphans[j] :
            AddRow(d[1], d[2][1]) /\ orphans' = [orphans EXCEPT ![j] = orphans[j] \ {d}]
    BY <1>5 DEF OrphanWrites
  <2>1. PICK d \in orphans[j] :
            AddRow(d[1], d[2][1]) /\ orphans' = [orphans EXCEPT ![j] = orphans[j] \ {d}]
    BY <2>0
  <2>2. d \in Due
    BY <2>1
  <2>3. d[1] \in Tables /\ d[2][1] \in Records
    BY <2>2 DEF Due, Rows
  <2>4. rows' \in [Tables -> SUBSET Rows] /\ \A u \in Tables : IsFiniteSet(rows'[u])
    BY <2>1, <2>3, AddRowAdds
  <2>5. orphans' \in Seq(SUBSET Due)
    BY <2>1, OrphansTyped
  <2>6. QED
    BY <1>5, <2>4, <2>5 DEF OrphanWrites, dagVars
<1>6. CASE JobFinishes
  BY <1>6, EndsTyped DEF JobFinishes, Steps
<1>7. CASE DropLedger \/ InsertLedger
  BY <1>7, EndsTyped DEF DropLedger, InsertLedger, Steps
<1>8. CASE RebuildCurated \/ OtherRunRebuilds
  <2>1. PICK S \in {rows["src"], {}} : rows' = [rows EXCEPT !["curated"] = S]
    BY <1>8 DEF RebuildCurated, OtherRunRebuilds
  <2>2. "src" \in Tables /\ S \in SUBSET Rows /\ IsFiniteSet(S)
    BY <2>1, FS_EmptySet DEF Tables
  <2>3. rows' \in [Tables -> SUBSET Rows] /\ \A u \in Tables : IsFiniteSet(rows'[u])
    BY <2>1, <2>2
  <2>4. QED
    BY <1>8, <2>3, EndsTyped DEF RebuildCurated, OtherRunRebuilds, dagVars
<1>9. CASE EmitBatches \/ EmitFails
  <2>1. rows["target"] \in SUBSET Rows
    BY DEF Tables
  <2>2. RecordsIn(rows["target"]) \subseteq Records
    BY <2>1 DEF RecordsIn, Rows
  <2>3. json' \in SUBSET Records /\ offered' \in SUBSET Records
    BY <1>9, <2>2 DEF EmitBatches, EmitFails, KeepsStale
  <2>4. failures' \in Nat
    BY <1>9 DEF EmitBatches, EmitFails
  <2>5. /\ dag' \in {"running", "failed", "success"} /\ task' \in FileProcessor..BalanceGate
        /\ tries' \in Nat /\ pc' \in Steps
    BY <1>9, EndsTyped DEF EmitBatches, EmitFails
  <2>6. UNCHANGED <<tableVars, jobVars, confirmed, refused, seen, bundleRetries, clears, rebuilds>>
    BY <1>9 DEF EmitBatches, EmitFails
  <2>7. QED
    BY <2>3, <2>4, <2>5, <2>6
<1>10. CASE OfferDocuments \/ Settle \/ LoadFails \/ TargetConfirms \/ TargetRefuses
  BY <1>10, EndsTyped DEF OfferDocuments, Settle, LoadFails, TargetConfirms, TargetRefuses,
     Steps, dagVars
<1>11. CASE CountRejects \/ CountTargets \/ CountLineage
  <2>1. PICK c \in {"rejects", "targets", "lineage"}, t \in Tables :
            seen' = [seen EXCEPT ![c] = rows[t]]
    BY <1>11 DEF CountRejects, CountTargets, CountLineage, Count, Tables
  <2>2. /\ seen' \in [{"rejects", "targets", "lineage"} -> SUBSET Rows]
        /\ \A u \in {"rejects", "targets", "lineage"} : IsFiniteSet(seen'[u])
    BY <2>1
  <2>3. pc' \in Steps
    BY <1>11 DEF CountRejects, CountTargets, CountLineage, Count, Steps
  <2>4. QED
    BY <1>11, <2>2, <2>3 DEF CountRejects, CountTargets, CountLineage, Count
<1>12. CASE CheckOrphans \/ ReadLedger \/ MatchConfirmations \/ ReconFails \/ AssertRunBalanced
  BY <1>12, EndsTyped
     DEF CheckOrphans, ReadLedger, MatchConfirmations, ReconFails, AssertRunBalanced, Steps
<1>13. CASE AttemptFails
  BY <1>13, EndsTyped DEF AttemptFails
<1>14. CASE DeleteRefused
  BY <1>14, EndsTyped DEF DeleteRefused
<1>15. ASSUME NEW n \in FileProcessor..BalanceGate, Clear(n)
       PROVE  LaneTypeOK'
  BY <1>15 DEF Clear, Steps
<1>16. CASE UNCHANGED vars
  BY <1>16 DEF vars, dagVars
<1>17. QED
  BY <1>1, <1>2, <1>3, <1>4, <1>5, <1>6, <1>7, <1>8, <1>9, <1>10, <1>11, <1>12,
     <1>13, <1>14, <1>15, <1>16 DEF Next, TaskStep

(* A step of an attempt stays in its task, or ends it; a job has rows to   *)
(* write only while the attempt waits for it.                              *)
LEMMA PlaceStep ==
    ASSUME LaneTypeOK, PlaceOK, [Next]_vars
    PROVE  PlaceOK'
<1> USE DEF PlaceOK, GoTo, jobVars, dagVars
<1>0. task \in FileProcessor..BalanceGate
  BY DEF LaneTypeOK
<1>1. CASE StartTask
  BY <1>0, <1>1, PlacesTyped DEF StartTask
<1>2. CASE PurgeOldRows
  <2>1. pc \in StepsOf(task) /\ pc \in PurgeSteps
    BY <1>2 DEF PurgeOldRows, PurgeSteps
  <2>2. AfterPurge(pc) \in StepsOf(task)
    BY <1>0, <2>1 DEF PurgeSteps, AfterPurge, StepsOf, FileProcessor, DataformRun,
       DataEnrichment, JsonProducer, LoaderApp, Reconciliation, BalanceGate
  <2>3. due = {}
    BY <2>1 DEF PurgeSteps
  <2>4. QED
    BY <1>2, <2>2, <2>3 DEF PurgeOldRows
<1>3. CASE SubmitJob \/ JobFinishes \/ DropLedger
  <2>1. pc \in StepsOf(task)
    BY <1>3 DEF SubmitJob, JobFinishes, DropLedger
  <2>2. task \in {FileProcessor, DataEnrichment, JsonProducer}
    BY <1>0, <1>3, <2>1 DEF SubmitJob, JobFinishes, DropLedger, StepsOf, FileProcessor,
       DataformRun, DataEnrichment, JsonProducer, LoaderApp, Reconciliation, BalanceGate
  <2>3. QED
    BY <1>0, <1>3, <2>1, <2>2 DEF SubmitJob, JobFinishes, DropLedger, Succeed, StepsOf,
       FileProcessor, DataformRun, DataEnrichment, JsonProducer, LoaderApp,
       Reconciliation, BalanceGate
<1>4. CASE WriteRow
  BY <1>4 DEF WriteRow
<1>5. CASE InsertLedger \/ RebuildCurated \/ EmitBatches \/ Settle \/ MatchConfirmations
  BY <1>5 DEF InsertLedger, RebuildCurated, EmitBatches, Settle, MatchConfirmations,
     Succeed, tableVars
<1>6. CASE EmitFails \/ LoadFails \/ ReconFails \/ AttemptFails \/ DeleteRefused
  BY <1>6 DEF EmitFails, LoadFails, ReconFails, AttemptFails, DeleteRefused, Fail,
     IssuesDelete, PurgeSteps
<1>7. CASE \/ OfferDocuments \/ CountRejects \/ CountTargets \/ CheckOrphans
           \/ ReadLedger \/ CountLineage
  <2>1. pc \in StepsOf(task) /\ dag = "running" /\ due = {}
    BY <1>7 DEF OfferDocuments, CountRejects, CountTargets, CheckOrphans, ReadLedger,
       CountLineage, Count
  <2>2. task = IF OfferDocuments THEN LoaderApp ELSE Reconciliation
    BY <1>0, <1>7, <2>1 DEF OfferDocuments, CountRejects, CountTargets, CheckOrphans,
       ReadLedger, CountLineage, Count, StepsOf, FileProcessor, DataformRun,
       DataEnrichment, JsonProducer, LoaderApp, Reconciliation, BalanceGate
  <2>3. QED
    BY <1>7, <2>1, <2>2 DEF OfferDocuments, CountRejects, CountTargets, CheckOrphans,
       ReadLedger, CountLineage, Count, StepsOf, FileProcessor, DataformRun,
       DataEnrichment, JsonProducer, LoaderApp, Reconciliation, BalanceGate
<1>8. CASE AssertRunBalanced
  BY <1>8 DEF AssertRunBalanced, Succeed, Fail
<1>9. CASE OrphanWrites \/ TargetConfirms \/ TargetRefuses \/ OtherRunRebuilds
  BY <1>9 DEF OrphanWrites, TargetConfirms, TargetRefuses, OtherRunRebuilds
<1>10. ASSUME NEW n \in FileProcessor..BalanceGate, Clear(n)
       PROVE  PlaceOK'
  BY <1>10 DEF Clear
<1>11. CASE UNCHANGED vars
  BY <1>11 DEF vars
<1>12. QED
  BY <1>1, <1>2, <1>3, <1>4, <1>5, <1>6, <1>7, <1>8, <1>9, <1>10, <1>11
     DEF Next, TaskStep

-----------------------------------------------------------------------------
(* What is covered stays covered.                                          *)

(* More rows are more records.                                             *)
LEMMA RecordsGrow ==
    ASSUME NEW S, NEW T, S \subseteq T
    PROVE  RecordsIn(S) \subseteq RecordsIn(T)
  BY DEF RecordsIn

(* A job that has a row to write for each row of a set owes their records. *)
LEMMA OwedFor ==
    ASSUME NEW t, NEW S, NEW D, RowsFor(t, S) \subseteq D
    PROVE  RecordsIn(S) \subseteq {d[2][1] : d \in {e \in D : e[1] = t}}
<1> SUFFICES ASSUME NEW x \in S
             PROVE  x[1] \in {d[2][1] : d \in {e \in D : e[1] = t}}
  BY DEF RecordsIn
<1>1. <<t, x>> \in D
  BY DEF RowsFor
<1>2. <<t, x>> \in {e \in D : e[1] = t}
  BY <1>1
<1>3. QED
  BY <1>2

(* What a table has or the job owes it is not lost when no row is deleted: *)
(* a row that is no longer due is in its table.                            *)
LEMMA OwesStays ==
    ASSUME LaneTypeOK, NEW t \in Tables, NEW R, Owes(t, R),
           \/ rows[t] \subseteq rows'[t] /\ due' = due
           \/ WriteRow
    PROVE  Owes(t, R)'
<1>1. CASE rows[t] \subseteq rows'[t] /\ due' = due
  BY <1>1, RecordsGrow DEF Owes, Owed
<1>2. CASE WriteRow
  <2>1. PICK d \in due : AddRow(d[1], d[2][1]) /\ due' \in {due, due \ {d}}
    BY <1>2 DEF WriteRow
  <2>2. d[1] \in Tables /\ d[2][1] \in Records
    BY <2>1 DEF LaneTypeOK, Due, Rows
  <2>3. rows[t] \subseteq rows'[t] /\ d[2][1] \in RecordsIn(rows'[d[1]])
    BY <2>1, <2>2, AddRowAdds
  <2>4. RecordsIn(rows[t]) \subseteq RecordsIn(rows'[t])
    BY <2>3, RecordsGrow
  <2>5. SUFFICES ASSUME NEW r \in Owed(t)
                 PROVE  r \in RecordsIn(rows'[t]) \cup Owed(t)'
    BY <2>4 DEF Owes
  <2>6. PICK e \in due : e[1] = t /\ r = e[2][1]
    BY DEF Owed
  <2>7. CASE e = d
    BY <2>3, <2>6, <2>7
  <2>8. CASE e # d
    <3>1. e \in due'
      BY <2>1, <2>8
    <3>2. QED
      BY <2>6, <3>1 DEF Owed
  <2>9. QED
    BY <2>7, <2>8
<1>3. QED
  BY <1>1, <1>2

(* So it is with what a job owes as a whole.                               *)
LEMMA JobOwesStays ==
    ASSUME LaneTypeOK, JobOwes, UNCHANGED <<task, rebuilds>>,
           pc \in {"run", "dropLedger", "insertLedger", "emit"},
           \/ (\A t \in Tables : rows[t] \subseteq rows'[t]) /\ due' = due
           \/ WriteRow
    PROVE  JobOwes'
<1>1. ASSUME NEW t \in Tables, NEW R, Owes(t, R)
      PROVE  Owes(t, R)'
  BY <1>1, OwesStays
<1>2. {"src", "rejectLog", "lineage", "enriched", "target"} \subseteq Tables
  BY DEF Tables
<1>3. task = FileProcessor =>
         Owes("src", Parsed)' /\ Owes("rejectLog", ParseRejects)' /\ Owes("lineage", ParseRejects)'
  BY <1>1, <1>2 DEF JobOwes
<1>4. task = DataEnrichment /\ rebuilds = 0 => Owes("enriched", Parsed)'
  BY <1>1, <1>2 DEF JobOwes
<1>5. task = JsonProducer /\ rebuilds = 0 =>
         Owes("target", Good)' /\ Owes("rejectLog", MapRejects)' /\ Owes("lineage", MapRejects)'
  BY <1>1, <1>2 DEF JobOwes
<1>6. QED
  BY <1>3, <1>4, <1>5 DEF JobOwes

(* What a job that has written all its rows owed is in the tables.         *)
LEMMA NothingOwed ==
    ASSUME due = {}, NEW t, NEW R, Owes(t, R)
    PROVE  Covers(t, R)
  BY DEF Owes, Owed, Covers

(* The tables keep what the earlier stages have put there, as long as no   *)
(* row is deleted and the run does not go forward.                         *)
LEMMA NothingLostStays ==
    ASSUME LaneTypeOK, NothingLost, \A t \in Tables : rows[t] \subseteq rows'[t],
           task' \in FileProcessor..task, UNCHANGED <<ledger, json>>,
           rebuilds' \in Nat /\ rebuilds <= rebuilds'
    PROVE  NothingLost'
<1>1. ASSUME NEW t \in Tables, NEW R, Covers(t, R)
      PROVE  Covers(t, R)'
  BY <1>1, RecordsGrow DEF Covers
<1>2. {"src", "rejectLog", "lineage", "curated", "enriched", "target"} \subseteq Tables
  BY DEF Tables
<1>3. task \in Nat /\ task' \in Nat /\ task' <= task /\ rebuilds \in Nat
  BY DEF LaneTypeOK, FileProcessor, BalanceGate
<1>4. task' > FileProcessor =>
         Covers("src", Parsed)' /\ Covers("rejectLog", ParseRejects)'
            /\ Covers("lineage", ParseRejects)' /\ ledger'
  BY <1>1, <1>2, <1>3 DEF NothingLost, FileProcessor
<1>5. rebuilds' = 0 /\ task' > DataformRun => Covers("curated", Parsed)'
  BY <1>1, <1>2, <1>3 DEF NothingLost, DataformRun
<1>6. rebuilds' = 0 /\ task' > DataEnrichment => Covers("enriched", Parsed)'
  BY <1>1, <1>2, <1>3 DEF NothingLost, DataEnrichment
<1>7. rebuilds' = 0 /\ task' > JsonProducer =>
         Covers("target", Good)' /\ Covers("rejectLog", Rejects)' /\ Covers("lineage", Rejects)'
            /\ Good \subseteq json'
  BY <1>1, <1>2, <1>3 DEF NothingLost, JsonProducer
<1>8. QED
  BY <1>4, <1>5, <1>6, <1>7 DEF NothingLost

-----------------------------------------------------------------------------
(* No stage loses a record.                                                *)

CoverInv == LaneTypeOK /\ PlaceOK /\ JobOwes /\ NothingLost

(* The steps that delete rows delete what their stage will write again.    *)
LEMMA PurgeKeeps ==
    ASSUME CoverInv, PurgeOldRows
    PROVE  JobOwes' /\ NothingLost'
<1> DEFINE t == PurgedTable(pc)
<1>0. /\ LaneTypeOK /\ PlaceOK /\ NothingLost
      /\ task \in FileProcessor..BalanceGate /\ rows \in [Tables -> SUBSET Rows]
  BY DEF CoverInv, LaneTypeOK
<1>1. pc \in PurgeSteps /\ pc \in StepsOf(task)
  BY <1>0 DEF PurgeOldRows, PlaceOK, PurgeSteps
<1>2. /\ pc' = AfterPurge(pc) /\ UNCHANGED <<task, ledger, json, rebuilds>>
      /\ rows' = [rows EXCEPT ![t] = rows[t] \ Purged(pc)]
  BY <1>0 DEF PurgeOldRows, GoTo, loadVars, counters
<1>3. JobOwes'
  <2>1. AfterPurge(pc) \notin {"run", "dropLedger", "insertLedger", "emit"}
    BY <1>1 DEF PurgeSteps, AfterPurge
  <2>2. QED
    BY <1>2, <2>1 DEF JobOwes
<1>4. \A u \in Tables : u # t => rows'[u] = rows[u]
  BY <1>0, <1>2
<1>5. {"src", "rejectLog", "lineage", "curated", "enriched", "target"} \subseteq Tables
  BY DEF Tables
<1>6. CASE task = FileProcessor
  BY <1>2, <1>3, <1>6 DEF NothingLost, FileProcessor, DataformRun, DataEnrichment, JsonProducer
<1>7. CASE task = DataEnrichment
  <2>1. t = "enriched"
    <3>1. pc = "purgeEnriched"
      BY <1>1, <1>7 DEF PurgeSteps, StepsOf, FileProcessor, DataformRun, DataEnrichment,
         JsonProducer, LoaderApp, Reconciliation, BalanceGate
    <3>2. QED
      BY <3>1 DEF PurgedTable
  <2>2. \A u \in {"src", "rejectLog", "lineage", "curated"} : rows'[u] = rows[u]
    BY <1>4, <1>5, <2>1
  <2> HIDE DEF t
  <2>3. task' > FileProcessor /\ ~(task' > DataEnrichment) /\ ~(task' > JsonProducer)
    BY <1>2, <1>7 DEF FileProcessor, DataEnrichment, JsonProducer
  <2>4. Covers("src", Parsed)' /\ ledger' /\ Covers("rejectLog", ParseRejects)'
           /\ Covers("lineage", ParseRejects)'
    BY <1>0, <1>2, <2>2, <2>3 DEF NothingLost, Covers
  <2>5. rebuilds' = 0 => Covers("curated", Parsed)'
    BY <1>0, <1>2, <1>7, <2>2 DEF NothingLost, Covers, DataformRun, DataEnrichment
  <2>6. QED
    BY <1>3, <2>3, <2>4, <2>5 DEF NothingLost
<1>8. CASE task = JsonProducer
  <2>1. /\ pc \in {"purgeTarget", "purgeLateRejects", "purgeLateLineage"}
        /\ t \in {"target", "rejectLog", "lineage"}
    BY <1>1, <1>8 DEF PurgeSteps, StepsOf, PurgedTable, FileProcessor, DataformRun,
       DataEnrichment, JsonProducer
  <2>2. \A u \in {"src", "curated", "enriched"} : rows'[u] = rows[u]
    BY <1>4, <1>5, <2>1
  <2>3. ASSUME NEW u \in {"rejectLog", "lineage"}, Covers(u, ParseRejects)
        PROVE  Covers(u, ParseRejects)'
    <3>1. CASE u # t
      BY <1>4, <1>5, <2>3, <3>1 DEF Covers
    <3>2. CASE u = t
      <4>1. PurgedRecords(pc) = MapRejects
        BY <2>1, <3>2 DEF PurgedTable, PurgedRecords
      <4>2. rows'[u] = rows[u] \ Purged(pc)
        BY <1>0, <1>2, <1>5, <3>2
      <4>3. \A x \in rows[u] : x[1] \in ParseRejects => x \in rows'[u]
        BY <4>1, <4>2, DoorsAreDisjoint DEF Purged
      <4>4. QED
        BY <2>3, <4>3 DEF Covers, RecordsIn
    <3>3. QED
      BY <3>1, <3>2
  <2> HIDE DEF t
  <2>4. task' = JsonProducer /\ task' > FileProcessor /\ ~(task' > JsonProducer)
    BY <1>2, <1>8 DEF JsonProducer, FileProcessor
  <2>5. Covers("src", Parsed)' /\ ledger' /\ Covers("rejectLog", ParseRejects)'
           /\ Covers("lineage", ParseRejects)'
    BY <1>0, <1>2, <2>2, <2>3, <2>4 DEF NothingLost, Covers
  <2>6. rebuilds' = 0 => Covers("curated", Parsed)' /\ Covers("enriched", Parsed)'
    BY <1>0, <1>2, <1>8, <2>2 DEF NothingLost, Covers, JsonProducer, DataformRun, DataEnrichment
  <2>7. QED
    BY <1>3, <2>4, <2>5, <2>6 DEF NothingLost
<1>9. task \in {FileProcessor, DataEnrichment, JsonProducer}
  BY <1>0, <1>1 DEF PurgeSteps, StepsOf, FileProcessor, DataformRun, DataEnrichment,
     JsonProducer, LoaderApp, Reconciliation, BalanceGate
<1>10. QED
  BY <1>3, <1>6, <1>7, <1>8, <1>9

(* CREATE OR REPLACE, for this run or for another one.                     *)
LEMMA RebuildKeeps ==
    ASSUME CoverInv, RebuildCurated \/ OtherRunRebuilds
    PROVE  JobOwes' /\ NothingLost'
<1>0. LaneTypeOK /\ PlaceOK /\ JobOwes /\ NothingLost
  BY DEF CoverInv
<1>1. rows \in [Tables -> SUBSET Rows] /\ rebuilds \in Nat
  BY <1>0 DEF LaneTypeOK
<1>2. /\ \A u \in {"src", "rejectLog", "lineage", "enriched", "target"} : rows'[u] = rows[u]
      /\ RebuildCurated => rows'["curated"] = rows["src"]
  BY <1>1 DEF RebuildCurated, OtherRunRebuilds, Tables
<1>3. CASE RebuildCurated
  <2>1. /\ task = DataformRun /\ task' = task + 1 /\ pc' = "queued"
        /\ UNCHANGED <<ledger, rebuilds>>
    BY <1>0, <1>3 DEF RebuildCurated, PlaceOK, Succeed, StepsOf, counters, LaneTypeOK,
       FileProcessor, DataformRun, DataEnrichment, JsonProducer, LoaderApp,
       Reconciliation, BalanceGate
  <2>2. Covers("src", Parsed) /\ Covers("rejectLog", ParseRejects)
           /\ Covers("lineage", ParseRejects) /\ ledger
    BY <1>0, <2>1 DEF NothingLost, FileProcessor, DataformRun
  <2>3. Covers("curated", Parsed)'
    BY <1>2, <1>3, <2>2 DEF Covers
  <2>4. QED
    BY <1>2, <2>1, <2>2, <2>3 DEF NothingLost, JobOwes, Covers, FileProcessor, DataformRun,
       DataEnrichment, JsonProducer
<1>4. CASE OtherRunRebuilds
  <2>1. rebuilds' # 0 /\ UNCHANGED <<task, pc, ledger, due>>
    BY <1>1, <1>4 DEF OtherRunRebuilds, dagVars, jobVars
  <2>2. NothingLost'
    BY <1>0, <1>2, <2>1 DEF NothingLost, Covers
  <2>3. JobOwes'
    BY <1>0, <1>2, <2>1 DEF JobOwes, Owes, Owed
  <2>4. QED
    BY <2>2, <2>3
<1>5. QED
  BY <1>3, <1>4

(* A job owes all that its stage handles when it is submitted.             *)
LEMMA SubmitOwes ==
    ASSUME CoverInv, SubmitJob
    PROVE  JobOwes' /\ NothingLost'
<1>0. LaneTypeOK /\ PlaceOK /\ NothingLost
  BY DEF CoverInv
<1>1. /\ due' = JobOutput /\ UNCHANGED <<task, rows, ledger, json, rebuilds>>
      /\ task \in FileProcessor..BalanceGate
  BY <1>0 DEF SubmitJob, GoTo, tableVars, loadVars, counters, LaneTypeOK
<1>2. ASSUME NEW t, NEW S, RowsFor(t, S) \subseteq JobOutput, NEW R, R \subseteq RecordsIn(S)
      PROVE  Owes(t, R)'
  <2>1. RecordsIn(S) \subseteq Owed(t)'
    BY <1>1, <1>2, OwedFor DEF Owed
  <2>2. QED
    BY <1>1, <1>2, <2>1 DEF Owes
<1>3. CASE task = FileProcessor
  <2>1. /\ RowsFor("src", Firsts(Parsed)) \subseteq JobOutput
        /\ RowsFor("rejectLog", Firsts(ParseRejects)) \subseteq JobOutput
        /\ RowsFor("lineage", Firsts(ParseRejects)) \subseteq JobOutput
    BY <1>3 DEF JobOutput, FileProcessor, DataEnrichment, JsonProducer
  <2>2. RecordsIn(Firsts(Parsed)) = Parsed /\ RecordsIn(Firsts(ParseRejects)) = ParseRejects
    BY FirstsFinite, DoorsAreDisjoint DEF Parsed
  <2>3. Owes("src", Parsed)' /\ Owes("rejectLog", ParseRejects)' /\ Owes("lineage", ParseRejects)'
    BY <1>2, <2>1, <2>2
  <2>4. QED
    BY <1>1, <1>3, <2>3 DEF JobOwes, NothingLost, FileProcessor, DataformRun, DataEnrichment, JsonProducer
<1>4. CASE task = DataEnrichment
  <2>1. RowsFor("enriched", rows["curated"]) \subseteq JobOutput
    BY <1>4 DEF JobOutput, FileProcessor, DataEnrichment, JsonProducer
  <2>2. rebuilds = 0 => Parsed \subseteq RecordsIn(rows["curated"])
    BY <1>0, <1>4 DEF NothingLost, Covers, DataformRun, DataEnrichment
  <2>3. rebuilds = 0 => Owes("enriched", Parsed)'
    BY <1>2, <2>1, <2>2
  <2>4. NothingLost'
    BY <1>0, <1>1 DEF NothingLost, Covers
  <2>5. QED
    BY <1>1, <1>4, <2>3, <2>4 DEF JobOwes, FileProcessor, DataEnrichment, JsonProducer
<1>5. CASE task = JsonProducer
  <2> DEFINE late == {x \in rows["enriched"] : x[1] \in MapRejects}
             good == {x \in rows["enriched"] : x[1] \in Good}
  <2>1. /\ RowsFor("target", good) \subseteq JobOutput
        /\ RowsFor("rejectLog", late) \subseteq JobOutput
        /\ RowsFor("lineage", late) \subseteq JobOutput
    BY <1>5 DEF JobOutput, FileProcessor, DataEnrichment, JsonProducer
  <2>2. rebuilds = 0 => Parsed \subseteq RecordsIn(rows["enriched"])
    BY <1>0, <1>5 DEF NothingLost, Covers, JsonProducer, DataEnrichment
  <2>3. Good \subseteq Parsed /\ MapRejects \subseteq Parsed
    BY DoorsAreDisjoint DEF Good, Parsed
  <2>4. rebuilds = 0 => Good \subseteq RecordsIn(good) /\ MapRejects \subseteq RecordsIn(late)
    BY <2>2, <2>3 DEF RecordsIn
  <2> HIDE DEF late, good
  <2>5. rebuilds = 0 =>
           Owes("target", Good)' /\ Owes("rejectLog", MapRejects)' /\ Owes("lineage", MapRejects)'
    BY <1>2, <2>1, <2>4
  <2>6. NothingLost'
    BY <1>0, <1>1 DEF NothingLost, Covers
  <2>7. QED
    BY <1>1, <1>5, <2>5, <2>6 DEF JobOwes, FileProcessor, DataEnrichment, JsonProducer
<1>6. task \in {FileProcessor, DataEnrichment, JsonProducer}
  BY <1>0, <1>1 DEF SubmitJob, PlaceOK, StepsOf, FileProcessor, DataformRun,
     DataEnrichment, JsonProducer, LoaderApp, Reconciliation, BalanceGate
<1>7. QED
  BY <1>3, <1>4, <1>5, <1>6

(* The end of an attempt that has succeeded: the rows of its job are all   *)
(* written, and the next task may count on them.                           *)
LEMMA SucceedKeeps ==
    ASSUME CoverInv, due = {}, Succeed, UNCHANGED <<rows, rebuilds>>,
           \/ InsertLedger
           \/ JobFinishes /\ task = DataEnrichment
           \/ EmitBatches
           \/ task \in {LoaderApp, Reconciliation, BalanceGate} /\ UNCHANGED <<ledger, json>>
    PROVE  JobOwes' /\ NothingLost'
<1>0. /\ LaneTypeOK /\ PlaceOK /\ JobOwes /\ NothingLost
      /\ task \in FileProcessor..BalanceGate
  BY DEF CoverInv, LaneTypeOK
<1>1. JobOwes'
  BY DEF Succeed, JobOwes
<1>2. ASSUME NEW t, NEW R
      PROVE  /\ Covers(t, R)' <=> Covers(t, R)
             /\ Owes(t, R) => Covers(t, R)
  BY NothingOwed DEF Covers
<1>3. CASE InsertLedger
  <2>1. /\ task = FileProcessor /\ task' = 2 /\ ledger'
        /\ pc = "insertLedger"
    BY <1>0, <1>3 DEF InsertLedger, PlaceOK, StepsOf, Succeed, FileProcessor, DataformRun,
       DataEnrichment, JsonProducer, LoaderApp, Reconciliation, BalanceGate
  <2>2. Covers("src", Parsed)' /\ Covers("rejectLog", ParseRejects)'
           /\ Covers("lineage", ParseRejects)'
    BY <1>0, <1>2, <2>1 DEF JobOwes
  <2>3. ~(task' > DataformRun) /\ ~(task' > DataEnrichment) /\ ~(task' > JsonProducer)
    BY <2>1 DEF DataformRun, DataEnrichment, JsonProducer
  <2>4. QED
    BY <1>1, <2>1, <2>2, <2>3 DEF NothingLost
<1>4. CASE JobFinishes /\ task = DataEnrichment
  <2>1. /\ task' = 4 /\ pc = "run" /\ UNCHANGED <<ledger, json>>
    BY <1>4 DEF JobFinishes, Succeed, DataEnrichment, BalanceGate, tableVars, loadVars
  <2>2. Covers("src", Parsed)' /\ Covers("rejectLog", ParseRejects)'
           /\ Covers("lineage", ParseRejects)' /\ ledger'
    BY <1>0, <1>2, <1>4, <2>1 DEF NothingLost, FileProcessor, DataEnrichment
  <2>3. rebuilds = 0 => Covers("curated", Parsed)' /\ Covers("enriched", Parsed)'
    BY <1>0, <1>2, <1>4, <2>1 DEF NothingLost, JobOwes, DataformRun, DataEnrichment
  <2>4. ~(task' > JsonProducer)
    BY <2>1 DEF JsonProducer
  <2>5. QED
    BY <1>1, <2>2, <2>3, <2>4 DEF NothingLost
<1>5. CASE EmitBatches
  <2>1. pc = "emit" /\ task = JsonProducer /\ task' = 5 /\ UNCHANGED ledger
    BY <1>0, <1>5 DEF EmitBatches, PlaceOK, StepsOf, Succeed, tableVars, FileProcessor,
       DataformRun, DataEnrichment, JsonProducer, LoaderApp, Reconciliation, BalanceGate
  <2>2. Covers("src", Parsed)' /\ Covers("rejectLog", ParseRejects)'
           /\ Covers("lineage", ParseRejects)' /\ ledger'
    BY <1>0, <1>2, <2>1 DEF NothingLost, FileProcessor, JsonProducer
  <2>3. rebuilds = 0 => Covers("curated", Parsed)' /\ Covers("enriched", Parsed)'
    BY <1>0, <1>2, <2>1 DEF NothingLost, DataformRun, DataEnrichment, JsonProducer
  <2>4. rebuilds = 0 => /\ Covers("target", Good)
                        /\ Covers("rejectLog", MapRejects) /\ Covers("lineage", MapRejects)
    BY <1>0, <1>2, <2>1 DEF JobOwes
  <2>5. rebuilds = 0 => Covers("rejectLog", Rejects)' /\ Covers("lineage", Rejects)'
    <3>1. ASSUME NEW t, Covers(t, ParseRejects)', Covers(t, MapRejects)
          PROVE  Covers(t, Rejects)'
      BY <1>2, <3>1 DEF Covers, Rejects
    <3>2. QED
      BY <2>2, <2>4, <3>1
  <2>6. RecordsIn(rows["target"]) \subseteq json'
    BY <1>5 DEF EmitBatches, KeepsStale
  <2>7. rebuilds = 0 => Good \subseteq json'
    BY <2>4, <2>6 DEF Covers
  <2>8. rebuilds = 0 => Covers("target", Good)'
    BY <1>2, <2>4
  <2>9. QED
    BY <1>1, <2>2, <2>3, <2>5, <2>7, <2>8 DEF NothingLost
<1>6. CASE task \in {LoaderApp, Reconciliation, BalanceGate} /\ UNCHANGED <<ledger, json>>
  <2>1. task > FileProcessor /\ task > DataformRun /\ task > DataEnrichment /\ task > JsonProducer
    BY <1>6 DEF FileProcessor, DataformRun, DataEnrichment, JsonProducer, LoaderApp,
       Reconciliation, BalanceGate
  <2>2. QED
    BY <1>0, <1>1, <1>2, <1>6, <2>1 DEF NothingLost
<1>7. QED
  BY <1>3, <1>4, <1>5, <1>6

(* A step after which the attempt does not wait for a job, or the job is   *)
(* where it was, and which deletes no row and puts the run no further.     *)
LEMMA QuietKeeps ==
    ASSUME CoverInv, \A t \in Tables : rows[t] \subseteq rows'[t],
           task' \in FileProcessor..task, UNCHANGED <<ledger, json>>, rebuilds' = rebuilds,
           \/ pc' \notin {"run", "dropLedger", "insertLedger", "emit"}
           \/ /\ pc \in {"run", "dropLedger", "insertLedger", "emit"} /\ task' = task
              /\ due' = due \/ WriteRow
    PROVE  JobOwes' /\ NothingLost'
<1>0. LaneTypeOK /\ JobOwes /\ NothingLost /\ rebuilds \in Nat
  BY DEF CoverInv, LaneTypeOK
<1>1. NothingLost'
  BY <1>0, NothingLostStays
<1>2. CASE pc' \notin {"run", "dropLedger", "insertLedger", "emit"}
  BY <1>1, <1>2 DEF JobOwes
<1>3. CASE /\ pc \in {"run", "dropLedger", "insertLedger", "emit"} /\ task' = task
           /\ due' = due \/ WriteRow
  BY <1>0, <1>1, <1>3, JobOwesStays
<1>4. QED
  BY <1>2, <1>3

(* Every step of the lane.                                                 *)
LEMMA CoverStep ==
    ASSUME CoverInv, [Next]_vars
    PROVE  CoverInv'
<1>0. /\ LaneTypeOK /\ PlaceOK /\ JobOwes /\ NothingLost
      /\ task \in FileProcessor..BalanceGate /\ task \in FileProcessor..task
  BY DEF CoverInv, LaneTypeOK, FileProcessor, BalanceGate
<1>1. LaneTypeOK' /\ PlaceOK'
  BY <1>0, LaneTypeStep, PlaceStep
<1>2. SUFFICES JobOwes' /\ NothingLost'
  BY <1>1 DEF CoverInv
<1> USE DEF GoTo, tableVars, jobVars, loadVars, counters
<1>3. CASE StartTask
  <2>1. pc' = FirstStep(task)
    BY <1>3 DEF StartTask
  <2>2. pc' \notin {"run", "dropLedger", "insertLedger", "emit"}
    BY <1>0, <2>1 DEF FirstStep, FileProcessor, DataformRun, DataEnrichment, JsonProducer,
       LoaderApp, Reconciliation, BalanceGate
  <2>3. QED
    BY <1>0, <1>3, <2>2, QuietKeeps DEF StartTask
<1>4. CASE PurgeOldRows
  BY <1>4, PurgeKeeps
<1>5. CASE SubmitJob
  BY <1>5, SubmitOwes
<1>6. CASE WriteRow
  <2>1. PICK d \in due : AddRow(d[1], d[2][1])
    BY <1>6 DEF WriteRow
  <2>2. d[1] \in Tables /\ d[2][1] \in Records
    BY <1>0, <2>1 DEF LaneTypeOK, Due, Rows
  <2>3. \A t \in Tables : rows[t] \subseteq rows'[t]
    BY <1>0, <2>1, <2>2, AddRowAdds
  <2>4. pc = "run"
    BY <1>0, <2>1 DEF PlaceOK
  <2>5. QED
    BY <1>0, <1>6, <2>3, <2>4, QuietKeeps DEF WriteRow, dagVars
<1>7. CASE OrphanWrites
  <2>0. PICK j \in 1..Len(orphans) : \E d \in orphans[j] : AddRow(d[1], d[2][1])
    BY <1>7 DEF OrphanWrites
  <2>1. PICK d \in orphans[j] : AddRow(d[1], d[2][1])
    BY <2>0
  <2>2. d \in Due
    BY <1>0 DEF LaneTypeOK
  <2>3. d[1] \in Tables /\ d[2][1] \in Records
    BY <2>2 DEF Due, Rows
  <2>4. \A t \in Tables : rows[t] \subseteq rows'[t]
    BY <1>0, <2>1, <2>3, AddRowAdds
  <2>5. QED
    BY <1>0, <1>7, <2>4, QuietKeeps DEF OrphanWrites, dagVars
<1>8. CASE JobFinishes
  <2>1. CASE task = DataEnrichment
    <3>1. Succeed
      BY <1>8, <2>1 DEF JobFinishes, FileProcessor, DataEnrichment, JsonProducer
    <3>2. QED
      BY <1>8, <2>1, <3>1, SucceedKeeps DEF JobFinishes
  <2>2. CASE task # DataEnrichment
    BY <1>0, <1>8, <2>2, QuietKeeps DEF JobFinishes
  <2>3. QED
    BY <2>1, <2>2
<1>9. CASE DropLedger
  <2>1. task = FileProcessor /\ task' = task
    BY <1>0, <1>9 DEF DropLedger, PlaceOK, StepsOf, FileProcessor, DataformRun,
       DataEnrichment, JsonProducer, LoaderApp, Reconciliation, BalanceGate
  <2>2. NothingLost'
    BY <2>1 DEF NothingLost, FileProcessor, DataformRun, DataEnrichment, JsonProducer
  <2>3. QED
    BY <1>0, <1>9, <2>1, <2>2, JobOwesStays DEF DropLedger
<1>10. CASE InsertLedger \/ EmitBatches
  BY <1>0, <1>10, SucceedKeeps DEF InsertLedger, EmitBatches, PlaceOK
<1>11. CASE RebuildCurated \/ OtherRunRebuilds
  BY <1>11, RebuildKeeps
<1>12. CASE EmitFails
  <2>1. task = JsonProducer /\ task' = task
    BY <1>0, <1>12 DEF EmitFails, Fail, PlaceOK, StepsOf, FileProcessor, DataformRun,
       DataEnrichment, JsonProducer, LoaderApp, Reconciliation, BalanceGate
  <2>2. pc' = "queued" /\ UNCHANGED <<rows, ledger, rebuilds>>
    BY <1>12 DEF EmitFails, Fail
  <2>3. ~(task' > JsonProducer)
    BY <2>1 DEF JsonProducer
  <2>4. NothingLost'
    BY <1>0, <2>1, <2>2, <2>3 DEF NothingLost, Covers
  <2>5. QED
    BY <2>2, <2>4 DEF JobOwes
<1>13. CASE Settle \/ MatchConfirmations \/ (AssertRunBalanced /\ ledger)
  <2>1. pc \in {"settle", "matchConfirmations", "gate"} /\ pc \in StepsOf(task) /\ due = {}
    BY <1>0, <1>13 DEF Settle, MatchConfirmations, AssertRunBalanced, PlaceOK
  <2>2. task \in {LoaderApp, Reconciliation, BalanceGate}
    BY <1>0, <2>1 DEF StepsOf, FileProcessor, DataformRun, DataEnrichment, JsonProducer,
       LoaderApp, Reconciliation, BalanceGate
  <2>3. QED
    BY <1>13, <2>1, <2>2, SucceedKeeps DEF Settle, MatchConfirmations, AssertRunBalanced
<1>14. CASE LoadFails \/ ReconFails \/ AttemptFails \/ DeleteRefused \/ (AssertRunBalanced /\ ~ledger)
  BY <1>0, <1>14, QuietKeeps DEF LoadFails, ReconFails, AttemptFails, DeleteRefused,
     AssertRunBalanced, Fail
<1>15. CASE \/ OfferDocuments \/ CountRejects \/ CountTargets \/ CheckOrphans
            \/ ReadLedger \/ CountLineage
  BY <1>0, <1>15, QuietKeeps DEF OfferDocuments, CountRejects, CountTargets, CheckOrphans,
     ReadLedger, CountLineage, Count
<1>16. CASE TargetConfirms \/ TargetRefuses \/ UNCHANGED vars
  BY <1>0, <1>16, QuietKeeps DEF TargetConfirms, TargetRefuses, vars, dagVars
<1>17. ASSUME NEW n \in FileProcessor..BalanceGate, Clear(n)
       PROVE  JobOwes' /\ NothingLost'
  <2>1. n \in FileProcessor..task
    BY <1>0, <1>17 DEF Clear, FileProcessor, BalanceGate
  <2>2. QED
    BY <1>0, <1>17, <2>1, QuietKeeps DEF Clear
<1>18. QED
  BY <1>3, <1>4, <1>5, <1>6, <1>7, <1>8, <1>9, <1>10, <1>11, <1>12, <1>13, <1>14,
     <1>15, <1>16, <1>17 DEF Next, TaskStep

-----------------------------------------------------------------------------
(* Every row behind its door.                                              *)

(* The rows a job is submitted for are behind their doors.                 *)
LEMMA JobOutputDoors ==
    ASSUME LaneTypeOK, RightDoors
    PROVE  \A d \in JobOutput : d[2][1] \in BehindDoor(d[1])
<1>1. ASSUME NEW t, NEW S, NEW R, R \subseteq BehindDoor(t), \A x \in S : x[1] \in R
      PROVE  \A d \in RowsFor(t, S) : d[2][1] \in BehindDoor(d[1])
  <2>1. \A x \in S : <<t, x>>[1] = t /\ <<t, x>>[2] = x
    OBVIOUS
  <2>2. QED
    BY <1>1, <2>1 DEF RowsFor
<1>2. /\ BehindDoor("src") = Records /\ BehindDoor("enriched") = Records
      /\ BehindDoor("target") = Good
      /\ BehindDoor("rejectLog") = Rejects /\ BehindDoor("lineage") = Rejects
  BY DEF BehindDoor
<1>3. /\ Parsed \subseteq Records /\ ParseRejects \subseteq Rejects /\ MapRejects \subseteq Rejects
  BY DoorsAreDisjoint DEF Parsed, Rejects
<1>4. CASE task = FileProcessor
  <2>1. ASSUME NEW R
        PROVE  \A x \in Firsts(R) : x[1] \in R
    BY DEF Firsts
  <2>2. JobOutput = RowsFor("src", Firsts(Parsed)) \cup RowsFor("rejectLog", Firsts(ParseRejects))
                       \cup RowsFor("lineage", Firsts(ParseRejects))
    BY <1>4 DEF JobOutput, FileProcessor, DataEnrichment, JsonProducer
  <2>3. \A d \in RowsFor("src", Firsts(Parsed)) : d[2][1] \in BehindDoor(d[1])
    BY <1>1, <1>2, <1>3, <2>1, Zenon
  <2>4. \A d \in RowsFor("rejectLog", Firsts(ParseRejects)) : d[2][1] \in BehindDoor(d[1])
    BY <1>1, <1>2, <1>3, <2>1, Zenon
  <2>5. \A d \in RowsFor("lineage", Firsts(ParseRejects)) : d[2][1] \in BehindDoor(d[1])
    BY <1>1, <1>2, <1>3, <2>1, Zenon
  <2>6. QED
    BY <2>2, <2>3, <2>4, <2>5, Zenon
<1>5. CASE task = DataEnrichment
  <2>1. JobOutput = RowsFor("enriched", rows["curated"])
    BY <1>5 DEF JobOutput, FileProcessor, DataEnrichment, JsonProducer
  <2>2. \A x \in rows["curated"] : x[1] \in Records
    BY DEF LaneTypeOK, Tables, Rows
  <2>3. QED
    BY <1>1, <1>2, <2>1, <2>2, Zenon
<1>6. CASE task = JsonProducer
  <2> DEFINE late == {x \in rows["enriched"] : x[1] \in MapRejects}
             good == {x \in rows["enriched"] : x[1] \in Good}
  <2>1. JobOutput = RowsFor("target", good) \cup RowsFor("rejectLog", late)
                       \cup RowsFor("lineage", late)
    BY <1>6 DEF JobOutput, FileProcessor, DataEnrichment, JsonProducer
  <2>2. (\A x \in late : x[1] \in MapRejects) /\ (\A x \in good : x[1] \in Good)
    OBVIOUS
  <2> HIDE DEF late, good
  <2>3. \A d \in RowsFor("target", good) : d[2][1] \in BehindDoor(d[1])
    BY <1>1, <1>2, <2>2, Zenon
  <2>4. \A d \in RowsFor("rejectLog", late) : d[2][1] \in BehindDoor(d[1])
    BY <1>1, <1>2, <1>3, <2>2, Zenon
  <2>5. \A d \in RowsFor("lineage", late) : d[2][1] \in BehindDoor(d[1])
    BY <1>1, <1>2, <1>3, <2>2, Zenon
  <2>6. QED
    BY <2>1, <2>3, <2>4, <2>5, Zenon
<1>7. CASE task \notin {FileProcessor, DataEnrichment, JsonProducer}
  BY <1>7 DEF JobOutput
<1>8. QED
  BY <1>4, <1>5, <1>6, <1>7

(* A new copy behind its door leaves every table behind its own.           *)
LEMMA AddRowDoors ==
    ASSUME LaneTypeOK, RightDoors, NEW t \in Tables, NEW r \in BehindDoor(t), AddRow(t, r)
    PROVE  \A u \in Tables : RecordsIn(rows'[u]) \subseteq BehindDoor(u)
<1> DEFINE x == <<r, Cardinality(RowsOf(rows[t], r))>>
<1>1. rows \in [Tables -> SUBSET Rows]
  BY DEF LaneTypeOK
<1>2. rows' = [rows EXCEPT ![t] = rows[t] \cup {x}]
  BY <1>1 DEF AddRow
<1>3. x[1] = r
  OBVIOUS
<1> HIDE DEF x
<1>4. \A u \in Tables : rows'[u] = IF u = t THEN rows[t] \cup {x} ELSE rows[u]
  BY <1>1, <1>2
<1>5. \A u \in Tables : \A y \in rows[u] : y[1] \in BehindDoor(u)
  BY DEF RightDoors, RecordsIn
<1>6. \A u \in Tables : \A y \in rows'[u] : y[1] \in BehindDoor(u)
  BY <1>3, <1>4, <1>5
<1>7. QED
  BY <1>6 DEF RecordsIn

(* Every step leaves every row, written, owed or counted, behind its door. *)
LEMMA RightDoorsStep ==
    ASSUME LaneTypeOK, RightDoors, [Next]_vars
    PROVE  RightDoors'
<1>0. /\ rows \in [Tables -> SUBSET Rows] /\ orphans \in Seq(SUBSET Due)
      /\ seen \in [Counts -> SUBSET Rows]
      /\ \A t \in Tables : RecordsIn(rows[t]) \subseteq BehindDoor(t)
      /\ \A d \in due : d[2][1] \in BehindDoor(d[1])
      /\ \A j \in 1..Len(orphans) : \A d \in orphans[j] : d[2][1] \in BehindDoor(d[1])
      /\ \A c \in Counts : RecordsIn(seen[c]) \subseteq BehindDoor(CountedTable[c])
  BY DEF LaneTypeOK, RightDoors, Counts
<1> USE DEF GoTo, tableVars, jobVars, loadVars, counters
<1>1. CASE /\ \A t \in Tables : RecordsIn(rows'[t]) \subseteq BehindDoor(t)
           /\ due' \subseteq due /\ UNCHANGED <<orphans, seen>>
  BY <1>0, <1>1 DEF RightDoors
<1>2. CASE PurgeOldRows
  <2>1. \A t \in Tables : rows'[t] \subseteq rows[t]
    BY <1>0, <1>2, PlacesTyped DEF PurgeOldRows
  <2>2. \A t \in Tables : RecordsIn(rows'[t]) \subseteq RecordsIn(rows[t])
    BY <2>1 DEF RecordsIn
  <2>3. QED
    BY <1>0, <1>1, <1>2, <2>2 DEF PurgeOldRows
<1>3. CASE SubmitJob
  <2>1. \A d \in due' : d[2][1] \in BehindDoor(d[1])
    BY <1>3, JobOutputDoors DEF SubmitJob
  <2>2. QED
    BY <1>0, <1>3, <2>1 DEF SubmitJob, RightDoors
<1>4. CASE WriteRow
  <2>1. PICK d \in due : AddRow(d[1], d[2][1]) /\ due' \in {due, due \ {d}}
    BY <1>4 DEF WriteRow
  <2>2. d[1] \in Tables /\ d[2][1] \in BehindDoor(d[1])
    BY <1>0, <2>1 DEF LaneTypeOK, Due
  <2>3. \A t \in Tables : RecordsIn(rows'[t]) \subseteq BehindDoor(t)
    BY <2>1, <2>2, AddRowDoors
  <2>4. QED
    BY <1>1, <1>4, <2>1, <2>3 DEF WriteRow
<1>5. CASE OrphanWrites
  <2>0. PICK j \in 1..Len(orphans) : \E d \in orphans[j] :
            AddRow(d[1], d[2][1]) /\ orphans' = [orphans EXCEPT ![j] = orphans[j] \ {d}]
    BY <1>5 DEF OrphanWrites
  <2>1. PICK d \in orphans[j] :
            AddRow(d[1], d[2][1]) /\ orphans' = [orphans EXCEPT ![j] = orphans[j] \ {d}]
    BY <2>0
  <2>2. d \in Due
    BY <1>0
  <2>3. d[1] \in Tables /\ d[2][1] \in BehindDoor(d[1])
    BY <1>0, <2>2 DEF Due
  <2>4. \A t \in Tables : RecordsIn(rows'[t]) \subseteq BehindDoor(t)
    BY <2>1, <2>3, AddRowDoors
  <2>5. /\ Len(orphans') = Len(orphans)
        /\ \A i \in 1..Len(orphans) : orphans'[i] \subseteq orphans[i]
    BY <1>0, <2>1
  <2>6. QED
    BY <1>0, <1>5, <2>4, <2>5 DEF OrphanWrites, RightDoors
<1>6. CASE RebuildCurated \/ OtherRunRebuilds
  <2>1. PICK S \in {rows["src"], {}} : rows' = [rows EXCEPT !["curated"] = S]
    BY <1>6 DEF RebuildCurated, OtherRunRebuilds
  <2>2. \A x \in S : x[1] \in Records
    BY <1>0, <2>1 DEF Tables, Rows
  <2>3. BehindDoor("curated") = Records
    BY DEF BehindDoor
  <2>4. \A t \in Tables : RecordsIn(rows'[t]) \subseteq BehindDoor(t)
    BY <1>0, <2>1, <2>2, <2>3 DEF RecordsIn
  <2>5. QED
    BY <1>1, <1>6, <2>4 DEF RebuildCurated, OtherRunRebuilds
<1>7. CASE AttemptFails
  <2>1. due' = {} /\ UNCHANGED <<rows, seen>>
    BY <1>7 DEF AttemptFails
  <2>2. due \in SUBSET Due
    BY DEF LaneTypeOK
  <2>3. orphans' = orphans \/ orphans' = Append(orphans, due)
    BY <1>7 DEF AttemptFails
  <2>4. \A j \in 1..Len(orphans') : \A d \in orphans'[j] : d[2][1] \in BehindDoor(d[1])
    <3>1. CASE orphans' = Append(orphans, due)
      <4>1. Len(orphans') = Len(orphans) + 1 /\ Len(orphans) \in Nat
        BY <1>0, <2>2, <3>1
      <4>2. \A j \in 1..Len(orphans') : orphans'[j] = IF j <= Len(orphans) THEN orphans[j] ELSE due
        BY <1>0, <2>2, <3>1
      <4>3. QED
        BY <1>0, <4>1, <4>2
    <3>2. QED
      BY <1>0, <2>3, <3>1
  <2>5. QED
    BY <1>0, <2>1, <2>4 DEF RightDoors
<1>8. CASE CountRejects \/ CountTargets \/ CountLineage
  <2>1. PICK c \in Counts : seen' = [seen EXCEPT ![c] = rows[CountedTable[c]]]
    BY <1>8 DEF CountRejects, CountTargets, CountLineage, Count, Counts, CountedTable
  <2>2. \A e \in Counts : CountedTable[e] \in Tables
    BY DEF Counts, CountedTable, Tables
  <2>3. \A e \in Counts : seen'[e] = IF e = c THEN rows[CountedTable[c]] ELSE seen[e]
    BY <1>0, <2>1
  <2>4. \A e \in Counts : RecordsIn(seen'[e]) \subseteq BehindDoor(CountedTable[e])
    BY <1>0, <2>2, <2>3
  <2>5. UNCHANGED <<rows, due, orphans>>
    BY <1>8 DEF CountRejects, CountTargets, CountLineage, Count
  <2>6. QED
    BY <1>0, <2>4, <2>5 DEF RightDoors
<1>9. CASE UNCHANGED <<rows, due, orphans, seen>>
  BY <1>0, <1>1, <1>9
<1>10. QED
  BY <1>2, <1>3, <1>4, <1>5, <1>6, <1>7, <1>8, <1>9 DEF Next, TaskStep, vars, dagVars,
     StartTask, JobFinishes, DropLedger, InsertLedger, EmitBatches, EmitFails,
     OfferDocuments, Settle, LoadFails, CheckOrphans, ReadLedger, MatchConfirmations,
     ReconFails, AssertRunBalanced, DeleteRefused, TargetConfirms, TargetRefuses, Clear

-----------------------------------------------------------------------------
(* Reconciliation.                                                         *)

(* A count of a table that covers its records, and what was counted before *)
(* it stays as it was.                                                     *)
LEMMA SnapshotStep ==
    ASSUME CoverInv, Snapshots, [Next]_vars
    PROVE  Snapshots'
<1>0. /\ LaneTypeOK /\ PlaceOK /\ NothingLost
      /\ task \in FileProcessor..BalanceGate /\ rebuilds \in Nat
      /\ seen \in [{"rejects", "targets", "lineage"} -> SUBSET Rows]
  BY DEF CoverInv, LaneTypeOK
<1> DEFINE recon == {"countTargets", "checkOrphans", "readLedger", "countLineage",
                     "matchConfirmations"}
<1>1. CASE CountRejects \/ CountTargets \/ CountLineage
  <2>1. /\ pc \in {"countRejects", "countTargets", "countLineage"} /\ rebuilds' = rebuilds
        /\ pc \in StepsOf(task)
    BY <1>0, <1>1 DEF CountRejects, CountTargets, CountLineage, Count, PlaceOK, counters
  <2>2. task = Reconciliation
    BY <1>0, <2>1 DEF StepsOf, FileProcessor, DataformRun, DataEnrichment, JsonProducer,
       LoaderApp, Reconciliation, BalanceGate
  <2>3. rebuilds = 0 => /\ Rejects \subseteq RecordsIn(rows["rejectLog"])
                        /\ Good \subseteq RecordsIn(rows["target"])
                        /\ Rejects \subseteq RecordsIn(rows["lineage"])
    BY <1>0, <2>2 DEF NothingLost, Covers, JsonProducer, Reconciliation
  <2>4. CASE CountRejects
    <3>1. /\ pc' = "countTargets" /\ seen'["rejects"] = rows["rejectLog"]
      BY <1>0, <2>4 DEF CountRejects, Count, GoTo
    <3>2. QED
      BY <2>1, <2>3, <3>1 DEF Snapshots
  <2>5. CASE CountTargets
    <3>1. /\ pc = "countTargets" /\ pc' = "checkOrphans"
          /\ seen'["rejects"] = seen["rejects"] /\ seen'["targets"] = rows["target"]
      BY <1>0, <2>5 DEF CountTargets, Count, GoTo
    <3>2. QED
      BY <2>1, <2>3, <3>1 DEF Snapshots
  <2>6. CASE CountLineage
    <3>1. /\ pc = "countLineage" /\ pc' = "matchConfirmations"
          /\ seen'["rejects"] = seen["rejects"] /\ seen'["targets"] = seen["targets"]
          /\ seen'["lineage"] = rows["lineage"]
      BY <1>0, <2>6 DEF CountLineage, Count, GoTo
    <3>2. QED
      BY <2>1, <2>3, <3>1 DEF Snapshots
  <2>7. QED
    BY <1>1, <2>4, <2>5, <2>6
<1>2. CASE /\ UNCHANGED seen /\ rebuilds' \in Nat /\ rebuilds <= rebuilds'
           /\ \/ pc' \notin recon
              \/ pc' = pc
              \/ pc = "checkOrphans" /\ pc' = "readLedger"
              \/ pc = "readLedger" /\ pc' = "countLineage"
  BY <1>0, <1>2 DEF Snapshots
<1> USE DEF GoTo, tableVars, jobVars, loadVars, counters, Succeed, Fail
<1>3. CASE StartTask
  <2>1. pc' = FirstStep(task) /\ UNCHANGED <<seen, rebuilds>>
    BY <1>3 DEF StartTask
  <2>2. pc' \notin recon
    BY <1>0, <2>1 DEF FirstStep, FileProcessor, DataformRun, DataEnrichment, JsonProducer,
       LoaderApp, Reconciliation, BalanceGate
  <2>3. QED
    BY <1>0, <1>2, <2>1, <2>2
<1>4. CASE PurgeOldRows
  <2>1. pc' = AfterPurge(pc) /\ pc \in PurgeSteps /\ UNCHANGED <<seen, rebuilds>>
    BY <1>4 DEF PurgeOldRows
  <2>2. pc' \notin recon
    BY <2>1 DEF AfterPurge, PurgeSteps
  <2>3. QED
    BY <1>0, <1>2, <2>1, <2>2
<1>5. CASE SubmitJob \/ JobFinishes \/ DropLedger \/ InsertLedger \/ RebuildCurated
  BY <1>0, <1>2, <1>5 DEF SubmitJob, JobFinishes, DropLedger, InsertLedger, RebuildCurated
<1>6. CASE WriteRow \/ OrphanWrites \/ TargetConfirms \/ TargetRefuses \/ OtherRunRebuilds
  BY <1>0, <1>2, <1>6 DEF WriteRow, OrphanWrites, TargetConfirms, TargetRefuses,
     OtherRunRebuilds, dagVars
<1>7. CASE EmitBatches \/ EmitFails \/ OfferDocuments \/ Settle \/ LoadFails
  BY <1>0, <1>2, <1>7 DEF EmitBatches, EmitFails, OfferDocuments, Settle, LoadFails
<1>8. CASE CheckOrphans \/ ReadLedger \/ MatchConfirmations \/ ReconFails \/ AssertRunBalanced
  BY <1>0, <1>2, <1>8 DEF CheckOrphans, ReadLedger, MatchConfirmations, ReconFails,
     AssertRunBalanced
<1>9. CASE AttemptFails \/ DeleteRefused
  BY <1>0, <1>2, <1>9 DEF AttemptFails, DeleteRefused
<1>10. ASSUME NEW n \in FileProcessor..BalanceGate, Clear(n)
       PROVE  Snapshots'
  BY <1>0, <1>2, <1>10 DEF Clear
<1>11. CASE UNCHANGED vars
  BY <1>0, <1>2, <1>11 DEF vars, dagVars
<1>12. QED
  BY <1>1, <1>3, <1>4, <1>5, <1>6, <1>7, <1>8, <1>9, <1>10, <1>11 DEF Next, TaskStep

(* A count has been taken before a step, and stands, or is taken by it.    *)
LEMMA CountedStep ==
    ASSUME LaneTypeOK, PlaceOK, [Next]_vars, NEW c \in Counts, Counted(c)'
    PROVE  \/ Counted(c) /\ seen'[c] = seen[c]
           \/ task = Reconciliation /\ rows' = rows /\ seen'[c] = rows[CountedTable[c]]
<1>0. /\ task \in FileProcessor..BalanceGate
      /\ seen \in [Counts -> SUBSET Rows]
      /\ c \in {"rejects", "targets", "lineage"}
  BY DEF LaneTypeOK, Counts
<1> DEFINE recon == {"countTargets", "checkOrphans", "readLedger", "countLineage",
                     "matchConfirmations"}
<1>1. AfterCount(c) \subseteq recon /\ "matchConfirmations" \in AfterCount(c)
  BY <1>0 DEF AfterCount
<1>2. CASE UNCHANGED <<task, pc, seen>>
  BY <1>2 DEF Counted
<1>3. CASE pc' = "queued" /\ UNCHANGED <<task, seen>>
  BY <1>1, <1>3 DEF Counted
<1> USE DEF GoTo, tableVars, jobVars, loadVars, counters
<1>4. CASE pc' \notin recon /\ UNCHANGED <<task, seen>>
  BY <1>1, <1>4 DEF Counted
<1>5. CASE StartTask
  <2>1. pc' = FirstStep(task) /\ UNCHANGED <<task, seen>>
    BY <1>5 DEF StartTask
  <2>2. pc' \notin recon
    BY <1>0, <2>1 DEF FirstStep, FileProcessor, DataformRun, DataEnrichment, JsonProducer,
       LoaderApp, Reconciliation, BalanceGate
  <2>3. QED
    BY <1>4, <2>1, <2>2
<1>6. CASE PurgeOldRows
  <2>1. pc' = AfterPurge(pc) /\ pc \in PurgeSteps /\ UNCHANGED <<task, seen>>
    BY <1>6 DEF PurgeOldRows
  <2>2. pc' \notin recon
    BY <2>1 DEF AfterPurge, PurgeSteps
  <2>3. QED
    BY <1>4, <2>1, <2>2
<1>7. CASE SubmitJob \/ DropLedger \/ OfferDocuments
  BY <1>4, <1>7 DEF SubmitJob, DropLedger, OfferDocuments
<1>8. CASE JobFinishes \/ InsertLedger \/ RebuildCurated \/ EmitBatches \/ Settle
  <2>1. /\ pc \in {"run", "insertLedger", "rebuild", "emit", "settle"} /\ pc \in StepsOf(task)
        /\ UNCHANGED seen
    BY <1>0, <1>8 DEF JobFinishes, InsertLedger, RebuildCurated, EmitBatches, Settle, PlaceOK
  <2>2. task \in {FileProcessor, DataformRun, DataEnrichment, JsonProducer, LoaderApp}
    BY <1>0, <2>1 DEF StepsOf, FileProcessor, DataformRun, DataEnrichment, JsonProducer,
       LoaderApp, Reconciliation, BalanceGate
  <2>3. task' \in {task, task + 1} /\ pc' \notin recon
    BY <1>8 DEF JobFinishes, InsertLedger, RebuildCurated, EmitBatches, Settle, Succeed
  <2>4. task' # BalanceGate
    BY <2>2, <2>3 DEF FileProcessor, DataformRun, DataEnrichment, JsonProducer, LoaderApp,
       BalanceGate
  <2>5. QED
    BY <1>1, <2>3, <2>4 DEF Counted
<1>9. CASE EmitFails \/ LoadFails \/ ReconFails \/ AttemptFails \/ DeleteRefused
  BY <1>3, <1>9 DEF EmitFails, LoadFails, ReconFails, AttemptFails, DeleteRefused, Fail
<1>10. CASE WriteRow \/ OrphanWrites \/ TargetConfirms \/ TargetRefuses \/ OtherRunRebuilds
  BY <1>2, <1>10 DEF WriteRow, OrphanWrites, TargetConfirms, TargetRefuses,
     OtherRunRebuilds, dagVars
<1>11. CASE MatchConfirmations
  BY <1>1, <1>11 DEF MatchConfirmations, Counted
<1>12. CASE AssertRunBalanced
  <2>1. pc = "gate" /\ pc \in StepsOf(task) /\ UNCHANGED seen
    BY <1>0, <1>12 DEF AssertRunBalanced, PlaceOK
  <2>2. task = BalanceGate
    BY <1>0, <2>1 DEF StepsOf, FileProcessor, DataformRun, DataEnrichment, JsonProducer,
       LoaderApp, Reconciliation, BalanceGate
  <2>3. QED
    BY <2>1, <2>2 DEF Counted
<1>13. CASE CountRejects \/ CountTargets \/ CountLineage \/ CheckOrphans \/ ReadLedger
  <2>1. /\ pc \in {"countRejects", "countTargets", "countLineage", "checkOrphans", "readLedger"}
        /\ pc \in StepsOf(task) /\ rows' = rows /\ task' = task
    BY <1>0, <1>13 DEF CountRejects, CountTargets, CountLineage, Count, CheckOrphans,
       ReadLedger, PlaceOK
  <2>2. task = Reconciliation
    BY <1>0, <2>1 DEF StepsOf, FileProcessor, DataformRun, DataEnrichment, JsonProducer,
       LoaderApp, Reconciliation, BalanceGate
  <2>3. task' # BalanceGate
    BY <2>1, <2>2 DEF Reconciliation, BalanceGate
  <2>4. pc' \in AfterCount(c)
    BY <2>3 DEF Counted
  <2>5. CASE CountRejects
    <3>1. pc' = "countTargets" /\ seen' = [seen EXCEPT !["rejects"] = rows["rejectLog"]]
      BY <2>5 DEF CountRejects, Count
    <3>2. c = "rejects"
      BY <1>0, <2>4, <3>1 DEF AfterCount
    <3>3. QED
      BY <1>0, <2>1, <2>2, <3>1, <3>2 DEF CountedTable
  <2>6. CASE CountTargets
    <3>1. /\ pc = "countTargets" /\ pc' = "checkOrphans"
          /\ seen' = [seen EXCEPT !["targets"] = rows["target"]]
      BY <2>6 DEF CountTargets, Count
    <3>2. CASE c = "targets"
      BY <1>0, <2>1, <2>2, <3>1, <3>2 DEF CountedTable
    <3>3. CASE c = "rejects"
      BY <1>0, <3>1, <3>3 DEF Counted, AfterCount
    <3>4. QED
      BY <1>0, <2>4, <3>1, <3>2, <3>3 DEF AfterCount
  <2>7. CASE CountLineage
    <3>1. /\ pc = "countLineage" /\ pc' = "matchConfirmations"
          /\ seen' = [seen EXCEPT !["lineage"] = rows["lineage"]]
      BY <2>7 DEF CountLineage, Count
    <3>2. CASE c = "lineage"
      BY <1>0, <2>1, <2>2, <3>1, <3>2 DEF CountedTable
    <3>3. CASE c \in {"rejects", "targets"}
      BY <1>0, <3>1, <3>3 DEF Counted, AfterCount
    <3>4. QED
      BY <1>0, <3>2, <3>3
  <2>8. CASE CheckOrphans \/ ReadLedger
    <3>1. /\ pc \in {"checkOrphans", "readLedger"} /\ pc' \in {"readLedger", "countLineage"}
          /\ seen' = seen
      BY <2>8 DEF CheckOrphans, ReadLedger
    <3>2. c \in {"rejects", "targets"}
      BY <1>0, <2>4, <3>1 DEF AfterCount
    <3>3. QED
      BY <3>1, <3>2 DEF Counted, AfterCount
  <2>9. QED
    BY <1>13, <2>5, <2>6, <2>7, <2>8
<1>14. ASSUME NEW n \in FileProcessor..BalanceGate, Clear(n)
       PROVE  Counted(c) /\ seen'[c] = seen[c]
  <2>1. task' = n /\ n <= task /\ pc' = "queued" /\ UNCHANGED seen
    BY <1>14 DEF Clear
  <2>2. task' = BalanceGate
    BY <1>1, <2>1 DEF Counted
  <2>3. task = BalanceGate
    BY <1>0, <2>1, <2>2 DEF FileProcessor, BalanceGate
  <2>4. QED
    BY <2>1, <2>3 DEF Counted
<1>15. CASE UNCHANGED vars
  BY <1>2, <1>15 DEF vars, dagVars
<1>16. QED
  BY <1>5, <1>6, <1>7, <1>8, <1>9, <1>10, <1>11, <1>12, <1>13, <1>14, <1>15
     DEF Next, TaskStep

(* Only a job left behind adds to a table that has been counted.           *)
LEMMA CountedTableStays ==
    ASSUME LaneTypeOK, PlaceOK, [Next]_vars, NEW c \in Counts, Counted(c), orphans' = <<>>
    PROVE  orphans = <<>> /\ rows'[CountedTable[c]] = rows[CountedTable[c]]
<1>0. /\ task \in FileProcessor..BalanceGate
      /\ pc = "queued" \/ pc \in StepsOf(task)
      /\ rows \in [Tables -> SUBSET Rows] /\ orphans \in Seq(SUBSET Due)
      /\ c \in {"rejects", "targets", "lineage"}
  BY DEF LaneTypeOK, PlaceOK, Counts
<1>1. CountedTable[c] \in Tables /\ CountedTable[c] # "curated"
  BY <1>0 DEF CountedTable, Tables
<1>2. task \in {Reconciliation, BalanceGate}
  BY <1>0 DEF Counted, AfterCount, StepsOf, FileProcessor, DataformRun, DataEnrichment,
     JsonProducer, LoaderApp, Reconciliation, BalanceGate
<1>3. pc \notin PurgeSteps \cup {"run"}
  BY <1>0, <1>2 DEF StepsOf, PurgeSteps, FileProcessor, DataformRun, DataEnrichment,
     JsonProducer, LoaderApp, Reconciliation, BalanceGate
<1>4. due = {} /\ ~PurgeOldRows
  BY <1>3 DEF PlaceOK, PurgeOldRows
<1>5. ~WriteRow
  BY <1>4 DEF WriteRow
<1> USE DEF GoTo, tableVars, jobVars, loadVars, counters
<1>6. ~OrphanWrites
  <2> SUFFICES ASSUME OrphanWrites PROVE FALSE
    OBVIOUS
  <2>1. PICK j \in 1..Len(orphans) : \E d \in orphans[j] :
            orphans' = [orphans EXCEPT ![j] = orphans[j] \ {d}]
    BY DEF OrphanWrites
  <2>2. Len(orphans') = Len(orphans)
    BY <1>0, <2>1
  <2>3. QED
    BY <1>0, <2>1, <2>2
<1>7. CASE RebuildCurated \/ OtherRunRebuilds
  BY <1>0, <1>1, <1>7 DEF RebuildCurated, OtherRunRebuilds
<1>8. CASE UNCHANGED <<rows, orphans>>
  BY <1>8
<1>9. CASE AttemptFails
  BY <1>4, <1>9 DEF AttemptFails
<1>10. QED
  BY <1>4, <1>5, <1>6, <1>7, <1>8, <1>9 DEF Next, TaskStep, vars, dagVars, StartTask,
     SubmitJob, JobFinishes, DropLedger, InsertLedger, EmitBatches, EmitFails,
     OfferDocuments, Settle, LoadFails, CountRejects, CountTargets, CountLineage, Count,
     CheckOrphans, ReadLedger, MatchConfirmations, ReconFails, AssertRunBalanced,
     DeleteRefused, TargetConfirms, TargetRefuses, Clear

(* What a count says of its table, it goes on saying.                      *)
LEMMA CountsStep ==
    ASSUME CoverInv, CountsOK, [Next]_vars
    PROVE  CountsOK'
<1> SUFFICES ASSUME NEW c \in Counts, Counted(c)'
             PROVE  /\ c # "targets" => ParseRejects \subseteq RecordsIn(seen'[c])
                    /\ orphans' = <<>> => seen'[c] = rows'[CountedTable[c]]
  BY DEF CountsOK
<1>0. LaneTypeOK /\ PlaceOK /\ NothingLost /\ task \in FileProcessor..BalanceGate
  BY DEF CoverInv, LaneTypeOK
<1>1. CASE Counted(c) /\ seen'[c] = seen[c]
  <2>1. c # "targets" => ParseRejects \subseteq RecordsIn(seen'[c])
    BY <1>1 DEF CountsOK
  <2>2. orphans' = <<>> => seen'[c] = rows'[CountedTable[c]]
    BY <1>0, <1>1, CountedTableStays DEF CountsOK
  <2>3. QED
    BY <2>1, <2>2
<1>2. CASE task = Reconciliation /\ rows' = rows /\ seen'[c] = rows[CountedTable[c]]
  <2>1. Covers("rejectLog", ParseRejects) /\ Covers("lineage", ParseRejects)
    BY <1>0, <1>2 DEF NothingLost, FileProcessor, Reconciliation
  <2>2. c # "targets" => CountedTable[c] \in {"rejectLog", "lineage"}
    BY DEF Counts, CountedTable
  <2>3. QED
    BY <1>2, <2>1, <2>2 DEF Covers
<1>3. QED
  BY <1>0, <1>1, <1>2, CountedStep

(* Reconciliation passes: its three counts and what they cover leave every *)
(* record one door.                                                        *)
LEMMA BalanceForces ==
    ASSUME CoverInv, Snapshots, rebuilds = 0, pc = "matchConfirmations",
           Balances, LedgerAgreesWithLineage
    PROVE  /\ ExactlyOnce(seen["targets"], Good)
           /\ ExactlyOnce(seen["rejects"], Rejects)
           /\ ExactlyOnce(seen["lineage"], Rejects)
<1> DEFINE targets == seen["targets"]
           rejects == seen["rejects"]
           lineage == seen["lineage"]
<1>1. IsFiniteSet(targets) /\ IsFiniteSet(rejects) /\ IsFiniteSet(lineage)
  BY DEF CoverInv, LaneTypeOK
<1>2. /\ Good \subseteq RecordsIn(targets)
      /\ Rejects \subseteq RecordsIn(rejects)
      /\ Rejects \subseteq RecordsIn(lineage)
  BY DEF Snapshots
<1>3. ASSUME NEW S, IsFiniteSet(S), NEW R, R \subseteq RecordsIn(S)
      PROVE  Cardinality(S) \in Nat /\ Cardinality(R) \in Nat /\ Cardinality(R) <= Cardinality(S)
  <2>1. /\ IsFiniteSet(RecordsIn(S)) /\ Cardinality(RecordsIn(S)) \in Nat
        /\ Cardinality(S) \in Nat /\ Cardinality(RecordsIn(S)) <= Cardinality(S)
    BY <1>3, CountOfRows
  <2>2. IsFiniteSet(R) /\ Cardinality(R) <= Cardinality(RecordsIn(S))
    BY <1>3, <2>1, FS_Subset
  <2>3. Cardinality(R) \in Nat
    BY <2>2, FS_CardinalityType
  <2>4. QED
    BY <2>1, <2>2, <2>3
<1>4. /\ Cardinality(Records) = Cardinality(targets) + Cardinality(rejects)
      /\ Cardinality(lineage) = Cardinality(rejects)
  BY DEF Balances, LedgerAgreesWithLineage
<1> HIDE DEF targets, rejects, lineage
<1>5. /\ Cardinality(targets) \in Nat /\ Cardinality(Good) <= Cardinality(targets)
      /\ Cardinality(rejects) \in Nat /\ Cardinality(Rejects) <= Cardinality(rejects)
  BY <1>1, <1>2, <1>3
<1>6. /\ Cardinality(targets) <= Cardinality(Good)
      /\ Cardinality(rejects) <= Cardinality(Rejects)
      /\ Cardinality(lineage) <= Cardinality(Rejects)
  BY <1>4, <1>5, DoorsAddUp
<1>7. /\ ExactlyOnce(targets, Good)
      /\ ExactlyOnce(rejects, Rejects)
      /\ ExactlyOnce(lineage, Rejects)
  BY <1>1, <1>2, <1>6, CoverIsExact
<1>8. QED
  BY <1>7 DEF targets, rejects, lineage

(* A table whose rows are some of a set's records, none twice, and which   *)
(* has no fewer than the set, has each of them exactly once.               *)
LEMMA OnceIsExact ==
    ASSUME NEW S, IsFiniteSet(S), NEW R, IsFiniteSet(R), RecordsIn(S) \subseteq R,
           NoneTwice(S), Cardinality(R) <= Cardinality(S)
    PROVE  ExactlyOnce(S, R)
<1> DEFINE f == [x \in S |-> x[1]]
<1>1. f \in Surjection(S, RecordsIn(S)) /\ f \in Injection(S, RecordsIn(S))
  BY DEF Injection, IsInjective, Surjection, RecordsIn, NoneTwice
<1>2. Cardinality(RecordsIn(S)) = Cardinality(S)
  BY <1>1, FS_Surjection
<1>3. /\ Cardinality(RecordsIn(S)) <= Cardinality(R)
      /\ Cardinality(R) = Cardinality(RecordsIn(S)) => RecordsIn(S) = R
  BY FS_Subset
<1>4. Cardinality(R) \in Nat /\ Cardinality(S) \in Nat
  BY FS_CardinalityType
<1>5. Cardinality(R) = Cardinality(RecordsIn(S))
  BY <1>2, <1>3, <1>4
<1>6. QED
  BY <1>3, <1>5 DEF ExactlyOnce

(* Where no record is counted twice and each is behind its own door, the   *)
(* counts balance only if none is missing.                                 *)
LEMMA BalanceOfOnce ==
    ASSUME LaneTypeOK, RightDoors, \A c \in Counts : NoneTwice(seen[c]),
           Balances, LedgerAgreesWithLineage
    PROVE  /\ ExactlyOnce(seen["targets"], Good)
           /\ ExactlyOnce(seen["rejects"], Rejects)
           /\ ExactlyOnce(seen["lineage"], Rejects)
<1> DEFINE targets == seen["targets"]
           rejects == seen["rejects"]
           lineage == seen["lineage"]
<1>1. IsFiniteSet(targets) /\ IsFiniteSet(rejects) /\ IsFiniteSet(lineage)
  BY DEF LaneTypeOK
<1>2. NoneTwice(targets) /\ NoneTwice(rejects) /\ NoneTwice(lineage)
  BY DEF Counts
<1>3. /\ RecordsIn(targets) \subseteq Good
      /\ RecordsIn(rejects) \subseteq Rejects
      /\ RecordsIn(lineage) \subseteq Rejects
  BY DEF RightDoors, Counts, CountedTable, BehindDoor
<1>4. /\ Cardinality(Records) = Cardinality(targets) + Cardinality(rejects)
      /\ Cardinality(lineage) = Cardinality(rejects)
  BY DEF Balances, LedgerAgreesWithLineage
<1> HIDE DEF targets, rejects, lineage
<1>5. IsFiniteSet(Good) /\ IsFiniteSet(Rejects)
  <2>1. Good \subseteq Records /\ Rejects \subseteq Records
    BY DoorsAreDisjoint DEF Good, Parsed, Rejects
  <2>2. QED
    BY <2>1, FS_Subset, DoorsAreDisjoint
<1>6. ASSUME NEW S, IsFiniteSet(S), NEW R, IsFiniteSet(R), NoneTwice(S), RecordsIn(S) \subseteq R
      PROVE  Cardinality(S) \in Nat /\ Cardinality(S) <= Cardinality(R)
  <2> DEFINE f == [x \in S |-> x[1]]
  <2>1. f \in Injection(S, R)
    BY <1>6 DEF Injection, IsInjective, RecordsIn, NoneTwice
  <2> HIDE DEF f
  <2>2. QED
    BY <1>6, <2>1, FS_Injection, FS_CardinalityType
<1>7. /\ Cardinality(targets) \in Nat /\ Cardinality(targets) <= Cardinality(Good)
      /\ Cardinality(rejects) \in Nat /\ Cardinality(rejects) <= Cardinality(Rejects)
  BY <1>1, <1>2, <1>3, <1>5, <1>6
<1>8. /\ Cardinality(Good) <= Cardinality(targets)
      /\ Cardinality(Rejects) <= Cardinality(rejects)
      /\ Cardinality(Rejects) <= Cardinality(lineage)
  BY <1>4, <1>7, DoorsAddUp
<1>9. /\ ExactlyOnce(targets, Good)
      /\ ExactlyOnce(rejects, Rejects)
      /\ ExactlyOnce(lineage, Rejects)
  BY <1>1, <1>2, <1>3, <1>5, <1>8, OnceIsExact
<1>10. QED
  BY <1>9 DEF targets, rejects, lineage

(* Only a reconciliation that passes puts the run before the gate, and     *)
(* what it has seen stays as it was from there on.                         *)
LEMMA GateStep ==
    ASSUME CoverInv, [Next]_vars, task' = BalanceGate
    PROVE  /\ rebuilds' = 0 => rebuilds = 0
           /\ confirmed \subseteq confirmed'
           /\ \/ task = BalanceGate /\ UNCHANGED seen
              \/ MatchConfirmations /\ task = Reconciliation
<1>0. PlaceOK /\ task \in FileProcessor..BalanceGate /\ rebuilds \in Nat
  BY DEF CoverInv, LaneTypeOK
<1> USE DEF GoTo, tableVars, jobVars, loadVars, counters, Succeed, Fail
<1>1. (rebuilds' = 0 => rebuilds = 0) /\ confirmed \subseteq confirmed'
  <2>1. rebuilds' \in {rebuilds, rebuilds + 1} /\ confirmed \subseteq confirmed'
    BY DEF Next, TaskStep, vars, dagVars, StartTask, PurgeOldRows, SubmitJob, WriteRow,
       JobFinishes, DropLedger, InsertLedger, RebuildCurated, EmitBatches, EmitFails,
       OfferDocuments, Settle, LoadFails, CountRejects, CountTargets, CheckOrphans,
       ReadLedger, CountLineage, Count, MatchConfirmations, ReconFails, AssertRunBalanced,
       AttemptFails, DeleteRefused, OrphanWrites, TargetConfirms, TargetRefuses,
       OtherRunRebuilds, Clear
  <2>2. QED
    BY <1>0, <2>1
<1>2. CASE MatchConfirmations
  <2>1. pc = "matchConfirmations" /\ pc \in StepsOf(task)
    BY <1>0, <1>2 DEF MatchConfirmations, PlaceOK
  <2>2. task = Reconciliation
    BY <1>0, <2>1 DEF StepsOf, FileProcessor, DataformRun, DataEnrichment, JsonProducer,
       LoaderApp, Reconciliation, BalanceGate
  <2>3. QED
    BY <1>1, <1>2, <2>2
<1>3. CASE Succeed /\ (JobFinishes \/ InsertLedger \/ RebuildCurated \/ EmitBatches \/ Settle)
  <2>1. pc \in {"run", "insertLedger", "rebuild", "emit", "settle"} /\ pc \in StepsOf(task)
    BY <1>0, <1>3 DEF JobFinishes, InsertLedger, RebuildCurated, EmitBatches, Settle, PlaceOK
  <2>2. task \in {FileProcessor, DataformRun, DataEnrichment, JsonProducer, LoaderApp}
    BY <1>0, <2>1 DEF StepsOf, FileProcessor, DataformRun, DataEnrichment, JsonProducer,
       LoaderApp, Reconciliation, BalanceGate
  <2>3. QED
    BY <1>3, <2>2 DEF FileProcessor, DataformRun, DataEnrichment, JsonProducer, LoaderApp,
       BalanceGate
<1>4. CASE CountRejects \/ CountTargets \/ CountLineage
  <2>1. pc \in {"countRejects", "countTargets", "countLineage"} /\ pc \in StepsOf(task)
        /\ task' = task
    BY <1>0, <1>4 DEF CountRejects, CountTargets, CountLineage, Count, PlaceOK
  <2>2. task = Reconciliation
    BY <1>0, <2>1 DEF StepsOf, FileProcessor, DataformRun, DataEnrichment, JsonProducer,
       LoaderApp, Reconciliation, BalanceGate
  <2>3. QED
    BY <2>1, <2>2 DEF Reconciliation, BalanceGate
<1>5. CASE UNCHANGED <<task, seen>>
  BY <1>1, <1>5
<1>6. CASE AssertRunBalanced
  <2>1. pc = "gate" /\ pc \in StepsOf(task) /\ UNCHANGED seen
    BY <1>0, <1>6 DEF AssertRunBalanced, PlaceOK
  <2>2. task = BalanceGate
    BY <1>0, <2>1 DEF StepsOf, FileProcessor, DataformRun, DataEnrichment, JsonProducer,
       LoaderApp, Reconciliation, BalanceGate
  <2>3. QED
    BY <1>1, <2>1, <2>2
<1>7. ASSUME NEW n \in FileProcessor..BalanceGate, Clear(n)
      PROVE  task = BalanceGate /\ UNCHANGED seen
  BY <1>0, <1>7 DEF Clear, FileProcessor, BalanceGate
<1>8. QED
  BY <1>1, <1>2, <1>3, <1>4, <1>5, <1>6, <1>7 DEF Next, TaskStep, vars, dagVars,
     StartTask, PurgeOldRows, SubmitJob, WriteRow, JobFinishes, DropLedger, InsertLedger,
     RebuildCurated, EmitBatches, EmitFails, OfferDocuments, Settle, LoadFails,
     CheckOrphans, ReadLedger, ReconFails, AttemptFails, DeleteRefused, OrphanWrites,
     TargetConfirms, TargetRefuses, OtherRunRebuilds

-----------------------------------------------------------------------------
(* The invariant and the theorems.                                         *)

(* The initial state satisfies the invariant.                              *)
LEMMA LaneInvInit == LaneInit => LaneInv
<1> SUFFICES ASSUME LaneInit PROVE LaneInv
  OBVIOUS
<1>1. LaneTypeOK
  BY LaneTypeInit
<1>2. PlaceOK /\ JobOwes /\ Snapshots
  BY DEF LaneInit, PlaceOK, JobOwes, Snapshots
<1>3. task = 1
  BY DEF LaneInit, FileProcessor
<1>4. RightDoors
  <2>1. RecordsIn({}) = {}
    BY DEF RecordsIn
  <2>2. /\ rows = [t \in Tables |-> {}] /\ seen = [c \in Counts |-> {}]
        /\ due = {} /\ orphans = <<>>
    BY DEF LaneInit, Counts
  <2>3. QED
    BY <2>1, <2>2 DEF RightDoors
<1>5. CountsOK
  BY <1>3 DEF LaneInit, CountsOK, Counted, AfterCount, Counts, BalanceGate
<1>6. NothingLost /\ OneDoor /\ GoodIsConfirmed
  BY <1>3 DEF NothingLost, OneDoor, GoodIsConfirmed, FileProcessor, DataformRun,
     DataEnrichment, JsonProducer, BalanceGate
<1>7. QED
  BY <1>1, <1>2, <1>4, <1>5, <1>6 DEF LaneInv

(* Every step keeps the invariant.                                         *)
LEMMA LaneInvStep ==
    ASSUME LaneInv, [Next]_vars
    PROVE  LaneInv'
<1>0. /\ CoverInv /\ Snapshots /\ RightDoors /\ CountsOK /\ OneDoor /\ GoodIsConfirmed
      /\ NothingLost /\ LaneTypeOK
  BY DEF LaneInv, CoverInv
<1>1. CoverInv' /\ Snapshots'
  BY <1>0, CoverStep, SnapshotStep
<1>2. RightDoors' /\ CountsOK'
  BY <1>0, RightDoorsStep, CountsStep DEF CoverInv
<1>3. OneDoor' /\ GoodIsConfirmed'
  <2> SUFFICES ASSUME task' = BalanceGate
               PROVE  OneDoor' /\ (rebuilds' = 0 => Good \subseteq confirmed')
    BY DEF OneDoor, GoodIsConfirmed
  <2>1. /\ rebuilds' = 0 => rebuilds = 0
        /\ confirmed \subseteq confirmed'
        /\ \/ task = BalanceGate /\ UNCHANGED seen
           \/ MatchConfirmations /\ task = Reconciliation
    BY <1>0, GateStep
  <2>2. seen' = seen /\ DOMAIN seen = Counts
    BY <1>0, <2>1 DEF MatchConfirmations, LaneTypeOK, Counts
  <2>3. \A c \in Counts : Counted(c)'
    BY DEF Counted
  <2>4. /\ RecordsIn(seen'["targets"]) \subseteq Good
        /\ \A c \in {"rejects", "lineage"} :
              /\ ParseRejects \subseteq RecordsIn(seen'[c])
              /\ RecordsIn(seen'[c]) \subseteq Rejects
        /\ orphans' = <<>> => \A c \in Counts : seen'[c] = rows'[CountedTable[c]]
    BY <1>2, <2>3 DEF RightDoors, CountsOK, Counts, CountedTable, BehindDoor
  <2>5. ASSUME rebuilds' = 0 \/ \A c \in Counts : NoneTwice(seen'[c])
        PROVE  /\ ExactlyOnce(seen'["targets"], Good)
               /\ ExactlyOnce(seen'["rejects"], Rejects)
               /\ ExactlyOnce(seen'["lineage"], Rejects)
    <3>1. rebuilds = 0 \/ \A c \in Counts : NoneTwice(seen[c])
      BY <2>1, <2>2, <2>5
    <3>2. CASE task = BalanceGate
      BY <1>0, <2>2, <3>1, <3>2 DEF OneDoor
    <3>3. CASE MatchConfirmations
      <4>1. pc = "matchConfirmations" /\ Balances /\ LedgerAgreesWithLineage
        BY <3>3 DEF MatchConfirmations
      <4>2. QED
        BY <1>0, <2>2, <3>1, <4>1, BalanceForces, BalanceOfOnce
    <3>4. QED
      BY <2>1, <3>2, <3>3
  <2>6. OneDoor'
    BY <2>2, <2>4, <2>5 DEF OneDoor
  <2>7. ASSUME rebuilds' = 0
        PROVE  Good \subseteq confirmed'
    <3>1. CASE task = BalanceGate
      BY <1>0, <2>1, <2>7, <3>1 DEF GoodIsConfirmed
    <3>2. CASE MatchConfirmations /\ task = Reconciliation
      <4>1. AllConfirmed
        BY <3>2 DEF MatchConfirmations
      <4>2. Covers("target", Good)
        BY <1>0, <2>1, <2>7, <3>2 DEF NothingLost, JsonProducer, Reconciliation
      <4>3. QED
        BY <2>1, <4>1, <4>2 DEF Covers, AllConfirmed
    <3>3. QED
      BY <2>1, <3>1, <3>2
  <2>8. QED
    BY <2>6, <2>7
<1>4. QED
  BY <1>1, <1>2, <1>3 DEF LaneInv, CoverInv

(* LaneInv is inductive: it holds through every task, retry, job left      *)
(* behind, second worker and return to an earlier task.                    *)
THEOREM LaneInvariant == Spec => []LaneInv
<1>1. QED
  BY LaneInvInit, LaneInvStep, PTL DEF Spec

(* Every variable keeps its type, and every table its finitely many rows.  *)
THEOREM LaneTyped == Spec => []LaneTypeOK
<1>1. LaneInv => LaneTypeOK
  BY DEF LaneInv
<1>2. QED
  BY <1>1, LaneInvariant, PTL

(* No stage loses a record, whatever fails, is retried or is cleared.      *)
THEOREM LaneLosesNothing == Spec => []NothingLost
<1>1. LaneInv => NothingLost
  BY DEF LaneInv
<1>2. QED
  BY <1>1, LaneInvariant, PTL

(* A run that reconciliation passes has counted each record behind its own *)
(* door, exactly once unless account_curated was rebuilt under the run and *)
(* a row doubled.                                                          *)
THEOREM LaneOneDoor == Spec => []OneDoor
<1>1. LaneInv => OneDoor
  BY DEF LaneInv
<1>2. QED
  BY <1>1, LaneInvariant, PTL

(* It has also had every good record confirmed by the Target System.       *)
THEOREM LaneGoodConfirmed == Spec => []GoodIsConfirmed
<1>1. LaneInv => GoodIsConfirmed
  BY DEF LaneInv
<1>2. QED
  BY <1>1, LaneInvariant, PTL

-----------------------------------------------------------------------------
(* The rerun discipline.                                                   *)

(* One step of PurgesItsOwn.                                               *)
PurgedByItsOwner ==
    \A t \in Tables : \A x \in rows[t] \ rows'[t] :
        task <= WriterOf(t, x[1]) \/ rebuilds' > rebuilds

(* A step deletes a row only in its writer's turn, or in a rebuild.         *)
LEMMA PurgesItsOwnStep ==
    ASSUME LaneInv, [Next]_vars
    PROVE  PurgedByItsOwner
<1>0. /\ LaneTypeOK /\ PlaceOK /\ task \in FileProcessor..BalanceGate
      /\ rows \in [Tables -> SUBSET Rows] /\ rebuilds \in Nat
  BY DEF LaneInv, LaneTypeOK
<1>1. CASE \A t \in Tables : rows[t] \subseteq rows'[t]
  BY <1>1 DEF PurgedByItsOwner
<1> USE DEF GoTo, tableVars, jobVars, loadVars, counters
<1>2. CASE PurgeOldRows
  <2> SUFFICES ASSUME NEW t \in Tables, NEW x \in rows[t] \ rows'[t]
               PROVE  task <= WriterOf(t, x[1])
    BY DEF PurgedByItsOwner
  <2>1. t = PurgedTable(pc) /\ x \in Purged(pc)
    BY <1>0, <1>2 DEF PurgeOldRows
  <2>2. pc \in PurgeSteps /\ pc \in StepsOf(task) /\ x[1] \in PurgedRecords(pc)
    BY <1>0, <1>2, <2>1 DEF PurgeOldRows, PlaceOK, Purged, PurgeSteps
  <2>3. CASE task = FileProcessor
    BY <2>3 DEF WriterOf, Tables, FileProcessor, DataformRun, DataEnrichment, JsonProducer
  <2>4. CASE task = DataEnrichment
    <3>1. pc = "purgeEnriched"
      BY <2>2, <2>4 DEF PurgeSteps, StepsOf, FileProcessor, DataformRun, DataEnrichment,
         JsonProducer, LoaderApp, Reconciliation, BalanceGate
    <3>2. t = "enriched"
      BY <2>1, <3>1 DEF PurgedTable
    <3>3. QED
      BY <2>4, <3>2 DEF WriterOf, DataEnrichment
  <2>5. CASE task = JsonProducer
    <3>1. pc \in {"purgeTarget", "purgeLateRejects", "purgeLateLineage"}
      BY <2>2, <2>5 DEF PurgeSteps, StepsOf, FileProcessor, DataformRun, DataEnrichment,
         JsonProducer, LoaderApp, Reconciliation, BalanceGate
    <3>2. CASE pc = "purgeTarget"
      BY <2>1, <2>5, <3>2 DEF PurgedTable, WriterOf, JsonProducer
    <3>3. CASE pc \in {"purgeLateRejects", "purgeLateLineage"}
      <4>1. t \in {"rejectLog", "lineage"}
        BY <2>1, <3>3 DEF PurgedTable
      <4>2. x[1] \notin ParseRejects
        BY <2>2, <3>3, DoorsAreDisjoint DEF PurgedRecords
      <4>3. QED
        BY <2>5, <4>1, <4>2 DEF WriterOf, JsonProducer
    <3>4. QED
      BY <3>1, <3>2, <3>3
  <2>6. task \in {FileProcessor, DataEnrichment, JsonProducer}
    BY <1>0, <2>2 DEF PurgeSteps, StepsOf, FileProcessor, DataformRun, DataEnrichment,
       JsonProducer, LoaderApp, Reconciliation, BalanceGate
  <2>7. QED
    BY <2>3, <2>4, <2>5, <2>6
<1>3. CASE RebuildCurated
  <2>1. task = DataformRun
    BY <1>0, <1>3 DEF RebuildCurated, PlaceOK, StepsOf, FileProcessor, DataformRun,
       DataEnrichment, JsonProducer, LoaderApp, Reconciliation, BalanceGate
  <2>2. \A t \in Tables : t # "curated" => rows'[t] = rows[t]
    BY <1>0, <1>3 DEF RebuildCurated
  <2>3. QED
    BY <2>1, <2>2 DEF PurgedByItsOwner, WriterOf, DataformRun
<1>4. CASE OtherRunRebuilds
  BY <1>0, <1>4 DEF OtherRunRebuilds, PurgedByItsOwner
<1>5. CASE WriteRow
  <2>1. PICK d \in due : AddRow(d[1], d[2][1])
    BY <1>5 DEF WriteRow
  <2>2. d[1] \in Tables /\ d[2][1] \in Records
    BY <1>0, <2>1 DEF LaneTypeOK, Due, Rows
  <2>3. QED
    BY <1>0, <1>1, <2>1, <2>2, AddRowAdds
<1>6. CASE OrphanWrites
  <2>1. PICK j \in 1..Len(orphans) : \E d \in orphans[j] : AddRow(d[1], d[2][1])
    BY <1>6 DEF OrphanWrites
  <2>2. PICK d \in orphans[j] : AddRow(d[1], d[2][1])
    BY <2>1
  <2>3. d \in Due
    BY <1>0 DEF LaneTypeOK
  <2>4. d[1] \in Tables /\ d[2][1] \in Records
    BY <2>3 DEF Due, Rows
  <2>5. QED
    BY <1>0, <1>1, <2>2, <2>4, AddRowAdds
<1>7. CASE UNCHANGED rows
  BY <1>1, <1>7
<1>8. QED
  BY <1>2, <1>3, <1>4, <1>5, <1>6, <1>7 DEF Next, TaskStep, vars, StartTask, SubmitJob,
     JobFinishes, DropLedger, InsertLedger, EmitBatches, EmitFails, OfferDocuments, Settle,
     LoadFails, CountRejects, CountTargets, CheckOrphans, ReadLedger, CountLineage, Count,
     MatchConfirmations, ReconFails, AssertRunBalanced, AttemptFails, DeleteRefused,
     TargetConfirms, TargetRefuses, Clear

(* A stage deletes no row that neither it nor a later stage writes again,  *)
(* so a task that an operator clears on its own finds what it reads.       *)
THEOREM LanePurgesItsOwn == Spec => PurgesItsOwn
<1>1. LaneInv /\ [Next]_vars => [PurgedByItsOwner]_vars
  BY PurgesItsOwnStep
<1>2. QED
  BY <1>1, LaneInvariant, PTL DEF Spec, PurgesItsOwn, PurgedByItsOwner

=============================================================================
