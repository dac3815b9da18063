------------------------ MODULE TransformLane_proofs ------------------------
(***************************************************************************)
(* Theorems about TransformLane, for every number of records, batch size,  *)
(* choice of writers and bound on attempts and faults.  The inductive      *)
(* invariant follows a row from the curated table to the sinks: how often  *)
(* it may have been written, that the numbered rows have it, that the      *)
(* closed batches cover the places before the open one, and which of them  *)
(* each sink has.                                                          *)
(***************************************************************************)
EXTENDS TransformLane, DataformOrder_proofs, FoldLemmas

(* Shapes that EmitTypeOK does not give.                                   *)
Shapes ==
    /\ enriched \in [Records -> Nat] /\ target \in [Records -> Nat]
    /\ rows \in [Records -> Nat]
    /\ stray \subseteq Records \ MapRejects /\ topic \subseteq Records
    /\ epc \in {"idle", "enriching", "enriched"}
    /\ ppc \in {"idle", "mapping", "emitting", "writing", "flushing", "done", "alarm", "failed"}
    /\ ppc # "idle" => epc = "enriched"
    /\ commits \in Nat /\ reads \in Nat /\ errors \in Nat
    /\ starts \in 0..MaxStarts /\ faults \in 0..MaxFaults
    /\ numbered \in Seq(Records)
    /\ queue \subseteq DOMAIN numbered /\ acked \subseteq DOMAIN numbered
    /\ queue \cap acked = {}
    /\ writers \in WriterLists

(* The copies of one record: its row, and one more per fault.              *)
One(b) == IF b THEN 1 ELSE 0
CopiesBounded ==
    \A r \in Records :
        /\ rows[r] <= 1 + faults
        /\ enriched[r] <= 1 + faults
        /\ epc = "enriching" => rows[r] + enriched[r] <= 1 + faults
        /\ target[r] + One(r \in stray) + (IF ppc = "mapping" THEN rows[r] ELSE 0)
              <= 2 + 2 * faults

(* From the first bundle to the checks, every row the metric counts is in  *)
(* the table and every record that maps is in it or still to come.         *)
MapInv ==
    /\ ppc = "mapping" =>
          /\ numbered = <<>>
          /\ commits <= Size(target)
          /\ \A r \in Records \ MapRejects : enriched[r] > 0 => target[r] > 0 \/ rows[r] > 0
    /\ ppc \in {"emitting", "writing", "flushing", "done", "alarm"} =>
          /\ commits <= Len(numbered)
          /\ \A r \in Records \ MapRejects : enriched[r] > 0 => r \in ToSet(numbered)

Closed == Cardinality(DOMAIN counters)
ClosedRows == taken - Len(batch)
FullBatches(k) == \A b \in 0..(k - 1) : counters[b] = BatchSize

(* The open batch is a stretch of places up to the last one taken; the     *)
(* closed ones cover all places before it, each full, but perhaps for the  *)
(* very last.                                                              *)
LoopInv ==
    /\ taken \in 0..Len(numbered) /\ currentId \in Nat
    /\ batch \in Seq(Nat) /\ Len(batch) <= taken /\ Len(batch) <= BatchSize
    /\ \A k \in 1..Len(batch) : batch[k] = ClosedRows + k
    /\ Closed \in Nat /\ DOMAIN counters = 0..(Closed - 1)
    /\ \A b \in DOMAIN counters : counters[b] \in Nat
    /\ \/ ClosedRows = Closed * BatchSize /\ FullBatches(Closed)
       \/ /\ batch = <<>> /\ AllTaken /\ Closed > 0
          /\ (Closed - 1) * BatchSize < taken /\ taken < Closed * BatchSize
          /\ FullBatches(Closed - 1)
          /\ counters[Closed - 1] = taken - (Closed - 1) * BatchSize
    /\ batch # <<>> => currentId = Closed
    /\ Total(counters) = ClosedRows
    /\ ppc \in {"writing", "flushing"} => batch # <<>> /\ (AllTaken \/ Len(batch) = BatchSize)
    /\ ppc \in {"done", "alarm"} => batch = <<>> /\ AllTaken

(* Which places Kafka and the files have: those of the closed batches, and *)
(* the open one's once its writer has been called.                         *)
Going == ppc \in {"emitting", "writing", "flushing", "done"}
Sent == IF ppc = "flushing" \/ (ppc = "writing" /\ toWrite \in {<<"gcs">>, <<>>})
        THEN taken ELSE ClosedRows
Filed == IF ppc = "writing" /\ toWrite = <<>> THEN taken ELSE ClosedRows

KafkaInv ==
    /\ ppc = "writing" => toWrite \in {writers, Tail(writers), <<>>}
    /\ ppc = "flushing" => toWrite = writers /\ Head(writers) = "kafka"
    /\ ppc \in {"mapping", "emitting", "writing", "done"} => queue = {} /\ errors = 0
    /\ \A i \in acked : numbered[i] \in topic
    /\ Going /\ Uses("kafka") /\ errors = 0 => queue \cup acked = 1..Sent

InFile(i) ==
    /\ BatchIdOf(i) \in DOMAIN files
    /\ files[BatchIdOf(i)][i - BatchSize * BatchIdOf(i)] = numbered[i]

FilesInv ==
    /\ Going /\ Uses("gcs") => \A i \in 1..Filed : InFile(i)
    /\ Uses("kafka") => \A b \in DOMAIN files : ToSet(files[b]) \subseteq topic

(* What the checks found.                                                  *)
Verdicts ==
    /\ ppc = "done" => Len(numbered) = commits
    /\ ppc = "alarm" => Len(numbered) # commits

EmitInv ==
    /\ Shapes
    /\ CopiesBounded
    /\ MapInv
    /\ LoopInv
    /\ KafkaInv
    /\ FilesInv
    /\ Verdicts

-----------------------------------------------------------------------------
(* The operators.                                                          *)

(* Every table has as many places as the run has records.                  *)
LEMMA RecordsFinite == N \in Nat /\ IsFiniteSet(Records)
  BY EmitAssumption, FS_Interval DEF Records

(* Add puts one more row of each of S in the table.                        *)
LEMMA AddFacts ==
    ASSUME NEW bag \in [Records -> Nat], NEW S \in SUBSET Records
    PROVE  /\ Add(bag, S) \in [Records -> Nat]
           /\ \A r \in Records : Add(bag, S)[r] = IF r \in S THEN bag[r] + 1 ELSE bag[r]
           /\ Size(bag) \in Nat /\ Cardinality(S) \in Nat
           /\ Size(Add(bag, S)) = Size(bag) + Cardinality(S)
<1>1. IsFiniteSet(Records) /\ Cardinality(S) \in Nat
  BY RecordsFinite, FS_Subset, FS_CardinalityType
<1>2. Size(bag) \in Nat
  <2>1. DOMAIN bag = Records /\ \A r \in Records : bag[r] \in Nat
    OBVIOUS
  <2>2. Total(bag) \in Nat
    BY <1>1, <2>1, FoldCounts
  <2>3. QED
    BY <2>2, Zenon DEF Size, Total
<1>3. Size(Add(bag, S)) = Size(bag) + Cardinality(S)
  <2>1. Add(bag, S) = [x \in Records |-> IF x \in S THEN bag[x] + 1 ELSE bag[x]]
    BY DEF Add
  <2>2. Total(Add(bag, S)) = Total(bag) + Cardinality(S)
    <3>1. OneMoreOf(S, bag, Add(bag, S), Records)
      BY <2>1 DEF OneMoreOf
    <3>2. QED
      BY <1>1, <3>1, SumOfAdded
  <2>3. QED
    BY <2>2, Zenon DEF Size, Total
<1>4. \A r \in Records : Add(bag, S)[r] = IF r \in S THEN bag[r] + 1 ELSE bag[r]
  BY DEF Add
<1>5. Add(bag, S) \in [Records -> Nat]
  BY DEF Add
<1>6. QED
  BY <1>1, <1>2, <1>3, <1>4, <1>5

(* An empty table.                                                         *)
LEMMA NoRowsFacts ==
    /\ NoRows \in [Records -> Nat] /\ \A r \in Records : NoRows[r] = 0
    /\ Size(NoRows) = 0
<1>1. NoRows \in [Records -> Nat] /\ \A r \in Records : NoRows[r] = 0
  BY DEF NoRows
<1>2. Total([r \in Records |-> 0]) = 0
  BY RecordsFinite, SumOfNothing
<1>3. Size(NoRows) = 0
  BY <1>2, Zenon DEF Size, NoRows, Total
<1>4. QED
  BY <1>1, <1>3

(* A committed bundle takes one row of each of its records.                *)
LEMMA TakeFacts ==
    ASSUME rows \in [Records -> Nat], NEW B \in Bundles
    PROVE  /\ B \in SUBSET Records /\ \A r \in B : rows[r] > 0
           /\ Take(B) \in [Records -> Nat]
           /\ \A r \in Records : Take(B)[r] = IF r \in B THEN rows[r] - 1 ELSE rows[r]
<1>1. B \in SUBSET Records /\ \A r \in B : rows[r] > 0
  BY DEF Bundles
<1>2. \A r \in Records : (IF r \in B THEN rows[r] - 1 ELSE rows[r]) \in Nat
  BY <1>1
<1>3. QED
  BY <1>1, <1>2 DEF Take

(* The places of a batch: a stretch of batch_size.                         *)
LEMMA BatchIdFacts ==
    ASSUME NEW i \in Nat \ {0}
    PROVE  /\ BatchIdOf(i) \in Nat
           /\ \A q \in Nat : BatchIdOf(i) = q <=> q * BatchSize < i /\ i <= q * BatchSize + BatchSize
<1>1. BatchSize \in Nat \ {0} /\ i - 1 \in Nat
  BY EmitAssumption
<1> DEFINE a == i - 1
<1>2. a \div BatchSize \in Nat /\ \A q \in Nat : a \div BatchSize = q <=> q * BatchSize <= a /\ a < q * BatchSize + BatchSize
  <2> HIDE DEF a
  <2>1. QED
    BY <1>1 DEF a
<1>3. \A q \in Nat : q * BatchSize \in Nat
  BY <1>1
<1>4. \A q \in Nat : (q * BatchSize <= a <=> q * BatchSize < i) /\ (a < q * BatchSize + BatchSize <=> i <= q * BatchSize + BatchSize)
  BY <1>1, <1>3
<1>5. QED
  BY <1>2, <1>4 DEF BatchIdOf

(* What the query numbers.                                                 *)
LEMMA NumberedFacts ==
    ASSUME target \in [Records -> Nat]
    PROVE  /\ Numbered \in Seq(Records) /\ Len(Numbered) = Size(target)
           /\ \A r \in Records : target[r] > 0 => r \in ToSet(Numbered)
<1>1. N \in Nat /\ target \in [1..N -> Nat]
  BY RecordsFinite DEF Records
<1>2. /\ Laid(target, N) \in Seq(1..N) /\ Len(Laid(target, N)) = Total(target)
      /\ \A r \in 1..N : target[r] > 0 => r \in ToSet(Laid(target, N))
  BY <1>1, LaidOut
<1>3. Numbered = Laid(target, N)
  BY Zenon DEF Numbered, Laid, Records
<1>4. QED
  BY <1>2, <1>3, Zenon DEF Size, Records, Total

(* What the deployments' lists of writers have in common.                  *)
LEMMA WriterFacts ==
    ASSUME writers \in WriterLists
    PROVE  /\ writers \in {<<"kafka", "gcs">>, <<"gcs">>, <<"kafka">>}
           /\ Uses("kafka") <=> writers # <<"gcs">>
           /\ Uses("gcs") <=> writers # <<"kafka">>
<1>1. writers \in {<<"kafka", "gcs">>, <<"gcs">>, <<"kafka">>}
  BY EmitAssumption
<1>2. CASE writers = <<"kafka", "gcs">>
  BY <1>2 DEF Uses, ToSet
<1>3. CASE writers = <<"gcs">>
  BY <1>3 DEF Uses, ToSet
<1>4. CASE writers = <<"kafka">>
  BY <1>4 DEF Uses, ToSet
<1>5. QED
  BY <1>1, <1>2, <1>3, <1>4

(* The places of the open batch: those after the closed ones.              *)
LEMMA OpenPlaces ==
    ASSUME EmitInv
    PROVE  /\ taken \in Nat /\ taken <= Len(numbered) /\ Len(numbered) \in Nat
           /\ DOMAIN numbered = 1..Len(numbered)
           /\ ClosedRows \in Nat /\ Len(batch) \in Nat /\ taken = ClosedRows + Len(batch)
           /\ DOMAIN batch = 1..Len(batch)
           /\ ToSet(batch) = (ClosedRows + 1)..taken
<1>1. numbered \in Seq(Records) /\ taken \in 0..Len(numbered) /\ batch \in Seq(Nat)
  BY DEF EmitInv, Shapes, LoopInv
<1>2. Len(numbered) \in Nat /\ Len(batch) \in Nat /\ Len(batch) <= taken
      /\ DOMAIN numbered = 1..Len(numbered) /\ DOMAIN batch = 1..Len(batch)
  BY <1>1 DEF EmitInv, LoopInv
<1>3. taken \in Nat /\ taken <= Len(numbered) /\ ClosedRows \in Nat /\ taken = ClosedRows + Len(batch)
  BY <1>1, <1>2 DEF ClosedRows
<1>4. \A k \in 1..Len(batch) : batch[k] = ClosedRows + k
  BY DEF EmitInv, LoopInv
<1>5. ToSet(batch) = (ClosedRows + 1)..taken
  <2>1. ToSet(batch) = {ClosedRows + k : k \in 1..Len(batch)}
    BY <1>2, <1>4 DEF ToSet
  <2>2. \A i \in (ClosedRows + 1)..taken : i - ClosedRows \in 1..Len(batch) /\ i = ClosedRows + (i - ClosedRows)
    BY <1>2, <1>3
  <2>3. \A k \in 1..Len(batch) : ClosedRows + k \in (ClosedRows + 1)..taken
    BY <1>2, <1>3
  <2>4. {ClosedRows + k : k \in 1..Len(batch)} = (ClosedRows + 1)..taken
    BY <2>2, <2>3
  <2>5. QED
    BY <2>1, <2>4
<1>6. QED
  BY <1>2, <1>3, <1>5

(* The writers that may still be called.                                   *)
LEMMA WritersLeft ==
    ASSUME EmitInv, ppc = "writing"
    PROVE  /\ toWrite # <<>> /\ Head(toWrite) = "kafka"
                => toWrite = writers /\ Uses("kafka") /\ toWrite # <<"gcs">>
           /\ toWrite # <<>> /\ Head(toWrite) = "gcs" => toWrite = <<"gcs">> /\ Uses("gcs")
<1>1. toWrite \in {writers, Tail(writers), <<>>} /\ writers \in WriterLists
  BY DEF EmitInv, KafkaInv, Shapes
<1>2. /\ writers \in {<<"kafka", "gcs">>, <<"gcs">>, <<"kafka">>}
      /\ Uses("kafka") <=> writers # <<"gcs">>
      /\ Uses("gcs") <=> writers # <<"kafka">>
  BY <1>1, WriterFacts
<1>3. CASE writers = <<"kafka", "gcs">>
  <2>1. Tail(writers) = <<"gcs">> /\ Head(writers) = "kafka" /\ writers # <<"gcs">> /\ writers # <<"kafka">>
    BY <1>3
  <2>2. Head(<<"gcs">>) = "gcs"
    OBVIOUS
  <2>3. QED
    BY <1>1, <1>2, <2>1, <2>2
<1>4. CASE writers = <<"gcs">>
  <2>1. Tail(writers) = <<>> /\ Head(writers) = "gcs" /\ writers # <<"kafka">>
    BY <1>4
  <2>2. QED
    BY <1>1, <1>2, <1>4, <2>1
<1>5. CASE writers = <<"kafka">>
  <2>1. Tail(writers) = <<>> /\ Head(writers) = "kafka" /\ writers # <<"gcs">>
    BY <1>5
  <2>2. QED
    BY <1>1, <1>2, <1>5, <2>1
<1>6. QED
  BY <1>2, <1>3, <1>4, <1>5

(* What produce puts in the queue is new to the broker.                    *)
LEMMA ProducedPlaces ==
    ASSUME EmitInv, Produce
    PROVE  /\ queue = {} /\ errors = 0 /\ acked = 1..ClosedRows /\ queue' = (ClosedRows + 1)..taken
           /\ queue' \subseteq DOMAIN numbered /\ queue' \cap acked = {}
           /\ queue' \cup acked = 1..taken
<1>1. /\ ppc = "writing" /\ toWrite # <<>> /\ Head(toWrite) = "kafka"
      /\ queue' = queue \cup ToSet(batch)
  BY DEF Produce
<1>2. toWrite = writers /\ Uses("kafka") /\ toWrite # <<"gcs">>
  BY <1>1, WritersLeft
<1>3. queue = {} /\ errors = 0
  BY <1>1 DEF EmitInv, KafkaInv
<1>4. acked = 1..ClosedRows
  <2>1. Sent = ClosedRows
    BY <1>1, <1>2 DEF Sent
  <2>2. queue \cup acked = 1..Sent
    BY <1>1, <1>2, <1>3 DEF EmitInv, KafkaInv, Going
  <2>3. QED
    BY <1>3, <2>1, <2>2
<1>5. queue' = (ClosedRows + 1)..taken
  BY <1>1, <1>3, OpenPlaces
<1>6. ClosedRows \in Nat /\ taken \in Nat /\ ClosedRows <= taken /\ DOMAIN numbered = 1..Len(numbered)
      /\ taken <= Len(numbered) /\ Len(numbered) \in Nat
  BY OpenPlaces
<1>7. /\ (ClosedRows + 1)..taken \subseteq 1..Len(numbered)
      /\ ((ClosedRows + 1)..taken) \cap (1..ClosedRows) = {}
      /\ ((ClosedRows + 1)..taken) \cup (1..ClosedRows) = 1..taken
  BY <1>6
<1>8. QED
  BY <1>3, <1>4, <1>5, <1>6, <1>7

-----------------------------------------------------------------------------
(* The steps, one conjunct of the invariant at a time.  What the curated   *)
(* table holds is the caller's: each record at most once.                  *)
CuratedTables == [Records -> 0..1]

(* A new attempt: the bounds and the shapes.                               *)
LEMMA StartShapes ==
    ASSUME EmitInv, NEW table \in [Records -> Nat], Start(table)
    PROVE  /\ rows' = table /\ reads' = Size(table) /\ Size(table) \in Nat /\ commits' = 0
           /\ starts' \in 0..MaxStarts
           /\ numbered' = <<>> /\ batch' = <<>> /\ currentId' = 0 /\ taken' = 0 /\ toWrite' = <<>>
           /\ counters' = <<>> /\ queue' = {} /\ errors' = 0 /\ acked' = {}
           /\ UNCHANGED <<topic, stray, files, writers, faults>>
<1>1. starts \in 0..MaxStarts /\ starts < MaxStarts /\ starts' = starts + 1 /\ MaxStarts \in Nat
  BY EmitAssumption DEF Start, EmitInv, Shapes
<1>2. Size(table) \in Nat
  BY AddFacts, {} \in SUBSET Records
<1>3. starts' \in 0..MaxStarts
  BY <1>1
<1>4. QED
  BY <1>2, <1>3 DEF Start, FreshLoop

(* No step of either job leaves the shapes: tables, places and counts.     *)
LEMMA ShapesStep ==
    ASSUME EmitInv, NEW curated \in CuratedTables, EmitNext(curated)
    PROVE  Shapes'
<1>1. CASE StartEnrichment(curated)
  <2>1. curated \in [Records -> Nat]
    BY DEF CuratedTables
  <2>2. Start(curated)
    BY <1>1 DEF StartEnrichment
  <2>3. /\ rows' = curated /\ reads' = Size(curated) /\ Size(curated) \in Nat /\ commits' = 0
        /\ starts' \in 0..MaxStarts /\ numbered' = <<>> /\ queue' = {} /\ errors' = 0 /\ acked' = {}
        /\ UNCHANGED <<topic, stray, writers, faults>>
    BY <2>1, <2>2, StartShapes
  <2>4. /\ enriched' = NoRows /\ epc' = "enriching" /\ ppc' = "idle" /\ UNCHANGED target
    BY <1>1 DEF StartEnrichment
  <2>5. <<>> \in Seq(Records)
    OBVIOUS
  <2>6. QED
    BY <2>1, <2>3, <2>4, <2>5, NoRowsFacts DEF EmitInv, Shapes
<1>2. CASE StartProducer
  <2>1. enriched \in [Records -> Nat]
    BY DEF EmitInv, Shapes
  <2>2. Start(enriched)
    BY <1>2 DEF StartProducer
  <2>3. /\ rows' = enriched /\ reads' = Size(enriched) /\ Size(enriched) \in Nat /\ commits' = 0
        /\ starts' \in 0..MaxStarts /\ numbered' = <<>> /\ queue' = {} /\ errors' = 0 /\ acked' = {}
        /\ UNCHANGED <<topic, stray, writers, faults>>
    BY <2>1, <2>2, StartShapes
  <2>4. /\ target' = NoRows /\ ppc' = "mapping" /\ epc = "enriched" /\ UNCHANGED <<enriched, epc>>
    BY <1>2 DEF StartProducer
  <2>5. <<>> \in Seq(Records)
    OBVIOUS
  <2>6. QED
    BY <2>1, <2>3, <2>4, <2>5, NoRowsFacts DEF EmitInv, Shapes
<1>3. CASE \E B \in Bundles : EnrichBundle(B)
  <2>1. PICK B \in Bundles : EnrichBundle(B)
    BY <1>3
  <2>2. /\ B \in SUBSET Records /\ Take(B) \in [Records -> Nat] /\ Cardinality(B) \in Nat
        /\ \A S \in SUBSET Records : Add(enriched, S) \in [Records -> Nat]
    BY TakeFacts, AddFacts DEF EmitInv, Shapes
  <2>3. enriched' \in [Records -> Nat] /\ rows' \in [Records -> Nat]
    BY <2>1, <2>2 DEF EnrichBundle, EmitInv, Shapes
  <2>4. commits' \in Nat /\ faults' \in 0..MaxFaults
    BY <2>1, <2>2, EmitAssumption DEF EnrichBundle, EmitInv, Shapes
  <2>5. UNCHANGED <<target, stray, topic, epc, ppc, reads, errors, starts, numbered, queue, acked, writers>>
    BY <2>1 DEF EnrichBundle, loop, broker
  <2>6. QED
    BY <2>3, <2>4, <2>5 DEF EmitInv, Shapes
<1>4. CASE \E B \in Bundles : MapBundle(B)
  <2>1. PICK B \in Bundles : MapBundle(B)
    BY <1>4
  <2>2. /\ B \in SUBSET Records /\ Take(B) \in [Records -> Nat]
        /\ \A S \in SUBSET Records : Add(target, S) \in [Records -> Nat] /\ Cardinality(S) \in Nat
    BY TakeFacts, AddFacts DEF EmitInv, Shapes
  <2>3. target' \in [Records -> Nat] /\ rows' \in [Records -> Nat]
    <3>1. \/ target' = Add(target, B \ MapRejects) /\ rows' = Take(B)
          \/ \E stored \in SUBSET (B \ MapRejects) : target' = Add(target, stored) /\ rows' = rows
      BY <2>1 DEF MapBundle
    <3>2. QED
      BY <2>2, <3>1 DEF EmitInv, Shapes
  <2>4. commits' \in Nat /\ faults' \in 0..MaxFaults
    <3>1. \/ commits' = commits + Cardinality(B \ MapRejects) /\ faults' = faults
          \/ commits' = commits /\ faults' = faults + 1 /\ faults < MaxFaults
      BY <2>1 DEF MapBundle
    <3>2. Cardinality(B \ MapRejects) \in Nat
      BY <2>2
    <3>3. QED
      BY <3>1, <3>2, EmitAssumption DEF EmitInv, Shapes
  <2>5. UNCHANGED <<enriched, stray, topic, epc, ppc, reads, errors, starts, numbered, queue, acked, writers>>
    BY <2>1 DEF MapBundle, loop, broker
  <2>6. QED
    BY <2>3, <2>4, <2>5 DEF EmitInv, Shapes
<1>5. CASE EndEnrichment
  <2>1. /\ epc = "enriching" /\ epc' \in {"idle", "enriched"}
        /\ UNCHANGED <<enriched, target, stray, rows, topic, ppc, reads, commits, errors, starts, faults, numbered, queue, acked, writers>>
    BY <1>5 DEF EndEnrichment, tables, job, loop, broker
  <2>2. QED
    BY <2>1 DEF EmitInv, Shapes
<1>6. CASE Dies
  <2>1. /\ Running /\ faults < MaxFaults /\ faults' = faults + 1
        /\ epc' = IF epc = "enriching" THEN "idle" ELSE epc
        /\ ppc' = IF ProducerRuns THEN "failed" ELSE ppc
        /\ UNCHANGED <<enriched, target, rows, reads, commits, errors, starts, numbered, queue, acked, writers>>
    BY <1>6 DEF Dies, job, loop
  <2>2. stray' \subseteq Records \ MapRejects
    BY <1>6 DEF Dies, EmitInv, Shapes
  <2>3. topic' \subseteq Records
    <3>1. PICK sent \in SUBSET queue : topic' = topic \cup {numbered[i] : i \in sent}
      BY <1>6 DEF Dies
    <3>2. \A i \in sent : i \in DOMAIN numbered /\ numbered[i] \in Records
      BY <3>1 DEF EmitInv, Shapes
    <3>3. QED
      BY <3>1, <3>2 DEF EmitInv, Shapes
  <2>4. faults' \in 0..MaxFaults
    BY <2>1, EmitAssumption DEF EmitInv, Shapes
  <2>5. (ppc' # "idle" => epc' = "enriched") /\ epc' \in {"idle", "enriching", "enriched"}
    BY <2>1 DEF EmitInv, Shapes, ProducerRuns
  <2>6. QED
    BY <2>1, <2>2, <2>3, <2>4, <2>5 DEF EmitInv, Shapes
<1>7. CASE \E r \in Records : StrayWrites(r)
  <2>1. PICK r \in Records : StrayWrites(r)
    BY <1>7
  <2>2. target' \in [Records -> Nat]
    BY <2>1, AddFacts, {r} \in SUBSET Records DEF StrayWrites, EmitInv, Shapes
  <2>3. /\ stray' \subseteq stray
        /\ UNCHANGED <<enriched, rows, topic, epc, ppc, reads, commits, errors, starts, faults, numbered, queue, acked, writers>>
    BY <2>1 DEF StrayWrites, job, loop, broker
  <2>4. QED
    BY <2>2, <2>3 DEF EmitInv, Shapes
<1>8. CASE NumberRows
  <2>1. /\ ppc = "mapping" /\ ppc' = "emitting" /\ numbered' = Numbered
        /\ UNCHANGED <<enriched, target, stray, rows, topic, epc, reads, commits, errors, starts, faults, queue, acked, writers>>
    BY <1>8 DEF NumberRows, tables, job, broker
  <2>2. numbered = <<>> /\ queue = {} /\ acked = {}
    <3>1. numbered = <<>>
      BY <2>1 DEF EmitInv, MapInv
    <3>2. DOMAIN numbered = {}
      BY <3>1
    <3>3. QED
      BY <3>1, <3>2 DEF EmitInv, Shapes
  <2>3. numbered' \in Seq(Records)
    BY <2>1, NumberedFacts DEF EmitInv, Shapes
  <2>4. QED
    BY <2>1, <2>2, <2>3 DEF EmitInv, Shapes
<1>9. CASE TakeRow \/ OpenWrite \/ Flush \/ PutFile \/ CloseBatch \/ Checks
  <2>1. /\ UNCHANGED <<enriched, target, stray, rows, topic, epc, reads, commits, errors, starts, faults, numbered, queue, acked, writers>>
        /\ ppc \in {"emitting", "writing", "flushing"}
        /\ ppc' \in {"emitting", "writing", "flushing", "done", "alarm", "failed"}
    BY <1>9 DEF TakeRow, OpenWrite, Flush, PutFile, CloseBatch, Checks, tables, job, loop, broker
  <2>2. QED
    BY <2>1 DEF EmitInv, Shapes
<1>10. CASE Produce
  <2>1. /\ ppc = "writing" /\ ppc' = "flushing" /\ queue' = queue \cup ToSet(batch)
        /\ toWrite # <<>> /\ Head(toWrite) = "kafka"
        /\ UNCHANGED <<enriched, target, stray, rows, topic, epc, reads, commits, errors, starts, faults, numbered, acked, writers>>
    BY <1>10 DEF Produce, tables, job, loop
  <2>2. queue' \subseteq DOMAIN numbered /\ queue' \cap acked = {}
    BY <1>10, ProducedPlaces DEF EmitInv
  <2>3. QED
    BY <2>1, <2>2 DEF EmitInv, Shapes
<1>11. CASE \E i \in queue : BrokerAnswers(i)
  <2>1. PICK i \in queue : BrokerAnswers(i)
    BY <1>11
  <2>2. i \in DOMAIN numbered /\ numbered[i] \in Records
    BY <2>1 DEF EmitInv, Shapes
  <2>3. /\ queue' = queue \ {i}
        /\ \/ acked' = acked \cup {i} /\ topic' = topic \cup {numbered[i]} /\ UNCHANGED errors
           \/ errors' = errors + 1 /\ UNCHANGED <<acked, topic>>
        /\ UNCHANGED <<enriched, target, stray, rows, epc, ppc, reads, commits, starts, faults, numbered, writers>>
    BY <2>1 DEF BrokerAnswers, tables, job, loop
  <2>4. /\ queue' \subseteq DOMAIN numbered /\ acked' \subseteq DOMAIN numbered
        /\ queue' \cap acked' = {} /\ topic' \subseteq Records /\ errors' \in Nat
    BY <2>1, <2>2, <2>3 DEF EmitInv, Shapes
  <2>5. QED
    BY <2>3, <2>4 DEF EmitInv, Shapes
<1>12. QED
  BY <1>1, <1>2, <1>3, <1>4, <1>5, <1>6, <1>7, <1>8, <1>9, <1>10, <1>11 DEF EmitNext

(* Each fault adds at most one copy of a record, and a job that died while *)
(* it mapped has at most one more row of each to write.                    *)
LEMMA CopiesStep ==
    ASSUME EmitInv, NEW curated \in CuratedTables, EmitNext(curated)
    PROVE  CopiesBounded'
<1> USE DEF One
<1>0. /\ faults \in Nat /\ stray \subseteq Records
      /\ \A r \in Records : rows[r] \in Nat /\ enriched[r] \in Nat /\ target[r] \in Nat
      /\ \A r \in Records :
            /\ rows[r] <= 1 + faults /\ enriched[r] <= 1 + faults
            /\ epc = "enriching" => rows[r] + enriched[r] <= 1 + faults
            /\ target[r] + One(r \in stray) + (IF ppc = "mapping" THEN rows[r] ELSE 0) <= 2 + 2 * faults
      /\ ppc # "idle" => epc = "enriched"
  BY DEF EmitInv, Shapes, CopiesBounded
<1>t. enriched \in [Records -> Nat] /\ target \in [Records -> Nat]
  BY DEF EmitInv, Shapes
<1>1. CASE StartEnrichment(curated)
  <2>1. curated \in [Records -> Nat] /\ \A r \in Records : curated[r] \in 0..1
    BY DEF CuratedTables
  <2>2. Start(curated) /\ ppc # "mapping"
    BY <1>1 DEF StartEnrichment, Start, Running, ProducerRuns
  <2>3. rows' = curated /\ UNCHANGED <<stray, faults>>
    BY <2>1, <2>2, StartShapes
  <2>4. /\ enriched' = NoRows /\ epc' = "enriching" /\ ppc' = "idle" /\ UNCHANGED target
    BY <1>1 DEF StartEnrichment
  <2>5. QED
    BY <1>0, <2>1, <2>2, <2>3, <2>4, NoRowsFacts DEF CopiesBounded
<1>2. CASE StartProducer
  <2>1. enriched \in [Records -> Nat]
    BY DEF EmitInv, Shapes
  <2>2. Start(enriched)
    BY <1>2 DEF StartProducer
  <2>3. rows' = enriched /\ UNCHANGED <<stray, faults>>
    BY <2>1, <2>2, StartShapes
  <2>4. /\ target' = NoRows /\ ppc' = "mapping" /\ epc = "enriched" /\ UNCHANGED <<enriched, epc>>
    BY <1>2 DEF StartProducer
  <2>5. QED
    BY <1>0, <2>3, <2>4, NoRowsFacts DEF CopiesBounded
<1>3. CASE \E B \in Bundles : EnrichBundle(B)
  <2>1. PICK B \in Bundles : EnrichBundle(B)
    BY <1>3
  <2>2. /\ B \in SUBSET Records /\ \A r \in B : rows[r] > 0
        /\ \A r \in Records : Take(B)[r] = IF r \in B THEN rows[r] - 1 ELSE rows[r]
    BY TakeFacts DEF EmitInv, Shapes
  <2>3. \A S \in SUBSET Records : \A r \in Records :
            Add(enriched, S)[r] = IF r \in S THEN enriched[r] + 1 ELSE enriched[r]
    BY <1>t, AddFacts
  <2>4. epc = "enriching" /\ ppc = "idle" /\ UNCHANGED <<target, stray, epc, ppc>>
    BY <1>0, <2>1 DEF EnrichBundle
  <2>5. CASE enriched' = Add(enriched, B) /\ rows' = Take(B) /\ UNCHANGED faults
    BY <1>0, <2>2, <2>3, <2>4, <2>5 DEF CopiesBounded
  <2>6. ASSUME NEW stored \in SUBSET B, faults' = faults + 1, enriched' = Add(enriched, stored), rows' = rows
        PROVE  CopiesBounded'
    <3>1. stored \in SUBSET Records
      BY <2>2
    <3>2. QED
      BY <1>0, <2>3, <2>4, <2>6, <3>1 DEF CopiesBounded
  <2>7. QED
    BY <2>1, <2>5, <2>6 DEF EnrichBundle
<1>4. CASE \E B \in Bundles : MapBundle(B)
  <2>1. PICK B \in Bundles : MapBundle(B)
    BY <1>4
  <2>2. /\ B \in SUBSET Records /\ \A r \in B : rows[r] > 0
        /\ \A r \in Records : Take(B)[r] = IF r \in B THEN rows[r] - 1 ELSE rows[r]
    BY TakeFacts DEF EmitInv, Shapes
  <2>3. \A S \in SUBSET Records : \A r \in Records :
            Add(target, S)[r] = IF r \in S THEN target[r] + 1 ELSE target[r]
    BY <1>t, AddFacts
  <2>4. ppc = "mapping" /\ epc = "enriched" /\ UNCHANGED <<enriched, stray, epc, ppc>>
    BY <1>0, <2>1 DEF MapBundle
  <2>5. CASE target' = Add(target, B \ MapRejects) /\ rows' = Take(B) /\ UNCHANGED faults
    <3>1. B \ MapRejects \in SUBSET Records
      BY <2>2
    <3>2. QED
      BY <1>0, <2>2, <2>3, <2>4, <2>5, <3>1 DEF CopiesBounded
  <2>6. ASSUME NEW stored \in SUBSET (B \ MapRejects), faults' = faults + 1,
               target' = Add(target, stored), rows' = rows
        PROVE  CopiesBounded'
    <3>1. stored \in SUBSET Records
      BY <2>2
    <3>2. QED
      BY <1>0, <2>3, <2>4, <2>6, <3>1 DEF CopiesBounded
  <2>7. QED
    BY <2>1, <2>5, <2>6 DEF MapBundle
<1>5. CASE EndEnrichment
  <2>1. /\ epc = "enriching" /\ epc' \in {"idle", "enriched"} /\ ppc = "idle"
        /\ UNCHANGED <<enriched, target, stray, rows, ppc, faults>>
    BY <1>0, <1>5 DEF EndEnrichment, tables, job
  <2>2. QED
    BY <1>0, <2>1 DEF CopiesBounded
<1>6. CASE Dies
  <2>1. /\ faults' = faults + 1
        /\ epc' = IF epc = "enriching" THEN "idle" ELSE epc
        /\ ppc' = IF ProducerRuns THEN "failed" ELSE ppc
        /\ stray' = IF ppc = "mapping" THEN stray \cup {r \in Records \ MapRejects : rows[r] > 0}
                                      ELSE stray
        /\ UNCHANGED <<enriched, target, rows>>
    BY <1>6 DEF Dies, job
  <2>2. ppc' # "mapping" /\ (epc' = "enriching" => FALSE)
    BY <1>0, <2>1 DEF ProducerRuns
  <2>3. \A r \in Records : target[r] <= 2 + 2 * faults
    BY <1>0
  <2>4. \A r \in Records : target'[r] + One(r \in stray') <= 2 + 2 * (faults + 1)
    BY <1>0, <2>1, <2>3
  <2>5. QED
    BY <1>0, <2>1, <2>2, <2>4 DEF CopiesBounded
<1>7. CASE \E r \in Records : StrayWrites(r)
  <2>1. PICK r \in Records : StrayWrites(r)
    BY <1>7
  <2>2. \A q \in Records : Add(target, {r})[q] = IF q = r THEN target[q] + 1 ELSE target[q]
    BY <1>t, <2>1, AddFacts, {r} \in SUBSET Records
  <2>3. /\ r \in stray /\ stray' = stray \ {r} /\ target' = Add(target, {r})
        /\ UNCHANGED <<enriched, rows, epc, ppc, faults>>
    BY <2>1 DEF StrayWrites, job
  <2>4. \A q \in Records : target'[q] + One(q \in stray') <= target[q] + One(q \in stray)
    <3>1. \A q \in Records : q # r => target'[q] = target[q] /\ (q \in stray' <=> q \in stray)
      BY <2>2, <2>3
    <3>2. target'[r] = target[r] + 1 /\ r \in stray /\ r \notin stray' /\ target[r] \in Nat
      BY <1>0, <2>1, <2>2, <2>3
    <3>3. \A q \in Records : q = r => target'[q] + One(q \in stray') <= target[q] + One(q \in stray)
      BY <3>2
    <3>4. \A q \in Records : q # r => target'[q] + One(q \in stray') <= target[q] + One(q \in stray)
      BY <1>0, <3>1
    <3>5. QED
      BY <3>3, <3>4
  <2>5. SUFFICES ASSUME NEW q \in Records
                 PROVE  /\ rows[q] <= 1 + faults /\ enriched[q] <= 1 + faults
                        /\ epc = "enriching" => rows[q] + enriched[q] <= 1 + faults
                        /\ target'[q] + One(q \in stray') + (IF ppc = "mapping" THEN rows[q] ELSE 0)
                              <= 2 + 2 * faults
    BY <2>3 DEF CopiesBounded
  <2>6. target'[q] = target[q] \/ target'[q] = target[q] + 1
    BY <2>2, <2>3
  <2>7. target'[q] \in Nat /\ target[q] \in Nat /\ rows[q] \in Nat
    BY <1>0, <2>6
  <2>8. target'[q] + One(q \in stray') <= target[q] + One(q \in stray)
    BY <2>4
  <2>9. QED
    BY <1>0, <2>7, <2>8
<1>8. CASE \/ NumberRows \/ TakeRow \/ OpenWrite \/ Produce \/ Flush \/ PutFile \/ CloseBatch
           \/ Checks \/ \E i \in queue : BrokerAnswers(i)
  <2>1. /\ UNCHANGED <<enriched, target, stray, rows, epc, faults>>
        /\ ppc' = ppc \/ ppc' # "mapping"
    BY <1>8 DEF NumberRows, TakeRow, OpenWrite, Produce, Flush, PutFile, CloseBatch, Checks, BrokerAnswers,
         tables, job
  <2>2. QED
    BY <1>0, <2>1 DEF CopiesBounded
<1>9. QED
  BY <1>1, <1>2, <1>3, <1>4, <1>5, <1>6, <1>7, <1>8 DEF EmitNext

(* No record that maps leaves the stage without a row: a bundle that is    *)
(* tried again is read again.                                              *)
LEMMA MapStep ==
    ASSUME EmitInv, NEW curated \in CuratedTables, EmitNext(curated)
    PROVE  MapInv'
<1> DEFINE After == {"emitting", "writing", "flushing", "done", "alarm"}
<1>0. /\ ppc # "idle" => epc = "enriched"
      /\ target \in [Records -> Nat] /\ rows \in [Records -> Nat] /\ enriched \in [Records -> Nat]
      /\ commits \in Nat /\ Size(target) \in Nat
  BY AddFacts, {} \in SUBSET Records DEF EmitInv, Shapes
<1>1. CASE StartEnrichment(curated)
  <2>1. ppc' = "idle"
    BY <1>1 DEF StartEnrichment
  <2>2. QED
    BY <2>1 DEF MapInv
<1>2. CASE StartProducer
  <2>1. Start(enriched)
    BY <1>2 DEF StartProducer
  <2>2. rows' = enriched /\ commits' = 0 /\ numbered' = <<>>
    BY <1>0, <2>1, StartShapes
  <2>3. /\ target' = NoRows /\ ppc' = "mapping" /\ UNCHANGED enriched
    BY <1>2 DEF StartProducer
  <2>4. commits' <= Size(target')
    BY <2>2, <2>3, NoRowsFacts
  <2>5. QED
    BY <2>2, <2>3, <2>4 DEF MapInv
<1>3. CASE (\E B \in Bundles : EnrichBundle(B)) \/ EndEnrichment
  <2>1. epc = "enriching" /\ UNCHANGED ppc
    BY <1>3 DEF EnrichBundle, EndEnrichment
  <2>2. ppc' = "idle"
    BY <1>0, <2>1
  <2>3. QED
    BY <2>2 DEF MapInv
<1>4. CASE \E B \in Bundles : MapBundle(B)
  <2>1. PICK B \in Bundles : MapBundle(B)
    BY <1>4
  <2>2. /\ B \in SUBSET Records
        /\ \A r \in Records : Take(B)[r] = IF r \in B THEN rows[r] - 1 ELSE rows[r]
    BY TakeFacts DEF EmitInv, Shapes
  <2>3. \A S \in SUBSET Records :
            /\ \A r \in Records : Add(target, S)[r] = IF r \in S THEN target[r] + 1 ELSE target[r]
            /\ Cardinality(S) \in Nat /\ Size(Add(target, S)) = Size(target) + Cardinality(S)
    BY <1>0, AddFacts
  <2>4. ppc = "mapping" /\ UNCHANGED <<enriched, ppc, numbered>>
    BY <2>1 DEF MapBundle, loop
  <2>5. /\ numbered = <<>> /\ commits <= Size(target)
        /\ \A r \in Records \ MapRejects : enriched[r] > 0 => target[r] > 0 \/ rows[r] > 0
    BY <2>4 DEF EmitInv, MapInv
  <2>6. CASE /\ target' = Add(target, B \ MapRejects) /\ rows' = Take(B)
             /\ commits' = commits + Cardinality(B \ MapRejects)
    <3> DEFINE docs == B \ MapRejects
    <3>1. docs \in SUBSET Records
      BY <2>2
    <3>2. /\ \A r \in Records : target'[r] = IF r \in docs THEN target[r] + 1 ELSE target[r]
          /\ Cardinality(docs) \in Nat /\ Size(target') = Size(target) + Cardinality(docs)
      BY <2>3, <2>6, <3>1
    <3>3. commits' <= Size(target')
      BY <1>0, <2>5, <2>6, <3>2
    <3>4. \A r \in Records \ MapRejects : enriched[r] > 0 => target'[r] > 0 \/ rows'[r] > 0
      <4>1. \A r \in Records : target[r] \in Nat /\ rows[r] \in Nat
        BY <1>0
      <4>2. \A r \in Records \ MapRejects : target[r] > 0 => target'[r] > 0
        BY <3>2, <4>1
      <4>3. \A r \in Records \ MapRejects : rows[r] > 0 => target'[r] > 0 \/ rows'[r] > 0
        <5>1. \A r \in Records \ MapRejects : r \in B => target'[r] > 0
          BY <3>2, <4>1
        <5>2. \A r \in Records \ MapRejects : r \notin B => rows'[r] = rows[r]
          BY <2>2, <2>6
        <5>3. QED
          BY <5>1, <5>2
      <4>4. QED
        BY <2>5, <4>2, <4>3
    <3>5. QED
      BY <2>4, <2>5, <3>3, <3>4 DEF MapInv
  <2>7. ASSUME NEW stored \in SUBSET (B \ MapRejects),
               target' = Add(target, stored), rows' = rows, commits' = commits
        PROVE  MapInv'
    <3>1. stored \in SUBSET Records
      BY <2>2
    <3>2. /\ \A r \in Records : target'[r] = IF r \in stored THEN target[r] + 1 ELSE target[r]
          /\ Cardinality(stored) \in Nat /\ Size(target') = Size(target) + Cardinality(stored)
      BY <2>3, <2>7, <3>1
    <3>3. commits' <= Size(target')
      BY <1>0, <2>5, <2>7, <3>2
    <3>4. \A r \in Records \ MapRejects : enriched[r] > 0 => target'[r] > 0 \/ rows'[r] > 0
      BY <1>0, <2>5, <2>7, <3>2
    <3>5. QED
      BY <2>4, <2>5, <3>3, <3>4 DEF MapInv
  <2>8. QED
    BY <2>1, <2>6, <2>7 DEF MapBundle
<1>5. CASE Dies
  <2>1. ppc' = (IF ProducerRuns THEN "failed" ELSE ppc) /\ UNCHANGED <<enriched, commits, numbered>>
    BY <1>5 DEF Dies, job, loop
  <2>2. QED
    BY <2>1 DEF EmitInv, MapInv, ProducerRuns
<1>6. CASE \E r \in Records : StrayWrites(r)
  <2>1. PICK r \in Records : StrayWrites(r)
    BY <1>6
  <2>2. {r} \in SUBSET Records /\ target' = Add(target, {r})
        /\ UNCHANGED <<enriched, rows, ppc, commits, numbered>>
    BY <2>1 DEF StrayWrites, job, loop
  <2>3. /\ \A q \in Records : target'[q] = IF q \in {r} THEN target[q] + 1 ELSE target[q]
        /\ Cardinality({r}) \in Nat /\ Size(target') = Size(target) + Cardinality({r})
    BY <1>0, <2>2, AddFacts
  <2>4. CASE ppc = "mapping"
    <3>1. /\ numbered = <<>> /\ commits <= Size(target)
          /\ \A q \in Records \ MapRejects : enriched[q] > 0 => target[q] > 0 \/ rows[q] > 0
      BY <2>4 DEF EmitInv, MapInv
    <3>2. commits' <= Size(target')
      BY <1>0, <2>2, <2>3, <3>1
    <3>3. \A q \in Records \ MapRejects : enriched[q] > 0 => target'[q] > 0 \/ rows[q] > 0
      <4>1. \A q \in Records : target[q] \in Nat /\ (target[q] > 0 => target[q] + 1 > 0)
        BY <1>0
      <4>2. \A q \in Records : target[q] > 0 => target'[q] > 0
        BY <2>3, <4>1
      <4>3. QED
        BY <3>1, <4>2
    <3>4. QED
      BY <2>2, <2>4, <3>1, <3>2, <3>3 DEF MapInv
  <2>5. CASE ppc # "mapping"
    BY <2>2, <2>5 DEF EmitInv, MapInv
  <2>6. QED
    BY <2>4, <2>5
<1>7. CASE NumberRows
  <2>1. /\ ppc = "mapping" /\ ppc' = "emitting" /\ numbered' = Numbered /\ rows = NoRows
        /\ UNCHANGED <<enriched, commits>>
    BY <1>7 DEF NumberRows, tables, job
  <2>2. /\ Len(Numbered) = Size(target) /\ \A r \in Records : target[r] > 0 => r \in ToSet(Numbered)
    BY <1>0, NumberedFacts
  <2>3. /\ commits <= Size(target)
        /\ \A r \in Records \ MapRejects : enriched[r] > 0 => target[r] > 0 \/ rows[r] > 0
    BY <2>1 DEF EmitInv, MapInv
  <2>4. \A r \in Records \ MapRejects : enriched[r] > 0 => r \in ToSet(numbered')
    BY <2>1, <2>2, <2>3, NoRowsFacts
  <2>5. QED
    BY <2>1, <2>2, <2>3, <2>4 DEF MapInv
<1>8. CASE \/ TakeRow \/ OpenWrite \/ Produce \/ Flush \/ PutFile \/ CloseBatch
           \/ Checks \/ \E i \in queue : BrokerAnswers(i)
  <2>1. /\ UNCHANGED <<enriched, target, rows, commits, numbered>>
        /\ ppc' = ppc \/ (ppc \in After /\ ppc' \in After \cup {"failed"})
    BY <1>8 DEF TakeRow, OpenWrite, Produce, Flush, PutFile, CloseBatch, Checks, BrokerAnswers,
         tables, job, loop
  <2>2. QED
    BY <2>1 DEF EmitInv, MapInv
<1>9. QED
  BY <1>1, <1>2, <1>3, <1>4, <1>5, <1>6, <1>7, <1>8 DEF EmitNext

-----------------------------------------------------------------------------
(* The emit loop.                                                          *)

(* With as many batches closed as LoopInv says.                            *)
LEMMA ClosedFacts ==
    ASSUME EmitInv
    PROVE  /\ Closed \in Nat /\ Closed * BatchSize \in Nat /\ BatchSize \in Nat \ {0}
           /\ Closed + 1 \in Nat /\ (Closed + 1) * BatchSize = Closed * BatchSize + BatchSize
           /\ batch # <<>> \/ ~AllTaken => ClosedRows = Closed * BatchSize /\ FullBatches(Closed)
           /\ batch # <<>> <=> Len(batch) > 0
<1>1. Closed \in Nat /\ BatchSize \in Nat \ {0} /\ batch \in Seq(Nat)
  BY EmitAssumption DEF EmitInv, LoopInv
<1>2. Closed * BatchSize \in Nat /\ (Closed + 1) * BatchSize = Closed * BatchSize + BatchSize
  BY <1>1
<1>3. batch # <<>> \/ ~AllTaken => ClosedRows = Closed * BatchSize /\ FullBatches(Closed)
  BY DEF EmitInv, LoopInv
<1>4. batch # <<>> <=> Len(batch) > 0
  BY <1>1
<1>5. QED
  BY <1>1, <1>2, <1>3, <1>4

(* The part of LoopInv about the batches, without the program counter.     *)
BatchesInv ==
    /\ taken \in 0..Len(numbered) /\ currentId \in Nat
    /\ batch \in Seq(Nat) /\ Len(batch) <= taken /\ Len(batch) <= BatchSize
    /\ \A k \in 1..Len(batch) : batch[k] = ClosedRows + k
    /\ Closed \in Nat /\ DOMAIN counters = 0..(Closed - 1)
    /\ \A b \in DOMAIN counters : counters[b] \in Nat
    /\ \/ ClosedRows = Closed * BatchSize /\ FullBatches(Closed)
       \/ /\ batch = <<>> /\ AllTaken /\ Closed > 0
          /\ (Closed - 1) * BatchSize < taken /\ taken < Closed * BatchSize
          /\ FullBatches(Closed - 1)
          /\ counters[Closed - 1] = taken - (Closed - 1) * BatchSize
    /\ batch # <<>> => currentId = Closed
    /\ Total(counters) = ClosedRows

(* Steps that leave the loop alone.                                        *)
LEMMA BatchesUntouched ==
    ASSUME BatchesInv, UNCHANGED <<numbered, batch, currentId, taken, counters>>
    PROVE  BatchesInv'
<1>1. /\ Closed' = Closed /\ ClosedRows' = ClosedRows /\ (AllTaken' <=> AllTaken)
      /\ \A k : FullBatches(k)' <=> FullBatches(k)
  BY DEF Closed, ClosedRows, AllTaken, FullBatches
<1>2. QED
  BY <1>1 DEF BatchesInv

(* No row taken and no batch closed, whatever the rows are.                *)
LEMMA FreshBatches ==
    ASSUME EmitInv, batch' = <<>>, currentId' = 0, taken' = 0, counters' = <<>>, Len(numbered') \in Nat
    PROVE  BatchesInv'
<1>1. DOMAIN counters' = {} /\ Len(batch') = 0 /\ batch' \in Seq(Nat)
  BY {} = 1..0
<1>2. Closed' = 0 /\ ClosedRows' = 0
  <2>1. Closed' = Cardinality({})
    BY <1>1 DEF Closed
  <2>2. ClosedRows' = 0
    <3>1. ClosedRows' = taken' - Len(batch')
      BY DEF ClosedRows
    <3>2. taken' - Len(batch') = 0 - 0
      BY <1>1, Zenon
    <3>3. QED
      BY <3>1, <3>2
  <2>3. QED
    BY <2>1, <2>2, FS_EmptySet
<1>3. Total(counters') = 0
  <2>1. Copies(counters', DOMAIN counters') = {}
    BY <1>1 DEF Copies
  <2>2. IsFiniteSet(DOMAIN counters') /\ \A x \in DOMAIN counters' : counters'[x] \in Nat
    BY <1>1, FS_EmptySet
  <2>3. Total(counters') = Cardinality(Copies(counters', DOMAIN counters'))
    BY <2>2, FoldCounts
  <2>4. QED
    BY <2>1, <2>3, FS_EmptySet
<1>4. 0 * BatchSize = 0 /\ BatchSize \in Nat \ {0} /\ 0..(0 - 1) = {}
  BY EmitAssumption
<1>5. QED
  BY <1>1, <1>2, <1>3, <1>4 DEF BatchesInv, FullBatches

(* A row taken belongs to the batch that is open, or opens the next.       *)
LEMMA TakeRowBatches ==
    ASSUME EmitInv, TakeRow
    PROVE  BatchesInv' /\ ClosedRows' = ClosedRows
<1>1. /\ ~AllTaken /\ (batch = <<>> \/ BatchIdOf(NextRow) = currentId)
      /\ currentId' = BatchIdOf(NextRow) /\ batch' = Append(batch, NextRow) /\ taken' = NextRow
      /\ UNCHANGED <<numbered, counters>>
  BY DEF TakeRow
<1>2. /\ taken \in Nat /\ taken < Len(numbered) /\ Len(numbered) \in Nat
      /\ ClosedRows \in Nat /\ Len(batch) \in Nat /\ taken = ClosedRows + Len(batch)
  BY <1>1, OpenPlaces DEF AllTaken
<1>3. /\ Closed \in Nat /\ Closed * BatchSize \in Nat /\ BatchSize \in Nat \ {0}
      /\ ClosedRows = Closed * BatchSize /\ FullBatches(Closed)
      /\ batch # <<>> <=> Len(batch) > 0
  BY <1>1, ClosedFacts
<1>4. NextRow = taken + 1 /\ NextRow \in Nat \ {0}
  BY <1>2 DEF NextRow
<1>5. BatchIdOf(NextRow) = Closed /\ Len(batch) + 1 <= BatchSize
  <2> DEFINE q == Closed * BatchSize
  <2>1. /\ \A c \in Nat : BatchIdOf(NextRow) = c <=> c * BatchSize < NextRow /\ NextRow <= c * BatchSize + BatchSize
    BY <1>4, BatchIdFacts
  <2>2. BatchIdOf(NextRow) = Closed <=> q < NextRow /\ NextRow <= q + BatchSize
    BY <1>3, <2>1
  <2>3. q \in Nat /\ ClosedRows = q
    BY <1>3
  <2> HIDE DEF q
  <2>4. CASE batch = <<>>
    BY <1>2, <1>3, <1>4, <2>2, <2>3, <2>4
  <2>5. CASE batch # <<>>
    <3>1. BatchIdOf(NextRow) = Closed
      BY <1>1, <2>5 DEF EmitInv, LoopInv
    <3>2. QED
      BY <1>2, <1>3, <1>4, <2>2, <2>3, <3>1
  <2>6. QED
    BY <2>4, <2>5
<1>6. /\ batch \in Seq(Nat) /\ \A k \in 1..Len(batch) : batch[k] = ClosedRows + k
      /\ DOMAIN counters = 0..(Closed - 1) /\ \A b \in DOMAIN counters : counters[b] \in Nat
      /\ Total(counters) = ClosedRows
  BY DEF EmitInv, LoopInv
<1>7. /\ batch' \in Seq(Nat) /\ Len(batch') = Len(batch) + 1 /\ batch' # <<>>
      /\ \A k \in 1..Len(batch) : batch'[k] = batch[k]
      /\ batch'[Len(batch) + 1] = NextRow
  BY <1>1, <1>4, <1>6
<1>8. ClosedRows' = ClosedRows /\ Closed' = Closed /\ FullBatches(Closed)'
  <2>1. ClosedRows' = ClosedRows
    BY <1>1, <1>2, <1>4, <1>7 DEF ClosedRows
  <2>2. Closed' = Closed
    BY <1>1 DEF Closed
  <2>3. QED
    BY <1>1, <1>3, <2>1, <2>2 DEF FullBatches
<1>9. \A k \in 1..Len(batch') : batch'[k] = ClosedRows + k
  <2>1. \A k \in 1..Len(batch') : k \in 1..Len(batch) \/ k = Len(batch) + 1
    BY <1>2, <1>7
  <2>2. \A k \in 1..Len(batch) : batch'[k] = ClosedRows + k
    BY <1>6, <1>7
  <2>3. batch'[Len(batch) + 1] = ClosedRows + (Len(batch) + 1)
    BY <1>2, <1>4, <1>7
  <2>4. QED
    BY <2>1, <2>2, <2>3
<1>10. /\ taken' \in 0..Len(numbered') /\ currentId' \in Nat /\ Len(batch') <= taken' /\ Len(batch') <= BatchSize
       /\ currentId' = Closed'
  BY <1>1, <1>2, <1>3, <1>4, <1>5, <1>7, <1>8
<1>11. ClosedRows' = Closed' * BatchSize /\ Closed' \in Nat
  BY <1>3, <1>8
<1>12. DOMAIN counters' = 0..(Closed' - 1) /\ Total(counters') = ClosedRows'
       /\ \A b \in DOMAIN counters' : counters'[b] \in Nat
  BY <1>1, <1>6, <1>8
<1>13. FullBatches(Closed)' /\ \A k \in 1..Len(batch') : batch'[k] = ClosedRows' + k
  BY <1>8, <1>9
<1>14. BatchesInv'
  BY <1>7, <1>8, <1>10, <1>11, <1>12, <1>13 DEF BatchesInv
<1>15. QED
  BY <1>8, <1>14

(* An open batch is written when it is full, or the last.                  *)
LEMMA OpenWriteIsFull ==
    ASSUME EmitInv, OpenWrite
    PROVE  batch # <<>> /\ (AllTaken \/ Len(batch) = BatchSize)
<1>1. batch # <<>> /\ (AllTaken \/ BatchIdOf(NextRow) # currentId)
  BY DEF OpenWrite
<1>2. SUFFICES ASSUME ~AllTaken PROVE Len(batch) = BatchSize
  BY <1>1
<1>3. /\ taken \in Nat /\ ClosedRows \in Nat /\ Len(batch) \in Nat /\ taken = ClosedRows + Len(batch)
  BY OpenPlaces
<1>4. /\ Closed \in Nat /\ Closed * BatchSize \in Nat /\ BatchSize \in Nat \ {0}
      /\ ClosedRows = Closed * BatchSize
  BY <1>1, ClosedFacts
<1>5. currentId = Closed /\ Len(batch) <= BatchSize
  BY <1>1 DEF EmitInv, LoopInv
<1>6. NextRow = taken + 1 /\ NextRow \in Nat \ {0}
  BY <1>3 DEF NextRow
<1> DEFINE q == Closed * BatchSize
<1>7. BatchIdOf(NextRow) = Closed <=> q < NextRow /\ NextRow <= q + BatchSize
  BY <1>4, <1>6, BatchIdFacts
<1>8. q \in Nat /\ ClosedRows = q
  BY <1>4
<1> HIDE DEF q
<1>9. QED
  BY <1>1, <1>2, <1>3, <1>4, <1>5, <1>6, <1>7, <1>8

(* While the bundles run nothing is taken yet, so numbering the rows       *)
(* leaves the loop at its start.                                           *)
LEMMA NumberedFresh ==
    ASSUME EmitInv, ppc = "mapping", Len(numbered') \in Nat,
           UNCHANGED <<batch, currentId, taken, counters>>
    PROVE  BatchesInv' /\ taken = 0 /\ ClosedRows = 0 /\ ClosedRows' = 0
<1>1. numbered = <<>>
  BY DEF EmitInv, MapInv
<1>2. taken = 0 /\ Len(batch) = 0 /\ ClosedRows = 0 /\ batch = <<>>
  <2>1. Len(numbered) = 0
    BY <1>1
  <2>2. /\ taken \in Nat /\ taken <= Len(numbered)
        /\ ClosedRows \in Nat /\ Len(batch) \in Nat /\ taken = ClosedRows + Len(batch)
    BY OpenPlaces
  <2>3. batch # <<>> <=> Len(batch) > 0
    BY ClosedFacts
  <2>4. QED
    BY <2>1, <2>2, <2>3
<1>3. Closed = 0
  <2>1. Closed \in Nat /\ BatchSize \in Nat \ {0}
    BY ClosedFacts
  <2>2. ClosedRows = Closed * BatchSize \/ (Closed > 0 /\ (Closed - 1) * BatchSize < taken)
    BY DEF EmitInv, LoopInv
  <2>3. CASE ClosedRows = Closed * BatchSize
    <3>1. Closed * BatchSize = 0
      BY <1>2, <2>3
    <3>2. Closed # 0 => Closed * BatchSize # 0
      BY <2>1
    <3>3. QED
      BY <3>1, <3>2
  <2>4. CASE Closed > 0 /\ (Closed - 1) * BatchSize < taken
    <3> DEFINE c == Closed - 1
    <3>1. c \in Nat /\ c * BatchSize < 0
      BY <1>2, <2>1, <2>4
    <3>2. c * BatchSize \in Nat
      <4> HIDE DEF c
      <4>1. QED
        BY <2>1, <3>1
    <3>3. QED
      <4> HIDE DEF c
      <4>1. QED
        BY <3>1, <3>2
  <2>5. QED
    BY <2>2, <2>3, <2>4
<1>4. ClosedRows' = ClosedRows /\ Closed' = Closed
  BY DEF ClosedRows, Closed
<1>5. /\ currentId \in Nat /\ batch \in Seq(Nat) /\ DOMAIN counters = 0..(Closed - 1)
      /\ \A b \in DOMAIN counters : counters[b] \in Nat
      /\ Total(counters) = ClosedRows
  BY DEF EmitInv, LoopInv
<1>6. 0 * BatchSize = 0 /\ BatchSize \in Nat \ {0} /\ 0..(0 - 1) = {} /\ 1..0 = {}
  BY EmitAssumption
<1>7. BatchesInv'
  BY <1>2, <1>3, <1>4, <1>5, <1>6 DEF BatchesInv, FullBatches
<1>8. QED
  BY <1>2, <1>4, <1>7

(* A closed batch fills the places before the next, or is the last.        *)
LEMMA CloseBatches ==
    ASSUME EmitInv, CloseBatch
    PROVE  /\ BatchesInv' /\ ClosedRows' = taken /\ batch' = <<>>
<1>1. /\ ppc = "writing" /\ counters' = Put(counters, currentId, Len(batch)) /\ batch' = <<>>
      /\ UNCHANGED <<numbered, currentId, taken>>
  BY DEF CloseBatch
<1>2. batch # <<>> /\ (AllTaken \/ Len(batch) = BatchSize) /\ currentId = Closed /\ Len(batch) <= BatchSize
  BY <1>1 DEF EmitInv, LoopInv
<1>3. /\ taken \in Nat /\ taken <= Len(numbered) /\ Len(numbered) \in Nat
      /\ ClosedRows \in Nat /\ Len(batch) \in Nat /\ taken = ClosedRows + Len(batch)
  BY OpenPlaces
<1>4. /\ Closed \in Nat /\ Closed * BatchSize \in Nat /\ BatchSize \in Nat \ {0}
      /\ Closed + 1 \in Nat /\ (Closed + 1) * BatchSize = Closed * BatchSize + BatchSize
      /\ ClosedRows = Closed * BatchSize /\ FullBatches(Closed) /\ Len(batch) > 0
  BY <1>2, ClosedFacts
<1>5. /\ DOMAIN counters = 0..(Closed - 1) /\ \A b \in DOMAIN counters : counters[b] \in Nat
      /\ Total(counters) = ClosedRows
  BY DEF EmitInv, LoopInv
<1>6. /\ DOMAIN counters' = DOMAIN counters \cup {Closed} /\ counters'[Closed] = Len(batch)
      /\ \A b \in DOMAIN counters \ {Closed} : counters'[b] = counters[b]
  <2>1. /\ DOMAIN Put(counters, currentId, Len(batch)) = DOMAIN counters \cup {currentId}
        /\ Put(counters, currentId, Len(batch))[currentId] = Len(batch)
        /\ \A b \in DOMAIN counters \ {currentId} : Put(counters, currentId, Len(batch))[b] = counters[b]
    BY DEF Put
  <2>2. QED
    BY <1>1, <1>2, <2>1, Zenon
<1>7. Closed \notin DOMAIN counters /\ DOMAIN counters' = 0..Closed
  BY <1>4, <1>5, <1>6
<1>8. Closed' = Closed + 1
  <2>1. Closed' = Cardinality(0..Closed)
    BY <1>7 DEF Closed
  <2> DEFINE k == Closed
  <2>2. k \in Nat /\ Closed' = Cardinality(0..k)
    BY <1>4, <2>1
  <2> HIDE DEF k
  <2>3. Cardinality(0..k) = k + 1
    BY <2>2, FS_Interval
  <2>4. QED
    BY <2>2, <2>3 DEF k
<1>9. \A b \in DOMAIN counters : counters'[b] = counters[b]
  BY <1>6, <1>7
<1>10. Total(counters') = Total(counters) + Len(batch)
  <2>1. IsFiniteSet(DOMAIN counters)
    BY <1>4, <1>5, FS_Interval
  <2> DEFINE h == counters'
             x == Closed
  <2>2. /\ x \notin DOMAIN counters /\ DOMAIN h = DOMAIN counters \cup {x} /\ h[x] \in Nat
        /\ \A y \in DOMAIN counters : h[y] = counters[y]
    BY <1>3, <1>6, <1>7, <1>9
  <2>3. h[x] = Len(batch)
    BY <1>6
  <2> HIDE DEF h, x
  <2>4. Total(h) = Total(counters) + h[x]
    BY <1>5, <2>1, <2>2, SumOfOneMore
  <2>5. QED
    BY <2>3, <2>4 DEF h
<1>11. ClosedRows' = taken /\ Len(batch') = 0 /\ batch' \in Seq(Nat)
  <2>1. Len(batch') = 0 /\ batch' \in Seq(Nat)
    BY <1>1
  <2>2. ClosedRows' = taken' - Len(batch')
    BY DEF ClosedRows
  <2>3. QED
    BY <1>1, <1>3, <2>1, <2>2
<1>12. \A b \in 0..(Closed - 1) : counters'[b] = BatchSize
  BY <1>4, <1>5, <1>9 DEF FullBatches
<1>13. \/ /\ ClosedRows' = Closed' * BatchSize
          /\ \A b \in 0..(Closed' - 1) : counters'[b] = BatchSize
       \/ /\ AllTaken' /\ Closed' > 0
          /\ (Closed' - 1) * BatchSize < taken' /\ taken' < Closed' * BatchSize
          /\ \A b \in 0..((Closed' - 1) - 1) : counters'[b] = BatchSize
          /\ counters'[Closed' - 1] = taken' - (Closed' - 1) * BatchSize
  <2>1. CASE Len(batch) = BatchSize
    <3>1. ClosedRows' = Closed' * BatchSize
      BY <1>3, <1>4, <1>8, <1>11, <2>1
    <3>2. \A b \in 0..(Closed' - 1) : counters'[b] = BatchSize
      <4>1. \A b \in 0..(Closed' - 1) : b \in 0..(Closed - 1) \/ b = Closed
        BY <1>4, <1>8
      <4>2. QED
        BY <1>6, <1>12, <2>1, <4>1
    <3>3. QED
      BY <3>1, <3>2
  <2>2. CASE Len(batch) # BatchSize
    <3>1. AllTaken' /\ Closed' > 0 /\ Closed' - 1 = Closed
      BY <1>1, <1>2, <1>4, <1>8, <2>2 DEF AllTaken
    <3>2. Closed * BatchSize < taken /\ taken < (Closed + 1) * BatchSize
      BY <1>2, <1>3, <1>4, <2>2
    <3>3. counters'[Closed] = taken - Closed * BatchSize
      BY <1>3, <1>4, <1>6
    <3>4. \A b \in 0..((Closed' - 1) - 1) : counters'[b] = BatchSize
      BY <1>12, <3>1
    <3>5. QED
      BY <1>1, <1>8, <3>1, <3>2, <3>3, <3>4
  <2>3. QED
    BY <2>1, <2>2
<1>14. DOMAIN counters' = 0..(Closed' - 1) /\ \A b \in DOMAIN counters' : counters'[b] \in Nat
  <2>1. Closed' - 1 = Closed
    BY <1>4, <1>8
  <2>2. \A b \in DOMAIN counters' : b \in DOMAIN counters \/ b = Closed
    BY <1>6
  <2>3. QED
    BY <1>3, <1>5, <1>6, <1>7, <1>9, <2>1, <2>2
<1>15. Total(counters') = ClosedRows'
  BY <1>3, <1>5, <1>10, <1>11
<1>16. /\ taken' \in 0..Len(numbered') /\ currentId' \in Nat /\ Len(batch') <= taken' /\ Len(batch') <= BatchSize
       /\ Closed' \in Nat
  BY <1>1, <1>2, <1>3, <1>4, <1>8, <1>11
<1>17. BatchesInv'
  <2>1. \A k \in 1..Len(batch') : batch'[k] = ClosedRows' + k
    BY <1>11
  <2>2. \/ (ClosedRows = Closed * BatchSize /\ FullBatches(Closed))'
        \/ (/\ batch = <<>> /\ AllTaken /\ Closed > 0
            /\ (Closed - 1) * BatchSize < taken /\ taken < Closed * BatchSize
            /\ FullBatches(Closed - 1)
            /\ counters[Closed - 1] = taken - (Closed - 1) * BatchSize)'
    BY <1>1, <1>13 DEF FullBatches
  <2>3. QED
    BY <1>1, <1>11, <1>14, <1>15, <1>16, <2>1, <2>2 DEF BatchesInv
<1>18. QED
  BY <1>1, <1>11, <1>17

(* The whole of LoopInv.                                                   *)
LEMMA LoopStep ==
    ASSUME EmitInv, NEW curated \in CuratedTables, EmitNext(curated)
    PROVE  LoopInv'
<1>0. BatchesInv
  BY DEF EmitInv, LoopInv, BatchesInv
<1> DEFINE PhaseOK ==
        /\ ppc \in {"writing", "flushing"} => batch # <<>> /\ (AllTaken \/ Len(batch) = BatchSize)
        /\ ppc \in {"done", "alarm"} => batch = <<>> /\ AllTaken
<1>1. BatchesInv' /\ PhaseOK' => LoopInv'
  BY DEF BatchesInv, LoopInv
<1>2. PhaseOK
  BY DEF EmitInv, LoopInv
<1>3. CASE StartEnrichment(curated) \/ StartProducer
  <2>1. /\ batch' = <<>> /\ currentId' = 0 /\ taken' = 0 /\ counters' = <<>> /\ numbered' = <<>>
        /\ ppc' \in {"idle", "mapping"}
    BY <1>3 DEF StartEnrichment, StartProducer, Start, FreshLoop
  <2>2. Len(numbered') \in Nat
    BY <2>1
  <2>3. BatchesInv'
    BY <2>1, <2>2, FreshBatches
  <2>4. QED
    BY <1>1, <2>1, <2>3
<1>4. CASE \/ (\E B \in Bundles : EnrichBundle(B) \/ MapBundle(B)) \/ EndEnrichment \/ Dies
           \/ (\E r \in Records : StrayWrites(r)) \/ (\E i \in queue : BrokerAnswers(i))
  <2>1. UNCHANGED <<numbered, batch, currentId, taken, counters>> /\ (ppc' = ppc \/ ppc' = "failed")
    BY <1>4 DEF EnrichBundle, MapBundle, EndEnrichment, Dies, StrayWrites, BrokerAnswers, loop
  <2>2. BatchesInv'
    BY <1>0, <2>1, BatchesUntouched
  <2>3. PhaseOK'
    BY <1>2, <2>1 DEF AllTaken
  <2>4. QED
    BY <1>1, <2>2, <2>3
<1>5. CASE NumberRows
  <2>1. /\ ppc = "mapping" /\ ppc' = "emitting" /\ numbered' = Numbered
        /\ UNCHANGED <<batch, currentId, taken, counters>>
    BY <1>5 DEF NumberRows
  <2>2. Len(numbered') \in Nat
    <3>1. Numbered \in Seq(Records)
      BY NumberedFacts DEF EmitInv, Shapes
    <3>2. QED
      BY <2>1, <3>1
  <2>3. BatchesInv'
    BY <2>1, <2>2, NumberedFresh
  <2>4. QED
    BY <1>1, <2>1, <2>3
<1>6. CASE TakeRow
  <2>1. ppc' = "emitting"
    BY <1>6 DEF TakeRow
  <2>2. QED
    BY <1>1, <1>6, <2>1, TakeRowBatches
<1>7. CASE OpenWrite \/ Produce \/ Flush \/ PutFile
  <2>1. UNCHANGED <<numbered, batch, currentId, taken, counters>> /\ ppc' \in {"writing", "flushing", "failed"}
    BY <1>7 DEF OpenWrite, Produce, Flush, PutFile, loop
  <2>2. BatchesInv'
    BY <1>0, <2>1, BatchesUntouched
  <2>3. batch # <<>> /\ (AllTaken \/ Len(batch) = BatchSize)
    <3>1. CASE OpenWrite
      BY <3>1, OpenWriteIsFull
    <3>2. CASE Produce \/ Flush \/ PutFile
      BY <1>2, <3>2 DEF Produce, Flush, PutFile
    <3>3. QED
      BY <1>7, <3>1, <3>2
  <2>4. PhaseOK'
    BY <2>1, <2>3 DEF AllTaken
  <2>5. QED
    BY <1>1, <2>2, <2>4
<1>8. CASE CloseBatch
  <2>1. ppc' = "emitting"
    BY <1>8 DEF CloseBatch
  <2>2. QED
    BY <1>1, <1>8, <2>1, CloseBatches
<1>9. CASE Checks
  <2>1. /\ UNCHANGED <<numbered, batch, currentId, taken, counters>>
        /\ batch = <<>> /\ AllTaken /\ ppc' \in {"done", "alarm", "failed"}
    BY <1>9 DEF Checks, loop
  <2>2. BatchesInv'
    BY <1>0, <2>1, BatchesUntouched
  <2>3. PhaseOK'
    BY <2>1 DEF AllTaken
  <2>4. QED
    BY <1>1, <2>2, <2>3
<1>10. QED
  BY <1>3, <1>4, <1>5, <1>6, <1>7, <1>8, <1>9 DEF EmitNext

-----------------------------------------------------------------------------
(* The sinks.                                                              *)

(* With the batches and the broker alone, what Kafka has stays the same.   *)
LEMMA KafkaQuiet ==
    ASSUME EmitInv, UNCHANGED <<ppc, toWrite, queue, errors, acked, topic, numbered, taken, batch, writers>>
    PROVE  KafkaInv'
<1>1. (Uses("kafka")' <=> Uses("kafka")) /\ (Going' <=> Going) /\ Sent' = Sent
  BY DEF Uses, Going, Sent, ClosedRows
<1>2. QED
  BY <1>1 DEF EmitInv, KafkaInv

(* Only the broker's answers move a place out of the queue, and no writer  *)
(* goes on before the queue is empty.                                      *)
LEMMA KafkaStep ==
    ASSUME EmitInv, NEW curated \in CuratedTables, EmitNext(curated)
    PROVE  KafkaInv'
<1>0. KafkaInv /\ writers \in WriterLists
  BY DEF EmitInv, Shapes
<1>w. /\ writers \in {<<"kafka", "gcs">>, <<"gcs">>, <<"kafka">>}
      /\ Uses("kafka") <=> writers # <<"gcs">>
      /\ Uses("gcs") <=> writers # <<"kafka">>
  BY <1>0, WriterFacts
<1>1. CASE StartEnrichment(curated) \/ StartProducer
  <2>1. queue' = {} /\ errors' = 0 /\ acked' = {} /\ ppc' \in {"idle", "mapping"}
    BY <1>1 DEF StartEnrichment, StartProducer, Start, FreshLoop
  <2>2. QED
    BY <2>1 DEF KafkaInv, Going
<1>2. CASE \/ (\E B \in Bundles : EnrichBundle(B) \/ MapBundle(B)) \/ EndEnrichment
           \/ (\E r \in Records : StrayWrites(r))
  <2>1. UNCHANGED <<ppc, toWrite, queue, errors, acked, topic, numbered, taken, batch, writers>>
    BY <1>2 DEF EnrichBundle, MapBundle, EndEnrichment, StrayWrites, loop, broker
  <2>2. QED
    BY <2>1, KafkaQuiet
<1>3. CASE Dies
  <2>1. /\ ppc' \in {"failed", "idle", "done", "alarm"} /\ (ppc' = "failed" \/ (ppc' = ppc /\ epc = "enriching"))
        /\ UNCHANGED <<queue, errors, acked, numbered>> /\ topic \subseteq topic'
    BY <1>3 DEF Dies, Running, ProducerRuns, loop, EmitInv, Shapes
  <2>2. ppc' \in {"failed", "idle"}
    BY <2>1 DEF EmitInv, Shapes
  <2>3. QED
    BY <1>0, <2>1, <2>2 DEF KafkaInv, Going
<1>4. CASE NumberRows
  <2>1. /\ ppc = "mapping" /\ ppc' = "emitting" /\ numbered' = Numbered
        /\ UNCHANGED <<batch, currentId, taken, counters, queue, errors, acked, topic>>
    BY <1>4 DEF NumberRows, broker
  <2>2. queue = {} /\ errors = 0
    BY <1>0, <2>1 DEF KafkaInv
  <2>3. acked = {}
    <3>1. numbered = <<>> /\ acked \subseteq DOMAIN numbered
      BY <2>1 DEF EmitInv, MapInv, Shapes
    <3>2. QED
      BY <3>1
  <2>4. ClosedRows' = 0
    <3>1. Numbered \in Seq(Records)
      BY NumberedFacts DEF EmitInv, Shapes
    <3>2. Len(numbered') \in Nat
      BY <2>1, <3>1
    <3>3. QED
      BY <2>1, <3>2, NumberedFresh
  <2>5. Sent' = 0
    BY <2>1, <2>4 DEF Sent
  <2>6. 1..0 = {}
    OBVIOUS
  <2>7. QED
    BY <2>1, <2>2, <2>3, <2>5, <2>6 DEF KafkaInv
<1>5. CASE TakeRow
  <2>1. /\ ppc = "emitting" /\ ppc' = "emitting"
        /\ UNCHANGED <<numbered, queue, errors, acked, topic, writers>>
    BY <1>5 DEF TakeRow, broker
  <2>2. Sent = ClosedRows /\ Sent' = ClosedRows'
    BY <2>1 DEF Sent
  <2>3. ClosedRows' = ClosedRows
    BY <1>5, TakeRowBatches
  <2>4. (Uses("kafka")' <=> Uses("kafka")) /\ Going
    BY <2>1 DEF Uses, Going
  <2>5. QED
    BY <1>0, <2>1, <2>2, <2>3, <2>4 DEF KafkaInv
<1>6. CASE OpenWrite
  <2>1. /\ ppc = "emitting" /\ ppc' = "writing" /\ toWrite' = writers
        /\ UNCHANGED <<numbered, batch, taken, queue, errors, acked, topic, writers>>
    BY <1>6 DEF OpenWrite, broker
  <2>2. (Uses("kafka")' <=> Uses("kafka")) /\ Going /\ ClosedRows' = ClosedRows
    BY <2>1 DEF Uses, Going, ClosedRows
  <2>3. Sent = ClosedRows /\ (Uses("kafka") => Sent' = ClosedRows)
    <3>1. writers # <<>>
      BY <1>w
    <3>2. QED
      BY <1>w, <2>1, <2>2, <3>1 DEF Sent
  <2>4. QED
    BY <1>0, <2>1, <2>2, <2>3 DEF KafkaInv
<1>7. CASE Produce
  <2>1. /\ ppc = "writing" /\ ppc' = "flushing" /\ toWrite # <<>> /\ Head(toWrite) = "kafka"
        /\ UNCHANGED <<numbered, batch, taken, toWrite, errors, acked, topic, writers>>
    BY <1>7 DEF Produce, loop
  <2>2. /\ queue = {} /\ errors = 0 /\ queue' \cup acked = 1..taken
    BY <1>7, ProducedPlaces
  <2>3. toWrite = writers
    BY <2>1, WritersLeft
  <2>4. Sent' = taken
    BY <2>1 DEF Sent
  <2>5. QED
    BY <1>0, <2>1, <2>2, <2>3, <2>4 DEF KafkaInv
<1>8. CASE \E i \in queue : BrokerAnswers(i)
  <2>1. PICK i \in queue : BrokerAnswers(i)
    BY <1>8
  <2>2. /\ queue' = queue \ {i}
        /\ \/ acked' = acked \cup {i} /\ topic' = topic \cup {numbered[i]} /\ UNCHANGED errors
           \/ errors' = errors + 1 /\ UNCHANGED <<acked, topic>>
        /\ UNCHANGED <<ppc, toWrite, numbered, taken, batch, writers>>
    BY <2>1 DEF BrokerAnswers, loop
  <2>3. ppc \notin {"mapping", "emitting", "writing", "done"} /\ errors \in Nat
    BY <1>0, <2>1 DEF KafkaInv, EmitInv, Shapes
  <2>4. (Uses("kafka")' <=> Uses("kafka")) /\ (Going' <=> Going) /\ Sent' = Sent
    BY <2>2 DEF Uses, Going, Sent, ClosedRows
  <2>5. \A j \in acked' : numbered[j] \in topic'
    BY <1>0, <2>2 DEF KafkaInv
  <2>6. errors' = 0 => errors = 0 /\ queue' \cup acked' = queue \cup acked
    BY <2>1, <2>2, <2>3
  <2>7. QED
    BY <1>0, <2>2, <2>3, <2>4, <2>5, <2>6 DEF KafkaInv
<1>9. CASE Flush
  <2>1. /\ ppc = "flushing"
        /\ \/ Delivered /\ ppc' = "writing" /\ toWrite' = Tail(toWrite)
           \/ ppc' = "failed"
        /\ UNCHANGED <<numbered, batch, taken, queue, errors, acked, topic, writers>>
    BY <1>9 DEF Flush, broker
  <2>2. CASE ppc' = "failed"
    BY <1>0, <2>1, <2>2 DEF KafkaInv, Going
  <2>3. CASE Delivered /\ ppc' = "writing" /\ toWrite' = Tail(toWrite)
    <3>1. queue = {} /\ errors = 0 /\ toWrite = writers /\ Head(writers) = "kafka"
      BY <1>0, <2>1, <2>3 DEF KafkaInv, Delivered
    <3>2. (Uses("kafka")' <=> Uses("kafka")) /\ Going /\ Sent = taken
      BY <2>1 DEF Uses, Going, Sent
    <3>3. toWrite' \in {<<"gcs">>, <<>>}
      <4>1. CASE writers = <<"kafka", "gcs">>
        BY <2>3, <3>1, <4>1
      <4>2. CASE writers = <<"kafka">>
        BY <2>3, <3>1, <4>2
      <4>3. writers # <<"gcs">>
        BY <3>1
      <4>4. QED
        BY <1>w, <4>1, <4>2, <4>3
    <3>4. Sent' = taken
      BY <2>1, <2>3, <3>3 DEF Sent
    <3>5. toWrite' = Tail(writers)
      BY <2>3, <3>1
    <3>6. QED
      BY <1>0, <2>1, <2>3, <3>1, <3>2, <3>4, <3>5 DEF KafkaInv
  <2>4. QED
    BY <2>1, <2>2, <2>3
<1>10. CASE PutFile
  <2>1. /\ ppc = "writing" /\ ppc' = "writing" /\ toWrite # <<>> /\ Head(toWrite) = "gcs"
        /\ toWrite' = Tail(toWrite)
        /\ UNCHANGED <<numbered, batch, taken, queue, errors, acked, topic, writers>>
    BY <1>10 DEF PutFile, broker
  <2>2. toWrite = <<"gcs">>
    BY <2>1, WritersLeft
  <2>3. toWrite' = <<>>
    BY <2>1, <2>2
  <2>4. Sent = taken /\ Sent' = taken
    BY <2>1, <2>2, <2>3 DEF Sent
  <2>5. (Uses("kafka")' <=> Uses("kafka")) /\ Going
    BY <2>1 DEF Uses, Going
  <2>6. QED
    BY <1>0, <2>1, <2>3, <2>4, <2>5 DEF KafkaInv
<1>11. CASE CloseBatch
  <2>1. /\ ppc = "writing" /\ ppc' = "emitting" /\ toWrite = <<>>
        /\ UNCHANGED <<numbered, taken, queue, errors, acked, topic, writers>>
    BY <1>11 DEF CloseBatch, broker
  <2>2. ClosedRows' = taken
    BY <1>11, CloseBatches
  <2>3. Sent = taken /\ Sent' = taken
    BY <2>1, <2>2 DEF Sent
  <2>4. (Uses("kafka")' <=> Uses("kafka")) /\ Going
    BY <2>1 DEF Uses, Going
  <2>5. QED
    BY <1>0, <2>1, <2>3, <2>4 DEF KafkaInv
<1>12. CASE Checks
  <2>1. /\ ppc = "emitting" /\ (ppc' = "done" => Delivered) /\ ppc' \in {"done", "alarm", "failed"}
        /\ UNCHANGED <<numbered, batch, taken, toWrite, queue, errors, acked, topic, writers>>
    BY <1>12 DEF Checks, loop, broker
  <2>2. ClosedRows' = ClosedRows /\ (Uses("kafka")' <=> Uses("kafka")) /\ Going
    BY <2>1 DEF Uses, Going, ClosedRows
  <2>3. Sent = ClosedRows /\ Sent' = ClosedRows
    BY <2>1, <2>2 DEF Sent
  <2>4. QED
    BY <1>0, <2>1, <2>2, <2>3 DEF KafkaInv, Delivered
<1>13. QED
  BY <1>1, <1>2, <1>3, <1>4, <1>5, <1>6, <1>7, <1>8, <1>9, <1>10, <1>11, <1>12 DEF EmitNext

(* The file of the open batch: it holds the batch, and the files of the    *)
(* closed ones are not touched.                                            *)
LEMMA PutFilePlaces ==
    ASSUME EmitInv, PutFile
    PROVE  /\ \A i \in 1..taken : InFile(i)'
           /\ Uses("kafka") => \A b \in DOMAIN files' : ToSet(files'[b]) \subseteq topic
<1> DEFINE content == [k \in DOMAIN batch |-> numbered[batch[k]]]
           start == Closed * BatchSize
<1>1. /\ ppc = "writing" /\ toWrite # <<>> /\ Head(toWrite) = "gcs"
      /\ files' = Put(files, currentId, content) /\ UNCHANGED numbered
  BY DEF PutFile
<1>2. toWrite = <<"gcs">> /\ Uses("gcs")
  BY <1>1, WritersLeft
<1>3. batch # <<>> /\ currentId = Closed /\ Len(batch) <= BatchSize
  BY <1>1 DEF EmitInv, LoopInv
<1>4. /\ taken \in Nat /\ taken <= Len(numbered) /\ Len(numbered) \in Nat /\ DOMAIN numbered = 1..Len(numbered)
      /\ ClosedRows \in Nat /\ Len(batch) \in Nat /\ taken = ClosedRows + Len(batch)
      /\ DOMAIN batch = 1..Len(batch)
  BY OpenPlaces
<1>5. /\ Closed \in Nat /\ start \in Nat /\ BatchSize \in Nat \ {0} /\ ClosedRows = start
  BY <1>3, ClosedFacts
<1>6. \A k \in 1..Len(batch) : batch[k] = ClosedRows + k
  BY DEF EmitInv, LoopInv
<1>7. /\ DOMAIN files' = DOMAIN files \cup {Closed} /\ files'[Closed] = content
      /\ \A b \in DOMAIN files \ {Closed} : files'[b] = files[b]
  BY <1>1, <1>3 DEF Put
<1>8. \A i \in 1..ClosedRows : InFile(i)
  <2>1. Filed = ClosedRows /\ Going
    BY <1>1, <1>2 DEF Filed, Going
  <2>2. QED
    BY <1>2, <2>1 DEF EmitInv, FilesInv
<1> HIDE DEF start
<1>9. \A i \in 1..taken : i \in Nat \ {0} /\ BatchIdOf(i) \in Nat /\ (BatchIdOf(i) = Closed <=> start < i /\ i <= start + BatchSize)
  BY <1>4, <1>5, BatchIdFacts DEF start
<1>10. ASSUME NEW i \in 1..ClosedRows
       PROVE  InFile(i)'
  <2>1. i \in 1..taken /\ ~(start < i)
    BY <1>4, <1>5
  <2>2. BatchIdOf(i) # Closed /\ InFile(i)
    BY <1>8, <1>9, <2>1
  <2>3. BatchIdOf(i) \in DOMAIN files' /\ files'[BatchIdOf(i)] = files[BatchIdOf(i)]
    BY <1>7, <2>2 DEF InFile
  <2>4. QED
    BY <1>1, <2>2, <2>3 DEF InFile
<1>11. ASSUME NEW i \in (ClosedRows + 1)..taken
       PROVE  InFile(i)'
  <2>1. i \in 1..taken /\ start < i /\ i <= start + BatchSize /\ i - start \in 1..Len(batch)
    BY <1>3, <1>4, <1>5
  <2>2. BatchIdOf(i) = Closed
    BY <1>9, <2>1
  <2>3. content[i - start] = numbered[i]
    <3>1. content[i - start] = numbered[batch[i - start]]
      BY <1>4, <2>1
    <3>2. batch[i - start] = ClosedRows + (i - start) /\ ClosedRows + (i - start) = i
      BY <1>4, <1>5, <1>6, <2>1
    <3>3. QED
      BY <3>1, <3>2
  <2>4. BatchSize * BatchIdOf(i) = start
    BY <1>5, <2>2 DEF start
  <2> HIDE DEF content
  <2>5. QED
    BY <1>1, <1>7, <2>2, <2>3, <2>4 DEF InFile
<1>12. \A i \in 1..taken : i \in 1..ClosedRows \/ i \in (ClosedRows + 1)..taken
  BY <1>4
<1>13. ASSUME Uses("kafka"), NEW b \in DOMAIN files'
       PROVE  ToSet(files'[b]) \subseteq topic
  <2>1. CASE b = Closed
    <3>1. queue = {} /\ acked = 1..taken
      <4>1. queue = {} /\ errors = 0
        BY <1>1 DEF EmitInv, KafkaInv
      <4>2. Sent = taken /\ Going
        BY <1>1, <1>2 DEF Sent, Going
      <4>3. queue \cup acked = 1..Sent
        BY <1>13, <4>1, <4>2 DEF EmitInv, KafkaInv
      <4>4. QED
        BY <4>1, <4>2, <4>3
    <3>2. \A k \in DOMAIN batch : content[k] \in topic
      <4>1. \A k \in DOMAIN batch : batch[k] \in 1..taken
        BY <1>4, <1>6
      <4>2. \A i \in acked : numbered[i] \in topic
        BY DEF EmitInv, KafkaInv
      <4>3. QED
        BY <3>1, <4>1, <4>2
    <3>3. ToSet(content) = {content[k] : k \in DOMAIN batch}
      BY DEF ToSet
    <3>4. QED
      BY <1>7, <2>1, <3>2, <3>3
  <2>2. CASE b # Closed
    <3>1. b \in DOMAIN files /\ files'[b] = files[b]
      BY <1>7, <1>13, <2>2
    <3>2. QED
      BY <1>13, <3>1 DEF EmitInv, FilesInv
  <2>3. QED
    BY <2>1, <2>2
<1>14. QED
  BY <1>10, <1>11, <1>12, <1>13

(* A step that writes no file: what must be in files does not grow, and    *)
(* nothing leaves the topic.                                               *)
LEMMA FilesQuiet ==
    ASSUME EmitInv, UNCHANGED <<files, writers>>, topic \subseteq topic',
           Going' /\ Uses("gcs") => Going /\ numbered' = numbered /\ Filed' = Filed
    PROVE  FilesInv'
<1>1. (Uses("kafka")' <=> Uses("kafka")) /\ (Uses("gcs")' <=> Uses("gcs"))
  BY DEF Uses
<1>2. numbered' = numbered => \A i : InFile(i)' <=> InFile(i)
  BY DEF InFile
<1>3. (Going /\ Uses("gcs"))' => \A i \in 1..Filed' : InFile(i)'
  BY <1>1, <1>2 DEF EmitInv, FilesInv
<1>4. Uses("kafka")' => \A b \in DOMAIN files' : ToSet(files'[b]) \subseteq topic'
  BY <1>1 DEF EmitInv, FilesInv
<1>5. QED
  BY <1>3, <1>4 DEF FilesInv

(* Every closed batch keeps its file, and a file holds only what the topic *)
(* has, through every step of the emit loop and the rewrites of its files. *)
LEMMA FilesStep ==
    ASSUME EmitInv, NEW curated \in CuratedTables, EmitNext(curated)
    PROVE  FilesInv'
<1>0. writers \in WriterLists /\ KafkaInv
  BY DEF EmitInv, Shapes
<1>w. /\ writers \in {<<"kafka", "gcs">>, <<"gcs">>, <<"kafka">>}
      /\ Uses("kafka") <=> writers # <<"gcs">>
      /\ Uses("gcs") <=> writers # <<"kafka">>
  BY <1>0, WriterFacts
<1>1. CASE StartEnrichment(curated) \/ StartProducer
  <2>1. ppc' \in {"idle", "mapping"} /\ UNCHANGED <<files, writers, topic>>
    BY <1>1 DEF StartEnrichment, StartProducer, Start, FreshLoop
  <2>2. ~Going'
    BY <2>1 DEF Going
  <2>3. QED
    BY <2>1, <2>2, FilesQuiet
<1>2. CASE \/ (\E B \in Bundles : EnrichBundle(B) \/ MapBundle(B)) \/ EndEnrichment
           \/ (\E r \in Records : StrayWrites(r)) \/ (\E i \in queue : BrokerAnswers(i))
  <2>1. UNCHANGED <<ppc, toWrite, numbered, taken, batch, files, writers>> /\ topic \subseteq topic'
    BY <1>2 DEF EnrichBundle, MapBundle, EndEnrichment, StrayWrites, BrokerAnswers, loop, broker
  <2>2. (Going' <=> Going) /\ Filed' = Filed
    BY <2>1 DEF Going, Filed, ClosedRows
  <2>3. QED
    BY <2>1, <2>2, FilesQuiet
<1>3. CASE Dies
  <2>1. UNCHANGED <<files, writers>> /\ topic \subseteq topic' /\ (ppc' = "failed" \/ (ppc' = ppc /\ epc = "enriching"))
    BY <1>3 DEF Dies, Running, ProducerRuns
  <2>2. ~Going'
    BY <2>1 DEF Going, EmitInv, Shapes
  <2>3. QED
    BY <2>1, <2>2, FilesQuiet
<1>4. CASE NumberRows
  <2>1. /\ ppc = "mapping" /\ ppc' = "emitting" /\ numbered' = Numbered
        /\ UNCHANGED <<batch, currentId, taken, counters, topic, files, writers>>
    BY <1>4 DEF NumberRows, broker
  <2>2. Len(numbered') \in Nat
    <3>1. Numbered \in Seq(Records)
      BY NumberedFacts DEF EmitInv, Shapes
    <3>2. QED
      BY <2>1, <3>1
  <2>3. ClosedRows' = 0
    BY <2>1, <2>2, NumberedFresh
  <2>4. Filed' = 0 /\ 1..0 = {}
    BY <2>1, <2>3 DEF Filed
  <2>5. (Uses("kafka")' <=> Uses("kafka"))
    BY <2>1 DEF Uses
  <2>6. QED
    BY <2>1, <2>4, <2>5 DEF EmitInv, FilesInv
<1>5. CASE TakeRow
  <2>1. /\ ppc = "emitting" /\ ppc' = "emitting" /\ UNCHANGED <<numbered, topic, files, writers>>
    BY <1>5 DEF TakeRow, broker
  <2>2. ClosedRows' = ClosedRows
    BY <1>5, TakeRowBatches
  <2>3. Going /\ Filed' = Filed
    BY <2>1, <2>2 DEF Going, Filed
  <2>4. QED
    BY <2>1, <2>3, FilesQuiet
<1>6. CASE OpenWrite \/ Produce
  <2>1. /\ ppc \in {"emitting", "writing"} /\ UNCHANGED <<numbered, batch, taken, topic, files, writers>>
        /\ \/ ppc = "emitting" /\ ppc' = "writing" /\ toWrite' = writers
           \/ ppc = "writing" /\ toWrite # <<>> /\ ppc' = "flushing"
    BY <1>6 DEF OpenWrite, Produce, loop, broker
  <2>2. ClosedRows' = ClosedRows /\ Going /\ writers # <<>>
    BY <1>w, <2>1 DEF ClosedRows, Going
  <2>3. Filed' = Filed
    BY <2>1, <2>2 DEF Filed
  <2>4. QED
    BY <2>1, <2>2, <2>3, FilesQuiet
<1>7. CASE Flush
  <2>1. /\ ppc = "flushing" /\ UNCHANGED <<numbered, batch, taken, topic, files, writers>>
        /\ \/ ppc' = "writing" /\ toWrite' = Tail(toWrite)
           \/ ppc' = "failed"
    BY <1>7 DEF Flush, broker
  <2>2. toWrite = writers /\ Head(writers) = "kafka"
    BY <1>0, <2>1 DEF KafkaInv
  <2>3. Uses("gcs") => Tail(writers) # <<>>
    <3>1. CASE writers = <<"kafka", "gcs">>
      BY <3>1
    <3>2. CASE writers = <<"gcs">>
      BY <2>2, <3>2
    <3>3. QED
      BY <1>w, <3>1, <3>2
  <2>4. ClosedRows' = ClosedRows /\ Going
    BY <2>1 DEF ClosedRows, Going
  <2>5. Uses("gcs") => Filed' = Filed
    BY <2>1, <2>2, <2>3, <2>4 DEF Filed
  <2>6. QED
    BY <2>1, <2>4, <2>5, FilesQuiet
<1>8. CASE PutFile
  <2>1. /\ ppc' = "writing" /\ UNCHANGED <<numbered, batch, taken, topic, writers>>
    BY <1>8 DEF PutFile, broker
  <2>2. /\ \A i \in 1..taken : InFile(i)'
        /\ Uses("kafka") => \A b \in DOMAIN files' : ToSet(files'[b]) \subseteq topic
    BY <1>8, PutFilePlaces
  <2>3. toWrite' = <<>>
    <3>1. toWrite = <<"gcs">> /\ toWrite' = Tail(toWrite)
      BY <1>8, WritersLeft DEF PutFile
    <3>2. QED
      BY <3>1
  <2>4. Filed' = taken /\ (Uses("kafka")' <=> Uses("kafka"))
    BY <2>1, <2>3 DEF Filed, Uses
  <2>5. QED
    BY <2>1, <2>2, <2>4 DEF FilesInv
<1>9. CASE CloseBatch
  <2>1. /\ ppc = "writing" /\ ppc' = "emitting" /\ toWrite = <<>> /\ UNCHANGED <<numbered, taken, topic, files, writers>>
    BY <1>9 DEF CloseBatch, broker
  <2>2. ClosedRows' = taken
    BY <1>9, CloseBatches
  <2>3. Going /\ Filed' = Filed
    BY <2>1, <2>2 DEF Going, Filed
  <2>4. QED
    BY <2>1, <2>3, FilesQuiet
<1>10. CASE Checks
  <2>1. /\ ppc = "emitting" /\ ppc' \in {"done", "alarm", "failed"}
        /\ UNCHANGED <<numbered, batch, taken, topic, files, writers>>
    BY <1>10 DEF Checks, loop, broker
  <2>2. Going /\ Filed' = Filed
    BY <2>1 DEF Going, Filed, ClosedRows
  <2>3. QED
    BY <2>1, <2>2, FilesQuiet
<1>11. QED
  BY <1>1, <1>2, <1>3, <1>4, <1>5, <1>6, <1>7, <1>8, <1>9, <1>10 DEF EmitNext

-----------------------------------------------------------------------------
(* The checks.                                                             *)

(* When every row is in a closed batch, the batches are as many as rows    *)
(* divided by batch_size give, none but the last is short, and they add up *)
(* to the rows: the two checks compare nothing but rows and metric.        *)
LEMMA ChecksSay ==
    ASSUME EmitInv, AllTaken, batch = <<>>
    PROVE  /\ NoShortBatch
           /\ Cardinality(DOMAIN counters) = Ceil(Len(numbered), BatchSize)
           /\ FoldFunction(+, 0, counters) = Len(numbered)
<1>1. /\ taken \in Nat /\ ClosedRows \in Nat /\ Len(batch) = 0 /\ taken = ClosedRows + Len(batch)
      /\ taken = Len(numbered)
  BY OpenPlaces DEF AllTaken
<1>2. ClosedRows = taken /\ taken = Len(numbered)
  BY <1>1
<1>3. Closed \in Nat /\ BatchSize \in Nat \ {0} /\ Closed * BatchSize \in Nat
  BY ClosedFacts
<1>4. DOMAIN counters = 0..(Closed - 1) /\ Total(counters) = ClosedRows
  BY DEF EmitInv, LoopInv
<1>5. FoldFunction(+, 0, counters) = Len(numbered)
  <2>1. Total(counters) = Len(numbered)
    BY <1>2, <1>4
  <2>2. QED
    BY <2>1, Zenon DEF Total
<1>6. \/ ClosedRows = Closed * BatchSize /\ FullBatches(Closed)
      \/ /\ Closed > 0
         /\ (Closed - 1) * BatchSize < taken /\ taken < Closed * BatchSize
         /\ FullBatches(Closed - 1)
  BY DEF EmitInv, LoopInv
<1>7. NoShortBatch
  <2>1. SUFFICES ASSUME NEW b \in 0..(Closed - 1)
                 PROVE  counters[b] = BatchSize \/ \A c \in 0..(Closed - 1) : c <= b
    BY <1>4 DEF NoShortBatch
  <2>2. CASE b = Closed - 1
    BY <1>3, <2>2
  <2>3. CASE b # Closed - 1
    <3>1. b \in 0..((Closed - 1) - 1)
      BY <1>3, <2>1, <2>3
    <3>2. QED
      BY <1>6, <2>1, <3>1 DEF FullBatches
  <2>4. QED
    BY <2>2, <2>3
<1>8. Ceil(taken, BatchSize) = Closed
  <2> DEFINE q == Closed * BatchSize
             a == taken + BatchSize - 1
  <2>1. q \in Nat /\ a \in Nat
    BY <1>1, <1>3
  <2>2. Closed > 0 => (Closed - 1) * BatchSize = q - BatchSize
    BY <1>3
  <2>3. q <= a /\ a < q + BatchSize
    <3> DEFINE p == (Closed - 1) * BatchSize
    <3>1. taken = q \/ (p < taken /\ taken < q /\ p = q - BatchSize)
      BY <1>2, <1>6, <2>2
    <3> HIDE DEF p, q
    <3>2. QED
      BY <1>1, <1>3, <2>1, <3>1
  <2>4. a \div BatchSize = Closed
    <3>1. a \div BatchSize = Closed <=> Closed * BatchSize <= a /\ a < Closed * BatchSize + BatchSize
      <4> HIDE DEF a
      <4>1. QED
        BY <1>3, <2>1
    <3>2. QED
      BY <2>3, <3>1
  <2>5. QED
    BY <2>4 DEF Ceil
<1>9. Cardinality(DOMAIN counters) = Ceil(Len(numbered), BatchSize)
  BY <1>2, <1>8 DEF Closed
<1>10. QED
  BY <1>5, <1>7, <1>9, Zenon

(* The checks decide by the counts alone, since numbering never leaves a   *)
(* short batch; no other step reaches their verdict.                       *)
LEMMA VerdictsStep ==
    ASSUME EmitInv, NEW curated \in CuratedTables, EmitNext(curated)
    PROVE  Verdicts'
<1>1. CASE Checks
  <2>1. /\ AllTaken /\ batch = <<>> /\ UNCHANGED <<numbered, commits>>
        /\ ppc' = "done" => CountsAgree
        /\ ppc' = "alarm" => ~(NoShortBatch /\ CountsAgree)
    BY <1>1 DEF Checks, job, loop
  <2>2. /\ NoShortBatch
        /\ Cardinality(DOMAIN counters) = Ceil(Len(numbered), BatchSize)
        /\ FoldFunction(+, 0, counters) = Len(numbered)
    BY <2>1, ChecksSay, Zenon
  <2>3. CountsAgree => Len(numbered) = commits
    BY <2>2, Zenon DEF CountsAgree
  <2>4. Len(numbered) = commits => CountsAgree
    BY <2>2, Zenon DEF CountsAgree
  <2>5. QED
    BY <2>1, <2>2, <2>3, <2>4 DEF Verdicts
<1>2. CASE \/ StartEnrichment(curated) \/ StartProducer \/ NumberRows \/ TakeRow \/ OpenWrite \/ Produce
           \/ Flush \/ PutFile \/ CloseBatch
  <2>1. ppc' \notin {"done", "alarm"}
    BY <1>2 DEF StartEnrichment, StartProducer, NumberRows, TakeRow, OpenWrite, Produce, Flush, PutFile, CloseBatch
  <2>2. QED
    BY <2>1 DEF Verdicts
<1>3. CASE \/ EndEnrichment \/ Dies
           \/ (\E r \in Records : StrayWrites(r)) \/ (\E i \in queue : BrokerAnswers(i))
  <2>1. (ppc' = ppc \/ ppc' = "failed") /\ UNCHANGED <<numbered, commits>>
    BY <1>3 DEF EndEnrichment, Dies, StrayWrites, BrokerAnswers, job, loop
  <2>2. QED
    BY <2>1 DEF EmitInv, Verdicts
<1>4. CASE \E B \in Bundles : EnrichBundle(B) \/ MapBundle(B)
  <2>1. ppc' = ppc /\ (ppc = "mapping" \/ epc = "enriching")
    BY <1>4 DEF EnrichBundle, MapBundle
  <2>2. ppc' \notin {"done", "alarm"}
    BY <2>1 DEF EmitInv, Shapes
  <2>3. QED
    BY <2>2 DEF Verdicts
<1>5. QED
  BY <1>1, <1>2, <1>3, <1>4 DEF EmitNext

(* EmitInv is inductive.                                                   *)
LEMMA EmitInvInit == EmitInit => EmitInv
<1> SUFFICES ASSUME EmitInit PROVE EmitInv
  OBVIOUS
<1>1. /\ enriched = NoRows /\ target = NoRows /\ stray = {} /\ epc = "idle" /\ ppc = "idle"
      /\ rows = NoRows /\ reads = 0 /\ commits = 0 /\ numbered = <<>> /\ batch = <<>> /\ currentId = 0
      /\ taken = 0 /\ counters = <<>> /\ queue = {} /\ errors = 0 /\ acked = {} /\ topic = {} /\ files = <<>>
      /\ writers \in WriterLists /\ starts = 0 /\ faults = 0
  BY DEF EmitInit
<1>2. <<>> \in Seq(Records) /\ Len(<<>>) = 0 /\ <<>> \in Seq(Nat) /\ DOMAIN <<>> = {}
  BY {} = 1..0
<1>3. Shapes
  BY <1>1, <1>2, NoRowsFacts, EmitAssumption DEF Shapes
<1>4. CopiesBounded
  BY <1>1, NoRowsFacts DEF CopiesBounded, One
<1>5. LoopInv
  <2>1. Closed = 0
    BY <1>1, <1>2, FS_EmptySet DEF Closed
  <2>2. ClosedRows = 0
    <3>1. taken = 0 /\ Len(batch) = 0
      BY <1>1, <1>2
    <3>2. 0 - 0 = 0
      OBVIOUS
    <3>3. QED
      BY <3>1, <3>2 DEF ClosedRows
  <2>3. Total(counters) = 0
    <3>1. Copies(counters, DOMAIN counters) = {}
      BY <1>1, <1>2 DEF Copies
    <3>2. IsFiniteSet(DOMAIN counters) /\ \A x \in DOMAIN counters : counters[x] \in Nat
      BY <1>1, <1>2, FS_EmptySet
    <3>3. Total(counters) = Cardinality(Copies(counters, DOMAIN counters))
      BY <3>2, FoldCounts
    <3>4. QED
      BY <3>1, <3>3, FS_EmptySet
  <2>4. 0 * BatchSize = 0 /\ BatchSize \in Nat \ {0} /\ 0..(0 - 1) = {} /\ 1..0 = {}
    BY EmitAssumption
  <2>5. QED
    BY <1>1, <1>2, <2>1, <2>2, <2>3, <2>4 DEF LoopInv, FullBatches
<1>6. MapInv /\ KafkaInv /\ FilesInv /\ Verdicts
  BY <1>1, <1>2 DEF MapInv, KafkaInv, FilesInv, Verdicts, Going
<1>7. QED
  BY <1>3, <1>4, <1>5, <1>6 DEF EmitInv

(* A step of another stage leaves the two jobs as they are.                *)
LEMMA EmitInvQuiet == EmitInv /\ UNCHANGED emitVars => EmitInv'
<1> SUFFICES ASSUME EmitInv, UNCHANGED emitVars PROVE EmitInv'
  OBVIOUS
<1>1. UNCHANGED <<enriched, target, stray, epc, ppc, rows, reads, commits, numbered, batch, currentId, taken,
                  toWrite, counters, queue, errors, acked, topic, files, writers, starts, faults>>
  BY DEF emitVars, tables, job, loop, broker
<1>2. Shapes' /\ CopiesBounded' /\ Verdicts' /\ MapInv'
  BY <1>1 DEF EmitInv, Shapes, CopiesBounded, Verdicts, MapInv
<1>3. KafkaInv'
  BY <1>1, KafkaQuiet
<1>4. FilesInv'
  <2>1. (Going' <=> Going) /\ Filed' = Filed
    BY <1>1 DEF Going, Filed, ClosedRows
  <2>2. QED
    BY <1>1, <2>1, FilesQuiet
<1>5. LoopInv'
  <2>1. BatchesInv'
    BY <1>1, BatchesUntouched DEF EmitInv, LoopInv, BatchesInv
  <2>2. QED
    BY <1>1, <2>1 DEF EmitInv, LoopInv, BatchesInv, AllTaken
<1>6. QED
  BY <1>2, <1>3, <1>4, <1>5 DEF EmitInv

(* Every step of enrichment and producer preserves the invariant.          *)
LEMMA EmitInvStep ==
    ASSUME EmitInv, NEW curated \in CuratedTables, EmitNext(curated)
    PROVE  EmitInv'
  BY ShapesStep, CopiesStep, MapStep, LoopStep, KafkaStep, FilesStep, VerdictsStep DEF EmitInv

(* Every document that maps is where the next stage looks for it.          *)
LEMMA EmitInvDelivers == EmitInv => SuccessMeansDelivered /\ NoFalseAlarm
<1> SUFFICES ASSUME EmitInv PROVE SuccessMeansDelivered /\ NoFalseAlarm
  OBVIOUS
<1>1. NoFalseAlarm
  <2>1. SUFFICES ASSUME ppc = "alarm" PROVE Len(numbered) > commits
    BY DEF NoFalseAlarm
  <2>2. commits <= Len(numbered) /\ Len(numbered) # commits /\ commits \in Nat
    BY <2>1 DEF EmitInv, MapInv, Verdicts, Shapes
  <2>3. Len(numbered) \in Nat
    BY OpenPlaces
  <2>4. QED
    BY <2>2, <2>3
<1>2. Uses("kafka") => \A b \in DOMAIN files : ToSet(files[b]) \subseteq topic
  BY DEF EmitInv, FilesInv
<1>3. ASSUME ppc = "done"
      PROVE  /\ Len(numbered) = commits
             /\ \A r \in Records \ MapRejects : enriched[r] > 0 => r \in ToSet(numbered)
             /\ Uses("kafka") => acked = DOMAIN numbered
             /\ Uses("gcs") => \A i \in DOMAIN numbered : InFile(i)
  <2>1. Len(numbered) = commits /\ \A r \in Records \ MapRejects : enriched[r] > 0 => r \in ToSet(numbered)
    BY <1>3 DEF EmitInv, MapInv, Verdicts
  <2>2. batch = <<>> /\ AllTaken /\ queue = {} /\ errors = 0
    BY <1>3 DEF EmitInv, LoopInv, KafkaInv
  <2>3. ClosedRows = Len(numbered) /\ DOMAIN numbered = 1..Len(numbered)
    <3>1. /\ DOMAIN numbered = 1..Len(numbered)
          /\ taken \in Nat /\ ClosedRows \in Nat /\ Len(batch) = 0 /\ taken = ClosedRows + Len(batch)
      BY <2>2, OpenPlaces
    <3>2. QED
      BY <2>2, <3>1 DEF AllTaken
  <2>4. Sent = ClosedRows /\ Filed = ClosedRows /\ Going
    BY <1>3 DEF Sent, Filed, Going
  <2>5. QED
    BY <2>1, <2>2, <2>3, <2>4 DEF EmitInv, KafkaInv, FilesInv
<1>4. SuccessMeansDelivered
  BY <1>2, <1>3 DEF SuccessMeansDelivered, InFile
<1>5. QED
  BY <1>1, <1>4

-----------------------------------------------------------------------------
(* The lane.                                                               *)

(* What the curated table holds is 0 or 1 row of each record.              *)
LEMMA CuratedIsATable == CuratedRows \in CuratedTables
  BY DEF CuratedRows, CuratedTables

(* Every step of the lane does, whichever stage takes it.                  *)
LEMMA LaneStep == EmitInv /\ [Next]_<<dformVars, emitVars>> => EmitInv'
<1> SUFFICES ASSUME EmitInv, [Next]_<<dformVars, emitVars>> PROVE EmitInv'
  OBVIOUS
<1>1. CASE EmitNext(CuratedRows)
  BY <1>1, CuratedIsATable, EmitInvStep
<1>2. CASE UNCHANGED emitVars
  BY <1>2, EmitInvQuiet
<1>3. QED
  BY <1>1, <1>2 DEF Next

(* EmitInv holds in every state of the lane: whatever bundles are tried    *)
(* again, whichever task dies and whatever the broker answers.             *)
THEOREM TransformInvariant == Spec => []EmitInv
<1>1. Init => EmitInv
  BY EmitInvInit DEF Init
<1>2. QED
  BY <1>1, LaneStep, PTL DEF Spec

(* When run_pipeline of the JSON Data Producer returns, every enriched     *)
(* record that maps is numbered, every numbered row is acknowledged by the *)
(* broker and in the file of its batch at its place, and no file has a     *)
(* document that Kafka has not.                                            *)
THEOREM TransformDelivers == Spec => []SuccessMeansDelivered
  BY TransformInvariant, EmitInvDelivers, PTL

(* The checks on batches and counts at the end of run_pipeline raise only  *)
(* when the table has more rows than the metric counted: numbering and     *)
(* closing batches never fails them on its own, for any number of rows and *)
(* any batch_size.                                                         *)
THEOREM TransformNoFalseAlarm == Spec => []NoFalseAlarm
  BY TransformInvariant, EmitInvDelivers, PTL

-----------------------------------------------------------------------------
(* Types.                                                                  *)

(* The phases of the Dataform stage and its bound.                         *)
DataformTyped ==
    /\ dpc \in {"idle", "ordering", "cycle", "executing", "failed", "finished"}
    /\ compiles \in 0..MaxCompiles

(* The Dataform stage keeps to its phases and to its bound on compilations.*)
LEMMA DataformTypedStep == DataformTyped /\ [DataformNext]_dformVars => DataformTyped'
<1> SUFFICES ASSUME DataformTyped, [DataformNext]_dformVars PROVE DataformTyped'
  OBVIOUS
<1>1. CASE Compile
  BY <1>1, MaxCompilesIsNat DEF Compile, DataformTyped
<1>2. CASE \E n \in Actions : VisitRoot(n)
  BY <1>2 DEF VisitRoot, DataformTyped
<1>3. CASE \E d \in UNION {graph[n].deps : n \in Actions} : VisitDependency(d)
  BY <1>3 DEF VisitDependency, DataformTyped
<1>4. CASE LeaveVisit \/ EndOrdering \/ ExecuteNext \/ ExecuteFails \/ EndExecution
  BY <1>4 DEF LeaveVisit, EndOrdering, ExecuteNext, ExecuteFails, EndExecution, DataformTyped
<1>5. CASE UNCHANGED dformVars
  BY <1>5 DEF dformVars, DataformTyped
<1>6. QED
  BY <1>1, <1>2, <1>3, <1>4, <1>5 DEF DataformNext

(* The invariant gives the types and the bounds on every table.            *)
LEMMA EmitInvTyped == EmitInv => EmitTypeOK
<1> SUFFICES ASSUME EmitInv PROVE EmitTypeOK
  OBVIOUS
<1>1. faults \in 0..MaxFaults /\ starts \in 0..MaxStarts /\ MaxFaults \in Nat /\ MaxStarts \in Nat
  BY EmitAssumption DEF EmitInv, Shapes
<1>2. /\ enriched \in [Records -> Nat] /\ target \in [Records -> Nat] /\ rows \in [Records -> Nat]
      /\ \A r \in Records : rows[r] <= 1 + faults /\ enriched[r] <= 1 + faults
      /\ \A r \in Records : target[r] + One(r \in stray) + (IF ppc = "mapping" THEN rows[r] ELSE 0)
                                <= 2 + 2 * faults
  BY DEF EmitInv, Shapes, CopiesBounded
<1>3. {enriched, target, rows} \subseteq BagOf(2 * MaxCopies)
  <2>1. 2 * MaxCopies = 4 + 2 * MaxFaults /\ 2 * MaxCopies \in Nat
    BY <1>1 DEF MaxCopies
  <2>2. \A r \in Records : /\ rows[r] \in Nat /\ enriched[r] \in Nat /\ target[r] \in Nat
                           /\ One(r \in stray) \in Nat
    BY <1>2 DEF One
  <2>3. \A r \in Records : target[r] <= 2 + 2 * faults
    BY <1>1, <1>2, <2>2
  <2>4. \A r \in Records : /\ rows[r] \in 0..(2 * MaxCopies) /\ enriched[r] \in 0..(2 * MaxCopies)
                           /\ target[r] \in 0..(2 * MaxCopies)
    BY <1>1, <1>2, <2>1, <2>2, <2>3
  <2>5. QED
    BY <1>2, <2>4 DEF BagOf
<1>4. {reads, commits, currentId, taken, errors, starts, faults} \subseteq Nat
  BY <1>1, OpenPlaces DEF EmitInv, Shapes, LoopInv
<1>5. {ToSet(batch), queue, acked} \subseteq SUBSET DOMAIN numbered
  <2>1. ToSet(batch) \subseteq DOMAIN numbered
    <3>1. /\ taken \in Nat /\ taken <= Len(numbered) /\ Len(numbered) \in Nat /\ ClosedRows \in Nat
          /\ DOMAIN numbered = 1..Len(numbered) /\ ToSet(batch) = (ClosedRows + 1)..taken
      BY OpenPlaces
    <3>2. (ClosedRows + 1)..taken \subseteq 1..Len(numbered)
      BY <3>1
    <3>3. QED
      BY <3>1, <3>2
  <2>2. QED
    BY <2>1 DEF EmitInv, Shapes
<1>6. taken <= Len(numbered) /\ Len(batch) <= BatchSize /\ starts <= MaxStarts /\ faults <= MaxFaults
  BY <1>1, OpenPlaces DEF EmitInv, LoopInv
<1>7. /\ stray \subseteq Records /\ topic \subseteq Records
      /\ epc \in {"idle", "enriching", "enriched"}
      /\ ppc \in {"idle", "mapping", "emitting", "writing", "flushing", "done", "alarm", "failed"}
      /\ numbered \in Seq(Records) /\ queue \cap acked = {}
  BY DEF EmitInv, Shapes
<1>8. QED
  BY <1>3, <1>4, <1>5, <1>6, <1>7 DEF EmitTypeOK

(* With the search's own invariant, the types of the whole lane.           *)
LEMMA LaneIsTyped == EmitInv /\ DataformInv /\ DataformTyped => TransformTypeOK
<1> SUFFICES ASSUME EmitInv, DataformInv, DataformTyped PROVE TransformTypeOK
  OBVIOUS
<1>1. /\ stack \in Seq(Frame) /\ visiting = {stack[i].name : i \in 1..Depth} /\ visiting \cap done = {}
      /\ done = {ordered[i] : i \in DOMAIN ordered}
  BY DEF DataformInv, StackInv, DoneInv, Built
<1>2. DOMAIN stack = 1..Depth
  BY <1>1 DEF Depth
<1>3. compiles <= MaxCompiles
  BY MaxCompilesIsNat DEF DataformTyped
<1>4. QED
  BY <1>1, <1>2, <1>3, EmitInvTyped DEF TransformTypeOK, DataformTyped

(* The lane's variables keep their types and bounds: no record is ever in  *)
(* a table more often than its own row and one row per fault of each of    *)
(* the two jobs allow, and no batch is longer than batch_size.             *)
THEOREM TransformTyped == Spec => []TransformTypeOK
<1>1. Init => DataformInv /\ DataformTyped
  BY DataformInvInit, MaxCompilesIsNat DEF Init, DataformInit, DataformTyped
<1>2. DataformInv /\ DataformTyped /\ [Next]_<<dformVars, emitVars>> => DataformInv' /\ DataformTyped'
  <2>1. [Next]_<<dformVars, emitVars>> => [DataformNext]_dformVars
    BY DEF Next
  <2>2. QED
    BY <2>1, DataformInvStep, DataformTypedStep
<1>3. Spec => [](DataformInv /\ DataformTyped)
  BY <1>1, <1>2, PTL DEF Spec
<1>4. QED
  BY <1>3, TransformInvariant, LaneIsTyped, PTL
=============================================================================
