------------------------ MODULE LoaderSettle_proofs -------------------------
(***************************************************************************)
(* Theorems about LoaderSettle.  The inductive invariant is LoaderInv: the *)
(* intake's own invariant without its bookkeeping of answers, the types,   *)
(* the evidence behind the three sets of the settle loop, and the order of *)
(* the artefacts.  SettleInv, above it, is about how the loop ends, and    *)
(* the last section shows that every step is one of LoadContract's or      *)
(* changes nothing the contract speaks of.                                 *)
(***************************************************************************)
EXTENDS LoaderSettle, TargetIntake_proofs, WellFoundedInduction

-----------------------------------------------------------------------------
(* The Target System's part, under the loader's steps.                     *)

(* A document the producer appends is a document.                          *)
LEMMA LoadedIsDocument == LoadedDocument \in Document
  BY ThisRunIsARun DEF LoadedDocument, Document, Kinds

(* Appending to the target topic disturbs nothing of the mock.             *)
LEMMA AppendKeepsMock ==
    ASSUME TargetTypeOK, OffsetsInOrder, KeysInv, NEW k \in Keys,
           targetTopic' = Append1(targetTopic, k, LoadedDocument),
           UNCHANGED <<confirmations, rejections, idempotency, suppressNext, loop,
                       offsets, budget, lost>>
    PROVE  TargetTypeOK' /\ OffsetsInOrder' /\ KeysInv'
<1>0. k \in Lanes
  BY DEF Lanes
<1>1. /\ targetTopic' \in [Lanes -> Seq(Document)]
      /\ Len(targetTopic'[k]) = Len(targetTopic[k]) + 1
      /\ \A x \in Lanes \ {k} : targetTopic'[x] = targetTopic[x]
  <2>1. targetTopic \in [Lanes -> Seq(Document)]
    BY DEF TargetTypeOK
  <2>2. QED
    BY <1>0, <2>1, AppendTyped, LoadedIsDocument
<1>2. TargetTypeOK'
  BY <1>1 DEF TargetTypeOK, offsets, budget
<1>3. OffsetsInOrder'
  <2>1. SUFFICES ASSUME NEW x \in Lanes
                 PROVE  /\ committed[x] <= applied[x]
                        /\ applied[x] <= fetched[x]
                        /\ fetched[x] <= Len(targetTopic'[x])
    BY DEF OffsetsInOrder, offsets
  <2>2. /\ committed[x] <= applied[x]
        /\ applied[x] <= fetched[x]
        /\ fetched[x] <= Len(targetTopic[x])
    BY DEF OffsetsInOrder
  <2>3. fetched[x] \in Nat /\ Len(targetTopic[x]) \in Nat
    BY DEF TargetTypeOK
  <2>4. CASE x = k
    <3>1. fetched[x] <= Len(targetTopic[x]) + 1
      BY <2>2, <2>3
    <3>2. QED
      BY <1>1, <2>2, <2>4, <3>1
  <2>5. CASE x # k
    BY <1>1, <2>2, <2>5
  <2>6. QED
    BY <2>4, <2>5
<1>4. KeysInv'
  BY KeysInvQuiet DEF budget
<1>5. QED
  BY <1>2, <1>3, <1>4

(* So does leaving all of it alone.                                        *)
LEMMA StutterKeepsMock ==
    ASSUME TargetTypeOK, OffsetsInOrder, KeysInv, UNCHANGED mockVars
    PROVE  TargetTypeOK' /\ OffsetsInOrder' /\ KeysInv'
<1>1. TargetTypeOK'
  BY TargetStutterTyped
<1>2. OffsetsInOrder'
  BY DEF mockVars, topics, offsets, OffsetsInOrder
<1>3. KeysInv'
  BY KeysInvQuiet DEF mockVars, topics, budget
<1>4. QED
  BY <1>1, <1>2, <1>3

(* The whole system's steps, as the mock sees them.                        *)
LEMMA NextKeepsMock ==
    ASSUME TargetTypeOK, OffsetsInOrder, KeysInv, [Next]_vars
    PROVE  TargetTypeOK' /\ OffsetsInOrder' /\ KeysInv'
<1>1. CASE TargetStep
  BY <1>1, TargetStepTyped, OffsetsInOrderStep, KeysInvStep DEF TargetNext
<1>2. ASSUME NEW k \in Keys, SendCompletes(k) \/ SendFails(k)
      PROVE  TargetTypeOK' /\ OffsetsInOrder' /\ KeysInv'
  <2>1. /\ targetTopic' = Append1(targetTopic, k, LoadedDocument) \/ UNCHANGED targetTopic
        /\ UNCHANGED <<confirmations, rejections, idempotency, suppressNext, loop,
                       offsets, budget, lost>>
    BY <1>2 DEF SendCompletes, SendFails
  <2>2. CASE UNCHANGED targetTopic
    BY <2>1, <2>2, StutterKeepsMock DEF mockVars, topics
  <2>3. CASE targetTopic' = Append1(targetTopic, k, LoadedDocument)
    BY <2>1, <2>3, AppendKeepsMock
  <2>4. QED
    BY <2>1, <2>2, <2>3
<1>3. CASE UNCHANGED mockVars
  BY <1>3, StutterKeepsMock
<1>4. QED
  BY <1>1, <1>2, <1>3 DEF Next, LoaderNext, vars, BeginAttempt, Offer, Flush,
     PollReturnTopics, SettleSatisfied, SettleDeadline, PutArtefact, Exit, Die

(* What has been said stays said: the return topics only grow.             *)
LEMMA SaidStays ==
    ASSUME TargetTypeOK, OffsetsInOrder, [Next]_vars, NEW k \in Keys
    PROVE  /\ \A o \in Outcomes : SaidOutcome(k, o) => SaidOutcome(k, o)'
           /\ SaidRejected(k) => SaidRejected(k)'
<1>0. k \in Lanes
  BY DEF Lanes
<1>1. CASE UNCHANGED <<confirmations, rejections>>
  BY <1>1 DEF SaidOutcome, SaidRejected
<1>2. ASSUME NEW l \in Lanes, ApplyDocument(l)
      PROVE  /\ \A o \in Outcomes : SaidOutcome(k, o) => SaidOutcome(k, o)'
             /\ SaidRejected(k) => SaidRejected(k)'
  <2>1. \/ Confirms(l, "created") \/ Confirms(l, "duplicate")
        \/ Rejects(l)
        \/ Loses(l)
    BY <1>2, ApplyAnswers
  <2>2. ASSUME NEW o \in Outcomes, Confirms(l, o)
        PROVE  /\ \A v \in Outcomes : SaidOutcome(k, v) => SaidOutcome(k, v)'
               /\ SaidRejected(k) => SaidRejected(k)'
    <3>1. rejections' = rejections
      BY <2>2 DEF Confirms
    <3>2. /\ Len(confirmations'[l]) = Len(confirmations[l]) + 1
          /\ Len(confirmations[l]) \in Nat
          /\ \A i \in 1..Len(confirmations[l]) : confirmations'[l][i] = confirmations[l][i]
          /\ \A x \in Lanes \ {l} : confirmations'[x] = confirmations[x]
      BY <2>2, CreatedAtGrows
    <3>3. CASE k = l
      BY <3>1, <3>2, <3>3 DEF SaidOutcome, SaidRejected
    <3>4. CASE k # l
      BY <1>0, <3>1, <3>2, <3>4 DEF SaidOutcome, SaidRejected
    <3>5. QED
      BY <3>3, <3>4
  <2>3. CASE Rejects(l)
    <3>1. PICK run \in Runs \cup {NoRun} :
              rejections' = Append1(rejections, l, [run |-> run])
      BY <2>3 DEF Rejects
    <3>2. confirmations' = confirmations
      BY <2>3 DEF Rejects
    <3>3. rejections \in [Lanes -> Seq(Rejection)] /\ [run |-> run] \in Rejection
      BY DEF TargetTypeOK, Rejection
    <3>4. /\ Len(rejections'[l]) = Len(rejections[l]) + 1
          /\ \A i \in 1..Len(rejections[l]) : rejections'[l][i] = rejections[l][i]
          /\ \A x \in Lanes \ {l} : rejections'[x] = rejections[x]
      BY <3>1, <3>3, AppendTyped
    <3>5. Len(rejections[l]) \in Nat
      BY <3>3
    <3>6. CASE k = l
      BY <3>2, <3>4, <3>5, <3>6 DEF SaidOutcome, SaidRejected
    <3>7. CASE k # l
      BY <1>0, <3>2, <3>4, <3>7 DEF SaidOutcome, SaidRejected
    <3>8. QED
      BY <3>6, <3>7
  <2>4. CASE Loses(l)
    BY <1>1, <2>4 DEF Loses
  <2>5. QED
    BY <2>1, <2>2, <2>3, <2>4 DEF Outcomes
<1>3. CASE TargetStep
  BY <1>1, <1>2, <1>3 DEF TargetStep, Poll, CommitBatch, Restart, Reset,
     SuppressNextConfirmation, ForeignPublish, topics
<1>4. CASE LoaderNext \/ UNCHANGED vars
  <2>1. UNCHANGED <<confirmations, rejections>>
    BY <1>4 DEF LoaderNext, vars, mockVars, topics, BeginAttempt, Offer, SendCompletes,
       SendFails, Flush, PollReturnTopics, SettleSatisfied, SettleDeadline,
       PutArtefact, Exit, Die
  <2>2. QED
    BY <1>1, <2>1
<1>5. QED
  BY <1>3, <1>4 DEF Next

-----------------------------------------------------------------------------
(* The settle loop.                                                        *)

(* What one batch leaves in the three sets: only keys that are published,  *)
(* each with a verdict of this run behind it.                              *)
LEMMA BatchIsEvidence ==
    ASSUME TypeOK, Evidence,
           NEW hiC \in Batches(Keys, confirmations, readC),
           NEW hiR \in Batches(Keys, rejections, readR),
           NEW rejLast \in SUBSET Keys,
           ReadBatch(hiC, hiR, rejLast)
    PROVE  /\ confirmed' \subseteq published
           /\ duplicates' \subseteq published
           /\ rejected' \subseteq published
           /\ \A k \in confirmed' : SaidOutcome(k, "created")
           /\ \A k \in duplicates' : SaidOutcome(k, "duplicate")
           /\ \A k \in rejected' : SaidRejected(k)
           /\ readC' \in [Keys -> Nat]
           /\ readR' \in [Keys -> Nat]
<1> DEFINE told(k) == OfThisRun(confirmations, k, readC[k], hiC[k])
           refused == {k \in published : OfThisRun(rejections, k, readR[k], hiR[k]) # {}}
           spoken == {k \in published : told(k) # {}}
           standing == spoken \ (refused \cap rejLast)
           saying(o) == {k \in standing :
               \E i \in told(k) : /\ \A j \in told(k) : j <= i
                                  /\ confirmations[k][i].outcome = o}
<1>1. /\ readC' = hiC /\ readR' = hiR
      /\ rejected' = rejected \cup refused
      /\ confirmed' = (confirmed \ (spoken \cup refused)) \cup saying("created")
      /\ duplicates' = (duplicates \ (spoken \cup refused)) \cup saying("duplicate")
  BY Zenon DEF ReadBatch
<1>2. /\ readC \in [Keys -> Nat] /\ readR \in [Keys -> Nat]
      /\ published \in SUBSET Keys
      /\ \A k \in Keys : /\ confirmations[k] \in Seq(Confirmation)
                         /\ rejections[k] \in Seq(Rejection)
                         /\ Len(confirmations[k]) \in Nat
                         /\ Len(rejections[k]) \in Nat
  BY DEF TypeOK, LoaderTypeOK, TargetTypeOK, Lanes
<1>2a. /\ hiC \in [Keys -> Nat] /\ hiR \in [Keys -> Nat]
       /\ \A k \in Keys : /\ hiC[k] <= Len(confirmations[k])
                          /\ hiR[k] <= Len(rejections[k])
  BY <1>2, BatchBounds
<1>3. ASSUME NEW k \in Keys, NEW i \in told(k)
      PROVE  /\ i \in 1..Len(confirmations[k])
             /\ confirmations[k][i].run = ThisRun
  <2>1. /\ i \in (readC[k] + 1)..hiC[k]
        /\ confirmations[k][i].run = ThisRun
    BY <1>3 DEF OfThisRun
  <2>2. /\ readC[k] \in Nat /\ hiC[k] \in Nat /\ Len(confirmations[k]) \in Nat
        /\ hiC[k] <= Len(confirmations[k])
    BY <1>2, <1>2a
  <2>3. QED
    BY <2>1, <2>2
<1>4. ASSUME NEW o, NEW k \in saying(o) PROVE k \in published /\ SaidOutcome(k, o)
  <2>1. k \in published /\ k \in Keys
    BY <1>2
  <2>2. PICK i \in told(k) : confirmations[k][i].outcome = o
    OBVIOUS
  <2>3. /\ i \in 1..Len(confirmations[k])
        /\ confirmations[k][i].run = ThisRun
    BY <1>3, <2>1
  <2>4. confirmations[k][i] \in Confirmation
    BY <1>2, <2>1, <2>3
  <2>5. confirmations[k][i] = [run |-> ThisRun, outcome |-> o]
    BY <2>2, <2>3, <2>4 DEF Confirmation
  <2>6. QED
    BY <2>1, <2>3, <2>5 DEF SaidOutcome
<1>5. ASSUME NEW k \in refused PROVE k \in published /\ SaidRejected(k)
  <2>1. k \in published /\ k \in Keys
    BY <1>2
  <2>2. PICK i \in (readR[k] + 1)..hiR[k] : rejections[k][i].run = ThisRun
    BY DEF OfThisRun
  <2>3. /\ readR[k] \in Nat /\ hiR[k] \in Nat /\ Len(rejections[k]) \in Nat
        /\ hiR[k] <= Len(rejections[k])
    BY <1>2, <1>2a, <2>1
  <2>5. i \in 1..Len(rejections[k])
    BY <2>2, <2>3
  <2>6. QED
    BY <2>1, <2>2, <2>5 DEF SaidRejected
<1> HIDE DEF saying, refused, spoken
<1>6. /\ confirmed' \subseteq published
      /\ \A k \in confirmed' : SaidOutcome(k, "created")
  BY <1>1, <1>4 DEF Evidence, Settled
<1>7. /\ duplicates' \subseteq published
      /\ \A k \in duplicates' : SaidOutcome(k, "duplicate")
  BY <1>1, <1>4 DEF Evidence, Settled
<1>8. /\ rejected' \subseteq published
      /\ \A k \in rejected' : SaidRejected(k)
  BY <1>1, <1>5 DEF Evidence, Settled
<1>9. readC' \in [Keys -> Nat] /\ readR' \in [Keys -> Nat]
  BY <1>1, <1>2a
<1>10. QED
  BY <1>6, <1>7, <1>8, <1>9

(* The loader's variables keep their types.                                *)
LEMMA LoaderTyped ==
    ASSUME TypeOK, Evidence, [Next]_vars
    PROVE  LoaderTypeOK'
<1>0. LoaderTypeOK
  BY DEF TypeOK
<1> USE DEF LoaderTypeOK
<1>1. CASE BeginAttempt
  BY <1>0, <1>1 DEF BeginAttempt, States
<1>2. CASE Offer
  <2>1. line' \in 0..Len(Lines) /\ Len(Lines) \in Nat /\ line + 1 \in 1..Len(Lines)
    BY <1>0, <1>2, LinesAreDocuments DEF Offer, RefuseLine, Publish
  <2>2. Lines[line + 1] \in Keys \cup {Malformed}
    BY <2>1, LinesAreDocuments
  <2>3. errors' \in Nat /\ published' \in SUBSET Keys
    BY <1>0, <1>2, <2>2 DEF Offer, RefuseLine, Publish
  <2>4. sending' \in [Keys -> Nat]
    BY <1>0, <1>2, <2>2 DEF Offer, RefuseLine, Publish
  <2>5. QED
    BY <1>0, <1>2, <2>1, <2>3, <2>4 DEF Offer, RefuseLine, Publish, loopVars
<1>3. ASSUME NEW k \in Keys, SendCompletes(k) \/ SendFails(k) PROVE LoaderTypeOK'
  <2>1. /\ sending' = [sending EXCEPT ![k] = @ - 1]
        /\ sending[k] > 0
        /\ UNCHANGED <<pc, attempt, line, errors, published, readC, readR, confirmed,
                       duplicates, rejected, stopped, artefacts, put>>
    BY <1>3 DEF SendCompletes, SendFails, loopVars
  <2>2. sending[k] - 1 \in Nat
    BY <1>0, <2>1
  <2>3. sending' \in [Keys -> Nat]
    BY <1>0, <2>1, <2>2
  <2>4. QED
    BY <1>0, <2>1, <2>3
<1>4. CASE Flush
  BY <1>0, <1>4 DEF Flush, States, sinkVars, loopVars
<1>5. CASE PollReturnTopics
  <2>1. PICK hiC \in Batches(Keys, confirmations, readC),
             hiR \in Batches(Keys, rejections, readR) :
            \E rejLast \in SUBSET Keys : ReadBatch(hiC, hiR, rejLast)
    BY <1>5 DEF PollReturnTopics
  <2>2. PICK rejLast \in SUBSET Keys : ReadBatch(hiC, hiR, rejLast)
    BY <2>1
  <2>3. /\ confirmed' \subseteq published /\ duplicates' \subseteq published
        /\ rejected' \subseteq published
        /\ readC' \in [Keys -> Nat] /\ readR' \in [Keys -> Nat]
    BY <2>2, BatchIsEvidence
  <2>4. UNCHANGED <<pc, attempt, line, errors, published, sending, stopped,
                    artefacts, put>>
    BY <1>5 DEF PollReturnTopics, sinkVars
  <2>5. QED
    BY <1>0, <2>3, <2>4
<1>6. CASE SettleSatisfied \/ SettleDeadline
  BY <1>0, <1>6 DEF SettleSatisfied, SettleDeadline, States, sinkVars, loopVars
<1>7. CASE PutArtefact
  <2>1. put' \in 0..4
    BY <1>0, <1>7 DEF PutArtefact
  <2>2. artefacts' \in [Artefacts -> Nat]
    <3>1. artefacts' = [artefacts EXCEPT ![ArtefactOrder[put + 1]] = attempt]
      BY <1>7 DEF PutArtefact
    <3>2. QED
      BY <1>0, <3>1
  <2>3. QED
    BY <1>0, <1>7, <2>1, <2>2 DEF PutArtefact, sinkVars, loopVars
<1>8. CASE Exit
  BY <1>0, <1>8 DEF Exit, States, sinkVars, loopVars
<1>9. CASE Die
  <2>1. sending' \in [Keys -> Nat]
    BY <1>9 DEF Die
  <2>2. QED
    BY <1>0, <1>9, <2>1 DEF Die, States, loopVars
<1>10. CASE UNCHANGED loaderVars
  BY <1>0, <1>10 DEF loaderVars, sinkVars, loopVars
<1>11. QED
  BY <1>1, <1>2, <1>3, <1>4, <1>5, <1>6, <1>7, <1>8, <1>9, <1>10
     DEF Next, LoaderNext, vars

-----------------------------------------------------------------------------
(* The tally.                                                              *)

(* The size of a disjoint union.                                           *)
LEMMA DisjointUnion ==
    ASSUME NEW S, NEW T, IsFiniteSet(S), IsFiniteSet(T), S \cap T = {}
    PROVE  /\ IsFiniteSet(S \cup T)
           /\ Cardinality(S \cup T) = Cardinality(S) + Cardinality(T)
<1>1. Cardinality(S \cap T) = 0
  BY FS_EmptySet
<1>2. Cardinality(S) \in Nat /\ Cardinality(T) \in Nat
  BY FS_CardinalityType
<1>3. /\ IsFiniteSet(S \cup T)
      /\ Cardinality(S \cup T) = Cardinality(S) + Cardinality(T) - Cardinality(S \cap T)
  BY FS_Union
<1>4. QED
  BY <1>1, <1>2, <1>3

(* The three classes of settleAgainst are disjoint parts of published, so  *)
(* the subtraction counts exactly the keys in none of the three sets.      *)
LEMMA UnsettledCounts ==
    ASSUME TypeOK
    PROVE  /\ Unsettled = Cardinality(published \ Settled)
           /\ IsFiniteSet(published \ Settled)
           /\ Unsettled \in Nat
<1>1. IsFiniteSet(published)
  BY KeysFinite, FS_Subset DEF TypeOK, LoaderTypeOK
<1>2. /\ Accepted \subseteq published /\ Duplicates \subseteq published
      /\ Rejected \subseteq published
      /\ Accepted \cap Duplicates = {}
      /\ (Accepted \cup Duplicates) \cap Rejected = {}
      /\ published \cap Settled = (Accepted \cup Duplicates) \cup Rejected
  BY DEF Accepted, Duplicates, Rejected, Settled
<1>3. /\ IsFiniteSet(Accepted) /\ IsFiniteSet(Duplicates) /\ IsFiniteSet(Rejected)
      /\ Cardinality(Accepted) \in Nat /\ Cardinality(Duplicates) \in Nat
      /\ Cardinality(Rejected) \in Nat /\ Cardinality(published) \in Nat
  BY <1>1, <1>2, FS_Subset, FS_CardinalityType
<1>4. /\ IsFiniteSet(Accepted \cup Duplicates)
      /\ Cardinality(Accepted \cup Duplicates)
           = Cardinality(Accepted) + Cardinality(Duplicates)
  BY <1>2, <1>3, DisjointUnion
<1>5. Cardinality((Accepted \cup Duplicates) \cup Rejected)
           = Cardinality(Accepted) + Cardinality(Duplicates) + Cardinality(Rejected)
  BY <1>2, <1>3, <1>4, DisjointUnion
<1>6. /\ IsFiniteSet(published \ Settled)
      /\ Cardinality(published \ Settled)
           = Cardinality(published) - Cardinality(published \cap Settled)
  BY <1>1, FS_Difference
<1>7. Cardinality(published \ Settled) \in Nat
  BY <1>6, FS_CardinalityType
<1>8. Cardinality(published \ Settled)
           = Cardinality(published)
               - (Cardinality(Accepted) + Cardinality(Duplicates) + Cardinality(Rejected))
  BY <1>2, <1>5, <1>6
<1>9. Unsettled = Cardinality(published \ Settled)
  BY <1>3, <1>8 DEF Unsettled
<1>10. QED
  BY <1>6, <1>7, <1>9

(* Nothing unsettled means every published key is in one of the sets.      *)
LEMMA NothingUnsettled ==
    ASSUME TypeOK, Unsettled <= 0
    PROVE  published \subseteq Settled
<1>1. Cardinality(published \ Settled) = 0
  BY UnsettledCounts
<1>2. published \ Settled = {}
  BY <1>1, UnsettledCounts, FS_EmptySet
<1>3. QED
  BY <1>2

(* Every step keeps the evidence.                                          *)
LEMMA EvidenceStep ==
    ASSUME TypeOK, OffsetsInOrder, Evidence, [Next]_vars
    PROVE  Evidence'
<1> DEFINE Sets == <<published, confirmed, duplicates, rejected>>
           Backed == /\ Settled \subseteq published
                     /\ \A k \in confirmed : SaidOutcome(k, "created")
                     /\ \A k \in duplicates : SaidOutcome(k, "duplicate")
                     /\ \A k \in rejected : SaidRejected(k)
<1>1. /\ published \subseteq Keys /\ confirmed \subseteq Keys
      /\ duplicates \subseteq Keys /\ rejected \subseteq Keys
      /\ TargetTypeOK
  BY DEF TypeOK, LoaderTypeOK
<1>2. \A k \in Keys : /\ SaidOutcome(k, "created") => SaidOutcome(k, "created")'
                      /\ SaidOutcome(k, "duplicate") => SaidOutcome(k, "duplicate")'
                      /\ SaidRejected(k) => SaidRejected(k)'
  BY <1>1, SaidStays DEF Outcomes
<1>3. ASSUME Settled' \subseteq published', confirmed' \subseteq confirmed,
             duplicates' \subseteq duplicates, rejected' \subseteq rejected
      PROVE  Backed'
  BY <1>1, <1>2, <1>3 DEF Evidence
<1>4. CASE UNCHANGED Sets /\ pc' = pc
  <2>1. Backed'
    BY <1>3, <1>4 DEF Evidence, Settled
  <2>2. Unsettled' = Unsettled
    BY <1>4 DEF Unsettled, Accepted, Duplicates, Rejected
  <2>3. QED
    BY <1>4, <2>1, <2>2 DEF Evidence
<1>5. CASE UNCHANGED Sets /\ pc' # "succeeded"
  <2>1. Backed'
    BY <1>3, <1>5 DEF Evidence, Settled
  <2>2. QED
    BY <1>5, <2>1 DEF Evidence
<1>6. CASE BeginAttempt
  <2>1. /\ confirmed' = {} /\ duplicates' = {} /\ rejected' = {}
        /\ pc' # "succeeded"
    BY <1>6 DEF BeginAttempt
  <2>2. QED
    BY <2>1 DEF Evidence, Settled
<1>7. CASE Offer
  <2>1. /\ published \subseteq published'
        /\ UNCHANGED <<confirmed, duplicates, rejected>>
        /\ pc' # "succeeded"
    BY <1>7 DEF Offer, RefuseLine, Publish, loopVars
  <2>2. Backed'
    BY <1>3, <2>1 DEF Evidence, Settled
  <2>3. QED
    BY <2>1, <2>2 DEF Evidence
<1>8. CASE PollReturnTopics
  <2>1. PICK hiC \in Batches(Keys, confirmations, readC),
             hiR \in Batches(Keys, rejections, readR) :
            \E rejLast \in SUBSET Keys : ReadBatch(hiC, hiR, rejLast)
    BY <1>8 DEF PollReturnTopics
  <2>2. PICK rejLast \in SUBSET Keys : ReadBatch(hiC, hiR, rejLast)
    BY <2>1
  <2>3. UNCHANGED <<pc, published, confirmations, rejections>> /\ pc # "succeeded"
    BY <1>8 DEF PollReturnTopics, sinkVars, mockVars, topics
  <2>4. /\ confirmed' \subseteq published
        /\ duplicates' \subseteq published
        /\ rejected' \subseteq published
        /\ \A k \in confirmed' : SaidOutcome(k, "created")
        /\ \A k \in duplicates' : SaidOutcome(k, "duplicate")
        /\ \A k \in rejected' : SaidRejected(k)
    BY <2>2, BatchIsEvidence
  <2>5. Backed'
    BY <2>3, <2>4 DEF Settled, SaidOutcome, SaidRejected
  <2>6. QED
    BY <2>3, <2>5 DEF Evidence
<1>9. CASE Exit
  <2>1. UNCHANGED Sets /\ pc' = IF Unsettled > 0 THEN "failed" ELSE "succeeded"
    BY <1>9 DEF Exit, sinkVars, loopVars
  <2>2. Backed'
    BY <1>3, <2>1 DEF Evidence, Settled
  <2>3. Unsettled' = Unsettled
    BY <2>1 DEF Unsettled, Accepted, Duplicates, Rejected
  <2>4. Unsettled \in Nat
    BY UnsettledCounts
  <2>5. pc' = "succeeded" => Unsettled' <= 0
    BY <2>1, <2>3, <2>4
  <2>6. QED
    BY <2>2, <2>5 DEF Evidence
<1>10. CASE (TargetStep /\ UNCHANGED loaderVars) \/ UNCHANGED vars
  BY <1>4, <1>10 DEF vars, loaderVars, sinkVars, loopVars
<1>11. CASE Flush \/ SettleSatisfied \/ SettleDeadline \/ PutArtefact \/ Die
  <2>1. UNCHANGED Sets /\ pc' # "succeeded"
    BY <1>11 DEF Flush, SettleSatisfied, SettleDeadline, PutArtefact, Die, sinkVars, loopVars
  <2>2. QED
    BY <1>5, <2>1
<1>12. ASSUME NEW k \in Keys, SendCompletes(k) \/ SendFails(k) PROVE Evidence'
  <2>1. UNCHANGED Sets /\ pc' = pc
    BY <1>12 DEF SendCompletes, SendFails, loopVars
  <2>2. QED
    BY <1>4, <2>1
<1>13. QED
  BY <1>6, <1>7, <1>8, <1>9, <1>10, <1>11, <1>12 DEF Next, LoaderNext

-----------------------------------------------------------------------------
(* The artefacts.                                                          *)

(* Every step keeps the artefacts in order.                                *)
LEMMA ArtefactsInOrderStep ==
    ASSUME TypeOK, ArtefactsInOrder, [Next]_vars
    PROVE  ArtefactsInOrder'
<1>1. /\ artefacts \in [Artefacts -> Nat] /\ attempt \in Nat /\ put \in 0..4
      /\ pc \in States
  BY DEF TypeOK, LoaderTypeOK
<1>2. CASE UNCHANGED <<pc, attempt, artefacts, put>>
  BY <1>2 DEF ArtefactsInOrder
<1>3. CASE BeginAttempt
  BY <1>1, <1>3 DEF BeginAttempt, ArtefactsInOrder
<1>4. CASE Flush \/ SettleSatisfied \/ SettleDeadline \/ Die
  <2>1. /\ UNCHANGED <<attempt, artefacts, put>>
        /\ pc' \in {"settling", "writing"} => pc \in {"offering", "settling"}
        /\ pc' \notin {"offering", "succeeded", "failed"}
    BY <1>4 DEF Flush, SettleSatisfied, SettleDeadline, Die
  <2>2. QED
    BY <1>1, <2>1 DEF ArtefactsInOrder
<1>5. CASE PutArtefact
  <2>1. /\ pc = "writing" /\ pc' = pc /\ attempt' = attempt
        /\ put \in 0..3 /\ put' = put + 1
        /\ artefacts' = [artefacts EXCEPT ![ArtefactOrder[put + 1]] = attempt]
    BY <1>1, <1>5 DEF PutArtefact
  <2>2. /\ put = 0 => ArtefactOrder[put + 1] = "CHS"
        /\ put = 1 => ArtefactOrder[put + 1] = "ERR"
        /\ put = 2 => ArtefactOrder[put + 1] = "RPT"
        /\ put = 3 => ArtefactOrder[put + 1] = "FLG"
    BY DEF ArtefactOrder
  <2>3. \A a \in Artefacts :
            artefacts'[a] = IF a = ArtefactOrder[put + 1] THEN attempt ELSE artefacts[a]
    BY <1>1, <2>1
  <2>4. CASE put = 0
    BY <1>1, <2>1, <2>2, <2>3, <2>4 DEF ArtefactsInOrder, Artefacts
  <2>5. CASE put = 1
    BY <1>1, <2>1, <2>2, <2>3, <2>5 DEF ArtefactsInOrder, Artefacts
  <2>6. CASE put = 2
    BY <1>1, <2>1, <2>2, <2>3, <2>6 DEF ArtefactsInOrder, Artefacts
  <2>7. CASE put = 3
    BY <1>1, <2>1, <2>2, <2>3, <2>7 DEF ArtefactsInOrder, Artefacts
  <2>8. QED
    BY <2>1, <2>4, <2>5, <2>6, <2>7
<1>6. CASE Exit
  <2>1. /\ pc = "writing" /\ put = 4
        /\ UNCHANGED <<attempt, artefacts, put>>
        /\ pc' \in {"succeeded", "failed"}
    BY <1>6 DEF Exit
  <2>2. \A a \in Artefacts : artefacts[a] = attempt
    BY <2>1 DEF ArtefactsInOrder, Artefacts
  <2>3. QED
    BY <1>1, <2>1, <2>2 DEF ArtefactsInOrder
<1>7. CASE Offer \/ PollReturnTopics
  BY <1>2, <1>7 DEF Offer, RefuseLine, Publish, PollReturnTopics
<1>8. ASSUME NEW k \in Keys, SendCompletes(k) \/ SendFails(k) PROVE ArtefactsInOrder'
  BY <1>2, <1>8 DEF SendCompletes, SendFails
<1>9. CASE (TargetStep /\ UNCHANGED loaderVars) \/ UNCHANGED vars
  BY <1>2, <1>9 DEF vars, loaderVars
<1>10. QED
  BY <1>3, <1>4, <1>5, <1>6, <1>7, <1>8, <1>9 DEF Next, LoaderNext

-----------------------------------------------------------------------------
(* The theorems.                                                           *)

(* LoaderInv is inductive.                                                 *)
THEOREM LoaderInvariant == Spec => []LoaderInv
<1>1. Init => LoaderInv
  <2> SUFFICES ASSUME Init PROVE LoaderInv
    OBVIOUS
  <2>1. IntakeInv
    BY IntakeInvInit DEF Init
  <2>2. LoaderTypeOK
    BY LinesAreDocuments DEF Init, LoaderInit, LoaderTypeOK, States
  <2>3. Evidence
    BY DEF Init, LoaderInit, Evidence, Settled
  <2>4. ArtefactsInOrder
    BY DEF Init, LoaderInit, ArtefactsInOrder, Artefacts
  <2>5. QED
    BY <2>1, <2>2, <2>3, <2>4 DEF LoaderInv, IntakeInv, TypeOK
<1>2. LoaderInv /\ [Next]_vars => LoaderInv'
  <2> SUFFICES ASSUME LoaderInv, [Next]_vars PROVE LoaderInv'
    OBVIOUS
  <2>1. TypeOK /\ TargetTypeOK /\ OffsetsInOrder /\ KeysInv /\ Evidence /\ ArtefactsInOrder
    BY DEF LoaderInv, TypeOK, KeysInv
  <2>2. TargetTypeOK' /\ OffsetsInOrder' /\ KeysInv'
    BY <2>1, NextKeepsMock
  <2>3. LoaderTypeOK'
    BY <2>1, LoaderTyped
  <2>4. Evidence'
    BY <2>1, EvidenceStep
  <2>5. ArtefactsInOrder'
    BY <2>1, ArtefactsInOrderStep
  <2>6. QED
    BY <2>2, <2>3, <2>4, <2>5 DEF LoaderInv, TypeOK, KeysInv
<1>3. QED
  BY <1>1, <1>2, PTL DEF Spec

(* Every variable keeps its type.                                          *)
THEOREM TypeCorrect == Spec => []TypeOK
<1>1. LoaderInv => TypeOK
  BY DEF LoaderInv
<1>2. QED
  BY <1>1, LoaderInvariant, PTL

(* An exit code of 0 means a verdict of this run for every published key,  *)
(* for every number of keys, lines, attempts, restarts and lost verdicts.  *)
THEOREM LoaderCleanExitAnswered == Spec => []CleanExitAnswered
<1>1. LoaderInv => CleanExitAnswered
  BY NothingUnsettled DEF LoaderInv, Evidence, CleanExitAnswered, Settled
<1>2. QED
  BY <1>1, LoaderInvariant, PTL

(* What the report calls unsettled is exactly the published keys in none   *)
(* of the three sets.                                                      *)
THEOREM LoaderUnsettledIsExact == Spec => []UnsettledIsExact
<1>1. LoaderInv => UnsettledIsExact
  BY UnsettledCounts DEF LoaderInv, UnsettledIsExact, Settled
<1>2. QED
  BY <1>1, LoaderInvariant, PTL

(* What the loader counts as accepted or duplicate, the Target System      *)
(* holds, while it keeps its memory.                                       *)
THEOREM LoaderCountedIsHeld == Spec => []CountedIsHeld
<1>1. LoaderInv => CountedIsHeld
  <2> SUFFICES ASSUME LoaderInv, restarts + resets = 0, NEW k \in Accepted \cup Duplicates
               PROVE  k \in idempotency
    BY DEF CountedIsHeld
  <2>1. k \in confirmed \/ k \in duplicates
    BY DEF Accepted, Duplicates
  <2>2. \E i \in 1..Len(confirmations[k]) : TRUE
    BY <2>1 DEF LoaderInv, Evidence, SaidOutcome
  <2>3. k \in Keys
    BY <2>1 DEF LoaderInv, TypeOK, LoaderTypeOK
  <2>4. confirmations[k] # <<>>
    BY <2>2
  <2>5. QED
    BY <2>3, <2>4 DEF LoaderInv, ConfirmedIsHeld
<1>2. QED
  BY <1>1, LoaderInvariant, PTL

(* The semaphore is never ahead of the artefacts it announces.             *)
THEOREM LoaderFlagNeverAhead == Spec => []FlagNeverAhead
<1>1. LoaderInv => FlagNeverAhead
  <2> SUFFICES ASSUME LoaderInv PROVE FlagNeverAhead
    OBVIOUS
  <2>1. artefacts \in [Artefacts -> Nat] /\ "FLG" \in Artefacts
    BY DEF LoaderInv, TypeOK, LoaderTypeOK, Artefacts
  <2>2. QED
    BY <2>1 DEF LoaderInv, ArtefactsInOrder, FlagNeverAhead
<1>2. QED
  BY <1>1, LoaderInvariant, PTL

-----------------------------------------------------------------------------
(* The settle loop's three sets.                                           *)

(* The order of the naturals, as the relation the library speaks of.       *)
LEMMA LessThanOnNat == \A x, y \in Nat : x < y => <<x, y>> \in OpToRel(<, Nat)
  BY Zenon DEF OpToRel

(* A set of naturals that is not empty has a least member.                 *)
LEMMA LeastExists ==
    ASSUME NEW S \in SUBSET Nat, S # {}
    PROVE  \E m \in S : \A i \in S : m <= i
<1>1. PICK m \in S : \A i \in S : ~(<<i, m>> \in OpToRel(<, Nat))
  BY NatLessThanWellFounded, WFMin, Zenon
<1>2. \A i \in S : ~(i < m)
  BY <1>1, LessThanOnNat
<1>3. QED
  BY <1>2

(* One that is bounded has a greatest member.                              *)
LEMMA GreatestExists ==
    ASSUME NEW S \in SUBSET Nat, S # {}, NEW b \in Nat, \A i \in S : i <= b
    PROVE  \E m \in S : \A i \in S : i <= m
<1> DEFINE T == {b - i : i \in S}
<1>1. \A i \in S : b - i \in Nat
  OBVIOUS
<1>2. T \in SUBSET Nat
  BY <1>1
<1>3. T # {}
  <2>1. PICK i \in S : TRUE
    OBVIOUS
  <2>2. b - i \in T
    BY <2>1
  <2>3. QED
    BY <2>2
<1>4. \E d \in T : \A e \in T : d <= e
  <2> HIDE DEF T
  <2>1. QED
    BY <1>2, <1>3, LeastExists
<1>5. PICK m \in S : \A e \in T : b - m <= e
  BY <1>4
<1>6. \A i \in S : b - m <= b - i
  BY <1>5
<1>7. QED
  BY <1>6

(* A batch takes no verdict back, and leaves no key both confirmed and     *)
(* duplicate: the last confirmation of the batch decides.                  *)
LEMMA BatchKeepsVerdicts ==
    ASSUME TypeOK,
           NEW hiC \in Batches(Keys, confirmations, readC),
           NEW hiR \in Batches(Keys, rejections, readR),
           NEW rejLast \in SUBSET Keys,
           ReadBatch(hiC, hiR, rejLast)
    PROVE  /\ Settled \subseteq Settled'
           /\ rejected \subseteq rejected'
           /\ confirmed \cap duplicates = {} => confirmed' \cap duplicates' = {}
<1> DEFINE told(k) == OfThisRun(confirmations, k, readC[k], hiC[k])
           refused == {k \in published : OfThisRun(rejections, k, readR[k], hiR[k]) # {}}
           spoken == {k \in published : told(k) # {}}
           standing == spoken \ (refused \cap rejLast)
           saying(o) == {k \in standing :
               \E i \in told(k) : /\ \A j \in told(k) : j <= i
                                  /\ confirmations[k][i].outcome = o}
<1>1. /\ rejected' = rejected \cup refused
      /\ confirmed' = (confirmed \ (spoken \cup refused)) \cup saying("created")
      /\ duplicates' = (duplicates \ (spoken \cup refused)) \cup saying("duplicate")
  BY Zenon DEF ReadBatch
<1>2. /\ readC \in [Keys -> Nat]
      /\ published \in SUBSET Keys
      /\ \A k \in Keys : /\ confirmations[k] \in Seq(Confirmation)
                         /\ Len(confirmations[k]) \in Nat
  BY DEF TypeOK, LoaderTypeOK, TargetTypeOK, Lanes
<1>3. hiC \in [Keys -> Nat] /\ \A k \in Keys : hiC[k] <= Len(confirmations[k])
  BY <1>2, BatchBounds
<1>4. ASSUME NEW k \in Keys
      PROVE  /\ told(k) \in SUBSET Nat
             /\ \A i \in told(k) : i <= hiC[k] /\ i \in 1..Len(confirmations[k])
  <2>1. /\ readC[k] \in Nat /\ hiC[k] \in Nat /\ Len(confirmations[k]) \in Nat
        /\ hiC[k] <= Len(confirmations[k])
    BY <1>2, <1>3
  <2>2. told(k) \subseteq (readC[k] + 1)..hiC[k]
    BY DEF OfThisRun
  <2>3. QED
    BY <2>1, <2>2
<1>5. ASSUME NEW k \in standing
      PROVE  k \in saying("created") \/ k \in saying("duplicate")
  <2>1. k \in Keys /\ told(k) # {}
    BY <1>2
  <2>2. told(k) \in SUBSET Nat /\ hiC[k] \in Nat /\ \A i \in told(k) : i <= hiC[k]
    BY <1>3, <1>4, <2>1
  <2>3. PICK m \in told(k) : \A i \in told(k) : i <= m
    <3> HIDE DEF told
    <3>1. QED
      BY <2>1, <2>2, GreatestExists
  <2>4. m \in 1..Len(confirmations[k])
    BY <1>4, <2>1
  <2>5. confirmations[k] \in Seq(Confirmation)
    BY <1>2, <2>1
  <2>6. confirmations[k][m].outcome \in Outcomes
    <3>1. confirmations[k][m] \in Confirmation
      <4> HIDE DEF told
      <4>1. QED
        BY <2>4, <2>5
    <3>2. QED
      BY <3>1 DEF Confirmation
  <2>7. \/ confirmations[k][m].outcome = "created"
        \/ confirmations[k][m].outcome = "duplicate"
    BY <2>6 DEF Outcomes
  <2>8. QED
    BY <2>3, <2>7
<1>6. saying("created") \cap saying("duplicate") = {}
  <2>1. SUFFICES ASSUME NEW k \in saying("created"), k \in saying("duplicate")
                 PROVE  FALSE
    OBVIOUS
  <2>2. PICK i \in told(k) : /\ \A j \in told(k) : j <= i
                             /\ confirmations[k][i].outcome = "created"
    OBVIOUS
  <2>3. PICK j \in told(k) : /\ \A n \in told(k) : n <= j
                             /\ confirmations[k][j].outcome = "duplicate"
    BY <2>1
  <2>4. i \in Nat /\ j \in Nat
    BY <1>2, <1>4, <2>2, <2>3
  <2>5. i = j
    BY <2>2, <2>3, <2>4
  <2>6. QED
    BY <2>2, <2>3, <2>5
<1>7. /\ saying("created") \subseteq spoken
      /\ saying("duplicate") \subseteq spoken
      /\ spoken \subseteq standing \cup refused
  OBVIOUS
<1> HIDE DEF saying, standing, refused, spoken
<1>8. Settled \subseteq Settled'
  BY <1>1, <1>5, <1>7 DEF Settled
<1>9. confirmed \cap duplicates = {} => confirmed' \cap duplicates' = {}
  BY <1>1, <1>6, <1>7
<1>10. QED
  BY <1>1, <1>8, <1>9

(* Only the loop's steps and a new attempt touch the three sets.           *)
LEMMA SetsUntouched ==
    ASSUME [Next]_vars, ~PollReturnTopics, ~BeginAttempt
    PROVE  UNCHANGED loopVars
  BY DEF Next, LoaderNext, vars, loaderVars, Offer, SendCompletes, SendFails, Flush,
     SettleSatisfied, SettleDeadline, PutArtefact, Exit, Die

(* What makes SatisfiedUnlessRejected inductive: no key is both confirmed  *)
(* and duplicate, so the loop's count of the three sets counts no key      *)
(* twice unless it was rejected, and the reason is set once per attempt.   *)
SettleInv ==
    /\ confirmed \cap duplicates = {}
    /\ pc \in {"idle", "offering", "settling"} => stopped = "no"
    /\ SatisfiedUnlessRejected

(* The count of the three sets, when it has reached the published keys.    *)
LEMMA SatisfiedCounts ==
    ASSUME TypeOK, Settled \subseteq published, confirmed \cap duplicates = {},
           rejected = {}, ~Unsatisfied
    PROVE  published \subseteq confirmed \cup duplicates
<1>1. IsFiniteSet(published)
  BY KeysFinite, FS_Subset DEF TypeOK, LoaderTypeOK
<1>2. /\ confirmed \subseteq published /\ duplicates \subseteq published
      /\ confirmed \cup duplicates \subseteq published
  BY DEF Settled
<1>3. /\ IsFiniteSet(confirmed) /\ IsFiniteSet(duplicates)
      /\ Cardinality(confirmed) \in Nat /\ Cardinality(duplicates) \in Nat
      /\ Cardinality(published) \in Nat
  BY <1>1, <1>2, FS_Subset, FS_CardinalityType
<1>4. Cardinality(confirmed \cup duplicates)
           = Cardinality(confirmed) + Cardinality(duplicates)
  BY <1>3, DisjointUnion
<1>5. Cardinality(rejected) = 0
  BY FS_EmptySet
<1>6. Cardinality(published) <= Cardinality(confirmed \cup duplicates)
  BY <1>3, <1>4, <1>5 DEF Unsatisfied
<1>7. /\ Cardinality(confirmed \cup duplicates) <= Cardinality(published)
      /\ Cardinality(confirmed \cup duplicates) = Cardinality(published)
            => confirmed \cup duplicates = published
  BY <1>1, <1>2, FS_Subset
<1>8. QED
  BY <1>3, <1>4, <1>6, <1>7

(* Every step keeps SettleInv.                                             *)
LEMMA SettleInvStep ==
    ASSUME TypeOK, Evidence, SettleInv, [Next]_vars
    PROVE  SettleInv'
<1>1. Settled \subseteq published
  BY DEF Evidence
<1>2. CASE BeginAttempt
  BY <1>2 DEF BeginAttempt, SettleInv, SatisfiedUnlessRejected
<1>3. CASE PollReturnTopics
  <2>1. PICK hiC \in Batches(Keys, confirmations, readC),
             hiR \in Batches(Keys, rejections, readR) :
            \E rejLast \in SUBSET Keys : ReadBatch(hiC, hiR, rejLast)
    BY <1>3 DEF PollReturnTopics
  <2>2. PICK rejLast \in SUBSET Keys : ReadBatch(hiC, hiR, rejLast)
    BY <2>1
  <2>3. confirmed' \cap duplicates' = {}
    BY <2>2, BatchKeepsVerdicts DEF SettleInv
  <2>4. pc = "settling" /\ pc' = pc /\ stopped' = stopped
    BY <1>3 DEF PollReturnTopics
  <2>5. QED
    BY <2>3, <2>4 DEF SettleInv, SatisfiedUnlessRejected
<1>4. CASE SettleSatisfied
  <2>1. ~Unsatisfied /\ UNCHANGED <<published, confirmed, duplicates, rejected>>
        /\ pc' = "writing"
    BY <1>4 DEF SettleSatisfied, sinkVars, loopVars
  <2>2. rejected = {} => published \subseteq confirmed \cup duplicates
    BY <1>1, <2>1, SatisfiedCounts DEF SettleInv
  <2>3. QED
    BY <2>1, <2>2 DEF SettleInv, SatisfiedUnlessRejected
<1>5. CASE SettleDeadline
  BY <1>5 DEF SettleDeadline, SettleInv, SatisfiedUnlessRejected, sinkVars, loopVars
<1>6. CASE Offer
  BY <1>6 DEF Offer, SettleInv, SatisfiedUnlessRejected, loopVars
<1>7. CASE Flush \/ PutArtefact \/ Exit \/ Die
  <2>1. /\ UNCHANGED <<published, confirmed, duplicates, rejected, stopped>>
        /\ pc' \in {"idle", "offering", "settling"} => pc \in {"idle", "offering", "settling"}
    BY <1>7 DEF Flush, PutArtefact, Exit, Die, sinkVars, loopVars
  <2>2. QED
    BY <2>1 DEF SettleInv, SatisfiedUnlessRejected
<1>8. CASE UNCHANGED <<pc, published, loopVars, stopped>>
  BY <1>8 DEF SettleInv, SatisfiedUnlessRejected, loopVars
<1>9. QED
  BY <1>2, <1>3, <1>4, <1>5, <1>6, <1>7, <1>8
     DEF Next, LoaderNext, vars, loaderVars, sinkVars, SendCompletes, SendFails

(* SettleInv holds in every state, on top of LoaderInv.                    *)
THEOREM SettleInvariant == Spec => []SettleInv
<1>1. Init => SettleInv
  BY DEF Init, LoaderInit, SettleInv, SatisfiedUnlessRejected
<1>2. LoaderInv /\ SettleInv /\ [Next]_vars => SettleInv'
  BY SettleInvStep DEF LoaderInv
<1>3. QED
  BY <1>1, <1>2, LoaderInvariant, PTL DEF Spec

(* A settle loop that ends before its deadline, with nothing rejected, has *)
(* a verdict for every published key.                                      *)
THEOREM LoaderSatisfied == Spec => []SatisfiedUnlessRejected
<1>1. SettleInv => SatisfiedUnlessRejected
  BY DEF SettleInv
<1>2. QED
  BY <1>1, SettleInvariant, PTL

(* While an attempt settles, no batch takes a verdict back and no rejected *)
(* key is taken out again, in whatever order the topics are read.          *)
THEOREM LoaderVerdictsOnlyGrow == Spec => VerdictsOnlyGrow
<1>1. LoaderInv /\ [Next]_vars
        => [pc = "settling" => Settled \subseteq Settled' /\ rejected \subseteq rejected']_vars
  <2> SUFFICES ASSUME LoaderInv, [Next]_vars, pc = "settling"
               PROVE  Settled \subseteq Settled' /\ rejected \subseteq rejected'
    OBVIOUS
  <2>1. CASE PollReturnTopics
    <3>1. PICK hiC \in Batches(Keys, confirmations, readC),
               hiR \in Batches(Keys, rejections, readR) :
              \E rejLast \in SUBSET Keys : ReadBatch(hiC, hiR, rejLast)
      BY <2>1 DEF PollReturnTopics
    <3>2. PICK rejLast \in SUBSET Keys : ReadBatch(hiC, hiR, rejLast)
      BY <3>1
    <3>3. QED
      BY <3>2, BatchKeepsVerdicts DEF LoaderInv
  <2>2. CASE ~PollReturnTopics
    <3>1. ~BeginAttempt
      BY DEF BeginAttempt
    <3>2. UNCHANGED loopVars
      BY <2>2, <3>1, SetsUntouched
    <3>3. QED
      BY <3>2 DEF Settled, loopVars
  <2>3. QED
    BY <2>1, <2>2
<1>2. QED
  BY <1>1, LoaderInvariant, PTL DEF Spec, VerdictsOnlyGrow

-----------------------------------------------------------------------------
(* The refinement of LoadContract.                                         *)

(* A confirmation gives its key at most the verdict it carries, and no     *)
(* other key anything.                                                     *)
LEMMA ConfirmationSays ==
    ASSUME TargetTypeOK, NEW l \in Lanes, NEW o \in Outcomes, Confirms(l, o)
    PROVE  /\ \A x \in Lanes \ {l} : SaidOf(x)' = SaidOf(x)
           /\ SaidOf(l)' = SaidOf(l) \/ SaidOf(l)' = SaidOf(l) \cup {o}
<1>1. PICK run \in Runs :
          confirmations' = Append1(confirmations, l, [run |-> run, outcome |-> o])
  BY DEF Confirms
<1>2. rejections' = rejections
  BY DEF Confirms
<1>3. /\ confirmations \in [Lanes -> Seq(Confirmation)]
      /\ [run |-> run, outcome |-> o] \in Confirmation
  BY DEF TargetTypeOK, Confirmation
<1>4. /\ Len(confirmations'[l]) = Len(confirmations[l]) + 1
      /\ confirmations'[l][Len(confirmations[l]) + 1] = [run |-> run, outcome |-> o]
      /\ \A i \in 1..Len(confirmations[l]) : confirmations'[l][i] = confirmations[l][i]
      /\ \A x \in Lanes \ {l} : confirmations'[x] = confirmations[x]
  BY <1>1, <1>3, AppendTyped
<1>5. Len(confirmations[l]) \in Nat
  BY <1>3
<1>6. ASSUME NEW v \in Outcomes
      PROVE  SaidOutcome(l, v)' <=> SaidOutcome(l, v) \/ (run = ThisRun /\ v = o)
  <2> DEFINE old == confirmations[l]
             new == confirmations'[l]
             said == [run |-> ThisRun, outcome |-> v]
  <2>1. /\ Len(old) \in Nat /\ Len(new) = Len(old) + 1
        /\ new[Len(old) + 1] = [run |-> run, outcome |-> o]
        /\ \A i \in 1..Len(old) : new[i] = old[i]
    BY <1>4, <1>5
  <2>2. [run |-> run, outcome |-> o] = said <=> run = ThisRun /\ v = o
    OBVIOUS
  <2> HIDE DEF old, new, said
  <2>3. (\E i \in 1..Len(new) : new[i] = said)
           <=> (\E i \in 1..Len(old) : old[i] = said) \/ new[Len(old) + 1] = said
    BY <2>1
  <2>4. QED
    BY <2>1, <2>2, <2>3 DEF SaidOutcome, old, new, said
<1>7. \A x \in Lanes : SaidRejected(x)' <=> SaidRejected(x)
  BY <1>2 DEF SaidRejected
<1>8. \A x \in Lanes \ {l} : \A v \in Outcomes : SaidOutcome(x, v)' <=> SaidOutcome(x, v)
  BY <1>4 DEF SaidOutcome
<1>9. \A x \in Lanes \ {l} : SaidOf(x)' = SaidOf(x)
  BY <1>7, <1>8 DEF SaidOf
<1>10. CASE run = ThisRun
  BY <1>6, <1>7, <1>9, <1>10 DEF SaidOf
<1>11. CASE run # ThisRun
  BY <1>6, <1>7, <1>9, <1>11 DEF SaidOf
<1>12. QED
  BY <1>10, <1>11

(* So does a rejection.                                                    *)
LEMMA RejectionSays ==
    ASSUME TargetTypeOK, NEW l \in Lanes, Rejects(l)
    PROVE  /\ \A x \in Lanes \ {l} : SaidOf(x)' = SaidOf(x)
           /\ SaidOf(l)' = SaidOf(l) \/ SaidOf(l)' = SaidOf(l) \cup {"rejected"}
<1>1. PICK run \in Runs \cup {NoRun} :
          rejections' = Append1(rejections, l, [run |-> run])
  BY DEF Rejects
<1>2. confirmations' = confirmations
  BY DEF Rejects
<1>3. rejections \in [Lanes -> Seq(Rejection)] /\ [run |-> run] \in Rejection
  BY DEF TargetTypeOK, Rejection
<1>4. /\ Len(rejections'[l]) = Len(rejections[l]) + 1
      /\ rejections'[l][Len(rejections[l]) + 1] = [run |-> run]
      /\ \A i \in 1..Len(rejections[l]) : rejections'[l][i] = rejections[l][i]
      /\ \A x \in Lanes \ {l} : rejections'[x] = rejections[x]
  BY <1>1, <1>3, AppendTyped
<1>5. Len(rejections[l]) \in Nat
  BY <1>3
<1>6. SaidRejected(l)' <=> SaidRejected(l) \/ run = ThisRun
  BY <1>4, <1>5 DEF SaidRejected
<1>7. \A x \in Lanes : \A v \in Outcomes : SaidOutcome(x, v)' <=> SaidOutcome(x, v)
  BY <1>2 DEF SaidOutcome
<1>8. \A x \in Lanes \ {l} : SaidRejected(x)' <=> SaidRejected(x)
  BY <1>4 DEF SaidRejected
<1>9. \A x \in Lanes \ {l} : SaidOf(x)' = SaidOf(x)
  BY <1>7, <1>8 DEF SaidOf
<1>10. CASE run = ThisRun
  BY <1>6, <1>7, <1>9, <1>10 DEF SaidOf
<1>11. CASE run # ThisRun
  BY <1>6, <1>7, <1>9, <1>11 DEF SaidOf
<1>12. QED
  BY <1>10, <1>11

(* A step says one thing about one key, or nothing.                        *)
LEMMA OneVerdictAtATime ==
    ASSUME TargetTypeOK, OffsetsInOrder, [Next]_vars
    PROVE  \/ SaidNow' = SaidNow
           \/ /\ UNCHANGED loaderVars
              /\ \E k \in Keys, v \in {"created", "duplicate", "rejected"} :
                    SaidNow' = [SaidNow EXCEPT ![k] = @ \cup {v}]
<1>1. ASSUME UNCHANGED <<confirmations, rejections>> PROVE SaidNow' = SaidNow
  BY <1>1 DEF SaidNow, SaidOf, SaidOutcome, SaidRejected
<1>2. ASSUME NEW l \in Lanes, NEW v,
             \A x \in Lanes \ {l} : SaidOf(x)' = SaidOf(x),
             SaidOf(l)' = SaidOf(l) \/ SaidOf(l)' = SaidOf(l) \cup {v}
      PROVE  \/ SaidNow' = SaidNow
             \/ l \in Keys /\ SaidNow' = [SaidNow EXCEPT ![l] = @ \cup {v}]
  <2>1. /\ SaidNow = [x \in Keys |-> SaidOf(x)]
        /\ SaidNow' = [x \in Keys |-> SaidOf(x)']
    BY DEF SaidNow
  <2>2. \A x \in Keys : x = l \/ SaidOf(x)' = SaidOf(x)
    BY <1>2 DEF Lanes
  <2>3. CASE l \notin Keys \/ SaidOf(l)' = SaidOf(l)
    BY <2>1, <2>2, <2>3
  <2>4. CASE l \in Keys /\ SaidOf(l)' = SaidOf(l) \cup {v}
    BY <2>1, <2>2, <2>4
  <2>5. QED
    BY <1>2, <2>3, <2>4
<1>3. ASSUME NEW l \in Lanes, ApplyDocument(l)
      PROVE  \/ SaidNow' = SaidNow
             \/ \E k \in Keys, v \in {"created", "duplicate", "rejected"} :
                   SaidNow' = [SaidNow EXCEPT ![k] = @ \cup {v}]
  <2>1. Confirms(l, "created") \/ Confirms(l, "duplicate") \/ Rejects(l) \/ Loses(l)
    BY <1>3, ApplyAnswers
  <2>2. ASSUME NEW o \in Outcomes, Confirms(l, o)
        PROVE  \/ SaidNow' = SaidNow
               \/ l \in Keys /\ SaidNow' = [SaidNow EXCEPT ![l] = @ \cup {o}]
    BY <1>2, <2>2, ConfirmationSays
  <2>3. CASE Rejects(l)
    BY <1>2, <2>3, RejectionSays
  <2>4. CASE Loses(l)
    BY <1>1, <2>4 DEF Loses
  <2>5. QED
    BY <2>1, <2>2, <2>3, <2>4 DEF Outcomes
<1>4. CASE TargetStep /\ UNCHANGED loaderVars
  BY <1>1, <1>3, <1>4 DEF TargetStep, Poll, CommitBatch, Restart, Reset,
     SuppressNextConfirmation, ForeignPublish, topics
<1>5. CASE LoaderNext \/ UNCHANGED vars
  <2>1. UNCHANGED <<confirmations, rejections>>
    BY <1>5 DEF LoaderNext, vars, mockVars, topics, BeginAttempt, Offer, SendCompletes,
       SendFails, Flush, PollReturnTopics, SettleSatisfied, SettleDeadline,
       PutArtefact, Exit, Die
  <2>2. QED
    BY <1>1, <2>1
<1>6. QED
  BY <1>4, <1>5 DEF Next

(* The class of a key, by the sets themselves.                             *)
ClassBySets(k) ==
    IF k \notin published THEN "none"
    ELSE IF k \in rejected THEN "rejected"
    ELSE IF k \in duplicates THEN "duplicate"
    ELSE IF k \in confirmed THEN "created"
    ELSE "unsettled"

(* ClassOf says no more than the sets, before and after a step.            *)
LEMMA ClassIsBySets ==
    /\ ClassNow = [k \in Keys |-> IF Tallied THEN ClassBySets(k) ELSE "none"]
    /\ ClassNow' = [k \in Keys |-> IF Tallied' THEN ClassBySets(k)' ELSE "none"]
<1>1. ASSUME NEW k PROVE ClassOf(k) = IF Tallied THEN ClassBySets(k) ELSE "none"
  BY DEF ClassOf, ClassBySets, Rejected, Duplicates, Accepted
<1>2. ASSUME NEW k PROVE ClassOf(k)' = IF Tallied' THEN ClassBySets(k)' ELSE "none"
  BY DEF ClassOf, ClassBySets, Rejected, Duplicates, Accepted
<1>3. QED
  BY <1>1, <1>2 DEF ClassNow

(* With the tally, every published key has a class, and every class but    *)
(* "unsettled" a verdict that was said.                                    *)
LEMMA ClassesAreSaid ==
    ASSUME TypeOK, Evidence, NEW k \in Keys
    PROVE  /\ ClassBySets(k) \in {"created", "duplicate", "rejected", "unsettled", "none"}
           /\ k \in published <=> ClassBySets(k) # "none"
           /\ ClassBySets(k) \in {"created", "duplicate", "rejected"}
                 => ClassBySets(k) \in SaidNow[k]
           /\ ClassBySets(k) = "unsettled" <=> k \in published \ Settled
  BY DEF ClassBySets, Settled, Evidence, SaidNow, SaidOf, Outcomes


(* Every step of the loader and the Target System is one of the contract,  *)
(* or shows nothing of it.                                                 *)
LEMMA ContractStep ==
    ASSUME LoaderInv, [Next]_vars
    PROVE  [Contract!ContractNext]_(Contract!contractVars)
<1> USE DEF Contract!ContractNext, Contract!contractVars
<1>0. /\ TypeOK /\ TargetTypeOK /\ OffsetsInOrder /\ Evidence
      /\ published \in SUBSET Keys
  BY DEF LoaderInv, TypeOK, LoaderTypeOK
<1>1. CASE SaidNow' # SaidNow
  <2>1. /\ UNCHANGED loaderVars
        /\ \E k \in Keys, v \in {"created", "duplicate", "rejected"} :
              SaidNow' = [SaidNow EXCEPT ![k] = @ \cup {v}]
    BY <1>0, <1>1, OneVerdictAtATime
  <2>2. UNCHANGED <<pc, published, confirmed, duplicates, rejected>>
    BY <2>1 DEF loaderVars, sinkVars, loopVars
  <2>3. UNCHANGED <<PhaseNow, published, ClassNow, ExitNow>>
    BY <2>2, ClassIsBySets DEF PhaseNow, ExitNow, Tallied, ClassBySets
  <2>4. QED
    BY <2>1, <2>3 DEF Contract!Say, Contract!Verdicts
<1>2. ASSUME SaidNow' = SaidNow, UNCHANGED <<pc, published>>,
             Tallied => UNCHANGED <<confirmed, duplicates, rejected>>
      PROVE  [Contract!ContractNext]_(Contract!contractVars)
  <2>1. UNCHANGED <<PhaseNow, published, ClassNow, ExitNow>>
    BY <1>2, ClassIsBySets DEF PhaseNow, ExitNow, Tallied, ClassBySets
  <2>2. QED
    BY <1>2, <2>1
<1>3. ASSUME SaidNow' = SaidNow, BeginAttempt PROVE Contract!ContractNext
  <2>1. /\ PhaseNow = "closed" /\ PhaseNow' = "open" /\ published' = {}
        /\ ExitNow' = "none" /\ ~Tallied'
    BY <1>3 DEF BeginAttempt, PhaseNow, ExitNow, Tallied
  <2>2. ClassNow' = [k \in Keys |-> "none"]
    BY <2>1, ClassIsBySets
  <2>3. QED
    BY <1>3, <2>1, <2>2 DEF Contract!Start
<1>4. ASSUME SaidNow' = SaidNow, Offer
      PROVE  [Contract!ContractNext]_(Contract!contractVars)
  <2>1. /\ pc = "offering" /\ pc' = pc
        /\ published' = published \/ \E k \in Keys : published' = published \cup {k}
    <3>1. line + 1 \in 1..Len(Lines)
      BY <1>0, <1>4 DEF Offer, TypeOK, LoaderTypeOK
    <3>2. Lines[line + 1] \in Keys \cup {Malformed}
      BY <3>1, LinesAreDocuments
    <3>3. QED
      BY <1>4, <3>2 DEF Offer, RefuseLine, Publish
  <2>2. /\ PhaseNow = "open" /\ UNCHANGED <<PhaseNow, ExitNow>>
        /\ ~Tallied /\ ~Tallied'
    BY <2>1 DEF PhaseNow, ExitNow, Tallied
  <2>3. UNCHANGED ClassNow
    BY <2>2, ClassIsBySets
  <2>4. QED
    BY <1>4, <2>1, <2>2, <2>3 DEF Contract!OfferKey
<1>5. ASSUME SaidNow' = SaidNow, Flush
      PROVE  [Contract!ContractNext]_(Contract!contractVars)
  <2>1. UNCHANGED published /\ pc = "offering" /\ pc' = "settling"
    BY <1>5 DEF Flush, sinkVars
  <2>2. UNCHANGED <<PhaseNow, ExitNow>> /\ ~Tallied /\ ~Tallied'
    BY <2>1 DEF PhaseNow, ExitNow, Tallied
  <2>3. UNCHANGED ClassNow
    BY <2>2, ClassIsBySets
  <2>4. QED
    BY <1>5, <2>1, <2>2, <2>3
<1>6. ASSUME SaidNow' = SaidNow, SettleSatisfied \/ SettleDeadline
      PROVE  Contract!ContractNext
  <2>1. /\ pc = "settling" /\ pc' = "writing"
        /\ UNCHANGED <<published, confirmed, duplicates, rejected>>
    BY <1>6 DEF SettleSatisfied, SettleDeadline, sinkVars, loopVars
  <2>2. PhaseNow = "open" /\ PhaseNow' = "tallied" /\ UNCHANGED ExitNow /\ Tallied'
    BY <2>1 DEF PhaseNow, ExitNow, Tallied
  <2>3. ClassNow' = [k \in Keys |-> ClassBySets(k)]
    BY <2>1, <2>2, ClassIsBySets DEF ClassBySets
  <2>4. ClassNow' \in [Keys -> Contract!Classes]
    BY <1>0, <2>3, ClassesAreSaid DEF Contract!Classes, Contract!Verdicts
  <2>5. Contract!Classify(ClassNow')
    <3>1. \A k \in Keys : k \in published <=> ClassNow'[k] # "none"
      BY <1>0, <2>3, ClassesAreSaid
    <3>2. \A k \in Keys : ClassNow'[k] \in Contract!Verdicts => ClassNow'[k] \in SaidNow[k]
      BY <1>0, <2>3, ClassesAreSaid DEF Contract!Verdicts
    <3>3. QED
      BY <3>1, <3>2 DEF Contract!Classify
  <2>6. QED
    BY <1>6, <2>1, <2>2, <2>4, <2>5 DEF Contract!TallyUp
<1>7. ASSUME SaidNow' = SaidNow, Exit PROVE Contract!ContractNext
  <2>1. /\ pc = "writing" /\ pc' = IF Unsettled > 0 THEN "failed" ELSE "succeeded"
        /\ UNCHANGED <<published, confirmed, duplicates, rejected>>
    BY <1>7 DEF Exit, sinkVars, loopVars
  <2>2. /\ PhaseNow = "tallied" /\ PhaseNow' = "closed" /\ Tallied /\ Tallied'
        /\ ExitNow' = IF Unsettled > 0 THEN "failed" ELSE "clean"
    BY <2>1 DEF PhaseNow, ExitNow, Tallied
  <2>3. UNCHANGED ClassNow
    BY <2>1, <2>2, ClassIsBySets DEF ClassBySets
  <2>4. Unsettled > 0 <=> \E k \in Keys : ClassNow[k] = "unsettled"
    <3>1. \A k \in Keys : ClassNow[k] = "unsettled" <=> k \in published \ Settled
      BY <1>0, <2>2, ClassIsBySets, ClassesAreSaid
    <3>2. Unsettled > 0 <=> published \ Settled # {}
      BY <1>0, UnsettledCounts, FS_EmptySet
    <3>3. QED
      BY <1>0, <3>1, <3>2
  <2>5. QED
    BY <1>7, <2>1, <2>2, <2>3, <2>4 DEF Contract!Finish
<1>8. ASSUME SaidNow' = SaidNow, Die PROVE Contract!ContractNext
  <2>1. pc \in {"offering", "settling", "writing"} /\ pc' = "died" /\ UNCHANGED published
    BY <1>8 DEF Die
  <2>2. /\ PhaseNow \in {"open", "tallied"} /\ PhaseNow' = "closed"
        /\ ExitNow' = "failed" /\ ~Tallied'
    BY <2>1 DEF PhaseNow, ExitNow, Tallied
  <2>3. ClassNow' = [k \in Keys |-> "none"]
    BY <2>2, ClassIsBySets
  <2>4. QED
    BY <1>8, <2>1, <2>2, <2>3 DEF Contract!Abort
<1>9. CASE PollReturnTopics \/ PutArtefact
  <2>1. /\ UNCHANGED <<pc, published>>
        /\ Tallied => UNCHANGED <<confirmed, duplicates, rejected>>
    BY <1>9 DEF PollReturnTopics, PutArtefact, Tallied, sinkVars, loopVars
  <2>2. QED
    BY <1>1, <1>2, <2>1
<1>10. ASSUME NEW k \in Keys, SendCompletes(k) \/ SendFails(k)
       PROVE  [Contract!ContractNext]_(Contract!contractVars)
  <2>1. UNCHANGED <<pc, published, confirmed, duplicates, rejected>>
    BY <1>10 DEF SendCompletes, SendFails, loopVars
  <2>2. QED
    BY <1>1, <1>2, <2>1
<1>11. CASE UNCHANGED loaderVars
  <2>1. UNCHANGED <<pc, published, confirmed, duplicates, rejected>>
    BY <1>11 DEF loaderVars, sinkVars, loopVars
  <2>2. QED
    BY <1>1, <1>2, <2>1
<1> HIDE DEF Contract!ContractNext, Contract!contractVars
<1>12. QED
  BY <1>1, <1>3, <1>4, <1>5, <1>6, <1>7, <1>8, <1>9, <1>10, <1>11
     DEF Next, LoaderNext, vars

(* The loader on its Kafka sink, run against the Target System with its    *)
(* restarts, lost verdicts and stopped consumer, implements LoadContract.  *)
THEOREM LoaderKeepsContract == Spec => KeepsContract
<1>1. Init => Contract!ContractInit
  <2> SUFFICES ASSUME Init PROVE Contract!ContractInit
    OBVIOUS
  <2>1. pc = "idle" /\ published = {}
    BY DEF Init, LoaderInit
  <2>2. PhaseNow = "closed" /\ ExitNow = "none" /\ ~Tallied
    BY <2>1 DEF PhaseNow, ExitNow, Tallied
  <2>3. ClassNow = [k \in Keys |-> "none"]
    BY <2>2, ClassIsBySets
  <2>4. \A k \in Keys : confirmations[k] = <<>> /\ rejections[k] = <<>>
    BY DEF Init, TargetInit, Lanes
  <2>5. \A k \in Keys : SaidOf(k) = {}
    BY <2>4 DEF SaidOf, SaidOutcome, SaidRejected
  <2>6. QED
    BY <2>1, <2>2, <2>3, <2>5 DEF Contract!ContractInit, SaidNow
<1>2. LoaderInv /\ [Next]_vars => [Contract!ContractNext]_(Contract!contractVars)
  BY ContractStep
<1>3. QED
  BY <1>1, <1>2, LoaderInvariant, PTL DEF Spec, KeepsContract, Contract!ContractSpec
=============================================================================
