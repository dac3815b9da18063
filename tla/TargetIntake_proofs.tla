------------------------ MODULE TargetIntake_proofs -------------------------
(***************************************************************************)
(* Theorems about TargetIntake, and the lemmas about its steps that the    *)
(* proofs about the loader cite.  The inductive invariant is IntakeInv.    *)
(***************************************************************************)
EXTENDS TargetIntake, FiniteSetTheorems, TLAPS

-----------------------------------------------------------------------------
(* Types.                                                                  *)

(* What appending one message does to a topic.                             *)
LEMMA AppendTyped ==
    ASSUME NEW S, NEW topic \in [Lanes -> Seq(S)], NEW l \in Lanes, NEW m \in S
    PROVE  /\ Append1(topic, l, m) \in [Lanes -> Seq(S)]
           /\ Len(Append1(topic, l, m)[l]) = Len(topic[l]) + 1
           /\ \A x \in Lanes \ {l} : Append1(topic, l, m)[x] = topic[x]
           /\ \A i \in 1..Len(topic[l]) : Append1(topic, l, m)[l][i] = topic[l][i]
           /\ Append1(topic, l, m)[l][Len(topic[l]) + 1] = m
  BY DEF Append1

(* An empty topic is well typed.                                           *)
LEMMA EmptyTyped == ASSUME NEW S PROVE [l \in Lanes |-> <<>>] \in [Lanes -> Seq(S)]
  OBVIOUS

(* The initial state of the mock is well typed.                            *)
LEMMA TargetInitTyped == TargetInit => TargetTypeOK
<1> SUFFICES ASSUME TargetInit PROVE TargetTypeOK
  OBVIOUS
<1>1. /\ targetTopic \in [Lanes -> Seq(Document)]
      /\ confirmations \in [Lanes -> Seq(Confirmation)]
      /\ rejections \in [Lanes -> Seq(Rejection)]
  BY EmptyTyped DEF TargetInit
<1>2. QED
  BY <1>1 DEF TargetInit, TargetTypeOK

(* What applying one document does, whatever the verdict: exactly one more *)
(* confirmation, one more rejection or one more lost verdict for its lane. *)
Confirms(l, o) ==
    \E run \in Runs :
        /\ confirmations' = Append1(confirmations, l, [run |-> run, outcome |-> o])
        /\ UNCHANGED <<rejections, lost>>
Rejects(l) ==
    \E run \in Runs \cup {NoRun} :
        /\ rejections' = Append1(rejections, l, [run |-> run])
        /\ UNCHANGED <<confirmations, lost>>
Loses(l) ==
    /\ lost' = [lost EXCEPT ![l] = @ + 1]
    /\ UNCHANGED <<confirmations, rejections>>

(* The three ways to answer a document, by what they do to the map.        *)
LEMMA ApplyAnswers ==
    ASSUME TargetTypeOK, OffsetsInOrder, NEW l \in Lanes, ApplyDocument(l)
    PROVE  /\ \/ /\ Rejects(l) \/ Loses(l)
                 /\ UNCHANGED idempotency
              \/ /\ Confirms(l, "duplicate") \/ Loses(l)
                 /\ l \in Keys /\ l \in idempotency
                 /\ UNCHANGED idempotency
              \/ /\ Confirms(l, "created") \/ Loses(l)
                 /\ l \in Keys /\ l \notin idempotency
                 /\ idempotency' = idempotency \cup {l}
           /\ suppressNext' \in {"off", "armed"}
           /\ applied' = [applied EXCEPT ![l] = @ + 1]
           /\ applied[l] < fetched[l]
           /\ UNCHANGED <<targetTopic, loop, fetched, committed, budget>>
<1> DEFINE doc == targetTopic[l][applied[l] + 1]
<1>1. doc \in Document
  <2>1. applied[l] + 1 \in 1..Len(targetTopic[l])
    BY DEF ApplyDocument, TargetTypeOK, OffsetsInOrder
  <2>2. targetTopic[l] \in Seq(Document)
    BY DEF TargetTypeOK
  <2>3. QED
    BY <2>1, <2>2
<1>2. doc.run \in Runs /\ doc.kind \in Kinds
  BY <1>1 DEF Document
<1>3. /\ applied' = [applied EXCEPT ![l] = @ + 1]
      /\ applied[l] < fetched[l]
      /\ UNCHANGED <<targetTopic, loop, fetched, committed, budget>>
      /\ Refuse(l, doc) \/ AcknowledgeDuplicate(l, doc) \/ Create(l, doc)
  BY DEF ApplyDocument
<1>4. suppressNext \in {"off", "armed"}
  BY DEF TargetTypeOK
<1>5. CASE Refuse(l, doc)
  <2>1. /\ Rejects(l) \/ Loses(l)
        /\ UNCHANGED <<suppressNext, idempotency>>
    BY <1>2, <1>5 DEF Refuse, PublishRejection, VerdictLost, Rejects, Loses
  <2>2. QED
    BY <1>3, <1>4, <2>1
<1>6. ASSUME NEW o, PublishConfirmation(l, doc.run, o)
      PROVE  (Confirms(l, o) \/ Loses(l)) /\ suppressNext' \in {"off", "armed"}
  BY <1>2, <1>4, <1>6 DEF PublishConfirmation, VerdictLost, Confirms, Loses
<1>7. CASE AcknowledgeDuplicate(l, doc)
  BY <1>3, <1>6, <1>7 DEF AcknowledgeDuplicate, Lanes
<1>8. CASE Create(l, doc)
  BY <1>3, <1>6, <1>8 DEF Create, Lanes
<1>9. QED
  BY <1>3, <1>5, <1>7, <1>8

(* One of those answers keeps the return topics well typed.                *)
LEMMA AnswerTyped ==
    ASSUME TargetTypeOK, NEW l \in Lanes,
           Confirms(l, "created") \/ Confirms(l, "duplicate") \/ Rejects(l) \/ Loses(l)
    PROVE  /\ confirmations' \in [Lanes -> Seq(Confirmation)]
           /\ rejections' \in [Lanes -> Seq(Rejection)]
           /\ lost' \in [Lanes -> Nat]
           /\ Len(confirmations'[l]) + Len(rejections'[l]) + lost'[l]
                = Len(confirmations[l]) + Len(rejections[l]) + lost[l] + 1
           /\ \A x \in Lanes \ {l} : /\ confirmations'[x] = confirmations[x]
                                     /\ rejections'[x] = rejections[x]
                                     /\ lost'[x] = lost[x]
<1>1. ASSUME NEW o \in Outcomes, Confirms(l, o)
      PROVE  /\ confirmations' \in [Lanes -> Seq(Confirmation)]
             /\ Len(confirmations'[l]) = Len(confirmations[l]) + 1
             /\ \A x \in Lanes \ {l} : confirmations'[x] = confirmations[x]
             /\ UNCHANGED <<rejections, lost>>
  <2>1. PICK run \in Runs :
            /\ confirmations' = Append1(confirmations, l, [run |-> run, outcome |-> o])
            /\ UNCHANGED <<rejections, lost>>
    BY <1>1 DEF Confirms
  <2>2. [run |-> run, outcome |-> o] \in Confirmation
    BY DEF Confirmation
  <2>3. confirmations \in [Lanes -> Seq(Confirmation)]
    BY DEF TargetTypeOK
  <2>4. QED
    BY <2>1, <2>2, <2>3, AppendTyped
<1>2. ASSUME Rejects(l)
      PROVE  /\ rejections' \in [Lanes -> Seq(Rejection)]
             /\ Len(rejections'[l]) = Len(rejections[l]) + 1
             /\ \A x \in Lanes \ {l} : rejections'[x] = rejections[x]
             /\ UNCHANGED <<confirmations, lost>>
  <2>1. PICK run \in Runs \cup {NoRun} :
            /\ rejections' = Append1(rejections, l, [run |-> run])
            /\ UNCHANGED <<confirmations, lost>>
    BY <1>2 DEF Rejects
  <2>2. [run |-> run] \in Rejection
    BY DEF Rejection
  <2>3. rejections \in [Lanes -> Seq(Rejection)]
    BY DEF TargetTypeOK
  <2>4. QED
    BY <2>1, <2>2, <2>3, AppendTyped
<1>3. ASSUME Loses(l)
      PROVE  /\ lost' \in [Lanes -> Nat]
             /\ lost'[l] = lost[l] + 1
             /\ \A x \in Lanes \ {l} : lost'[x] = lost[x]
             /\ UNCHANGED <<confirmations, rejections>>
  BY <1>3 DEF Loses, TargetTypeOK
<1>4. /\ confirmations[l] \in Seq(Confirmation)
      /\ rejections[l] \in Seq(Rejection)
      /\ lost[l] \in Nat
  BY DEF TargetTypeOK
<1>5. /\ confirmations \in [Lanes -> Seq(Confirmation)]
      /\ rejections \in [Lanes -> Seq(Rejection)]
      /\ lost \in [Lanes -> Nat]
  BY DEF TargetTypeOK
<1>6. CASE \E o \in Outcomes : Confirms(l, o)
  <2>1. /\ confirmations' \in [Lanes -> Seq(Confirmation)]
        /\ Len(confirmations'[l]) = Len(confirmations[l]) + 1
        /\ \A x \in Lanes \ {l} : confirmations'[x] = confirmations[x]
        /\ rejections' = rejections
        /\ lost' = lost
    BY <1>1, <1>6
  <2>2. /\ Len(confirmations[l]) \in Nat /\ Len(rejections[l]) \in Nat
        /\ rejections'[l] = rejections[l]
        /\ lost'[l] = lost[l]
    BY <1>4, <2>1
  <2>3. QED
    BY <1>4, <1>5, <2>1, <2>2
<1>7. CASE Rejects(l)
  <2>1. /\ rejections' \in [Lanes -> Seq(Rejection)]
        /\ Len(rejections'[l]) = Len(rejections[l]) + 1
        /\ \A x \in Lanes \ {l} : rejections'[x] = rejections[x]
        /\ confirmations' = confirmations
        /\ lost' = lost
    BY <1>2, <1>7
  <2>2. /\ Len(confirmations[l]) \in Nat /\ Len(rejections[l]) \in Nat
        /\ confirmations'[l] = confirmations[l]
        /\ lost'[l] = lost[l]
    BY <1>4, <2>1
  <2>3. QED
    BY <1>4, <1>5, <2>1, <2>2
<1>8. CASE Loses(l)
  BY <1>3, <1>4, <1>5, <1>8
<1>9. QED
  BY <1>6, <1>7, <1>8 DEF Outcomes

(* A batch moves no position back, nor past the end of its log.            *)
LEMMA BatchBounds ==
    ASSUME NEW S, NEW topic, NEW from,
           \A l \in S : Len(topic[l]) \in Nat,
           NEW upTo \in Batches(S, topic, from)
    PROVE  /\ upTo \in [S -> Nat]
           /\ \A l \in S : from[l] <= upTo[l] /\ upTo[l] <= Len(topic[l])
<1>1. /\ upTo \in [S -> UNION {0..Len(topic[l]) : l \in S}]
      /\ \A l \in S : from[l] <= upTo[l] /\ upTo[l] <= Len(topic[l])
  BY DEF Batches
<1>2. UNION {0..Len(topic[l]) : l \in S} \subseteq Nat
  OBVIOUS
<1>3. QED
  BY <1>1, <1>2

(* Every step of the mock and of the other producers keeps the types.      *)
LEMMA TargetStepTyped ==
    ASSUME TargetTypeOK, OffsetsInOrder, TargetNext
    PROVE  TargetTypeOK'
<1> USE DEF TargetTypeOK
<1>1. CASE Poll
  <2>1. \A l \in Lanes : Len(targetTopic[l]) \in Nat
    OBVIOUS
  <2>2. fetched' \in [Lanes -> Nat]
    BY <1>1, <2>1, BatchBounds DEF Poll
  <2>3. QED
    BY <1>1, <2>2 DEF Poll, topics, budget
<1>2. ASSUME NEW l \in Lanes, ApplyDocument(l) PROVE TargetTypeOK'
  <2>1. applied' \in [Lanes -> Nat]
    <3>1. applied' = [applied EXCEPT ![l] = @ + 1]
      BY <1>2, ApplyAnswers
    <3>2. QED
      BY <3>1
  <2>2. /\ confirmations' \in [Lanes -> Seq(Confirmation)]
        /\ rejections' \in [Lanes -> Seq(Rejection)]
        /\ lost' \in [Lanes -> Nat]
    BY <1>2, ApplyAnswers, AnswerTyped
  <2>3. idempotency' \in SUBSET Keys /\ suppressNext' \in {"off", "armed"}
    BY <1>2, ApplyAnswers
  <2>4. UNCHANGED <<targetTopic, loop, fetched, committed, budget>>
    BY <1>2, ApplyAnswers
  <2>5. QED
    BY <2>1, <2>2, <2>3, <2>4 DEF budget
<1>3. CASE CommitBatch
  BY <1>3 DEF CommitBatch, topics, budget
<1>4. CASE LoopStops
  BY <1>4 DEF LoopStops, topics, budget, offsets
<1>5. CASE Restart
  BY <1>5 DEF Restart, topics
<1>6. CASE Reset
  BY <1>6 DEF Reset, topics, offsets
<1>7. CASE SuppressNextConfirmation
  BY <1>7 DEF SuppressNextConfirmation, topics, offsets
<1>8. CASE ForeignPublish
  <2>1. PICK l \in Lanes, doc \in Document :
            targetTopic' = Append1(targetTopic, l, doc)
    BY <1>8 DEF ForeignPublish
  <2>2. targetTopic' \in [Lanes -> Seq(Document)]
    BY <2>1, AppendTyped
  <2>3. foreign' \in Nat
    BY <1>8 DEF ForeignPublish
  <2>4. UNCHANGED <<confirmations, rejections, idempotency, suppressNext, loop,
                    applied, fetched, committed, restarts, resets, armed, lost>>
    BY <1>8 DEF ForeignPublish, offsets
  <2>5. QED
    BY <2>2, <2>3, <2>4
<1>9. QED
  BY <1>1, <1>2, <1>3, <1>4, <1>5, <1>6, <1>7, <1>8 DEF TargetNext, TargetStep

(* A stuttering step keeps them too.                                       *)
LEMMA TargetStutterTyped ==
    ASSUME TargetTypeOK, UNCHANGED mockVars PROVE TargetTypeOK'
  BY DEF TargetTypeOK, mockVars, topics, offsets, budget

-----------------------------------------------------------------------------
(* Offsets.                                                                *)

(* No step moves one of the consumer's positions past the next one.        *)
LEMMA OffsetsInOrderStep ==
    ASSUME TargetTypeOK, OffsetsInOrder, TargetNext
    PROVE  OffsetsInOrder'
<1>1. /\ applied \in [Lanes -> Nat] /\ fetched \in [Lanes -> Nat]
      /\ committed \in [Lanes -> Nat]
      /\ \A l \in Lanes : Len(targetTopic[l]) \in Nat
  BY DEF TargetTypeOK
<1>2. CASE Poll
  <2>1. /\ fetched' \in [Lanes -> Nat]
        /\ \A l \in Lanes : fetched[l] <= fetched'[l] /\ fetched'[l] <= Len(targetTopic[l])
    BY <1>1, <1>2, BatchBounds DEF Poll
  <2>2. UNCHANGED <<targetTopic, applied, committed>>
    BY <1>2 DEF Poll, topics
  <2>3. QED
    BY <1>1, <2>1, <2>2 DEF OffsetsInOrder
<1>3. ASSUME NEW l \in Lanes, ApplyDocument(l) PROVE OffsetsInOrder'
  <2>1. /\ applied' = [applied EXCEPT ![l] = @ + 1]
        /\ applied[l] < fetched[l]
        /\ UNCHANGED <<targetTopic, fetched, committed>>
    BY <1>3 DEF ApplyDocument
  <2>2. QED
    BY <1>1, <2>1 DEF OffsetsInOrder
<1>4. CASE CommitBatch
  BY <1>1, <1>4 DEF CommitBatch, topics, OffsetsInOrder
<1>5. CASE Restart
  BY <1>1, <1>5 DEF Restart, topics, OffsetsInOrder
<1>6. CASE Reset \/ SuppressNextConfirmation \/ LoopStops
  BY <1>6 DEF Reset, SuppressNextConfirmation, LoopStops, topics, offsets, OffsetsInOrder
<1>7. CASE ForeignPublish
  <2>1. PICK l \in Lanes, doc \in Document :
            targetTopic' = Append1(targetTopic, l, doc)
    BY <1>7 DEF ForeignPublish
  <2>2. UNCHANGED <<applied, fetched, committed>>
    BY <1>7 DEF ForeignPublish, offsets
  <2>3. \A x \in Lanes : Len(targetTopic'[x]) \in Nat /\ Len(targetTopic'[x]) >= Len(targetTopic[x])
    <3>1. targetTopic \in [Lanes -> Seq(Document)]
      BY DEF TargetTypeOK
    <3>2. /\ Len(targetTopic'[l]) = Len(targetTopic[l]) + 1
          /\ \A x \in Lanes \ {l} : targetTopic'[x] = targetTopic[x]
      BY <2>1, <3>1, AppendTyped
    <3>3. TAKE x \in Lanes
    <3>4. Len(targetTopic[x]) \in Nat
      BY <1>1
    <3>5. CASE x = l
      BY <3>2, <3>4, <3>5
    <3>6. CASE x # l
      BY <3>2, <3>4, <3>6
    <3>7. QED
      BY <3>5, <3>6
  <2>4. QED
    BY <1>1, <2>2, <2>3 DEF OffsetsInOrder
<1>8. QED
  BY <1>2, <1>3, <1>4, <1>5, <1>6, <1>7 DEF TargetNext, TargetStep

(* Arithmetic for the two lemmas that follow.                              *)
LEMMA SumTransitive ==
    ASSUME NEW a \in Nat, NEW b \in Nat, NEW c \in Nat, NEW d \in Nat, NEW e \in Nat,
           a <= b, b <= c + d + e
    PROVE  a <= c + d + e
  OBVIOUS
LEMMA SumIncrement ==
    ASSUME NEW a \in Nat, NEW c \in Nat, NEW d \in Nat, NEW e \in Nat,
           a <= c + d + e
    PROVE  a + 1 <= c + d + e + 1
  OBVIOUS

(* The committed documents are among the applied ones.                     *)
LEMMA SkippedLemma ==
    ASSUME TargetTypeOK, OffsetsInOrder, AppliedIsAnswered PROVE NothingSkipped
<1> SUFFICES ASSUME NEW l \in Lanes
             PROVE  committed[l] <= Len(confirmations[l]) + Len(rejections[l]) + lost[l]
  BY DEF NothingSkipped
<1>1. /\ applied[l] \in Nat /\ committed[l] \in Nat /\ lost[l] \in Nat
      /\ Len(confirmations[l]) \in Nat /\ Len(rejections[l]) \in Nat
  BY DEF TargetTypeOK
<1>2. committed[l] <= applied[l]
  BY DEF OffsetsInOrder
<1>3. applied[l] <= Len(confirmations[l]) + Len(rejections[l]) + lost[l]
  BY DEF AppliedIsAnswered
<1>4. QED
  BY <1>1, <1>2, <1>3, SumTransitive

(* No step applies a document without an answer.                           *)
LEMMA AppliedIsAnsweredStep ==
    ASSUME TargetTypeOK, OffsetsInOrder, AppliedIsAnswered, TargetNext
    PROVE  AppliedIsAnswered'
<1>1. /\ applied \in [Lanes -> Nat] /\ committed \in [Lanes -> Nat]
      /\ lost \in [Lanes -> Nat]
      /\ \A l \in Lanes : Len(confirmations[l]) \in Nat /\ Len(rejections[l]) \in Nat
  BY DEF TargetTypeOK
<1>2. ASSUME NEW l \in Lanes, ApplyDocument(l) PROVE AppliedIsAnswered'
  <2>1. applied' = [applied EXCEPT ![l] = @ + 1]
    BY <1>2 DEF ApplyDocument
  <2>2. Confirms(l, "created") \/ Confirms(l, "duplicate") \/ Rejects(l) \/ Loses(l)
    BY <1>2, ApplyAnswers
  <2>3. /\ Len(confirmations'[l]) + Len(rejections'[l]) + lost'[l]
             = Len(confirmations[l]) + Len(rejections[l]) + lost[l] + 1
        /\ \A x \in Lanes \ {l} : /\ confirmations'[x] = confirmations[x]
                                  /\ rejections'[x] = rejections[x]
                                  /\ lost'[x] = lost[x]
    BY <2>2, AnswerTyped
  <2>4. SUFFICES ASSUME NEW x \in Lanes
                 PROVE  applied'[x] <= Len(confirmations'[x]) + Len(rejections'[x]) + lost'[x]
    BY DEF AppliedIsAnswered
  <2>5. /\ applied[x] \in Nat /\ lost[x] \in Nat
        /\ Len(confirmations[x]) \in Nat /\ Len(rejections[x]) \in Nat
        /\ applied[x] <= Len(confirmations[x]) + Len(rejections[x]) + lost[x]
    BY <1>1 DEF AppliedIsAnswered
  <2>6. CASE x = l
    <3>1. applied'[x] = applied[x] + 1
      BY <1>1, <2>1, <2>6
    <3>2. applied[x] + 1 <= Len(confirmations[x]) + Len(rejections[x]) + lost[x] + 1
      BY <2>5, SumIncrement
    <3>3. QED
      BY <2>3, <2>6, <3>1, <3>2
  <2>7. CASE x # l
    BY <1>1, <2>1, <2>3, <2>5, <2>7
  <2>8. QED
    BY <2>6, <2>7
<1>3. CASE Restart
  <2>1. /\ applied' = committed
        /\ UNCHANGED <<confirmations, rejections, lost>>
    BY <1>3 DEF Restart, topics
  <2>2. NothingSkipped
    BY SkippedLemma
  <2>3. QED
    BY <2>1, <2>2 DEF AppliedIsAnswered, NothingSkipped
<1>4. CASE Poll \/ CommitBatch \/ Reset \/ SuppressNextConfirmation
             \/ ForeignPublish \/ LoopStops
  BY <1>4 DEF Poll, CommitBatch, Reset, SuppressNextConfirmation, ForeignPublish,
              LoopStops, topics, offsets, AppliedIsAnswered
<1>5. QED
  BY <1>2, <1>3, <1>4 DEF TargetNext, TargetStep


-----------------------------------------------------------------------------
(* The idempotency map and the confirmations.                              *)

(* The created confirmations of a key are finitely many positions.         *)
LEMMA CreatedAtFinite ==
    ASSUME TargetTypeOK, NEW k \in Lanes
    PROVE  /\ IsFiniteSet(CreatedAt(k))
           /\ Cardinality(CreatedAt(k)) \in Nat
           /\ CreatedAt(k) \subseteq 1..Len(confirmations[k])
<1>1. Len(confirmations[k]) \in Nat
  BY DEF TargetTypeOK
<1>2. IsFiniteSet(1..Len(confirmations[k]))
  BY <1>1, FS_Interval
<1>3. CreatedAt(k) \subseteq 1..Len(confirmations[k])
  BY DEF CreatedAt
<1>4. QED
  BY <1>2, <1>3, FS_Subset, FS_CardinalityType

(* A confirmation adds its own position when it says created, else none.   *)
LEMMA CreatedAtGrows ==
    ASSUME TargetTypeOK, NEW l \in Lanes, NEW o \in Outcomes, Confirms(l, o)
    PROVE  /\ confirmations[l] \in Seq(Confirmation)
           /\ Len(confirmations'[l]) = Len(confirmations[l]) + 1
           /\ confirmations'[l][Len(confirmations[l]) + 1].outcome = o
           /\ \A i \in 1..Len(confirmations[l]) : confirmations'[l][i] = confirmations[l][i]
           /\ o = "created" => CreatedAt(l)' = CreatedAt(l) \cup {Len(confirmations[l]) + 1}
           /\ o # "created" => CreatedAt(l)' = CreatedAt(l)
           /\ \A x \in Lanes \ {l} : confirmations'[x] = confirmations[x]
           /\ lost' = lost
<1>1. PICK run \in Runs :
          /\ confirmations' = Append1(confirmations, l, [run |-> run, outcome |-> o])
          /\ UNCHANGED <<rejections, lost>>
  BY DEF Confirms
<1>2. [run |-> run, outcome |-> o] \in Confirmation
  BY DEF Confirmation
<1>3. confirmations \in [Lanes -> Seq(Confirmation)]
  BY DEF TargetTypeOK
<1>4. confirmations[l] \in Seq(Confirmation) /\ Len(confirmations[l]) \in Nat
  BY <1>3
<1>5. /\ Len(confirmations'[l]) = Len(confirmations[l]) + 1
      /\ confirmations'[l][Len(confirmations[l]) + 1] = [run |-> run, outcome |-> o]
      /\ \A i \in 1..Len(confirmations[l]) : confirmations'[l][i] = confirmations[l][i]
      /\ \A x \in Lanes \ {l} : confirmations'[x] = confirmations[x]
  BY <1>1, <1>2, <1>3, AppendTyped
<1>6. confirmations'[l][Len(confirmations[l]) + 1].outcome = o
  BY <1>5
<1>7. 1..Len(confirmations'[l]) = 1..Len(confirmations[l]) \cup {Len(confirmations[l]) + 1}
  BY <1>4, <1>5
<1>8. CreatedAt(l)' =
          CreatedAt(l) \cup {i \in {Len(confirmations[l]) + 1} : o = "created"}
  BY <1>5, <1>6, <1>7 DEF CreatedAt
<1>9. QED
  BY <1>1, <1>4, <1>5, <1>6, <1>8

(* A lane whose confirmations did not change keeps its created ones.       *)
LEMMA CreatedAtKept ==
    ASSUME NEW k \in Lanes, confirmations'[k] = confirmations[k]
    PROVE  CreatedAt(k)' = CreatedAt(k)
  BY DEF CreatedAt

(* The part of IntakeInv that is about keys.                               *)
KeysInv ==
    /\ ConfirmedIsHeld
    /\ HeldWasCreated
    /\ DuplicateHasOriginal
    /\ ForgottenPerLoss
    /\ CreatedOncePerLife

(* Steps that touch neither the map nor the confirmations keep all of it.  *)
LEMMA KeysInvQuiet ==
    ASSUME KeysInv,
           UNCHANGED <<confirmations, idempotency, lost, restarts, resets>>
    PROVE  KeysInv'
  BY DEF KeysInv, ConfirmedIsHeld, HeldWasCreated, DuplicateHasOriginal,
         ForgottenPerLoss, CreatedOncePerLife, CreatedAt

(* Arithmetic for the next lemma.                                          *)
LEMMA OneMoreLoss ==
    ASSUME NEW c \in Nat, NEW a \in Nat, NEW b \in Nat, NEW a1 \in Nat, NEW b1 \in Nat,
           a1 + b1 = a + b + 1, c <= 1 + a + b
    PROVE  c <= a1 + b1
  OBVIOUS

(* So do steps that forget the whole map, at the price of one more loss.   *)
LEMMA KeysInvMapLost ==
    ASSUME TargetTypeOK, KeysInv, idempotency' = {},
           UNCHANGED <<confirmations, lost>>,
           restarts' \in Nat, resets' \in Nat,
           restarts' + resets' = restarts + resets + 1
    PROVE  KeysInv'
<1>1. restarts \in Nat /\ resets \in Nat /\ idempotency \in SUBSET Keys
  BY DEF TargetTypeOK
<1>2. ConfirmedIsHeld'
  BY <1>1 DEF ConfirmedIsHeld
<1>3. HeldWasCreated'
  BY DEF HeldWasCreated
<1>4. DuplicateHasOriginal'
  BY DEF KeysInv, DuplicateHasOriginal, CreatedAt
<1>5. ASSUME NEW k \in Keys
      PROVE  Cardinality(CreatedAt(k))' <= restarts' + resets'
  <2>1. Cardinality(CreatedAt(k)) <= 1 + restarts + resets
    BY DEF KeysInv, CreatedOncePerLife
  <2>2. Cardinality(CreatedAt(k)) \in Nat
    BY CreatedAtFinite DEF Lanes
  <2>3. CreatedAt(k)' = CreatedAt(k)
    BY DEF CreatedAt
  <2>4. Cardinality(CreatedAt(k)) <= restarts' + resets'
    BY <1>1, <2>1, <2>2, OneMoreLoss
  <2>5. QED
    BY <2>3, <2>4
<1>6. ASSUME NEW k \in Keys PROVE Cardinality(CreatedAt(k))' \in Nat
  <2>1. CreatedAt(k)' = CreatedAt(k)
    BY DEF CreatedAt
  <2>2. QED
    BY <2>1, CreatedAtFinite DEF Lanes
<1>7. CreatedOncePerLife'
  BY <1>5, <1>6 DEF CreatedOncePerLife
<1>8. ForgottenPerLoss'
  BY <1>5 DEF ForgottenPerLoss
<1>9. QED
  BY <1>2, <1>3, <1>4, <1>7, <1>8 DEF KeysInv

(* Applying a document keeps all of it: the one entry the map gains is the *)
(* one whose confirmation is published or lost.                            *)
LEMMA KeysInvApply ==
    ASSUME TargetTypeOK, OffsetsInOrder, KeysInv, NEW l \in Lanes, ApplyDocument(l)
    PROVE  KeysInv'
<1> USE DEF Lanes
<1>1. /\ restarts \in Nat /\ resets \in Nat /\ idempotency \in SUBSET Keys
      /\ lost \in [Lanes -> Nat]
      /\ restarts' = restarts /\ resets' = resets
  BY DEF TargetTypeOK, ApplyDocument, budget
<1>2. /\ ConfirmedIsHeld /\ HeldWasCreated /\ DuplicateHasOriginal
      /\ ForgottenPerLoss /\ CreatedOncePerLife
  BY DEF KeysInv
<1>3. CASE Rejects(l) /\ UNCHANGED idempotency
  BY <1>1, <1>3, KeysInvQuiet DEF Rejects
<1>4. CASE Loses(l) /\ idempotency' \in {idempotency, idempotency \cup {l}}
  <2>1. /\ confirmations' = confirmations
        /\ lost'[l] > 0
        /\ \A x \in Lanes \ {l} : lost'[x] = lost[x]
    BY <1>1, <1>4 DEF Loses
  <2>2. \A k \in Lanes : CreatedAt(k)' = CreatedAt(k)
    BY <2>1, CreatedAtKept
  <2>3. ConfirmedIsHeld'
    BY <1>1, <1>2, <1>4, <2>1 DEF ConfirmedIsHeld
  <2>4. HeldWasCreated'
    BY <1>1, <1>2, <1>4, <2>1, <2>2 DEF HeldWasCreated
  <2>5. DuplicateHasOriginal'
    BY <1>1, <1>2, <2>1, <2>2 DEF DuplicateHasOriginal
  <2>6. ForgottenPerLoss'
    BY <1>1, <1>2, <1>4, <2>2 DEF ForgottenPerLoss
  <2>7. CreatedOncePerLife'
    BY <1>1, <1>2, <2>2 DEF CreatedOncePerLife
  <2>8. QED
    BY <2>3, <2>4, <2>5, <2>6, <2>7 DEF KeysInv
<1>5. CASE /\ Confirms(l, "duplicate")
           /\ l \in Keys /\ l \in idempotency
           /\ UNCHANGED idempotency
  <2> DEFINE n == Len(confirmations[l])
  <2>0. "duplicate" \in Outcomes /\ "duplicate" # "created"
    BY DEF Outcomes
  <2>1. /\ n \in Nat
        /\ Len(confirmations'[l]) = n + 1
        /\ \A i \in 1..n : confirmations'[l][i] = confirmations[l][i]
        /\ CreatedAt(l)' = CreatedAt(l)
        /\ \A x \in Lanes \ {l} : confirmations'[x] = confirmations[x]
        /\ lost' = lost
    BY <1>5, <2>0, CreatedAtGrows
  <2>2. \A k \in Lanes : CreatedAt(k)' = CreatedAt(k)
    BY <2>1, CreatedAtKept
  <2>3. ConfirmedIsHeld'
    <3>1. \A k \in Keys \ {l} : confirmations'[k] = confirmations[k]
      BY <2>1
    <3>2. QED
      BY <1>1, <1>2, <1>5, <3>1 DEF ConfirmedIsHeld
  <2>4. HeldWasCreated'
    BY <1>1, <1>2, <1>5, <2>1, <2>2 DEF HeldWasCreated
  <2>5. DuplicateHasOriginal'
    <3>1. SUFFICES ASSUME NEW k \in Keys, NEW i \in 1..Len(confirmations'[k]),
                          confirmations'[k][i].outcome = "duplicate"
                   PROVE  (\E j \in CreatedAt(k) : j < i) \/ lost[k] > 0
      BY <2>1, <2>2 DEF DuplicateHasOriginal
    <3>2. CASE k # l
      BY <1>2, <2>1, <3>1, <3>2 DEF DuplicateHasOriginal
    <3>3. CASE k = l /\ i \in 1..n
      BY <1>2, <2>1, <3>1, <3>3 DEF DuplicateHasOriginal
    <3>4. CASE k = l /\ i = n + 1
      <4>1. CreatedAt(l) # {} \/ lost[l] > 0
        BY <1>2, <1>5 DEF HeldWasCreated
      <4>2. \A j \in CreatedAt(l) : j < n + 1
        BY <2>1 DEF CreatedAt
      <4>3. QED
        BY <3>4, <4>1, <4>2
    <3>5. QED
      BY <2>1, <3>2, <3>3, <3>4
  <2>6. ForgottenPerLoss'
    BY <1>1, <1>2, <1>5, <2>2 DEF ForgottenPerLoss
  <2>7. CreatedOncePerLife'
    BY <1>1, <1>2, <2>2 DEF CreatedOncePerLife
  <2>8. QED
    BY <2>3, <2>4, <2>5, <2>6, <2>7 DEF KeysInv
<1>6. CASE /\ Confirms(l, "created")
           /\ l \in Keys /\ l \notin idempotency
           /\ idempotency' = idempotency \cup {l}
  <2> DEFINE n == Len(confirmations[l])
  <2>0. "created" \in Outcomes /\ "duplicate" # "created"
    BY DEF Outcomes
  <2>1. /\ n \in Nat
        /\ Len(confirmations'[l]) = n + 1
        /\ confirmations'[l][n + 1].outcome = "created"
        /\ \A i \in 1..n : confirmations'[l][i] = confirmations[l][i]
        /\ CreatedAt(l)' = CreatedAt(l) \cup {n + 1}
        /\ \A x \in Lanes \ {l} : confirmations'[x] = confirmations[x]
        /\ lost' = lost
    BY <1>6, <2>0, CreatedAtGrows
  <2>2. \A k \in Lanes \ {l} : CreatedAt(k)' = CreatedAt(k)
    BY <2>1, CreatedAtKept
  <2>3. ConfirmedIsHeld'
    BY <1>1, <1>2, <1>6, <2>1 DEF ConfirmedIsHeld
  <2>4. HeldWasCreated'
    BY <1>1, <1>2, <1>6, <2>1, <2>2 DEF HeldWasCreated
  <2>5. DuplicateHasOriginal'
    <3>1. SUFFICES ASSUME NEW k \in Keys, NEW i \in 1..Len(confirmations'[k]),
                          confirmations'[k][i].outcome = "duplicate"
                   PROVE  (\E j \in CreatedAt(k)' : j < i) \/ lost[k] > 0
      BY <2>1 DEF DuplicateHasOriginal
    <3>2. CASE k # l
      BY <1>2, <2>1, <2>2, <3>1, <3>2 DEF DuplicateHasOriginal
    <3>3. CASE k = l /\ i \in 1..n
      BY <1>2, <2>1, <3>1, <3>3 DEF DuplicateHasOriginal
    <3>4. ~(k = l /\ i = n + 1)
      BY <2>0, <2>1, <3>1
    <3>5. QED
      BY <2>1, <3>2, <3>3, <3>4
  <2>6. \A k \in Keys \ {l} : Cardinality(CreatedAt(k))' = Cardinality(CreatedAt(k))
    BY <2>2
  <2>7. ForgottenPerLoss'
    BY <1>1, <1>2, <1>6, <2>6 DEF ForgottenPerLoss
  <2>8. CreatedOncePerLife'
    <3>1. Cardinality(CreatedAt(l))' <= 1 + restarts + resets
      <4>1. n + 1 \notin CreatedAt(l)
        BY <2>1 DEF CreatedAt
      <4>2. Cardinality(CreatedAt(l) \cup {n + 1}) = Cardinality(CreatedAt(l)) + 1
        BY <4>1, CreatedAtFinite, FS_AddElement
      <4>3. Cardinality(CreatedAt(l)) <= restarts + resets
        BY <1>2, <1>6 DEF ForgottenPerLoss
      <4>4. Cardinality(CreatedAt(l)) \in Nat
        BY CreatedAtFinite
      <4>5. \A c \in Nat : c <= restarts + resets => c + 1 <= 1 + restarts + resets
        BY <1>1
      <4>6. QED
        BY <2>1, <4>2, <4>3, <4>4, <4>5
    <3>2. QED
      BY <1>1, <1>2, <2>6, <3>1 DEF CreatedOncePerLife
  <2>9. QED
    BY <2>3, <2>4, <2>5, <2>7, <2>8 DEF KeysInv
<1>7. QED
  BY <1>3, <1>4, <1>5, <1>6, ApplyAnswers

(* Every step of the mock and of the other producers keeps all of it.      *)
LEMMA KeysInvStep ==
    ASSUME TargetTypeOK, OffsetsInOrder, KeysInv, TargetNext
    PROVE  KeysInv'
<1>1. restarts \in Nat /\ resets \in Nat
  BY DEF TargetTypeOK
<1>2. ASSUME NEW l \in Lanes, ApplyDocument(l) PROVE KeysInv'
  BY <1>2, KeysInvApply
<1>3. CASE Restart \/ Reset
  <2>1. /\ idempotency' = {}
        /\ UNCHANGED <<confirmations, lost>>
        /\ restarts' \in Nat /\ resets' \in Nat
        /\ restarts' + resets' = restarts + resets + 1
    BY <1>1, <1>3 DEF Restart, Reset, topics
  <2>2. QED
    BY <2>1, KeysInvMapLost
<1>4. CASE Poll \/ CommitBatch \/ SuppressNextConfirmation \/ ForeignPublish \/ LoopStops
  <2>1. UNCHANGED <<confirmations, idempotency, lost, restarts, resets>>
    BY <1>4 DEF Poll, CommitBatch, SuppressNextConfirmation, ForeignPublish,
                LoopStops, topics, budget
  <2>2. QED
    BY <2>1, KeysInvQuiet
<1>5. QED
  BY <1>2, <1>3, <1>4 DEF TargetNext, TargetStep

-----------------------------------------------------------------------------
(* The theorems.                                                           *)

(* The initial state satisfies the invariant.                              *)
LEMMA IntakeInvInit == TargetInit => IntakeInv
<1> SUFFICES ASSUME TargetInit PROVE IntakeInv
  OBVIOUS
<1>1. TargetTypeOK
  BY TargetInitTyped
<1>2. OffsetsInOrder /\ AppliedIsAnswered
  <2>1. \A l \in Lanes : /\ Len(targetTopic[l]) = 0 /\ Len(confirmations[l]) = 0
                         /\ Len(rejections[l]) = 0
    BY DEF TargetInit
  <2>2. QED
    BY <2>1 DEF TargetInit, OffsetsInOrder, AppliedIsAnswered
<1>3. \A k \in Keys : CreatedAt(k) = {}
  BY DEF TargetInit, CreatedAt, Lanes
<1>4. ForgottenPerLoss /\ CreatedOncePerLife
  <2>1. \A k \in Keys : Cardinality(CreatedAt(k)) = 0
    BY <1>3, FS_EmptySet
  <2>2. restarts = 0 /\ resets = 0
    BY DEF TargetInit
  <2>3. QED
    BY <2>1, <2>2 DEF ForgottenPerLoss, CreatedOncePerLife
<1>5. ConfirmedIsHeld /\ HeldWasCreated /\ DuplicateHasOriginal
  <2>1. \A k \in Keys : confirmations[k] = <<>>
    BY DEF TargetInit, Lanes
  <2>2. QED
    BY <2>1 DEF TargetInit, ConfirmedIsHeld, HeldWasCreated, DuplicateHasOriginal
<1>6. QED
  BY <1>1, <1>2, <1>4, <1>5 DEF IntakeInv

(* IntakeInv is inductive: the mock's Kafka intake keeps it in every step. *)
THEOREM IntakeInvariant == TargetSpec => []IntakeInv
<1>1. TargetInit => IntakeInv
  BY IntakeInvInit
<1>2. IntakeInv /\ [TargetNext]_mockVars => IntakeInv'
  <2> SUFFICES ASSUME IntakeInv, [TargetNext]_mockVars PROVE IntakeInv'
    OBVIOUS
  <2>1. TargetTypeOK /\ OffsetsInOrder /\ AppliedIsAnswered /\ KeysInv
    BY DEF IntakeInv, KeysInv
  <2>2. CASE TargetNext
    <3>1. TargetTypeOK' /\ OffsetsInOrder'
      BY <2>1, <2>2, TargetStepTyped, OffsetsInOrderStep
    <3>2. AppliedIsAnswered' /\ KeysInv'
      BY <2>1, <2>2, AppliedIsAnsweredStep, KeysInvStep
    <3>3. QED
      BY <3>1, <3>2 DEF IntakeInv, KeysInv
  <2>3. CASE UNCHANGED mockVars
    <3>1. TargetTypeOK'
      BY <2>1, <2>3, TargetStutterTyped
    <3>2. KeysInv'
      BY <2>1, <2>3, KeysInvQuiet DEF mockVars, topics, budget
    <3>3. OffsetsInOrder' /\ AppliedIsAnswered'
      BY <2>1, <2>3 DEF mockVars, topics, offsets, OffsetsInOrder, AppliedIsAnswered
    <3>4. QED
      BY <3>1, <3>2, <3>3 DEF IntakeInv, KeysInv
  <2>4. QED
    BY <2>2, <2>3
<1>3. QED
  BY <1>1, <1>2, PTL DEF TargetSpec

(* Every variable keeps its type.                                          *)
THEOREM TargetTypeCorrect == TargetSpec => []TargetTypeOK
<1>1. IntakeInv => TargetTypeOK
  BY DEF IntakeInv
<1>2. QED
  BY <1>1, IntakeInvariant, PTL

(* Every committed document has been answered, through crashes, resets and *)
(* failed publications: a crash replays, it never skips.                   *)
THEOREM IntakeNothingSkipped == TargetSpec => []NothingSkipped
<1>1. IntakeInv => NothingSkipped
  BY SkippedLemma DEF IntakeInv
<1>2. QED
  BY <1>1, IntakeInvariant, PTL

(* A key is created at most once between two losses of the map.            *)
THEOREM IntakeCreatedOncePerLife == TargetSpec => []CreatedOncePerLife
<1>1. IntakeInv => CreatedOncePerLife
  BY DEF IntakeInv
<1>2. QED
  BY <1>1, IntakeInvariant, PTL

(* A duplicate confirmation never comes without an original, published or  *)
(* lost.                                                                   *)
THEOREM IntakeDuplicateHasOriginal == TargetSpec => []DuplicateHasOriginal
<1>1. IntakeInv => DuplicateHasOriginal
  BY DEF IntakeInv
<1>2. QED
  BY <1>1, IntakeInvariant, PTL

(* While the map is never lost, every confirmed key is held.               *)
THEOREM IntakeConfirmedIsHeld == TargetSpec => []ConfirmedIsHeld
<1>1. IntakeInv => ConfirmedIsHeld
  BY DEF IntakeInv
<1>2. QED
  BY <1>1, IntakeInvariant, PTL
=============================================================================
