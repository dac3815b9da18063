---------------------------- MODULE TargetIntake ----------------------------
(***************************************************************************)
(* The Kafka intake of the Target System mock                              *)
(* (apps/target-system-mock/.../TargetSystemMock.java).                    *)
(*                                                                         *)
(* One consumer thread polls the target topic, applies each document of    *)
(* the batch and publishes one verdict for it on one of two return topics, *)
(* then commits the batch.  The idempotency map lives in memory only.      *)
(*                                                                         *)
(* Every topic is partitioned by message key, so the model keeps one log   *)
(* per key: order is kept within a key and free between keys, which covers *)
(* every assignment of keys to partitions.  Blank stands for all messages  *)
(* without a usable key.                                                   *)
(***************************************************************************)
EXTENDS Naturals, Sequences, FiniteSets

CONSTANTS
    Keys,         \* dedup keys (migration.dedupKey, one per account)
    Blank,        \* the lane of the messages with a null or blank key
    Runs,         \* run ids
    NoRun,        \* the empty run id of a document that is not JSON
    MaxForeign,   \* bound: documents put on the topic by other producers
    MaxRestarts,  \* bound: restarts of the mock's process
    MaxResets,    \* bound: calls of /__admin/reset
    MaxArmed,     \* bound: calls of /__admin/suppress-next-confirmation
    MaxLost       \* bound: verdicts per lane that never reach the topic

ASSUME NamesDistinct == Blank \notin Keys /\ NoRun \notin Runs
ASSUME BoundsAreNat ==
    {MaxForeign, MaxRestarts, MaxResets, MaxArmed, MaxLost} \subseteq Nat

Lanes == Keys \cup {Blank}

(* What applyDocument can tell about a document: it parses and has an      *)
(* account id, it parses without one, or it is not JSON at all.            *)
Kinds == {"account", "noAccountId", "notJson"}
Document == [run : Runs, kind : Kinds]

Outcomes == {"created", "duplicate"}
Confirmation == [run : Runs, outcome : Outcomes]
Rejection == [run : Runs \cup {NoRun}]

VARIABLES
    targetTopic,    \* lane -> documents published, in order
    confirmations,  \* lane -> confirmation events, in order
    rejections,     \* lane -> rejection events, in order
    idempotency,    \* the keys of the idempotency map
    suppressNext,   \* suppressNextConfirmation
    loop,           \* whether the consumer loop is running
    applied,        \* lane -> documents applied by this consumer
    fetched,        \* lane -> documents in the batches polled so far
    committed,      \* lane -> the group's committed offset
    foreign, restarts, resets, armed,   \* counters for the bounds
    lost            \* history: lane -> verdicts that never reached a topic

topics == <<targetTopic, confirmations, rejections>>
offsets == <<applied, fetched, committed>>
budget == <<foreign, restarts, resets, armed>>
mockVars == <<topics, idempotency, suppressNext, loop, offsets, budget, lost>>

TargetTypeOK ==
    /\ targetTopic \in [Lanes -> Seq(Document)]
    /\ confirmations \in [Lanes -> Seq(Confirmation)]
    /\ rejections \in [Lanes -> Seq(Rejection)]
    /\ idempotency \in SUBSET Keys
    /\ suppressNext \in {"off", "armed"}
    /\ loop \in {"running", "stopped"}
    /\ applied \in [Lanes -> Nat]
    /\ fetched \in [Lanes -> Nat]
    /\ committed \in [Lanes -> Nat]
    /\ foreign \in Nat /\ restarts \in Nat /\ resets \in Nat /\ armed \in Nat
    /\ lost \in [Lanes -> Nat]

TargetInit ==
    /\ targetTopic = [l \in Lanes |-> <<>>]
    /\ confirmations = [l \in Lanes |-> <<>>]
    /\ rejections = [l \in Lanes |-> <<>>]
    /\ idempotency = {}
    /\ suppressNext = "off"
    /\ loop = "running"
    /\ applied = [l \in Lanes |-> 0]
    /\ fetched = [l \in Lanes |-> 0]
    /\ committed = [l \in Lanes |-> 0]
    /\ foreign = 0 /\ restarts = 0 /\ resets = 0 /\ armed = 0
    /\ lost = [l \in Lanes |-> 0]

-----------------------------------------------------------------------------
(* Publishing.                                                             *)

(* producer.send on the target topic: the broker appends to the key's log. *)
Append1(topic, l, m) == [topic EXCEPT ![l] = Append(@, m)]

(* A verdict's send().get() that throws: logged, never retried.            *)
VerdictLost(l) ==
    /\ lost[l] < MaxLost
    /\ lost' = [lost EXCEPT ![l] = @ + 1]
    /\ UNCHANGED <<confirmations, rejections>>

(* publishConfirmation: the one-shot flag is taken first and swallows      *)
(* whichever confirmation comes next; a failed send is only logged.        *)
PublishConfirmation(l, run, outcome) ==
    \/ /\ suppressNext = "armed"
       /\ suppressNext' = "off"
       /\ lost' = [lost EXCEPT ![l] = @ + 1]
       /\ UNCHANGED <<confirmations, rejections>>
    \/ /\ suppressNext = "off"
       /\ confirmations' = Append1(confirmations, l, [run |-> run, outcome |-> outcome])
       /\ UNCHANGED <<rejections, suppressNext, lost>>
    \/ suppressNext = "off" /\ VerdictLost(l) /\ UNCHANGED suppressNext

(* publishRejection: a document that did not parse has no run id to carry. *)
PublishRejection(l, doc) ==
    /\ \/ /\ rejections' = Append1(rejections, l,
                [run |-> IF doc.kind = "notJson" THEN NoRun ELSE doc.run])
          /\ UNCHANGED <<confirmations, lost>>
       \/ VerdictLost(l)
    /\ UNCHANGED suppressNext

-----------------------------------------------------------------------------
(* The consumer loop.                                                      *)

(* What one poll can return from a reader at position from: of each lane   *)
(* in S, any stretch of what is next.                                      *)
Batches(S, topic, from) ==
    {upTo \in [S -> UNION {0..Len(topic[l]) : l \in S}] :
        \A l \in S : from[l] <= upTo[l] /\ upTo[l] <= Len(topic[l])}

(* consumer.poll: the next batch, once the last one is committed.          *)
Poll ==
    /\ loop = "running"
    /\ fetched = committed
    /\ fetched' \in Batches(Lanes, targetTopic, fetched) \ {fetched}
    /\ UNCHANGED <<topics, idempotency, suppressNext, loop, applied, committed,
                   budget, lost>>

(* Mutant: the key is entered in the map before the document is checked.   *)
Refuse_PoisonsKey(l, doc) ==
    /\ doc.kind # "account" \/ l = Blank
    /\ PublishRejection(l, doc)
    /\ idempotency' = idempotency \cup ({l} \cap Keys)

(* A refusal leaves the idempotency map alone.                             *)
Refuse(l, doc) ==
    /\ doc.kind # "account" \/ l = Blank
    /\ PublishRejection(l, doc)
    /\ UNCHANGED idempotency

(* putIfAbsent found the key: no second account, but still a verdict.      *)
AcknowledgeDuplicate(l, doc) ==
    /\ doc.kind = "account" /\ l # Blank
    /\ l \in idempotency
    /\ PublishConfirmation(l, doc.run, "duplicate")
    /\ UNCHANGED idempotency

(* Mutant: no check for a blank key.                                       *)
Create_NoBlankCheck(l, doc) ==
    /\ doc.kind = "account"
    /\ l \notin idempotency
    /\ idempotency' = idempotency \cup {l}
    /\ PublishConfirmation(l, doc.run, "created")

(* Mutant: put in place of putIfAbsent.                                    *)
Create_NoPutIfAbsent(l, doc) ==
    /\ doc.kind = "account" /\ l # Blank
    /\ idempotency' = idempotency \cup {l}
    /\ PublishConfirmation(l, doc.run, "created")

(* Mutant: confirmed, and not stored.                                      *)
Create_ConfirmsOnly(l, doc) ==
    /\ doc.kind = "account" /\ l # Blank
    /\ l \notin idempotency
    /\ UNCHANGED idempotency
    /\ PublishConfirmation(l, doc.run, "created")

(* A new key: the account is stored, then confirmed.                       *)
Create(l, doc) ==
    /\ doc.kind = "account" /\ l # Blank
    /\ l \notin idempotency
    /\ idempotency' = idempotency \cup {l}
    /\ PublishConfirmation(l, doc.run, "created")

(* Mutant: a document that is refused throws and is polled again for ever. *)
ApplyDocument_StallsOnRefusal(l) ==
    /\ loop = "running"
    /\ applied[l] < fetched[l]
    /\ applied' = [applied EXCEPT ![l] = @ + 1]
    /\ LET doc == targetTopic[l][applied[l] + 1]
       IN AcknowledgeDuplicate(l, doc) \/ Create(l, doc)
    /\ UNCHANGED <<targetTopic, loop, fetched, committed, budget>>

(* applyDocument on the lane's next fetched document.                      *)
ApplyDocument(l) ==
    /\ loop = "running"
    /\ applied[l] < fetched[l]
    /\ applied' = [applied EXCEPT ![l] = @ + 1]
    /\ LET doc == targetTopic[l][applied[l] + 1]
       IN Refuse(l, doc) \/ AcknowledgeDuplicate(l, doc) \/ Create(l, doc)
    /\ UNCHANGED <<targetTopic, loop, fetched, committed, budget>>

(* Mutant: the batch is committed as soon as it is polled.                 *)
CommitBatch_Early ==
    /\ loop = "running"
    /\ fetched # committed
    /\ committed' = fetched
    /\ UNCHANGED <<topics, idempotency, suppressNext, loop, applied, fetched,
                   budget, lost>>

(* commitSync, only after the whole batch was applied.                     *)
CommitBatch ==
    /\ loop = "running"
    /\ applied = fetched
    /\ fetched # committed
    /\ committed' = fetched
    /\ UNCHANGED <<topics, idempotency, suppressNext, loop, applied, fetched,
                   budget, lost>>

(* An exception out of poll or commitSync: the loop ends, the process and  *)
(* its HTTP endpoints stay up, and nothing starts the loop again.          *)
LoopStops ==
    /\ loop = "running"
    /\ loop' = "stopped"
    /\ UNCHANGED <<topics, idempotency, suppressNext, offsets, budget, lost>>

(* The process dies and comes back: the maps and the flag are gone, the    *)
(* consumer resumes at the group's committed offset.                       *)
Restart ==
    /\ restarts < MaxRestarts
    /\ restarts' = restarts + 1
    /\ idempotency' = {}
    /\ suppressNext' = "off"
    /\ loop' = "running"
    /\ applied' = committed
    /\ fetched' = committed
    /\ UNCHANGED <<topics, committed, foreign, resets, armed, lost>>

-----------------------------------------------------------------------------
(* The admin endpoints, and the other producers of the target topic.       *)

(* POST /__admin/reset, between two documents.                             *)
Reset ==
    /\ resets < MaxResets
    /\ resets' = resets + 1
    /\ idempotency' = {}
    /\ suppressNext' = "off"
    /\ UNCHANGED <<topics, loop, offsets, foreign, restarts, armed, lost>>

(* POST /__admin/suppress-next-confirmation.                               *)
SuppressNextConfirmation ==
    /\ armed < MaxArmed
    /\ armed' = armed + 1
    /\ suppressNext' = "armed"
    /\ UNCHANGED <<topics, idempotency, loop, offsets, foreign, restarts, resets, lost>>

(* The JSON Data Producer publishes the same documents to the same topic   *)
(* before the Loader does; loaders of other runs share it; and a           *)
(* hand-edited or unvalidated document is what the mock's checks are for.  *)
ForeignPublish ==
    /\ foreign < MaxForeign
    /\ foreign' = foreign + 1
    /\ \E l \in Lanes, doc \in Document :
          targetTopic' = Append1(targetTopic, l, doc)
    /\ UNCHANGED <<confirmations, rejections, idempotency, suppressNext, loop,
                   offsets, restarts, resets, armed, lost>>

ConsumerStep == Poll \/ (\E l \in Lanes : ApplyDocument(l)) \/ CommitBatch

(* LoopStops stands apart: without fairness a consumer that has stopped    *)
(* does nothing one that is never scheduled could not do.                  *)
TargetStep ==
    \/ Poll
    \/ \E l \in Lanes : ApplyDocument(l)
    \/ CommitBatch
    \/ Restart
    \/ Reset
    \/ SuppressNextConfirmation
    \/ ForeignPublish

TargetNext == TargetStep \/ LoopStops

TargetSpec == TargetInit /\ [][TargetNext]_mockVars

(* The consumer thread is never starved; nothing else is promised.         *)
FairTargetSpec == TargetSpec /\ WF_mockVars(ConsumerStep)

-----------------------------------------------------------------------------
(* Properties.                                                             *)

CreatedAt(l) == {i \in 1..Len(confirmations[l]) : confirmations[l][i].outcome = "created"}

(* The consumer's three positions are in order and within the log.         *)
OffsetsInOrder ==
    \A l \in Lanes : /\ committed[l] <= applied[l]
                     /\ applied[l] <= fetched[l]
                     /\ fetched[l] <= Len(targetTopic[l])

(* Offsets advance only over documents that were answered: whatever is     *)
(* committed has a verdict on a return topic, or one whose publication     *)
(* failed and was logged.  "A crash mid-batch replays rather than silently *)
(* skips" (consumeLoop).                                                   *)
NothingSkipped ==
    \A l \in Lanes :
        committed[l] <= Len(confirmations[l]) + Len(rejections[l]) + lost[l]

(* The map makes redelivery safe: between two losses of the map a key is   *)
(* created once, however often its document is delivered.                  *)
CreatedOncePerLife ==
    \A k \in Keys : Cardinality(CreatedAt(k)) <= 1 + restarts + resets

(* "Already applied by an earlier delivery": no key is called a duplicate  *)
(* unless a delivery before it created the account, its own confirmation   *)
(* possibly suppressed or failed.  A refused document does not poison the  *)
(* key for the good one that follows.                                      *)
DuplicateHasOriginal ==
    \A k \in Keys : \A i \in 1..Len(confirmations[k]) :
        confirmations[k][i].outcome = "duplicate" =>
            \/ \E j \in CreatedAt(k) : j < i
            \/ lost[k] > 0

(* What the map remembers, in support of the two properties above: a held  *)
(* key was created with a confirmation, published or lost, and a key that  *)
(* is not held was created at most once per loss of the map.               *)
HeldWasCreated ==
    \A k \in idempotency : CreatedAt(k) # {} \/ lost[k] > 0
ForgottenPerLoss ==
    \A k \in Keys \ idempotency : Cardinality(CreatedAt(k)) <= restarts + resets

(* Every applied document has been answered; the committed ones are among  *)
(* the applied ones.                                                       *)
AppliedIsAnswered ==
    \A l \in Lanes :
        applied[l] <= Len(confirmations[l]) + Len(rejections[l]) + lost[l]

(* As long as the map was never lost, a confirmed key is one the Target    *)
(* System holds, whichever outcome the confirmation carries.               *)
ConfirmedIsHeld ==
    restarts + resets = 0 =>
        \A k \in Keys : confirmations[k] # <<>> => k \in idempotency

(* The inductive invariant of the intake.                                  *)
IntakeInv ==
    /\ TargetTypeOK
    /\ OffsetsInOrder
    /\ AppliedIsAnswered
    /\ ConfirmedIsHeld
    /\ HeldWasCreated
    /\ DuplicateHasOriginal
    /\ ForgottenPerLoss
    /\ CreatedOncePerLife

(* What the comments of consumeLoop conclude from the map: delivered at    *)
(* least once, applied once.                                               *)
AppliedOnce == \A k \in Keys : Cardinality(CreatedAt(k)) <= 1

(* A consumer that keeps running reaches every document: a refused or a    *)
(* lost verdict never blocks the lane.                                     *)
EveryDocumentReached ==
    <>[](loop = "running") =>
        \A l \in Lanes : \A n \in 1..MaxForeign :
            Len(targetTopic[l]) >= n ~> committed[l] >= n
=============================================================================
