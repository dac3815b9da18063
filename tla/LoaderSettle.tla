---------------------------- MODULE LoaderSettle ----------------------------
(***************************************************************************)
(* The Loader App on its Kafka sink (LoaderApp.java, ReturnStream.java),   *)
(* run against the Target System of TargetIntake.                          *)
(*                                                                         *)
(* One attempt reads the documents of the run, publishes each to the       *)
(* target topic, flushes, polls the two return topics until every          *)
(* published key seems to have a verdict or the deadline passes, derives   *)
(* its tally, writes four artefacts and exits.  The DAG retries a failed   *)
(* attempt under the same run id, and nothing is removed from the topics   *)
(* in between.                                                             *)
(***************************************************************************)
EXTENDS TargetIntake

CONSTANTS
    ThisRun,      \* the run being loaded
    Lines,        \* the lines of json/<run>/, in file order
    Malformed,    \* a line that is not JSON or lacks accountId or dedupKey
    MaxAttempts   \* bound: attempts of the loader task

ASSUME ThisRunIsARun == ThisRun \in Runs
ASSUME MalformedIsNoKey == Malformed \notin Lanes
ASSUME LinesAreDocuments == Lines \in Seq(Keys \cup {Malformed}) /\ Lines # <<>>
ASSUME AttemptsAreNat == MaxAttempts \in Nat
ASSUME KeysFinite == IsFiniteSet(Keys)

VARIABLES
    pc,          \* where the attempt is
    attempt,     \* attempts begun
    line,        \* lines read (documentsRead)
    errors,      \* documents refused by the loader itself
    published,   \* KafkaSink.published
    sending,     \* key -> sends the producer has not completed
    readC,       \* key -> position in its confirmations
    readR,       \* key -> position in its rejections
    confirmed, duplicates, rejected,   \* ReturnStream.settle's three sets
    stopped,     \* why the settle loop ended
    artefacts,   \* artefact -> the attempt that last wrote it, 0 if none
    put          \* artefacts put by this attempt

loopVars == <<readC, readR, confirmed, duplicates, rejected>>
sinkVars == <<line, errors, published, sending>>
loaderVars == <<pc, attempt, sinkVars, loopVars, stopped, artefacts, put>>
vars == <<mockVars, loaderVars>>

(* Mutant: the semaphore first.                                            *)
ArtefactOrder_FlagFirst == <<"FLG", "CHS", "ERR", "RPT">>

(* writeArtefacts: the order of the puts, the semaphore last.              *)
ArtefactOrder == <<"CHS", "ERR", "RPT", "FLG">>
Artefacts == {"CHS", "ERR", "RPT", "FLG"}
States == {"idle", "offering", "settling", "writing", "succeeded", "failed", "died"}

LoaderTypeOK ==
    /\ pc \in States
    /\ attempt \in Nat
    /\ line \in 0..Len(Lines)
    /\ errors \in Nat
    /\ published \in SUBSET Keys
    /\ sending \in [Keys -> Nat]
    /\ readC \in [Keys -> Nat]
    /\ readR \in [Keys -> Nat]
    /\ confirmed \in SUBSET Keys
    /\ duplicates \in SUBSET Keys
    /\ rejected \in SUBSET Keys
    /\ stopped \in {"no", "satisfied", "deadline"}
    /\ artefacts \in [Artefacts -> Nat]
    /\ put \in 0..4

TypeOK == TargetTypeOK /\ LoaderTypeOK

LoaderInit ==
    /\ pc = "idle" /\ attempt = 0
    /\ line = 0 /\ errors = 0 /\ published = {}
    /\ sending = [k \in Keys |-> 0]
    /\ readC = [k \in Keys |-> 0] /\ readR = [k \in Keys |-> 0]
    /\ confirmed = {} /\ duplicates = {} /\ rejected = {}
    /\ stopped = "no"
    /\ artefacts = [a \in Artefacts |-> 0] /\ put = 0

Init == TargetInit /\ LoaderInit

-----------------------------------------------------------------------------
(* The offer phase.                                                        *)

(* A fresh process: every collection of main and of the sink is new.  The  *)
(* task runs, is retried after a failure, or is run again by an operator.  *)
BeginAttempt ==
    /\ pc \in {"idle", "succeeded", "failed", "died"}
    /\ attempt < MaxAttempts
    /\ attempt' = attempt + 1
    /\ pc' = "offering"
    /\ line' = 0 /\ errors' = 0 /\ published' = {}
    /\ sending' = [k \in Keys |-> 0]
    /\ readC' = [k \in Keys |-> 0] /\ readR' = [k \in Keys |-> 0]
    /\ confirmed' = {} /\ duplicates' = {} /\ rejected' = {}
    /\ stopped' = "no" /\ put' = 0
    /\ UNCHANGED <<mockVars, artefacts>>

(* Mutant: no requireField.                                                *)
Publish_NoRequireField(doc) ==
    /\ published' = published \cup {doc}
    /\ sending' = [sending EXCEPT ![doc] = @ + 1]
    /\ UNCHANGED errors

(* A line that is not JSON, or that requireField refuses: it goes to .ERR  *)
(* without being sent.                                                     *)
RefuseLine(doc) ==
    /\ doc = Malformed
    /\ errors' = errors + 1
    /\ UNCHANGED <<published, sending>>

(* KafkaSink.offer: the producer gets the document and the key is recorded *)
(* at once, whatever the callback will say.                                *)
Publish(doc) ==
    /\ doc # Malformed
    /\ published' = published \cup {doc}
    /\ sending' = [sending EXCEPT ![doc] = @ + 1]
    /\ UNCHANGED errors

(* The next line of the run's files.                                       *)
Offer ==
    /\ pc = "offering"
    /\ line < Len(Lines)
    /\ line' = line + 1
    /\ LET doc == Lines[line + 1] IN RefuseLine(doc) \/ Publish(doc)
    /\ UNCHANGED <<mockVars, pc, attempt, loopVars, stopped, artefacts, put>>

(* What a parsed line looks like to the Target System.                     *)
LoadedDocument == [run |-> ThisRun, kind |-> "account"]

(* The broker acknowledges a send: the document is on the topic.           *)
SendCompletes(k) ==
    /\ pc = "offering"
    /\ sending[k] > 0
    /\ sending' = [sending EXCEPT ![k] = @ - 1]
    /\ targetTopic' = Append1(targetTopic, k, LoadedDocument)
    /\ UNCHANGED <<confirmations, rejections, idempotency, suppressNext, loop,
                   offsets, budget, lost, pc, attempt, line, errors, published,
                   loopVars, stopped, artefacts, put>>

(* The callback gets an exception and logs it: the broker refused the      *)
(* document, or the producer gave up waiting for an append that happened.  *)
SendFails(k) ==
    /\ pc = "offering"
    /\ sending[k] > 0
    /\ sending' = [sending EXCEPT ![k] = @ - 1]
    /\ targetTopic' \in {targetTopic, Append1(targetTopic, k, LoadedDocument)}
    /\ UNCHANGED <<confirmations, rejections, idempotency, suppressNext, loop,
                   offsets, budget, lost, pc, attempt, line, errors, published,
                   loopVars, stopped, artefacts, put>>

(* producer.flush returns once every send has completed or failed; then    *)
(* the consumer is assigned and sought to the beginning of both topics.    *)
Flush ==
    /\ pc = "offering"
    /\ line = Len(Lines)
    /\ \A k \in Keys : sending[k] = 0
    /\ pc' = "settling"
    /\ UNCHANGED <<mockVars, attempt, sinkVars, loopVars, stopped, artefacts, put>>

-----------------------------------------------------------------------------
(* The settle phase.                                                       *)

(* Mutant: no runId filter.                                                *)
OfThisRun_AnyRun(topic, k, lo, hi) == (lo + 1)..hi

(* Events of one batch that concern this run: positions lo+1..hi.          *)
OfThisRun(topic, k, lo, hi) == {i \in (lo + 1)..hi : topic[k][i].run = ThisRun}

(* Mutant: off by one.                                                     *)
Unsatisfied_OffByOne ==
    Cardinality(confirmed) + Cardinality(duplicates) + Cardinality(rejected) + 1
        < Cardinality(published)

(* The loop goes on while the three sets together are smaller than the     *)
(* awaited one.                                                            *)
Unsatisfied ==
    Cardinality(confirmed) + Cardinality(duplicates) + Cardinality(rejected)
        < Cardinality(published)

(* Mutant: the last event of the batch wins, rejections included.          *)
ReadBatch_LastWins(hiC, hiR, rejLast) ==
    LET refused == {k \in published : OfThisRun(rejections, k, readR[k], hiR[k]) # {}}
        spoken == {k \in published : OfThisRun(confirmations, k, readC[k], hiC[k]) # {}}
    IN /\ readC' = hiC
       /\ readR' = hiR
       /\ rejected' = (rejected \cup refused) \ (spoken \ rejLast)
       /\ confirmed' = (confirmed \cup spoken) \ (refused \cap rejLast)
       /\ UNCHANGED duplicates

(* One batch, up to the positions hiC and hiR of the two topics.  Records  *)
(* come partition by partition, so for a key with both kinds of event      *)
(* either may come first: rejLast are the keys whose rejections come after *)
(* their confirmations.  A rejection removes the key from the other two    *)
(* sets; a confirmation moves it between those two and does not look at    *)
(* rejected.                                                               *)
ReadBatch(hiC, hiR, rejLast) ==
    LET told(k) == OfThisRun(confirmations, k, readC[k], hiC[k])
        refused == {k \in published : OfThisRun(rejections, k, readR[k], hiR[k]) # {}}
        spoken == {k \in published : told(k) # {}}
        standing == spoken \ (refused \cap rejLast)
        saying(o) == {k \in standing :
            \E i \in told(k) : /\ \A j \in told(k) : j <= i
                               /\ confirmations[k][i].outcome = o}
    IN /\ readC' = hiC
       /\ readR' = hiR
       /\ rejected' = rejected \cup refused
       /\ confirmed' = (confirmed \ (spoken \cup refused)) \cup saying("created")
       /\ duplicates' = (duplicates \ (spoken \cup refused)) \cup saying("duplicate")

(* One poll of both return topics, and its batch.                          *)
PollReturnTopics ==
    /\ pc = "settling"
    /\ Unsatisfied
    /\ \E hiC \in Batches(Keys, confirmations, readC),
          hiR \in Batches(Keys, rejections, readR) :
          /\ <<hiC, hiR>> # <<readC, readR>>
          /\ \E rejLast \in SUBSET {k \in Keys : hiC[k] # readC[k] /\ hiR[k] # readR[k]} :
                ReadBatch(hiC, hiR, rejLast)
    /\ UNCHANGED <<mockVars, pc, attempt, sinkVars, stopped, artefacts, put>>

SettleSatisfied ==
    /\ pc = "settling"
    /\ ~Unsatisfied
    /\ stopped' = "satisfied"
    /\ pc' = "writing"
    /\ UNCHANGED <<mockVars, attempt, sinkVars, loopVars, artefacts, put>>

(* Mutant: the deadline ends the loop only together with the count.        *)
SettleDeadline_AndSatisfied ==
    /\ pc = "settling"
    /\ ~Unsatisfied
    /\ stopped' = "deadline"
    /\ pc' = "writing"
    /\ UNCHANGED <<mockVars, attempt, sinkVars, loopVars, artefacts, put>>

(* --settle-timeout-seconds have passed; the same end as return topics     *)
(* that do not exist, when nothing was ever said on them.                  *)
SettleDeadline ==
    /\ pc = "settling"
    /\ Unsatisfied
    /\ stopped' = "deadline"
    /\ pc' = "writing"
    /\ UNCHANGED <<mockVars, attempt, sinkVars, loopVars, artefacts, put>>

-----------------------------------------------------------------------------
(* Mutant: rejected keys are not taken out of the confirmed ones.          *)
Accepted_KeepsRejected == (confirmed \cap published) \ (duplicates \cap published)

(* Mutant: what was published counts as accepted.                          *)
Accepted_OnPublish == published \ (rejected \cup duplicates)

(* settleAgainst: the tally, a function of the published keys and the      *)
(* three sets.  A rejection outranks both outcomes, a duplicate outranks a *)
(* creation, and unsettled is what the subtraction leaves.                 *)
Rejected == rejected \cap published
Duplicates == (duplicates \cap published) \ Rejected
Accepted == ((confirmed \cap published) \ Rejected) \ Duplicates
Unsettled == Cardinality(published) - Cardinality(Accepted)
                 - Cardinality(Duplicates) - Cardinality(Rejected)

(* writeArtefacts: one put per artefact.                                   *)
PutArtefact ==
    /\ pc = "writing"
    /\ put < 4
    /\ artefacts' = [artefacts EXCEPT ![ArtefactOrder[put + 1]] = attempt]
    /\ put' = put + 1
    /\ UNCHANGED <<mockVars, pc, attempt, sinkVars, loopVars, stopped>>

(* Mutant: unsettled documents are only reported.                          *)
Exit_OnlyReports ==
    /\ pc = "writing"
    /\ put = 4
    /\ pc' = "succeeded"
    /\ UNCHANGED <<mockVars, attempt, sinkVars, loopVars, stopped, artefacts, put>>

(* System.exit(1) when something is unsettled; errors alone do not fail.   *)
Exit ==
    /\ pc = "writing"
    /\ put = 4
    /\ pc' = IF Unsettled > 0 THEN "failed" ELSE "succeeded"
    /\ UNCHANGED <<mockVars, attempt, sinkVars, loopVars, stopped, artefacts, put>>

(* The pod is killed, or a call throws: sends in flight are abandoned.     *)
Die ==
    /\ pc \in {"offering", "settling", "writing"}
    /\ pc' = "died"
    /\ sending' = [k \in Keys |-> 0]
    /\ UNCHANGED <<mockVars, attempt, line, errors, published, loopVars,
                   stopped, artefacts, put>>

SendStep == \E k \in Keys : SendCompletes(k) \/ SendFails(k)

LoaderStep ==
    \/ Offer \/ SendStep \/ Flush
    \/ SettleSatisfied \/ SettleDeadline
    \/ PutArtefact \/ Exit

LoaderNext ==
    \/ BeginAttempt
    \/ Offer
    \/ \E k \in Keys : SendCompletes(k)
    \/ \E k \in Keys : SendFails(k)
    \/ Flush
    \/ PollReturnTopics
    \/ SettleSatisfied
    \/ SettleDeadline
    \/ PutArtefact
    \/ Exit
    \/ Die

Next == LoaderNext \/ (TargetStep /\ UNCHANGED loaderVars)

Spec == Init /\ [][Next]_vars

(* The loader's thread runs, its producer completes or fails each send     *)
(* within delivery.timeout.ms, and the clock reaches the deadline.         *)
(* Nothing is assumed of the Target System.                                *)
FairSpec == Spec /\ WF_vars(LoaderStep)

-----------------------------------------------------------------------------
(* Properties.                                                             *)

Tallied == pc \in {"writing", "succeeded", "failed"}

(* The verdicts the Target System has published about a key of this run.   *)
SaidOutcome(k, o) == \E i \in 1..Len(confirmations[k]) :
    confirmations[k][i] = [run |-> ThisRun, outcome |-> o]
SaidRejected(k) == \E i \in 1..Len(rejections[k]) : rejections[k][i].run = ThisRun

(* The number the report calls unsettled is the number of published keys   *)
(* in none of the three sets: the subtraction of settleAgainst counts no   *)
(* key twice, and so never goes negative, although the loop can leave a    *)
(* key both rejected and confirmed.                                        *)
UnsettledIsExact ==
    Tallied =>
        Unsettled = Cardinality(published \ (confirmed \cup duplicates \cup rejected))

(* A loader that exits 0 has a verdict of this run, given by the Target    *)
(* System, for every key it published; another run's traffic, a failed     *)
(* send, a dead consumer or a lost verdict cannot stand in for one.        *)
CleanExitAnswered ==
    pc = "succeeded" =>
        \A k \in published :
            SaidOutcome(k, "created") \/ SaidOutcome(k, "duplicate") \/ SaidRejected(k)

(* Accepted and duplicate keys are accounts the Target System holds, as    *)
(* long as it has not lost its memory: the tally is about the Target       *)
(* System and not about the loader's own outbox.                           *)
CountedIsHeld ==
    Tallied /\ restarts + resets = 0 => Accepted \cup Duplicates \subseteq idempotency

(* Without a rejection, the loop ends before its deadline only when every  *)
(* published key has its verdict.                                          *)
SatisfiedUnlessRejected ==
    stopped = "satisfied" /\ rejected = {} => published \subseteq confirmed \cup duplicates

(* The semaphore is never ahead of what it announces: each artefact was    *)
(* written by the attempt that wrote the flag, or by a later one; and      *)
(* after a clean exit all four are that attempt's own.  A flag behind its  *)
(* artefacts is allowed: an earlier attempt's stays until the next one     *)
(* writes its own.                                                         *)
FlagNeverAhead ==
    /\ \A a \in Artefacts : artefacts[a] >= artefacts["FLG"]
    /\ pc \in {"succeeded", "failed"} => \A a \in Artefacts : artefacts[a] = attempt

(* Within an attempt a settled key stays settled and a rejected key stays  *)
(* rejected, in whatever order the two topics are read.                    *)
Settled == confirmed \cup duplicates \cup rejected
VerdictsOnlyGrow ==
    [][pc = "settling" => Settled \subseteq Settled' /\ rejected \subseteq rejected']_vars

(* Whatever the Target System does, an attempt ends.                       *)
AttemptEnds == pc = "offering" ~> pc \in {"succeeded", "failed", "died"}

(* What makes CleanExitAnswered and CountedIsHeld inductive: the three sets *)
(* hold published keys only, each with the verdict its set stands for.     *)
Evidence ==
    /\ Settled \subseteq published
    /\ \A k \in confirmed : SaidOutcome(k, "created")
    /\ \A k \in duplicates : SaidOutcome(k, "duplicate")
    /\ \A k \in rejected : SaidRejected(k)
    /\ pc = "succeeded" => Unsettled <= 0

(* What makes FlagNeverAhead inductive: while an attempt writes, the       *)
(* artefacts it has put are its own, and the flag comes last.              *)
ArtefactsInOrder ==
    /\ \A a \in Artefacts : artefacts["FLG"] <= artefacts[a] /\ artefacts[a] <= attempt
    /\ pc \in {"offering", "settling"} => put = 0
    /\ pc = "writing" => /\ put >= 1 => artefacts["CHS"] = attempt
                         /\ put >= 2 => artefacts["ERR"] = attempt
                         /\ put >= 3 => artefacts["RPT"] = attempt
                         /\ put >= 4 => artefacts["FLG"] = attempt
    /\ pc \in {"succeeded", "failed"} => \A a \in Artefacts : artefacts[a] = attempt

(* The inductive invariant of the loader and the Target System together.   *)
LoaderInv ==
    /\ TypeOK
    /\ OffsetsInOrder
    /\ ConfirmedIsHeld
    /\ HeldWasCreated
    /\ DuplicateHasOriginal
    /\ ForgottenPerLoss
    /\ CreatedOncePerLife
    /\ Evidence
    /\ ArtefactsInOrder

(* The class of each key in the tally, and the contract the loader keeps.  *)
ClassOf(k) ==
    CASE ~Tallied \/ k \notin published -> "none"
      [] Tallied /\ k \in Rejected -> "rejected"
      [] Tallied /\ k \in Duplicates -> "duplicate"
      [] Tallied /\ k \in Accepted -> "created"
      [] OTHER -> "unsettled"

PhaseNow ==
    CASE pc \in {"offering", "settling"} -> "open"
      [] pc = "writing" -> "tallied"
      [] OTHER -> "closed"
SaidOf(k) ==
    {o \in Outcomes : SaidOutcome(k, o)} \cup {v \in {"rejected"} : SaidRejected(k)}
SaidNow == [k \in Keys |-> SaidOf(k)]
ClassNow == [k \in Keys |-> ClassOf(k)]
ExitNow ==
    CASE pc = "succeeded" -> "clean"
      [] pc \in {"failed", "died"} -> "failed"
      [] OTHER -> "none"

Contract == INSTANCE LoadContract WITH
    phase <- PhaseNow, offered <- published, said <- SaidNow,
    class <- ClassNow, exit <- ExitNow

(* The loader implements LoadContract: its classes are verdicts really     *)
(* given, each published key is in one class, and the exit code tells      *)
(* whether any is unsettled.                                               *)
KeepsContract == Contract!ContractSpec

(* What ReturnStream's class comment says: the loop polls until every key  *)
(* has been confirmed or rejected, and stops early only on the deadline.   *)
SatisfiedMeansSettled == stopped = "satisfied" => published \subseteq Settled
=============================================================================
