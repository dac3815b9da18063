------------------------------ MODULE HttpLoad ------------------------------
(***************************************************************************)
(* The legacy HTTP lane: the Loader's HttpSink (LoaderApp.java) against    *)
(* the POST handler of the Target System mock (TargetSystemMock.java).     *)
(*                                                                         *)
(* The Loader is one thread: it posts a line, waits for an answer for at   *)
(* most 30 s, and tries again.  A request it has given up on is still      *)
(* handled.  The mock answers on a pool of threads, applies documents of   *)
(* the target topic on another one, and may run as several instances, each *)
(* with maps of its own.  TargetIntake takes applyDocument in one step;    *)
(* here the steps of a handler on the two shared maps are apart.           *)
(***************************************************************************)
EXTENDS Naturals, Sequences, FiniteSets, FiniteSetsExt

CONSTANTS
    Keys,         \* dedup keys, one per account
    Malformed,    \* a line that is not JSON or lacks a required field
    Lines,        \* the lines of the run's files, in order
    Deliveries,   \* keys of the documents on the target topic, in order
    Instances,    \* running copies of the mock
    Threads,      \* handler threads of one instance
    MaxRetries,   \* --max-retries
    MaxRestarts,  \* bound: restarts of an instance
    MaxAdmin,     \* bound: calls of the two admin endpoints, together
    MaxLost       \* bound: confirmations whose publication fails

ASSUME LinesAreKeys ==
    /\ Malformed \notin Keys
    /\ Lines \in Seq(Keys \cup {Malformed}) /\ Deliveries \in Seq(Keys)
ASSUME HttpBoundsAreNat ==
    /\ {MaxRetries, MaxRestarts, MaxAdmin, MaxLost} \subseteq Nat
    /\ Threads \in Nat \ {0}
ASSUME SomeInstance == Instances # {} /\ IsFiniteSet(Instances)

(* A job is a request, named by its line and attempt, or a delivery of the *)
(* target topic, which has line 0.                                         *)
Requests == {n \in 1..Len(Lines) : Lines[n] # Malformed} \X (0..MaxRetries)
Consumed == {0} \X (1..Len(Deliveries))
Jobs == Requests \cup Consumed
KeyOf(j) == IF j \in Consumed THEN Deliveries[j[2]] ELSE Lines[j[1]]

(* 201, 200, 429 or 503, and any other status.                             *)
Answers == {"created", "duplicate", "busy", "refused"}
Stages == {"none", "sent", "claimed", "stored", "gone"} \cup Answers

VARIABLES
    stage,         \* job -> how far it has come
    at,            \* job -> the instance that handles it
    idempotency,   \* instance -> keys of its idempotency map
    accounts,      \* instance -> keys whose account it holds
    suppressNext,  \* instances with the one-shot flag set
    resetting,     \* instance -> steps done of a reset under way
    restarts, resets, armed,   \* counters for the bounds
    creations,     \* history: instance -> key -> accounts.put calls
    events,        \* key -> "created" confirmations on the topic
    lost,          \* history: key -> "created" confirmations never published
    pc,            \* where the Loader is
    line, attempt, \* the line it works on, and the attempt
    accepted, duplicates, retries,   \* HttpSink's counters
    errors         \* lines in the Loader's error list

mapVars == <<idempotency, accounts>>
adminVars == <<suppressNext, resetting, restarts, resets, armed>>
eventVars == <<events, lost>>
mockVars == <<mapVars, adminVars, eventVars, creations>>
tally == <<accepted, duplicates, retries, errors>>
loaderVars == <<pc, line, attempt, tally>>
vars == <<stage, at, mockVars, loaderVars>>

HttpTypeOK ==
    /\ stage \in [Jobs -> Stages]
    /\ at \in [Jobs -> Instances]
    /\ idempotency \in [Instances -> SUBSET Keys]
    /\ accounts \in [Instances -> SUBSET Keys]
    /\ suppressNext \subseteq Instances
    /\ resetting \in [Instances -> 0..2]
    /\ restarts \in 0..MaxRestarts /\ resets \in 0..MaxAdmin /\ armed \in 0..MaxAdmin
    /\ creations \in [Instances -> [Keys -> Nat]]
    /\ events \in [Keys -> Nat] /\ lost \in [Keys -> Nat]
    /\ pc \in {"next", "waiting", "backoff", "done"}
    /\ line \in 0..Len(Lines) /\ attempt \in 0..MaxRetries
    /\ accepted \in Nat /\ duplicates \in Nat
    /\ retries \in 0..MaxRetries * Len(Lines)
    /\ errors \subseteq 1..Len(Lines)

Init ==
    /\ stage = [j \in Jobs |-> "none"]
    /\ at = [j \in Jobs |-> CHOOSE i \in Instances : TRUE]
    /\ idempotency = [i \in Instances |-> {}]
    /\ accounts = [i \in Instances |-> {}]
    /\ suppressNext = {}
    /\ resetting = [i \in Instances |-> 0]
    /\ restarts = 0 /\ resets = 0 /\ armed = 0
    /\ creations = [i \in Instances |-> [k \in Keys |-> 0]]
    /\ events = [k \in Keys |-> 0]
    /\ lost = [k \in Keys |-> 0]
    /\ pc = "next" /\ line = 0 /\ attempt = 0
    /\ accepted = 0 /\ duplicates = 0 /\ retries = 0 /\ errors = {}

-----------------------------------------------------------------------------
(* The Loader.                                                             *)

Current == <<line, attempt>>

(* http.send: the request goes to whichever instance is chosen for it.     *)
Send(n, a) ==
    /\ stage' = [stage EXCEPT ![<<n, a>>] = "sent"]
    /\ \E i \in Instances : at' = [at EXCEPT ![<<n, a>>] = i]
    /\ attempt' = a
    /\ pc' = "waiting"

(* The next line: a malformed one is refused by readTree or requireField   *)
(* and never sent.                                                         *)
Offer ==
    /\ pc = "next"
    /\ line < Len(Lines)
    /\ line' = line + 1
    /\ \/ /\ Lines[line + 1] = Malformed
          /\ errors' = errors \cup {line + 1}
          /\ UNCHANGED <<stage, at, pc, attempt>>
       \/ /\ Lines[line + 1] # Malformed
          /\ Send(line + 1, 0)
          /\ UNCHANGED errors
    /\ UNCHANGED <<mockVars, accepted, duplicates, retries>>

(* The end of backoff: the same document is sent again.                    *)
Resend ==
    /\ pc = "backoff"
    /\ Send(line, attempt + 1)
    /\ UNCHANGED <<mockVars, line, tally>>

(* Mutant: giving up throws nothing, and the line is in no counter.        *)
FailOrBackOff_Silent ==
    /\ \/ /\ attempt = MaxRetries
          /\ pc' = "next"
          /\ UNCHANGED <<errors, retries>>
       \/ /\ attempt < MaxRetries
          /\ pc' = "backoff"
          /\ retries' = retries + 1
          /\ UNCHANGED errors
    /\ UNCHANGED <<stage, at, mockVars, line, attempt, accepted, duplicates>>

(* Mutant: one attempt too many.                                           *)
FailOrBackOff_OneMore ==
    /\ \/ /\ attempt > MaxRetries
          /\ errors' = errors \cup {line}
          /\ pc' = "next"
          /\ UNCHANGED retries
       \/ /\ attempt <= MaxRetries
          /\ pc' = "backoff"
          /\ retries' = retries + 1
          /\ UNCHANGED errors
    /\ UNCHANGED <<stage, at, mockVars, line, attempt, accepted, duplicates>>

(* A transient failure: back off, or give the document up.                 *)
FailOrBackOff ==
    /\ \/ /\ attempt = MaxRetries
          /\ errors' = errors \cup {line}
          /\ pc' = "next"
          /\ UNCHANGED retries
       \/ /\ attempt < MaxRetries
          /\ pc' = "backoff"
          /\ retries' = retries + 1
          /\ UNCHANGED errors
    /\ UNCHANGED <<stage, at, mockVars, line, attempt, accepted, duplicates>>

(* Mutant: a 200 is not counted.                                           *)
Verdict_CreatedOnly(answer) ==
    /\ pc' = "next"
    /\ accepted' = accepted + (IF answer = "created" THEN 1 ELSE 0)
    /\ errors' = errors \cup (IF answer = "refused" THEN {line} ELSE {})
    /\ UNCHANGED <<stage, at, mockVars, line, attempt, duplicates, retries>>

(* The status code is the verdict on the line.                             *)
Verdict(answer) ==
    /\ pc' = "next"
    /\ accepted' = accepted + (IF answer = "created" THEN 1 ELSE 0)
    /\ duplicates' = duplicates + (IF answer = "duplicate" THEN 1 ELSE 0)
    /\ errors' = errors \cup (IF answer = "refused" THEN {line} ELSE {})
    /\ UNCHANGED <<stage, at, mockVars, line, attempt, retries>>

(* The answer to the current attempt arrives.                              *)
Receive ==
    /\ pc = "waiting"
    /\ stage[Current] \in Answers
    /\ \/ stage[Current] = "busy" /\ FailOrBackOff
       \/ stage[Current] # "busy" /\ Verdict(stage[Current])

(* Mutant: no timeout on the request, only broken connections.             *)
TransportFailure_NoTimeout ==
    /\ pc = "waiting"
    /\ stage[Current] = "gone"
    /\ FailOrBackOff

(* An IOException: the 30 s are over, the connection broke, or the answer  *)
(* was lost.  What became of the request is not known.                     *)
TransportFailure ==
    /\ pc = "waiting"
    /\ FailOrBackOff

(* settle has nothing to do; the artefacts are written.                    *)
Finish ==
    /\ pc = "next"
    /\ line = Len(Lines)
    /\ pc' = "done"
    /\ UNCHANGED <<stage, at, mockVars, line, attempt, tally>>

-----------------------------------------------------------------------------
(* The mock: requests and deliveries.                                      *)

Reach(j, s) == stage' = [stage EXCEPT ![j] = s]

(* The consumer thread takes the next document of the topic, one at a time.*)
Deliver(j) ==
    /\ j \in Consumed
    /\ stage[j] = "none"
    /\ \A e \in Consumed : e[2] < j[2] => stage[e] \in Answers
    /\ Reach(j, "sent")
    /\ \E i \in Instances : at' = [at EXCEPT ![j] = i]
    /\ UNCHANGED <<mockVars, loaderVars>>

(* A request waits in the executor's queue while every thread is busy; the *)
(* consumer has a thread of its own.                                       *)
ThreadFree(j) ==
    \/ j \in Consumed
    \/ Cardinality({r \in Requests : at[r] = at[j] /\ stage[r] \in {"claimed", "stored"}})
          < Threads

(* A failure injected before any work, or Cloud Run's own answer when no   *)
(* instance takes the request.  Every caller is let in (allUsers), and a   *)
(* line the Loader sends has an account id and a key, so the handler's own *)
(* 400 and 422 do not occur.                                               *)
TurnAway(j) ==
    /\ j \in Requests
    /\ stage[j] = "sent"
    /\ \/ ThreadFree(j) /\ Reach(j, "busy")
       \/ Reach(j, "refused")
    /\ UNCHANGED <<at, mockVars, loaderVars>>

(* Mutant: the key is looked up, and not entered in the same step.         *)
Claim_LooksOnly(j) ==
    /\ stage[j] = "sent"
    /\ ThreadFree(j)
    /\ KeyOf(j) \notin idempotency[at[j]]
    /\ Reach(j, "claimed")
    /\ UNCHANGED <<at, mockVars, loaderVars>>

(* putIfAbsent entered the key.                                            *)
Claim(j) ==
    /\ stage[j] = "sent"
    /\ ThreadFree(j)
    /\ KeyOf(j) \notin idempotency[at[j]]
    /\ idempotency' = [idempotency EXCEPT ![at[j]] = @ \cup {KeyOf(j)}]
    /\ Reach(j, "claimed")
    /\ UNCHANGED <<at, accounts, adminVars, eventVars, creations, loaderVars>>

(* publishConfirmation: the flag is taken first, and a failed send is only *)
(* logged.  Only "created" events are counted.                             *)
PublishConfirmation(j, outcome) ==
    LET k == KeyOf(j)
        new == IF outcome = "created" THEN 1 ELSE 0
    IN \/ /\ at[j] \in suppressNext
          /\ suppressNext' = suppressNext \ {at[j]}
          /\ lost' = [lost EXCEPT ![k] = @ + new]
          /\ UNCHANGED events
       \/ /\ at[j] \notin suppressNext
          /\ events' = [events EXCEPT ![k] = @ + new]
          /\ UNCHANGED <<suppressNext, lost>>
       \/ /\ at[j] \notin suppressNext
          /\ lost[k] < MaxLost
          /\ lost' = [lost EXCEPT ![k] = @ + new]
          /\ UNCHANGED <<suppressNext, events>>

(* putIfAbsent found the key: a request is answered 200 and nothing is     *)
(* published; a delivery has no answer, so a confirmation is.              *)
Acknowledge(j) ==
    /\ stage[j] = "sent"
    /\ ThreadFree(j)
    /\ KeyOf(j) \in idempotency[at[j]]
    /\ Reach(j, "duplicate")
    /\ \/ j \in Consumed /\ PublishConfirmation(j, "duplicate")
       \/ j \in Requests /\ UNCHANGED <<suppressNext, eventVars>>
    /\ UNCHANGED <<at, mapVars, resetting, restarts, resets, armed, creations, loaderVars>>

(* Mutant: the account is counted and confirmed, and not kept.             *)
Store_CountsOnly(j) ==
    /\ stage[j] = "claimed"
    /\ creations' = [creations EXCEPT ![at[j]][KeyOf(j)] = @ + 1]
    /\ Reach(j, "stored")
    /\ UNCHANGED <<at, mapVars, adminVars, eventVars, loaderVars>>

(* accounts.put.                                                           *)
Store(j) ==
    /\ stage[j] = "claimed"
    /\ accounts' = [accounts EXCEPT ![at[j]] = @ \cup {KeyOf(j)}]
    /\ creations' = [creations EXCEPT ![at[j]][KeyOf(j)] = @ + 1]
    /\ Reach(j, "stored")
    /\ UNCHANGED <<at, idempotency, adminVars, eventVars, loaderVars>>

(* Mutant: the 201 is sent first, and the confirmation forgotten.          *)
Confirm_AnswersOnly(j) ==
    /\ stage[j] = "stored"
    /\ Reach(j, "created")
    /\ UNCHANGED <<at, mockVars, loaderVars>>

(* The confirmation is published, synchronously, before the 201.           *)
Confirm(j) ==
    /\ stage[j] = "stored"
    /\ PublishConfirmation(j, "created")
    /\ Reach(j, "created")
    /\ UNCHANGED <<at, mapVars, resetting, restarts, resets, armed, creations, loaderVars>>

-----------------------------------------------------------------------------
(* The mock: the admin endpoints, and restarts.                            *)

(* Mutant: the map is cleared before the accounts.                         *)
ResetOrder_MapFirst == <<"idempotency", "accounts", "flag">>

(* What handleReset clears, in order; the counters it also clears are not  *)
(* modelled.                                                               *)
ResetOrder == <<"accounts", "idempotency", "flag">>

(* The next step of a reset, or the first one of a new reset.              *)
ResetStep(i) ==
    LET now == ResetOrder[resetting[i] + 1]
    IN /\ resetting' = [resetting EXCEPT ![i] = (@ + 1) % 3]
       /\ \/ resetting[i] = 0 /\ resets + armed < MaxAdmin /\ resets' = resets + 1
          \/ resetting[i] > 0 /\ UNCHANGED resets
       /\ accounts' = [accounts EXCEPT ![i] = IF now = "accounts" THEN {} ELSE @]
       /\ idempotency' = [idempotency EXCEPT ![i] = IF now = "idempotency" THEN {} ELSE @]
       /\ suppressNext' = IF now = "flag" THEN suppressNext \ {i} ELSE suppressNext
       /\ UNCHANGED <<stage, at, restarts, armed, eventVars, creations, loaderVars>>

(* handleSuppressNextConfirmation.                                         *)
SuppressNextConfirmation(i) ==
    /\ resets + armed < MaxAdmin
    /\ armed' = armed + 1
    /\ suppressNext' = suppressNext \cup {i}
    /\ UNCHANGED <<stage, at, mapVars, resetting, restarts, resets, eventVars,
                   creations, loaderVars>>

(* An instance dies and comes back empty.  Its requests are never          *)
(* answered; a delivery that was not done is delivered again.              *)
Restart(i) ==
    /\ restarts < MaxRestarts
    /\ restarts' = restarts + 1
    /\ LET dead == {j \in Jobs : at[j] = i /\ stage[j] \in {"sent", "claimed", "stored"}}
       IN stage' = [j \in Jobs |-> IF j \notin dead THEN stage[j]
                                   ELSE IF j \in Consumed THEN "none" ELSE "gone"]
    /\ idempotency' = [idempotency EXCEPT ![i] = {}]
    /\ accounts' = [accounts EXCEPT ![i] = {}]
    /\ suppressNext' = suppressNext \ {i}
    /\ resetting' = [resetting EXCEPT ![i] = 0]
    /\ UNCHANGED <<at, resets, armed, eventVars, creations, loaderVars>>

LoaderStep == Offer \/ Resend \/ Receive \/ TransportFailure \/ Finish

Next ==
    \/ Offer
    \/ Resend
    \/ Receive
    \/ TransportFailure
    \/ Finish
    \/ \E j \in Jobs : \/ Deliver(j)
                       \/ TurnAway(j)
                       \/ Claim(j)
                       \/ Acknowledge(j)
                       \/ Store(j)
                       \/ Confirm(j)
    \/ \E i \in Instances : \/ ResetStep(i)
                            \/ SuppressNextConfirmation(i)
                            \/ Restart(i)

Spec == Init /\ [][Next]_vars

(* The Loader's thread runs and its clock reaches the timeout; a handler   *)
(* that has entered a key goes on to store it, unless its process dies.    *)
FairSpec ==
    /\ Spec
    /\ WF_vars(LoaderStep)
    /\ \A j \in Jobs : WF_vars(Store(j))

-----------------------------------------------------------------------------
(* Properties.                                                             *)

(* Lines with a 200 or 201: the finished ones that are not errors.         *)
Finished == 1..(IF pc \in {"next", "done"} THEN line ELSE line - 1)
Acked == {Lines[n] : n \in Finished \ errors}

(* The two maps stay in step under every interleaving of handlers and a    *)
(* reset: a key an instance would call a duplicate has its account there,  *)
(* or a handler about to store it, or the reset under way will drop the    *)
(* key.  Otherwise every later delivery would be acknowledged and lost.    *)
HeldIsStored ==
    \A i \in Instances : \A k \in idempotency[i] :
        \/ k \in accounts[i]
        \/ \E j \in Jobs : at[j] = i /\ stage[j] = "claimed" /\ KeyOf(j) = k
        \/ resetting[i] = 1

(* "A document delivered twice by different transports still creates one   *)
(* account": requests the Loader repeats and deliveries of the topic, on   *)
(* any threads of one instance, create a key once per life of its map.     *)
CreatedOncePerMap ==
    \A i \in Instances, k \in Keys : creations[i][k] <= 1 + restarts + resets

(* A line the Loader counts as accepted or duplicate is an account some    *)
(* instance has stored or is about to store, although the 200 of a retry   *)
(* can overtake the accounts.put of the attempt that timed out.            *)
AckedIsBacked ==
    restarts + resets = 0 =>
        \A k \in Acked :
            \/ \E i \in Instances : k \in accounts[i]
            \/ \E j \in Jobs : stage[j] = "claimed" /\ KeyOf(j) = k

(* The confirmation stream has the idempotency of the write path: every    *)
(* 201 has its own event on the topic by then, or a loss that was          *)
(* requested or logged, and there are no more events than writes.          *)
ConfirmationsMatchWrites ==
    \A k \in Keys :
        LET told == Cardinality({j \in Jobs : stage[j] = "created" /\ KeyOf(j) = k})
            written == MapThenSumSet(LAMBDA i : creations[i][k], Instances)
        IN told <= events[k] + lost[k] /\ events[k] + lost[k] <= written

(* "A synchronous response settles every document": at the end each line   *)
(* read is accepted, a duplicate or an error, and in only one of them.     *)
EveryLineSettled ==
    pc = "done" => accepted + duplicates + Cardinality(errors) = Len(Lines)

(* Whatever the Target System does, silence included, the load ends.       *)
LoadEnds == <>(pc = "done")

(* What was acknowledged is stored in the end, unless a reset or a restart *)
(* forgets it.                                                             *)
AckedGetsStored ==
    \A k \in Keys : k \in Acked ~>
        (restarts + resets > 0 \/ \E i \in Instances : k \in accounts[i])
=============================================================================
