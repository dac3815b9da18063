-------------------------- MODULE HttpLoad_proofs ---------------------------
(***************************************************************************)
(* Theorems about HttpLoad.  HttpInv is the inductive invariant; MockInv   *)
(* is the part about the mock's maps and handlers, LoaderInv the part      *)
(* about the Loader.  Neither side's step touches the other side's         *)
(* variables, except that a sent request is a new job.                     *)
(***************************************************************************)
EXTENDS HttpLoad, FoldLemmas

ClaimsAt(i, k) == {j \in Jobs : at[j] = i /\ stage[j] = "claimed" /\ KeyOf(j) = k}

(* Creations of a key at an instance, with those about to happen, against  *)
(* the lives of its map: one life is left over while the key is free, and  *)
(* a reset that has not reached the map yet has not started a new life.    *)
CreationsPerLife ==
    \A i \in Instances, k \in Keys :
        creations[i][k] + Cardinality(ClaimsAt(i, k))
            + (IF resetting[i] = 1 THEN 1 ELSE 0)
        <= restarts + resets + (IF k \in idempotency[i] THEN 1 ELSE 0)

Entered == {"claimed", "stored", "created", "duplicate"}

(* Until the first reset or restart, a job past putIfAbsent has its key in *)
(* the map of its instance.                                                *)
EnteredIsHeld ==
    restarts + resets = 0 =>
        /\ \A j \in Jobs : stage[j] \in Entered => KeyOf(j) \in idempotency[at[j]]
        /\ \A i \in Instances : resetting[i] = 0

MockTypes ==
    /\ stage \in [Jobs -> Stages]
    /\ at \in [Jobs -> Instances]
    /\ idempotency \in [Instances -> SUBSET Keys]
    /\ accounts \in [Instances -> SUBSET Keys]
    /\ suppressNext \subseteq Instances
    /\ resetting \in [Instances -> 0..2]
    /\ restarts \in 0..MaxRestarts /\ resets \in 0..MaxAdmin /\ armed \in 0..MaxAdmin
    /\ creations \in [Instances -> [Keys -> Nat]]
    /\ events \in [Keys -> Nat] /\ lost \in [Keys -> Nat]

LoaderTypes ==
    /\ pc \in {"next", "waiting", "backoff", "done"}
    /\ line \in 0..Len(Lines) /\ attempt \in 0..MaxRetries
    /\ accepted \in Nat /\ duplicates \in Nat /\ retries \in Nat

(* Where the Loader can be; attempts at the line that it may still count   *)
(* as retries keep the counter within its bound.                           *)
LoaderPlace ==
    /\ pc \in {"waiting", "backoff"} => line > 0 /\ Lines[line] # Malformed
    /\ pc = "backoff" => attempt < MaxRetries
    /\ pc = "done" => line = Len(Lines)

RetriesLeft ==
    IF pc = "waiting" THEN MaxRetries - attempt
    ELSE IF pc = "backoff" THEN MaxRetries - attempt - 1 ELSE 0

RetriesInBudget == retries + RetriesLeft <= MaxRetries * line

(* A request the Loader has not come to is not in any handler.             *)
NotYetSent ==
    \A r \in Requests :
        r[1] > line \/ (r[1] = line /\ r[2] > attempt) => stage[r] = "none"

(* An acknowledged line has an attempt that was answered 200 or 201.       *)
AckedWasAnswered ==
    \A n \in Finished \ errors :
        /\ Lines[n] # Malformed
        /\ \E a \in 0..MaxRetries : stage[<<n, a>>] \in {"created", "duplicate"}

(* The counters add up to the lines done.                                  *)
CountsAddUp ==
    /\ errors \subseteq Finished
    /\ accepted + duplicates + Cardinality(errors)
           = (IF pc \in {"next", "done"} THEN line ELSE line - 1)

MockInv == MockTypes /\ HeldIsStored /\ CreationsPerLife /\ EnteredIsHeld
LoaderInv ==
    /\ LoaderTypes /\ LoaderPlace /\ RetriesInBudget
    /\ NotYetSent /\ AckedWasAnswered /\ CountsAddUp
HttpInv == MockInv /\ LoaderInv

-----------------------------------------------------------------------------
(* Jobs.                                                                   *)

(* Every job is about a key.                                               *)
LEMMA JobKey == \A j \in Jobs : KeyOf(j) \in Keys
<1>1. ASSUME NEW j \in Jobs, j \in Consumed
      PROVE  KeyOf(j) \in Keys
  <2>1. j[2] \in 1..Len(Deliveries)
    BY <1>1 DEF Consumed
  <2>2. QED
    BY <1>1, <2>1, LinesAreKeys DEF KeyOf
<1>2. ASSUME NEW j \in Jobs, j \notin Consumed
      PROVE  KeyOf(j) \in Keys
  <2>1. j[1] \in 1..Len(Lines) /\ Lines[j[1]] # Malformed
    BY <1>2 DEF Jobs, Requests
  <2>2. QED
    BY <1>2, <2>1, LinesAreKeys DEF KeyOf
<1>3. QED
  BY <1>1, <1>2

(* The jobs are finitely many, so are the claims of a key.                 *)
LEMMA JobsFinite == IsFiniteSet(Jobs)
<1>1. Len(Lines) \in Int /\ Len(Deliveries) \in Int /\ MaxRetries \in Int
  BY LinesAreKeys, HttpBoundsAreNat
<1>2. IsFiniteSet(1..Len(Lines)) /\ IsFiniteSet(0..MaxRetries) /\ IsFiniteSet(1..Len(Deliveries))
  BY <1>1, FS_Interval
<1>3. IsFiniteSet({n \in 1..Len(Lines) : Lines[n] # Malformed})
  BY <1>2, FS_Subset
<1>4. IsFiniteSet(Requests)
  BY <1>2, <1>3, FS_Product DEF Requests
<1>5. IsFiniteSet({0})
  BY FS_Singleton
<1>6. IsFiniteSet(Consumed)
  BY <1>2, <1>5, FS_Product DEF Consumed
<1>7. QED
  BY <1>4, <1>6, FS_Union DEF Jobs

LEMMA ClaimsFinite ==
    ASSUME NEW i, NEW k
    PROVE  /\ IsFiniteSet(ClaimsAt(i, k)) /\ Cardinality(ClaimsAt(i, k)) \in Nat
           /\ IsFiniteSet(ClaimsAt(i, k)') /\ Cardinality(ClaimsAt(i, k)') \in Nat
<1>1. ClaimsAt(i, k) \in SUBSET Jobs /\ ClaimsAt(i, k)' \in SUBSET Jobs
  BY DEF ClaimsAt
<1>2. IsFiniteSet(ClaimsAt(i, k)) /\ IsFiniteSet(ClaimsAt(i, k)')
  BY <1>1, JobsFinite, FS_Subset
<1>3. QED
  BY <1>2, FS_CardinalityType

-----------------------------------------------------------------------------
(* The mock's handlers.                                                    *)

(* A handler's step that is neither into nor out of the window between     *)
(* putIfAbsent and accounts.put.                                           *)
LEMMA OutsideWindow ==
    ASSUME HeldIsStored, CreationsPerLife, EnteredIsHeld, NEW j \in Jobs,
           \A x \in Jobs \ {j} : stage'[x] = stage[x] /\ at'[x] = at[x],
           stage[j] # "claimed", stage'[j] # "claimed",
           stage'[j] \in Entered =>
               \/ KeyOf(j) \in idempotency[at'[j]]
               \/ stage[j] \in Entered /\ at'[j] = at[j],
           UNCHANGED <<mapVars, resetting, restarts, resets, creations>>
    PROVE  HeldIsStored' /\ CreationsPerLife' /\ EnteredIsHeld'
<1>1. \A i, k : ClaimsAt(i, k)' = ClaimsAt(i, k)
  BY DEF ClaimsAt
<1>2. HeldIsStored'
  <2>1. SUFFICES ASSUME NEW i \in Instances, NEW k \in idempotency[i]
                 PROVE  \/ k \in accounts[i]
                        \/ \E x \in Jobs : at'[x] = i /\ stage'[x] = "claimed" /\ KeyOf(x) = k
                        \/ resetting[i] = 1
    BY DEF HeldIsStored, mapVars
  <2>2. ASSUME NEW x \in Jobs, at[x] = i, stage[x] = "claimed", KeyOf(x) = k
        PROVE  at'[x] = i /\ stage'[x] = "claimed"
    BY <2>2
  <2>3. QED
    BY <2>2 DEF HeldIsStored
<1>3. CreationsPerLife'
  BY <1>1 DEF CreationsPerLife, mapVars
<1>4. EnteredIsHeld'
  <2>1. SUFFICES ASSUME restarts + resets = 0
                 PROVE  /\ \A x \in Jobs : stage'[x] \in Entered => KeyOf(x) \in idempotency[at'[x]]
                        /\ \A i \in Instances : resetting[i] = 0
    BY DEF EnteredIsHeld, mapVars
  <2>2. QED
    BY <2>1 DEF EnteredIsHeld
<1>5. QED
  BY <1>2, <1>3, <1>4

(* A step that leaves the handlers and their variables alone.              *)
LEMMA HandlersRest ==
    ASSUME HeldIsStored, CreationsPerLife, EnteredIsHeld,
           UNCHANGED <<stage, at, mapVars, resetting, restarts, resets, creations>>
    PROVE  HeldIsStored' /\ CreationsPerLife' /\ EnteredIsHeld'
  BY DEF HeldIsStored, CreationsPerLife, EnteredIsHeld, ClaimsAt, mapVars

(* What Reach does to the stages.                                          *)
LEMMA ReachFacts ==
    ASSUME MockTypes, NEW j \in Jobs, NEW s \in Stages, Reach(j, s)
    PROVE  /\ stage' \in [Jobs -> Stages]
           /\ stage'[j] = s
           /\ \A x \in Jobs \ {j} : stage'[x] = stage[x]
  BY DEF MockTypes, Reach

(* A request is sent: what the Loader does to the mock.                    *)
SendsJob(j) ==
    /\ stage[j] = "none"
    /\ Reach(j, "sent")
    /\ \E i \in Instances : at' = [at EXCEPT ![j] = i]
    /\ UNCHANGED mockVars

LEMMA SendsJobKeeps ==
    ASSUME MockInv, NEW j \in Jobs, SendsJob(j)
    PROVE  MockInv'
<1>0. MockTypes /\ HeldIsStored /\ CreationsPerLife /\ EnteredIsHeld
  BY DEF MockInv
<1>1. /\ stage' \in [Jobs -> Stages] /\ stage'[j] = "sent"
      /\ \A x \in Jobs \ {j} : stage'[x] = stage[x]
  BY <1>0, ReachFacts DEF SendsJob, Stages
<1>2. at' \in [Jobs -> Instances] /\ \A x \in Jobs \ {j} : at'[x] = at[x]
  BY <1>0 DEF SendsJob, MockTypes
<1>3. MockTypes'
  BY <1>0, <1>1, <1>2 DEF MockTypes, SendsJob, mockVars, mapVars, adminVars, eventVars
<1>4. HeldIsStored' /\ CreationsPerLife' /\ EnteredIsHeld'
  BY <1>0, <1>1, <1>2, OutsideWindow DEF SendsJob, mockVars, adminVars, Entered
<1>5. QED
  BY <1>3, <1>4 DEF MockInv

LEMMA TurnAwayKeeps ==
    ASSUME MockInv, NEW j \in Jobs, TurnAway(j)
    PROVE  MockInv'
<1>0. MockTypes /\ HeldIsStored /\ CreationsPerLife /\ EnteredIsHeld
  BY DEF MockInv
<1>1. PICK s \in {"busy", "refused"} : Reach(j, s)
  BY DEF TurnAway
<1>2. /\ stage' \in [Jobs -> Stages] /\ stage'[j] = s
      /\ \A x \in Jobs \ {j} : stage'[x] = stage[x]
  BY <1>0, <1>1, ReachFacts DEF Stages, Answers
<1>3. MockTypes'
  BY <1>0, <1>2 DEF MockTypes, TurnAway, mockVars, mapVars, adminVars, eventVars
<1>4. HeldIsStored' /\ CreationsPerLife' /\ EnteredIsHeld'
  BY <1>0, <1>1, <1>2, OutsideWindow DEF TurnAway, mockVars, adminVars, Entered
<1>5. QED
  BY <1>3, <1>4 DEF MockInv

(* A published or lost confirmation is counted, no more.                   *)
LEMMA PublishTyped ==
    ASSUME MockTypes, NEW j \in Jobs, NEW o, PublishConfirmation(j, o)
    PROVE  /\ suppressNext' \subseteq Instances
           /\ events' \in [Keys -> Nat] /\ lost' \in [Keys -> Nat]
<1>1. KeyOf(j) \in Keys
  BY JobKey
<1> DEFINE k == KeyOf(j)
           more(f) == [f EXCEPT ![k] = @ + (IF o = "created" THEN 1 ELSE 0)]
<1>2. suppressNext' = suppressNext \/ suppressNext' = suppressNext \ {at[j]}
  BY DEF PublishConfirmation
<1>3. events' = events \/ events' = more(events)
  BY DEF PublishConfirmation
<1>4. lost' = lost \/ lost' = more(lost)
  BY DEF PublishConfirmation
<1>5. \A f \in [Keys -> Nat] : more(f) \in [Keys -> Nat]
  <2>1. (IF o = "created" THEN 1 ELSE 0) \in Nat
    OBVIOUS
  <2>2. QED
    BY <1>1, <2>1
<1>6. QED
  BY <1>2, <1>3, <1>4, <1>5 DEF MockTypes

LEMMA AcknowledgeKeeps ==
    ASSUME MockInv, NEW j \in Jobs, Acknowledge(j)
    PROVE  MockInv'
<1>0. MockTypes /\ HeldIsStored /\ CreationsPerLife /\ EnteredIsHeld
  BY DEF MockInv
<1>1. /\ stage' \in [Jobs -> Stages] /\ stage'[j] = "duplicate"
      /\ \A x \in Jobs \ {j} : stage'[x] = stage[x]
  BY <1>0, ReachFacts DEF Acknowledge, Stages, Answers
<1>2. /\ suppressNext' \subseteq Instances
      /\ events' \in [Keys -> Nat] /\ lost' \in [Keys -> Nat]
  <2>1. CASE PublishConfirmation(j, "duplicate")
    BY <1>0, <2>1, PublishTyped
  <2>2. CASE UNCHANGED <<suppressNext, eventVars>>
    BY <1>0, <2>2 DEF MockTypes, eventVars
  <2>3. QED
    BY <2>1, <2>2 DEF Acknowledge
<1>3. MockTypes'
  BY <1>0, <1>1, <1>2 DEF MockTypes, Acknowledge, mapVars
<1>4. HeldIsStored' /\ CreationsPerLife' /\ EnteredIsHeld'
  BY <1>0, <1>1, OutsideWindow DEF Acknowledge, mapVars
<1>5. QED
  BY <1>3, <1>4 DEF MockInv

LEMMA ConfirmKeeps ==
    ASSUME MockInv, NEW j \in Jobs, Confirm(j)
    PROVE  MockInv'
<1>0. MockTypes /\ HeldIsStored /\ CreationsPerLife /\ EnteredIsHeld
  BY DEF MockInv
<1>1. /\ stage' \in [Jobs -> Stages] /\ stage'[j] = "created"
      /\ \A x \in Jobs \ {j} : stage'[x] = stage[x]
  BY <1>0, ReachFacts DEF Confirm, Stages, Answers
<1>2. /\ suppressNext' \subseteq Instances
      /\ events' \in [Keys -> Nat] /\ lost' \in [Keys -> Nat]
  BY <1>0, PublishTyped DEF Confirm
<1>3. MockTypes'
  BY <1>0, <1>1, <1>2 DEF MockTypes, Confirm, mapVars
<1>4. HeldIsStored' /\ CreationsPerLife' /\ EnteredIsHeld'
  BY <1>0, <1>1, OutsideWindow DEF Confirm, mapVars, Entered
<1>5. QED
  BY <1>3, <1>4 DEF MockInv

(* putIfAbsent enters the key: one life of the map is used up.             *)
LEMMA ClaimKeeps ==
    ASSUME MockInv, NEW j \in Jobs, Claim(j)
    PROVE  MockInv'
<1>0. MockTypes /\ HeldIsStored /\ CreationsPerLife /\ EnteredIsHeld
  BY DEF MockInv
<1> DEFINE h == at[j]
           key == KeyOf(j)
<1>1. /\ stage' \in [Jobs -> Stages] /\ stage'[j] = "claimed" /\ stage[j] = "sent"
      /\ \A x \in Jobs \ {j} : stage'[x] = stage[x]
  BY <1>0, ReachFacts DEF Claim, Stages
<1>2. h \in Instances /\ key \in Keys /\ key \notin idempotency[h]
  BY <1>0, JobKey DEF MockTypes, Claim
<1>3. /\ idempotency' \in [Instances -> SUBSET Keys]
      /\ idempotency'[h] = idempotency[h] \cup {key}
      /\ \A i \in Instances \ {h} : idempotency'[i] = idempotency[i]
  BY <1>0, <1>2 DEF MockTypes, Claim
<1>4. MockTypes'
  BY <1>0, <1>1, <1>3 DEF MockTypes, Claim, adminVars, eventVars
<1>5. HeldIsStored'
  <2>1. SUFFICES ASSUME NEW i \in Instances, NEW k \in idempotency'[i]
                 PROVE  \/ k \in accounts[i]
                        \/ \E x \in Jobs : at[x] = i /\ stage'[x] = "claimed" /\ KeyOf(x) = k
                        \/ resetting[i] = 1
    BY DEF HeldIsStored, Claim, adminVars
  <2>2. CASE i = h /\ k = key
    BY <1>1, <2>2
  <2>3. CASE k \in idempotency[i]
    <3>1. \A x \in Jobs : stage[x] = "claimed" => stage'[x] = "claimed"
      BY <1>1
    <3>2. QED
      BY <1>0, <2>3, <3>1 DEF HeldIsStored
  <2>4. QED
    BY <1>3, <2>1, <2>2, <2>3
<1>6. CreationsPerLife'
  <2>1. SUFFICES ASSUME NEW i \in Instances, NEW k \in Keys
                 PROVE  creations[i][k] + Cardinality(ClaimsAt(i, k)')
                            + (IF resetting[i] = 1 THEN 1 ELSE 0)
                        <= restarts + resets + (IF k \in idempotency'[i] THEN 1 ELSE 0)
    BY DEF CreationsPerLife, Claim, adminVars
  <2>2. creations[i][k] + Cardinality(ClaimsAt(i, k)) + (IF resetting[i] = 1 THEN 1 ELSE 0)
        <= restarts + resets + (IF k \in idempotency[i] THEN 1 ELSE 0)
    BY <1>0 DEF CreationsPerLife
  <2>3. creations[i][k] \in Nat /\ restarts \in Nat /\ resets \in Nat
    BY <1>0 DEF MockTypes
  <2>4. CASE i = h /\ k = key
    <3>1. ClaimsAt(i, k)' = ClaimsAt(i, k) \cup {j}
      BY <1>1, <2>4 DEF ClaimsAt, Claim
    <3>2. Cardinality(ClaimsAt(i, k)') <= Cardinality(ClaimsAt(i, k)) + 1
      <4>1. IsFiniteSet(ClaimsAt(i, k)) /\ Cardinality(ClaimsAt(i, k)) \in Nat
        BY ClaimsFinite
      <4>2. Cardinality(ClaimsAt(i, k) \cup {j}) <= Cardinality(ClaimsAt(i, k)) + 1
        BY <4>1, FS_AddElement
      <4>3. QED
        BY <3>1, <4>2
    <3>3. QED
      BY <1>2, <1>3, <2>2, <2>3, <2>4, <3>2, ClaimsFinite
  <2>5. CASE ~(i = h /\ k = key)
    <3>1. ClaimsAt(i, k)' = ClaimsAt(i, k)
      BY <1>1, <2>5 DEF ClaimsAt, Claim
    <3>2. k \in idempotency'[i] <=> k \in idempotency[i]
      BY <1>3, <2>5
    <3>3. QED
      BY <2>2, <3>1, <3>2
  <2>6. QED
    BY <2>4, <2>5
<1>7. EnteredIsHeld'
  <2>1. SUFFICES ASSUME restarts + resets = 0
                 PROVE  /\ \A x \in Jobs : stage'[x] \in Entered => KeyOf(x) \in idempotency'[at[x]]
                        /\ \A i \in Instances : resetting[i] = 0
    BY DEF EnteredIsHeld, Claim, adminVars
  <2>2. \A x \in Jobs : idempotency[at[x]] \subseteq idempotency'[at[x]]
    BY <1>0, <1>3 DEF MockTypes
  <2>3. QED
    BY <1>0, <1>1, <1>3, <2>1, <2>2 DEF EnteredIsHeld
<1>8. QED
  BY <1>4, <1>5, <1>6, <1>7 DEF MockInv

(* accounts.put: a claim becomes a creation.                               *)
LEMMA StoreKeeps ==
    ASSUME MockInv, NEW j \in Jobs, Store(j)
    PROVE  MockInv'
<1>0. MockTypes /\ HeldIsStored /\ CreationsPerLife /\ EnteredIsHeld
  BY DEF MockInv
<1> DEFINE h == at[j]
           key == KeyOf(j)
<1>1. /\ stage' \in [Jobs -> Stages] /\ stage'[j] = "stored" /\ stage[j] = "claimed"
      /\ \A x \in Jobs \ {j} : stage'[x] = stage[x]
  BY <1>0, ReachFacts DEF Store, Stages
<1>2. h \in Instances /\ key \in Keys
  BY <1>0, JobKey DEF MockTypes
<1>3. /\ accounts' \in [Instances -> SUBSET Keys]
      /\ accounts'[h] = accounts[h] \cup {key}
      /\ \A i \in Instances \ {h} : accounts'[i] = accounts[i]
  BY <1>0, <1>2 DEF MockTypes, Store
<1>4. /\ creations' \in [Instances -> [Keys -> Nat]]
      /\ creations'[h][key] = creations[h][key] + 1
      /\ \A i \in Instances, k \in Keys :
            ~(i = h /\ k = key) => creations'[i][k] = creations[i][k]
  <2>1. creations[h] \in [Keys -> Nat] /\ creations[h][key] + 1 \in Nat
    BY <1>0, <1>2 DEF MockTypes
  <2>2. QED
    BY <1>0, <1>2, <2>1 DEF MockTypes, Store
<1>5. MockTypes'
  BY <1>0, <1>1, <1>3, <1>4 DEF MockTypes, Store, adminVars, eventVars
<1>6. HeldIsStored'
  <2>1. SUFFICES ASSUME NEW i \in Instances, NEW k \in idempotency[i]
                 PROVE  \/ k \in accounts'[i]
                        \/ \E x \in Jobs : at[x] = i /\ stage'[x] = "claimed" /\ KeyOf(x) = k
                        \/ resetting[i] = 1
    BY DEF HeldIsStored, Store, adminVars
  <2>2. CASE k \in accounts[i]
    BY <1>3, <2>2
  <2>3. ASSUME NEW x \in Jobs, at[x] = i, stage[x] = "claimed", KeyOf(x) = k
        PROVE  k \in accounts'[i] \/ stage'[x] = "claimed"
    BY <1>1, <1>3, <2>3
  <2>4. QED
    BY <1>0, <2>1, <2>2, <2>3 DEF HeldIsStored
<1>7. CreationsPerLife'
  <2>1. SUFFICES ASSUME NEW i \in Instances, NEW k \in Keys
                 PROVE  creations'[i][k] + Cardinality(ClaimsAt(i, k)')
                            + (IF resetting[i] = 1 THEN 1 ELSE 0)
                        <= restarts + resets + (IF k \in idempotency[i] THEN 1 ELSE 0)
    BY DEF CreationsPerLife, Store, adminVars
  <2>2. creations[i][k] + Cardinality(ClaimsAt(i, k)) + (IF resetting[i] = 1 THEN 1 ELSE 0)
        <= restarts + resets + (IF k \in idempotency[i] THEN 1 ELSE 0)
    BY <1>0 DEF CreationsPerLife
  <2>3. creations[i][k] \in Nat /\ restarts \in Nat /\ resets \in Nat
    BY <1>0 DEF MockTypes
  <2>4. CASE i = h /\ k = key
    <3>1. ClaimsAt(i, k)' = ClaimsAt(i, k) \ {j} /\ j \in ClaimsAt(i, k)
      BY <1>1, <2>4 DEF ClaimsAt, Store
    <3>2. Cardinality(ClaimsAt(i, k)') = Cardinality(ClaimsAt(i, k)) - 1
      BY <3>1, ClaimsFinite, FS_RemoveElement
    <3>3. QED
      BY <1>4, <2>2, <2>3, <2>4, <3>2, ClaimsFinite
  <2>5. CASE ~(i = h /\ k = key)
    <3>1. ClaimsAt(i, k)' = ClaimsAt(i, k)
      BY <1>1, <2>5 DEF ClaimsAt, Store
    <3>2. QED
      BY <1>4, <2>2, <2>5, <3>1
  <2>6. QED
    BY <2>4, <2>5
<1>8. EnteredIsHeld'
  BY <1>0, <1>1 DEF EnteredIsHeld, Entered, Store, adminVars
<1>9. QED
  BY <1>5, <1>6, <1>7, <1>8 DEF MockInv

-----------------------------------------------------------------------------
(* The admin endpoints and restarts.                                       *)

(* A reset clears the accounts first: it uses up no life until it clears   *)
(* the map, and then gives one back.                                       *)
LEMMA ResetStepKeeps ==
    ASSUME MockInv, NEW h \in Instances, ResetStep(h)
    PROVE  MockInv'
<1>0. MockTypes /\ HeldIsStored /\ CreationsPerLife /\ EnteredIsHeld
  BY DEF MockInv
<1>1. /\ UNCHANGED <<stage, at, restarts, armed, eventVars, creations>>
      /\ resetting' = [resetting EXCEPT ![h] = (@ + 1) % 3]
      /\ \/ resetting[h] = 0 /\ resets + armed < MaxAdmin /\ resets' = resets + 1
         \/ resetting[h] > 0 /\ UNCHANGED resets
  BY DEF ResetStep
<1>2. /\ resetting[h] \in 0..2
      /\ resets \in Nat /\ armed \in Nat /\ restarts \in Nat /\ MaxAdmin \in Nat
  BY <1>0, HttpBoundsAreNat DEF MockTypes
<1>3. \A i \in Instances \ {h} : resetting'[i] = resetting[i]
  BY <1>0, <1>1 DEF MockTypes
<1>4. resets' \in 0..MaxAdmin /\ resets' >= resets
  BY <1>0, <1>1, <1>2 DEF MockTypes
<1>5. \A i, k : ClaimsAt(i, k)' = ClaimsAt(i, k)
  BY <1>1 DEF ClaimsAt
(* The three steps, by what has been done before.                          *)
<1>6. CASE resetting[h] = 0
  <2>1. /\ resetting'[h] = 1 /\ resets' = resets + 1
        /\ accounts' = [accounts EXCEPT ![h] = {}]
        /\ UNCHANGED <<idempotency, suppressNext>>
    <3>1. ResetOrder[resetting[h] + 1] = "accounts"
      BY <1>6 DEF ResetOrder
    <3>2. resetting'[h] = 1 /\ resets' = resets + 1
      BY <1>0, <1>1, <1>2, <1>6 DEF MockTypes
    <3>3. idempotency' = [idempotency EXCEPT ![h] = idempotency[h]]
      BY <3>1 DEF ResetStep
    <3>4. QED
      BY <1>0, <3>1, <3>2, <3>3 DEF ResetStep, MockTypes
  <2>2. MockTypes'
    BY <1>0, <1>1, <1>2, <1>4, <2>1 DEF MockTypes, eventVars
  <2>3. HeldIsStored'
    <3>1. SUFFICES ASSUME NEW i \in Instances, NEW k \in idempotency[i]
                   PROVE  \/ k \in accounts'[i]
                          \/ \E x \in Jobs : at[x] = i /\ stage[x] = "claimed" /\ KeyOf(x) = k
                          \/ resetting'[i] = 1
      BY <1>1, <2>1 DEF HeldIsStored
    <3>2. CASE i = h
      BY <2>1, <3>2
    <3>3. CASE i # h
      <4>1. accounts'[i] = accounts[i]
        BY <1>0, <2>1, <3>3 DEF MockTypes
      <4>2. QED
        BY <1>0, <1>3, <3>3, <4>1 DEF HeldIsStored
    <3>4. QED
      BY <3>2, <3>3
  <2>4. CreationsPerLife'
    <3>1. SUFFICES ASSUME NEW i \in Instances, NEW k \in Keys
                   PROVE  creations[i][k] + Cardinality(ClaimsAt(i, k))
                              + (IF resetting'[i] = 1 THEN 1 ELSE 0)
                          <= restarts + (resets + 1) + (IF k \in idempotency[i] THEN 1 ELSE 0)
      BY <1>1, <1>5, <2>1 DEF CreationsPerLife
    <3>2. creations[i][k] + Cardinality(ClaimsAt(i, k)) + (IF resetting[i] = 1 THEN 1 ELSE 0)
          <= restarts + resets + (IF k \in idempotency[i] THEN 1 ELSE 0)
      BY <1>0 DEF CreationsPerLife
    <3>3. creations[i][k] \in Nat /\ Cardinality(ClaimsAt(i, k)) \in Nat
      BY <1>0, ClaimsFinite DEF MockTypes
    <3>4. QED
      BY <1>2, <1>3, <1>6, <2>1, <3>2, <3>3
  <2>5. EnteredIsHeld'
    BY <1>1, <1>2, <2>1 DEF EnteredIsHeld
  <2>6. QED
    BY <2>2, <2>3, <2>4, <2>5 DEF MockInv
<1>7. CASE resetting[h] = 1
  <2>1. /\ resetting'[h] = 2 /\ resets' = resets
        /\ idempotency' = [idempotency EXCEPT ![h] = {}]
        /\ UNCHANGED <<accounts, suppressNext>>
    <3>1. ResetOrder[resetting[h] + 1] = "idempotency"
      BY <1>7 DEF ResetOrder
    <3>2. resetting'[h] = 2 /\ resets' = resets
      BY <1>0, <1>1, <1>2, <1>7 DEF MockTypes
    <3>3. accounts' = [accounts EXCEPT ![h] = accounts[h]]
      BY <3>1 DEF ResetStep
    <3>4. QED
      BY <1>0, <3>1, <3>2, <3>3 DEF ResetStep, MockTypes
  <2>2. /\ idempotency'[h] = {}
        /\ \A i \in Instances \ {h} : idempotency'[i] = idempotency[i]
    BY <1>0, <2>1 DEF MockTypes
  <2>3. MockTypes'
    BY <1>0, <1>1, <1>2, <1>4, <2>1 DEF MockTypes, eventVars
  <2>4. HeldIsStored'
    BY <1>0, <1>1, <1>3, <2>1, <2>2 DEF HeldIsStored
  <2>5. CreationsPerLife'
    <3>1. SUFFICES ASSUME NEW i \in Instances, NEW k \in Keys
                   PROVE  creations[i][k] + Cardinality(ClaimsAt(i, k))
                              + (IF resetting'[i] = 1 THEN 1 ELSE 0)
                          <= restarts + resets + (IF k \in idempotency'[i] THEN 1 ELSE 0)
      BY <1>1, <1>5, <2>1 DEF CreationsPerLife
    <3>2. creations[i][k] + Cardinality(ClaimsAt(i, k)) + (IF resetting[i] = 1 THEN 1 ELSE 0)
          <= restarts + resets + (IF k \in idempotency[i] THEN 1 ELSE 0)
      BY <1>0 DEF CreationsPerLife
    <3>3. creations[i][k] \in Nat /\ Cardinality(ClaimsAt(i, k)) \in Nat
      BY <1>0, ClaimsFinite DEF MockTypes
    <3>4. QED
      BY <1>2, <1>3, <1>7, <2>1, <2>2, <3>2, <3>3
  <2>6. EnteredIsHeld'
    BY <1>0, <1>1, <1>7, <2>1 DEF EnteredIsHeld
  <2>7. QED
    BY <2>3, <2>4, <2>5, <2>6 DEF MockInv
<1>8. CASE resetting[h] = 2
  <2>1. /\ resetting'[h] = 0 /\ resets' = resets
        /\ suppressNext' = suppressNext \ {h}
        /\ UNCHANGED mapVars
    <3>1. ResetOrder[resetting[h] + 1] = "flag"
      BY <1>8 DEF ResetOrder
    <3>2. resetting'[h] = 0 /\ resets' = resets
      BY <1>0, <1>1, <1>2, <1>8 DEF MockTypes
    <3>3. /\ accounts' = [accounts EXCEPT ![h] = accounts[h]]
          /\ idempotency' = [idempotency EXCEPT ![h] = idempotency[h]]
      BY <3>1 DEF ResetStep
    <3>4. QED
      BY <1>0, <3>1, <3>2, <3>3 DEF ResetStep, MockTypes, mapVars
  <2>2. MockTypes'
    BY <1>0, <1>1, <1>2, <1>4, <2>1 DEF MockTypes, eventVars, mapVars
  <2>3. \A i \in Instances : resetting'[i] = 1 <=> resetting[i] = 1
    BY <1>3, <1>8, <2>1
  <2>4. HeldIsStored'
    BY <1>0, <1>1, <2>1, <2>3 DEF HeldIsStored, mapVars
  <2>5. CreationsPerLife'
    BY <1>0, <1>1, <1>5, <2>1, <2>3 DEF CreationsPerLife, mapVars
  <2>6. EnteredIsHeld'
    BY <1>0, <1>1, <1>8, <2>1 DEF EnteredIsHeld, mapVars
  <2>7. QED
    BY <2>2, <2>4, <2>5, <2>6 DEF MockInv
<1>9. QED
  BY <1>2, <1>6, <1>7, <1>8

LEMMA SuppressNextKeeps ==
    ASSUME MockInv, NEW h \in Instances, SuppressNextConfirmation(h)
    PROVE  MockInv'
<1>1. MockTypes'
  <2>1. armed + 1 \in 0..MaxAdmin
    BY HttpBoundsAreNat DEF MockInv, MockTypes, SuppressNextConfirmation
  <2>2. QED
    BY <2>1 DEF MockInv, MockTypes, SuppressNextConfirmation, mapVars, eventVars
<1>2. HeldIsStored' /\ CreationsPerLife' /\ EnteredIsHeld'
  BY HandlersRest DEF MockInv, SuppressNextConfirmation
<1>3. QED
  BY <1>1, <1>2 DEF MockInv

(* A restart takes the claims of an instance with it, and counts as one    *)
(* life more for every instance.                                           *)
LEMMA RestartKeeps ==
    ASSUME MockInv, NEW h \in Instances, Restart(h)
    PROVE  MockInv'
<1>0. MockTypes /\ HeldIsStored /\ CreationsPerLife /\ EnteredIsHeld
  BY DEF MockInv
<1>1. /\ restarts' = restarts + 1 /\ restarts < MaxRestarts
      /\ UNCHANGED <<at, resets, armed, eventVars, creations>>
      /\ suppressNext' = suppressNext \ {h}
      /\ idempotency' = [idempotency EXCEPT ![h] = {}]
      /\ accounts' = [accounts EXCEPT ![h] = {}]
      /\ resetting' = [resetting EXCEPT ![h] = 0]
  BY DEF Restart
<1>2. restarts \in Nat /\ resets \in Nat /\ MaxRestarts \in Nat
  BY <1>0, HttpBoundsAreNat DEF MockTypes
<1>3. /\ stage' \in [Jobs -> Stages]
      /\ \A x \in Jobs : at[x] # h => stage'[x] = stage[x]
      /\ \A x \in Jobs : at[x] = h => stage'[x] # "claimed"
  <2> DEFINE dead == {j \in Jobs : at[j] = h /\ stage[j] \in {"sent", "claimed", "stored"}}
  <2>1. stage' = [j \in Jobs |-> IF j \notin dead THEN stage[j]
                                 ELSE IF j \in Consumed THEN "none" ELSE "gone"]
    BY DEF Restart
  <2>2. QED
    BY <1>0, <2>1 DEF MockTypes, Stages
<1>4. /\ idempotency'[h] = {} /\ resetting'[h] = 0
      /\ \A i \in Instances \ {h} : /\ idempotency'[i] = idempotency[i]
                                    /\ accounts'[i] = accounts[i]
                                    /\ resetting'[i] = resetting[i]
  BY <1>0, <1>1 DEF MockTypes
<1>5. MockTypes'
  BY <1>0, <1>1, <1>2, <1>3 DEF MockTypes, eventVars
<1>6. HeldIsStored'
  <2>1. SUFFICES ASSUME NEW i \in Instances, NEW k \in idempotency'[i]
                 PROVE  \/ k \in accounts'[i]
                        \/ \E x \in Jobs : at[x] = i /\ stage'[x] = "claimed" /\ KeyOf(x) = k
                        \/ resetting'[i] = 1
    BY <1>1 DEF HeldIsStored
  <2>2. i # h /\ k \in idempotency[i]
    BY <1>4
  <2>3. \A x \in Jobs : at[x] = i => stage'[x] = stage[x]
    BY <1>3, <2>2
  <2>4. QED
    BY <1>0, <1>4, <2>2, <2>3 DEF HeldIsStored
<1>7. CreationsPerLife'
  <2>1. SUFFICES ASSUME NEW i \in Instances, NEW k \in Keys
                 PROVE  creations[i][k] + Cardinality(ClaimsAt(i, k)')
                            + (IF resetting'[i] = 1 THEN 1 ELSE 0)
                        <= (restarts + 1) + resets + (IF k \in idempotency'[i] THEN 1 ELSE 0)
    BY <1>1 DEF CreationsPerLife
  <2>2. creations[i][k] + Cardinality(ClaimsAt(i, k)) + (IF resetting[i] = 1 THEN 1 ELSE 0)
        <= restarts + resets + (IF k \in idempotency[i] THEN 1 ELSE 0)
    BY <1>0 DEF CreationsPerLife
  <2>3. creations[i][k] \in Nat /\ Cardinality(ClaimsAt(i, k)) \in Nat
    BY <1>0, ClaimsFinite DEF MockTypes
  <2>4. CASE i = h
    <3>1. ClaimsAt(i, k)' = {}
      BY <1>1, <1>3, <2>4 DEF ClaimsAt
    <3>2. Cardinality(ClaimsAt(i, k)') = 0
      BY <3>1, FS_EmptySet
    <3>3. QED
      BY <1>2, <1>4, <2>2, <2>3, <2>4, <3>2
  <2>5. CASE i # h
    <3>1. ClaimsAt(i, k)' = ClaimsAt(i, k)
      BY <1>1, <1>3, <2>5 DEF ClaimsAt
    <3>2. QED
      BY <1>2, <1>4, <2>2, <2>3, <2>5, <3>1
  <2>6. QED
    BY <2>4, <2>5
<1>8. EnteredIsHeld'
  BY <1>1, <1>2 DEF EnteredIsHeld
<1>9. QED
  BY <1>5, <1>6, <1>7, <1>8 DEF MockInv

-----------------------------------------------------------------------------
(* The Loader's place in the file.                                         *)

LinesDone == IF pc \in {"next", "done"} THEN line ELSE line - 1

(* Finished is an initial part of the file, and its errors are finite.     *)
LEMMA FinishedFacts ==
    ASSUME LoaderInv
    PROVE  /\ Finished = 1..LinesDone /\ LinesDone \in 0..Len(Lines)
           /\ Len(Lines) \in Nat /\ line \in Nat
           /\ IsFiniteSet(errors) /\ Cardinality(errors) \in Nat
           /\ accepted + duplicates + Cardinality(errors) = LinesDone
<1>1. Len(Lines) \in Nat
  BY LinesAreKeys
<1>2. line \in 0..Len(Lines) /\ Finished = 1..LinesDone /\ LinesDone \in 0..Len(Lines)
  BY <1>1 DEF LoaderInv, LoaderTypes, LoaderPlace, Finished, LinesDone
<1>3. IsFiniteSet(1..LinesDone)
  BY <1>1, <1>2, FS_Interval
<1>4. IsFiniteSet(errors)
  BY <1>2, <1>3, FS_Subset DEF LoaderInv, CountsAddUp
<1>5. QED
  BY <1>1, <1>2, <1>4, FS_CardinalityType DEF LoaderInv, CountsAddUp, LinesDone

(* A line that can be sent and an attempt make a request.                  *)
LEMMA RequestOf ==
    ASSUME NEW n \in 1..Len(Lines), Lines[n] # Malformed, NEW a \in 0..MaxRetries
    PROVE  <<n, a>> \in Requests /\ <<n, a>> \in Jobs
  BY DEF Requests, Jobs

LEMMA Distribute == \A m, n \in Nat : m * (n + 1) = m * n + m
  OBVIOUS

LEMMA TimesMonotone ==
    ASSUME NEW m \in Nat, NEW x \in Nat, NEW y \in Nat, x <= y
    PROVE  m * x <= m * y
<1> DEFINE d == y - x
<1>1. d \in Nat /\ y = x + d
  OBVIOUS
<1>2. m * d \in Nat /\ m * x \in Nat
  BY <1>1
<1>3. m * (x + d) = m * x + m * d
  BY <1>1
<1>4. QED
  BY <1>1, <1>2, <1>3

(* The mock's steps neither send a request nor take back an answer.        *)
LEMMA MockStepsKeepLoader ==
    ASSUME LoaderInv, UNCHANGED loaderVars,
           \A r \in Requests :
               /\ stage[r] = "none" => stage'[r] = "none"
               /\ stage[r] \in {"created", "duplicate"} => stage'[r] = stage[r]
    PROVE  LoaderInv'
<1>1. LoaderTypes' /\ LoaderPlace' /\ RetriesInBudget' /\ CountsAddUp'
  BY DEF LoaderInv, LoaderTypes, LoaderPlace, RetriesInBudget, RetriesLeft, CountsAddUp,
         Finished, loaderVars, tally
<1>2. NotYetSent'
  BY DEF LoaderInv, NotYetSent, loaderVars
<1>3. AckedWasAnswered'
  <2>1. SUFFICES ASSUME NEW n \in Finished \ errors
                 PROVE  /\ Lines[n] # Malformed
                        /\ \E a \in 0..MaxRetries : stage'[<<n, a>>] \in {"created", "duplicate"}
    BY DEF AckedWasAnswered, Finished, loaderVars, tally
  <2>2. PICK a \in 0..MaxRetries : stage[<<n, a>>] \in {"created", "duplicate"}
    BY DEF LoaderInv, AckedWasAnswered
  <2>3. n \in 1..Len(Lines) /\ Lines[n] # Malformed
    BY FinishedFacts DEF LoaderInv, AckedWasAnswered
  <2>4. <<n, a>> \in Requests
    BY <2>3, RequestOf
  <2>5. QED
    BY <2>2, <2>3, <2>4
<1>4. QED
  BY <1>1, <1>2, <1>3 DEF LoaderInv

(* A request that is sent is the first one not sent yet.                   *)
LEMMA SendKeeps ==
    ASSUME MockInv, LoaderInv, NEW n \in 1..Len(Lines), Lines[n] # Malformed,
           NEW a \in 0..MaxRetries, Send(n, a), UNCHANGED mockVars, line' = n,
           n > line \/ (n = line /\ a > attempt)
    PROVE  /\ MockInv' /\ NotYetSent'
           /\ \A x \in Jobs \ {<<n, a>>} : stage'[x] = stage[x]
           /\ stage[<<n, a>>] = "none"
<1>1. <<n, a>> \in Requests /\ <<n, a>> \in Jobs
  BY RequestOf
<1>2. stage[<<n, a>>] = "none"
  BY <1>1 DEF LoaderInv, NotYetSent
<1>3. MockInv'
  BY <1>1, <1>2, SendsJobKeeps DEF Send, SendsJob, Reach
<1>4. \A x \in Jobs \ {<<n, a>>} : stage'[x] = stage[x]
  BY <1>1 DEF Send, MockInv, MockTypes
<1>5. NotYetSent'
  <2>1. SUFFICES ASSUME NEW r \in Requests, r[1] > n \/ (r[1] = n /\ r[2] > a)
                 PROVE  stage'[r] = "none"
    BY DEF NotYetSent, Send
  <2>2. r[1] \in Nat /\ r[2] \in Nat /\ r \in Jobs /\ r # <<n, a>>
    BY <2>1, LinesAreKeys, HttpBoundsAreNat DEF Requests, Jobs
  <2>3. line \in Nat /\ attempt \in Nat /\ n \in Nat /\ a \in Nat
    BY LinesAreKeys, HttpBoundsAreNat DEF LoaderInv, LoaderTypes
  <2>4. r[1] > line \/ (r[1] = line /\ r[2] > attempt)
    BY <2>1, <2>2, <2>3
  <2>5. QED
    BY <1>4, <2>2, <2>4 DEF LoaderInv, NotYetSent
<1>6. QED
  BY <1>2, <1>3, <1>4, <1>5

(* Sending on leaves the lines done as they are.                           *)
LEMMA AckedStay ==
    ASSUME LoaderInv, NEW j, stage[j] = "none",
           \A x \in Jobs \ {j} : stage'[x] = stage[x],
           Finished' \ errors' \subseteq Finished \ errors
    PROVE  AckedWasAnswered'
<1>1. SUFFICES ASSUME NEW n \in Finished \ errors
               PROVE  /\ Lines[n] # Malformed
                      /\ \E a \in 0..MaxRetries : stage'[<<n, a>>] \in {"created", "duplicate"}
  BY DEF AckedWasAnswered
<1>2. PICK a \in 0..MaxRetries : stage[<<n, a>>] \in {"created", "duplicate"}
  BY DEF LoaderInv, AckedWasAnswered
<1>3. n \in 1..Len(Lines) /\ Lines[n] # Malformed
  BY FinishedFacts DEF LoaderInv, AckedWasAnswered
<1>4. <<n, a>> \in Jobs /\ <<n, a>> # j
  BY <1>2, <1>3, RequestOf
<1>5. QED
  BY <1>2, <1>3, <1>4

LEMMA OfferKeeps ==
    ASSUME MockInv, LoaderInv, Offer
    PROVE  MockInv' /\ LoaderInv'
<1>1. /\ pc = "next" /\ line < Len(Lines) /\ line' = line + 1
      /\ line \in Nat /\ line + 1 \in 1..Len(Lines) /\ MaxRetries \in Nat
      /\ UNCHANGED <<mockVars, accepted, duplicates, retries>>
      /\ accepted \in Nat /\ duplicates \in Nat /\ retries \in Nat
  BY FinishedFacts, HttpBoundsAreNat DEF Offer, LoaderInv, LoaderTypes
<1>2. MaxRetries * (line + 1) = MaxRetries * line + MaxRetries
  BY <1>1, Distribute
<1>3. /\ Finished = 1..line /\ errors \subseteq 1..line
      /\ IsFiniteSet(errors) /\ accepted + duplicates + Cardinality(errors) = line
      /\ Cardinality(errors) \in Nat
  BY <1>1, FinishedFacts DEF LinesDone, LoaderInv, CountsAddUp
<1>4. CASE Lines[line + 1] = Malformed
  <2>1. /\ errors' = errors \cup {line + 1}
        /\ UNCHANGED <<stage, at, pc, attempt>>
    BY <1>4 DEF Offer
  <2>2. MockInv'
    BY <1>1, <2>1, HandlersRest DEF MockInv, MockTypes, mockVars, mapVars, adminVars, eventVars
  <2>3. LoaderTypes' /\ LoaderPlace'
    BY <1>1, <2>1 DEF LoaderInv, LoaderTypes, LoaderPlace
  <2>4. RetriesInBudget'
    <3>1. retries <= MaxRetries * line
      BY <1>1 DEF LoaderInv, RetriesInBudget, RetriesLeft
    <3>2. MaxRetries * line \in Nat
      BY <1>1
    <3>3. retries <= MaxRetries * (line + 1)
      BY <1>1, <1>2, <3>1, <3>2
    <3>4. QED
      BY <1>1, <2>1, <3>3 DEF RetriesInBudget, RetriesLeft
  <2>5. NotYetSent'
    <3>1. SUFFICES ASSUME NEW r \in Requests,
                          r[1] > line + 1 \/ (r[1] = line + 1 /\ r[2] > attempt)
                   PROVE  stage[r] = "none"
      BY <1>1, <2>1 DEF NotYetSent
    <3>2. r[1] \in Nat
      BY LinesAreKeys DEF Requests
    <3>3. r[1] > line
      BY <1>1, <3>1, <3>2
    <3>4. QED
      BY <3>3 DEF LoaderInv, NotYetSent
  <2>6. Finished' = 1..(line + 1)
    BY <1>1, <2>1 DEF Finished
  <2>7. AckedWasAnswered'
    <3>1. (1..(line + 1)) \ (errors \cup {line + 1}) \subseteq (1..line) \ errors
      BY <1>1
    <3>2. QED
      BY <1>3, <2>1, <2>6, <3>1 DEF LoaderInv, AckedWasAnswered
  <2>8. CountsAddUp'
    <3>1. line + 1 \notin errors
      BY <1>1, <1>3
    <3>2. Cardinality(errors \cup {line + 1}) = Cardinality(errors) + 1
      BY <1>3, <3>1, FS_AddElement
    <3>3. errors' \subseteq Finished'
      BY <1>1, <1>3, <2>1, <2>6
    <3>4. accepted + duplicates + (Cardinality(errors) + 1) = line + 1
      BY <1>1, <1>3
    <3>5. QED
      BY <1>1, <2>1, <3>2, <3>3, <3>4 DEF CountsAddUp
  <2>9. QED
    BY <2>2, <2>3, <2>4, <2>5, <2>7, <2>8 DEF LoaderInv
<1>5. CASE Lines[line + 1] # Malformed
  <2>1. Send(line + 1, 0) /\ errors' = errors
    BY <1>5 DEF Offer
  <2>2. 0 \in 0..MaxRetries /\ line + 1 > line
    BY <1>1
  <2>3. /\ MockInv' /\ NotYetSent' /\ stage[<<line + 1, 0>>] = "none"
        /\ \A x \in Jobs \ {<<line + 1, 0>>} : stage'[x] = stage[x]
    BY <1>1, <1>5, <2>1, <2>2, SendKeeps
  <2>4. pc' = "waiting" /\ attempt' = 0
    BY <2>1 DEF Send
  <2>5. LoaderTypes' /\ LoaderPlace'
    BY <1>1, <1>5, <2>2, <2>4 DEF LoaderInv, LoaderTypes, LoaderPlace
  <2>6. RetriesInBudget'
    <3>1. retries <= MaxRetries * line
      BY <1>1 DEF LoaderInv, RetriesInBudget, RetriesLeft
    <3>2. MaxRetries * line \in Nat
      BY <1>1
    <3>3. retries + (MaxRetries - 0) <= MaxRetries * (line + 1)
      BY <1>1, <1>2, <3>1, <3>2
    <3>4. QED
      BY <1>1, <2>4, <3>3 DEF RetriesInBudget, RetriesLeft
  <2>7. Finished' = 1..line
    <3>1. Finished' = 1..(line' - 1)
      BY <2>4 DEF Finished
    <3>2. QED
      BY <1>1, <3>1
  <2>8. AckedWasAnswered'
    BY <1>3, <2>1, <2>3, <2>7, AckedStay
  <2>9. CountsAddUp'
    <3>1. accepted + duplicates + Cardinality(errors) = (line + 1) - 1
      BY <1>1, <1>3
    <3>2. QED
      BY <1>1, <1>3, <2>1, <2>4, <2>7, <3>1 DEF CountsAddUp
  <2>10. QED
    BY <2>3, <2>5, <2>6, <2>8, <2>9 DEF LoaderInv
<1>6. QED
  BY <1>4, <1>5

LEMMA ResendKeeps ==
    ASSUME MockInv, LoaderInv, Resend
    PROVE  MockInv' /\ LoaderInv'
<1>1. /\ pc = "backoff" /\ pc' = "waiting" /\ attempt' = attempt + 1
      /\ Send(line, attempt + 1)
      /\ UNCHANGED <<mockVars, line, tally>>
  BY DEF Resend, Send
<1>2. /\ line \in 1..Len(Lines) /\ Lines[line] # Malformed
      /\ attempt \in Nat /\ MaxRetries \in Nat
      /\ attempt + 1 \in 0..MaxRetries /\ attempt + 1 > attempt
  BY <1>1, FinishedFacts, HttpBoundsAreNat DEF LoaderInv, LoaderTypes, LoaderPlace
<1>3. /\ MockInv' /\ NotYetSent' /\ stage[<<line, attempt + 1>>] = "none"
      /\ \A x \in Jobs \ {<<line, attempt + 1>>} : stage'[x] = stage[x]
  BY <1>1, <1>2, SendKeeps
<1>4. LoaderTypes' /\ LoaderPlace'
  BY <1>1, <1>2 DEF LoaderInv, LoaderTypes, LoaderPlace, tally
<1>5. RetriesInBudget'
  <2>1. retries + (MaxRetries - attempt - 1) <= MaxRetries * line
    BY <1>1 DEF LoaderInv, RetriesInBudget, RetriesLeft
  <2>2. MaxRetries - (attempt + 1) = MaxRetries - attempt - 1
    BY <1>2
  <2>3. QED
    BY <1>1, <2>1, <2>2 DEF RetriesInBudget, RetriesLeft, tally
<1>6. Finished' = Finished /\ errors' = errors
  BY <1>1 DEF Finished, tally
<1>7. AckedWasAnswered'
  BY <1>3, <1>6, AckedStay
<1>8. CountsAddUp'
  BY <1>1, <1>6 DEF LoaderInv, CountsAddUp, tally
<1>9. QED
  BY <1>3, <1>4, <1>5, <1>7, <1>8 DEF LoaderInv

(* The request the Loader waits for, and the lines before it.              *)
LEMMA WaitingFacts ==
    ASSUME LoaderInv, pc = "waiting"
    PROVE  /\ line \in 1..Len(Lines) /\ Lines[line] # Malformed
           /\ attempt \in Nat /\ MaxRetries \in Nat /\ attempt <= MaxRetries
           /\ Finished = 1..(line - 1) /\ errors \subseteq 1..(line - 1) /\ line \notin errors
           /\ accepted + duplicates + Cardinality(errors) = line - 1
           /\ accepted \in Nat /\ duplicates \in Nat
           /\ IsFiniteSet(errors) /\ Cardinality(errors) \in Nat
<1>1. line \in 1..Len(Lines) /\ Finished = 1..(line - 1) /\ errors \subseteq Finished
  BY FinishedFacts DEF LoaderInv, LoaderTypes, LoaderPlace, LinesDone, CountsAddUp
<1>2. line \notin errors
  BY <1>1
<1>3. QED
  BY <1>1, <1>2, FinishedFacts, HttpBoundsAreNat
     DEF LoaderInv, LoaderTypes, LoaderPlace, LinesDone

LEMMA WaitingBudget ==
    ASSUME LoaderInv, pc = "waiting"
    PROVE  retries \in Nat /\ retries + (MaxRetries - attempt) <= MaxRetries * line
  BY DEF LoaderInv, LoaderTypes, RetriesInBudget, RetriesLeft

(* One more error: the line is done and counted once.                      *)
LEMMA ErrorCounted ==
    ASSUME LoaderInv, pc = "waiting"
    PROVE  Cardinality(errors \cup {line}) = Cardinality(errors) + 1
  BY WaitingFacts, FS_AddElement

LEMMA FailOrBackOffKeeps ==
    ASSUME LoaderInv, pc = "waiting", FailOrBackOff
    PROVE  LoaderInv'
<1>1. UNCHANGED <<stage, line, attempt, accepted, duplicates>>
  BY DEF FailOrBackOff
<1>2. NotYetSent'
  BY <1>1 DEF LoaderInv, NotYetSent
<1>3. CASE attempt = MaxRetries /\ errors' = errors \cup {line} /\ pc' = "next" /\ retries' = retries
  <2>1. Finished' = 1..line
    BY <1>1, <1>3 DEF Finished
  <2>2. LoaderTypes' /\ LoaderPlace'
    BY <1>1, <1>3 DEF LoaderInv, LoaderTypes, LoaderPlace
  <2>3. RetriesInBudget'
    <3>1. retries + 0 <= MaxRetries * line
      <4>1. MaxRetries - attempt = 0
        BY <1>3, WaitingFacts
      <4>2. QED
        BY <4>1, WaitingBudget
    <3>2. QED
      BY <1>1, <1>3, <3>1 DEF RetriesInBudget, RetriesLeft
  <2>4. AckedWasAnswered'
    <3>1. (1..line) \ (errors \cup {line}) \subseteq Finished \ errors
      BY WaitingFacts
    <3>2. QED
      BY <1>1, <1>3, <2>1, <3>1 DEF LoaderInv, AckedWasAnswered
  <2>5. CountsAddUp'
    <3>1. errors' \subseteq Finished'
      BY <1>3, <2>1, WaitingFacts
    <3>2. accepted + duplicates + (Cardinality(errors) + 1) = line
      BY WaitingFacts
    <3>3. QED
      BY <1>1, <1>3, <3>1, <3>2, ErrorCounted DEF CountsAddUp
  <2>6. QED
    BY <1>2, <2>2, <2>3, <2>4, <2>5 DEF LoaderInv
<1>4. CASE attempt < MaxRetries /\ errors' = errors /\ pc' = "backoff" /\ retries' = retries + 1
  <2>1. Finished' = Finished
    BY <1>1, <1>4 DEF Finished
  <2>2. LoaderTypes' /\ LoaderPlace'
    BY <1>1, <1>4 DEF LoaderInv, LoaderTypes, LoaderPlace
  <2>3. RetriesInBudget'
    <3>1. (retries + 1) + (MaxRetries - attempt - 1) = retries + (MaxRetries - attempt)
      BY WaitingFacts, WaitingBudget
    <3>2. QED
      BY <1>1, <1>4, <3>1, WaitingBudget DEF RetriesInBudget, RetriesLeft
  <2>4. AckedWasAnswered'
    BY <1>1, <1>4, <2>1 DEF LoaderInv, AckedWasAnswered
  <2>5. CountsAddUp'
    BY <1>1, <1>4, <2>1 DEF LoaderInv, CountsAddUp
  <2>6. QED
    BY <1>2, <2>2, <2>3, <2>4, <2>5 DEF LoaderInv
<1>5. QED
  BY <1>3, <1>4 DEF FailOrBackOff

(* A status code settles the line: one counter takes it.                   *)
LEMMA VerdictKeeps ==
    ASSUME LoaderInv, pc = "waiting", NEW answer \in {"created", "duplicate", "refused"},
           stage[Current] = answer, Verdict(answer)
    PROVE  LoaderInv'
<1>1. UNCHANGED <<stage, line, attempt, retries>> /\ pc' = "next"
  BY DEF Verdict
<1>2. /\ accepted' = accepted + (IF answer = "created" THEN 1 ELSE 0)
      /\ duplicates' = duplicates + (IF answer = "duplicate" THEN 1 ELSE 0)
      /\ errors' = errors \cup (IF answer = "refused" THEN {line} ELSE {})
  BY DEF Verdict
<1>3. Finished' = 1..line
  BY <1>1 DEF Finished
<1>4. LoaderTypes' /\ LoaderPlace'
  BY <1>1, <1>2, WaitingFacts DEF LoaderInv, LoaderTypes, LoaderPlace
<1>5. RetriesInBudget'
  <2>1. retries <= retries + (MaxRetries - attempt) /\ retries = retries + 0
    BY WaitingFacts, WaitingBudget
  <2>2. retries + 0 <= MaxRetries * line
    <3>1. MaxRetries * line \in Int
      BY WaitingFacts
    <3>2. QED
      BY <2>1, <3>1, WaitingFacts, WaitingBudget
  <2>3. QED
    BY <1>1, <2>2 DEF RetriesInBudget, RetriesLeft
<1>6. NotYetSent'
  BY <1>1 DEF LoaderInv, NotYetSent
<1>7. AckedWasAnswered'
  <2>1. SUFFICES ASSUME NEW n \in (1..line) \ errors'
                 PROVE  /\ Lines[n] # Malformed
                        /\ \E a \in 0..MaxRetries : stage[<<n, a>>] \in {"created", "duplicate"}
    BY <1>1, <1>3 DEF AckedWasAnswered
  <2>2. CASE n = line
    <3>1. answer \in {"created", "duplicate"}
      BY <1>2, <2>2
    <3>2. attempt \in 0..MaxRetries /\ Lines[line] # Malformed
      BY WaitingFacts
    <3>3. QED
      BY <2>2, <3>1, <3>2 DEF Current
  <2>3. CASE n # line
    <3>1. n \in Finished \ errors
      BY <1>2, <2>3, WaitingFacts
    <3>2. QED
      BY <3>1 DEF LoaderInv, AckedWasAnswered
  <2>4. QED
    BY <2>2, <2>3
<1>8. CountsAddUp'
  <2>0. /\ accepted + duplicates + Cardinality(errors) = line - 1 /\ line \in Int
        /\ accepted \in Nat /\ duplicates \in Nat /\ Cardinality(errors) \in Nat
    BY WaitingFacts
  <2>1. errors' \subseteq Finished'
    BY <1>2, <1>3, WaitingFacts
  <2>2. accepted' + duplicates' + Cardinality(errors') = line
    <3>1. CASE answer = "refused"
      BY <1>2, <3>1, WaitingFacts, ErrorCounted
    <3>2. CASE answer # "refused"
      <4>1. errors' = errors
        BY <1>2, <3>2
      <4>2. CASE answer = "created"
        <5>1. accepted' = accepted + 1 /\ duplicates' = duplicates + 0
          BY <1>2, <4>2
        <5>2. (accepted + 1) + (duplicates + 0) + Cardinality(errors) = line
          BY <2>0
        <5>3. QED
          BY <4>1, <5>1, <5>2
      <4>3. CASE answer = "duplicate"
        <5>1. accepted' = accepted + 0 /\ duplicates' = duplicates + 1
          BY <1>2, <4>3
        <5>2. (accepted + 0) + (duplicates + 1) + Cardinality(errors) = line
          BY <2>0
        <5>3. QED
          BY <4>1, <5>1, <5>2
      <4>4. QED
        BY <3>2, <4>2, <4>3
    <3>3. QED
      BY <3>1, <3>2
  <2>3. QED
    BY <1>1, <2>1, <2>2 DEF CountsAddUp
<1>9. QED
  BY <1>4, <1>5, <1>6, <1>7, <1>8 DEF LoaderInv

LEMMA FinishKeeps ==
    ASSUME LoaderInv, Finish
    PROVE  LoaderInv'
  BY DEF Finish, LoaderInv, LoaderTypes, LoaderPlace, RetriesInBudget, RetriesLeft,
         NotYetSent, AckedWasAnswered, CountsAddUp, Finished, tally

-----------------------------------------------------------------------------
(* The mock's steps from the Loader's side, and the whole system.          *)

(* A job's step: what it does to the invariant of the mock, and what the   *)
(* Loader sees of it.                                                      *)
JobStep(j) ==
    Deliver(j) \/ TurnAway(j) \/ Claim(j) \/ Acknowledge(j) \/ Store(j) \/ Confirm(j)

LEMMA JobStepKeeps ==
    ASSUME MockInv, LoaderInv, NEW j \in Jobs, JobStep(j)
    PROVE  MockInv' /\ LoaderInv'
<1>1. MockInv'
  <2>1. CASE Deliver(j)
    BY <2>1, SendsJobKeeps DEF Deliver, SendsJob
  <2>2. QED
    BY <2>1, TurnAwayKeeps, ClaimKeeps, AcknowledgeKeeps, StoreKeeps, ConfirmKeeps DEF JobStep
<1>2. UNCHANGED loaderVars
  BY DEF JobStep, Deliver, TurnAway, Claim, Acknowledge, Store, Confirm
<1>3. /\ \E s \in Stages : Reach(j, s)
      /\ j \in Requests => stage[j] \in {"sent", "claimed", "stored"}
  <2>1. CASE Deliver(j)
    <3>1. j \notin Requests
      BY <2>1, LinesAreKeys DEF Deliver, Consumed, Requests
    <3>2. QED
      BY <2>1, <3>1 DEF Deliver, Stages
  <2>2. QED
    BY <2>1 DEF JobStep, TurnAway, Claim, Acknowledge, Store, Confirm, Stages, Answers
<1>4. \A x \in Jobs \ {j} : stage'[x] = stage[x]
  BY <1>3, ReachFacts DEF MockInv
<1>5. \A r \in Requests :
          /\ stage[r] = "none" => stage'[r] = "none"
          /\ stage[r] \in {"created", "duplicate"} => stage'[r] = stage[r]
  BY <1>3, <1>4 DEF Jobs
<1>6. LoaderInv'
  BY <1>2, <1>5, MockStepsKeepLoader
<1>7. QED
  BY <1>1, <1>6

LEMMA InstanceStepKeeps ==
    ASSUME MockInv, LoaderInv, NEW i \in Instances,
           ResetStep(i) \/ SuppressNextConfirmation(i) \/ Restart(i)
    PROVE  MockInv' /\ LoaderInv'
<1>1. MockInv'
  BY ResetStepKeeps, SuppressNextKeeps, RestartKeeps
<1>2. UNCHANGED loaderVars
  BY DEF ResetStep, SuppressNextConfirmation, Restart
<1>3. \A r \in Requests :
          /\ stage[r] = "none" => stage'[r] = "none"
          /\ stage[r] \in {"created", "duplicate"} => stage'[r] = stage[r]
  <2>1. CASE Restart(i)
    <3> DEFINE dead == {j \in Jobs : at[j] = i /\ stage[j] \in {"sent", "claimed", "stored"}}
    <3>1. stage' = [j \in Jobs |-> IF j \notin dead THEN stage[j]
                                   ELSE IF j \in Consumed THEN "none" ELSE "gone"]
      BY <2>1 DEF Restart
    <3>2. QED
      BY <3>1 DEF Jobs
  <2>2. QED
    BY <2>1 DEF ResetStep, SuppressNextConfirmation
<1>4. QED
  BY <1>1, <1>2, <1>3, MockStepsKeepLoader

LEMMA LoaderStepKeeps ==
    ASSUME MockInv, LoaderInv, LoaderStep
    PROVE  MockInv' /\ LoaderInv'
<1>1. CASE Offer
  BY <1>1, OfferKeeps
<1>2. CASE Resend
  BY <1>2, ResendKeeps
<1>3. CASE Receive \/ TransportFailure \/ Finish
  <2>1. UNCHANGED <<stage, at, mockVars>>
    BY <1>3 DEF Receive, TransportFailure, Finish, FailOrBackOff, Verdict
  <2>2. MockInv'
    BY <2>1, HandlersRest DEF MockInv, MockTypes, mockVars, mapVars, adminVars, eventVars
  <2>3. LoaderInv'
    <3>1. CASE Finish
      BY <3>1, FinishKeeps
    <3>2. CASE TransportFailure
      BY <3>2, FailOrBackOffKeeps DEF TransportFailure
    <3>3. CASE Receive
      <4>1. CASE FailOrBackOff
        BY <3>3, <4>1, FailOrBackOffKeeps DEF Receive
      <4>2. CASE stage[Current] # "busy" /\ Verdict(stage[Current])
        BY <3>3, <4>2, VerdictKeeps DEF Receive, Answers
      <4>3. QED
        BY <3>3, <4>1, <4>2 DEF Receive
    <3>4. QED
      BY <1>3, <3>1, <3>2, <3>3
  <2>4. QED
    BY <2>2, <2>3
<1>4. QED
  BY <1>1, <1>2, <1>3 DEF LoaderStep

LEMMA HttpInit == Init => HttpInv
<1>1. SUFFICES ASSUME Init PROVE HttpInv
  OBVIOUS
<1>2. MockTypes
  <2>1. (CHOOSE i \in Instances : TRUE) \in Instances
    BY SomeInstance
  <2>2. QED
    BY <1>1, <2>1, HttpBoundsAreNat DEF Init, MockTypes, Stages
<1>3. HeldIsStored
  BY <1>1 DEF Init, HeldIsStored
<1>4. CreationsPerLife
  <2>1. SUFFICES ASSUME NEW i \in Instances, NEW k \in Keys
                 PROVE  0 + Cardinality(ClaimsAt(i, k)) + 0 <= 0 + 0 + 0
    BY <1>1 DEF CreationsPerLife, Init
  <2>2. ClaimsAt(i, k) = {}
    BY <1>1 DEF ClaimsAt, Init
  <2>3. QED
    BY <2>2, FS_EmptySet
<1>5. EnteredIsHeld
  BY <1>1 DEF Init, EnteredIsHeld, Entered
<1>6. Finished = {} /\ Len(Lines) \in Nat /\ MaxRetries \in Nat
  BY <1>1, LinesAreKeys, HttpBoundsAreNat DEF Init, Finished
<1>7. LoaderTypes /\ LoaderPlace /\ RetriesInBudget
  BY <1>1, <1>6 DEF Init, LoaderTypes, LoaderPlace, RetriesInBudget, RetriesLeft
<1>8. NotYetSent /\ AckedWasAnswered
  BY <1>1, <1>6 DEF Init, NotYetSent, AckedWasAnswered, Jobs
<1>9. CountsAddUp
  BY <1>1, FS_EmptySet DEF Init, CountsAddUp
<1>10. QED
  BY <1>2, <1>3, <1>4, <1>5, <1>7, <1>8, <1>9 DEF HttpInv, MockInv, LoaderInv

(* The invariant holds in every state of the lane.                         *)
THEOREM HttpInvariant == Spec => []HttpInv
<1>1. HttpInv /\ [Next]_vars => HttpInv'
  <2>1. SUFFICES ASSUME MockInv, LoaderInv, [Next]_vars
                 PROVE  MockInv' /\ LoaderInv'
    BY DEF HttpInv
  <2>2. CASE LoaderStep
    BY <2>1, <2>2, LoaderStepKeeps
  <2>3. ASSUME NEW j \in Jobs, JobStep(j)
        PROVE  MockInv' /\ LoaderInv'
    BY <2>1, <2>3, JobStepKeeps
  <2>4. ASSUME NEW i \in Instances,
               ResetStep(i) \/ SuppressNextConfirmation(i) \/ Restart(i)
        PROVE  MockInv' /\ LoaderInv'
    BY <2>1, <2>4, InstanceStepKeeps
  <2>5. CASE UNCHANGED vars
    <3>1. MockInv'
      BY <2>1, <2>5, HandlersRest
         DEF MockInv, MockTypes, vars, mockVars, mapVars, adminVars, eventVars
    <3>2. LoaderInv'
      BY <2>1, <2>5, MockStepsKeepLoader DEF vars
    <3>3. QED
      BY <3>1, <3>2
  <2>6. QED
    BY <2>1, <2>2, <2>3, <2>4, <2>5 DEF Next, LoaderStep, JobStep
<1>2. QED
  BY <1>1, HttpInit, PTL DEF Spec

-----------------------------------------------------------------------------
(* What follows from it.                                                   *)

(* Every variable keeps its type, the bound on the retries included.       *)
THEOREM HttpTypeCorrect == Spec => []HttpTypeOK
<1>1. HttpInv => HttpTypeOK
  <2>1. SUFFICES ASSUME MockInv, LoaderInv PROVE HttpTypeOK
    BY DEF HttpInv
  <2>2. line \in Nat /\ Len(Lines) \in Nat /\ line <= Len(Lines) /\ MaxRetries \in Nat
    BY <2>1, FinishedFacts, HttpBoundsAreNat DEF LoaderInv, LoaderTypes
  <2>3. RetriesLeft \in Nat /\ retries \in Nat
    BY <2>1, <2>2 DEF LoaderInv, LoaderTypes, LoaderPlace, RetriesLeft
  <2>4. retries + RetriesLeft <= MaxRetries * line
    BY <2>1 DEF LoaderInv, RetriesInBudget
  <2>5. MaxRetries * line <= MaxRetries * Len(Lines)
    BY <2>2, TimesMonotone
  <2>6. MaxRetries * line \in Int /\ MaxRetries * Len(Lines) \in Int
    BY <2>2
  <2>7. retries \in 0..MaxRetries * Len(Lines)
    BY <2>3, <2>4, <2>5, <2>6
  <2>8. errors \subseteq 1..Len(Lines)
    BY <2>1, FinishedFacts DEF LoaderInv, CountsAddUp
  <2>9. QED
    BY <2>1, <2>7, <2>8 DEF MockInv, MockTypes, LoaderInv, LoaderTypes, HttpTypeOK
<1>2. QED
  BY <1>1, HttpInvariant, PTL

(* A key in the idempotency map has its account, or a handler about to     *)
(* store it, or is about to be dropped by a reset: the handlers, the       *)
(* consumer and /__admin/reset never leave a key that is acknowledged for  *)
(* ever and held by nobody.                                                *)
THEOREM HttpHeldIsStored == Spec => []HeldIsStored
<1>1. HttpInv => HeldIsStored
  BY DEF HttpInv, MockInv
<1>2. QED
  BY <1>1, HttpInvariant, PTL

(* An instance creates a key at most once per life of its map, whatever    *)
(* the Loader repeats and the topic delivers again.                        *)
THEOREM HttpCreatedOncePerMap == Spec => []CreatedOncePerMap
<1>1. HttpInv => CreatedOncePerMap
  <2>1. SUFFICES ASSUME MockInv, NEW i \in Instances, NEW k \in Keys
                 PROVE  creations[i][k] <= 1 + restarts + resets
    BY DEF HttpInv, CreatedOncePerMap
  <2>2. creations[i][k] + Cardinality(ClaimsAt(i, k)) + (IF resetting[i] = 1 THEN 1 ELSE 0)
        <= restarts + resets + (IF k \in idempotency[i] THEN 1 ELSE 0)
    BY <2>1 DEF MockInv, CreationsPerLife
  <2>3. /\ creations[i][k] \in Nat /\ Cardinality(ClaimsAt(i, k)) \in Nat
        /\ restarts \in Nat /\ resets \in Nat
    BY <2>1, ClaimsFinite DEF MockInv, MockTypes
  <2>4. QED
    BY <2>2, <2>3
<1>2. QED
  BY <1>1, HttpInvariant, PTL

(* Without resets and restarts, a line counted as accepted or duplicate    *)
(* is an account that is stored or about to be.                            *)
THEOREM HttpAckedIsBacked == Spec => []AckedIsBacked
<1>1. HttpInv => AckedIsBacked
  <2>1. SUFFICES ASSUME MockInv, LoaderInv, restarts + resets = 0, NEW n \in Finished \ errors
                 PROVE  \/ \E i \in Instances : Lines[n] \in accounts[i]
                        \/ \E j \in Jobs : stage[j] = "claimed" /\ KeyOf(j) = Lines[n]
    BY DEF HttpInv, AckedIsBacked, Acked
  <2>2. PICK a \in 0..MaxRetries : stage[<<n, a>>] \in {"created", "duplicate"}
    BY <2>1 DEF LoaderInv, AckedWasAnswered
  <2>3. n \in 1..Len(Lines) /\ Lines[n] # Malformed
    BY <2>1, FinishedFacts DEF LoaderInv, AckedWasAnswered
  <2> DEFINE r == <<n, a>>
  <2>4. r \in Requests /\ r \in Jobs
    BY <2>3, RequestOf
  <2>5. KeyOf(r) = Lines[n]
    <3>1. r \notin Consumed
      BY <2>3 DEF Consumed
    <3>2. QED
      BY <3>1 DEF KeyOf
  <2>6. Lines[n] \in idempotency[at[r]] /\ resetting[at[r]] = 0 /\ at[r] \in Instances
    BY <2>1, <2>2, <2>4, <2>5 DEF MockInv, MockTypes, EnteredIsHeld, Entered
  <2>7. QED
    BY <2>1, <2>6 DEF MockInv, HeldIsStored
<1>2. QED
  BY <1>1, HttpInvariant, PTL

(* At the end every line is in exactly one of the Loader's counters.       *)
THEOREM HttpEveryLineSettled == Spec => []EveryLineSettled
<1>1. HttpInv => EveryLineSettled
  BY DEF HttpInv, LoaderInv, LoaderPlace, CountsAddUp, EveryLineSettled
<1>2. QED
  BY <1>1, HttpInvariant, PTL

-----------------------------------------------------------------------------
(* Confirmations against writes.                                           *)

(* The sum in ConfirmationsMatchWrites is the fold's.                      *)
SumAt(c, k, S) == MapThenSumSet(LAMBDA i : c[i][k], S)
StepOfSumAt(c, k, f, s) == IF s = {} THEN 0 ELSE c[Pick(s)][k] + f[s \ {Pick(s)}]
IsSumAt(f, c, k, S) == f = [s \in SUBSET S |-> StepOfSumAt(c, k, f, s)]

(* It reads the function that the fold chooses.                            *)
LEMMA SumAtIsSum ==
    ASSUME NEW c, NEW k, NEW S
    PROVE  SumAt(c, k, S) = (CHOOSE f : IsSumAt(f, c, k, S))[S]
  BY Zenon DEF SumAt, MapThenSumSet, MapThenFoldSet, IsSumAt, StepOfSumAt, Pick

(* That is the function FoldFunction chooses for one key's column.         *)
LEMMA SameSum ==
    ASSUME NEW c, NEW k, NEW S, NEW f
    PROVE  IsSumAt(f, c, k, S) <=> IsSum(f, [i \in S |-> c[i][k]], S)
<1> DEFINE g == [i \in S |-> c[i][k]]
<1>1. \A s \in SUBSET S : StepOfSumAt(c, k, f, s) = StepOfSum(g, f, s)
  <2>1. TAKE s \in SUBSET S
  <2>2. s # {} => Pick(s) \in S
    BY DEF Pick
  <2>3. s # {} => g[Pick(s)] = c[Pick(s)][k]
    BY <2>2
  <2>4. QED
    BY <2>3 DEF StepOfSumAt, StepOfSum
<1> HIDE DEF g
<1>2. [s \in SUBSET S |-> StepOfSumAt(c, k, f, s)] = [s \in SUBSET S |-> StepOfSum(g, f, s)]
  BY <1>1, Zenon
<1>3. QED
  BY <1>2, Zenon DEF IsSumAt, IsSum, g

(* So both sums are the same number.                                       *)
LEMMA SumAtIsTotal ==
    ASSUME NEW c, NEW k, NEW S, IsFiniteSet(S), \A x \in S : c[x][k] \in Nat
    PROVE  SumAt(c, k, S) = Total([i \in S |-> c[i][k]])
<1> DEFINE g == [i \in S |-> c[i][k]]
           f == CHOOSE q : IsSumAt(q, c, k, S)
<1> HIDE DEF f
<1>1. IsSumAt(f, c, k, S)
  <2>1. PICK q : IsSum(q, g, S)
    BY SumExists
  <2>2. IsSumAt(q, c, k, S)
    BY <2>1, SameSum
  <2>3. QED
    BY <2>2, Zenon DEF f
<1>2. SumAt(c, k, S) = f[S]
  BY SumAtIsSum, Zenon DEF f
<1>3. IsSum(f, g, S)
  BY <1>1, SameSum
<1>4. DOMAIN g = S /\ \A x \in S : g[x] \in Nat
  OBVIOUS
<1> HIDE DEF g
<1>5. f[S] = Cardinality(Copies(g, S))
  BY <1>3, <1>4, SumIsCopies
<1>6. Total(g) = Cardinality(Copies(g, S))
  BY <1>4, FoldCounts
<1>7. QED
  BY <1>2, <1>5, <1>6, Zenon DEF g

ToldOf(k) == {j \in Jobs : stage[j] = "created" /\ KeyOf(j) = k}
StoredOf(k) == {j \in Jobs : stage[j] = "stored" /\ KeyOf(j) = k}
Column(k) == [i \in Instances |-> creations[i][k]]

(* A 201 is behind its confirmation, published or lost, and those of a key *)
(* leave one write for every handler between accounts.put and publishing.  *)
Books ==
    \A k \in Keys :
        /\ Cardinality(ToldOf(k)) <= events[k] + lost[k]
        /\ events[k] + lost[k] + Cardinality(StoredOf(k)) <= Total(Column(k))

(* Every set and sum in Books is finite.                                   *)
LEMMA BooksAreNat ==
    ASSUME MockTypes, NEW k \in Keys
    PROVE  /\ IsFiniteSet(ToldOf(k)) /\ Cardinality(ToldOf(k)) \in Nat
           /\ IsFiniteSet(StoredOf(k)) /\ Cardinality(StoredOf(k)) \in Nat
           /\ Total(Column(k)) \in Nat
           /\ events[k] \in Nat /\ lost[k] \in Nat
<1>1. ToldOf(k) \in SUBSET Jobs /\ StoredOf(k) \in SUBSET Jobs
  BY DEF ToldOf, StoredOf
<1>2. DOMAIN Column(k) = Instances /\ \A i \in Instances : Column(k)[i] \in Nat
  BY DEF MockTypes, Column
<1>3. IsFiniteSet(DOMAIN Column(k))
  BY <1>2, SomeInstance
<1>4. Total(Column(k)) \in Nat
  BY <1>2, <1>3, FoldCounts
<1>5. QED
  BY <1>1, <1>4, JobsFinite, FS_Subset, FS_CardinalityType DEF MockTypes

(* The bounds survive a step that takes handlers out of the two stages and *)
(* leaves the counts alone.                                                *)
LEMMA BooksRest ==
    ASSUME MockTypes, MockTypes', Books,
           UNCHANGED <<creations, events, lost>>,
           \A j \in Jobs : stage'[j] \in {"created", "stored"} => stage'[j] = stage[j]
    PROVE  Books'
<1>1. SUFFICES ASSUME NEW k \in Keys
               PROVE  /\ Cardinality(ToldOf(k)') <= events[k] + lost[k]
                      /\ events[k] + lost[k] + Cardinality(StoredOf(k)') <= Total(Column(k)')
  BY DEF Books
<1>2. ToldOf(k)' \subseteq ToldOf(k) /\ StoredOf(k)' \subseteq StoredOf(k)
  BY DEF ToldOf, StoredOf
<1>3. /\ Cardinality(ToldOf(k)') <= Cardinality(ToldOf(k)) /\ Cardinality(ToldOf(k)') \in Nat
      /\ Cardinality(StoredOf(k)') <= Cardinality(StoredOf(k)) /\ Cardinality(StoredOf(k)') \in Nat
  BY <1>2, BooksAreNat, FS_Subset, FS_CardinalityType
<1>4. Total(Column(k)') = Total(Column(k))
  BY DEF Column
<1>5. QED
  BY <1>3, <1>4, BooksAreNat DEF Books

(* accounts.put: one write more, and one handler that owes a confirmation. *)
LEMMA BooksStore ==
    ASSUME MockTypes, MockTypes', Books, NEW j \in Jobs, Store(j)
    PROVE  Books'
<1> DEFINE key == KeyOf(j)
           h == at[j]
<1>1. /\ stage[j] = "claimed" /\ stage'[j] = "stored"
      /\ \A x \in Jobs \ {j} : stage'[x] = stage[x]
      /\ UNCHANGED <<events, lost>>
      /\ creations' = [creations EXCEPT ![h][key] = @ + 1]
  BY ReachFacts DEF Store, Stages, eventVars
<1>2. key \in Keys /\ h \in Instances /\ creations \in [Instances -> [Keys -> Nat]]
  BY JobKey DEF MockTypes
<1>3. SUFFICES ASSUME NEW k \in Keys
               PROVE  /\ Cardinality(ToldOf(k)') <= events[k] + lost[k]
                      /\ events[k] + lost[k] + Cardinality(StoredOf(k)') <= Total(Column(k)')
  BY <1>1 DEF Books
<1>4. ToldOf(k)' = ToldOf(k)
  BY <1>1 DEF ToldOf
<1>5. CASE k # key
  <2>1. StoredOf(k)' = StoredOf(k)
    BY <1>1, <1>5 DEF StoredOf
  <2>2. Column(k)' = Column(k)
    BY <1>1, <1>2, <1>5 DEF Column
  <2>3. QED
    BY <1>4, <2>1, <2>2 DEF Books
<1>6. CASE k = key
  <2>1. StoredOf(k)' = StoredOf(k) \cup {j} /\ j \notin StoredOf(k)
    BY <1>1, <1>6 DEF StoredOf
  <2>2. Cardinality(StoredOf(k)') = Cardinality(StoredOf(k)) + 1
    BY <2>1, BooksAreNat, FS_AddElement
  <2>3. Total(Column(k)') = Total(Column(k)) + 1
    <3>1. OneMoreOf({h}, Column(k), Column(k)', Instances)
      BY <1>1, <1>2, <1>6 DEF OneMoreOf, Column
    <3>2. Total(Column(k)') = Total(Column(k)) + Cardinality({h})
      BY <3>1, SomeInstance, SumOfAdded
    <3>3. QED
      BY <3>2, FS_Singleton
  <2>4. QED
    BY <1>4, <2>2, <2>3, BooksAreNat DEF Books
<1>7. QED
  BY <1>5, <1>6

(* publishConfirmation: what the handler owed is published or lost.        *)
LEMMA BooksConfirm ==
    ASSUME MockTypes, MockTypes', Books, NEW j \in Jobs, Confirm(j)
    PROVE  Books'
<1> DEFINE key == KeyOf(j)
<1>1. /\ stage[j] = "stored" /\ stage'[j] = "created"
      /\ \A x \in Jobs \ {j} : stage'[x] = stage[x]
      /\ UNCHANGED creations
  BY ReachFacts DEF Confirm, Stages, Answers
<1>2. key \in Keys
  BY JobKey
<1>3. /\ events'[key] + lost'[key] = events[key] + lost[key] + 1
      /\ \A k \in Keys \ {key} : events'[k] = events[k] /\ lost'[k] = lost[k]
  <2>1. \/ events' = [events EXCEPT ![key] = @ + 1] /\ lost' = lost
        \/ lost' = [lost EXCEPT ![key] = @ + 1] /\ events' = events
    BY DEF Confirm, PublishConfirmation
  <2>2. events \in [Keys -> Nat] /\ lost \in [Keys -> Nat]
    BY DEF MockTypes
  <2>3. QED
    BY <1>2, <2>1, <2>2
<1>4. SUFFICES ASSUME NEW k \in Keys
               PROVE  /\ Cardinality(ToldOf(k)') <= events'[k] + lost'[k]
                      /\ events'[k] + lost'[k] + Cardinality(StoredOf(k)') <= Total(Column(k)')
  BY DEF Books
<1>5. Total(Column(k)') = Total(Column(k))
  BY <1>1 DEF Column
<1>6. CASE k # key
  <2>1. ToldOf(k)' = ToldOf(k) /\ StoredOf(k)' = StoredOf(k)
    BY <1>1, <1>6 DEF ToldOf, StoredOf
  <2>2. QED
    BY <1>3, <1>5, <1>6, <2>1 DEF Books
<1>7. CASE k = key
  <2>1. /\ ToldOf(k)' = ToldOf(k) \cup {j} /\ j \notin ToldOf(k)
        /\ StoredOf(k)' = StoredOf(k) \ {j} /\ j \in StoredOf(k)
    BY <1>1, <1>7 DEF ToldOf, StoredOf
  <2>2. Cardinality(ToldOf(k)') = Cardinality(ToldOf(k)) + 1
    BY <2>1, BooksAreNat, FS_AddElement
  <2>3. Cardinality(StoredOf(k)') = Cardinality(StoredOf(k)) - 1
    BY <2>1, BooksAreNat, FS_RemoveElement
  <2>4. QED
    BY <1>3, <1>5, <1>7, <2>2, <2>3, BooksAreNat DEF Books
<1>8. QED
  BY <1>6, <1>7

(* A step of a job keeps the books.                                        *)
LEMMA BooksJob ==
    ASSUME MockTypes, MockTypes', Books, NEW j \in Jobs, JobStep(j)
    PROVE  Books'
<1>1. CASE Store(j)
  BY <1>1, BooksStore
<1>2. CASE Confirm(j)
  BY <1>2, BooksConfirm
<1>3. CASE Deliver(j) \/ TurnAway(j) \/ Claim(j) \/ Acknowledge(j)
  <2>1. PICK s \in {"sent", "busy", "refused", "claimed", "duplicate"} : Reach(j, s)
    BY <1>3 DEF Deliver, TurnAway, Claim, Acknowledge
  <2>2. stage'[j] = s /\ \A x \in Jobs \ {j} : stage'[x] = stage[x]
    BY <2>1, ReachFacts DEF Stages, Answers
  <2>3. UNCHANGED <<creations, events, lost>>
    <3>1. CASE Acknowledge(j) /\ PublishConfirmation(j, "duplicate")
      <4>1. \A f \in [Keys -> Nat] : [f EXCEPT ![KeyOf(j)] = @ + 0] = f
        BY JobKey
      <4>2. events \in [Keys -> Nat] /\ lost \in [Keys -> Nat]
        BY DEF MockTypes
      <4>3. /\ events' = events \/ events' = [events EXCEPT ![KeyOf(j)] = @ + 0]
            /\ lost' = lost \/ lost' = [lost EXCEPT ![KeyOf(j)] = @ + 0]
        BY <3>1 DEF PublishConfirmation
      <4>4. QED
        BY <3>1, <4>1, <4>2, <4>3 DEF Acknowledge
    <3>2. QED
      BY <1>3, <3>1 DEF Deliver, TurnAway, Claim, Acknowledge, mockVars, eventVars
  <2>4. QED
    BY <2>2, <2>3, BooksRest
<1>4. QED
  BY <1>1, <1>2, <1>3 DEF JobStep

(* So does every other step.                                               *)
LEMMA BooksStep == MockTypes /\ MockTypes' /\ Books /\ [Next]_vars => Books'
<1> SUFFICES ASSUME MockTypes, MockTypes', Books, [Next]_vars PROVE Books'
  OBVIOUS
<1>1. CASE \E j \in Jobs : JobStep(j)
  BY <1>1, BooksJob
<1>2. CASE LoaderStep \/ UNCHANGED vars
  <2>1. UNCHANGED <<creations, events, lost>>
    BY <1>2 DEF LoaderStep, Offer, Resend, Receive, TransportFailure, Finish, FailOrBackOff, Verdict,
                mockVars, eventVars, vars
  <2>2. stage' = stage \/ \E r : stage' = [stage EXCEPT ![r] = "sent"]
    BY <1>2 DEF LoaderStep, Offer, Resend, Receive, TransportFailure, Finish, FailOrBackOff, Verdict,
                Send, vars
  <2>3. \A j \in Jobs : stage'[j] \in {"created", "stored"} => stage'[j] = stage[j]
    BY <2>2 DEF MockTypes
  <2>4. QED
    BY <2>1, <2>3, BooksRest
<1>3. ASSUME NEW i \in Instances, ResetStep(i) \/ SuppressNextConfirmation(i) \/ Restart(i)
      PROVE  Books'
  <2>1. UNCHANGED <<creations, events, lost>>
    BY <1>3 DEF ResetStep, SuppressNextConfirmation, Restart, eventVars
  <2>2. \A j \in Jobs : stage'[j] \in {"created", "stored"} => stage'[j] = stage[j]
    BY <1>3 DEF ResetStep, SuppressNextConfirmation, Restart
  <2>3. QED
    BY <2>1, <2>2, BooksRest
<1>4. QED
  BY <1>1, <1>2, <1>3 DEF Next, LoaderStep, JobStep

(* At first there is nothing to account for.                               *)
LEMMA BooksInit == Init => Books
<1> SUFFICES ASSUME Init, NEW k \in Keys
             PROVE  /\ Cardinality(ToldOf(k)) <= events[k] + lost[k]
                    /\ events[k] + lost[k] + Cardinality(StoredOf(k)) <= Total(Column(k))
  BY DEF Books
<1>1. ToldOf(k) = {} /\ StoredOf(k) = {} /\ events[k] = 0 /\ lost[k] = 0
  BY DEF Init, ToldOf, StoredOf
<1>2. Column(k) = [i \in Instances |-> 0]
  BY DEF Init, Column
<1>3. Total(Column(k)) = 0
  BY <1>2, SomeInstance, SumOfNothing
<1>4. QED
  BY <1>1, <1>3, FS_EmptySet

(* Every 201 has a confirmation of its own on the topic by then, or one    *)
(* whose loss was requested or logged, and there are no more of them than  *)
(* accounts.put calls, for any number of instances.                        *)
THEOREM HttpConfirmationsMatchWrites == Spec => []ConfirmationsMatchWrites
<1>1. HttpInv => MockTypes
  BY DEF HttpInv, MockInv
<1>2. Spec => []Books
  BY <1>1, BooksInit, BooksStep, HttpInvariant, PTL DEF Spec
<1>3. MockTypes /\ Books => ConfirmationsMatchWrites
  <2>1. SUFFICES ASSUME MockTypes, Books, NEW k \in Keys
                 PROVE  /\ Cardinality(ToldOf(k)) <= events[k] + lost[k]
                        /\ events[k] + lost[k] <= SumAt(creations, k, Instances)
    BY Zenon DEF ConfirmationsMatchWrites, ToldOf, SumAt
  <2>2. SumAt(creations, k, Instances) = Total(Column(k))
    <3>1. \A x \in Instances : creations[x][k] \in Nat
      BY <2>1 DEF MockTypes
    <3>2. QED
      BY <3>1, SumAtIsTotal, SomeInstance, Zenon DEF Column
  <2>3. QED
    BY <2>1, <2>2, BooksAreNat DEF Books
<1>4. QED
  BY <1>1, <1>2, <1>3, HttpInvariant, PTL
=============================================================================
