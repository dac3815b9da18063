---------------------------- MODULE LoadContract ----------------------------
(***************************************************************************)
(* What loading one run promises, with no topics, offsets or polls: the    *)
(* Target System says things about keys, an attempt offers keys and, when  *)
(* it ends, puts each offered key in one class.  A class other than        *)
(* "unsettled" needs a verdict that was really given, and an attempt exits *)
(* clean exactly when no key is unsettled.                                 *)
(***************************************************************************)
CONSTANT Keys

VARIABLES
    phase,    \* of the current attempt
    offered,  \* keys the attempt has offered
    said,     \* key -> verdicts the Target System has given in this run
    class,    \* key -> its class in the attempt's tally
    exit      \* how the last attempt ended

contractVars == <<phase, offered, said, class, exit>>

Verdicts == {"created", "duplicate", "rejected"}
Classes == Verdicts \cup {"unsettled", "none"}

ContractInit ==
    /\ phase = "closed"
    /\ offered = {}
    /\ said = [k \in Keys |-> {}]
    /\ class = [k \in Keys |-> "none"]
    /\ exit = "none"

(* The Target System gives a verdict on a key, at any time.                *)
Say(k, v) ==
    /\ said' = [said EXCEPT ![k] = @ \cup {v}]
    /\ UNCHANGED <<phase, offered, class, exit>>

Start ==
    /\ phase = "closed"
    /\ phase' = "open"
    /\ offered' = {}
    /\ class' = [k \in Keys |-> "none"]
    /\ exit' = "none"
    /\ UNCHANGED said

OfferKey(k) ==
    /\ phase = "open"
    /\ offered' = offered \cup {k}
    /\ UNCHANGED <<phase, said, class, exit>>

(* Every offered key is classed, and every class but "unsettled" has the   *)
(* verdict it claims.                                                      *)
Classify(c) ==
    /\ \A k \in Keys : k \in offered <=> c[k] # "none"
    /\ \A k \in Keys : c[k] \in Verdicts => c[k] \in said[k]

TallyUp ==
    /\ phase = "open"
    /\ phase' = "tallied"
    /\ class' \in [Keys -> Classes]
    /\ Classify(class')
    /\ UNCHANGED <<offered, said, exit>>

Finish ==
    /\ phase = "tallied"
    /\ phase' = "closed"
    /\ exit' = IF \E k \in Keys : class[k] = "unsettled" THEN "failed" ELSE "clean"
    /\ UNCHANGED <<offered, said, class>>

Abort ==
    /\ phase \in {"open", "tallied"}
    /\ phase' = "closed"
    /\ class' = [k \in Keys |-> "none"]
    /\ exit' = "failed"
    /\ UNCHANGED <<offered, said>>

ContractNext ==
    \/ \E k \in Keys, v \in Verdicts : Say(k, v)
    \/ Start
    \/ \E k \in Keys : OfferKey(k)
    \/ TallyUp
    \/ Finish
    \/ Abort

ContractSpec == ContractInit /\ [][ContractNext]_contractVars
=============================================================================
