--------------------------- MODULE TransformLane ----------------------------
(***************************************************************************)
(* The Transformation lane: Dataform builds the curated table, and the     *)
(* enrichment and the producer run once it has finished.                   *)
(***************************************************************************)
EXTENDS DataformOrder, EmitBatches

CONSTANT Curated    \* the action that builds the curated table

(* The rows of the run that the curated table has: all when it was built   *)
(* from what this run's tables hold.                                       *)
CuratedRows == [r \in Records |-> IF Curated \in fresh THEN 1 ELSE 0]

Init == DataformInit /\ EmitInit

Next ==
    \/ DataformNext /\ UNCHANGED emitVars
    \/ dpc = "finished" /\ EmitNext(CuratedRows) /\ UNCHANGED dformVars

Spec == Init /\ [][Next]_<<dformVars, emitVars>>

-----------------------------------------------------------------------------
(* Each variable of the lane keeps its type and its bound.                 *)
TransformTypeOK ==
    /\ dpc \in {"idle", "ordering", "cycle", "executing", "failed", "finished"}
    /\ done \cap visiting = {} /\ done = {ordered[i] : i \in DOMAIN ordered}
    /\ visiting = {stack[i].name : i \in DOMAIN stack}
    /\ compiles <= MaxCompiles
    /\ EmitTypeOK
=============================================================================
