--------------------------- MODULE MCTransformLane --------------------------
EXTENDS TransformLane

(* Three tables and every way they may depend on one another, circles and  *)
(* a table on itself included; one of them also reads a declaration, and   *)
(* one may have a kind the executor does not know.                         *)
MCNames == {"stage", "account", "report"}
MCGraphs ==
    {[n \in MCNames |->
        [deps |-> IF n = "stage" THEN d[n] \cup {"source"} ELSE d[n],
         kind |-> IF n = "report" THEN k ELSE "TABLE"]] :
        d \in [MCNames -> SUBSET MCNames], k \in {"VIEW", "ASSERTION"}}
MCWriters == {<<"kafka", "gcs">>, <<"gcs">>, <<"kafka">>}
=============================================================================
