----------------------------- MODULE MCRunLane ------------------------------
(* Model checking of RunLane: one record for each door and stage.          *)
EXTENDS RunLane

CONSTANTS p, m, g
=============================================================================
