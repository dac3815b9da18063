--------------------------- MODULE MCTargetIntake ---------------------------
(* Model checking of TargetIntake: two keys, two runs.                     *)
EXTENDS TargetIntake
=============================================================================
