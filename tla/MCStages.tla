------------------------------ MODULE MCStages ------------------------------
(* Stages for TLC.  The instance is small enough for liveness, so that it   *)
(* takes no symmetry.                                                       *)
EXTENDS Stages

=============================================================================
