------------------------------ MODULE MCTiming ------------------------------
(* An instance of the timing of a job for TLC.                             *)
EXTENDS Timing
=============================================================================
