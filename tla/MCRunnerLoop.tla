---------------------------- MODULE MCRunnerLoop ----------------------------
(* Instances of RunnerLoop for TLC. *)
EXTENDS RunnerLoop

CONSTANTS i1, i2
=============================================================================
