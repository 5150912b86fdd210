---------------------------- MODULE MCWorkQueue ----------------------------
(* Instances of WorkQueue for TLC. *)
EXTENDS WorkQueue, TLC

CONSTANTS i1, i2, i3, p1, p2

(* The runner's discipline: callers take turns. *)
SerialCallers == {}

(* An operator enqueues by hand while post_director completes or fails. *)
OperatorEnqueues == AppendersOverlap

(* Two Directors, each in its own session. *)
TwoDirectors == {<<"claim", "claim">>}

Symmetric == Permutations(Items) \cup Permutations(Procs)
=============================================================================
