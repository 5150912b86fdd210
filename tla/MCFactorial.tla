---------------------------- MODULE MCFactorial ----------------------------
(* An instance of Factorial for TLC: two runs, two manifests. *)
EXTENDS Factorial

CONSTANTS r1, r2, m1, m2, s1, s2

Order == <<r1, r2>>
Launched == [r \in {r1, r2} |->
    IF r = r1 THEN [id |-> "A", model |-> "dense", lr |-> 1, seed |-> 1, seq |-> 1]
    ELSE [id |-> "B", model |-> "moe", lr |-> 2, seed |-> 1, seq |-> 1]]

(* The second manifest leaves fields out and finds cell B by its model. *)
Written == [m \in {m1, m2} |->
    IF m = m1
    THEN << [id |-> "A", model |-> "dense", lr |-> 1, seed |-> 0, seq |-> 1],
            [id |-> "B", model |-> "moe", lr |-> 2, seed |-> 1, seq |-> 1] >>
    ELSE << [id |-> "A", model |-> "dense", lr |-> 1, seed |-> 1, seq |-> 0],
            [id |-> "X", model |-> "moe", lr |-> 2, seed |-> 0, seq |-> 0] >>]

(* The binary compares more fields than the prediction: it refuses r2 under m2. *)
Refused == {<<m2, r2>>}
=============================================================================
