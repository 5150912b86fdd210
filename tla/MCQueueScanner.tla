--------------------------- MODULE MCQueueScanner ---------------------------
(* An instance of QueueScanner for TLC. *)
EXTENDS QueueScanner

CONSTANTS c1, d1, q1, q2, a1, a2

(* The second artifact needs the first. *)
Chain == [a \in {a1, a2} |-> IF a = a2 THEN {a1} ELSE {}]
=============================================================================
