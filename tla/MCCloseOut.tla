---------------------------- MODULE MCCloseOut -----------------------------
(* Instances of CloseOut for TLC. *)
EXTENDS CloseOut, TLC

CONSTANTS i1, i2, s1, s2, s3

Symmetric == Permutations(Sids)
=============================================================================
