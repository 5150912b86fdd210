----------------------------- MODULE MCSlackBot -----------------------------
(* An instance of SlackBot for TLC: one user file, one cell of two checkpoints. *)
EXTENDS SlackBot

TwoAlike == <<"a", "a">>
=============================================================================
