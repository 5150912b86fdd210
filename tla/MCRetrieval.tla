---------------------------- MODULE MCRetrieval ----------------------------
(* An instance of RetrievalServer and LabMemory for TLC. *)
EXTENDS RetrievalServer

CONSTANTS f1, f2, s1, s2

Symmetric == Permutations(Files) \union Permutations(Servers)
=============================================================================
