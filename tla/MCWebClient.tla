---------------------------- MODULE MCWebClient -----------------------------
(* Small instances of WebClient for TLC.                                     *)
EXTENDS WebClient, TLC

Symmetry == Permutations(Tasks) \cup Permutations(Users) \cup Permutations(Notes)
=============================================================================
