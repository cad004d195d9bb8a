-------------------------- MODULE MCAuthentication --------------------------
(* Small instances of Authentication for TLC.                                *)
EXTENDS AuthenticationInv, TLC

Symmetry == Permutations(Tabs) \cup Permutations(Passwords)
=============================================================================
