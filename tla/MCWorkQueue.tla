----------------------------- MODULE MCWorkQueue ----------------------------
(* Small instances of WorkQueue for TLC.                                     *)
EXTENDS WorkQueue
=============================================================================
