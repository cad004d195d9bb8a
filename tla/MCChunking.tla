----------------------------- MODULE MCChunking -----------------------------
(* Small instances of Chunking for TLC.                                      *)
EXTENDS ChunkingInv
=============================================================================
