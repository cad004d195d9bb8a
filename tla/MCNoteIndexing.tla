--------------------------- MODULE MCNoteIndexing ---------------------------
(* Small instances of NoteIndexing for TLC.                                  *)
EXTENDS NoteIndexingInv, TLC

Symmetry == Permutations(Requests) \cup Permutations(Workers)
               \cup Permutations(Notes)
=============================================================================
