---------------------------- MODULE MCNotePages -----------------------------
(* Small instances of NotePages for TLC.                                     *)
EXTENDS NotePages
=============================================================================
