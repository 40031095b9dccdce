-------------------------- MODULE MCTaskDeleteUndo --------------------------
(* An instance of TaskDeleteUndo for TLC. *)
EXTENDS TaskDeleteUndo
=============================================================================
