------------------------- MODULE MCCalendarMoveUndo -------------------------
(* Instances of CalendarMoveUndo for TLC. *)
EXTENDS CalendarMoveUndo, TLC

ClientSymmetry == Permutations(Clients)
=============================================================================
