--------------------------- MODULE MCCalendarSync ---------------------------
(* Instances of CalendarSync for TLC. *)
EXTENDS CalendarSync, TLC

EventSymmetry == Permutations(Events \ Born)
=============================================================================
