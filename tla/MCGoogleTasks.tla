---------------------------- MODULE MCGoogleTasks ----------------------------
(* Instances of GoogleTasks for TLC. *)
EXTENDS GoogleTasks
=============================================================================
