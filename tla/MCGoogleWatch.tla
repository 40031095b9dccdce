---- MODULE MCGoogleWatch ----
(* Instance of GoogleWatch for TLC. *)
EXTENDS GoogleWatch
====
