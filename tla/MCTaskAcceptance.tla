--------------------------- MODULE MCTaskAcceptance ---------------------------
(* TaskAcceptance for TLC: two handlers, two keys and two quotes, and points  *)
(* for one task, so that the second is refused unless it read too early.      *)
EXTENDS TaskAcceptance
================================================================================
