------------------------------ MODULE MCDispatch ------------------------------
(* Dispatch for TLC: two intents, so that two scans overlap while each holds  *)
(* the rows the other skips, and a job of one intent runs beside them.        *)
EXTENDS Dispatch
================================================================================
