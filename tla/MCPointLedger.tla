---------------------------- MODULE MCPointLedger ----------------------------
(***************************************************************************)
(* PointLedger for TLC: two sessions overlap.  Daily grants of one point   *)
(* and reservations of up to two, so that a reservation can span the two   *)
(* buckets, the two reservations can share one, and a bucket lapses while  *)
(* points of it are reserved.  An operator's bucket lasts to the end of    *)
(* the second day, so the bucket granted first need not expire first.      *)
(***************************************************************************)
EXTENDS PointLedger, TLC

Symmetry == Permutations(Sessions)

(* States in which the account has just drifted are checked and not         *)
(* continued: most of what is claimed is claimed until then.                *)
UntilDrift == ~drifted
================================================================================
