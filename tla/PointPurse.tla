------------------------------- MODULE PointPurse -------------------------------
(***************************************************************************)
(* What the point account of a user promises, without buckets or rows:     *)
(* points come in by grants and from then on only change hands.  They are  *)
(* available, reserved, spent or lost; what is lost stays lost, and no     *)
(* command moves points on more than one way at once.  All this is         *)
(* promised until the account drifts, and nothing is from then on.         *)
(***************************************************************************)
EXTENDS Integers

VARIABLES
  granted,    \* points of all grants so far, daily and compensating
  available,
  reserved,
  spent,      \* settled minus refunded: nothing bounds a refund
  lost,       \* expired
  drifted     \* an update was lost, or an expiry went unposted

vars == <<granted, available, reserved, spent, lost, drifted>>

Init ==
  /\ granted = 0 /\ available = 0 /\ reserved = 0 /\ spent = 0 /\ lost = 0
  /\ drifted = FALSE

Grant ==
  /\ granted' \in Nat /\ granted' > granted
  /\ available' = available + (granted' - granted)
  /\ UNCHANGED <<reserved, spent, lost>>

Reserve ==
  /\ available' \in 0 .. available
  /\ reserved' = reserved + (available - available')
  /\ UNCHANGED <<granted, spent, lost>>

Settle ==
  /\ reserved' \in 0 .. reserved
  /\ spent' = spent + (reserved - reserved')
  /\ UNCHANGED <<granted, available, lost>>

Release ==
  /\ reserved' \in 0 .. reserved
  /\ available' = available + (reserved - reserved')
  /\ UNCHANGED <<granted, spent, lost>>

Refund ==
  /\ available' \in Nat /\ available' > available
  /\ spent' = spent - (available' - available)
  /\ UNCHANGED <<granted, reserved, lost>>

Expire ==
  /\ available' \in 0 .. available
  /\ lost' = lost + (available - available')
  /\ UNCHANGED <<granted, reserved, spent>>

Drift == drifted' = TRUE

Next ==
  \/ /\ ~drifted /\ UNCHANGED drifted
     /\ Grant \/ Reserve \/ Settle \/ Release \/ Refund \/ Expire
  \/ Drift

Spec == Init /\ [][Next]_vars
================================================================================
