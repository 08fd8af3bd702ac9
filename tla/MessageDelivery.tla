---------------------------- MODULE MessageDelivery ----------------------------
(***************************************************************************)
(* What the outbound queue promises, whoever sends and dies: a message is  *)
(* handed to the provider only while it is open, is reported as sent only  *)
(* if the provider has it, and is never handed over again once it is       *)
(* closed, in whatever way.                                                *)
(***************************************************************************)
EXTENDS Integers

CONSTANT Messages

VARIABLES
  state,   \* of each message
  copies   \* how often the provider has taken it

vars == <<state, copies>>

States == {"absent", "open", "sent", "closed"}

Init ==
  /\ state = [m \in Messages |-> "absent"]
  /\ copies = [m \in Messages |-> 0]

Queue(m) ==
  /\ state[m] = "absent"
  /\ state' = [state EXCEPT ![m] = "open"]
  /\ UNCHANGED copies

HandOver(m) ==
  /\ state[m] = "open"
  /\ copies' = [copies EXCEPT ![m] = @ + 1]
  /\ UNCHANGED state

(* A transaction that ends settles several messages at once: what was sent is *)
(* reported, what was refused, unclear or too old is given up.  A late         *)
(* cutoff may even give up a message that was reported as sent.                *)
Settle ==
  /\ state' \in [Messages -> States]
  /\ \A m \in Messages :
       \/ state'[m] = state[m]
       \/ state[m] = "open" /\ state'[m] = "sent" /\ copies[m] > 0
       \/ state[m] \in {"open", "sent"} /\ state'[m] = "closed"
  /\ UNCHANGED copies

Next ==
  \/ \E m \in Messages : Queue(m) \/ HandOver(m)
  \/ Settle

Spec == Init /\ [][Next]_vars
================================================================================
