------------------------------ MODULE DurableQueue ------------------------------
(***************************************************************************)
(* What the queue of intents promises, whatever is lost, doubled or late:  *)
(* an item is claimed at most Limit times, and again only after the lease  *)
(* of the last claim has ended; it is delivered only by one who claims or  *)
(* has claimed it, and given up only when no claim is left.  Once settled  *)
(* it never waits again, but one who is late may settle it once more, even *)
(* the other way.                                                          *)
(***************************************************************************)
EXTENDS Naturals

CONSTANTS Items, Limit

VARIABLES
  state,   \* of each item
  claims,  \* how often it was claimed
  ended    \* items whose claim has outlived its lease

vars == <<state, claims, ended>>

States == {"absent", "pending", "dispatching", "confirmed", "dead_letter"}

Init ==
  /\ state = [i \in Items |-> "absent"]
  /\ claims = [i \in Items |-> 0]
  /\ ended = {}

Settled(i) == state[i] \in {"confirmed", "dead_letter"}
Lapsed(i)  == state[i] = "dispatching" /\ i \in ended
Free(i)    == state[i] = "pending" \/ Lapsed(i)

Becomes(i, next, count) == state'[i] = next /\ claims'[i] = count

Stay(i)     == Becomes(i, state[i], claims[i])
Add(i)      == state[i] = "absent" /\ Becomes(i, "pending", claims[i])
Claim(i)    == Free(i) /\ claims[i] < Limit /\ Becomes(i, "dispatching", claims[i] + 1)
TakeBack(i) == Lapsed(i) /\ Becomes(i, "pending", claims[i])
GiveUp(i)   == /\ Free(i) \/ Settled(i)
               /\ claims[i] = Limit
               /\ Becomes(i, "dead_letter", claims[i])

(* By one who has claimed it before, or who claims it and delivers at once *)
Deliver(i) ==
  \/ state[i] # "absent" /\ claims[i] > 0 /\ Becomes(i, "confirmed", claims[i])
  \/ /\ state[i] = "pending" \/ Settled(i)
     /\ claims[i] < Limit
     /\ Becomes(i, "confirmed", claims[i] + 1)

(* Only a lease of the last claim can have ended: a new claim has a new one *)
Leases(i) ==
  i \in ended' => state'[i] = "dispatching" /\ claims'[i] = claims[i]

(* A transaction moves several items at once *)
Next ==
  /\ state' \in [Items -> States] /\ claims' \in [Items -> Nat]
  /\ ended' \in SUBSET Items
  /\ \A i \in Items :
       /\ Stay(i) \/ Add(i) \/ Claim(i) \/ TakeBack(i) \/ GiveUp(i) \/ Deliver(i)
       /\ Leases(i)

Spec == Init /\ [][Next]_vars
================================================================================
