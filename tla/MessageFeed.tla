------------------------------ MODULE MessageFeed ------------------------------
(***************************************************************************)
(* What the WeChat inbox promises, whatever processes poll and die: the    *)
(* provider is only told to forget messages that are stored, in its order, *)
(* and a stored message is answered at most once.                          *)
(***************************************************************************)
EXTENDS Integers

CONSTANT MaxMessages   \* bound: messages the provider ever has

VARIABLES
  arrived,    \* number of messages the provider has
  forgotten,  \* the cursor: what the provider will not send again
  stored,     \* messages with a row
  answered,   \* messages a turn was committed for
  replied     \* messages a reply was enqueued for

vars == <<arrived, forgotten, stored, answered, replied>>

Init ==
  /\ arrived = 0 /\ forgotten = 0
  /\ stored = {} /\ answered = {} /\ replied = {}

Arrive ==
  /\ arrived < MaxMessages
  /\ arrived' = arrived + 1
  /\ UNCHANGED <<forgotten, stored, answered, replied>>

(* The messages up to n are stored and forgotten in one step *)
Store(n) ==
  /\ forgotten' = n
  /\ stored' = stored \cup 1..n
  /\ UNCHANGED <<arrived, answered, replied>>

Answer(m) ==
  /\ m \in stored \ answered
  /\ answered' = answered \cup {m}
  /\ UNCHANGED <<arrived, forgotten, stored, replied>>

Reply(m) ==
  /\ m \in answered \ replied
  /\ replied' = replied \cup {m}
  /\ UNCHANGED <<arrived, forgotten, stored, answered>>

Next ==
  \/ Arrive
  \/ \E n \in forgotten..arrived : Store(n)
  \/ \E m \in stored : Answer(m) \/ Reply(m)

Spec == Init /\ [][Next]_vars
================================================================================
