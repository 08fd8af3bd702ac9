------------------------------ MODULE AcceptOnce ------------------------------
(***************************************************************************)
(* What an idempotency key promises: it stands for one task for ever, that *)
(* task is charged when it comes into being or never, and whoever is told  *)
(* that the request was accepted is told of that task, which was charged.  *)
(***************************************************************************)
CONSTANTS Keys, Tasks, None

VARIABLES
  bound,    \* the task that a key stands for
  charged,  \* tasks that points are reserved for
  told      \* tasks that replies to the key have named

vars == <<bound, charged, told>>

Init ==
  /\ bound = [k \in Keys |-> None]
  /\ charged = {}
  /\ told = [k \in Keys |-> {}]

Free == {t \in Tasks : \A k \in Keys : bound[k] # t}

(* A task may be bound and not be charged: its key is then of no use *)
Bind(k, t) ==
  /\ bound[k] = None /\ t \in Free
  /\ bound' = [bound EXCEPT ![k] = t]
  /\ charged' \in {charged, charged \cup {t}}
  /\ \/ told' = told
     \/ t \in charged' /\ told' = [told EXCEPT ![k] = {t}]

Tell(k) ==
  /\ bound[k] \in charged
  /\ told' = [told EXCEPT ![k] = {bound[k]}]
  /\ UNCHANGED <<bound, charged>>

Next == \E k \in Keys : Tell(k) \/ \E t \in Tasks : Bind(k, t)

Spec == Init /\ [][Next]_vars
================================================================================
