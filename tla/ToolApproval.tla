------------------------------ MODULE ToolApproval ------------------------------
(***************************************************************************)
(* What the tool calls of the agent promise, whatever transactions, web    *)
(* decisions, edits and crashes meet: a call runs at most once; one that   *)
(* needs the consent of the user runs only in the step that uses up the    *)
(* consent; a task asks for one consent at a time, which is decided once   *)
(* and for good; and a question that is withdrawn is replaced by another   *)
(* in the same step.  What a step shows belongs to one task.               *)
(***************************************************************************)

CONSTANTS Tasks, Calls

VARIABLES
  decision,  \* on the consent each call needs, "none" for one that needs none
  status,    \* of each call
  effect     \* whether its effect is committed

vars == <<decision, status, effect>>

Execs     == Tasks \X Calls
Decisions == {"none", "pending", "consumed", "rejected", "superseded"}
Outcomes  == {"running", "succeeded", "failed", "unknown_result"}
                                 \* running: it was cut off
Statuses  == Outcomes \cup {"absent", "awaiting_confirmation", "cancelled"}

Init ==
  /\ decision = [e \in Execs |-> "none"]
  /\ status = [e \in Execs |-> "absent"]
  /\ effect = [e \in Execs |-> FALSE]

Becomes(e, d, s, f) == decision'[e] = d /\ status'[e] = s /\ effect'[e] = f

Ran(e, d) == \E s \in Outcomes, f \in BOOLEAN :
               (f => s = "succeeded") /\ Becomes(e, d, s, f)

New(e)     == status[e] = "absent"
Pending(e) == decision[e] = "pending"

Stay(e)        == Becomes(e, decision[e], status[e], effect[e])
Run(e)         == New(e) /\ Ran(e, "none")
Ask(e)         == New(e) /\ Becomes(e, "pending", "awaiting_confirmation", FALSE)
Approve(e)     == Pending(e) /\ Becomes(e, "consumed", "awaiting_confirmation", FALSE)
RunApproved(e) == Pending(e) /\ Ran(e, "consumed")
Reject(e)      == Pending(e) /\ Becomes(e, "rejected", "cancelled", FALSE)
Replace(e)     == /\ Pending(e) /\ Becomes(e, "superseded", "cancelled", FALSE)
                  /\ \E f \in Execs : f[1] = e[1] /\ Ask(f)

OneQuestion ==
  \A e, f \in Execs : e[1] = f[1] /\ Pending(e) /\ Pending(f) => e = f

Next ==
  /\ decision' \in [Execs -> Decisions] /\ status' \in [Execs -> Statuses]
  /\ effect' \in [Execs -> BOOLEAN]
  /\ \E t \in Tasks : \A e \in Execs :
       \/ Stay(e)
       \/ /\ e[1] = t
          /\ \/ Run(e) \/ Ask(e) \/ Approve(e) \/ RunApproved(e) \/ Reject(e)
             \/ Replace(e)
  /\ OneQuestion'

Spec == Init /\ [][Next]_vars
================================================================================
