------------------------------ MODULE AgentTask -------------------------------
(***************************************************************************)
(* Tasks of the WeChat agent (modules/agent): a turn of the model that     *)
(* runs tools, the confirmations that writing tools wait for, cancellation *)
(* from the web, recovery of expired claims, and the binding epoch that    *)
(* fences all of them.                                                     *)
(*                                                                         *)
(* A turn, and the confirmation of a tool call by message, are each one    *)
(* long transaction (READ COMMITTED): what it wrote so far is in ownTask   *)
(* and ownExec, its rows are locked for other writers, readers still see   *)
(* the committed rows, and each of its statements sees what the others     *)
(* have committed by then.  All other operations are one statement or take *)
(* their lock first, except request_cancel, which reads a task and then    *)
(* writes it by id: for a cancellation and at the end of a rejection.      *)
(*                                                                         *)
(* A confirmation belongs to one tool execution and is a field of its row. *)
(* Its version is 1 while it is pending and its args_hash never changes,   *)
(* so the two compare-and-sets on them are the test for "pending".         *)
(***************************************************************************)
EXTENDS Integers, FiniteSets

CONSTANTS
  Tasks,        \* agent_tasks ids of one user
  Calls,        \* bound: tool calls in one task
  MaxAttempts,  \* wechat_agent_max_attempts
  MaxEpoch      \* bound on binding_epoch

ASSUME AgentTaskAssumption == MaxAttempts \in Nat \ {0} /\ MaxEpoch \in Nat

Execs == Tasks \X Calls   \* agent_tool_executions, with the task_id of each

VARIABLES
  binding,  \* the user's wechat_bindings row
  task,     \* committed task rows
  exec,     \* committed execution rows with their confirmations
  lapsed,   \* tasks whose claim_until has passed
  expired,  \* executions whose confirmation's expires_at has passed
  phase,    \* where the open transaction of each task is
  mine,     \* the executions it has inserted or locked
  ownTask,  \* the task row as it sees it
  ownExec,  \* the execution rows as it sees them
  cancel,   \* the status a cancellation under way has read, or "none"
  rejecting,\* the same for a rejection under way, which has locked its execution
  told      \* history: tasks whose user was told nothing was committed

vars == <<binding, task, exec, lapsed, expired, phase, mine, ownTask, ownExec, cancel,
          rejecting, told>>
open == <<phase, mine, ownTask, ownExec>>

TaskStatuses ==
  {"absent", "queued", "running", "awaiting_input", "awaiting_confirmation",
   "waiting_external", "retry_wait", "cancel_requested", "cancelled",
   "succeeded", "failed", "unknown_result", "dead_letter"}
ExecStatuses ==
  {"absent", "awaiting_confirmation", "running", "succeeded", "failed",
   "unknown_result", "cancelled"}   \* failed: retry_wait and cancelled results too
Decisions == {"none", "pending", "consumed", "rejected", "superseded"}
                                 \* rejected: also the status cancelled
Phases    == {"idle", "decided", "queued", "thinking", "proposed", "duplicate",
              "approved", "executed", "broken"}

TaskRow == [status: TaskStatuses, epoch: Nat, generation: Nat, owned: BOOLEAN,
            resumed: BOOLEAN]
ExecRow == [status: ExecStatuses, decision: Decisions, epoch: Nat,
            effect: BOOLEAN]   \* effect: committed_at is set

NoTask  == [status |-> "absent", epoch |-> 0, generation |-> 0, owned |-> FALSE,
            resumed |-> FALSE]
NoExec  == [status |-> "absent", decision |-> "none", epoch |-> 0,
            effect |-> FALSE]

Init ==
  /\ binding = [active |-> TRUE, epoch |-> 1]
  /\ task = [t \in Tasks |-> NoTask]
  /\ exec = [e \in Execs |-> NoExec]
  /\ lapsed = {} /\ expired = {}
  /\ phase = [t \in Tasks |-> "idle"]
  /\ mine = [t \in Tasks |-> {}]
  /\ ownTask = task
  /\ ownExec = exec
  /\ cancel = [t \in Tasks |-> "none"]
  /\ rejecting = [e \in Execs |-> "none"]
  /\ told = {}

--------------------------------------------------------------------------------
(* Rows, locks and guards *)

(* The EXISTS over wechat_bindings in every guarded statement *)
Active(epoch) == binding.active /\ binding.epoch = epoch

TaskLocked(t) == phase[t] \notin {"idle", "decided"}
ExecLocked(e) == e \in mine[e[1]] \/ rejecting[e] # "none"
Unused(e)     == exec[e].status = "absent" /\ ~ExecLocked(e)

Unresolved(e) == exec[e].status \in {"running", "unknown_result"}

Queued(epoch) == [NoTask EXCEPT !.status = "queued", !.epoch = epoch]

(* A tool call that waits for its confirmation *)
Proposal(epoch) == [status |-> "awaiting_confirmation", decision |-> "pending",
                    epoch |-> epoch, effect |-> FALSE]

(* Mutant of DecidableBy: the status of the confirmation is not compared *)
DecidableAnyway(e, row) ==
  row.status # "absent" /\ e \notin expired /\ Active(row.epoch)

(* ConfirmationService.decide, decide_by_id *)
DecidableBy(e, row) ==
  row.decision = "pending" /\ e \notin expired /\ Active(row.epoch)

Decidable(e) == ~ExecLocked(e) /\ DecidableBy(e, exec[e])

(* A tool call that needs none *)
Call(epoch) == [Proposal(epoch) EXCEPT !.decision = "none"]

(* End of the open transaction of t *)
Close(t) ==
  /\ phase' = [phase EXCEPT ![t] = "idle"]
  /\ mine' = [mine EXCEPT ![t] = {}]
  /\ ownTask' = [ownTask EXCEPT ![t] = NoTask]
  /\ ownExec' = [e \in Execs |-> IF e \in mine[t] THEN NoExec ELSE ownExec[e]]

CommitExecs(t) ==
  exec' = [e \in Execs |-> IF e \in mine[t] THEN ownExec[e] ELSE exec[e]]

(* Mutant of EndLease: the lease of a claim that was given up is kept *)
EndLeaseForgotten(t, row) == UNCHANGED lapsed

(* A row without a claim has no lease that could have ended *)
EndLease(t, row) == lapsed' = IF row.owned THEN lapsed ELSE lapsed \ {t}

(* Commit with the task row in the given state *)
Commit(t, row) ==
  /\ task' = [task EXCEPT ![t] = row]
  /\ EndLease(t, row)
  /\ CommitExecs(t)
  /\ Close(t)

--------------------------------------------------------------------------------
(* A message starts a task: _process_production_reply *)

Message(t) ==
  /\ task[t].status = "absent"
  /\ phase[t] = "idle"
  /\ binding.active
  /\ phase' = [phase EXCEPT ![t] = "queued"]
  /\ ownTask' = [ownTask EXCEPT ![t] = Queued(binding.epoch)]
  /\ UNCHANGED <<binding, task, exec, lapsed, expired, mine, ownExec,
                 cancel, rejecting, told>>

Claimed(row) == [row EXCEPT !.status = "running", !.owned = TRUE,
                            !.generation = @ + 1]

(* claim_task, for a new task and for one whose tool call was just confirmed *)
Claim(t) ==
  /\ phase[t] = "queued"
  /\ IF Active(ownTask[t].epoch)
       THEN /\ ownTask' = [ownTask EXCEPT ![t] = Claimed(@)]
            /\ phase' = [phase EXCEPT ![t] = IF mine[t] = {} THEN "thinking"
                                                             ELSE "approved"]
            /\ UNCHANGED <<task, exec, lapsed, mine, ownExec>>
       ELSE Commit(t, ownTask[t])
  /\ UNCHANGED <<binding, expired, cancel, rejecting, told>>

(* What SqlExecutionStore.complete leaves of a tool that ended with a result *)
Completed(row, result) ==
  [row EXCEPT !.status = IF result = "read" THEN "succeeded" ELSE result,
              !.effect = (result = "succeeded")]

(* The savepoint is rolled back: the tool raised, or complete found that the *)
(* binding had changed.                                                      *)
RolledBack(row) == [row EXCEPT !.status = "running"]

Results == {"succeeded", "read", "failed", "unknown_result"}

Replied(e, row, next) ==
  LET t == e[1]
  IN /\ ownExec' = [ownExec EXCEPT ![e] = row]
     /\ phase' = [phase EXCEPT ![t] = next]
     /\ mine' = [mine EXCEPT ![t] = @ \cup {e}]
     /\ UNCHANGED <<binding, task, exec, lapsed, expired, ownTask,
                    cancel, rejecting, told>>

(* The model calls a tool that needs no confirmation *)
CallTool(e) ==
  LET row == Call(ownTask[e[1]].epoch)
  IN /\ phase[e[1]] = "thinking"
     /\ Unused(e)
     /\ \/ /\ Active(row.epoch)
           /\ \E result \in Results : Replied(e, Completed(row, result), "thinking")
        \/ Replied(e, RolledBack(row), "broken")

(* The model calls a tool that must be confirmed first *)
Propose(e) ==
  /\ phase[e[1]] = "thinking"
  /\ Unused(e)
  /\ Replied(e, Proposal(ownTask[e[1]].epoch), "proposed")

(* The model repeats a call of this turn: ON CONFLICT DO NOTHING *)
RepeatCall(t) ==
  /\ phase[t] = "thinking"
  /\ mine[t] # {}
  /\ phase' = [phase EXCEPT ![t] = "duplicate"]
  /\ UNCHANGED <<binding, task, exec, lapsed, expired, mine, ownTask, ownExec,
                 cancel, rejecting, told>>

(* How a transaction may end: the target_status of each outcome *)
Ends ==
  {<<"thinking", "succeeded">>, <<"thinking", "awaiting_input">>,
   <<"thinking", "failed">>, <<"proposed", "awaiting_confirmation">>,
   <<"duplicate", "waiting_external">>, <<"executed", "succeeded">>,
   <<"broken", "failed">>}

(* transition_claimed *)
Transitioned(row, status) ==
  [row EXCEPT !.status = status,
              !.owned = status \in {"awaiting_input", "waiting_external"}]

(* The transaction commits in any case; when the claim or the binding is     *)
(* gone the task stays running, and a turn answers that nothing was          *)
(* committed.                                                                *)
Finish(t) ==
  LET kept == t \notin lapsed /\ Active(ownTask[t].epoch)
  IN /\ \E end \in Ends :
          /\ phase[t] = end[1]
          /\ Commit(t, IF kept THEN Transitioned(ownTask[t], end[2]) ELSE ownTask[t])
     /\ told' = IF ~kept /\ task[t].status = "absent" THEN told \cup {t} ELSE told
     /\ UNCHANGED <<binding, expired, cancel, rejecting>>

(* The process shuts down while the turn waits for the model or for a tool:  *)
(* _session_cm rolls back on Exception only, so the cancelled transaction is *)
(* committed as far as it got.  A tool that was cut off leaves its row as    *)
(* one that raised does.                                                     *)
Interrupt(t) ==
  /\ phase[t] \in {"thinking", "broken"}
  /\ Commit(t, ownTask[t])
  /\ UNCHANGED <<binding, expired, cancel, rejecting, told>>

(* The process dies or the statement fails: the transaction is rolled back *)
Abort(t) ==
  /\ phase[t] # "idle"
  /\ Close(t)
  /\ EndLease(t, task[t])
  /\ UNCHANGED <<binding, task, exec, expired, cancel, rejecting, told>>

--------------------------------------------------------------------------------
(* Confirmation by message: _try_process_confirmation *)

Consumed(row) == [row EXCEPT !.decision = "consumed"]

Decide(e) ==
  LET t == e[1]
  IN /\ Decidable(e)
     /\ phase[t] = "idle"
     /\ phase' = [phase EXCEPT ![t] = "decided"]
     /\ mine' = [mine EXCEPT ![t] = {e}]
     /\ ownExec' = [ownExec EXCEPT ![e] = Consumed(exec[e])]
     /\ UNCHANGED <<binding, task, exec, lapsed, expired, ownTask,
                    cancel, rejecting, told>>

(* queue_after_confirmation *)
CanQueue(t) == task[t].status = "awaiting_confirmation" /\ Active(task[t].epoch)

QueuedAgain(row) == [row EXCEPT !.status = "queued"]

Queue(t) ==
  /\ phase[t] = "decided"
  /\ IF CanQueue(t)
       THEN /\ phase' = [phase EXCEPT ![t] = "queued"]
            /\ ownTask' = [ownTask EXCEPT ![t] = QueuedAgain(task[t])]
            /\ UNCHANGED <<task, exec, lapsed, mine, ownExec>>
       ELSE Commit(t, task[t])
  /\ UNCHANGED <<binding, expired, cancel, rejecting, told>>

(* Run the stored call unless it is no longer the one that was proposed *)
Execute(e) ==
  LET t   == e[1]
      row == ownExec[e]
  IN /\ phase[t] = "approved" /\ e \in mine[t]
     /\ \/ /\ row.status # "awaiting_confirmation"
           /\ Commit(t, ownTask[t])
           /\ UNCHANGED <<binding, expired, cancel, rejecting, told>>
        \/ /\ row.status = "awaiting_confirmation" /\ Active(row.epoch)
           /\ \E result \in Results :
                Replied(e, Completed(row, result),
                        IF result \in {"succeeded", "read"} THEN "executed"
                                                            ELSE "broken")
        \/ /\ row.status = "awaiting_confirmation"
           /\ Replied(e, RolledBack(row), "broken")

--------------------------------------------------------------------------------
(* One-statement and locked operations *)

(* decide_agent_confirmation, "approve" *)
WebApprove(e) ==
  LET t == e[1]
  IN /\ Decidable(e) /\ ~TaskLocked(t) /\ CanQueue(t)
     /\ exec' = [exec EXCEPT ![e] = Consumed(@)]
     /\ task' = [task EXCEPT ![t] = QueuedAgain(@)]
     /\ UNCHANGED <<binding, lapsed, expired, open, cancel, rejecting, told>>

Final == {"succeeded", "cancelled", "dead_letter"}
Immediate == {"awaiting_input", "awaiting_confirmation", "queued", "retry_wait",
              "failed"}

(* Mutant of CancelledRow: a task that waits for the user is not cancelled *)
CancelledRowNotWaiting(row, seen) ==
  [row EXCEPT !.status = IF seen \in Final \cup {"awaiting_confirmation"} THEN row.status
                         ELSE IF seen \in Immediate THEN "cancelled"
                         ELSE "cancel_requested"]

(* Mutant of CancelledRow: only success is final *)
CancelledRowAnyway(row, seen) ==
  [row EXCEPT !.status = IF seen = "succeeded" THEN row.status
                         ELSE IF seen \in Immediate THEN "cancelled"
                         ELSE "cancel_requested"]

(* request_cancel on a row whose status was read as seen *)
CancelledRow(row, seen) ==
  [row EXCEPT !.status = IF seen \in Final THEN row.status
                         ELSE IF seen \in Immediate THEN "cancelled"
                         ELSE "cancel_requested"]

Rejected(row) == [row EXCEPT !.decision = "rejected", !.status = "cancelled"]

(* "reject" and "cancel", by message or on the web: the confirmation and the *)
(* execution are decided and locked, request_cancel reads the task ...       *)
RejectRead(e) ==
  /\ Decidable(e)
  /\ rejecting' = [rejecting EXCEPT ![e] = task[e[1]].status]
  /\ UNCHANGED <<binding, task, exec, lapsed, expired, open, cancel, told>>

(* ... and writes it by id, once the lock is free, unless it read an end *)
RejectWrite(e) ==
  LET t == e[1]
  IN /\ rejecting[e] # "none"
     /\ rejecting[e] \in Final \/ ~TaskLocked(t)
     /\ exec' = [exec EXCEPT ![e] = Rejected(@)]
     /\ task' = [task EXCEPT ![t] = CancelledRow(@, rejecting[e])]
     /\ rejecting' = [rejecting EXCEPT ![e] = "none"]
     /\ UNCHANGED <<binding, lapsed, expired, open, cancel, told>>

(* The rejection is rolled back *)
RejectFails(e) ==
  /\ rejecting[e] # "none"
  /\ rejecting' = [rejecting EXCEPT ![e] = "none"]
  /\ UNCHANGED <<binding, task, exec, lapsed, expired, open, cancel, told>>

(* Mutant of Superseded: the proposal that was edited stays valid *)
SupersededNot(row) == row

Superseded(row) == [row EXCEPT !.decision = "superseded", !.status = "cancelled"]

(* edit_and_reissue, edit_by_id_and_reissue *)
Edit(e, f) ==
  /\ Decidable(e) /\ exec[e].status = "awaiting_confirmation"
  /\ f[1] = e[1] /\ f # e /\ Unused(f)
  /\ exec' = [exec EXCEPT ![e] = Superseded(@), ![f] = Proposal(exec[e].epoch)]
  /\ UNCHANGED <<binding, task, lapsed, expired, open, cancel, rejecting, told>>

(* request_cancel from the web or the command line reads the row ... *)
CancelRead(t) ==
  /\ cancel[t] = "none"
  /\ task[t].status \notin Final \cup {"absent"}
  /\ cancel' = [cancel EXCEPT ![t] = task[t].status]
  /\ UNCHANGED <<binding, task, exec, lapsed, expired, open, rejecting, told>>

(* ... and writes it by id, once the lock is free *)
CancelWrite(t) ==
  /\ cancel[t] # "none"
  /\ ~TaskLocked(t)
  /\ task' = [task EXCEPT ![t] = CancelledRow(@, cancel[t])]
  /\ cancel' = [cancel EXCEPT ![t] = "none"]
  /\ UNCHANGED <<binding, exec, lapsed, expired, open, rejecting, told>>

(* Mutant of Due: a cancellation also waits for the lease to end *)
DueByLease(t) ==
  /\ task[t].status \in {"running", "waiting_external", "cancel_requested"}
  /\ task[t].owned /\ t \in lapsed

Due(t) ==
  \/ task[t].status = "cancel_requested"
  \/ /\ task[t].status \in {"running", "waiting_external"}
     /\ task[t].owned /\ t \in lapsed

ExecsOf(t) == {e \in Execs : e[1] = t}

(* Mutant of RecoveredStatus: the attempts are counted before the evidence is read *)
RecoveredByAttempts(t) ==
  IF task[t].status = "cancel_requested" \/ ~Active(task[t].epoch) THEN "cancelled"
  ELSE IF task[t].generation >= MaxAttempts THEN "dead_letter"
  ELSE IF \E e \in ExecsOf(t) : exec[e].effect THEN "succeeded"
  ELSE IF (\E e \in ExecsOf(t) : Unresolved(e)) \/ task[t].status = "waiting_external"
    THEN "unknown_result"
  ELSE "retry_wait"

RecoveredStatus(t) ==
  IF task[t].status = "cancel_requested" \/ ~Active(task[t].epoch) THEN "cancelled"
  ELSE IF \E e \in ExecsOf(t) : exec[e].effect THEN "succeeded"
  ELSE IF (\E e \in ExecsOf(t) : Unresolved(e)) \/ task[t].status = "waiting_external"
    THEN "unknown_result"
  ELSE IF task[t].generation >= MaxAttempts THEN "dead_letter"
  ELSE "retry_wait"

Recovered(row, status) == [row EXCEPT !.status = status, !.owned = FALSE]

(* recover_expired_task, run for the rows of agent_task_recovery_queue *)
Recover(t) ==
  /\ Due(t) /\ ~TaskLocked(t)
  /\ task' = [task EXCEPT ![t] = Recovered(@, RecoveredStatus(t))]
  /\ lapsed' = lapsed \ {t}
  /\ UNCHANGED <<binding, exec, expired, open, cancel, rejecting, told>>

(* Mutant of MayResume: unresolved executions are not looked for *)
MayResumeAnyway(t) ==
  /\ task[t].status \in {"failed", "unknown_result", "cancelled", "dead_letter"}
  /\ Active(task[t].epoch)
  /\ ~task[t].resumed

MayResume(t) ==
  /\ task[t].status \in {"failed", "unknown_result", "cancelled", "dead_letter"}
  /\ Active(task[t].epoch)
  /\ \A e \in ExecsOf(t) : ~Unresolved(e)
  /\ ~task[t].resumed

Resumed(row) == [row EXCEPT !.resumed = TRUE]

(* resume_task, and replay_message for a dead letter: a new task u *)
Resume(t, u) ==
  /\ MayResume(t) /\ ~TaskLocked(t)
  /\ task[u].status = "absent" /\ phase[u] = "idle"
  /\ task' = [task EXCEPT ![t] = Resumed(@),
                          ![u] = Queued(task[t].epoch)]
  /\ UNCHANGED <<binding, exec, lapsed, expired, open, cancel, rejecting, told>>

(* unbind, and bind_wechat for a user who has a binding *)
Rebind(active) ==
  /\ binding.epoch < MaxEpoch
  /\ binding' = [active |-> active, epoch |-> binding.epoch + 1]
  /\ UNCHANGED <<task, exec, lapsed, expired, open, cancel, rejecting, told>>

(* claim_until passes *)
Lapse(t) ==
  /\ task[t].owned \/ ownTask[t].owned
  /\ t \notin lapsed
  /\ lapsed' = lapsed \cup {t}
  /\ UNCHANGED <<binding, task, exec, expired, open, cancel, rejecting, told>>

(* expires_at passes *)
Expire(e) ==
  /\ exec[e].decision = "pending"
  /\ e \notin expired
  /\ expired' = expired \cup {e}
  /\ UNCHANGED <<binding, task, exec, lapsed, open, cancel, rejecting, told>>

--------------------------------------------------------------------------------

TaskStep(t) ==
  \/ Message(t) \/ Claim(t) \/ RepeatCall(t) \/ Finish(t) \/ Interrupt(t)
  \/ Abort(t) \/ Queue(t) \/ CancelRead(t) \/ CancelWrite(t)
  \/ Recover(t) \/ Lapse(t)
  \/ \E u \in Tasks : Resume(t, u)

ExecStep(e) ==
  \/ CallTool(e) \/ Propose(e) \/ Decide(e) \/ Execute(e) \/ WebApprove(e)
  \/ RejectRead(e) \/ RejectWrite(e) \/ RejectFails(e) \/ Expire(e)
  \/ \E f \in Execs : Edit(e, f)

Next ==
  \/ \E t \in Tasks : TaskStep(t)
  \/ \E e \in Execs : ExecStep(e)
  \/ \E active \in BOOLEAN : Rebind(active)

Spec == Init /\ [][Next]_vars

(* A lease ends by itself, the cron entry scans the recovery queue every 30 s *)
(* and enqueues one recovery per row, and an open transaction goes on.        *)
Fairness ==
  /\ \A t \in Tasks : /\ WF_vars(Lapse(t)) /\ WF_vars(Recover(t))
                      /\ WF_vars(Claim(t) \/ Queue(t) \/ Finish(t))
  /\ \A e \in Execs : WF_vars(Execute(e))

FairSpec == Spec /\ Fairness

--------------------------------------------------------------------------------
(* Properties *)

(* Types; rows in an open transaction are its own, and a lease that ended is *)
(* the lease of a claim.                                                     *)
TypeOK ==
  /\ binding \in [active: BOOLEAN, epoch: Nat]
  /\ task \in [Tasks -> TaskRow]
  /\ exec \in [Execs -> ExecRow]
  /\ lapsed \in SUBSET {t \in Tasks : task[t].owned \/ ownTask[t].owned}
  /\ expired \in SUBSET Execs
  /\ phase \in [Tasks -> Phases]
  /\ mine \in [Tasks -> SUBSET Execs]
  /\ \A t \in Tasks : mine[t] \in SUBSET ExecsOf(t)
  /\ ownTask \in [Tasks -> TaskRow]
  /\ ownExec \in [Execs -> ExecRow]
  /\ cancel \in [Tasks -> {"none"} \cup TaskStatuses]
  /\ rejecting \in [Execs -> {"none"} \cup TaskStatuses]
  /\ told \in SUBSET Tasks

(* What was declined, replaced or never decided has no effect, and never     *)
(* gets one: a tool that needs a confirmation takes effect only with the     *)
(* confirmation consumed, whatever messages, web decisions, edits and        *)
(* cancellations meet (ConfirmationService, _try_process_confirmation).      *)
OnlyApprovedEffects ==
  \A e \in Execs :
    /\ exec[e].effect => exec[e].status = "succeeded"
                         /\ exec[e].decision \in {"none", "consumed"}
    /\ exec[e].decision \in {"rejected", "superseded"} => exec[e].status = "cancelled"

(* A task has at most one call that a confirmation can still release, and a  *)
(* confirmation that is pending is one for a call that still waits: editing  *)
(* a proposal never leaves two of them (edit_and_reissue).                   *)
OneProposalAtATime ==
  \A e, f \in Execs :
    exec[e].decision = "pending" =>
      /\ exec[e].status = "awaiting_confirmation"
      /\ e[1] = f[1] /\ exec[f].decision = "pending" => e = f

(* A task that waits for the user has a proposal that no one has decided yet *)
(* (it may have expired), as long as the binding it was made under lasts: no *)
(* order of edits, decisions, cancellations and aborted transactions leaves  *)
(* the task waiting for nothing.                                             *)
WaitingTaskHasAProposal ==
  \A t \in Tasks :
    task[t].status = "awaiting_confirmation" /\ Active(task[t].epoch) =>
      \E e \in ExecsOf(t) : exec[e].decision = "pending"

(* Recovery sends a task to another attempt, or gives it up, only when none  *)
(* of its calls took effect or may have ("without replaying unknown          *)
(* effects", recover_expired_task).                                          *)
RetriedWorkIsClean ==
  \A t \in Tasks : task[t].status \in {"retry_wait", "dead_letter"} =>
    \A e \in ExecsOf(t) : ~exec[e].effect /\ ~Unresolved(e)

(* The calls of a task that was resumed by another stay resolved: no late    *)
(* transaction of the old task brings one back (resume_task).                *)
ResumedWorkIsResolved ==
  \A t \in Tasks : task[t].resumed => \A e \in ExecsOf(t) : ~Unresolved(e)

(* A task that was left running, waits for an external result or is to be    *)
(* cancelled is settled by recovery (agent_task_recovery.py).                *)
Unsettled(t) == task[t].status \in {"running", "waiting_external", "cancel_requested"}

OpenTasksSettle == \A t \in Tasks : Unsettled(t) ~> ~Unsettled(t)

(* Recovery finds every such task: it is due, or its lease has yet to end     *)
(* (agent_task_recovery_queue).                                               *)
UnsettledIsRecoverable ==
  \A t \in Tasks : Unsettled(t) => Due(t) \/ (task[t].owned /\ t \notin lapsed)

(* The end of a request_cancel that had read the task when it was still open *)
StaleCancel(t) ==
  \/ cancel[t] \notin Final \cup {"none"} /\ cancel'[t] = "none"
  \/ \E e \in ExecsOf(t) :
       rejecting[e] \notin Final \cup {"none"} /\ rejecting'[e] = "none"

(* A task that has ended stays as it is, for turns, approvals and edits that  *)
(* come late and for recovery; only a cancellation or a rejection that read   *)
(* the task when it was still open writes over it (request_cancel has no      *)
(* lock).                                                                     *)
OnlyStaleCancellationsReopen ==
  [][\A t \in Tasks :
       task[t].status \in Final /\ task'[t].status # task[t].status =>
         StaleCancel(t)]_vars

(* A user who was told that the result was not committed finds no effect of  *)
(* that turn (the answer of _process_production_reply).  The code does not   *)
(* keep this: it answers so and commits what the tools of the turn did.      *)
NothingCommittedIsTrue ==
  \A t \in told : \A e \in ExecsOf(t) : ~exec[e].effect

(* The tool calls as ToolApproval sees them: the committed rows *)
Approval == INSTANCE ToolApproval
  WITH decision <- [e \in Execs |-> exec[e].decision],
       status <- [e \in Execs |-> exec[e].status],
       effect <- [e \in Execs |-> exec[e].effect]

(* Every call runs at most once, and with the consent it needs, whichever    *)
(* turn, message, web decision, edit, shutdown or crash comes between        *)
(* (SqlExecutionStore.reserve and complete, ConfirmationService).            *)
ImplementsApproval == Approval!Spec
================================================================================
