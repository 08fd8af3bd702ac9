--------------------------- MODULE AgentTaskProofs ----------------------------
(***************************************************************************)
(* Proofs about AgentTask for any tasks, calls and limits.  The invariant  *)
(* adds to the properties what an open transaction may rely on: the rows   *)
(* it locked are still as it read them, and a task whose row it locked is  *)
(* new or waits for a confirmation.                                        *)
(***************************************************************************)
EXTENDS AgentTask, TLAPS

Good(r) ==
  /\ r.effect => r.status = "succeeded" /\ r.decision \in {"none", "consumed"}
  /\ r.decision \in {"rejected", "superseded"} => r.status = "cancelled"
  /\ r.decision = "pending" => r.status = "awaiting_confirmation"
  /\ r.status = "absent" => r.decision = "none"

RowsAreGood == \A e \in Execs : Good(exec[e]) /\ Good(ownExec[e])

Locking(t) == phase[t] \notin {"idle", "decided"}

(* What an open transaction holds *)
OpenTransactions ==
  \A t \in Tasks :
    /\ phase[t] = "idle" => mine[t] = {}
    /\ ~Locking(t) => ~ownTask[t].owned
    /\ task[t].status = "absent" => ~task[t].owned
    /\ cancel[t] # "none" => task[t].status # "absent"
    /\ phase[t] \in {"thinking", "proposed", "duplicate"} => task[t].status = "absent"
    /\ Locking(t) => /\ task[t].status \in {"absent", "awaiting_confirmation"}
                     /\ ownTask[t].status \in {"queued", "running"}
                     /\ ~ownTask[t].resumed
    /\ phase[t] = "queued" /\ mine[t] = {} => task[t].status = "absent"
    /\ phase[t] = "proposed" => \E e \in mine[t] : ownExec[e].decision = "pending"
    /\ phase[t] = "decided" => mine[t] # {}
    /\ phase[t] = "decided" =>
         \A e \in mine[t] : exec[e].decision = "pending" /\ ownExec[e] = Consumed(exec[e])
    /\ task[t].status = "absent" => \A e \in ExecsOf(t) : exec[e].status = "absent"

(* At most one pending proposal among the rows a transaction wrote *)
OneOwnProposal ==
  \A t \in Tasks : \A e, f \in mine[t] :
    ownExec[e].decision = "pending" =>
      /\ phase[t] = "proposed"
      /\ ownExec[f].decision = "pending" => e = f

(* Rows carry epochs of the past, or the current one while it is bound *)
Fenced(r) ==
  r.epoch <= binding.epoch /\ (r.epoch = binding.epoch => binding.active)

EpochsPass ==
  \A t \in Tasks : /\ task[t].status # "absent" => Fenced(task[t])
                   /\ Locking(t) => Fenced(ownTask[t])

Resumable == {"failed", "unknown_result", "cancelled", "dead_letter", "cancel_requested"}

ResumedIsOver == \A t \in Tasks : task[t].resumed => task[t].status \in Resumable

(* A rejection under way holds a proposal that no open transaction has, and  *)
(* a task that it found ended does not wait for its user again.              *)
HeldByRejection(e) ==
  /\ e \notin mine[e[1]]
  /\ exec[e].decision = "pending"
  /\ rejecting[e] \in Final => task[e[1]].status # "awaiting_confirmation"

OpenRejections == \A e \in Execs : rejecting[e] # "none" => HeldByRejection(e)

RowsInv ==
  /\ TypeOK
  /\ RowsAreGood
  /\ OpenTransactions
  /\ OneOwnProposal
  /\ OneProposalAtATime
  /\ EpochsPass
  /\ ResumedIsOver
  /\ RetriedWorkIsClean
  /\ ResumedWorkIsResolved
  /\ WaitingTaskHasAProposal

Inv == RowsInv /\ OpenRejections

--------------------------------------------------------------------------------
(* What the operators do to a row *)

(* A task row after a claim, a new queueing or a resume                     *)
LEMMA TaskRows ==
  ASSUME NEW r \in TaskRow
  PROVE  /\ Claimed(r) \in TaskRow /\ Claimed(r).status = "running"
         /\ Claimed(r).owned /\ Claimed(r).resumed = r.resumed
         /\ Claimed(r).epoch = r.epoch
         /\ QueuedAgain(r) \in TaskRow /\ QueuedAgain(r).status = "queued"
         /\ QueuedAgain(r).owned = r.owned /\ QueuedAgain(r).epoch = r.epoch
         /\ QueuedAgain(r).resumed = r.resumed
         /\ Resumed(r) \in TaskRow /\ Resumed(r).status = r.status
         /\ Resumed(r).owned = r.owned /\ Resumed(r).epoch = r.epoch
         /\ Resumed(r).resumed
<1>1. Claimed(r) \in TaskRow
  <2>1. \A n \in Nat : [r EXCEPT !.status = "running", !.owned = TRUE,
                                  !.generation = n] \in TaskRow
    BY DEF TaskRow, TaskStatuses
  <2>2. r.generation + 1 \in Nat
    BY DEF TaskRow
  <2> QED BY <2>1, <2>2, Zenon DEF Claimed
<1>2. Claimed(r).status = "running" /\ Claimed(r).owned /\ Claimed(r).epoch = r.epoch
  BY DEF TaskRow, Claimed
<1>3. Claimed(r).resumed = r.resumed
  BY DEF TaskRow, Claimed
<1>4. QueuedAgain(r).status = "queued" /\ QueuedAgain(r).epoch = r.epoch
  BY DEF TaskRow, QueuedAgain
<1>5. QueuedAgain(r).owned = r.owned
  BY DEF TaskRow, QueuedAgain
<1>6. QueuedAgain(r).resumed = r.resumed
  BY DEF TaskRow, QueuedAgain
<1>7. QueuedAgain(r) \in TaskRow
  BY DEF TaskRow, TaskStatuses, QueuedAgain
<1>8. /\ Resumed(r) \in TaskRow /\ Resumed(r).status = r.status
       /\ Resumed(r).epoch = r.epoch /\ Resumed(r).resumed
  BY DEF TaskRow, Resumed
<1>9. Resumed(r).owned = r.owned
  BY DEF TaskRow, Resumed
<1> QED BY <1>1, <1>2, <1>3, <1>4, <1>5, <1>6, <1>7, <1>8, <1>9, Zenon

(* A task row after transition_claimed                                      *)
LEMMA TransitionedRows ==
  ASSUME NEW r \in TaskRow, NEW s \in TaskStatuses
  PROVE  /\ Transitioned(r, s) \in TaskRow /\ Transitioned(r, s).status = s
         /\ Transitioned(r, s).epoch = r.epoch
         /\ Transitioned(r, s).resumed = r.resumed
<1>1. Transitioned(r, s).status = s /\ Transitioned(r, s).epoch = r.epoch
  BY DEF TaskRow, Transitioned
<1>2. Transitioned(r, s).resumed = r.resumed
  BY DEF TaskRow, Transitioned
<1>3. Transitioned(r, s) \in TaskRow
  <2>1. \A b \in BOOLEAN : [r EXCEPT !.status = s, !.owned = b] \in TaskRow
    BY DEF TaskRow
  <2>2. (s \in {"awaiting_input", "waiting_external"}) \in BOOLEAN
    BY SMT
  <2> QED BY <2>1, <2>2, Zenon DEF Transitioned
<1> QED BY <1>1, <1>2, <1>3, Zenon

(* A task row after recover_expired_task                                    *)
LEMMA RecoveredRows ==
  ASSUME NEW r \in TaskRow, NEW s \in TaskStatuses
  PROVE  /\ Recovered(r, s) \in TaskRow /\ Recovered(r, s).status = s
         /\ ~Recovered(r, s).owned /\ Recovered(r, s).epoch = r.epoch
         /\ Recovered(r, s).resumed = r.resumed
<1>1. /\ Recovered(r, s) \in TaskRow /\ Recovered(r, s).status = s
      /\ ~Recovered(r, s).owned /\ Recovered(r, s).epoch = r.epoch
  BY DEF TaskRow, Recovered
<1>2. Recovered(r, s).resumed = r.resumed
  BY DEF TaskRow, Recovered
<1> QED BY <1>1, <1>2, Zenon

(* An execution row with its result                                         *)
LEMMA CompletedRows ==
  ASSUME NEW r \in ExecRow, NEW result \in Results
  PROVE  /\ Completed(r, result) \in ExecRow
         /\ Completed(r, result).decision = r.decision
         /\ Completed(r, result).effect = (result = "succeeded")
         /\ Completed(r, result).status = IF result = "read" THEN "succeeded" ELSE result
  BY DEF ExecRow, ExecStatuses, Decisions, Results, Completed

(* An execution row that was rolled back, or whose confirmation was decided *)
LEMMA ExecRows ==
  ASSUME NEW r \in ExecRow
  PROVE  /\ RolledBack(r) \in ExecRow /\ RolledBack(r).status = "running"
         /\ RolledBack(r).effect = r.effect /\ RolledBack(r).decision = r.decision
         /\ Consumed(r) \in ExecRow /\ Consumed(r).status = r.status
         /\ Consumed(r).effect = r.effect /\ Consumed(r).decision = "consumed"
         /\ Rejected(r) \in ExecRow /\ Rejected(r).status = "cancelled"
         /\ Rejected(r).effect = r.effect /\ Rejected(r).decision = "rejected"
         /\ Superseded(r) \in ExecRow /\ Superseded(r).status = "cancelled"
         /\ Superseded(r).effect = r.effect /\ Superseded(r).decision = "superseded"
  BY DEF ExecRow, ExecStatuses, Decisions, RolledBack, Consumed, Rejected, Superseded

(* The rows as they are inserted                                            *)
LEMMA NewRows ==
  ASSUME NEW n \in Nat
  PROVE  /\ Queued(n) \in TaskRow /\ Queued(n).status = "queued" /\ Queued(n).epoch = n
         /\ ~Queued(n).owned /\ ~Queued(n).resumed
         /\ Proposal(n) \in ExecRow /\ Proposal(n).status = "awaiting_confirmation"
         /\ Proposal(n).decision = "pending" /\ ~Proposal(n).effect
         /\ Call(n) \in ExecRow /\ Call(n).status = "awaiting_confirmation"
         /\ Call(n).decision = "none" /\ ~Call(n).effect
         /\ NoTask \in TaskRow /\ NoTask.status = "absent" /\ ~NoTask.owned
         /\ ~NoTask.resumed
         /\ NoExec \in ExecRow /\ NoExec.status = "absent" /\ NoExec.decision = "none"
         /\ ~NoExec.effect
  BY DEF Queued, Proposal, Call, NoTask, NoExec, TaskRow, TaskStatuses, ExecRow,
         ExecStatuses, Decisions

(* A task row after request_cancel, whatever status it was decided on       *)
LEMMA CancelledRows ==
  ASSUME NEW r \in TaskRow, NEW seen
  PROVE  /\ CancelledRow(r, seen) \in TaskRow
         /\ CancelledRow(r, seen).status \in {r.status, "cancelled", "cancel_requested"}
         /\ CancelledRow(r, seen).epoch = r.epoch
         /\ CancelledRow(r, seen).owned = r.owned
         /\ CancelledRow(r, seen).resumed = r.resumed
<1>1. \A s \in TaskStatuses : [r EXCEPT !.status = s] \in TaskRow
  BY DEF TaskRow
<1>2. CancelledRow(r, seen) \in TaskRow
  <2>1. r.status \in TaskStatuses /\ "cancelled" \in TaskStatuses
        /\ "cancel_requested" \in TaskStatuses
    BY DEF TaskRow, TaskStatuses
  <2> QED BY <1>1, <2>1, Zenon DEF CancelledRow
<1>3. CancelledRow(r, seen).status \in {r.status, "cancelled", "cancel_requested"}
  BY DEF TaskRow, CancelledRow
<1>4. CancelledRow(r, seen).epoch = r.epoch
  BY DEF TaskRow, CancelledRow
<1>5. CancelledRow(r, seen).owned = r.owned
  BY DEF TaskRow, CancelledRow
<1>6. CancelledRow(r, seen).resumed = r.resumed
  BY DEF TaskRow, CancelledRow
<1> QED BY <1>2, <1>3, <1>4, <1>5, <1>6, Zenon

(* An execution belongs to a task                                           *)
LEMMA ExecTask == \A e \in Execs : e[1] \in Tasks
  BY DEF Execs

(* The invariant holds at the start                                         *)
LEMMA InitInv == Init => Inv
<1> SUFFICES ASSUME Init PROVE Inv
  OBVIOUS
<1>1. TypeOK
  BY NewRows DEF Init, TypeOK, Phases, ExecsOf
<1>2. RowsAreGood
  BY NewRows DEF Init, RowsAreGood, Good
<1>3. OpenTransactions
  BY NewRows DEF Init, OpenTransactions, Locking, ExecsOf
<1>4. OneOwnProposal /\ OneProposalAtATime /\ EpochsPass /\ ResumedIsOver
  BY NewRows, ExecTask DEF Init, OneOwnProposal, OneProposalAtATime, EpochsPass,
    ResumedIsOver, Locking
<1>5. RetriedWorkIsClean /\ ResumedWorkIsResolved /\ WaitingTaskHasAProposal
  BY NewRows DEF Init, RetriedWorkIsClean, ResumedWorkIsResolved, WaitingTaskHasAProposal
<1>6. OpenRejections
  BY DEF Init, OpenRejections
<1> QED BY <1>1, <1>2, <1>3, <1>4, <1>5, <1>6 DEF Inv, RowsInv

(* A message opens the transaction of a new task                            *)
LEMMA MessageInv ==
  ASSUME Inv, NEW t \in Tasks, Message(t)
  PROVE  RowsInv'
<1> USE ExecTask, NewRows DEF Inv, RowsInv, Message
<1>0. binding.epoch \in Nat
  BY DEF TypeOK
<1>1. TypeOK'
  <2>1. ownTask' \in [Tasks -> TaskRow] /\ phase' \in [Tasks -> Phases]
    BY <1>0 DEF TypeOK, Phases
  <2>2. lapsed' \in SUBSET {u \in Tasks : task'[u].owned \/ ownTask'[u].owned}
    BY <1>0 DEF TypeOK, OpenTransactions, Locking
  <2> QED BY <2>1, <2>2 DEF TypeOK, ExecsOf
<1>2. RowsAreGood'
  BY DEF RowsAreGood, Good
<1>3. OpenTransactions'
  BY <1>0 DEF TypeOK, OpenTransactions, Locking, ExecsOf
<1>4. OneOwnProposal' /\ OneProposalAtATime'
  BY DEF TypeOK, OneOwnProposal, OneProposalAtATime, OpenTransactions
<1>5. EpochsPass' /\ ResumedIsOver'
  BY <1>0 DEF TypeOK, EpochsPass, ResumedIsOver, Locking, Fenced
<1>6. RetriedWorkIsClean' /\ ResumedWorkIsResolved' /\ WaitingTaskHasAProposal'
  BY DEF RetriedWorkIsClean, ResumedWorkIsResolved, WaitingTaskHasAProposal, Active, Unresolved
<1> QED BY <1>1, <1>2, <1>3, <1>4, <1>5, <1>6 DEF Inv, RowsInv

(* A task is claimed by its open transaction                                *)
LEMMA ClaimInv ==
  ASSUME Inv, NEW t \in Tasks, phase[t] = "queued", Active(ownTask[t].epoch),
         ownTask' = [ownTask EXCEPT ![t] = Claimed(@)],
         phase' = [phase EXCEPT ![t] = IF mine[t] = {} THEN "thinking" ELSE "approved"],
         UNCHANGED <<binding, task, exec, lapsed, expired, mine, ownExec,
                     cancel, rejecting, told>>
  PROVE  RowsInv'
<1> USE ExecTask DEF Inv, RowsInv
<1>a. ownTask[t] \in TaskRow
  BY DEF TypeOK
<1>b. /\ Claimed(ownTask[t]) \in TaskRow /\ Claimed(ownTask[t]).status = "running"
      /\ Claimed(ownTask[t]).owned /\ Claimed(ownTask[t]).epoch = ownTask[t].epoch
      /\ Claimed(ownTask[t]).resumed = ownTask[t].resumed
  BY <1>a, TaskRows, Zenon
<1>c. /\ ownTask'[t] = Claimed(ownTask[t])
      /\ \A u \in Tasks : u # t => ownTask'[u] = ownTask[u] /\ phase'[u] = phase[u]
      /\ phase'[t] = IF mine[t] = {} THEN "thinking" ELSE "approved"
      /\ ownTask' \in [Tasks -> TaskRow] /\ phase' \in [Tasks -> Phases]
  BY <1>b DEF TypeOK, Phases
<1>1. TypeOK'
  BY <1>b, <1>c DEF TypeOK, ExecsOf
<1>2. RowsAreGood'
  BY DEF RowsAreGood, Good
<1>3. OpenTransactions'
  BY <1>b, <1>c DEF OpenTransactions, Locking, ExecsOf
<1>4. OneOwnProposal' /\ OneProposalAtATime'
  BY <1>c DEF TypeOK, OneOwnProposal, OneProposalAtATime, OpenTransactions
<1>5. EpochsPass' /\ ResumedIsOver'
  BY <1>b, <1>c DEF EpochsPass, ResumedIsOver, Locking, Fenced
<1>6. RetriedWorkIsClean' /\ ResumedWorkIsResolved' /\ WaitingTaskHasAProposal'
  BY DEF RetriedWorkIsClean, ResumedWorkIsResolved, WaitingTaskHasAProposal, Active,
    Unresolved
<1> QED BY <1>1, <1>2, <1>3, <1>4, <1>5, <1>6 DEF Inv, RowsInv

(* A commit of a row that keeps the promises made by the open transaction *)
MayCommit(t, row) ==
  \/ phase[t] = "decided" /\ row = task[t] /\ ~CanQueue(t)
  \/ /\ Locking(t) /\ ~row.resumed /\ Fenced(row)
     /\ row.status \in {"queued", "running", "awaiting_input", "waiting_external",
                        "succeeded", "failed", "awaiting_confirmation"}
     /\ row.status = "awaiting_confirmation" => phase[t] = "proposed"

(* A transaction commits: all of its rows become visible at once            *)
LEMMA CommitInv ==
  ASSUME Inv, NEW t \in Tasks, NEW row \in TaskRow, Commit(t, row), MayCommit(t, row),
         UNCHANGED <<binding, expired, cancel, rejecting>>, told' \in SUBSET Tasks
  PROVE  RowsInv'
<1> USE ExecTask, NewRows DEF Inv, RowsInv
<1>a. /\ task'[t] = row /\ phase'[t] = "idle" /\ mine'[t] = {} /\ ~ownTask'[t].owned
      /\ \A u \in Tasks : u # t => /\ task'[u] = task[u] /\ phase'[u] = phase[u]
                                   /\ mine'[u] = mine[u] /\ ownTask'[u] = ownTask[u]
      /\ \A e \in Execs : e \in mine[t] => exec'[e] = ownExec[e] /\ ownExec'[e] = NoExec
      /\ \A e \in Execs : e \notin mine[t] => exec'[e] = exec[e] /\ ownExec'[e] = ownExec[e]
  <2>1. /\ task'[t] = row
        /\ \A u \in Tasks : u # t => task'[u] = task[u]
    BY DEF TypeOK, Commit
  <2>2. /\ phase'[t] = "idle" /\ mine'[t] = {}
        /\ \A u \in Tasks : u # t => phase'[u] = phase[u] /\ mine'[u] = mine[u]
    BY DEF TypeOK, Commit, Close
  <2>3. /\ ~ownTask'[t].owned
        /\ \A u \in Tasks : u # t => ownTask'[u] = ownTask[u]
    <3>1. ownTask'[t] = NoTask
      BY DEF TypeOK, Commit, Close
    <3>2. ~NoTask.owned
      BY DEF NoTask
    <3> QED BY <3>1, <3>2 DEF TypeOK, Commit, Close
  <2>4. /\ \A e \in Execs : e \in mine[t] => exec'[e] = ownExec[e] /\ ownExec'[e] = NoExec
        /\ \A e \in Execs : e \notin mine[t] => exec'[e] = exec[e] /\ ownExec'[e] = ownExec[e]
    BY DEF TypeOK, Commit, CommitExecs, Close
  <2> QED BY <2>1, <2>2, <2>3, <2>4
<1>b. /\ mine[t] \in SUBSET Execs
      /\ \A u \in Tasks : \A e \in mine[u] : e \in Execs /\ e[1] = u
      /\ \A u \in Tasks : \A e \in ExecsOf(u) : e \in Execs /\ e[1] = u
  BY DEF TypeOK, ExecsOf
<1>c. phase[t] = "decided" =>
        /\ row = task[t] /\ ~CanQueue(t)
        /\ \A e \in mine[t] :
             /\ exec[e].status = "awaiting_confirmation" /\ exec[e].decision = "pending"
             /\ exec'[e].status = "awaiting_confirmation" /\ exec'[e].decision = "consumed"
             /\ exec'[e].effect = exec[e].effect
  <2> SUFFICES ASSUME phase[t] = "decided"
               PROVE  /\ row = task[t] /\ ~CanQueue(t)
                      /\ \A e \in mine[t] :
                           /\ exec[e].status = "awaiting_confirmation"
                           /\ exec[e].decision = "pending"
                           /\ exec'[e].status = "awaiting_confirmation"
                           /\ exec'[e].decision = "consumed"
                           /\ exec'[e].effect = exec[e].effect
    OBVIOUS
  <2>1. row = task[t] /\ ~CanQueue(t)
    BY DEF MayCommit, Locking
  <2>2. ASSUME NEW e \in mine[t]
        PROVE  /\ exec[e].status = "awaiting_confirmation" /\ exec[e].decision = "pending"
               /\ exec'[e] = Consumed(exec[e]) /\ exec[e] \in ExecRow
    BY <1>a, <1>b DEF OpenTransactions, RowsAreGood, Good, TypeOK
  <2> QED BY <2>1, <2>2, ExecRows DEF Results
<1>d. phase[t] # "decided" =>
        /\ Locking(t) /\ ~row.resumed /\ Fenced(row)
        /\ row.status \in {"queued", "running", "awaiting_input", "waiting_external",
                           "succeeded", "failed", "awaiting_confirmation"}
        /\ row.status = "awaiting_confirmation" => phase[t] = "proposed"
        /\ task[t].status \in {"absent", "awaiting_confirmation"}
  BY DEF MayCommit, OpenTransactions
<1>e. \A e \in Execs : exec'[e].status = exec[e].status \/ e[1] = t
  BY <1>a, <1>b
<1>1. TypeOK'
  <2>1. task' \in [Tasks -> TaskRow] /\ exec' \in [Execs -> ExecRow]
    BY DEF TypeOK, Commit, Close, CommitExecs
  <2>2. ownTask' \in [Tasks -> TaskRow] /\ ownExec' \in [Execs -> ExecRow]
    BY DEF TypeOK, Commit, Close, CommitExecs
  <2>3. lapsed' \in SUBSET {u \in Tasks : task'[u].owned \/ ownTask'[u].owned}
    BY <1>a DEF TypeOK, Commit, EndLease
  <2>4. phase' \in [Tasks -> Phases] /\ mine' \in [Tasks -> SUBSET Execs]
    BY DEF TypeOK, Phases, Commit, Close, CommitExecs
  <2>5. \A u \in Tasks : mine'[u] \in SUBSET ExecsOf(u)
    BY <1>a DEF TypeOK
  <2> QED BY <2>1, <2>2, <2>3, <2>4, <2>5 DEF TypeOK
<1>2. RowsAreGood'
  BY <1>a DEF TypeOK, RowsAreGood, Good
<1>3. OpenTransactions'
  <2>1. ASSUME NEW u \in Tasks, u # t, task[u].status = "absent", NEW e \in ExecsOf(u)
        PROVE  exec'[e].status = "absent"
    BY <1>a, <1>b, <2>1 DEF OpenTransactions
  <2>2. ASSUME task'[t].status = "absent", NEW e \in ExecsOf(t)
        PROVE  exec'[e].status = "absent"
    BY <1>a, <1>b, <1>c, <1>d, <2>2 DEF OpenTransactions
  <2>3. ~task'[t].owned \/ task'[t].status # "absent"
    BY <1>a, <1>c, <1>d DEF OpenTransactions
  <2>4. ASSUME NEW u \in Tasks, u # t, NEW e \in mine[u]
        PROVE  exec'[e] = exec[e] /\ ownExec'[e] = ownExec[e]
    BY <1>a, <1>b, <2>4
  <2>5. cancel'[t] # "none" => task'[t].status # "absent"
    BY <1>a, <1>c, <1>d DEF OpenTransactions
  <2> QED BY <1>a, <2>1, <2>2, <2>3, <2>4, <2>5 DEF OpenTransactions, Locking, ExecsOf
<1>4. OneOwnProposal'
  BY <1>a, <1>b DEF OneOwnProposal
<1>5. OneProposalAtATime'
  <2> SUFFICES ASSUME NEW e \in Execs, NEW f \in Execs, exec'[e].decision = "pending"
               PROVE  /\ exec'[e].status = "awaiting_confirmation"
                      /\ e[1] = f[1] /\ exec'[f].decision = "pending" => e = f
    BY DEF OneProposalAtATime
  <2>1. exec'[e].status = "awaiting_confirmation"
    BY <1>2 DEF RowsAreGood, Good
  <2>2. ASSUME e[1] = f[1], exec'[f].decision = "pending", e \in mine[t]
        PROVE  e = f
    <3>1. phase[t] = "proposed" /\ task[t].status = "absent" /\ e[1] = t
      BY <1>a, <1>b, <1>c, <2>2 DEF OneOwnProposal, OpenTransactions
    <3>2. exec[f].decision # "pending"
      <4>1. f \in ExecsOf(t)
        BY <2>2, <3>1 DEF ExecsOf
      <4> QED BY <3>1, <4>1 DEF OpenTransactions, RowsAreGood, Good
    <3>3. f \in mine[t]
      BY <1>a, <2>2, <3>2
    <3> QED BY <1>a, <2>2, <3>3 DEF OneOwnProposal
  <2>3. ASSUME e[1] = f[1], exec'[f].decision = "pending", f \in mine[t]
        PROVE  e = f
    <3>1. phase[t] = "proposed" /\ task[t].status = "absent" /\ f[1] = t
      BY <1>a, <1>b, <1>c, <2>3 DEF OneOwnProposal, OpenTransactions
    <3>2. e \in mine[t]
      BY <1>a, <1>b, <2>3, <3>1 DEF OpenTransactions, ExecsOf, RowsAreGood, Good
    <3> QED BY <1>a, <2>3, <3>2 DEF OneOwnProposal
  <2>4. ASSUME e[1] = f[1], exec'[f].decision = "pending", e \notin mine[t], f \notin mine[t]
        PROVE  e = f
    BY <1>a, <2>4 DEF OneProposalAtATime
  <2> QED BY <2>1, <2>2, <2>3, <2>4
<1>6. EpochsPass' /\ ResumedIsOver'
  BY <1>a, <1>c, <1>d DEF EpochsPass, ResumedIsOver, Locking, Fenced
<1>7. RetriedWorkIsClean'
  <2> SUFFICES ASSUME NEW u \in Tasks, task'[u].status \in {"retry_wait", "dead_letter"},
                      NEW e \in ExecsOf(u)
               PROVE  ~exec'[e].effect /\ exec'[e].status \notin {"running", "unknown_result"}
    BY DEF RetriedWorkIsClean, Unresolved, ExecsOf
  <2>1. CASE u = t
    BY <1>a, <1>b, <1>c, <1>d, <2>1 DEF RetriedWorkIsClean, Unresolved
  <2>2. CASE u # t
    BY <1>a, <1>b, <2>2 DEF RetriedWorkIsClean, Unresolved
  <2> QED BY <2>1, <2>2
<1>8. ResumedWorkIsResolved'
  <2> SUFFICES ASSUME NEW u \in Tasks, task'[u].resumed, NEW e \in ExecsOf(u)
               PROVE  exec'[e].status \notin {"running", "unknown_result"}
    BY DEF ResumedWorkIsResolved, Unresolved, ExecsOf
  <2>1. CASE u = t
    BY <1>a, <1>b, <1>c, <1>d, <2>1 DEF ResumedWorkIsResolved, Unresolved
  <2>2. CASE u # t
    BY <1>a, <1>b, <2>2 DEF ResumedWorkIsResolved, Unresolved
  <2> QED BY <2>1, <2>2
<1>9. WaitingTaskHasAProposal'
  <2> SUFFICES ASSUME NEW u \in Tasks, task'[u].status = "awaiting_confirmation",
                      binding.active, binding.epoch = task'[u].epoch
               PROVE  \E e \in ExecsOf(u) : exec'[e].decision = "pending"
    BY DEF WaitingTaskHasAProposal, Active, ExecsOf
  <2>1. CASE u = t
    <3>1. phase[t] = "proposed"
      BY <1>a, <1>c, <1>d, <2>1 DEF CanQueue, Active
    <3>2. PICK e \in mine[t] : ownExec[e].decision = "pending"
      BY <3>1 DEF OpenTransactions
    <3> QED BY <1>a, <1>b, <2>1, <3>2 DEF TypeOK
  <2>2. CASE u # t
    BY <1>a, <1>b, <2>2 DEF WaitingTaskHasAProposal, Active
  <2> QED BY <2>1, <2>2
<1> QED BY <1>1, <1>2, <1>3, <1>4, <1>5, <1>6, <1>7, <1>8, <1>9 DEF Inv, RowsInv

(* A statement of an open transaction that writes an execution row *)
LEMMA RepliedInv ==
  ASSUME Inv, NEW e \in Execs, NEW row \in ExecRow, NEW next \in Phases, Good(row),
         phase[e[1]] \in {"thinking", "approved"}, Replied(e, row, next),
         next \in {"thinking", "proposed", "executed", "broken"},
         next \in {"thinking", "proposed"} => phase[e[1]] = "thinking",
         next = "proposed" <=> row.decision = "pending"
  PROVE  RowsInv'
<1> DEFINE t == e[1]
<1> USE DEF Inv, RowsInv
<1>a. t \in Tasks /\ e \in ExecsOf(t)
  BY ExecTask DEF ExecsOf
<1>b. /\ phase'[t] = next
      /\ \A u \in Tasks : u # t => phase'[u] = phase[u] /\ mine'[u] = mine[u]
      /\ mine'[t] = mine[t] \cup {e} /\ ownExec'[e] = row
      /\ \A f \in Execs : f # e => ownExec'[f] = ownExec[f]
      /\ UNCHANGED <<binding, task, exec, lapsed, expired, ownTask,
                     cancel, rejecting, told>>
  BY <1>a DEF Replied, TypeOK
<1>c. \A u \in Tasks : \A f \in mine[u] : f \in Execs /\ f[1] = u
  BY DEF TypeOK, ExecsOf
<1> HIDE DEF t
<1>1. TypeOK'
  BY <1>a, <1>b DEF TypeOK, Replied, ExecsOf, t
<1>2. RowsAreGood'
  BY <1>b DEF RowsAreGood, Good
<1>3. OpenTransactions'
  <2>1. Locking(t) /\ Locking(t)' /\ phase[t] \in {"thinking", "approved"}
    BY <1>b DEF Locking, t
  <2>2. \A u \in Tasks : u # t => \A f \in mine[u] : ownExec'[f] = ownExec[f]
    BY <1>a, <1>b, <1>c DEF t
  <2> QED BY <1>a, <1>b, <2>1, <2>2 DEF OpenTransactions, Locking, ExecsOf, t
<1>4. OneOwnProposal'
  BY <1>a, <1>b, <1>c DEF OneOwnProposal, t
<1>5. OneProposalAtATime' /\ EpochsPass' /\ ResumedIsOver'
  BY <1>a, <1>b DEF OneProposalAtATime, EpochsPass, ResumedIsOver, Locking, Fenced, t
<1>6. RetriedWorkIsClean' /\ ResumedWorkIsResolved' /\ WaitingTaskHasAProposal'
  BY <1>b DEF RetriedWorkIsClean, ResumedWorkIsResolved, WaitingTaskHasAProposal,
    Unresolved, Active, ExecsOf
<1> QED BY <1>1, <1>2, <1>3, <1>4, <1>5, <1>6

(* The model repeats a call                                                 *)
LEMMA RepeatCallInv ==
  ASSUME Inv, NEW t \in Tasks, RepeatCall(t)
  PROVE  RowsInv'
<1> USE DEF Inv, RowsInv
<1>a. /\ phase[t] = "thinking" /\ phase'[t] = "duplicate"
      /\ \A u \in Tasks : u # t => phase'[u] = phase[u]
      /\ UNCHANGED <<binding, task, exec, lapsed, expired, mine, ownTask, ownExec, cancel,
                     rejecting, told>>
  BY DEF RepeatCall, TypeOK
<1>1. TypeOK'
  BY DEF TypeOK, RepeatCall, Phases, ExecsOf
<1>2. RowsAreGood'
  BY <1>a DEF RowsAreGood, Good
<1>3. OpenTransactions'
  BY <1>a DEF OpenTransactions, Locking, ExecsOf
<1>4. OneOwnProposal'
  BY <1>a DEF OneOwnProposal
<1>5. OneProposalAtATime' /\ EpochsPass' /\ ResumedIsOver'
  BY <1>a DEF OneProposalAtATime, EpochsPass, ResumedIsOver, Locking, Fenced
<1>6. RetriedWorkIsClean' /\ ResumedWorkIsResolved' /\ WaitingTaskHasAProposal'
  BY <1>a DEF RetriedWorkIsClean, ResumedWorkIsResolved, WaitingTaskHasAProposal,
    Unresolved, Active, ExecsOf
<1> QED BY <1>1, <1>2, <1>3, <1>4, <1>5, <1>6

(* A transaction is rolled back                                             *)
LEMMA AbortInv ==
  ASSUME Inv, NEW t \in Tasks, Abort(t)
  PROVE  RowsInv'
<1> USE DEF Inv, RowsInv
<1>a. /\ phase'[t] = "idle" /\ mine'[t] = {} /\ ownTask'[t] = NoTask
      /\ \A u \in Tasks : u # t => /\ phase'[u] = phase[u] /\ mine'[u] = mine[u]
                                   /\ ownTask'[u] = ownTask[u]
      /\ \A e \in Execs : ownExec'[e] = IF e \in mine[t] THEN NoExec ELSE ownExec[e]
      /\ UNCHANGED <<binding, task, exec, expired, cancel, rejecting, told>>
  BY DEF Abort, Close, TypeOK
<1>b. \A u \in Tasks : \A e \in mine[u] : e \in Execs /\ e[1] = u
  BY DEF TypeOK, ExecsOf
<1>1. TypeOK'
  <2>1. ownTask' \in [Tasks -> TaskRow] /\ ownExec' \in [Execs -> ExecRow]
    BY NewRows DEF TypeOK, Abort, Close
  <2>2. lapsed' \in SUBSET {u \in Tasks : task'[u].owned \/ ownTask'[u].owned}
    BY <1>a DEF TypeOK, Abort, EndLease
  <2>3. phase' \in [Tasks -> Phases] /\ mine' \in [Tasks -> SUBSET Execs]
    BY DEF TypeOK, Phases, Abort, Close
  <2>4. \A u \in Tasks : mine'[u] \in SUBSET ExecsOf(u)
    BY <1>a DEF TypeOK
  <2> QED BY <1>a, <2>1, <2>2, <2>3, <2>4 DEF TypeOK, ExecsOf
<1>2. RowsAreGood'
  BY <1>a, NewRows DEF RowsAreGood, Good
<1>3. OpenTransactions'
  <2>1. \A u \in Tasks : u # t => \A e \in mine[u] : ownExec'[e] = ownExec[e]
    BY <1>a, <1>b
  <2>2. ~ownTask'[t].owned
    BY <1>a, NewRows
  <2> QED BY <1>a, <2>1, <2>2 DEF OpenTransactions, Locking, ExecsOf
<1>4. OneOwnProposal'
  BY <1>a, <1>b DEF OneOwnProposal
<1>5. OneProposalAtATime' /\ EpochsPass' /\ ResumedIsOver'
  BY <1>a DEF OneProposalAtATime, EpochsPass, ResumedIsOver, Locking, Fenced
<1>6. RetriedWorkIsClean' /\ ResumedWorkIsResolved' /\ WaitingTaskHasAProposal'
  BY <1>a DEF RetriedWorkIsClean, ResumedWorkIsResolved, WaitingTaskHasAProposal,
    Unresolved, Active, ExecsOf
<1> QED BY <1>1, <1>2, <1>3, <1>4, <1>5, <1>6

(* A confirmation is consumed by message, in an open transaction            *)
LEMMA DecideInv ==
  ASSUME Inv, NEW e \in Execs, Decide(e)
  PROVE  RowsInv'
<1> DEFINE t == e[1]
<1> USE DEF Inv, RowsInv
<1>a. t \in Tasks /\ e \in ExecsOf(t) /\ exec[e] \in ExecRow
  BY ExecTask DEF ExecsOf, TypeOK
<1>b. /\ phase[t] = "idle" /\ phase'[t] = "decided" /\ mine'[t] = {e}
      /\ exec[e].decision = "pending"
      /\ \A u \in Tasks : u # t => phase'[u] = phase[u] /\ mine'[u] = mine[u]
      /\ ownExec'[e] = Consumed(exec[e])
      /\ \A f \in Execs : f # e => ownExec'[f] = ownExec[f]
      /\ UNCHANGED <<binding, task, exec, lapsed, expired, ownTask,
                     cancel, rejecting, told>>
  BY <1>a DEF Decide, Decidable, DecidableBy, TypeOK
<1>c. /\ Consumed(exec[e]) \in ExecRow /\ Good(Consumed(exec[e]))
      /\ Consumed(exec[e]).decision = "consumed"
  BY <1>a, <1>b, ExecRows DEF Good, RowsAreGood
<1>d. \A u \in Tasks : \A f \in mine[u] : f \in Execs /\ f[1] = u
  BY DEF TypeOK, ExecsOf
<1>1. TypeOK'
  BY <1>a, <1>b, <1>c DEF TypeOK, Decide, Phases, ExecsOf
<1>2. RowsAreGood'
  BY <1>b, <1>c DEF RowsAreGood, Good
<1>3. OpenTransactions'
  <2>1. \A u \in Tasks : u # t => \A f \in mine[u] : ownExec'[f] = ownExec[f]
    BY <1>a, <1>b, <1>d
  <2> QED BY <1>a, <1>b, <2>1 DEF OpenTransactions, Locking, ExecsOf
<1>4. OneOwnProposal'
  BY <1>a, <1>b, <1>c, <1>d DEF OneOwnProposal
<1>5. OneProposalAtATime' /\ EpochsPass' /\ ResumedIsOver'
  BY <1>a, <1>b DEF OneProposalAtATime, EpochsPass, ResumedIsOver, Locking, Fenced
<1>6. RetriedWorkIsClean' /\ ResumedWorkIsResolved' /\ WaitingTaskHasAProposal'
  BY <1>b DEF RetriedWorkIsClean, ResumedWorkIsResolved, WaitingTaskHasAProposal,
    Unresolved, Active, ExecsOf
<1> QED BY <1>1, <1>2, <1>3, <1>4, <1>5, <1>6

(* The task of a consumed confirmation is queued in that transaction        *)
LEMMA QueueInv ==
  ASSUME Inv, NEW t \in Tasks, phase[t] = "decided", CanQueue(t),
         phase' = [phase EXCEPT ![t] = "queued"],
         ownTask' = [ownTask EXCEPT ![t] = QueuedAgain(task[t])],
         UNCHANGED <<binding, task, exec, lapsed, expired, mine, ownExec,
                     cancel, rejecting, told>>
  PROVE  RowsInv'
<1> USE DEF Inv, RowsInv
<1>a. task[t] \in TaskRow
  BY DEF TypeOK
<1>b. /\ QueuedAgain(task[t]) \in TaskRow /\ QueuedAgain(task[t]).status = "queued"
      /\ QueuedAgain(task[t]).owned = task[t].owned
      /\ QueuedAgain(task[t]).epoch = task[t].epoch
      /\ QueuedAgain(task[t]).resumed = task[t].resumed
  BY <1>a, TaskRows, Zenon
<1>c. /\ ownTask'[t] = QueuedAgain(task[t]) /\ phase'[t] = "queued"
      /\ \A u \in Tasks : u # t => ownTask'[u] = ownTask[u] /\ phase'[u] = phase[u]
      /\ ownTask' \in [Tasks -> TaskRow] /\ phase' \in [Tasks -> Phases]
  BY <1>b DEF TypeOK, Phases
<1>d. task[t].status = "awaiting_confirmation" /\ ~task[t].resumed
  BY DEF CanQueue, ResumedIsOver, Resumable
<1>1. TypeOK'
  <2>1. ~ownTask[t].owned
    BY DEF OpenTransactions, Locking
  <2> QED BY <1>b, <1>c, <2>1 DEF TypeOK, ExecsOf
<1>2. RowsAreGood'
  BY DEF RowsAreGood, Good
<1>3. OpenTransactions'
  BY <1>b, <1>c, <1>d DEF OpenTransactions, Locking, ExecsOf
<1>4. OneOwnProposal' /\ OneProposalAtATime'
  BY <1>c DEF TypeOK, OneOwnProposal, OneProposalAtATime, OpenTransactions
<1>5. EpochsPass' /\ ResumedIsOver'
  BY <1>b, <1>c, <1>d DEF EpochsPass, ResumedIsOver, Locking, Fenced
<1>6. RetriedWorkIsClean' /\ ResumedWorkIsResolved' /\ WaitingTaskHasAProposal'
  BY DEF RetriedWorkIsClean, ResumedWorkIsResolved, WaitingTaskHasAProposal, Active,
    Unresolved
<1> QED BY <1>1, <1>2, <1>3, <1>4, <1>5, <1>6

(* A cancellation writes what it decided from its earlier read              *)
LEMMA CancelWriteInv ==
  ASSUME Inv, NEW t \in Tasks, CancelWrite(t)
  PROVE  RowsInv'
<1> DEFINE row == CancelledRow(task[t], cancel[t])
<1> USE DEF Inv, RowsInv
<1>a. /\ row \in TaskRow /\ row.epoch = task[t].epoch /\ row.owned = task[t].owned
      /\ row.resumed = task[t].resumed
      /\ row.status \in {task[t].status, "cancelled", "cancel_requested"}
  <2>1. task[t] \in TaskRow
    BY DEF TypeOK
  <2> QED BY <2>1, CancelledRows, Zenon
<1>b. /\ task'[t] = row /\ cancel'[t] = "none" /\ ~Locking(t) /\ task[t].status # "absent"
      /\ \A u \in Tasks : u # t => task'[u] = task[u] /\ cancel'[u] = cancel[u]
      /\ UNCHANGED <<binding, exec, lapsed, expired, phase, mine, ownTask, ownExec,
                     rejecting, told>>
  BY DEF CancelWrite, TypeOK, TaskLocked, Locking, open, OpenTransactions
<1> HIDE DEF row
<1>1. TypeOK'
  <2>1. task' \in [Tasks -> TaskRow] /\ cancel' \in [Tasks -> {"none"} \cup TaskStatuses]
    BY <1>a DEF TypeOK, CancelWrite, row
  <2> QED BY <1>a, <1>b, <2>1 DEF TypeOK, ExecsOf
<1>2. RowsAreGood'
  BY <1>b DEF RowsAreGood, Good
<1>3. OpenTransactions'
  BY <1>a, <1>b DEF OpenTransactions, Locking, ExecsOf
<1>4. OneOwnProposal' /\ OneProposalAtATime'
  BY <1>b DEF OneOwnProposal, OneProposalAtATime
<1>5. EpochsPass' /\ ResumedIsOver'
  BY <1>a, <1>b DEF EpochsPass, ResumedIsOver, Resumable, Locking, Fenced
<1>6. RetriedWorkIsClean' /\ ResumedWorkIsResolved'
  BY <1>a, <1>b DEF RetriedWorkIsClean, ResumedWorkIsResolved, Unresolved, ExecsOf
<1>7. WaitingTaskHasAProposal'
  BY <1>a, <1>b DEF WaitingTaskHasAProposal, Active, ExecsOf
<1> QED BY <1>1, <1>2, <1>3, <1>4, <1>5, <1>6, <1>7

(* Recovery settles a task                                                  *)
LEMMA RecoverInv ==
  ASSUME Inv, NEW t \in Tasks, Recover(t)
  PROVE  RowsInv'
<1> DEFINE row == Recovered(task[t], RecoveredStatus(t))
<1> USE DEF Inv, RowsInv
<1>a. RecoveredStatus(t) \in {"cancelled", "succeeded", "unknown_result", "dead_letter",
                             "retry_wait"}
  BY DEF RecoveredStatus
<1>b. /\ row \in TaskRow /\ row.epoch = task[t].epoch /\ ~row.owned
      /\ row.resumed = task[t].resumed /\ row.status = RecoveredStatus(t)
  <2>1. RecoveredStatus(t) \in TaskStatuses /\ task[t] \in TaskRow
    BY <1>a DEF TaskStatuses, TypeOK
  <2> QED BY <2>1, RecoveredRows, Zenon
<1>c. /\ task'[t] = row /\ Due(t) /\ ~Locking(t) /\ task[t].status # "absent"
      /\ \A u \in Tasks : u # t => task'[u] = task[u]
      /\ UNCHANGED <<binding, exec, expired, phase, mine, ownTask, ownExec,
                     cancel, rejecting, told>>
  BY DEF Recover, Due, TypeOK, TaskLocked, Locking, open
<1> HIDE DEF row
<1>1. TypeOK'
  <2>1. task' \in [Tasks -> TaskRow]
    BY <1>b DEF TypeOK, Recover, row
  <2>2. lapsed' = lapsed \ {t}
    BY DEF Recover
  <2> QED BY <1>b, <1>c, <2>1, <2>2 DEF TypeOK, ExecsOf
<1>2. RowsAreGood'
  BY <1>c DEF RowsAreGood, Good
<1>3. OpenTransactions'
  BY <1>a, <1>b, <1>c DEF OpenTransactions, Locking, ExecsOf
<1>4. OneOwnProposal' /\ OneProposalAtATime'
  BY <1>c DEF OneOwnProposal, OneProposalAtATime
<1>5. EpochsPass'
  BY <1>b, <1>c DEF EpochsPass, Locking, Fenced
<1>6. ResumedIsOver'
  BY <1>a, <1>b, <1>c DEF ResumedIsOver, Resumable, Due, RecoveredStatus
<1>7. RetriedWorkIsClean'
  BY <1>b, <1>c DEF RetriedWorkIsClean, RecoveredStatus, Unresolved, ExecsOf
<1>8. ResumedWorkIsResolved' /\ WaitingTaskHasAProposal'
  BY <1>a, <1>b, <1>c DEF ResumedWorkIsResolved, Unresolved, WaitingTaskHasAProposal,
    Active, ExecsOf
<1> QED BY <1>1, <1>2, <1>3, <1>4, <1>5, <1>6, <1>7, <1>8

(* A proposal is rejected, and its task cancelled                           *)
LEMMA RejectWriteInv ==
  ASSUME Inv, NEW e \in Execs, RejectWrite(e)
  PROVE  RowsInv'
<1> DEFINE t == e[1]
           row == CancelledRow(task[t], rejecting[e])
<1> USE DEF Inv, RowsInv
<1>a. t \in Tasks /\ e \in ExecsOf(t) /\ exec[e] \in ExecRow /\ task[t] \in TaskRow
  BY ExecTask DEF ExecsOf, TypeOK
<1>b. /\ row \in TaskRow /\ row.epoch = task[t].epoch /\ row.owned = task[t].owned
      /\ row.resumed = task[t].resumed
      /\ row.status \in {task[t].status, "cancelled", "cancel_requested"}
      /\ row.status # "awaiting_confirmation"
  <2>1. /\ row \in TaskRow /\ row.epoch = task[t].epoch /\ row.owned = task[t].owned
        /\ row.resumed = task[t].resumed
        /\ row.status \in {task[t].status, "cancelled", "cancel_requested"}
    BY <1>a, CancelledRows, Zenon
  <2>2. rejecting[e] \in Final => task[t].status # "awaiting_confirmation"
    BY DEF RejectWrite, OpenRejections, HeldByRejection
  <2>3. row.status # "awaiting_confirmation"
    BY <1>a, <2>2 DEF CancelledRow, TaskRow
  <2> QED BY <2>1, <2>3
<1>c. /\ Rejected(exec[e]) \in ExecRow /\ Rejected(exec[e]).status = "cancelled"
      /\ Rejected(exec[e]).decision = "rejected"
      /\ Rejected(exec[e]).effect = exec[e].effect
  BY <1>a, ExecRows, Zenon
<1>d. /\ rejecting[e] # "none" /\ e \notin mine[t] /\ exec[e].decision = "pending"
      /\ exec[e].status = "awaiting_confirmation" /\ ~exec[e].effect
  BY <1>a DEF RejectWrite, OpenRejections, HeldByRejection, RowsAreGood, Good
<1>e. /\ task'[t] = row /\ task[t].status # "absent"
      /\ \A u \in Tasks : u # t => task'[u] = task[u]
      /\ exec'[e] = Rejected(exec[e])
      /\ \A f \in Execs : f # e => exec'[f] = exec[f]
      /\ UNCHANGED <<binding, lapsed, expired, phase, mine, ownTask, ownExec, cancel, told>>
      /\ Locking(t) => row = task[t]
  BY <1>a, <1>d DEF RejectWrite, TypeOK, open, OpenTransactions, TaskLocked, Locking,
    CancelledRow, TaskRow
<1>f. \A u \in Tasks : \A f \in mine[u] : f \in Execs /\ f[1] = u
  BY DEF TypeOK, ExecsOf
<1> HIDE DEF row, t
<1>1. TypeOK'
  <2>1. task' \in [Tasks -> TaskRow] /\ exec' \in [Execs -> ExecRow]
        /\ rejecting' \in [Execs -> {"none"} \cup TaskStatuses]
    BY <1>a, <1>b, <1>c DEF TypeOK, RejectWrite, row, t
  <2> QED BY <1>b, <1>e, <2>1 DEF TypeOK, ExecsOf
<1>2. RowsAreGood'
  BY <1>c, <1>d, <1>e DEF RowsAreGood, Good
<1>3. OpenTransactions'
  <2>1. \A u \in Tasks : \A f \in mine[u] : exec'[f] = exec[f]
    BY <1>d, <1>e, <1>f DEF t
  <2>2. \A u \in Tasks : task'[u].status = "absent" => task[u].status = "absent" /\ u # t
    BY <1>b, <1>e
  <2>3. \A u \in Tasks : u # t => \A f \in ExecsOf(u) : exec'[f] = exec[f]
    BY <1>e DEF ExecsOf, t
  <2> QED BY <1>a, <1>b, <1>d, <1>e, <2>1, <2>2, <2>3 DEF OpenTransactions, Locking, ExecsOf
<1>4. OneOwnProposal' /\ OneProposalAtATime'
  BY <1>c, <1>e DEF OneOwnProposal, OneProposalAtATime
<1>5. EpochsPass' /\ ResumedIsOver'
  BY <1>a, <1>b, <1>e DEF EpochsPass, ResumedIsOver, Resumable, Locking, Fenced
<1>6. RetriedWorkIsClean' /\ ResumedWorkIsResolved'
  BY <1>a, <1>b, <1>c, <1>d, <1>e DEF RetriedWorkIsClean, ResumedWorkIsResolved, Unresolved,
    ExecsOf
<1>7. WaitingTaskHasAProposal'
  BY <1>a, <1>b, <1>e DEF WaitingTaskHasAProposal, Active, ExecsOf, t
<1> QED BY <1>1, <1>2, <1>3, <1>4, <1>5, <1>6, <1>7

(* A proposal is approved on the web                                        *)
LEMMA WebApproveInv ==
  ASSUME Inv, NEW e \in Execs, WebApprove(e)
  PROVE  RowsInv'
<1> DEFINE t == e[1]
<1> USE DEF Inv, RowsInv
<1>a. t \in Tasks /\ e \in ExecsOf(t) /\ exec[e] \in ExecRow /\ task[t] \in TaskRow
  BY ExecTask DEF ExecsOf, TypeOK
<1>b. /\ QueuedAgain(task[t]) \in TaskRow /\ QueuedAgain(task[t]).status = "queued"
      /\ QueuedAgain(task[t]).owned = task[t].owned
      /\ QueuedAgain(task[t]).epoch = task[t].epoch
      /\ QueuedAgain(task[t]).resumed = task[t].resumed
  BY <1>a, TaskRows, Zenon
<1>c. /\ Consumed(exec[e]) \in ExecRow /\ Consumed(exec[e]).status = exec[e].status
      /\ Consumed(exec[e]).decision = "consumed"
      /\ Consumed(exec[e]).effect = exec[e].effect
  BY <1>a, ExecRows, Zenon
<1>d. /\ ~Locking(t) /\ e \notin mine[t] /\ exec[e].decision = "pending"
      /\ exec[e].status = "awaiting_confirmation" /\ ~exec[e].effect
      /\ task[t].status = "awaiting_confirmation" /\ ~task[t].resumed
  BY <1>a DEF WebApprove, Decidable, DecidableBy, ExecLocked, TaskLocked, Locking, CanQueue,
    RowsAreGood, Good, ResumedIsOver, Resumable
<1>e. /\ task'[t] = QueuedAgain(task[t])
      /\ \A u \in Tasks : u # t => task'[u] = task[u]
      /\ exec'[e] = Consumed(exec[e])
      /\ \A f \in Execs : f # e => exec'[f] = exec[f]
      /\ UNCHANGED <<binding, lapsed, expired, phase, mine, ownTask, ownExec,
                     cancel, rejecting, told>>
  BY <1>a, <1>d DEF WebApprove, TypeOK, open
<1>f. \A u \in Tasks : \A f \in mine[u] : f \in Execs /\ f[1] = u
  BY DEF TypeOK, ExecsOf
<1> HIDE DEF t
<1>1. TypeOK'
  <2>1. task' \in [Tasks -> TaskRow] /\ exec' \in [Execs -> ExecRow]
    BY <1>a, <1>b, <1>c DEF TypeOK, WebApprove, t
  <2> QED BY <1>b, <1>e, <2>1 DEF TypeOK, ExecsOf
<1>2. RowsAreGood'
  BY <1>c, <1>d, <1>e DEF RowsAreGood, Good
<1>3. OpenTransactions'
  <2>1. \A u \in Tasks : \A f \in mine[u] : exec'[f] = exec[f]
    BY <1>d, <1>e, <1>f DEF t
  <2>2. \A u \in Tasks : task'[u].status = "absent" => task[u].status = "absent" /\ u # t
    BY <1>b, <1>e
  <2>3. \A u \in Tasks : u # t => \A f \in ExecsOf(u) : exec'[f] = exec[f]
    BY <1>e DEF ExecsOf, t
  <2> QED BY <1>a, <1>b, <1>d, <1>e, <2>1, <2>2, <2>3 DEF OpenTransactions, Locking, ExecsOf
<1>4. OneOwnProposal' /\ OneProposalAtATime'
  BY <1>c, <1>e DEF OneOwnProposal, OneProposalAtATime
<1>5. EpochsPass' /\ ResumedIsOver'
  BY <1>a, <1>b, <1>d, <1>e DEF EpochsPass, ResumedIsOver, Locking, Fenced
<1>6. RetriedWorkIsClean' /\ ResumedWorkIsResolved'
  BY <1>a, <1>b, <1>c, <1>d, <1>e DEF RetriedWorkIsClean, ResumedWorkIsResolved, Unresolved,
    ExecsOf
<1>7. WaitingTaskHasAProposal'
  BY <1>a, <1>b, <1>e DEF WaitingTaskHasAProposal, Active, ExecsOf, t
<1> QED BY <1>1, <1>2, <1>3, <1>4, <1>5, <1>6, <1>7

(* A proposal is replaced by its edited form                                *)
LEMMA EditInv ==
  ASSUME Inv, NEW e \in Execs, NEW f \in Execs, Edit(e, f)
  PROVE  RowsInv'
<1> DEFINE t == e[1]
           new == Proposal(exec[e].epoch)
<1> USE DEF Inv, RowsInv
<1>a. t \in Tasks /\ e \in ExecsOf(t) /\ f \in ExecsOf(t) /\ exec[e] \in ExecRow /\ e # f
  BY ExecTask DEF ExecsOf, TypeOK, Edit
<1>b. /\ new \in ExecRow /\ new.status = "awaiting_confirmation"
      /\ new.decision = "pending" /\ ~new.effect
  BY <1>a, NewRows DEF ExecRow
<1>c. /\ Superseded(exec[e]) \in ExecRow /\ Superseded(exec[e]).status = "cancelled"
      /\ Superseded(exec[e]).decision = "superseded"
      /\ Superseded(exec[e]).effect = exec[e].effect
  BY <1>a, ExecRows, Zenon
<1>d. /\ e \notin mine[t] /\ f \notin mine[t] /\ exec[e].decision = "pending"
      /\ exec[e].status = "awaiting_confirmation" /\ ~exec[e].effect
      /\ task[t].status # "absent"
  BY <1>a DEF Edit, Decidable, DecidableBy, ExecLocked, Unused, RowsAreGood, Good,
    OpenTransactions, ExecsOf
<1>e. /\ exec'[e] = Superseded(exec[e]) /\ exec'[f] = new
      /\ \A g \in Execs : g # e /\ g # f => exec'[g] = exec[g]
      /\ UNCHANGED <<binding, task, lapsed, expired, phase, mine, ownTask, ownExec, cancel,
                     rejecting, told>>
  BY <1>a, <1>d DEF Edit, TypeOK, open
<1>f. \A u \in Tasks : \A g \in mine[u] : g \in Execs /\ g[1] = u
  BY DEF TypeOK, ExecsOf
<1>g. f[1] = t
  BY <1>a DEF ExecsOf
<1> HIDE DEF new, t
<1>1. TypeOK'
  <2>1. exec' \in [Execs -> ExecRow]
    BY <1>a, <1>b, <1>c DEF TypeOK, Edit, new, t
  <2> QED BY <1>e, <2>1 DEF TypeOK, ExecsOf
<1>2. RowsAreGood'
  BY <1>b, <1>c, <1>d, <1>e DEF RowsAreGood, Good
<1>3. OpenTransactions'
  <2>1. \A u \in Tasks : \A g \in mine[u] : exec'[g] = exec[g]
    BY <1>d, <1>e, <1>f, <1>g DEF t
  <2>2. \A u \in Tasks : u # t => \A g \in ExecsOf(u) : exec'[g] = exec[g]
    BY <1>e, <1>g DEF ExecsOf, t
  <2> QED BY <1>a, <1>d, <1>e, <2>1, <2>2 DEF OpenTransactions, Locking, ExecsOf
<1>4. OneOwnProposal'
  BY <1>e DEF OneOwnProposal
<1>5. OneProposalAtATime'
  <2>1. ASSUME NEW g \in Execs, g[1] = t, exec'[g].decision = "pending"
        PROVE  g = f
    BY <1>c, <1>d, <1>e, <2>1 DEF OneProposalAtATime, t
  <2>2. ASSUME NEW g \in Execs, NEW h \in Execs, g[1] = h[1],
               exec'[g].decision = "pending", exec'[h].decision = "pending"
        PROVE  g = h
    BY <1>e, <1>g, <2>1, <2>2 DEF OneProposalAtATime, t
  <2> QED BY <1>2, <2>2 DEF OneProposalAtATime, RowsAreGood, Good
<1>6. EpochsPass' /\ ResumedIsOver'
  BY <1>e DEF EpochsPass, ResumedIsOver, Locking, Fenced
<1>7. RetriedWorkIsClean' /\ ResumedWorkIsResolved'
  BY <1>b, <1>c, <1>d, <1>e DEF RetriedWorkIsClean, ResumedWorkIsResolved, Unresolved, ExecsOf
<1>8. WaitingTaskHasAProposal'
  BY <1>a, <1>b, <1>e, <1>g DEF WaitingTaskHasAProposal, Active, ExecsOf, t
<1> QED BY <1>1, <1>2, <1>3, <1>4, <1>5, <1>6, <1>7, <1>8

(* A task is resumed as a new one                                           *)
LEMMA ResumeInv ==
  ASSUME Inv, NEW t \in Tasks, NEW u \in Tasks, Resume(t, u)
  PROVE  RowsInv'
<1> DEFINE new == Queued(task[t].epoch)
<1> USE DEF Inv, RowsInv
<1>a. t # u /\ task[t] \in TaskRow /\ task[t].epoch \in Nat
  BY DEF Resume, MayResume, TypeOK, TaskRow
<1>b. /\ Resumed(task[t]) \in TaskRow /\ Resumed(task[t]).status = task[t].status
      /\ Resumed(task[t]).owned = task[t].owned /\ Resumed(task[t]).epoch = task[t].epoch
      /\ Resumed(task[t]).resumed
  BY <1>a, TaskRows, Zenon
<1>c. /\ new \in TaskRow /\ new.status = "queued" /\ new.epoch = task[t].epoch
      /\ ~new.owned /\ ~new.resumed
  BY <1>a, NewRows
<1>d. /\ task'[t] = Resumed(task[t]) /\ task'[u] = new
      /\ \A v \in Tasks : v # t /\ v # u => task'[v] = task[v]
      /\ UNCHANGED <<binding, exec, lapsed, expired, phase, mine, ownTask, ownExec, cancel,
                     rejecting, told>>
  BY <1>a DEF Resume, TypeOK, open
<1>e. /\ task[t].status \in {"failed", "unknown_result", "cancelled", "dead_letter"}
      /\ \A e \in ExecsOf(t) : ~Unresolved(e)
      /\ task[u].status = "absent" /\ phase[u] = "idle" /\ ~Locking(t)
  BY DEF Resume, MayResume, TaskLocked, Locking
<1> HIDE DEF new
<1>1. TypeOK'
  <2>1. task' \in [Tasks -> TaskRow]
    BY <1>b, <1>c DEF TypeOK, Resume, new
  <2>2. u \notin lapsed
    BY <1>e DEF TypeOK, OpenTransactions, Locking
  <2> QED BY <1>b, <1>d, <2>1, <2>2 DEF TypeOK, ExecsOf
<1>2. RowsAreGood'
  BY <1>d DEF RowsAreGood, Good
<1>3. OpenTransactions'
  BY <1>b, <1>c, <1>d, <1>e DEF OpenTransactions, Locking, ExecsOf
<1>4. OneOwnProposal' /\ OneProposalAtATime'
  BY <1>d DEF OneOwnProposal, OneProposalAtATime
<1>5. EpochsPass' /\ ResumedIsOver'
  BY <1>b, <1>c, <1>d, <1>e DEF EpochsPass, ResumedIsOver, Resumable, Locking, Fenced
<1>6. RetriedWorkIsClean' /\ ResumedWorkIsResolved'
  BY <1>b, <1>c, <1>d, <1>e DEF RetriedWorkIsClean, ResumedWorkIsResolved, Unresolved,
    ExecsOf
<1>7. WaitingTaskHasAProposal'
  BY <1>b, <1>c, <1>d, <1>e DEF WaitingTaskHasAProposal, Active, ExecsOf
<1> QED BY <1>1, <1>2, <1>3, <1>4, <1>5, <1>6, <1>7

(* The binding changes, and its epoch with it                               *)
LEMMA RebindInv ==
  ASSUME Inv, NEW active \in BOOLEAN, Rebind(active)
  PROVE  RowsInv'
<1> USE DEF Inv, RowsInv
<1>a. /\ binding.epoch \in Nat /\ binding' \in [active: BOOLEAN, epoch: Nat]
      /\ binding'.epoch = binding.epoch + 1
      /\ UNCHANGED <<task, exec, lapsed, expired, phase, mine, ownTask, ownExec,
                     cancel, rejecting, told>>
  BY DEF Rebind, TypeOK, open
<1>b. \A t \in Tasks : task[t].epoch \in Nat /\ ownTask[t].epoch \in Nat
  BY DEF TypeOK, TaskRow
<1>1. TypeOK'
  BY <1>a DEF TypeOK, ExecsOf
<1>2. RowsAreGood' /\ OpenTransactions'
  BY <1>a DEF RowsAreGood, Good, OpenTransactions, Locking, ExecsOf
<1>3. OneOwnProposal' /\ OneProposalAtATime'
  BY <1>a DEF OneOwnProposal, OneProposalAtATime
<1>4. EpochsPass' /\ ResumedIsOver'
  BY <1>a, <1>b DEF EpochsPass, ResumedIsOver, Locking, Fenced
<1>5. RetriedWorkIsClean' /\ ResumedWorkIsResolved'
  BY <1>a DEF RetriedWorkIsClean, ResumedWorkIsResolved, Unresolved, ExecsOf
<1>6. WaitingTaskHasAProposal'
  <2> SUFFICES ASSUME NEW t \in Tasks, task[t].status = "awaiting_confirmation",
                      binding'.epoch = task[t].epoch
               PROVE  FALSE
    BY <1>a DEF WaitingTaskHasAProposal, Active
  <2>1. task[t].epoch <= binding.epoch
    BY DEF EpochsPass, Fenced
  <2>2. task[t].epoch = binding.epoch + 1
    BY <1>a
  <2> QED BY <1>a, <1>b, <2>1, <2>2
<1> QED BY <1>1, <1>2, <1>3, <1>4, <1>5, <1>6

(* Steps that only move the clocks or read a status *)
LEMMA ClockInv ==
  ASSUME Inv, TypeOK',
         \A t \in Tasks : cancel'[t] # "none" => task[t].status # "absent",
         UNCHANGED <<binding, task, exec, phase, mine, ownTask, ownExec>>
  PROVE  RowsInv'
<1> USE DEF Inv, RowsInv
<1>1. RowsAreGood' /\ OpenTransactions'
  BY DEF RowsAreGood, Good, OpenTransactions, Locking, ExecsOf
<1>2. OneOwnProposal' /\ OneProposalAtATime'
  BY DEF OneOwnProposal, OneProposalAtATime
<1>3. EpochsPass' /\ ResumedIsOver'
  BY DEF EpochsPass, ResumedIsOver, Locking, Fenced
<1>4. RetriedWorkIsClean' /\ ResumedWorkIsResolved' /\ WaitingTaskHasAProposal'
  BY DEF RetriedWorkIsClean, ResumedWorkIsResolved, WaitingTaskHasAProposal, Unresolved,
    Active, ExecsOf
<1> QED BY <1>1, <1>2, <1>3, <1>4

--------------------------------------------------------------------------------

(* Every step of a task preserves the invariant                             *)
LEMMA TaskStepInv ==
  ASSUME Inv, NEW t \in Tasks, TaskStep(t)
  PROVE  RowsInv'
<1>1. CASE Message(t)
  BY <1>1, MessageInv
<1>2. CASE Claim(t)
  <2>1. CASE Active(ownTask[t].epoch)
    BY <1>2, <2>1, ClaimInv DEF Claim
  <2>2. CASE ~Active(ownTask[t].epoch)
    <3>1. /\ Commit(t, ownTask[t]) /\ phase[t] = "queued"
          /\ UNCHANGED <<binding, expired, cancel, rejecting, told>>
      BY <1>2, <2>2 DEF Claim
    <3>2. ownTask[t] \in TaskRow /\ told' \in SUBSET Tasks
      BY <3>1 DEF Inv, RowsInv, TypeOK
    <3>3. MayCommit(t, ownTask[t])
      BY <3>1 DEF MayCommit, Locking, Inv, RowsInv, OpenTransactions, EpochsPass
    <3> QED BY <3>1, <3>2, <3>3, CommitInv
  <2> QED BY <2>1, <2>2
<1>3. CASE RepeatCall(t)
  BY <1>3, RepeatCallInv
<1>4. CASE Finish(t)
  <2>1. PICK end \in Ends :
          /\ phase[t] = end[1]
          /\ Commit(t, IF t \notin lapsed /\ Active(ownTask[t].epoch)
                          THEN Transitioned(ownTask[t], end[2]) ELSE ownTask[t])
    BY <1>4 DEF Finish
  <2>2. /\ UNCHANGED <<binding, expired, cancel, rejecting>>
        /\ told' \in SUBSET Tasks
    BY <1>4 DEF Finish, Inv, RowsInv, TypeOK
  <2>3. /\ Locking(t) /\ ownTask[t] \in TaskRow /\ ~ownTask[t].resumed /\ Fenced(ownTask[t])
        /\ ownTask[t].status \in {"queued", "running"}
    BY <2>1 DEF Ends, Locking, Inv, RowsInv, TypeOK, OpenTransactions, EpochsPass
  <2>4. MayCommit(t, ownTask[t])
    BY <2>3 DEF MayCommit
  <2>5. Transitioned(ownTask[t], end[2]) \in TaskRow
        /\ MayCommit(t, Transitioned(ownTask[t], end[2]))
    <3>1. end[2] \in {"succeeded", "awaiting_input", "failed", "awaiting_confirmation",
                     "waiting_external"}
          /\ (end[2] = "awaiting_confirmation" => phase[t] = "proposed")
      BY <2>1 DEF Ends
    <3>2. end[2] \in TaskStatuses
      BY <3>1 DEF TaskStatuses
    <3>3. /\ Transitioned(ownTask[t], end[2]) \in TaskRow
          /\ Transitioned(ownTask[t], end[2]).status = end[2]
          /\ Transitioned(ownTask[t], end[2]).epoch = ownTask[t].epoch
          /\ Transitioned(ownTask[t], end[2]).resumed = ownTask[t].resumed
      BY <2>3, <3>2, TransitionedRows, Zenon
    <3> QED BY <2>3, <3>1, <3>3 DEF MayCommit, Fenced
  <2> QED BY <2>1, <2>2, <2>3, <2>4, <2>5, CommitInv
<1>5. CASE Abort(t)
  BY <1>5, AbortInv
<1>6. CASE Queue(t)
  <2>1. CASE CanQueue(t)
    BY <1>6, <2>1, QueueInv DEF Queue
  <2>2. CASE ~CanQueue(t)
    <3>1. /\ Commit(t, task[t]) /\ phase[t] = "decided"
          /\ UNCHANGED <<binding, expired, cancel, rejecting, told>>
      BY <1>6, <2>2 DEF Queue
    <3>2. task[t] \in TaskRow /\ told' \in SUBSET Tasks
      BY <3>1 DEF Inv, RowsInv, TypeOK
    <3> QED BY <2>2, <3>1, <3>2, CommitInv DEF MayCommit
  <2> QED BY <2>1, <2>2
<1>7. CASE CancelRead(t)
  <2>1. TypeOK'
    BY <1>7 DEF CancelRead, Inv, RowsInv, TypeOK, ExecsOf, open, TaskRow
  <2>2. \A u \in Tasks : cancel'[u] # "none" => task[u].status # "absent"
    BY <1>7 DEF CancelRead, Inv, RowsInv, TypeOK, OpenTransactions
  <2> QED BY <1>7, <2>1, <2>2, ClockInv DEF CancelRead, open
<1>8. CASE CancelWrite(t)
  BY <1>8, CancelWriteInv
<1>9. CASE Recover(t)
  BY <1>9, RecoverInv
<1>10. CASE Lapse(t)
  <2>1. TypeOK'
    BY <1>10 DEF Lapse, Inv, RowsInv, TypeOK, ExecsOf, open
  <2> QED BY <1>10, <2>1, ClockInv DEF Lapse, open, Inv, RowsInv, OpenTransactions
<1>11. CASE \E u \in Tasks : Resume(t, u)
  BY <1>11, ResumeInv
<1>12. CASE Interrupt(t)
  <2>1. /\ Commit(t, ownTask[t]) /\ phase[t] \in {"thinking", "broken"}
        /\ UNCHANGED <<binding, expired, cancel, rejecting, told>>
    BY <1>12 DEF Interrupt
  <2>2. ownTask[t] \in TaskRow /\ told' \in SUBSET Tasks
    BY <2>1 DEF Inv, RowsInv, TypeOK
  <2>3. MayCommit(t, ownTask[t])
    BY <2>1 DEF MayCommit, Locking, Inv, RowsInv, OpenTransactions, EpochsPass
  <2> QED BY <2>1, <2>2, <2>3, CommitInv
<1> QED BY <1>1, <1>2, <1>3, <1>4, <1>5, <1>6, <1>7, <1>8, <1>9, <1>10, <1>11,
           <1>12 DEF TaskStep

(* Every step of an execution preserves the invariant                       *)
LEMMA ExecStepInv ==
  ASSUME Inv, NEW e \in Execs, ExecStep(e)
  PROVE  RowsInv'
<1> DEFINE t == e[1]
<1>t. t \in Tasks
  BY ExecTask
<1>e. ownTask[t].epoch \in Nat
  BY <1>t DEF Inv, RowsInv, TypeOK, TaskRow
<1>r. ASSUME NEW row \in ExecRow, NEW result \in Results,
             row.decision \in {"none", "consumed"}, ~row.effect
      PROVE  /\ Completed(row, result) \in ExecRow /\ Good(Completed(row, result))
             /\ RolledBack(row) \in ExecRow /\ Good(RolledBack(row))
             /\ Completed(row, result).decision # "pending"
             /\ RolledBack(row).decision # "pending"
  <2>1. /\ Completed(row, result) \in ExecRow
        /\ Completed(row, result).decision = row.decision
        /\ Completed(row, result).effect = (result = "succeeded")
        /\ Completed(row, result).status = IF result = "read" THEN "succeeded" ELSE result
    BY CompletedRows, Zenon
  <2>2. Good(Completed(row, result)) /\ Completed(row, result).decision # "pending"
    BY <1>r, <2>1 DEF Good, Results
  <2>3. /\ RolledBack(row) \in ExecRow /\ RolledBack(row).status = "running"
        /\ RolledBack(row).effect = row.effect /\ RolledBack(row).decision = row.decision
    BY ExecRows, Zenon
  <2>4. Good(RolledBack(row)) /\ RolledBack(row).decision # "pending"
    BY <1>r, <2>3 DEF Good
  <2> QED BY <2>1, <2>2, <2>3, <2>4
<1>p. {"thinking", "proposed", "executed", "broken"} \subseteq Phases
  BY DEF Phases
<1>1. CASE CallTool(e)
  <2> DEFINE row == Call(ownTask[t].epoch)
  <2>1. row \in ExecRow /\ row.decision \in {"none", "consumed"} /\ ~row.effect
    BY <1>e, NewRows
  <2>2. CASE \E result \in Results : Replied(e, Completed(row, result), "thinking")
    <3>1. PICK result \in Results : Replied(e, Completed(row, result), "thinking")
      BY <2>2
    <3>2. /\ Completed(row, result) \in ExecRow /\ Good(Completed(row, result))
          /\ Completed(row, result).decision # "pending"
      BY <1>r, <2>1
    <3> HIDE DEF row
    <3> QED BY <1>1, <1>p, <3>1, <3>2, RepliedInv DEF CallTool
  <2>3. CASE Replied(e, RolledBack(row), "broken")
    <3>1. /\ RolledBack(row) \in ExecRow /\ Good(RolledBack(row))
          /\ RolledBack(row).decision # "pending"
      BY <1>r, <2>1 DEF Results
    <3> HIDE DEF row
    <3> QED BY <1>1, <1>p, <2>3, <3>1, RepliedInv DEF CallTool
  <2> QED BY <1>1, <2>2, <2>3 DEF CallTool
<1>2. CASE Propose(e)
  <2>1. /\ Proposal(ownTask[t].epoch) \in ExecRow /\ Good(Proposal(ownTask[t].epoch))
        /\ Proposal(ownTask[t].epoch).decision = "pending"
    BY <1>e, NewRows DEF Good
  <2> QED BY <1>2, <1>p, <2>1, RepliedInv DEF Propose
<1>3. CASE Decide(e)
  BY <1>3, DecideInv
<1>4. CASE Execute(e)
  <2> DEFINE row == ownExec[e]
  <2>a. row \in ExecRow /\ phase[t] = "approved" /\ e \in mine[t]
    BY <1>4 DEF Execute, Inv, RowsInv, TypeOK
  <2>1. CASE row.status # "awaiting_confirmation"
    <3>1. /\ Commit(t, ownTask[t]) /\ UNCHANGED <<binding, expired,
                                                  cancel, rejecting, told>>
      BY <1>4, <2>1 DEF Execute
    <3>2. ownTask[t] \in TaskRow /\ told' \in SUBSET Tasks
      BY <1>t, <3>1 DEF Inv, RowsInv, TypeOK
    <3>3. MayCommit(t, ownTask[t])
      BY <1>t, <2>a DEF MayCommit, Locking, Inv, RowsInv, OpenTransactions, EpochsPass
    <3> QED BY <1>t, <3>1, <3>2, <3>3, CommitInv
  <2>2. CASE row.status = "awaiting_confirmation"
    <3>1. row.decision \in {"none", "consumed"} /\ ~row.effect
      BY <1>t, <2>a, <2>2 DEF Inv, RowsInv, OneOwnProposal, RowsAreGood, Good, ExecRow, Decisions
    <3>2. CASE \E result \in Results :
                 Replied(e, Completed(row, result),
                         IF result \in {"succeeded", "read"} THEN "executed" ELSE "broken")
      <4>1. PICK result \in Results :
                 Replied(e, Completed(row, result),
                         IF result \in {"succeeded", "read"} THEN "executed" ELSE "broken")
        BY <3>2
      <4>2. /\ Completed(row, result) \in ExecRow /\ Good(Completed(row, result))
            /\ Completed(row, result).decision # "pending"
        BY <1>r, <2>a, <3>1
      <4> HIDE DEF row
      <4> QED BY <1>p, <2>a, <4>1, <4>2, RepliedInv
    <3>3. CASE Replied(e, RolledBack(row), "broken")
      <4>1. /\ RolledBack(row) \in ExecRow /\ Good(RolledBack(row))
            /\ RolledBack(row).decision # "pending"
        BY <1>r, <2>a, <3>1 DEF Results
      <4> HIDE DEF row
      <4> QED BY <1>p, <2>a, <3>3, <4>1, RepliedInv
    <3> QED BY <1>4, <2>2, <3>2, <3>3 DEF Execute
  <2> QED BY <2>1, <2>2
<1>5. CASE WebApprove(e)
  BY <1>5, WebApproveInv
<1>6. CASE RejectRead(e) \/ RejectFails(e)
  <2>1. TypeOK'
    BY <1>6, <1>t DEF RejectRead, RejectFails, Inv, RowsInv, TypeOK, ExecsOf, open, TaskRow
  <2> QED BY <1>6, <2>1, ClockInv DEF RejectRead, RejectFails, open, Inv, RowsInv,
          OpenTransactions
<1>9. CASE RejectWrite(e)
  BY <1>9, RejectWriteInv
<1>7. CASE Expire(e)
  <2>1. TypeOK'
    BY <1>7 DEF Expire, Inv, RowsInv, TypeOK, ExecsOf, open
  <2> QED BY <1>7, <2>1, ClockInv DEF Expire, open, Inv, RowsInv, OpenTransactions
<1>8. CASE \E f \in Execs : Edit(e, f)
  BY <1>8, EditInv
<1> QED BY <1>1, <1>2, <1>3, <1>4, <1>5, <1>6, <1>7, <1>8, <1>9 DEF ExecStep

(* The rejections under way when a transaction of a task commits             *)
LEMMA CommitKeepsRejections ==
  ASSUME Inv, NEW t \in Tasks, NEW row, Commit(t, row), UNCHANGED rejecting,
         row.status = "awaiting_confirmation" =>
           row = task[t] \/ task[t].status = "absent"
  PROVE  OpenRejections'
<1> SUFFICES ASSUME NEW e \in Execs, rejecting[e] # "none"
             PROVE  HeldByRejection(e)'
  BY DEF OpenRejections
<1>1. /\ task'[t] = row /\ mine'[t] = {}
      /\ \A u \in Tasks : u # t => task'[u] = task[u] /\ mine'[u] = mine[u]
      /\ \A f \in Execs : f \notin mine[t] => exec'[f] = exec[f]
  BY DEF Inv, RowsInv, TypeOK, Commit, CommitExecs, Close
<1>2. HeldByRejection(e) /\ e[1] \in Tasks
  BY ExecTask DEF Inv, OpenRejections
<1>3. e \notin mine[t]
  BY <1>2 DEF HeldByRejection, Inv, RowsInv, TypeOK, ExecsOf
<1>4. e[1] = t => task[t].status # "absent"
  <2>1. exec[e].status # "absent"
    BY <1>2 DEF HeldByRejection, Inv, RowsInv, RowsAreGood, Good
  <2> QED BY <2>1 DEF Inv, RowsInv, OpenTransactions, ExecsOf
<1>5. rejecting[e] \in Final => task'[e[1]].status # "awaiting_confirmation"
  BY <1>1, <1>2, <1>4 DEF HeldByRejection
<1> QED BY <1>1, <1>2, <1>3, <1>5 DEF HeldByRejection

(* A step that leaves the rejections under way, writes none of the rows they *)
(* hold, and lets no task wait for its user again                            *)
LEMMA RejectionsStay ==
  ASSUME Inv, UNCHANGED rejecting,
         \A e \in Execs : rejecting[e] # "none" =>
           /\ exec'[e].decision = exec[e].decision
           /\ e \in mine'[e[1]] => e \in mine[e[1]],
         \A t \in Tasks : task'[t].status = "awaiting_confirmation" =>
           task[t].status = "awaiting_confirmation"
  PROVE  OpenRejections'
BY ExecTask DEF Inv, OpenRejections, HeldByRejection

(* A step of a task leaves the rejections under way                          *)
LEMMA TaskStepRejections ==
  ASSUME Inv, NEW t \in Tasks, TaskStep(t)
  PROVE  OpenRejections'
<1>t. task[t] \in TaskRow /\ ownTask[t] \in TaskRow
  BY DEF Inv, RowsInv, TypeOK
<1>1. CASE Message(t) \/ RepeatCall(t) \/ CancelRead(t) \/ Lapse(t)
  BY <1>1, RejectionsStay DEF Message, RepeatCall, CancelRead, Lapse, open
<1>2. CASE Claim(t)
  <2>1. CASE Active(ownTask[t].epoch)
    BY <1>2, <2>1, RejectionsStay DEF Claim
  <2>2. CASE ~Active(ownTask[t].epoch)
    <3>1. ownTask[t].status # "awaiting_confirmation"
      BY <1>2 DEF Claim, Inv, RowsInv, OpenTransactions, Locking
    <3> QED BY <1>2, <2>2, <3>1, CommitKeepsRejections DEF Claim
  <2> QED BY <2>1, <2>2
<1>3. CASE Finish(t)
  <2>1. PICK end \in Ends :
          /\ phase[t] = end[1]
          /\ Commit(t, Transitioned(ownTask[t], end[2])) \/ Commit(t, ownTask[t])
    BY <1>3 DEF Finish
  <2>2. /\ Locking(t) /\ end[2] \in TaskStatuses
        /\ end[2] = "awaiting_confirmation" => phase[t] = "proposed"
    BY <2>1 DEF Ends, Locking, TaskStatuses
  <2>3. /\ ownTask[t].status # "awaiting_confirmation"
        /\ phase[t] = "proposed" => task[t].status = "absent"
    BY <2>2 DEF Inv, RowsInv, OpenTransactions
  <2>4. Transitioned(ownTask[t], end[2]).status = end[2]
    BY <1>t, <2>2, TransitionedRows
  <2>5. UNCHANGED rejecting
    BY <1>3 DEF Finish
  <2>6. CASE Commit(t, Transitioned(ownTask[t], end[2]))
    BY <2>2, <2>3, <2>4, <2>5, <2>6, CommitKeepsRejections
  <2>7. CASE Commit(t, ownTask[t])
    BY <2>3, <2>5, <2>7, CommitKeepsRejections
  <2> QED BY <2>1, <2>6, <2>7
<1>4. CASE Interrupt(t)
  <2>1. ownTask[t].status # "awaiting_confirmation"
    BY <1>4 DEF Interrupt, Inv, RowsInv, OpenTransactions, Locking
  <2> QED BY <1>4, <2>1, CommitKeepsRejections DEF Interrupt
<1>5. CASE Abort(t)
  <2>1. \A u \in Tasks : mine'[u] \subseteq mine[u]
    BY <1>5 DEF Abort, Close, Inv, RowsInv, TypeOK
  <2> QED BY <1>5, <2>1, ExecTask, RejectionsStay DEF Abort
<1>6. CASE Queue(t)
  <2>1. CASE CanQueue(t)
    BY <1>6, <2>1, RejectionsStay DEF Queue
  <2>2. CASE ~CanQueue(t)
    BY <1>6, <2>2, CommitKeepsRejections DEF Queue
  <2> QED BY <2>1, <2>2
<1>7. CASE CancelWrite(t)
  <2>1. /\ task'[t].status \in {task[t].status, "cancelled", "cancel_requested"}
        /\ \A u \in Tasks : u # t => task'[u] = task[u]
    BY <1>7, <1>t, CancelledRows DEF CancelWrite, Inv, RowsInv, TypeOK
  <2> QED BY <1>7, <2>1, RejectionsStay DEF CancelWrite, open
<1>8. CASE Recover(t)
  <2>1. RecoveredStatus(t) \in TaskStatuses /\ RecoveredStatus(t) # "awaiting_confirmation"
    BY DEF RecoveredStatus, TaskStatuses
  <2>2. /\ task'[t].status = RecoveredStatus(t)
        /\ \A u \in Tasks : u # t => task'[u] = task[u]
    BY <1>8, <1>t, <2>1, RecoveredRows DEF Recover, Inv, RowsInv, TypeOK
  <2> QED BY <1>8, <2>1, <2>2, RejectionsStay DEF Recover, open
<1>9. CASE \E u \in Tasks : Resume(t, u)
  <2>1. PICK u \in Tasks : Resume(t, u)
    BY <1>9
  <2>2. /\ task[t].epoch \in Nat /\ t # u
    BY <1>t, <2>1 DEF TaskRow, Resume, MayResume
  <2>3. /\ task'[t] = Resumed(task[t]) /\ task'[u] = Queued(task[t].epoch)
        /\ \A v \in Tasks : v # t /\ v # u => task'[v] = task[v]
    BY <2>1, <2>2 DEF Resume, Inv, RowsInv, TypeOK
  <2>4. task'[t].status = task[t].status /\ task'[u].status = "queued"
    BY <1>t, <2>2, <2>3, TaskRows, NewRows
  <2> QED BY <2>1, <2>3, <2>4, RejectionsStay DEF Resume, open
<1> QED BY <1>1, <1>2, <1>3, <1>4, <1>5, <1>6, <1>7, <1>8, <1>9 DEF TaskStep

(* So does a step of a call, except for the rejection that it reads or ends  *)
LEMMA ExecStepRejections ==
  ASSUME Inv, NEW e \in Execs, ExecStep(e)
  PROVE  OpenRejections'
<1> DEFINE t == e[1]
<1>t. t \in Tasks /\ task[t] \in TaskRow /\ ownTask[t] \in TaskRow
  BY ExecTask DEF Inv, RowsInv, TypeOK
<1>h. \A f \in Execs : rejecting[f] # "none" =>
        /\ exec[f].decision = "pending" /\ exec[f].status = "awaiting_confirmation"
        /\ f \notin mine[f[1]] /\ HeldByRejection(f)
  BY DEF Inv, RowsInv, OpenRejections, HeldByRejection, RowsAreGood, Good
<1>r. ASSUME NEW row, NEW next, Replied(e, row, next), rejecting[e] = "none"
      PROVE  OpenRejections'
  <2>1. /\ mine'[t] = mine[t] \cup {e}
        /\ \A u \in Tasks : u # t => mine'[u] = mine[u]
        /\ UNCHANGED <<rejecting, exec, task>>
    BY <1>t, <1>r DEF Replied, Inv, RowsInv, TypeOK
  <2> QED BY <1>r, <2>1, ExecTask, RejectionsStay
<1>1. CASE CallTool(e) \/ Propose(e)
  BY <1>1, <1>r DEF CallTool, Propose, Unused, ExecLocked
<1>2. CASE Decide(e)
  <2>1. /\ rejecting[e] = "none" /\ mine'[t] = {e}
        /\ \A u \in Tasks : u # t => mine'[u] = mine[u]
        /\ UNCHANGED <<rejecting, exec, task>>
    BY <1>2, <1>t DEF Decide, Decidable, ExecLocked, Inv, RowsInv, TypeOK
  <2> QED BY <2>1, ExecTask, RejectionsStay
<1>3. CASE Execute(e)
  <2>1. e \in mine[t] /\ Locking(t)
    BY <1>3 DEF Execute, Locking
  <2>2. rejecting[e] = "none"
    BY <1>h, <2>1
  <2>3. ownTask[t].status # "awaiting_confirmation"
    BY <1>t, <2>1 DEF Inv, RowsInv, OpenTransactions
  <2>4. CASE Commit(t, ownTask[t]) /\ UNCHANGED rejecting
    BY <1>t, <2>3, <2>4, CommitKeepsRejections
  <2> QED BY <1>3, <1>r, <2>2, <2>4 DEF Execute
<1>4. CASE WebApprove(e)
  <2>1. /\ rejecting[e] = "none" /\ UNCHANGED <<rejecting, mine>>
        /\ \A f \in Execs : f # e => exec'[f] = exec[f]
        /\ task'[t] = QueuedAgain(task[t])
        /\ \A u \in Tasks : u # t => task'[u] = task[u]
    BY <1>4, <1>t DEF WebApprove, Decidable, ExecLocked, open, Inv, RowsInv, TypeOK
  <2>2. task'[t].status = "queued"
    BY <1>t, <2>1, TaskRows
  <2> QED BY <2>1, <2>2, RejectionsStay
<1>5. CASE RejectRead(e)
  <2>1. /\ rejecting'[e] = task[t].status /\ UNCHANGED <<task, exec, mine>>
        /\ \A f \in Execs : f # e => rejecting'[f] = rejecting[f]
        /\ e \notin mine[t] /\ exec[e].decision = "pending"
    BY <1>5 DEF RejectRead, Decidable, DecidableBy, ExecLocked, open, Inv, RowsInv, TypeOK
  <2> QED BY <1>h, <2>1 DEF OpenRejections, HeldByRejection, Final
<1>6. CASE RejectFails(e)
  <2>1. /\ rejecting'[e] = "none" /\ UNCHANGED <<task, exec, mine>>
        /\ \A f \in Execs : f # e => rejecting'[f] = rejecting[f]
    BY <1>6 DEF RejectFails, open, Inv, RowsInv, TypeOK
  <2> QED BY <1>h, <2>1 DEF OpenRejections, HeldByRejection
<1>7. CASE RejectWrite(e)
  <2>1. /\ rejecting'[e] = "none" /\ UNCHANGED mine
        /\ \A f \in Execs : f # e => rejecting'[f] = rejecting[f] /\ exec'[f] = exec[f]
        /\ task'[t] = CancelledRow(task[t], rejecting[e])
        /\ \A u \in Tasks : u # t => task'[u] = task[u]
    BY <1>7, <1>t DEF RejectWrite, open, Inv, RowsInv, TypeOK
  <2>2. task'[t].status \in {task[t].status, "cancelled", "cancel_requested"}
    BY <1>t, <2>1, CancelledRows
  <2>3. \A u \in Tasks : task'[u].status = "awaiting_confirmation" =>
          task[u].status = "awaiting_confirmation"
    BY <2>1, <2>2
  <2> QED BY <1>h, <2>1, <2>3, ExecTask DEF OpenRejections, HeldByRejection
<1>8. CASE Expire(e)
  BY <1>8, RejectionsStay DEF Expire, open
<1>9. CASE \E f \in Execs : Edit(e, f)
  <2>1. PICK f \in Execs : Edit(e, f)
    BY <1>9
  <2>2. /\ rejecting[e] = "none" /\ rejecting[f] = "none"
        /\ UNCHANGED <<rejecting, mine, task>>
        /\ \A g \in Execs : g # e /\ g # f => exec'[g] = exec[g]
    BY <2>1 DEF Edit, Decidable, Unused, ExecLocked, open, Inv, RowsInv, TypeOK
  <2> QED BY <2>2, RejectionsStay
<1> QED BY <1>1, <1>2, <1>3, <1>4, <1>5, <1>6, <1>7, <1>8, <1>9 DEF ExecStep

(* The invariant holds in every behaviour, and with it the properties of the *)
(* module.                                                                   *)
THEOREM Invariance == Spec => []Inv
<1>1. Inv /\ UNCHANGED vars => Inv'
  <2> SUFFICES ASSUME Inv, UNCHANGED vars PROVE Inv'
    OBVIOUS
  <2>1. TypeOK'
    BY DEF vars, Inv, RowsInv, TypeOK, ExecsOf
  <2>2. RowsInv'
    BY <2>1, ClockInv DEF vars, Inv, RowsInv, OpenTransactions
  <2>3. OpenRejections'
    BY RejectionsStay DEF vars
  <2> QED BY <2>2, <2>3 DEF Inv
<1>2. Inv /\ (\E active \in BOOLEAN : Rebind(active)) => Inv'
  <2> SUFFICES ASSUME Inv, NEW active \in BOOLEAN, Rebind(active) PROVE Inv'
    OBVIOUS
  <2>1. OpenRejections'
    BY RejectionsStay DEF Rebind, open
  <2> QED BY <2>1, RebindInv DEF Inv
<1>3. Inv /\ (\E t \in Tasks : TaskStep(t)) => Inv'
  BY TaskStepInv, TaskStepRejections DEF Inv
<1>4. Inv /\ (\E e \in Execs : ExecStep(e)) => Inv'
  BY ExecStepInv, ExecStepRejections DEF Inv
<1>5. Inv /\ [Next]_vars => Inv'
  BY <1>1, <1>2, <1>3, <1>4 DEF Next
<1> QED BY <1>5, InitInv, PTL DEF Spec

(* Every row stays well typed and a lease that ended is the lease of a claim *)
(* (the tables of the agent and claim_until).                                *)
THEOREM TypeCorrect == Spec => []TypeOK
<1>1. Inv => TypeOK
  BY DEF Inv, RowsInv
<1> QED BY <1>1, Invariance, PTL

(* No tool takes effect with a confirmation that was not consumed, for any   *)
(* number of tasks and calls (ConfirmationService).                          *)
THEOREM OnlyApproved == Spec => []OnlyApprovedEffects
<1>1. Inv => OnlyApprovedEffects
  BY DEF Inv, RowsInv, RowsAreGood, Good, OnlyApprovedEffects
<1> QED BY <1>1, Invariance, PTL

(* A task has at most one proposal that can be decided (edit_and_reissue).   *)
THEOREM OneProposal == Spec => []OneProposalAtATime
<1>1. Inv => OneProposalAtATime
  BY DEF Inv, RowsInv
<1> QED BY <1>1, Invariance, PTL

(* A task that waits for a decision has one to wait for, under its binding   *)
(* (queue_after_confirmation, request_cancel, edit_and_reissue).             *)
THEOREM WaitingHasAProposal == Spec => []WaitingTaskHasAProposal
<1>1. Inv => WaitingTaskHasAProposal
  BY DEF Inv, RowsInv
<1> QED BY <1>1, Invariance, PTL

(* Recovery sends only work without effects to another attempt               *)
(* (recover_expired_task).                                                   *)
THEOREM RetriesAreClean == Spec => []RetriedWorkIsClean
<1>1. Inv => RetriedWorkIsClean
  BY DEF Inv, RowsInv
<1> QED BY <1>1, Invariance, PTL

(* A task that was resumed has nothing unresolved, then or later             *)
(* (resume_task, replay_message).                                            *)
THEOREM ResumedStaysResolved == Spec => []ResumedWorkIsResolved
<1>1. Inv => ResumedWorkIsResolved
  BY DEF Inv, RowsInv
<1> QED BY <1>1, Invariance, PTL

--------------------------------------------------------------------------------
(* Refinement of ToolApproval *)

(* What an open transaction may do to a row it holds: the call is new, and   *)
(* it ran or asks for consent, or its consent was pending and is used up.    *)
HeldRow(e) ==
  \/ /\ exec[e].status = "absent"
     /\ \/ ownExec[e].decision = "none" /\ ownExec[e].status \in Approval!Outcomes
        \/ /\ ownExec[e].decision = "pending"
           /\ ownExec[e].status = "awaiting_confirmation"
  \/ /\ exec[e].decision = "pending" /\ ownExec[e].decision = "consumed"
     /\ ownExec[e].status \in Approval!Outcomes \cup {"awaiting_confirmation"}

HeldRows == \A t \in Tasks : \A e \in mine[t] : HeldRow(e)

(* A row that stays held, and is not written, is held as before; so all that *)
(* a step must show is what it holds anew.                                   *)
LEMMA HeldStays ==
  ASSUME Inv, HeldRows,
         \A t \in Tasks : \A e \in mine'[t] :
           \/ e \in mine[t] /\ exec'[e] = exec[e] /\ ownExec'[e] = ownExec[e]
           \/ HeldRow(e)'
  PROVE  HeldRows'
<1> SUFFICES ASSUME NEW t \in Tasks, NEW e \in mine'[t]
             PROVE  HeldRow(e)'
  BY DEF HeldRows
<1>1. CASE e \in mine[t] /\ exec'[e] = exec[e] /\ ownExec'[e] = ownExec[e]
  <2>1. HeldRow(e)
    BY <1>1 DEF HeldRows
  <2> QED BY <1>1, <2>1 DEF HeldRow
<1>2. CASE HeldRow(e)'
  BY <1>2
<1> QED BY <1>1, <1>2

(* A step that moves calls of one task, each as ToolApproval allows, is one   *)
(* of its steps.                                                             *)
LEMMA CallsMove ==
  ASSUME Inv, Inv', NEW t \in Tasks,
         \A e \in Execs :
           \/ exec'[e] = exec[e]
           \/ /\ e[1] = t
              /\ \/ Approval!Run(e) \/ Approval!Ask(e) \/ Approval!Approve(e)
                 \/ Approval!RunApproved(e) \/ Approval!Reject(e) \/ Approval!Replace(e)
  PROVE  Approval!Next
<1>1. Approval!Execs = Execs
  BY DEF Approval!Execs, Execs
<1>2. ASSUME NEW e \in Execs, exec'[e] = exec[e]
      PROVE  Approval!Stay(e)
  BY <1>2 DEF Approval!Stay, Approval!Becomes
<1>3. Approval!OneQuestion'
  <2>1. ASSUME NEW e \in Execs, NEW f \in Execs, e[1] = f[1],
               exec'[e].decision = "pending", exec'[f].decision = "pending"
        PROVE  e = f
    BY <2>1 DEF Inv, RowsInv, OneProposalAtATime
  <2> QED BY <1>1, <2>1 DEF Approval!OneQuestion, Approval!Pending
<1>4. /\ [e \in Execs |-> exec[e].decision]' \in [Approval!Execs -> Approval!Decisions]
      /\ [e \in Execs |-> exec[e].status]' \in [Approval!Execs -> Approval!Statuses]
      /\ [e \in Execs |-> exec[e].effect]' \in [Approval!Execs -> BOOLEAN]
  <2>1. \A e \in Execs : /\ exec'[e].decision \in Approval!Decisions
                         /\ exec'[e].status \in Approval!Statuses
                         /\ exec'[e].effect \in BOOLEAN
    BY DEF Inv, RowsInv, TypeOK, ExecRow, ExecStatuses, Decisions, Approval!Decisions,
           Approval!Statuses, Approval!Outcomes
  <2> QED BY <1>1, <2>1
<1> QED BY <1>1, <1>2, <1>3, <1>4 DEF Approval!Next

(* A transaction commits: each call it wrote ran, asks, or had consent.      *)
LEMMA CommitMoves ==
  ASSUME Inv, Inv', HeldRows, NEW t \in Tasks, NEW row, Commit(t, row)
  PROVE  Approval!Next /\ HeldRows'
<1>1. /\ mine'[t] = {}
      /\ \A u \in Tasks : u # t => mine'[u] = mine[u]
      /\ \A e \in Execs : e \in mine[t] => exec'[e] = ownExec[e]
      /\ \A e \in Execs : e \notin mine[t] => exec'[e] = exec[e] /\ ownExec'[e] = ownExec[e]
  BY DEF Inv, RowsInv, TypeOK, Commit, CommitExecs, Close
<1>2. \A u \in Tasks : \A e \in mine[u] : e \in Execs /\ e[1] = u
  BY DEF Inv, RowsInv, TypeOK, ExecsOf
<1>3. HeldRows'
  BY <1>1, <1>2, HeldStays
<1>4. ASSUME NEW e \in Execs, e \in mine[t]
      PROVE  \/ Approval!Run(e) \/ Approval!Ask(e) \/ Approval!Approve(e)
             \/ Approval!RunApproved(e)
  <2>1. HeldRow(e) /\ exec'[e] = ownExec[e]
    BY <1>1, <1>4 DEF HeldRows
  <2>2. /\ ownExec[e].effect \in BOOLEAN
        /\ ownExec[e].effect => ownExec[e].status = "succeeded"
    BY DEF Inv, RowsInv, TypeOK, ExecRow, RowsAreGood, Good
  <2>3. CASE /\ exec[e].status = "absent" /\ ownExec[e].decision = "none"
             /\ ownExec[e].status \in Approval!Outcomes
    BY <2>1, <2>2, <2>3 DEF Approval!Run, Approval!New, Approval!Ran, Approval!Becomes
  <2>4. CASE /\ exec[e].status = "absent" /\ ownExec[e].decision = "pending"
             /\ ownExec[e].status = "awaiting_confirmation"
    BY <2>1, <2>2, <2>4 DEF Approval!Ask, Approval!New, Approval!Becomes
  <2>5. CASE /\ exec[e].decision = "pending" /\ ownExec[e].decision = "consumed"
             /\ ownExec[e].status \in Approval!Outcomes
    BY <2>1, <2>2, <2>5 DEF Approval!RunApproved, Approval!Pending, Approval!Ran,
                            Approval!Becomes
  <2>6. CASE /\ exec[e].decision = "pending" /\ ownExec[e].decision = "consumed"
             /\ ownExec[e].status = "awaiting_confirmation"
    BY <2>1, <2>2, <2>6 DEF Approval!Approve, Approval!Pending, Approval!Becomes
  <2> QED BY <2>1, <2>3, <2>4, <2>5, <2>6 DEF HeldRow
<1>5. \A e \in Execs :
        \/ exec'[e] = exec[e]
        \/ /\ e[1] = t
           /\ \/ Approval!Run(e) \/ Approval!Ask(e) \/ Approval!Approve(e)
              \/ Approval!RunApproved(e) \/ Approval!Reject(e) \/ Approval!Replace(e)
  BY <1>1, <1>2, <1>4
<1> QED BY <1>3, <1>5, CallsMove

(* A decision on the web, or the end of a rejection, moves a call that no     *)
(* open transaction of its task holds.                                       *)
LEMMA DecisionMoves ==
  ASSUME Inv, Inv', HeldRows, NEW e \in Execs, WebApprove(e) \/ RejectWrite(e)
  PROVE  Approval!Next /\ HeldRows'
<1>1. /\ Decidable(e) \/ rejecting[e] # "none"
      /\ UNCHANGED <<mine, ownExec>>
      /\ exec' = [exec EXCEPT ![e] = Consumed(@)] \/ exec' = [exec EXCEPT ![e] = Rejected(@)]
  BY DEF WebApprove, RejectWrite, open
<1>2. /\ exec'[e] \in {Consumed(exec[e]), Rejected(exec[e])}
      /\ \A f \in Execs : f # e => exec'[f] = exec[f]
  BY <1>1 DEF Inv, RowsInv, TypeOK
<1>3. /\ exec[e] \in ExecRow /\ exec[e].decision = "pending"
      /\ exec[e].status = "awaiting_confirmation" /\ exec[e].effect = FALSE
      /\ e \notin mine[e[1]]
  <2>1. exec[e] \in ExecRow /\ exec[e].decision = "pending" /\ e \notin mine[e[1]]
    BY <1>1 DEF Decidable, DecidableBy, ExecLocked, Inv, RowsInv, TypeOK, OpenRejections,
                HeldByRejection
  <2> QED BY <2>1 DEF ExecRow, Inv, RowsInv, RowsAreGood, Good
<1>4. Approval!Approve(e) \/ Approval!Reject(e)
  <2>1. CASE exec'[e] = Consumed(exec[e])
    <3>1. /\ exec'[e].decision = "consumed" /\ exec'[e].status = "awaiting_confirmation"
          /\ exec'[e].effect = FALSE
      BY <1>3, <2>1, ExecRows
    <3> QED BY <1>3, <3>1 DEF Approval!Approve, Approval!Pending, Approval!Becomes
  <2>2. CASE exec'[e] = Rejected(exec[e])
    <3>1. /\ exec'[e].decision = "rejected" /\ exec'[e].status = "cancelled"
          /\ exec'[e].effect = FALSE
      BY <1>3, <2>2, ExecRows
    <3> QED BY <1>3, <3>1 DEF Approval!Reject, Approval!Pending, Approval!Becomes
  <2> QED BY <1>2, <2>1, <2>2
<1>5. Approval!Next
  BY <1>2, <1>4, ExecTask, CallsMove
<1>6. \A u \in Tasks : \A f \in mine[u] : f \in Execs /\ f[1] = u
  BY DEF Inv, RowsInv, TypeOK, ExecsOf
<1>7. HeldRows'
  BY <1>1, <1>2, <1>3, <1>6, HeldStays
<1> QED BY <1>5, <1>7

(* A question that is withdrawn is replaced by another.                      *)
LEMMA EditMoves ==
  ASSUME Inv, Inv', HeldRows, NEW e \in Execs, NEW f \in Execs, Edit(e, f)
  PROVE  Approval!Next /\ HeldRows'
<1>1. /\ Decidable(e) /\ Unused(f) /\ f # e /\ f[1] = e[1] /\ UNCHANGED <<mine, ownExec>>
      /\ exec'[e] = Superseded(exec[e]) /\ exec'[f] = Proposal(exec[e].epoch)
      /\ \A g \in Execs : g # e /\ g # f => exec'[g] = exec[g]
  BY DEF Edit, open, Inv, RowsInv, TypeOK
<1>2. /\ exec[e] \in ExecRow /\ exec[e].decision = "pending"
      /\ exec[e].status = "awaiting_confirmation" /\ exec[e].effect = FALSE
      /\ exec[e].epoch \in Nat /\ e \notin mine[e[1]]
      /\ exec[f].status = "absent" /\ f \notin mine[f[1]]
  BY <1>1 DEF Decidable, DecidableBy, ExecLocked, Unused, Inv, RowsInv, TypeOK, ExecRow,
              RowsAreGood, Good
<1>3. /\ exec'[e].decision = "superseded" /\ exec'[e].status = "cancelled"
      /\ exec'[e].effect = FALSE
  BY <1>1, <1>2, ExecRows
<1>4. /\ exec'[f].decision = "pending" /\ exec'[f].status = "awaiting_confirmation"
      /\ exec'[f].effect = FALSE
  BY <1>1, <1>2, NewRows
<1>5. Approval!Ask(f)
  BY <1>2, <1>4 DEF Approval!Ask, Approval!New, Approval!Becomes
<1>6. Approval!Execs = Execs
  BY DEF Approval!Execs, Execs
<1>7. Approval!Replace(e)
  BY <1>1, <1>2, <1>3, <1>5, <1>6 DEF Approval!Replace, Approval!Pending, Approval!Becomes
<1>8. Approval!Next
  BY <1>1, <1>5, <1>7, ExecTask, CallsMove
<1>9. \A u \in Tasks : \A g \in mine[u] : g \in Execs /\ g[1] = u
  BY DEF Inv, RowsInv, TypeOK, ExecsOf
<1>10. HeldRows'
  BY <1>1, <1>2, <1>9, HeldStays
<1> QED BY <1>8, <1>10

(* A call that a transaction runs is new or was decided by it.               *)
LEMMA RunsHold ==
  ASSUME Inv, HeldRows, NEW e \in Execs,
         \/ CallTool(e) \/ Propose(e)
         \/ Execute(e) /\ ownExec[e].status = "awaiting_confirmation"
  PROVE  exec' = exec /\ HeldRows'
<1>x. exec' = exec
  BY DEF CallTool, Propose, Execute, Replied
<1> SUFFICES HeldRows'
  BY <1>x
<1> DEFINE t == e[1]
<1>t. t \in Tasks /\ ownTask[t].epoch \in Nat
  BY ExecTask DEF Inv, RowsInv, TypeOK, TaskRow
<1>o. \A result \in Results :
        (IF result = "read" THEN "succeeded" ELSE result) \in Approval!Outcomes
  BY DEF Results, Approval!Outcomes
<1>r. ASSUME NEW row \in ExecRow, NEW result \in Results
      PROVE  /\ Completed(row, result).decision = row.decision
             /\ Completed(row, result).status \in Approval!Outcomes
             /\ RolledBack(row).decision = row.decision
             /\ RolledBack(row).status \in Approval!Outcomes
  <2>1. /\ Completed(row, result).decision = row.decision
        /\ Completed(row, result).status = IF result = "read" THEN "succeeded" ELSE result
    BY CompletedRows, Zenon
  <2>2. RolledBack(row).decision = row.decision /\ RolledBack(row).status = "running"
    BY ExecRows, Zenon
  <2> QED BY <1>o, <2>1, <2>2 DEF Approval!Outcomes
<1>w. ASSUME NEW row, NEW next, Replied(e, row, next),
             \/ /\ exec[e].status = "absent"
                /\ \/ row.decision = "none" /\ row.status \in Approval!Outcomes
                   \/ row.decision = "pending" /\ row.status = "awaiting_confirmation"
             \/ /\ exec[e].decision = "pending" /\ row.decision = "consumed"
                /\ row.status \in Approval!Outcomes
      PROVE  HeldRows'
  <2>1. /\ ownExec'[e] = row /\ \A f \in Execs : f # e => ownExec'[f] = ownExec[f]
        /\ mine'[t] = mine[t] \cup {e}
        /\ \A u \in Tasks : u # t => mine'[u] = mine[u]
    BY <1>t, <1>w DEF Replied, Inv, RowsInv, TypeOK
  <2>2. HeldRow(e)'
    BY <1>x, <1>w, <2>1 DEF HeldRow
  <2>3. \A u \in Tasks : \A f \in mine[u] : f \in Execs /\ f[1] = u
    BY DEF Inv, RowsInv, TypeOK, ExecsOf
  <2> QED BY <1>x, <2>1, <2>2, <2>3, HeldStays
<1>1. CASE CallTool(e)
  <2> DEFINE row == Call(ownTask[t].epoch)
  <2>1. row \in ExecRow /\ row.decision = "none" /\ exec[e].status = "absent"
    BY <1>1, <1>t, NewRows DEF CallTool, Unused
  <2>2. \/ \E result \in Results : Replied(e, Completed(row, result), "thinking")
        \/ Replied(e, RolledBack(row), "broken")
    BY <1>1 DEF CallTool
  <2> HIDE DEF row
  <2>3. "failed" \in Results
    BY DEF Results
  <2> QED BY <1>r, <1>w, <2>1, <2>2, <2>3
<1>2. CASE Propose(e)
  <2>1. /\ Replied(e, Proposal(ownTask[t].epoch), "proposed") /\ exec[e].status = "absent"
        /\ Proposal(ownTask[t].epoch).decision = "pending"
        /\ Proposal(ownTask[t].epoch).status = "awaiting_confirmation"
    BY <1>2, <1>t, NewRows DEF Propose, Unused
  <2> QED BY <1>w, <2>1
<1>3. CASE Execute(e) /\ ownExec[e].status = "awaiting_confirmation"
  <2> DEFINE row == ownExec[e]
  <2>1. row \in ExecRow /\ phase[t] = "approved" /\ e \in mine[t] /\ HeldRow(e)
    BY <1>3, <1>t DEF Execute, Inv, RowsInv, TypeOK, HeldRows
  <2>2. row.decision # "pending"
    BY <1>t, <2>1 DEF Inv, RowsInv, OneOwnProposal
  <2>3. exec[e].decision = "pending" /\ row.decision = "consumed"
    BY <1>3, <2>1, <2>2 DEF HeldRow, Approval!Outcomes
  <2>4. \/ \E result \in Results :
             Replied(e, Completed(row, result),
                     IF result \in {"succeeded", "read"} THEN "executed" ELSE "broken")
        \/ Replied(e, RolledBack(row), "broken")
    BY <1>3 DEF Execute
  <2>5. "failed" \in Results
    BY DEF Results
  <2> HIDE DEF row
  <2> QED BY <1>r, <1>w, <2>1, <2>3, <2>4, <2>5
<1> QED BY <1>1, <1>2, <1>3

(* Who decides by message holds the call, and its consent was pending.       *)
LEMMA DecideHolds ==
  ASSUME Inv, HeldRows, NEW e \in Execs, Decide(e)
  PROVE  exec' = exec /\ HeldRows'
<1> DEFINE t == e[1]
<1>1. /\ exec' = exec /\ mine'[t] = {e} /\ \A u \in Tasks : u # t => mine'[u] = mine[u]
      /\ ownExec'[e] = Consumed(exec[e]) /\ \A f \in Execs : f # e => ownExec'[f] = ownExec[f]
  BY ExecTask DEF Decide, Inv, RowsInv, TypeOK
<1>2. /\ exec[e] \in ExecRow /\ exec[e].decision = "pending"
      /\ exec[e].status = "awaiting_confirmation"
  BY DEF Decide, Decidable, DecidableBy, Inv, RowsInv, TypeOK, RowsAreGood, Good
<1>3. HeldRow(e)'
  BY <1>1, <1>2, ExecRows DEF HeldRow
<1>4. \A u \in Tasks : \A f \in mine[u] : f \in Execs /\ f[1] = u
  BY DEF Inv, RowsInv, TypeOK, ExecsOf
<1>5. HeldRows'
  BY <1>1, <1>3, <1>4, HeldStays
<1> QED BY <1>1, <1>5

(* A step of a task commits a transaction, or leaves the committed calls.    *)
LEMMA TaskStepMoves ==
  ASSUME Inv, Inv', HeldRows, NEW t \in Tasks, TaskStep(t)
  PROVE  (Approval!Next \/ exec' = exec) /\ HeldRows'
<1>1. ASSUME NEW row, Commit(t, row) PROVE Approval!Next /\ HeldRows'
  BY <1>1, CommitMoves
<1>2. ASSUME UNCHANGED <<exec, mine, ownExec>> PROVE exec' = exec /\ HeldRows'
  BY <1>2, HeldStays
<1>3. CASE Message(t) \/ RepeatCall(t) \/ CancelRead(t) \/ CancelWrite(t) \/ Recover(t)
           \/ Lapse(t) \/ \E u \in Tasks : Resume(t, u)
  BY <1>2, <1>3 DEF Message, RepeatCall, CancelRead, CancelWrite, Recover, Lapse,
                    Resume, open
<1>4. CASE Claim(t)
  <2>1. Commit(t, ownTask[t]) \/ UNCHANGED <<exec, mine, ownExec>>
    BY <1>4 DEF Claim
  <2> QED BY <1>1, <1>2, <2>1
<1>5. CASE Finish(t)
  <2>1. \E row : Commit(t, row)
    BY <1>5 DEF Finish
  <2> QED BY <1>1, <2>1
<1>6. CASE Interrupt(t)
  BY <1>1, <1>6 DEF Interrupt
<1>7. CASE Queue(t)
  <2>1. Commit(t, task[t]) \/ UNCHANGED <<exec, mine, ownExec>>
    BY <1>7 DEF Queue
  <2> QED BY <1>1, <1>2, <2>1
<1>8. CASE Abort(t)
  <2>1. /\ exec' = exec /\ mine'[t] = {} /\ \A u \in Tasks : u # t => mine'[u] = mine[u]
        /\ \A f \in Execs : f \notin mine[t] => ownExec'[f] = ownExec[f]
    BY <1>8 DEF Abort, Close, Inv, RowsInv, TypeOK
  <2>2. \A u \in Tasks : \A f \in mine[u] : f \in Execs /\ f[1] = u
    BY DEF Inv, RowsInv, TypeOK, ExecsOf
  <2> QED BY <2>1, <2>2, HeldStays
<1> QED BY <1>3, <1>4, <1>5, <1>6, <1>7, <1>8 DEF TaskStep

(* So does a step of a call.                                                 *)
LEMMA ExecStepMoves ==
  ASSUME Inv, Inv', HeldRows, NEW e \in Execs, ExecStep(e)
  PROVE  (Approval!Next \/ exec' = exec) /\ HeldRows'
<1>1. CASE CallTool(e) \/ Propose(e)
  BY <1>1, RunsHold
<1>2. CASE Execute(e)
  <2>1. CASE ownExec[e].status = "awaiting_confirmation"
    BY <1>2, <2>1, RunsHold
  <2>2. CASE ownExec[e].status # "awaiting_confirmation"
    <3>1. Commit(e[1], ownTask[e[1]])
      BY <1>2, <2>2 DEF Execute
    <3> QED BY <3>1, ExecTask, CommitMoves
  <2> QED BY <2>1, <2>2
<1>3. CASE Decide(e)
  BY <1>3, DecideHolds
<1>4. CASE WebApprove(e) \/ RejectWrite(e)
  BY <1>4, DecisionMoves
<1>5. CASE Expire(e) \/ RejectRead(e) \/ RejectFails(e)
  BY <1>5, HeldStays DEF Expire, RejectRead, RejectFails, open
<1>6. CASE \E f \in Execs : Edit(e, f)
  BY <1>6, EditMoves
<1> QED BY <1>1, <1>2, <1>3, <1>4, <1>5, <1>6 DEF ExecStep

(* A call runs at most once and only with the consent it needs, for any       *)
(* number of tasks and calls, however turns, messages, web decisions, edits, *)
(* shutdowns, recoveries and changes of the binding meet                     *)
(* (SqlExecutionStore, ConfirmationService).                                 *)
THEOREM RefinesApproval == Spec => ImplementsApproval
<1>1. Init => Approval!Init /\ HeldRows
  <2> SUFFICES ASSUME Init PROVE Approval!Init /\ HeldRows
    OBVIOUS
  <2>1. \A e \in Execs : /\ exec[e].decision = "none" /\ exec[e].status = "absent"
                         /\ exec[e].effect = FALSE
    BY DEF Init, NoExec
  <2>2. Approval!Execs = Execs
    BY DEF Approval!Execs, Execs
  <2> QED BY <2>1, <2>2 DEF Init, Approval!Init, HeldRows
<1>2. Inv /\ Inv' /\ HeldRows /\ [Next]_vars
        => [Approval!Next]_(Approval!vars) /\ HeldRows'
  <2> SUFFICES ASSUME Inv, Inv', HeldRows, [Next]_vars
               PROVE  (Approval!Next \/ exec' = exec) /\ HeldRows'
    BY DEF Approval!vars
  <2>1. CASE UNCHANGED vars
    BY <2>1, HeldStays DEF vars
  <2>2. ASSUME NEW active \in BOOLEAN, Rebind(active)
        PROVE  exec' = exec /\ HeldRows'
    BY <2>2, HeldStays DEF Rebind, open
  <2> QED BY <2>1, <2>2, TaskStepMoves, ExecStepMoves DEF Next
<1> QED BY <1>1, <1>2, Invariance, PTL DEF Spec, ImplementsApproval, Approval!Spec

--------------------------------------------------------------------------------
(* The end of a task *)

(* Who runs has a claim, and who waits for a result keeps it                 *)
Claims ==
  \A t \in Tasks :
    /\ task[t].status \in {"running", "waiting_external"} => task[t].owned
    /\ ownTask[t].status = "running" => ownTask[t].owned

(* A step keeps the claims, and lets a task that has ended be                *)
RowsEndWell ==
  /\ Claims'
  /\ \A t \in Tasks :
       task[t].status \in Final /\ task'[t].status # task[t].status => StaleCancel(t)

(* Steps that write no task row                                              *)
LEMMA RowsStay ==
  ASSUME Claims, UNCHANGED <<task, ownTask>>
  PROVE  RowsEndWell
BY DEF Claims, RowsEndWell

(* Steps that write the row in the open transaction of one task              *)
LEMMA OwnRowMoves ==
  ASSUME Inv, Claims, NEW t \in Tasks, UNCHANGED task,
         \A u \in Tasks : u # t => ownTask'[u] = ownTask[u],
         ownTask'[t].status = "running" => ownTask'[t].owned
  PROVE  RowsEndWell
BY DEF Claims, RowsEndWell

(* Steps that write one committed row                                        *)
LEMMA TaskRowMoves ==
  ASSUME Inv, Claims, NEW t \in Tasks, UNCHANGED ownTask,
         \A u \in Tasks : u # t => task'[u] = task[u],
         task'[t].status \in {"running", "waiting_external"} => task'[t].owned,
         task[t].status \in Final /\ task'[t].status # task[t].status => StaleCancel(t)
  PROVE  RowsEndWell
BY DEF Claims, RowsEndWell

(* A commit writes the row of a task that is new or waits for its user.      *)
LEMMA CommitEndsWell ==
  ASSUME Inv, Claims, NEW t \in Tasks, NEW new, Commit(t, new),
         Locking(t) \/ new = task[t],
         new.status \in {"running", "waiting_external"} => new.owned
  PROVE  RowsEndWell
<1>1. /\ task'[t] = new /\ \A u \in Tasks : u # t => task'[u] = task[u]
      /\ ownTask'[t] = NoTask /\ \A u \in Tasks : u # t => ownTask'[u] = ownTask[u]
  BY DEF Commit, Close, Inv, RowsInv, TypeOK
<1>2. Locking(t) => task[t].status \notin Final
  BY DEF Inv, RowsInv, OpenTransactions, Final
<1>3. NoTask.status = "absent"
  BY DEF NoTask
<1>4. Claims'
  <2> SUFFICES ASSUME NEW u \in Tasks
               PROVE  /\ task'[u].status \in {"running", "waiting_external"}
                           => task'[u].owned
                      /\ ownTask'[u].status = "running" => ownTask'[u].owned
    BY DEF Claims
  <2>1. CASE u = t
    BY <1>1, <1>3, <2>1
  <2>2. CASE u # t
    BY <1>1, <2>2 DEF Claims
  <2> QED BY <2>1, <2>2
<1> QED BY <1>1, <1>2, <1>4 DEF RowsEndWell

(* What an open transaction has claimed, it commits as claimed.              *)
LEMMA OwnRowCommits ==
  ASSUME Inv, Claims, NEW t \in Tasks, Locking(t), Commit(t, ownTask[t])
  PROVE  RowsEndWell
<1>1. ownTask[t].status \in {"running", "waiting_external"} => ownTask[t].owned
  BY DEF Inv, RowsInv, OpenTransactions, Claims
<1> QED BY <1>1, CommitEndsWell

(* A turn ends: only a task that waits for a result keeps its claim.         *)
LEMMA FinishEndsWell ==
  ASSUME Inv, Claims, NEW t \in Tasks, Finish(t)
  PROVE  RowsEndWell
<1>1. PICK end \in Ends :
        /\ phase[t] = end[1]
        /\ Commit(t, Transitioned(ownTask[t], end[2])) \/ Commit(t, ownTask[t])
  BY DEF Finish
<1>2. Locking(t) /\ end[2] \in TaskStatuses /\ end[2] # "running"
  BY <1>1 DEF Ends, Locking, TaskStatuses
<1>3. ownTask[t] \in TaskRow
  BY DEF Inv, RowsInv, TypeOK
<1>4. CASE Commit(t, Transitioned(ownTask[t], end[2]))
  <2> DEFINE new == Transitioned(ownTask[t], end[2])
  <2>1. new.status = end[2]
    BY <1>2, <1>3, TransitionedRows
  <2>2. new.owned = (end[2] \in {"awaiting_input", "waiting_external"})
    BY <1>3 DEF Transitioned, TaskRow
  <2>3. new.status \in {"running", "waiting_external"} => new.owned
    BY <1>2, <2>1, <2>2
  <2> HIDE DEF new
  <2> QED BY <1>2, <1>4, <2>3, CommitEndsWell DEF new
<1>5. CASE Commit(t, ownTask[t])
  BY <1>2, <1>5, OwnRowCommits
<1> QED BY <1>1, <1>4, <1>5

(* The end of a cancellation or of a rejection moves one task.               *)
LEMMA CancelEndsWell ==
  ASSUME Inv, Claims, NEW t \in Tasks, NEW seen, UNCHANGED ownTask,
         task' = [task EXCEPT ![t] = CancelledRow(@, seen)],
         seen \notin Final => StaleCancel(t)
  PROVE  RowsEndWell
<1>1. task[t] \in TaskRow
  BY DEF Inv, RowsInv, TypeOK
<1>2. /\ task'[t] = CancelledRow(task[t], seen)
      /\ \A u \in Tasks : u # t => task'[u] = task[u]
  BY DEF Inv, RowsInv, TypeOK
<1>3. /\ task'[t].status \in {task[t].status, "cancelled", "cancel_requested"}
      /\ task'[t].owned = task[t].owned
  BY <1>1, <1>2, CancelledRows
<1>4. seen \in Final => task'[t].status = task[t].status
  BY <1>1, <1>2 DEF CancelledRow, TaskRow
<1>5. task'[t].status \in {"running", "waiting_external"} => task'[t].owned
  BY <1>3 DEF Claims
<1> QED BY <1>2, <1>4, <1>5, TaskRowMoves

(* Recovery takes the claim of a task that has not ended.                    *)
LEMMA RecoverEndsWell ==
  ASSUME Inv, Claims, NEW t \in Tasks, Recover(t)
  PROVE  RowsEndWell
<1>1. task[t] \in TaskRow
  BY DEF Inv, RowsInv, TypeOK
<1>2. /\ RecoveredStatus(t) \in TaskStatuses
      /\ RecoveredStatus(t) \notin {"running", "waiting_external"}
  BY DEF RecoveredStatus, TaskStatuses
<1>3. /\ task'[t] = Recovered(task[t], RecoveredStatus(t)) /\ UNCHANGED ownTask
      /\ \A u \in Tasks : u # t => task'[u] = task[u]
      /\ task[t].status \notin Final
  BY DEF Recover, Due, Final, open, Inv, RowsInv, TypeOK
<1>4. task'[t].status \notin {"running", "waiting_external"}
  BY <1>1, <1>2, <1>3, RecoveredRows
<1> QED BY <1>3, <1>4, TaskRowMoves

(* A task that is resumed stays as it ended; the new one is queued.          *)
LEMMA ResumeEndsWell ==
  ASSUME Inv, Claims, NEW t \in Tasks, NEW u \in Tasks, Resume(t, u)
  PROVE  RowsEndWell
<1>1. task[t] \in TaskRow /\ task[t].epoch \in Nat /\ t # u
  BY DEF Inv, RowsInv, TypeOK, TaskRow, Resume, MayResume
<1>2. /\ task'[t] = Resumed(task[t]) /\ task'[u] = Queued(task[t].epoch)
      /\ \A v \in Tasks : v # t /\ v # u => task'[v] = task[v]
      /\ UNCHANGED ownTask /\ task[u].status = "absent"
  BY <1>1 DEF Resume, open, Inv, RowsInv, TypeOK
<1>3. /\ task'[t].status = task[t].status /\ task'[t].owned = task[t].owned
      /\ task'[u].status = "queued"
  BY <1>1, <1>2, TaskRows, NewRows
<1>4. Claims'
  BY <1>2, <1>3 DEF Claims
<1> QED BY <1>2, <1>3, <1>4 DEF RowsEndWell, Final

(* Every step ends tasks well.                                               *)
LEMMA StepsEndWell ==
  ASSUME Inv, Claims, [Next]_vars
  PROVE  RowsEndWell
<1>1. ASSUME NEW t \in Tasks, TaskStep(t) PROVE RowsEndWell
  <2>t. task[t] \in TaskRow /\ ownTask[t] \in TaskRow /\ binding.epoch \in Nat
    BY DEF Inv, RowsInv, TypeOK
  <2>1. CASE RepeatCall(t) \/ CancelRead(t) \/ Lapse(t)
    BY <2>1, RowsStay DEF RepeatCall, CancelRead, Lapse, open
  <2>2. CASE Message(t)
    <3>1. /\ UNCHANGED task /\ ownTask'[t] = Queued(binding.epoch)
          /\ \A u \in Tasks : u # t => ownTask'[u] = ownTask[u]
      BY <2>2 DEF Message, Inv, RowsInv, TypeOK
    <3>2. ownTask'[t].status = "queued"
      BY <2>t, <3>1, NewRows
    <3> QED BY <3>1, <3>2, OwnRowMoves
  <2>3. CASE Claim(t)
    <3>1. CASE /\ ownTask' = [ownTask EXCEPT ![t] = Claimed(@)] /\ UNCHANGED task
      <4>1. /\ ownTask'[t] = Claimed(ownTask[t])
            /\ \A u \in Tasks : u # t => ownTask'[u] = ownTask[u]
        BY <3>1 DEF Inv, RowsInv, TypeOK
      <4>2. ownTask'[t].owned
        BY <2>t, <4>1, TaskRows
      <4> QED BY <3>1, <4>1, <4>2, OwnRowMoves
    <3>2. CASE Commit(t, ownTask[t])
      <4>1. Locking(t)
        BY <2>3 DEF Claim, Locking
      <4> QED BY <3>2, <4>1, OwnRowCommits
    <3> QED BY <2>3, <3>1, <3>2 DEF Claim
  <2>4. CASE Finish(t)
    BY <2>4, FinishEndsWell
  <2>5. CASE Interrupt(t)
    <3>1. Locking(t) /\ Commit(t, ownTask[t])
      BY <2>5 DEF Interrupt, Locking
    <3> QED BY <3>1, OwnRowCommits
  <2>6. CASE Abort(t)
    <3>1. /\ UNCHANGED task /\ ownTask'[t] = NoTask
          /\ \A u \in Tasks : u # t => ownTask'[u] = ownTask[u]
      BY <2>6 DEF Abort, Close, Inv, RowsInv, TypeOK
    <3>2. NoTask.status = "absent"
      BY DEF NoTask
    <3> QED BY <3>1, <3>2, OwnRowMoves
  <2>7. CASE Queue(t)
    <3>1. CASE /\ ownTask' = [ownTask EXCEPT ![t] = QueuedAgain(task[t])]
               /\ UNCHANGED task
      <4>1. /\ ownTask'[t] = QueuedAgain(task[t])
            /\ \A u \in Tasks : u # t => ownTask'[u] = ownTask[u]
        BY <3>1 DEF Inv, RowsInv, TypeOK
      <4>2. ownTask'[t].status = "queued"
        BY <2>t, <4>1, TaskRows
      <4> QED BY <3>1, <4>1, <4>2, OwnRowMoves
    <3>2. CASE Commit(t, task[t])
      <4>1. task[t].status \in {"running", "waiting_external"} => task[t].owned
        BY DEF Claims
      <4> QED BY <3>2, <4>1, CommitEndsWell
    <3> QED BY <2>7, <3>1, <3>2 DEF Queue
  <2>8. CASE CancelWrite(t)
    <3>1. cancel[t] \notin Final => StaleCancel(t)
      BY <2>8 DEF CancelWrite, StaleCancel, Inv, RowsInv, TypeOK
    <3> QED BY <2>8, <3>1, CancelEndsWell DEF CancelWrite, open
  <2>9. CASE Recover(t)
    BY <2>9, RecoverEndsWell
  <2>10. CASE \E u \in Tasks : Resume(t, u)
    BY <2>10, ResumeEndsWell
  <2> QED BY <1>1, <2>1, <2>2, <2>3, <2>4, <2>5, <2>6, <2>7, <2>8, <2>9, <2>10
          DEF TaskStep
<1>2. ASSUME NEW e \in Execs, ExecStep(e) PROVE RowsEndWell
  <2> DEFINE t == e[1]
  <2>t. t \in Tasks /\ task[t] \in TaskRow
    BY ExecTask DEF Inv, RowsInv, TypeOK
  <2>1. CASE \/ CallTool(e) \/ Propose(e) \/ Decide(e) \/ Expire(e)
             \/ RejectRead(e) \/ RejectFails(e)
             \/ \E f \in Execs : Edit(e, f)
    BY <2>1, RowsStay DEF CallTool, Propose, Replied, Decide, Expire, RejectRead,
                          RejectFails, Edit, open
  <2>2. CASE Execute(e)
    <3>1. Locking(t)
      BY <2>2 DEF Execute, Locking
    <3>2. Commit(t, ownTask[t]) \/ UNCHANGED <<task, ownTask>>
      BY <2>2 DEF Execute, Replied
    <3> QED BY <2>t, <3>1, <3>2, OwnRowCommits, RowsStay
  <2>3. CASE WebApprove(e)
    <3>1. /\ task'[t] = QueuedAgain(task[t]) /\ UNCHANGED ownTask
          /\ \A u \in Tasks : u # t => task'[u] = task[u]
          /\ task[t].status = "awaiting_confirmation"
      BY <2>t, <2>3 DEF WebApprove, CanQueue, open, Inv, RowsInv, TypeOK
    <3>2. task'[t].status = "queued"
      BY <2>t, <3>1, TaskRows
    <3> QED BY <2>t, <3>1, <3>2, TaskRowMoves DEF Final
  <2>4. CASE RejectWrite(e)
    <3>1. task' = [task EXCEPT ![t] = CancelledRow(@, rejecting[e])] /\ UNCHANGED ownTask
      BY <2>4 DEF RejectWrite, open
    <3>2. rejecting[e] \notin Final => StaleCancel(t)
      BY <2>t, <2>4 DEF RejectWrite, StaleCancel, ExecsOf, Inv, RowsInv, TypeOK
    <3> QED BY <2>t, <3>1, <3>2, CancelEndsWell
  <2> QED BY <1>2, <2>1, <2>2, <2>3, <2>4 DEF ExecStep
<1>3. ASSUME NEW active \in BOOLEAN, Rebind(active) PROVE RowsEndWell
  BY <1>3, RowsStay DEF Rebind, open
<1>4. CASE UNCHANGED vars
  BY <1>4, RowsStay DEF vars
<1> QED BY <1>1, <1>2, <1>3, <1>4 DEF Next

(* Claims hold at the start and are kept.                                    *)
LEMMA ClaimsAlways == Spec => []Claims
<1>1. Init => Claims
  BY DEF Init, Claims, NoTask
<1>2. Inv /\ Claims /\ [Next]_vars => Claims'
  BY StepsEndWell DEF RowsEndWell
<1> QED BY <1>1, <1>2, Invariance, PTL DEF Spec

(* Recovery finds every task that is left running, waits for a result or is  *)
(* to be cancelled, at the latest when its lease ends                        *)
(* (agent_task_recovery_queue).                                              *)
THEOREM RecoveryFindsAll == Spec => []UnsettledIsRecoverable
<1>1. Claims => UnsettledIsRecoverable
  BY DEF Claims, UnsettledIsRecoverable, Unsettled, Due
<1> QED BY <1>1, ClaimsAlways, PTL

(* No turn, approval, edit or recovery writes over a task that has ended;    *)
(* only the end of a cancellation or of a rejection does, one that had read  *)
(* the task when it was still open (request_cancel).                         *)
THEOREM EndedTasksStay == Spec => OnlyStaleCancellationsReopen
<1>1. Inv /\ Claims /\ [Next]_vars =>
        [\A t \in Tasks :
           task[t].status \in Final /\ task'[t].status # task[t].status =>
             StaleCancel(t)]_vars
  BY StepsEndWell DEF RowsEndWell
<1> QED BY <1>1, ClaimsAlways, Invariance, PTL DEF Spec, OnlyStaleCancellationsReopen
================================================================================
