------------------------------ MODULE TaskRuntime ------------------------------
(***************************************************************************)
(* Control of one AI task after its acceptance: requests to cancel and to  *)
(* re-execute it (ai_runtime/control.py), each in one READ COMMITTED       *)
(* transaction, and the log of events that they append to.  No code moves  *)
(* a task to another status than accepted and cancelled, so resume and     *)
(* system_failure_retry always answer ACTION_NOT_ALLOWED.                  *)
(***************************************************************************)
EXTENDS Integers, Sequences

CONSTANTS
  Handlers,   \* requests that are handled at the same time
  None,       \* no handler
  MaxEvents   \* bound: requests begin while there are fewer events

ASSUME TaskRuntimeAssumption == None \notin Handlers /\ MaxEvents \in Nat

VARIABLES
  status,      \* AITask.status,
  version,     \* its task_version
  current,     \* and its current_execution_id
  executions,  \* execution_no of the executions; their dispatch intents go with them
  events,      \* AITaskEvent by sequence
  pc,          \* where each handler is
  goal,        \* the action that it was asked for
  copy,        \* the task as it read it
  number,      \* the execution that it creates
  last,        \* the last sequence that it found
  row_lock     \* the handler whose transaction has updated the task

rows    == <<status, version, current, executions, events>>
private == <<pc, goal, copy, number, last, row_lock>>
vars    == <<rows, private>>

Actions == {"cancel", "reexecute"}
Statuses == {"accepted", "cancelled"}

(* TERMINAL_STATUSES *)
Terminal == {"cancelled"}

(* available_actions_for *)
Available(s) == IF s \in Terminal THEN {"reexecute"} ELSE {"cancel"}

(* The status that an action leads to *)
Target(action) == IF action = "cancel" THEN "cancelled" ELSE "accepted"

NoCopy == [version |-> 0, current |-> 0]

(* An accepted task *)
Init ==
  /\ status = "accepted"
  /\ version = 1
  /\ current = 1
  /\ executions = {1}
  /\ events = [i \in {1} |-> [action |-> "accept", to |-> "accepted", execution |-> 1]]
  /\ pc = [h \in Handlers |-> "idle"]
  /\ goal = [h \in Handlers |-> "cancel"]
  /\ copy = [h \in Handlers |-> NoCopy]
  /\ number = [h \in Handlers |-> 0]
  /\ last = [h \in Handlers |-> 0]
  /\ row_lock = None

--------------------------------------------------------------------------------
(* The end of a transaction *)

(* Mutant of Release: the row stays locked *)
ReleaseKeepsLock(h) ==
  /\ pc' = [pc EXCEPT ![h] = "idle"]
  /\ goal' = [goal EXCEPT ![h] = "cancel"]
  /\ copy' = [copy EXCEPT ![h] = NoCopy]
  /\ number' = [number EXCEPT ![h] = 0]
  /\ last' = [last EXCEPT ![h] = 0]
  /\ UNCHANGED row_lock

Release(h) ==
  /\ pc' = [pc EXCEPT ![h] = "idle"]
  /\ goal' = [goal EXCEPT ![h] = "cancel"]
  /\ copy' = [copy EXCEPT ![h] = NoCopy]
  /\ number' = [number EXCEPT ![h] = 0]
  /\ last' = [last EXCEPT ![h] = 0]
  /\ row_lock' = IF row_lock = h THEN None ELSE row_lock

(* Rolled back: an exception, a lost connection, the death of the process *)
Abort(h) ==
  /\ pc[h] # "idle"
  /\ Release(h)
  /\ UNCHANGED rows

--------------------------------------------------------------------------------
(* The statements of a request *)

Goto(h, next) == pc' = [pc EXCEPT ![h] = next]

(* The task is read without a lock.  Its version and its actions are compared *)
(* with the request here, and again in transition_task, which sees the same   *)
(* object of the session.  A request that does not fit writes nothing.        *)
Load(h, action) ==
  /\ pc[h] = "idle"
  /\ action \in Available(status)
  /\ \A i \in DOMAIN events : i < MaxEvents
  /\ goal' = [goal EXCEPT ![h] = action]
  /\ copy' = [copy EXCEPT ![h] = [version |-> version, current |-> current]]
  /\ Goto(h, IF action = "reexecute" THEN "number" ELSE "list")
  /\ UNCHANGED <<rows, number, last, row_lock>>

Newest(numbers) == CHOOSE n \in numbers : \A m \in numbers : m <= n

(* _next_execution_no *)
NextNumber(h) == Newest(executions) + 1

(* The largest number is read, the next one will be inserted *)
ReadNumber(h) ==
  /\ pc[h] = "number"
  /\ number' = [number EXCEPT ![h] = NextNumber(h)]
  /\ Goto(h, "insert")
  /\ UNCHANGED <<rows, goal, copy, last, row_lock>>

(* A transaction that has inserted the number is still open *)
Inserting(n) == \E h \in Handlers : number[h] = n /\ pc[h] \in {"list", "flush", "commit"}

(* Mutant of NumberIsFree: uq_ai_executions_task_no is missing *)
NumberIsFreeAlways(n) == TRUE

(* uq_ai_executions_task_no *)
NumberIsFree(n) == n \notin executions

(* The INSERT waits for other transactions that have inserted the number, and *)
(* fails when one of them has committed                                       *)
InsertExecution(h) ==
  /\ pc[h] = "insert"
  /\ NumberIsFree(number[h]) /\ ~Inserting(number[h])
  /\ Goto(h, "list")
  /\ UNCHANGED <<rows, goal, copy, number, last, row_lock>>

(* append_event reads the sequences.  The session does not flush before a     *)
(* query, so the task is still as others have left it.                        *)
ListSequences(h) ==
  /\ pc[h] = "list"
  /\ last' = [last EXCEPT ![h] = Newest(DOMAIN events)]
  /\ Goto(h, "flush")
  /\ UNCHANGED <<rows, goal, copy, number, row_lock>>

(* uq_ai_task_events_sequence *)
SequenceIsFree(n) == n \notin DOMAIN events

(* One flush updates the task, which waits for the lock of its row, and       *)
(* inserts the event                                                          *)
Flush(h) ==
  /\ pc[h] = "flush"
  /\ row_lock = None
  /\ SequenceIsFree(last[h] + 1)
  /\ row_lock' = h
  /\ Goto(h, "commit")
  /\ UNCHANGED <<rows, goal, copy, number, last>>

(* IntegrityError, which nothing catches *)
Collide(h) ==
  /\ \/ pc[h] = "insert" /\ ~NumberIsFree(number[h])
     \/ pc[h] = "flush" /\ row_lock = None /\ ~SequenceIsFree(last[h] + 1)
  /\ Release(h)
  /\ UNCHANGED rows

(* The event that a request appends; a cancellation names the execution that  *)
(* was current when it read the task                                          *)
NewEvent(h) ==
  [action    |-> goal[h],
   to        |-> Target(goal[h]),
   execution |-> IF goal[h] = "reexecute" THEN number[h] ELSE copy[h].current]

(* Mutant of Appended: nothing is logged for a task that was read too early *)
AppendedIfFresh(h) ==
  [i \in DOMAIN events \cup {j \in {last[h] + 1} : copy[h].version = version} |->
     IF i = last[h] + 1 THEN NewEvent(h) ELSE events[i]]

Appended(h) ==
  [i \in DOMAIN events \cup {last[h] + 1} |->
     IF i = last[h] + 1 THEN NewEvent(h) ELSE events[i]]

(* The values that were computed from the copy become visible, over what was  *)
(* committed since; a new execution has its dispatch intent                   *)
Commit(h) ==
  /\ pc[h] = "commit"
  /\ status' = Target(goal[h])
  /\ version' = copy[h].version + 1
  /\ events' = Appended(h)
  /\ IF goal[h] = "reexecute"
       THEN current' = number[h] /\ executions' = executions \cup {number[h]}
       ELSE UNCHANGED <<current, executions>>
  /\ Release(h)

--------------------------------------------------------------------------------

Step(h) ==
  \/ ReadNumber(h) \/ InsertExecution(h) \/ ListSequences(h) \/ Flush(h)
  \/ Collide(h) \/ Commit(h)

Next ==
  \E h \in Handlers :
    \/ \E action \in Actions : Load(h, action)
    \/ Step(h)
    \/ Abort(h)

Spec == Init /\ [][Next]_vars

--------------------------------------------------------------------------------
(* Properties *)

(* The log has no gaps, however many requests append to it at once, and its   *)
(* last event names the status of the task, even when a request that had read *)
(* the task too early has overwritten a newer one.                            *)
EventsTellTheTask ==
  /\ DOMAIN events = 1 .. Newest(DOMAIN events)
  /\ events[Newest(DOMAIN events)].to = status
  /\ version \in DOMAIN events

Reexecutions == {i \in DOMAIN events : events[i].action = "reexecute"}

(* The current execution is the newest one; executions are numbered in the    *)
(* order of the events that created them, one event each.                     *)
NewestExecutionIsCurrent ==
  /\ executions = 1 .. current
  /\ \A n \in 2 .. current : \E i \in Reexecutions : events[i].execution = n
  /\ \A i, j \in Reexecutions : i < j => events[i].execution < events[j].execution
================================================================================
