---------------------------- MODULE TaskPageProofs ----------------------------
(***************************************************************************)
(* Proofs about TaskRuntime and TaskPage, for any number of requests, any  *)
(* size of a page and logs of any length.                                  *)
(***************************************************************************)
EXTENDS TaskPage, FiniteSetTheorems, TLAPS

(* The number of events *)
Top == Newest(DOMAIN events)

(* The handler has inserted an execution and not committed it *)
Inserted(h) == goal[h] = "reexecute" /\ pc[h] \in {"list", "flush", "commit"}

LogInv == Top \in Nat \ {0} /\ EventsTellTheTask

(* What a handler has read is not newer than what is committed; the one with  *)
(* the lock of the task has read the whole log                                *)
RequestInv ==
  \A h \in Handlers :
    /\ pc[h] \in {"number", "insert"} => goal[h] = "reexecute"
    /\ pc[h] # "idle" => copy[h].version \in 1 .. Top
    /\ pc[h] = "flush" => last[h] \in 1 .. Top
    /\ pc[h] = "commit" => last[h] = Top

(* One execution at a time is inserted, and it is the next one *)
ExecutionInv ==
  /\ NewestExecutionIsCurrent
  /\ current >= 1
  /\ \A i \in Reexecutions : events[i].execution <= current
  /\ \A h \in Handlers : pc[h] = "insert" => number[h] \in 2 .. current + 1
  /\ \A h \in Handlers : Inserted(h) => number[h] = current + 1
  /\ \A g, h \in Handlers : Inserted(g) /\ Inserted(h) => g = h

Ended(set) == \E i \in set : events[i].to \in Terminal

(* The page has read what is committed *)
PageReads ==
  /\ shown \subseteq DOMAIN events /\ cache.events \subseteq DOMAIN events
  /\ cursor <= Top /\ cache.next <= Top /\ fetch.after <= Top
  /\ cache.terminal => cache.next # 0
  /\ (fetch.phase = "task read" /\ fetch.terminal) => Ended(DOMAIN events)

(* It shows all before the request that is under way, and all before its      *)
(* cursor unless that request starts anew                                     *)
PageShows ==
  (open /\ ~interrupted) =>
    /\ ~Behind => 1 .. cursor \subseteq shown
    /\ fetch.phase # "none" => 1 .. fetch.after \subseteq shown
    /\ (~Behind /\ cache.terminal /\ ~Full(cache)) => Ended(shown)

PageInv == PageReads /\ PageShows

IInv == TypeOK /\ LogInv /\ RequestInv /\ ExecutionInv /\ PageInv

USE TaskRuntimeAssumption, TaskPageAssumption

--------------------------------------------------------------------------------
(* The log *)

(* The newest of the first n numbers is n *)
LEMMA NewestOfLog == ASSUME NEW n \in Nat, n >= 1 PROVE Newest(1 .. n) = n
<1>1. n \in 1 .. n /\ \A m \in 1 .. n : m <= n
  OBVIOUS
<1>2. \A k \in 1 .. n : (\A m \in 1 .. n : m <= k) => k = n
  OBVIOUS
<1> QED
  BY <1>1, <1>2 DEF Newest

(* A commit adds one event after those there were *)
LEMMA CommitExtends ==
  ASSUME IInv, NEW h \in Handlers, Commit(h)
  PROVE  /\ DOMAIN events = 1 .. Top /\ DOMAIN events' = 1 .. (Top + 1)
         /\ Top' = Top + 1
         /\ \A i \in 1 .. Top : events'[i] = events[i]
         /\ events'[Top + 1] = NewEvent(h)
<1>1. Top \in Nat /\ Top >= 1 /\ DOMAIN events = 1 .. Top /\ last[h] = Top
  BY DEF IInv, LogInv, EventsTellTheTask, Top, RequestInv, Commit
<1> DEFINE top == Top
<1> HIDE DEF top
<1>2. top \in Nat /\ top >= 1 /\ DOMAIN events = 1 .. top
  BY <1>1 DEF top
<1>3. events' = [i \in 1 .. top \cup {top + 1} |-> IF i = top + 1 THEN NewEvent(h) ELSE events[i]]
  BY <1>1 DEF Commit, Appended, top
<1>4. 1 .. top \cup {top + 1} = 1 .. (top + 1)
  BY <1>2
<1>5. DOMAIN events' = 1 .. (top + 1)
  BY <1>3, <1>4
<1>6. \A i \in 1 .. top : events'[i] = events[i]
  BY <1>2, <1>3
<1>7. events'[top + 1] = NewEvent(h)
  BY <1>3
<1>8. Top' = top + 1
  BY <1>2, <1>5, NewestOfLog DEF Top
<1> QED
  BY <1>1, <1>5, <1>6, <1>7, <1>8 DEF top

(* The other steps of a handler leave the rows alone *)
LEMMA RowsStay ==
  ASSUME NEW h \in Handlers,
         \/ \E action \in Actions : Load(h, action)
         \/ ReadNumber(h) \/ InsertExecution(h) \/ ListSequences(h) \/ Flush(h)
         \/ Collide(h) \/ Abort(h)
  PROVE  UNCHANGED rows
BY DEF Load, ReadNumber, InsertExecution, ListSequences, Flush, Collide, Abort

--------------------------------------------------------------------------------
(* The initial states *)

(* Types of the handlers' variables alone *)
HandlerTypes ==
  /\ pc \in [Handlers -> {"idle", "number", "insert", "list", "flush", "commit"}]
  /\ goal \in [Handlers -> Actions]
  /\ copy \in [Handlers -> [version: Nat, current: Nat]]
  /\ number \in [Handlers -> Nat]
  /\ last \in [Handlers -> Nat]
  /\ row_lock \in Handlers \cup {None}
  /\ \A h \in Handlers : pc[h] = "commit" <=> row_lock = h

(* The invariant holds when the task has been accepted and no page is open *)
LEMMA InitInv == PageInit => IInv
<1> SUFFICES ASSUME PageInit PROVE IInv
  OBVIOUS
<1>0. Init
  BY DEF PageInit
<1>1. DOMAIN events = 1 .. 1 /\ events[1] = [action |-> "accept", to |-> "accepted", execution |-> 1]
  BY <1>0 DEF Init
<1>2. Top = 1
  <2>1. Newest(1 .. 1) = 1
    BY NewestOfLog
  <2> QED
    BY <1>1, <2>1 DEF Top
<1>3. TypeOK
  <2>1. /\ status \in Statuses /\ version \in Nat /\ current \in Nat
        /\ executions \in SUBSET Nat
    BY <1>0 DEF Init, Statuses
  <2>2. HandlerTypes
    BY <1>0 DEF Init, HandlerTypes, Actions, NoCopy
  <2>3. /\ DOMAIN events \subseteq Nat
        /\ \A i \in DOMAIN events :
             events[i] \in [action: Actions \cup {"accept"}, to: Statuses, execution: Nat]
    <3>1. events[1] \in [action: Actions \cup {"accept"}, to: Statuses, execution: Nat]
      BY <1>1 DEF Statuses
    <3>2. \A i \in 1 .. 1 : i = 1
      OBVIOUS
    <3> QED
      BY <1>1, <3>1, <3>2
  <2>4. /\ open \in BOOLEAN /\ interrupted \in BOOLEAN
        /\ shown \in SUBSET Nat /\ cursor \in Nat
        /\ cache \in [events: SUBSET Nat, next: Nat, terminal: BOOLEAN]
        /\ fetch \in [phase: {"none", "sent", "task read"}, after: Nat, attempt: 0 .. 2,
                      terminal: BOOLEAN]
    <3>1. /\ open = FALSE /\ interrupted = FALSE /\ shown = {} /\ cursor = 0
          /\ cache = [events |-> {}, next |-> 0, terminal |-> FALSE]
          /\ fetch = [phase |-> "none", after |-> 0, attempt |-> 0, terminal |-> FALSE]
      BY DEF PageInit, NoPage, NoFetch
    <3>2. {} \in SUBSET Nat /\ 0 \in Nat /\ 0 \in 0 .. 2
      OBVIOUS
    <3>3. cache \in [events: SUBSET Nat, next: Nat, terminal: BOOLEAN]
      BY <3>1, <3>2
    <3>4. fetch \in [phase: {"none", "sent", "task read"}, after: Nat, attempt: 0 .. 2,
                     terminal: BOOLEAN]
      BY <3>1, <3>2
    <3> QED
      BY <3>1, <3>2, <3>3, <3>4
  <2> QED
    BY <2>1, <2>2, <2>3, <2>4 DEF TypeOK, HandlerTypes
<1>4. LogInv
  BY <1>0, <1>1, <1>2 DEF LogInv, EventsTellTheTask, Top, Init
<1>5. RequestInv
  BY <1>0 DEF Init, RequestInv
<1>6. Reexecutions = {}
  BY <1>1 DEF Reexecutions
<1>7. ExecutionInv
  BY <1>0, <1>6 DEF Init, ExecutionInv, NewestExecutionIsCurrent, Inserted
<1>8. PageInv
  BY <1>2 DEF PageInit, PageInv, PageReads, PageShows, NoPage, NoFetch
<1> QED
  BY <1>3, <1>4, <1>5, <1>7, <1>8 DEF IInv

--------------------------------------------------------------------------------
(* Types *)

(* The end of a transaction keeps the types *)
LEMMA ReleaseTypes ==
  ASSUME HandlerTypes, NEW h \in Handlers, Release(h) PROVE HandlerTypes'
<1>1. \A g \in Handlers : pc'[g] = IF g = h THEN "idle" ELSE pc[g]
  BY DEF HandlerTypes, Release
<1>2. \A g \in Handlers : pc'[g] = "commit" <=> row_lock' = g
  BY <1>1 DEF HandlerTypes, Release
<1> QED
  BY <1>2 DEF HandlerTypes, Release, Actions, NoCopy

(* The numbers that a handler computes are natural *)
LEMMA NumbersAreNatural == IInv => Top \in Nat /\ Newest(executions) \in Nat
<1> SUFFICES ASSUME IInv PROVE Top \in Nat /\ Newest(executions) \in Nat
  OBVIOUS
<1>1. current \in Nat /\ current >= 1 /\ executions = 1 .. current
  BY DEF IInv, TypeOK, ExecutionInv, NewestExecutionIsCurrent
<1> QED
  BY <1>1, NewestOfLog DEF IInv, LogInv

(* A step of a handler keeps the types *)
LEMMA StepTypes ==
  ASSUME IInv, NEW h \in Handlers,
         (\E action \in Actions : Load(h, action)) \/ Step(h) \/ Abort(h), UNCHANGED page
  PROVE  TypeOK'
<1>0. HandlerTypes /\ TypeOK
  BY DEF IInv, TypeOK, HandlerTypes
<1>1. Top \in Nat /\ Newest(executions) \in Nat
  BY NumbersAreNatural
<1>2. HandlerTypes'
  <2>1. ASSUME NEW action \in Actions, Load(h, action) PROVE HandlerTypes'
    <3>1. \A g \in Handlers : pc'[g] = "commit" <=> row_lock' = g
      BY <1>0, <2>1 DEF Load, Goto, HandlerTypes
    <3> QED
      BY <1>0, <2>1, <3>1 DEF Load, Goto, HandlerTypes, TypeOK
  <2>2. CASE ReadNumber(h)
    <3>1. \A g \in Handlers : pc'[g] = "commit" <=> row_lock' = g
      BY <1>0, <2>2 DEF ReadNumber, Goto, HandlerTypes
    <3> QED
      BY <1>0, <1>1, <2>2, <3>1 DEF ReadNumber, Goto, NextNumber, HandlerTypes
  <2>3. CASE InsertExecution(h)
    <3>1. \A g \in Handlers : pc'[g] = "commit" <=> row_lock' = g
      BY <1>0, <2>3 DEF InsertExecution, Goto, HandlerTypes
    <3> QED
      BY <1>0, <2>3, <3>1 DEF InsertExecution, Goto, HandlerTypes
  <2>4. CASE ListSequences(h)
    <3>1. \A g \in Handlers : pc'[g] = "commit" <=> row_lock' = g
      BY <1>0, <2>4 DEF ListSequences, Goto, HandlerTypes
    <3> QED
      BY <1>0, <1>1, <2>4, <3>1 DEF ListSequences, Goto, HandlerTypes, Top
  <2>5. CASE Flush(h)
    <3>1. \A g \in Handlers : pc'[g] = "commit" <=> row_lock' = g
      BY <1>0, <2>5 DEF Flush, Goto, HandlerTypes
    <3> QED
      BY <1>0, <2>5, <3>1 DEF Flush, Goto, HandlerTypes
  <2>6. CASE Collide(h) \/ Commit(h) \/ Abort(h)
    BY <1>0, <2>6, ReleaseTypes DEF Collide, Commit, Abort
  <2> QED
    BY <2>1, <2>2, <2>3, <2>4, <2>5, <2>6 DEF Step
<1>3. CASE Commit(h)
  <2>1. pc[h] = "commit" /\ goal[h] \in Actions /\ copy[h] \in [version: Nat, current: Nat] /\ number[h] \in Nat
    BY <1>0, <1>3 DEF HandlerTypes, Commit
  <2>2. Target(goal[h]) \in Statuses
    BY DEF Target, Statuses
  <2>3. NewEvent(h) \in [action: Actions \cup {"accept"}, to: Statuses, execution: Nat]
    BY <2>1, <2>2 DEF NewEvent
  <2>4. /\ DOMAIN events' \subseteq Nat
        /\ \A i \in DOMAIN events' :
             events'[i] \in [action: Actions \cup {"accept"}, to: Statuses, execution: Nat]
    <3>1. /\ DOMAIN events = 1 .. Top /\ DOMAIN events' = 1 .. (Top + 1)
          /\ \A i \in 1 .. Top : events'[i] = events[i]
          /\ events'[Top + 1] = NewEvent(h)
      BY <1>3, CommitExtends
    <3> DEFINE top == Top
               E == [action: Actions \cup {"accept"}, to: Statuses, execution: Nat]
    <3>2. \A i \in 1 .. top : events'[i] \in E
      BY <1>0, <3>1 DEF TypeOK
    <3>3. events'[top + 1] \in E /\ DOMAIN events' = 1 .. (top + 1) /\ top \in Nat
      BY <1>1, <2>3, <3>1
    <3> HIDE DEF top, E
    <3>4. DOMAIN events' \subseteq Nat /\ \A i \in DOMAIN events' : events'[i] \in E
      BY <3>2, <3>3
    <3> QED
      BY <3>4 DEF E
  <2>5. status' \in Statuses /\ version' \in Nat
    BY <1>3, <2>1, <2>2 DEF Commit
  <2>6. current' \in Nat /\ executions' \in SUBSET Nat
    <3>0. current \in Nat /\ executions \in SUBSET Nat
      BY <1>0 DEF TypeOK
    <3>1. CASE goal[h] = "reexecute"
      <4>1. current' = number[h] /\ executions' = executions \cup {number[h]}
        BY <1>3, <3>1 DEF Commit
      <4> QED
        BY <2>1, <3>0, <4>1
    <3>2. CASE goal[h] # "reexecute"
      BY <1>3, <3>0, <3>2 DEF Commit
    <3> QED
      BY <3>1, <3>2
  <2> QED
    BY <1>0, <1>2, <2>4, <2>5, <2>6 DEF TypeOK, HandlerTypes, page
<1>4. CASE UNCHANGED rows
  BY <1>0, <1>2, <1>4 DEF TypeOK, HandlerTypes, page, rows
<1> QED
  BY <1>3, <1>4, RowsStay DEF Step

--------------------------------------------------------------------------------
(* Appending to the log *)

(* A version of the task is never ahead of its log: a request that has read   *)
(* the task early writes a version that the log has passed                    *)
LEMMA StepLog ==
  ASSUME IInv, NEW h \in Handlers,
         (\E action \in Actions : Load(h, action)) \/ Step(h) \/ Abort(h)
  PROVE  LogInv'
<1>1. CASE Commit(h)
  <2>1. /\ DOMAIN events' = 1 .. (Top + 1) /\ Top' = Top + 1
        /\ events'[Top + 1] = NewEvent(h)
    BY <1>1, CommitExtends
  <2>2. Top \in Nat /\ Top >= 1 /\ copy[h].version \in 1 .. Top
    BY <1>1 DEF IInv, LogInv, RequestInv, Commit
  <2>3. events'[Top'].to = status'
    BY <1>1, <2>1 DEF NewEvent, Commit
  <2>4. version' \in DOMAIN events'
    BY <1>1, <2>1, <2>2 DEF Commit
  <2> QED
    BY <2>1, <2>2, <2>3, <2>4 DEF LogInv, EventsTellTheTask, Top
<1>2. CASE UNCHANGED rows
  BY <1>2 DEF IInv, LogInv, EventsTellTheTask, Top, rows
<1> QED
  BY <1>1, <1>2, RowsStay DEF Step

--------------------------------------------------------------------------------
(* What the handlers have read *)

(* The end of a transaction, in terms of every handler *)
LEMMA Released ==
  ASSUME HandlerTypes, NEW h \in Handlers, Release(h), NEW g \in Handlers
  PROVE  /\ g # h => pc'[g] = pc[g] /\ goal'[g] = goal[g] /\ copy'[g] = copy[g]
                     /\ number'[g] = number[g] /\ last'[g] = last[g]
         /\ g = h => pc'[g] = "idle"
BY DEF HandlerTypes, Release

(* A step keeps what is known of the handlers' copies *)
LEMMA StepRequests ==
  ASSUME IInv, NEW h \in Handlers,
         (\E action \in Actions : Load(h, action)) \/ Step(h) \/ Abort(h)
  PROVE  RequestInv'
<1>0. HandlerTypes /\ RequestInv /\ Top \in Nat /\ Top >= 1 /\ version \in 1 .. Top
  <2>1. HandlerTypes
    BY DEF IInv, TypeOK, HandlerTypes
  <2>2. RequestInv /\ Top \in Nat /\ Top >= 1
    BY DEF IInv, LogInv
  <2>3. version \in DOMAIN events /\ DOMAIN events = 1 .. Top
    BY DEF IInv, LogInv, EventsTellTheTask, Top
  <2> QED
    BY <2>1, <2>2, <2>3
<1> SUFFICES ASSUME NEW g \in Handlers
             PROVE  /\ pc'[g] \in {"number", "insert"} => goal'[g] = "reexecute"
                    /\ pc'[g] # "idle" => copy'[g].version \in 1 .. Top'
                    /\ pc'[g] = "flush" => last'[g] \in 1 .. Top'
                    /\ pc'[g] = "commit" => last'[g] = Top'
  BY DEF RequestInv
<1>1. /\ pc[g] \in {"number", "insert"} => goal[g] = "reexecute"
      /\ pc[g] # "idle" => copy[g].version \in 1 .. Top
      /\ pc[g] = "flush" => last[g] \in 1 .. Top
      /\ pc[g] = "commit" => last[g] = Top
  BY <1>0 DEF RequestInv
<1>2. UNCHANGED rows => Top' = Top
  BY DEF Top, rows
<1>3. ASSUME NEW action \in Actions, Load(h, action)
      PROVE  /\ pc'[g] \in {"number", "insert"} => goal'[g] = "reexecute"
             /\ pc'[g] # "idle" => copy'[g].version \in 1 .. Top'
             /\ pc'[g] = "flush" => last'[g] \in 1 .. Top'
             /\ pc'[g] = "commit" => last'[g] = Top'
  <2>1. Top' = Top
    BY <1>2, <1>3 DEF Load
  <2>2. CASE g = h
    BY <1>0, <1>3, <2>1, <2>2 DEF Load, Goto, HandlerTypes
  <2>3. CASE g # h
    BY <1>0, <1>1, <1>3, <2>1, <2>3 DEF Load, Goto, HandlerTypes
  <2> QED
    BY <2>2, <2>3
<1>4. CASE ReadNumber(h)
  BY <1>0, <1>1, <1>2, <1>4 DEF ReadNumber, Goto, HandlerTypes
<1>5. CASE InsertExecution(h)
  BY <1>0, <1>1, <1>2, <1>5 DEF InsertExecution, Goto, HandlerTypes
<1>6. CASE ListSequences(h)
  <2>1. Top' = Top /\ last' = [last EXCEPT ![h] = Top]
    BY <1>2, <1>6 DEF ListSequences, Top
  <2> QED
    BY <1>0, <1>1, <1>6, <2>1 DEF ListSequences, Goto, HandlerTypes
<1>7. CASE Flush(h)
  <2>1. Top' = Top /\ pc[h] = "flush" /\ pc' = [pc EXCEPT ![h] = "commit"]
        /\ goal' = goal /\ copy' = copy /\ last' = last
    BY <1>2, <1>7 DEF Flush, Goto
  <2>2. last[h] = Top
    <3>1. last[h] + 1 \notin 1 .. Top
      BY <1>7 DEF Flush, SequenceIsFree, IInv, LogInv, EventsTellTheTask, Top
    <3>2. last[h] \in 1 .. Top
      BY <1>0, <2>1 DEF RequestInv
    <3> QED
      BY <1>0, <3>1, <3>2
  <2> QED
    BY <1>0, <1>1, <2>1, <2>2 DEF HandlerTypes
<1>8. CASE Collide(h) \/ Abort(h)
  <2>1. Release(h) /\ Top' = Top
    BY <1>2, <1>8 DEF Collide, Abort
  <2> QED
    BY <1>0, <1>1, <2>1, Released
<1>9. CASE Commit(h)
  <2>1. Release(h) /\ pc[h] = "commit" /\ Top' = Top + 1
    BY <1>9, CommitExtends DEF Commit
  <2>2. g # h => pc[g] # "commit"
    BY <1>0, <2>1 DEF HandlerTypes
  <2> QED
    BY <1>0, <1>1, <2>1, <2>2, Released
<1> QED
  BY <1>3, <1>4, <1>5, <1>6, <1>7, <1>8, <1>9 DEF Step

--------------------------------------------------------------------------------
(* Executions *)

(* A handler that inserts an execution inserts the next one, alone *)
LEMMA InsertedIsNext ==
  ASSUME IInv, NEW h \in Handlers, InsertExecution(h)
  PROVE  number[h] = current + 1 /\ \A g \in Handlers : ~Inserted(g)
<1>1. executions = 1 .. current /\ current \in Nat /\ number[h] \in 2 .. current + 1
  BY DEF IInv, TypeOK, ExecutionInv, NewestExecutionIsCurrent, InsertExecution
<1>2. number[h] \notin 1 .. current
  BY <1>1 DEF InsertExecution, NumberIsFree
<1>3. number[h] = current + 1
  BY <1>1, <1>2
<1>4. \A g \in Handlers : Inserted(g) => number[g] = current + 1
  BY DEF IInv, ExecutionInv
<1>5. \A g \in Handlers : Inserted(g) => FALSE
  BY <1>3, <1>4 DEF InsertExecution, Inserting, Inserted
<1> QED
  BY <1>3, <1>5

(* The conjuncts that are about the rows follow from the rows *)
LEMMA ExecutionRowsStay ==
  ASSUME ExecutionInv, UNCHANGED rows
  PROVE  /\ NewestExecutionIsCurrent' /\ current' >= 1
         /\ \A i \in Reexecutions' : events'[i].execution <= current'
BY DEF ExecutionInv, NewestExecutionIsCurrent, Reexecutions, rows

(* A committed reexecution is the newest and has the last event *)
LEMMA CommitRows ==
  ASSUME IInv, NEW h \in Handlers, Commit(h)
  PROVE  /\ NewestExecutionIsCurrent' /\ current' >= 1
         /\ \A i \in Reexecutions' : events'[i].execution <= current'
<1> DEFINE top == Top
<1>1. /\ DOMAIN events = 1 .. top /\ DOMAIN events' = 1 .. (top + 1)
      /\ \A i \in 1 .. top : events'[i] = events[i]
      /\ events'[top + 1] = NewEvent(h)
  BY CommitExtends
<1>2. top \in Nat /\ current \in Nat /\ current >= 1 /\ executions = 1 .. current
  BY DEF IInv, LogInv, TypeOK, ExecutionInv, NewestExecutionIsCurrent
<1>3. /\ \A n \in 2 .. current : \E i \in Reexecutions : events[i].execution = n
      /\ \A i, j \in Reexecutions : i < j => events[i].execution < events[j].execution
      /\ \A i \in Reexecutions : events[i].execution <= current
  BY DEF IInv, ExecutionInv, NewestExecutionIsCurrent
<1>4. \A i \in Reexecutions : i \in 1 .. top /\ events[i].execution \in Nat
  BY <1>1 DEF Reexecutions, IInv, TypeOK
<1> HIDE DEF top
<1>5. CASE goal[h] = "reexecute"
  <2>1. number[h] = current + 1
    BY <1>5 DEF Commit, Inserted, IInv, ExecutionInv
  <2>2. current' = current + 1 /\ executions' = 1 .. (current + 1)
    <3>1. current' = number[h] /\ executions' = executions \cup {number[h]}
      BY <1>5 DEF Commit
    <3>2. 1 .. current \cup {current + 1} = 1 .. (current + 1)
      BY <1>2
    <3> QED
      BY <1>2, <2>1, <3>1, <3>2
  <2>3. NewEvent(h).action = "reexecute" /\ NewEvent(h).execution = current + 1
    BY <1>5, <2>1 DEF NewEvent
  <2>4. Reexecutions' = Reexecutions \cup {top + 1}
    <3>1. \A i \in 1 .. (top + 1) : i \in 1 .. top \/ i = top + 1
      BY <1>2
    <3>2. top + 1 \in 1 .. (top + 1) /\ 1 .. top \subseteq 1 .. (top + 1)
      BY <1>2
    <3> QED
      BY <1>1, <2>3, <3>1, <3>2 DEF Reexecutions
  <2>5. \A n \in 2 .. current' : \E i \in Reexecutions' : events'[i].execution = n
    <3> SUFFICES ASSUME NEW n \in 2 .. current'
                 PROVE  \E i \in Reexecutions' : events'[i].execution = n
      OBVIOUS
    <3>1. CASE n = current + 1
      BY <1>1, <2>3, <2>4, <3>1
    <3>2. CASE n \in 2 .. current
      BY <1>1, <1>3, <1>4, <2>4, <3>2
    <3> QED
      BY <1>2, <2>2, <3>1, <3>2
  <2>6. \A i \in Reexecutions' : events'[i].execution <= current'
    <3>1. \A i \in Reexecutions : events'[i].execution <= current + 1
      BY <1>1, <1>2, <1>3, <1>4
    <3>2. events'[top + 1].execution <= current + 1
      BY <1>1, <1>2, <2>3
    <3> QED
      BY <2>2, <2>4, <3>1, <3>2
  <2>7. \A i, j \in Reexecutions' : i < j => events'[i].execution < events'[j].execution
    <3> SUFFICES ASSUME NEW i \in Reexecutions', NEW j \in Reexecutions', i < j
                 PROVE  events'[i].execution < events'[j].execution
      OBVIOUS
    <3>1. i \in Reexecutions
      BY <1>2, <1>4, <2>4
    <3>2. CASE j \in Reexecutions
      BY <1>1, <1>3, <1>4, <3>1, <3>2
    <3>3. CASE j = top + 1
      <4>1. events'[i].execution <= current /\ events'[i].execution \in Nat
        BY <1>1, <1>3, <1>4, <3>1
      <4>2. events'[j].execution = current + 1
        BY <1>1, <2>3, <3>3
      <4> QED
        BY <1>2, <4>1, <4>2
    <3> QED
      BY <2>4, <3>2, <3>3
  <2>8. executions' = 1 .. current' /\ current' >= 1
    BY <1>2, <2>2
  <2> QED
    BY <2>5, <2>6, <2>7, <2>8 DEF NewestExecutionIsCurrent
<1>6. CASE goal[h] # "reexecute"
  <2>1. current' = current /\ executions' = executions
    BY <1>6 DEF Commit
  <2>2. NewEvent(h).action # "reexecute"
    BY <1>6 DEF NewEvent
  <2>3. Reexecutions' = Reexecutions
    <3>1. \A i \in 1 .. (top + 1) : i \in 1 .. top \/ i = top + 1
      BY <1>2
    <3>2. 1 .. top \subseteq 1 .. (top + 1)
      BY <1>2
    <3> QED
      BY <1>1, <2>2, <3>1, <3>2 DEF Reexecutions
  <2>4. \A i \in Reexecutions : events'[i] = events[i]
    BY <1>1, <1>4
  <2> QED
    BY <1>2, <1>3, <2>1, <2>3, <2>4 DEF NewestExecutionIsCurrent
<1> QED
  BY <1>5, <1>6

(* A step keeps the numbers of the executions in order *)
LEMMA StepExecutions ==
  ASSUME IInv, NEW h \in Handlers,
         (\E action \in Actions : Load(h, action)) \/ Step(h) \/ Abort(h)
  PROVE  ExecutionInv'
<1>0. HandlerTypes /\ ExecutionInv /\ RequestInv /\ current \in Nat /\ current >= 1
      /\ executions = 1 .. current
  BY DEF IInv, TypeOK, HandlerTypes, ExecutionInv, NewestExecutionIsCurrent
<1>1. /\ NewestExecutionIsCurrent' /\ current' >= 1
      /\ \A i \in Reexecutions' : events'[i].execution <= current'
  <2>1. CASE UNCHANGED rows
    BY <1>0, <2>1, ExecutionRowsStay
  <2> QED
    BY <2>1, CommitRows, RowsStay DEF Step
<1>2. /\ \A g \in Handlers : pc[g] = "insert" => number[g] \in 2 .. current + 1
      /\ \A g \in Handlers : Inserted(g) => number[g] = current + 1
      /\ \A f, g \in Handlers : Inserted(f) /\ Inserted(g) => f = g
  BY <1>0 DEF ExecutionInv
<1> DEFINE Insertable(g) == pc[g] = "insert" => number[g] \in 2 .. current + 1
<1> SUFFICES /\ \A g \in Handlers : Insertable(g)'
             /\ \A g \in Handlers : Inserted(g)' => number'[g] = current' + 1
             /\ \A f, g \in Handlers : Inserted(f)' /\ Inserted(g)' => f = g
  BY <1>1 DEF ExecutionInv
<1>3. ASSUME NEW action \in Actions, Load(h, action)
      PROVE  /\ current' = current /\ number' = number
             /\ \A g \in Handlers : Inserted(g)' => Inserted(g)
             /\ \A g \in Handlers : pc'[g] = "insert" => pc[g] = "insert"
  <2>1. \A g \in Handlers : g # h => pc'[g] = pc[g] /\ goal'[g] = goal[g]
    BY <1>0, <1>3 DEF Load, Goto, HandlerTypes
  <2>2. pc'[h] # "insert" /\ (goal'[h] = "reexecute" => pc'[h] = "number")
    BY <1>0, <1>3 DEF Load, Goto, HandlerTypes
  <2> QED
    BY <1>3, <2>1, <2>2 DEF Load, rows, Inserted
<1>4. ASSUME current' = current, number' = number,
             \A g \in Handlers : Inserted(g)' => Inserted(g),
             \A g \in Handlers : pc'[g] = "insert" => pc[g] = "insert"
      PROVE  /\ \A g \in Handlers : Insertable(g)'
             /\ \A g \in Handlers : Inserted(g)' => number'[g] = current' + 1
             /\ \A f, g \in Handlers : Inserted(f)' /\ Inserted(g)' => f = g
  BY <1>2, <1>4
<1>5. CASE ReadNumber(h)
  <2>1. Newest(executions) = current
    BY <1>0, NewestOfLog
  <2>2. pc' = [pc EXCEPT ![h] = "insert"] /\ number' = [number EXCEPT ![h] = current + 1]
        /\ goal' = goal /\ current' = current /\ pc[h] = "number"
    BY <1>5, <2>1 DEF ReadNumber, Goto, NextNumber, rows
  <2>3. \A g \in Handlers : Insertable(g)'
    BY <1>0, <1>2, <2>2 DEF HandlerTypes
  <2>4. \A g \in Handlers : Inserted(g)' => Inserted(g) /\ g # h
    BY <1>0, <2>2 DEF HandlerTypes, Inserted
  <2>5. \A g \in Handlers : g # h => number'[g] = number[g]
    BY <1>0, <2>2 DEF HandlerTypes
  <2> QED
    BY <1>2, <2>2, <2>3, <2>4, <2>5
<1>6. CASE InsertExecution(h)
  <2>1. number[h] = current + 1 /\ \A g \in Handlers : ~Inserted(g)
    BY <1>6, InsertedIsNext
  <2>2. pc' = [pc EXCEPT ![h] = "list"] /\ goal' = goal /\ number' = number
        /\ current' = current
    BY <1>6 DEF InsertExecution, Goto, rows
  <2>3. \A g \in Handlers : Inserted(g)' => g = h
    BY <1>0, <2>1, <2>2 DEF HandlerTypes, Inserted
  <2>4. \A g \in Handlers : pc'[g] = "insert" => pc[g] = "insert"
    BY <1>0, <2>2 DEF HandlerTypes
  <2> QED
    BY <1>2, <2>1, <2>2, <2>3, <2>4
<1>7. CASE ListSequences(h)
  BY <1>0, <1>4, <1>7 DEF ListSequences, Goto, HandlerTypes, Inserted, rows
<1>8. CASE Flush(h)
  BY <1>0, <1>4, <1>8 DEF Flush, Goto, HandlerTypes, Inserted, rows
<1>9. ASSUME Release(h)
      PROVE  /\ \A g \in Handlers : Inserted(g)' => Inserted(g) /\ g # h
             /\ \A g \in Handlers : pc'[g] = "insert" => pc[g] = "insert" /\ g # h
             /\ \A g \in Handlers : g # h => number'[g] = number[g]
  BY <1>0, <1>9, Released DEF Inserted
<1>10. CASE Release(h) /\ current' = current
  BY <1>2, <1>9, <1>10
<1>11. CASE Commit(h)
  <2>1. Release(h) /\ pc[h] = "commit"
    BY <1>11 DEF Commit
  <2>2. CASE goal[h] = "reexecute"
    <3>1. Inserted(h)
      BY <2>1, <2>2 DEF Inserted
    <3>2. \A g \in Handlers : ~Inserted(g)'
      BY <1>2, <1>9, <2>1, <3>1
    <3>3. current' = current + 1
      BY <1>2, <1>11, <2>2, <3>1 DEF Commit
    <3>4. \A g \in Handlers : Insertable(g)'
      <4> SUFFICES ASSUME NEW g \in Handlers, pc'[g] = "insert"
                   PROVE  number'[g] \in 2 .. current' + 1
        OBVIOUS
      <4>1. pc[g] = "insert" /\ number'[g] = number[g]
        BY <1>9, <2>1
      <4>2. number[g] \in 2 .. current + 1
        BY <1>2, <4>1
      <4> QED
        BY <1>0, <3>3, <4>1, <4>2
    <3> QED
      BY <3>2, <3>4
  <2>3. CASE goal[h] # "reexecute"
    BY <1>10, <1>11, <2>1, <2>3 DEF Commit
  <2> QED
    BY <2>2, <2>3
<1>12. CASE Collide(h) \/ Abort(h)
  BY <1>10, <1>12 DEF Collide, Abort, rows
<1> QED
  BY <1>3, <1>4, <1>5, <1>6, <1>7, <1>8, <1>11, <1>12 DEF Step

--------------------------------------------------------------------------------
(* The page *)

(* Events are only added, and the ones there are stay as they are *)
LEMMA StepPage ==
  ASSUME IInv, NEW h \in Handlers,
         (\E action \in Actions : Load(h, action)) \/ Step(h) \/ Abort(h), UNCHANGED page
  PROVE  PageInv'
<1>1. /\ DOMAIN events \subseteq DOMAIN events' /\ Top \in Nat /\ Top' \in Nat /\ Top <= Top'
      /\ \A i \in DOMAIN events : events'[i] = events[i]
  <2>1. Top \in Nat
    BY DEF IInv, LogInv
  <2>2. CASE Commit(h)
    <3> DEFINE top == Top
    <3>1. /\ DOMAIN events = 1 .. top /\ DOMAIN events' = 1 .. (top + 1) /\ Top' = top + 1
          /\ \A i \in 1 .. top : events'[i] = events[i]
      BY <2>2, CommitExtends
    <3>2. top \in Nat
      BY <2>1
    <3> HIDE DEF top
    <3>3. 1 .. top \subseteq 1 .. (top + 1) /\ Top' \in Nat /\ top <= Top'
      BY <3>1, <3>2
    <3> QED
      BY <2>1, <3>1, <3>3 DEF top
  <2>3. CASE UNCHANGED rows
    BY <2>1, <2>3 DEF rows, Top
  <2> QED
    BY <2>2, <2>3, RowsStay DEF Step
<1>2. /\ open' = open /\ shown' = shown /\ cursor' = cursor /\ cache' = cache
      /\ fetch' = fetch /\ interrupted' = interrupted
  BY DEF page
<1>3. PageInv /\ cursor \in Nat /\ cache.next \in Nat /\ fetch.after \in Nat
  BY DEF IInv, TypeOK
<1>4. shown' \subseteq DOMAIN events' /\ cache'.events \subseteq DOMAIN events'
  BY <1>1, <1>2, <1>3 DEF PageInv, PageReads, PageShows
<1>5. cursor' <= Top' /\ cache'.next <= Top' /\ fetch'.after <= Top'
  <2>1. cursor <= Top /\ cache.next <= Top /\ fetch.after <= Top
    BY <1>3 DEF PageInv, PageReads, PageShows
  <2> QED
    BY <1>1, <1>2, <1>3, <2>1
<1>6. Ended(DOMAIN events) => Ended(DOMAIN events)'
  BY <1>1 DEF Ended
<1>7. Ended(shown) => Ended(shown)'
  BY <1>1, <1>2, <1>3 DEF Ended, PageInv, PageReads, PageShows
<1>8. Behind' = Behind /\ Full(cache)' = Full(cache)
  BY <1>2 DEF Behind, Full
<1> QED
  BY <1>2, <1>3, <1>4, <1>5, <1>6, <1>7, <1>8 DEF PageInv, PageReads, PageShows

(* What a page holds that follows a sequence n of the log: the next events    *)
(* without a gap, and the end of the log unless it is full                    *)
LEMMA PageFacts ==
  ASSUME IInv, NEW n \in Nat, n <= Top
  PROVE  /\ PageAfter(n) \subseteq DOMAIN events
         /\ Following(n) \in Nat /\ n <= Following(n) /\ Following(n) <= Top
         /\ 1 .. Following(n) \subseteq 1 .. n \cup PageAfter(n)
         /\ Following(n) # 0
         /\ Cardinality(PageAfter(n)) # PageSize => Following(n) = Top
<1> DEFINE top == Top
<1>1. top \in Nat /\ top >= 1 /\ DOMAIN events = 1 .. top /\ n <= top
  BY DEF IInv, LogInv, EventsTellTheTask, Top
<1> HIDE DEF top
<1>2. PageSize \in Nat /\ PageSize >= 1
  OBVIOUS
<1>3. PageAfter(n) = {i \in 1 .. top : n < i /\ i <= n + PageSize}
  BY <1>1 DEF PageAfter
<1> DEFINE m == IF n + PageSize <= top THEN n + PageSize ELSE top
<1>4. m \in Nat /\ n <= m /\ m <= top /\ m >= 1
  BY <1>1, <1>2
<1>5. PageAfter(n) = (n + 1) .. m
  BY <1>1, <1>2, <1>3
<1>6. m # top => m = n + PageSize
  BY <1>1, <1>2
<1> HIDE DEF m
<1>7. n < m => \A k \in (n + 1) .. m : (\A j \in (n + 1) .. m : j <= k) => k = m
  BY <1>4
<1>8. n < m => m \in (n + 1) .. m /\ \A j \in (n + 1) .. m : j <= m
  BY <1>4
<1>9. Following(n) = m
  <2>1. CASE n = m
    <3>1. PageAfter(n) = {}
      BY <1>4, <1>5, <2>1
    <3> QED
      BY <2>1, <3>1 DEF Following
  <2>2. CASE n < m
    <3>1. PageAfter(n) # {} /\ Newest(PageAfter(n)) = m
      BY <1>5, <1>7, <1>8, <2>2 DEF Newest
    <3> QED
      BY <3>1 DEF Following
  <2> QED
    BY <1>4, <2>1, <2>2
<1>10. PageAfter(n) \subseteq 1 .. top
  BY <1>3
<1>11. 1 .. m \subseteq 1 .. n \cup (n + 1) .. m
  BY <1>4
<1>12. m # top => Cardinality((n + 1) .. m) = PageSize
  <2> SUFFICES ASSUME m # top PROVE Cardinality((n + 1) .. m) = PageSize
    OBVIOUS
  <2>1. m = n + PageSize /\ n + 1 <= m /\ n + 1 \in Int /\ m \in Int
    BY <1>2, <1>4, <1>6
  <2>2. Cardinality((n + 1) .. m) = m - (n + 1) + 1
    BY <2>1, FS_Interval
  <2> QED
    BY <1>2, <2>1, <2>2
<1> QED
  BY <1>1, <1>4, <1>5, <1>9, <1>10, <1>11, <1>12 DEF top

(* A request that begins at the cursor keeps what the page shows *)
LEMMA RequestKeepsPage ==
  ASSUME IInv, NEW attempt \in {1, 2}, Request(attempt), UNCHANGED vars
  PROVE  TypeOK' /\ PageInv'
<1>1. TypeOK /\ PageInv /\ cursor \in Nat
  BY DEF IInv, TypeOK
<1>2. fetch' = [phase |-> "sent", after |-> cursor, attempt |-> attempt, terminal |-> FALSE]
  BY DEF Request, Sent
<1>3. fetch' \in [phase: {"none", "sent", "task read"}, after: Nat, attempt: 0 .. 2,
                  terminal: BOOLEAN]
  BY <1>1, <1>2
<1>4. interrupted' \in BOOLEAN
  BY <1>1 DEF Request, TypeOK
<1>5. TypeOK'
  BY <1>1, <1>3, <1>4 DEF TypeOK, Request, vars, rows, private
<1>6. ~Behind'
  BY <1>2 DEF Behind, Request
<1>7. Top' = Top /\ events' = events
  BY DEF vars, rows, Top
<1>8. ~interrupted' => ~interrupted /\ ~Behind
  BY DEF Request
<1>9. (open' /\ ~interrupted') =>
        /\ 1 .. cursor \subseteq shown
        /\ (cache.terminal /\ ~Full(cache)) => Ended(shown)
  BY <1>1, <1>8 DEF PageInv, PageReads, PageShows, Request
<1>10. PageInv'
  <2>1. /\ shown' = shown /\ cursor' = cursor /\ cache' = cache /\ open' = open
    BY DEF Request
  <2>2. fetch'.after = cursor /\ fetch'.phase # "task read"
    BY <1>2
  <2>3. Full(cache)' = Full(cache) /\ Ended(shown)' = Ended(shown)
    BY <1>7, <2>1 DEF Full, Ended
  <2> QED
    BY <1>1, <1>7, <1>9, <2>1, <2>2, <2>3 DEF PageInv, PageReads, PageShows
<1> QED
  BY <1>5, <1>10

(* The other steps of the page, one by one *)
LEMMA PageStepTypes ==
  ASSUME IInv, PageStep, UNCHANGED vars
  PROVE  TypeOK'
<1>1. TypeOK
  BY DEF IInv
<1> DEFINE F == [phase: {"none", "sent", "task read"}, after: Nat, attempt: 0 .. 2,
                 terminal: BOOLEAN]
           C == [events: SUBSET Nat, next: Nat, terminal: BOOLEAN]
<1> SUFFICES /\ open' \in BOOLEAN /\ interrupted' \in BOOLEAN
             /\ shown' \in SUBSET Nat /\ cursor' \in Nat /\ cache' \in C /\ fetch' \in F
  BY <1>1 DEF TypeOK, vars, rows, private
<1>2. /\ open \in BOOLEAN /\ interrupted \in BOOLEAN /\ shown \in SUBSET Nat
      /\ cursor \in Nat /\ cache \in C /\ fetch \in F
  BY <1>1 DEF TypeOK
<1>3. cache.events \in SUBSET Nat /\ cache.next \in Nat /\ fetch.after \in Nat
      /\ fetch.terminal \in BOOLEAN
  BY <1>2
<1>4. NoFetch \in F /\ NoPage \in C /\ Sent(0, 1) \in F
  <2>1. 0 \in 0 .. 2 /\ 1 \in 0 .. 2 /\ 0 \in Nat /\ {} \in SUBSET Nat
    OBVIOUS
  <2> QED
    BY <2>1 DEF NoFetch, NoPage, Sent
<1> HIDE DEF F, C
<1>5. CASE Open
  BY <1>2, <1>3, <1>4, <1>5 DEF Open
<1>6. CASE Close
  BY <1>2, <1>4, <1>6 DEF Close
<1>7. CASE Forget
  BY <1>2, <1>4, <1>7 DEF Forget
<1>8. ASSUME NEW attempt \in {1, 2}, Request(attempt)
      PROVE  /\ open' \in BOOLEAN /\ interrupted' \in BOOLEAN
             /\ shown' \in SUBSET Nat /\ cursor' \in Nat /\ cache' \in C /\ fetch' \in F
  BY <1>8, RequestKeepsPage DEF TypeOK, F, C
<1>9. CASE FetchFails
  <2>1. CASE Request(2)
    BY <1>8, <2>1
  <2>2. CASE ~Request(2)
    BY <1>2, <1>4, <1>9, <2>2 DEF FetchFails
  <2> QED
    BY <2>1, <2>2
<1>10. CASE ReadTask
  <2>1. fetch' = [phase |-> "task read", after |-> fetch.after, attempt |-> fetch.attempt,
                  terminal |-> status \in Terminal]
    BY <1>2, <1>10 DEF ReadTask, F
  <2>2. fetch.after \in Nat /\ fetch.attempt \in 0 .. 2
    BY <1>2 DEF F
  <2>3. fetch' \in F
    <3>1. CASE status \in Terminal
      <4>1. (status \in Terminal) = TRUE
        BY <3>1
      <4>2. fetch' = [phase |-> "task read", after |-> fetch.after,
                      attempt |-> fetch.attempt, terminal |-> TRUE]
        BY <2>1, <4>1
      <4> QED
        BY <2>2, <4>2 DEF F
    <3>2. CASE status \notin Terminal
      <4>1. (status \in Terminal) = FALSE
        BY <3>2
      <4>2. fetch' = [phase |-> "task read", after |-> fetch.after,
                      attempt |-> fetch.attempt, terminal |-> FALSE]
        BY <2>1, <4>1
      <4> QED
        BY <2>2, <4>2 DEF F
    <3> QED
      BY <3>1, <3>2
  <2> QED
    BY <1>2, <1>10, <2>3 DEF ReadTask
<1>11. CASE Deliver
  <2>1. Following(fetch.after) \in Nat /\ PageAfter(fetch.after) \subseteq Nat
    <3>1. fetch.after <= Top
      BY DEF IInv, PageInv, PageReads, PageShows
    <3>2. DOMAIN events \subseteq Nat
      BY <1>1 DEF TypeOK
    <3> QED
      BY <1>3, <3>1, <3>2, PageFacts
  <2>2. cache' \in C /\ cursor' \in Nat
    BY <1>3, <1>11, <2>1 DEF Deliver, C
  <2>3. shown' \in SUBSET Nat
    BY <1>2, <1>11, <2>1 DEF Deliver
  <2> QED
    BY <1>2, <1>4, <1>11, <2>2, <2>3 DEF Deliver
<1>12. (Poll \/ Refresh) => Request(1)
  BY DEF Poll, Refresh
<1> QED
  BY <1>5, <1>6, <1>7, <1>8, <1>9, <1>10, <1>11, <1>12 DEF PageStep

(* An answer is merged: the task was read before the events, so an answer     *)
(* that says that the task is terminal and is not full holds the end of a log *)
(* in which the task has ended                                                *)
LEMMA DeliverKeepsPage ==
  ASSUME IInv, Deliver, UNCHANGED vars
  PROVE  PageInv'
<1> DEFINE a == fetch.after
<1>1. /\ a \in Nat /\ a <= Top /\ PageInv /\ Top \in Nat /\ Top >= 1
      /\ DOMAIN events = 1 .. Top
  <2>1. PageInv /\ fetch.after \in Nat /\ fetch.after <= Top
    BY DEF IInv, TypeOK, PageInv, PageReads, PageShows
  <2> QED
    BY <2>1 DEF IInv, LogInv, EventsTellTheTask, Top
<1>2. /\ PageAfter(a) \subseteq DOMAIN events
      /\ Following(a) \in Nat /\ a <= Following(a) /\ Following(a) <= Top
      /\ 1 .. Following(a) \subseteq 1 .. a \cup PageAfter(a)
      /\ Following(a) # 0
      /\ Cardinality(PageAfter(a)) # PageSize => Following(a) = Top
  BY <1>1, PageFacts
<1>3. /\ fetch.phase = "task read" /\ shown' = shown \cup PageAfter(a)
      /\ cursor' = Following(a) /\ open' = open /\ interrupted' = interrupted
      /\ cache'.events = PageAfter(a) /\ cache'.next = Following(a)
      /\ cache'.terminal = fetch.terminal
      /\ fetch'.phase = "none" /\ fetch'.after = 0
  BY DEF Deliver, NoFetch
<1>4. Top' = Top /\ events' = events
  BY DEF vars, rows, Top
<1> HIDE DEF a
<1>5. /\ shown' \subseteq DOMAIN events' /\ cache'.events \subseteq DOMAIN events'
      /\ cursor' <= Top' /\ cache'.next <= Top' /\ fetch'.after <= Top'
      /\ cache'.terminal => cache'.next # 0
  <2>1. shown \subseteq DOMAIN events
    BY <1>1 DEF PageInv, PageReads, PageShows
  <2>2. shown' \subseteq DOMAIN events' /\ cache'.events \subseteq DOMAIN events'
    BY <1>2, <1>3, <1>4, <2>1
  <2>3. cursor' <= Top' /\ cache'.next <= Top' /\ cache'.next # 0
    BY <1>2, <1>3, <1>4
  <2>4. fetch'.after <= Top'
    <3>1. \A t \in Nat : 0 <= t
      OBVIOUS
    <3>2. 0 <= Top
      BY <1>1, <3>1
    <3> QED
      BY <1>3, <1>4, <3>2
  <2> QED
    BY <2>2, <2>3, <2>4
<1>6. (open' /\ ~interrupted') => 1 .. cursor' \subseteq shown'
  BY <1>1, <1>2, <1>3 DEF PageInv, PageReads, PageShows, a
<1>7. (open' /\ ~interrupted' /\ cache'.terminal /\ ~Full(cache)') => Ended(shown)'
  <2> SUFFICES ASSUME open', ~interrupted', cache'.terminal, ~Full(cache)'
               PROVE  Ended(shown)'
    OBVIOUS
  <2>1. cursor' = Top
    BY <1>2, <1>3 DEF Full
  <2>2. DOMAIN events \subseteq shown'
    BY <1>1, <1>6, <2>1
  <2>3. Ended(DOMAIN events)
    BY <1>1, <1>3 DEF PageInv, PageReads, PageShows
  <2> QED
    BY <1>4, <2>2, <2>3 DEF Ended
<1> QED
  BY <1>3, <1>5, <1>6, <1>7 DEF PageInv, PageReads, PageShows

(* The steps of the page keep what it shows *)
LEMMA PageStepKeepsPage ==
  ASSUME IInv, PageStep, UNCHANGED vars
  PROVE  PageInv'
<1>1. PageInv /\ Top \in Nat /\ Top >= 1 /\ DOMAIN events = 1 .. Top
  BY DEF IInv, LogInv, EventsTellTheTask, Top
<1>2. Top' = Top /\ events' = events /\ status' = status
  BY DEF vars, rows, Top
<1>0. /\ shown \subseteq DOMAIN events /\ cache.events \subseteq DOMAIN events
      /\ cursor <= Top /\ cache.next <= Top /\ fetch.after <= Top
      /\ cache.terminal => cache.next # 0
      /\ (fetch.phase = "task read" /\ fetch.terminal) => Ended(DOMAIN events)
  BY <1>1 DEF PageInv, PageReads, PageShows
<1>12. 0 <= Top
  <2>1. \A t \in Nat : 0 <= t
    OBVIOUS
  <2> QED
    BY <1>1, <2>1
<1>10. PageShows /\ (PageReads' /\ PageShows' => PageInv')
  BY <1>1 DEF PageInv
<1>11. Ended(DOMAIN events)' = Ended(DOMAIN events)
  BY <1>2 DEF Ended
<1>3. CASE Open
  <2>1. /\ open' = TRUE /\ shown' = cache.events /\ cursor' = cache.next
        /\ cache' = cache /\ fetch'.phase = "sent" /\ fetch'.after = 0
    BY <1>3 DEF Open, Sent
  <2>2. Behind' \/ cache.next = 0
    BY <2>1 DEF Behind
  <2>3. 1 .. fetch'.after \subseteq shown' /\ (cache.next = 0 => 1 .. cursor' \subseteq shown')
    BY <2>1
  <2>4. cache'.terminal => Behind'
    BY <1>1, <2>1, <2>2 DEF PageInv, PageReads, PageShows
  <2>5. ~Behind' => 1 .. cursor' \subseteq shown'
    BY <2>2, <2>3
  <2> QED
    <3>1. PageReads'
      BY <1>0, <1>2, <1>12, <2>1 DEF PageReads
    <3>2. PageShows'
      BY <2>1, <2>3, <2>4, <2>5 DEF PageShows
    <3> QED
      BY <1>10, <3>1, <3>2
<1>4. CASE Close
  <2>1. /\ open' = FALSE /\ shown' = {} /\ cursor' = 0 /\ cache' = cache
        /\ fetch'.phase = "none" /\ fetch'.after = 0
    BY <1>4 DEF Close, NoFetch
  <2>2. PageReads'
    BY <1>0, <1>2, <1>12, <2>1 DEF PageReads
  <2>3. PageShows'
    BY <2>1 DEF PageShows
  <2> QED
    BY <1>10, <2>2, <2>3
<1>5. CASE Forget
  <2>1. /\ ~open /\ open' = open /\ shown' = shown /\ cursor' = cursor /\ fetch' = fetch
        /\ cache'.events = {} /\ cache'.next = 0 /\ cache'.terminal = FALSE
    BY <1>5 DEF Forget, NoPage
  <2>2. PageReads'
    BY <1>0, <1>2, <1>11, <1>12, <2>1 DEF PageReads
  <2>3. PageShows'
    BY <2>1 DEF PageShows
  <2> QED
    BY <1>10, <2>2, <2>3
<1>6. CASE Poll \/ Refresh
  BY <1>6, RequestKeepsPage DEF Poll, Refresh
<1>7. CASE FetchFails
  <2>1. CASE Request(2)
    BY <2>1, RequestKeepsPage
  <2>2. CASE ~Request(2)
    <3>1. /\ fetch.phase # "none" /\ fetch'.phase = "none" /\ fetch'.after = 0
          /\ interrupted' = (interrupted \/ Behind)
          /\ open' = open /\ shown' = shown /\ cursor' = cursor /\ cache' = cache
      BY <1>7, <2>2 DEF FetchFails, NoFetch
    <3>2. Full(cache)' = Full(cache) /\ Ended(shown)' = Ended(shown) /\ ~Behind'
      BY <1>2, <3>1 DEF Full, Ended, Behind
    <3>3. PageReads'
      BY <1>0, <1>2, <1>12, <3>1 DEF PageReads
    <3>4. PageShows'
      BY <1>10, <3>1, <3>2 DEF PageShows
    <3> QED
      BY <1>10, <3>3, <3>4
  <2> QED
    BY <2>1, <2>2
<1>8. CASE ReadTask
  <2>1. /\ fetch.phase = "sent" /\ fetch'.phase = "task read" /\ fetch'.after = fetch.after
        /\ fetch'.terminal = (status \in Terminal)
        /\ open' = open /\ shown' = shown /\ cursor' = cursor /\ cache' = cache
        /\ interrupted' = interrupted
    BY <1>8 DEF ReadTask, IInv, TypeOK
  <2>2. Behind' = Behind /\ Full(cache)' = Full(cache) /\ Ended(shown)' = Ended(shown)
    BY <1>2, <2>1 DEF Behind, Full, Ended
  <2>3. status \in Terminal => Ended(DOMAIN events)'
    <3>1. Top \in DOMAIN events /\ events[Top].to = status
      BY <1>1 DEF IInv, LogInv, EventsTellTheTask, Top
    <3> QED
      BY <1>2, <3>1 DEF Ended
  <2>4. PageReads'
    BY <1>0, <1>2, <2>1, <2>3 DEF PageReads
  <2>5. PageShows'
    BY <1>10, <2>1, <2>2 DEF PageShows
  <2> QED
    BY <1>10, <2>4, <2>5
<1>9. CASE Deliver
  BY <1>9, DeliverKeepsPage
<1> QED
  BY <1>3, <1>4, <1>5, <1>6, <1>7, <1>8, <1>9 DEF PageStep

--------------------------------------------------------------------------------
(* The theorems *)

(* Every step keeps the invariant *)
LEMMA NextInv == IInv /\ [PageNext]_<<vars, page>> => IInv'
<1> SUFFICES ASSUME IInv, [PageNext]_<<vars, page>> PROVE IInv'
  OBVIOUS
<1>1. CASE Next /\ UNCHANGED page
  <2>1. PICK h \in Handlers : (\E action \in Actions : Load(h, action)) \/ Step(h) \/ Abort(h)
    BY <1>1 DEF Next
  <2>2. TypeOK'
    BY <1>1, <2>1, StepTypes
  <2>3. LogInv'
    BY <2>1, StepLog
  <2>4. RequestInv'
    BY <2>1, StepRequests
  <2>5. ExecutionInv'
    BY <2>1, StepExecutions
  <2>6. PageInv'
    BY <1>1, <2>1, StepPage
  <2> QED
    BY <2>2, <2>3, <2>4, <2>5, <2>6 DEF IInv
<1>2. UNCHANGED vars => LogInv' /\ RequestInv' /\ ExecutionInv'
  <2> SUFFICES ASSUME UNCHANGED vars PROVE LogInv' /\ RequestInv' /\ ExecutionInv'
    OBVIOUS
  <2>1. LogInv'
    BY DEF IInv, LogInv, EventsTellTheTask, Top, vars, rows
  <2>2. RequestInv'
    BY DEF IInv, RequestInv, Top, vars, rows, private
  <2>3. ExecutionInv'
    BY DEF IInv, ExecutionInv, NewestExecutionIsCurrent, Reexecutions, Inserted, vars, rows, private
  <2> QED
    BY <2>1, <2>2, <2>3
<1>3. CASE PageStep /\ UNCHANGED vars
  BY <1>2, <1>3, PageStepTypes, PageStepKeepsPage DEF IInv
<1>4. CASE UNCHANGED <<vars, page>>
  <2>1. TypeOK'
    BY <1>4 DEF IInv, TypeOK, vars, rows, private, page
  <2>2. PageInv'
    BY <1>4 DEF IInv, PageInv, PageReads, PageShows, Ended, Behind, Full, Top, vars, rows, private, page
  <2> QED
    BY <1>2, <1>4, <2>1, <2>2 DEF IInv
<1> QED
  BY <1>1, <1>3, <1>4 DEF PageNext

(* The invariant holds always, with and without fairness *)
LEMMA Invariance == PageSpec => []IInv
BY InitInv, NextInv, PTL DEF PageSpec

(* Types, and the lock of the task is held from the flush of a request to the *)
(* end of its transaction                                                     *)
THEOREM TypeCorrect == PageSpec => []TypeOK
BY Invariance, PTL DEF IInv

(* Requests append their events one after the other, and the log says the     *)
(* status even of a task that a stale request has overwritten (repository.py, *)
(* append_event)                                                              *)
THEOREM LogTellsTheTask == PageSpec => []EventsTellTheTask
BY Invariance, PTL DEF IInv, LogInv

(* Executions are numbered in order, and the newest is the current one        *)
(* (control.py, reexecute)                                                    *)
THEOREM ExecutionsAreOrdered == PageSpec => []NewestExecutionIsCurrent
BY Invariance, PTL DEF IInv, ExecutionInv

(* A page that was not interrupted shows every event before its cursor, and   *)
(* stops when it shows an end of the task (useAITasks.ts, useAITaskEvents)    *)
THEOREM PageShowsAll == PageSpec => []PageIsWhole
<1>1. IInv => PageIsWhole
  BY DEF IInv, PageInv, PageReads, PageShows, PageIsWhole, Ended, Stopped, Behind
<1> QED
  BY <1>1, Invariance, PTL

(* The log only grows: a request that appends to it after others never takes  *)
(* the number of an event that is there, and no event is changed or removed.  *)
LogOnlyGrows ==
  [][\A i \in DOMAIN events : i \in DOMAIN events' /\ events'[i] = events[i]]_<<vars, page>>

(* An event that a page has read stays what it was, whichever requests were   *)
(* reading the sequences at the same time (append_event)                      *)
THEOREM EventsArePermanent == PageSpec => LogOnlyGrows
<1> DEFINE Kept == \A i \in DOMAIN events : i \in DOMAIN events' /\ events'[i] = events[i]
<1>1. IInv /\ [PageNext]_<<vars, page>> => [Kept]_<<vars, page>>
  <2> SUFFICES ASSUME IInv, PageNext PROVE Kept
    OBVIOUS
  <2>1. CASE \E h \in Handlers : Commit(h)
    <3>1. PICK h \in Handlers : Commit(h)
      BY <2>1
    <3>2. Top \in Nat
      BY DEF IInv, LogInv
    <3> HIDE DEF Top
    <3> QED
      BY <3>1, <3>2, CommitExtends
  <2>2. CASE UNCHANGED events
    BY <2>2
  <2> QED
    BY <2>1, <2>2 DEF PageNext, Next, Step, Load, ReadNumber, InsertExecution,
       ListSequences, Flush, Collide, Abort, rows, vars
<1>2. PageSpec => [][Kept]_<<vars, page>>
  BY <1>1, Invariance, PTL DEF PageSpec
<1> QED
  BY <1>2 DEF LogOnlyGrows
================================================================================
