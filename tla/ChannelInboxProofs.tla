-------------------------- MODULE ChannelInboxProofs ---------------------------
(***************************************************************************)
(* Proofs about ChannelInbox for any processes, messages and bounds.       *)
(***************************************************************************)
EXTENDS ChannelInbox, TLAPS

(* The cursor can only be overtaken by what the holder of the lease has       *)
(* polled, and one transaction at a time has updated it                       *)
CursorIsBehind ==
  /\ \A p \in Processes : Holds(p) /\ loop[p] \in {"polled", "inserted"} =>
       /\ cursor <= upto[p]
       /\ \A q \in Processes : loop[q] = "updated" => upto[q] <= upto[p]
  /\ \A p, q \in Processes : loop[p] = "updated" =>
       cursor <= upto[p] /\ (loop[q] = "updated" => p = q)

(* A transaction that will move the cursor has a row for every message of its *)
(* poll                                                                       *)
BatchIsCovered ==
  \A p \in Processes : Uncommitted(p) =>
    \A m \in Batch(p) : m \in fresh[p] \/ inbox[m].status # "absent"

(* Every new row is fresh for one process, and nothing happened to it before  *)
(* that process has claimed it                                                *)
Untouched(m) == stage[m] = "none" /\ turns[m] = 0 /\ replies[m] = 0

FreshRow(p, m) ==
  \/ Uncommitted(p) /\ inbox[m].status = "absent"
  \/ loop[p] \in {"handling", "claimed"} /\ inbox[m].status = "received"
  \/ loop[p] = "claimed" /\ First(p, m) /\ inbox[m].status = "processing"

FreshIsExclusive ==
  /\ \A p \in Processes : \A m \in fresh[p] : FreshRow(p, m) /\ Untouched(m)
  /\ \A p, q \in Processes : \A m \in fresh[p] : m \in fresh[q] => p = q
  /\ \A m \in Messages : inbox[m].status = "absent" => Untouched(m)

(* The stage of a background task tells what it has done *)
StageTells ==
  \A m \in Messages :
    /\ stage[m] \in {"waiting", "turn"} => turns[m] = 0
    /\ stage[m] = "answered" => turns[m] = 1 /\ replies[m] = 0
    /\ stage[m] = "replied" => turns[m] = 1 /\ replies[m] = 1

Inv ==
  /\ TypeOK
  /\ CursorIsBehind
  /\ NothingIsSkipped
  /\ BatchIsCovered
  /\ FreshIsExclusive
  /\ StageTells
  /\ AnsweredOnce

(* No process has a token that was not given out *)
TokensAreOld == \A p \in Processes : token[p] <= lease.token

(* A row in each of its forms *)
LEMMA Rows ==
  /\ [status |-> "absent", attempts |-> 0] \in Item
  /\ [status |-> "received", attempts |-> 0] \in Item
  /\ \A item \in Item :
       /\ item.status \in Statuses /\ item.attempts \in Nat
       /\ [status |-> "processing", attempts |-> item.attempts + 1] \in Item
       /\ [item EXCEPT !.status = "completed"] \in Item
       /\ [item EXCEPT !.status = "completed"].status = "completed"
  BY DEF Item, Statuses

(* A failure leaves a row that waits for its retry, or a dead letter *)
LEMMA FailedRow ==
  ASSUME NEW item \in Item
  PROVE  /\ Failed(item) \in Item
         /\ Failed(item).status \in {"dead_letter", "retry_wait"}
  <1> CASE item.attempts >= MaxAttempts
    <2>1. Failed(item) = [item EXCEPT !.status = "dead_letter"]
      BY DEF Failed
    <2> QED BY <2>1 DEF Item, Statuses
  <1> CASE ~(item.attempts >= MaxAttempts)
    <2>1. Failed(item) = [item EXCEPT !.status = "retry_wait"]
      BY DEF Failed
    <2> QED BY <2>1 DEF Item, Statuses
  <1> QED OBVIOUS

(* It changes the row of its message only *)
LEMMA FailureRows ==
  ASSUME TypeOK, NEW m \in Messages, Failure(m)
  PROVE  /\ inbox' \in [Messages -> Item]
         /\ \A n \in Messages : n # m => inbox'[n] = inbox[n]
         /\ \/ inbox'[m] = inbox[m]
            \/ inbox'[m].status \in {"dead_letter", "retry_wait"}
  <1>1. CASE inbox' = inbox
    BY <1>1 DEF TypeOK
  <1>2. CASE inbox' = [inbox EXCEPT ![m] = Failed(@)]
    <2>1. Failed(inbox[m]) \in Item
          /\ Failed(inbox[m]).status \in {"dead_letter", "retry_wait"}
      BY FailedRow DEF TypeOK
    <2>2. inbox' = [inbox EXCEPT ![m] = Failed(inbox[m])]
      BY <1>2
    <2> HIDE DEF Failed
    <2> QED BY <2>1, <2>2 DEF TypeOK
  <1> QED BY <1>1, <1>2 DEF Failure

(* Two processes never hold the lease together *)
LEMMA OneHolder == \A p, q \in Processes : Holds(p) /\ Holds(q) => p = q
  BY DEF Holds

(* The invariant holds at the start *)
LEMMA InitInv == Init => Inv
  <1> SUFFICES ASSUME Init PROVE Inv
    OBVIOUS
  <1>1. TypeOK
    <2>1. arrived = 0 /\ cursor = 0 /\ 0 \in 0..MaxMessages /\ 0 \in 0..arrived
      BY ChannelInboxAssumption DEF Init
    <2>2. inbox \in [Messages -> Item]
      BY Rows DEF Init
    <2>3. lease \in [owner: Processes \cup {None}, token: Nat]
      BY DEF Init
    <2> QED BY <2>1, <2>2, <2>3 DEF Init, TypeOK, Loops, Stages
  <1>2. CursorIsBehind /\ BatchIsCovered
    BY DEF Init, CursorIsBehind, BatchIsCovered, Uncommitted
  <1>3. NothingIsSkipped
    BY ChannelInboxAssumption DEF Init, NothingIsSkipped, Messages
  <1>4. FreshIsExclusive /\ StageTells /\ AnsweredOnce
    BY DEF Init, FreshIsExclusive, Untouched, StageTells, AnsweredOnce
  <1> QED BY <1>1, <1>2, <1>3, <1>4 DEF Inv

(* Taking the lease *)
LEMMA AcquireInv ==
  ASSUME Inv, NEW p \in Processes, Acquire(p)
  PROVE  Inv'
  <1> USE DEF Inv, TypeOK, Acquire, consumer, poll, work
  <1>1. TypeOK'
    <2>1. lease.token + 1 \in Nat
      OBVIOUS
    <2>2. lease' \in [owner: Processes \cup {None}, token: Nat]
      BY <2>1
    <2> QED BY <2>1, <2>2 DEF Loops
  <1>2. CursorIsBehind'
    BY OneHolder DEF CursorIsBehind, Holds
  <1>3. NothingIsSkipped' /\ BatchIsCovered'
    BY DEF NothingIsSkipped, BatchIsCovered, Batch, Uncommitted, Messages
  <1>4. FreshIsExclusive'
    BY DEF FreshIsExclusive, FreshRow, Untouched, Uncommitted, First, Messages
  <1>5. StageTells' /\ AnsweredOnce'
    BY DEF StageTells, AnsweredOnce, FreshIsExclusive, Untouched
  <1> QED BY <1>1, <1>2, <1>3, <1>4, <1>5

(* A renewal that comes too late: nobody holds the new token *)
LEMMA RenewLateInv ==
  ASSUME Inv, TokensAreOld, NEW p \in Processes, RenewLate(p)
  PROVE  Inv'
  <1> USE DEF Inv, TypeOK, RenewLate, consumer, poll, work
  <1>1. TypeOK'
    <2>1. lease.token + 1 \in Nat
      OBVIOUS
    <2>2. lease' \in [owner: Processes \cup {None}, token: Nat]
      BY <2>1
    <2> QED BY <2>1, <2>2 DEF Loops, Stages
  <1>2. \A q \in Processes : ~Holds(q)'
    BY DEF Holds, TokensAreOld
  <1>3. CursorIsBehind'
    BY <1>2 DEF CursorIsBehind
  <1>4. NothingIsSkipped' /\ BatchIsCovered'
    BY DEF NothingIsSkipped, BatchIsCovered, Batch, Uncommitted, Messages
  <1>5. FreshIsExclusive'
    BY DEF FreshIsExclusive, FreshRow, Untouched, Uncommitted, First, Messages
  <1>6. StageTells' /\ AnsweredOnce'
    BY DEF StageTells, AnsweredOnce, FreshIsExclusive, Untouched
  <1> QED BY <1>1, <1>3, <1>4, <1>5, <1>6

(* The lease ends *)
LEMMA LapseInv ==
  ASSUME Inv, Lapse
  PROVE  Inv'
  <1> USE DEF Inv, TypeOK, Lapse, consumer, poll, work
  <1>1. TypeOK'
    BY DEF Loops, Stages
  <1>2. CursorIsBehind'
    BY OneHolder DEF CursorIsBehind, Holds
  <1>3. NothingIsSkipped' /\ BatchIsCovered'
    BY DEF NothingIsSkipped, BatchIsCovered, Batch, Uncommitted, Messages
  <1>4. FreshIsExclusive'
    BY DEF FreshIsExclusive, FreshRow, Untouched, Uncommitted, First, Messages
  <1>5. StageTells' /\ AnsweredOnce'
    BY DEF StageTells, AnsweredOnce, FreshIsExclusive, Untouched
  <1> QED BY <1>1, <1>2, <1>3, <1>4, <1>5

(* The poll loop starts *)
LEMMA StartInv ==
  ASSUME Inv, NEW p \in Processes, Start(p)
  PROVE  Inv'
  <1> USE DEF Inv, TypeOK, Start, consumer, poll, work
  <1>1. TypeOK'
    BY DEF Loops, Stages
  <1>2. CursorIsBehind'
    BY OneHolder DEF CursorIsBehind, Holds
  <1>3. NothingIsSkipped' /\ BatchIsCovered'
    BY DEF NothingIsSkipped, BatchIsCovered, Batch, Uncommitted, Messages
  <1>4. FreshIsExclusive'
    BY DEF FreshIsExclusive, FreshRow, Untouched, Uncommitted, First, Messages
  <1>5. StageTells' /\ AnsweredOnce'
    BY DEF StageTells, AnsweredOnce, FreshIsExclusive, Untouched
  <1> QED BY <1>1, <1>2, <1>3, <1>4, <1>5

(* The poll loop is cancelled *)
LEMMA StopInv ==
  ASSUME Inv, NEW p \in Processes, Stop(p)
  PROVE  Inv'
  <1> USE DEF Inv, TypeOK, Stop, EndLoop, consumer, poll, work
  <1>1. TypeOK'
    BY DEF Loops, Stages
  <1>2. CursorIsBehind'
    <2>1. \A q \in Processes : Holds(q)' => Holds(q)
      <3>1. lease' = lease \/ lease'.owner = None
        OBVIOUS
      <3> QED BY <3>1, ChannelInboxAssumption DEF Holds
    <2>2. \A q \in Processes : q # p => loop'[q] = loop[q]
      OBVIOUS
    <2>3. loop'[p] = "down"
      OBVIOUS
    <2> QED BY <2>1, <2>2, <2>3 DEF CursorIsBehind
  <1>3. NothingIsSkipped' /\ BatchIsCovered'
    BY DEF NothingIsSkipped, BatchIsCovered, Batch, Uncommitted, Messages
  <1>4. FreshIsExclusive'
    BY DEF FreshIsExclusive, FreshRow, Untouched, Uncommitted, First, Messages
  <1>5. StageTells' /\ AnsweredOnce'
    BY DEF StageTells, AnsweredOnce, FreshIsExclusive, Untouched
  <1> QED BY <1>1, <1>2, <1>3, <1>4, <1>5

(* A process dies *)
LEMMA CrashInv ==
  ASSUME Inv, NEW p \in Processes, Crash(p)
  PROVE  Inv'
  <1> USE DEF Inv, TypeOK, Crash, EndLoop, consumer, poll, work
  <1>1. TypeOK'
    BY DEF Loops, Stages
  <1>2. CursorIsBehind'
    BY OneHolder DEF CursorIsBehind, Holds
  <1>3. NothingIsSkipped' /\ BatchIsCovered'
    BY DEF NothingIsSkipped, BatchIsCovered, Batch, Uncommitted, Messages
  <1>4. FreshIsExclusive'
    BY DEF FreshIsExclusive, FreshRow, Untouched, Uncommitted, First, Messages
  <1>5. StageTells' /\ AnsweredOnce'
    BY DEF StageTells, AnsweredOnce, FreshIsExclusive, Untouched
  <1> QED BY <1>1, <1>2, <1>3, <1>4, <1>5

(* A message arrives *)
LEMMA ArriveInv ==
  ASSUME Inv, Arrive
  PROVE  Inv'
  <1> USE DEF Inv, TypeOK, Arrive, consumer, poll, work
  <1>1. TypeOK'
    <2>1. arrived' \in 0..MaxMessages /\ cursor \in 0..arrived'
      BY ChannelInboxAssumption
    <2>2. 0..arrived \subseteq 0..arrived'
      BY ChannelInboxAssumption
    <2>3. from' \in [Processes -> 0..arrived'] /\ upto' \in [Processes -> 0..arrived']
      BY <2>2
    <2> QED BY <2>1, <2>3
  <1>2. CursorIsBehind'
    BY OneHolder DEF CursorIsBehind, Holds
  <1>3. NothingIsSkipped' /\ BatchIsCovered'
    BY DEF NothingIsSkipped, BatchIsCovered, Batch, Uncommitted, Messages
  <1>4. FreshIsExclusive'
    BY DEF FreshIsExclusive, FreshRow, Untouched, Uncommitted, First, Messages
  <1>5. StageTells' /\ AnsweredOnce'
    BY DEF StageTells, AnsweredOnce, FreshIsExclusive, Untouched
  <1> QED BY <1>1, <1>2, <1>3, <1>4, <1>5

(* The provider answers a poll *)
LEMMA PollInv ==
  ASSUME Inv, NEW p \in Processes, Poll(p)
  PROVE  Inv'
  <1> USE DEF Inv, TypeOK, Poll, consumer, poll, work
  <1>1. TypeOK'
    BY DEF Loops, Stages
  <1>2. CursorIsBehind'
    BY OneHolder DEF CursorIsBehind, Holds
  <1>3. NothingIsSkipped' /\ BatchIsCovered'
    BY DEF NothingIsSkipped, BatchIsCovered, Batch, Uncommitted, Messages
  <1>4. FreshIsExclusive'
    BY DEF FreshIsExclusive, FreshRow, Untouched, Uncommitted, First, Messages
  <1>5. StageTells' /\ AnsweredOnce'
    BY DEF StageTells, AnsweredOnce, FreshIsExclusive, Untouched
  <1> QED BY <1>1, <1>2, <1>3, <1>4, <1>5

(* The rows of a poll are inserted *)
LEMMA InsertInv ==
  ASSUME Inv, NEW p \in Processes, Insert(p)
  PROVE  Inv'
  <1> USE DEF Inv, TypeOK, Insert, Uncommitted, Valid, NewItems, Batch,
      consumer, poll, work
  <1>1. TypeOK'
    BY DEF Loops, Stages
  <1>2. CursorIsBehind'
    BY OneHolder DEF CursorIsBehind, Holds
  <1>3. NothingIsSkipped' /\ BatchIsCovered'
    BY DEF NothingIsSkipped, BatchIsCovered, Batch, Uncommitted, Messages
  <1>4. FreshIsExclusive'
    <2>1. \A m \in fresh'[p] : inbox[m].status = "absent" /\ m \in Batch(p)
      BY DEF Messages
    <2>2. \A q \in Processes : q # p => fresh'[q] = fresh[q] /\ loop'[q] = loop[q]
      OBVIOUS
    <2>3. loop'[p] = "inserted" /\ UNCHANGED <<inbox, stage, turns, replies>>
      OBVIOUS
    <2>4. \A q \in Processes : q # p => \A m \in fresh[q] : m \notin fresh'[p]
      <3> SUFFICES ASSUME NEW q \in Processes, q # p,
                          NEW m \in fresh[q], m \in fresh'[p]
                   PROVE  FALSE
        OBVIOUS
      <3>1. FreshRow(q, m) /\ inbox[m].status = "absent" /\ m \in Batch(p)
        BY <2>1 DEF FreshIsExclusive
      <3>2. Uncommitted(q)
        BY <3>1 DEF FreshRow
      <3> QED BY <3>1, <3>2 DEF Batch
    <2> QED BY <2>1, <2>2, <2>3, <2>4
          DEF FreshIsExclusive, FreshRow, Untouched, First, Messages
  <1>5. StageTells' /\ AnsweredOnce'
    BY DEF StageTells, AnsweredOnce, FreshIsExclusive, Untouched
  <1> QED BY <1>1, <1>2, <1>3, <1>4, <1>5

(* The cursor is updated *)
LEMMA UpdateCursorInv ==
  ASSUME Inv, NEW p \in Processes, UpdateCursor(p)
  PROVE  Inv'
  <1> USE DEF Inv, TypeOK, UpdateCursor, Uncommitted, Fence, consumer, poll,
      work
  <1>1. TypeOK'
    BY DEF Loops, Stages
  <1>2. CursorIsBehind'
    BY OneHolder DEF CursorIsBehind, Holds
  <1>3. NothingIsSkipped' /\ BatchIsCovered'
    BY DEF NothingIsSkipped, BatchIsCovered, Batch, Uncommitted, Messages
  <1>4. FreshIsExclusive'
    BY DEF FreshIsExclusive, FreshRow, Untouched, Uncommitted, First, Messages
  <1>5. StageTells' /\ AnsweredOnce'
    BY DEF StageTells, AnsweredOnce, FreshIsExclusive, Untouched
  <1> QED BY <1>1, <1>2, <1>3, <1>4, <1>5

(* A poll is committed *)
LEMMA CommitInv ==
  ASSUME Inv, NEW p \in Processes, Commit(p)
  PROVE  Inv'
  <1> USE DEF Inv, TypeOK, consumer, poll, work
  <1>1. \A m \in Messages :
          inbox'[m] = IF m \in fresh[p] THEN [status |-> "received", attempts |-> 0]
                                        ELSE inbox[m]
    BY DEF Commit, Stored
  <1>2. inbox' \in [Messages -> Item]
    BY Rows DEF Commit
  <1>3. \A m \in Messages :
          /\ m \in fresh[p] => inbox'[m].status = "received"
          /\ m \notin fresh[p] => inbox'[m] = inbox[m]
    BY <1>1
  <1>4. /\ loop[p] = "updated" /\ loop' \in [Processes -> Loops]
        /\ \A q \in Processes : q # p => loop'[q] = loop[q] /\ fresh'[q] = fresh[q]
                                         /\ from'[q] = from[q]
        /\ \/ loop'[p] = "handling" /\ fresh'[p] = fresh[p] /\ from'[p] = upto[p]
           \/ loop'[p] = "polling" /\ fresh'[p] = {} /\ from'[p] = from[p]
    BY DEF Commit, Loops
  <1>5. /\ from' \in [Processes -> 0..arrived] /\ fresh' \in [Processes -> SUBSET Messages]
        /\ cursor' = upto[p]
        /\ UNCHANGED <<arrived, lease, lapsed, token, upto, runner, stage, turns, replies>>
    BY DEF Commit
  <1>6. TypeOK'
    BY <1>2, <1>4, <1>5
  <1>7. CursorIsBehind'
    BY <1>4, <1>5 DEF CursorIsBehind, Holds
  <1>8. \A q \in Processes \ {p} : \A m \in fresh[q] : m \notin fresh[p]
    BY DEF FreshIsExclusive
  <1>9. \A m \in Messages : inbox[m].status # "absent" => inbox'[m].status # "absent"
    BY <1>3
  <1>10. \A m \in Messages : m <= upto[p] => inbox'[m].status # "absent"
    <2> SUFFICES ASSUME NEW m \in Messages, m <= upto[p]
                 PROVE  inbox'[m].status # "absent"
      OBVIOUS
    <2>1. CASE m <= from[p]
      BY <2>1, <1>9 DEF NothingIsSkipped
    <2>2. CASE ~(m <= from[p])
      <3>1. m \in Batch(p)
        BY <2>2 DEF Batch, Messages
      <3> QED BY <3>1, <1>3, <1>4, <1>9 DEF BatchIsCovered, Uncommitted
    <2> QED BY <2>1, <2>2
  <1>11. NothingIsSkipped'
    BY <1>4, <1>5, <1>9, <1>10 DEF NothingIsSkipped
  <1>12. BatchIsCovered'
    BY <1>4, <1>5, <1>9 DEF BatchIsCovered, Uncommitted, Batch
  <1>13. FreshIsExclusive'
    <2>1. \A q \in Processes : \A m \in fresh'[q] : FreshRow(q, m)' /\ Untouched(m)'
      <3> SUFFICES ASSUME NEW q \in Processes, NEW m \in fresh'[q]
                   PROVE  FreshRow(q, m)' /\ Untouched(m)'
        OBVIOUS
      <3>1. m \in fresh[q] /\ m \in Messages
        BY <1>4
      <3>2. FreshRow(q, m) /\ Untouched(m)
        BY <3>1 DEF FreshIsExclusive
      <3>3. Untouched(m)'
        BY <3>2, <1>5 DEF Untouched
      <3>4. CASE q = p
        BY <3>1, <3>2, <3>3, <3>4, <1>3, <1>4 DEF FreshRow, Uncommitted
      <3>5. CASE q # p
        <4>1. loop'[q] = loop[q] /\ fresh'[q] = fresh[q] /\ inbox'[m] = inbox[m]
          BY <3>1, <3>5, <1>3, <1>4, <1>8
        <4> QED BY <3>2, <3>3, <4>1 DEF FreshRow, Uncommitted, First
      <3> QED BY <3>3, <3>4, <3>5
    <2>2. \A q, r \in Processes : \A m \in fresh'[q] : m \in fresh'[r] => q = r
      BY <1>4 DEF FreshIsExclusive
    <2>3. \A m \in Messages : inbox'[m].status = "absent" => Untouched(m)'
      BY <1>5, <1>9 DEF FreshIsExclusive, Untouched
    <2> QED BY <2>1, <2>2, <2>3 DEF FreshIsExclusive
  <1>14. StageTells'
    BY <1>5 DEF StageTells
  <1>15. AnsweredOnce'
    BY <1>3, <1>5 DEF AnsweredOnce
  <1> QED BY <1>6, <1>7, <1>11, <1>12, <1>13, <1>14, <1>15

(* A poll is rolled back *)
LEMMA PersistFailsInv ==
  ASSUME Inv, NEW p \in Processes, PersistFails(p)
  PROVE  Inv'
  <1> USE DEF Inv, TypeOK, PersistFails, Uncommitted, consumer, poll, work
  <1>1. TypeOK'
    BY DEF Loops, Stages
  <1>2. CursorIsBehind'
    BY OneHolder DEF CursorIsBehind, Holds
  <1>3. NothingIsSkipped' /\ BatchIsCovered'
    BY DEF NothingIsSkipped, BatchIsCovered, Batch, Uncommitted, Messages
  <1>4. FreshIsExclusive'
    BY DEF FreshIsExclusive, FreshRow, Untouched, Uncommitted, First, Messages
  <1>5. StageTells' /\ AnsweredOnce'
    BY DEF StageTells, AnsweredOnce, FreshIsExclusive, Untouched
  <1> QED BY <1>1, <1>2, <1>3, <1>4, <1>5

(* A row is claimed *)
LEMMA ClaimItemInv ==
  ASSUME Inv, NEW p \in Processes, NEW m \in Messages, ClaimItem(p, m)
  PROVE  Inv'
  <1> USE DEF Inv, TypeOK, ClaimItem, Claimable, consumer, poll, work
  <1>1. TypeOK'
    <2>1. [status |-> "processing", attempts |-> inbox[m].attempts + 1] \in Item
      BY Rows
    <2> QED BY <2>1 DEF Loops
  <1>2. CursorIsBehind'
    BY OneHolder DEF CursorIsBehind, Holds
  <1>3. NothingIsSkipped' /\ BatchIsCovered'
    BY DEF NothingIsSkipped, BatchIsCovered, Batch, Uncommitted, Messages
  <1>4. FreshIsExclusive'
    BY DEF FreshIsExclusive, FreshRow, Untouched, Uncommitted, First, Messages
  <1>5. StageTells' /\ AnsweredOnce'
    BY DEF StageTells, AnsweredOnce, FreshIsExclusive, Untouched
  <1> QED BY <1>1, <1>2, <1>3, <1>4, <1>5

(* A row is passed over *)
LEMMA SkipItemInv ==
  ASSUME Inv, NEW p \in Processes, NEW m \in Messages, SkipItem(p, m)
  PROVE  Inv'
  <1> USE DEF Inv, TypeOK, SkipItem, Handled, First, consumer, poll, work
  <1>1. TypeOK'
    BY DEF Loops, Stages
  <1>2. CursorIsBehind'
    BY OneHolder DEF CursorIsBehind, Holds
  <1>3. NothingIsSkipped' /\ BatchIsCovered'
    BY DEF NothingIsSkipped, BatchIsCovered, Batch, Uncommitted, Messages
  <1>4. FreshIsExclusive'
    BY DEF FreshIsExclusive, FreshRow, Untouched, Uncommitted, First, Messages
  <1>5. StageTells' /\ AnsweredOnce'
    BY DEF StageTells, AnsweredOnce, FreshIsExclusive, Untouched
  <1> QED BY <1>1, <1>2, <1>3, <1>4, <1>5

(* The poll loop ends by an error *)
LEMMA LoopDiesInv ==
  ASSUME Inv, NEW p \in Processes, LoopDies(p)
  PROVE  Inv'
  <1> USE DEF Inv, TypeOK, LoopDies, consumer, poll, work
  <1>1. TypeOK'
    BY DEF Loops, Stages
  <1>2. CursorIsBehind'
    BY OneHolder DEF CursorIsBehind, Holds
  <1>3. NothingIsSkipped' /\ BatchIsCovered'
    BY DEF NothingIsSkipped, BatchIsCovered, Batch, Uncommitted, Messages
  <1>4. FreshIsExclusive'
    BY DEF FreshIsExclusive, FreshRow, Untouched, Uncommitted, First, Messages
  <1>5. StageTells' /\ AnsweredOnce'
    BY DEF StageTells, AnsweredOnce, FreshIsExclusive, Untouched
  <1> QED BY <1>1, <1>2, <1>3, <1>4, <1>5

(* A poll is done with *)
LEMMA AllHandledInv ==
  ASSUME Inv, NEW p \in Processes, AllHandled(p)
  PROVE  Inv'
  <1> USE DEF Inv, TypeOK, AllHandled, consumer, poll, work
  <1>1. TypeOK'
    BY DEF Loops, Stages
  <1>2. CursorIsBehind'
    BY OneHolder DEF CursorIsBehind, Holds
  <1>3. NothingIsSkipped' /\ BatchIsCovered'
    BY DEF NothingIsSkipped, BatchIsCovered, Batch, Uncommitted, Messages
  <1>4. FreshIsExclusive'
    BY DEF FreshIsExclusive, FreshRow, Untouched, Uncommitted, First, Messages
  <1>5. StageTells' /\ AnsweredOnce'
    BY DEF StageTells, AnsweredOnce, FreshIsExclusive, Untouched
  <1> QED BY <1>1, <1>2, <1>3, <1>4, <1>5

(* A background task is created, or its message fails before that *)
LEMMA DispatchInv ==
  ASSUME Inv, NEW p \in Processes, NEW m \in Messages, Dispatch(p, m)
  PROVE  Inv'
  <1> USE DEF Inv, TypeOK, poll
  <1>1. /\ loop[p] = "claimed" /\ First(p, m)
        /\ loop' = [loop EXCEPT ![p] = "handling"]
        /\ fresh' = [fresh EXCEPT ![p] = @ \ {m}]
        /\ UNCHANGED <<arrived, lease, lapsed, token, cursor, from, upto, turns, replies>>
    BY DEF Dispatch, Handled, consumer
  <1>2. m \in fresh[p] /\ FreshRow(p, m) /\ Untouched(m)
    BY <1>1 DEF First, FreshIsExclusive
  <1>3. /\ inbox' \in [Messages -> Item]
        /\ \A n \in Messages : n # m => inbox'[n] = inbox[n]
        /\ \/ inbox'[m] = inbox[m]
           \/ inbox'[m].status \in {"dead_letter", "retry_wait"}
    BY FailureRows DEF Dispatch
  <1>4. /\ runner' \in [Messages -> Processes \cup {None}] /\ stage' \in [Messages -> Stages]
        /\ \A n \in Messages : n # m => stage'[n] = stage[n]
        /\ stage'[m] \in {"waiting", stage[m]}
    BY DEF Dispatch, Stages
  <1>5. inbox[m].status # "absent" /\ inbox'[m].status # "absent"
    BY <1>1, <1>2, <1>3 DEF FreshRow, Uncommitted
  <1>6. TypeOK'
    BY <1>1, <1>3, <1>4 DEF Loops
  <1>7. CursorIsBehind'
    BY <1>1 DEF CursorIsBehind, Holds
  <1>8. NothingIsSkipped'
    BY <1>1, <1>3, <1>5 DEF NothingIsSkipped
  <1>9. BatchIsCovered'
    BY <1>1, <1>3, <1>5 DEF BatchIsCovered, Uncommitted, Batch
  <1>10. FreshIsExclusive'
    <2>1. \A q \in Processes : \A n \in fresh'[q] : FreshRow(q, n)' /\ Untouched(n)'
      <3> SUFFICES ASSUME NEW q \in Processes, NEW n \in fresh'[q]
                   PROVE  FreshRow(q, n)' /\ Untouched(n)'
        OBVIOUS
      <3>1. n \in fresh[q] /\ n \in Messages /\ n # m
        BY <1>1, <1>2 DEF FreshIsExclusive
      <3>2. FreshRow(q, n) /\ Untouched(n) /\ inbox'[n] = inbox[n] /\ stage'[n] = stage[n]
        BY <3>1, <1>3, <1>4 DEF FreshIsExclusive
      <3>3. Untouched(n)'
        BY <3>2, <1>1 DEF Untouched
      <3>4. CASE q = p
        <4>1. inbox[n].status = "received"
          BY <3>1, <3>2, <3>4, <1>1 DEF FreshRow, Uncommitted, First, Messages
        <4> QED BY <4>1, <3>2, <3>3, <3>4, <1>1 DEF FreshRow
      <3>5. CASE q # p
        <4>1. loop'[q] = loop[q] /\ fresh'[q] = fresh[q]
          BY <3>5, <1>1
        <4> QED BY <3>2, <3>3, <4>1 DEF FreshRow, Uncommitted, First
      <3> QED BY <3>3, <3>4, <3>5
    <2>2. \A q, r \in Processes : \A n \in fresh'[q] : n \in fresh'[r] => q = r
      BY <1>1 DEF FreshIsExclusive
    <2>3. \A n \in Messages : inbox'[n].status = "absent" => Untouched(n)'
      BY <1>1, <1>3, <1>4, <1>5 DEF FreshIsExclusive, Untouched
    <2> QED BY <2>1, <2>2, <2>3 DEF FreshIsExclusive
  <1>11. StageTells'
    BY <1>1, <1>2, <1>4 DEF StageTells, Untouched
  <1>12. AnsweredOnce'
    BY <1>1, <1>3 DEF AnsweredOnce
  <1> QED BY <1>6, <1>7, <1>8, <1>9, <1>10, <1>11, <1>12

(* A turn begins *)
LEMMA BeginTurnInv ==
  ASSUME Inv, NEW m \in Messages, BeginTurn(m)
  PROVE  Inv'
  <1> USE DEF Inv, TypeOK, BeginTurn, consumer, poll, work
  <1>1. TypeOK'
    BY DEF Loops, Stages
  <1>2. CursorIsBehind'
    BY OneHolder DEF CursorIsBehind, Holds
  <1>3. NothingIsSkipped' /\ BatchIsCovered'
    BY DEF NothingIsSkipped, BatchIsCovered, Batch, Uncommitted, Messages
  <1>4. FreshIsExclusive'
    BY DEF FreshIsExclusive, FreshRow, Untouched, Uncommitted, First, Messages
  <1>5. StageTells' /\ AnsweredOnce'
    BY DEF StageTells, AnsweredOnce, FreshIsExclusive, Untouched
  <1> QED BY <1>1, <1>2, <1>3, <1>4, <1>5

(* A step of a background task at one message: what the poll loops rely on     *)
LEMMA TaskKeeps ==
  ASSUME Inv, NEW m \in Messages, stage[m] # "none",
         UNCHANGED <<arrived, lease, cursor, loop, token, from, upto, fresh>>,
         \A n \in Messages : n # m => /\ inbox'[n] = inbox[n] /\ stage'[n] = stage[n]
                                     /\ turns'[n] = turns[n] /\ replies'[n] = replies[n],
         inbox'[m] = inbox[m] \/ inbox'[m].status # "absent"
  PROVE  CursorIsBehind' /\ NothingIsSkipped' /\ BatchIsCovered' /\ FreshIsExclusive'
  <1> USE DEF Inv, TypeOK
  <1>1. /\ inbox[m].status # "absent" /\ inbox'[m].status # "absent"
        /\ \A q \in Processes : m \notin fresh[q]
    BY DEF FreshIsExclusive, Untouched
  <1>2. CursorIsBehind'
    BY DEF CursorIsBehind, Holds
  <1>3. NothingIsSkipped' /\ BatchIsCovered'
    BY <1>1 DEF NothingIsSkipped, BatchIsCovered, Uncommitted, Batch
  <1>4. FreshIsExclusive'
    <2>1. \A q \in Processes : \A n \in fresh'[q] : FreshRow(q, n)' /\ Untouched(n)'
      <3> SUFFICES ASSUME NEW q \in Processes, NEW n \in fresh[q]
                   PROVE  FreshRow(q, n)' /\ Untouched(n)'
        OBVIOUS
      <3>1. n \in Messages /\ n # m /\ FreshRow(q, n) /\ Untouched(n)
        BY <1>1 DEF FreshIsExclusive
      <3> QED BY <3>1 DEF FreshRow, Untouched, Uncommitted, First
    <2>2. \A n \in Messages : inbox'[n].status = "absent" => Untouched(n)'
      BY <1>1 DEF FreshIsExclusive, Untouched
    <2> QED BY <2>1, <2>2 DEF FreshIsExclusive
  <1> QED BY <1>2, <1>3, <1>4

(* The end of a task *)
LEMMA EndedTask ==
  ASSUME TypeOK, NEW m \in Messages, EndTask(m)
  PROVE  /\ runner' \in [Messages -> Processes \cup {None}]
         /\ stage' \in [Messages -> Stages] /\ stage'[m] = "none"
         /\ \A n \in Messages : n # m => stage'[n] = stage[n]
  BY DEF TypeOK, EndTask, Stages

(* A turn is committed *)
LEMMA RunTurnInv ==
  ASSUME Inv, NEW m \in Messages, RunTurn(m)
  PROVE  Inv'
  <1> USE DEF Inv, TypeOK
  <1>1. /\ stage[m] = "turn" /\ turns' = [turns EXCEPT ![m] = @ + 1]
        /\ UNCHANGED <<arrived, lease, lapsed, token, cursor, loop, from, upto, fresh, replies>>
    BY DEF RunTurn, consumer, poll
  <1>2. /\ inbox' \in [Messages -> Item]
        /\ \A n \in Messages : n # m => inbox'[n] = inbox[n]
        /\ inbox'[m] = inbox[m] \/ inbox'[m].status \in {"dead_letter", "retry_wait"}
    BY FailureRows DEF RunTurn
  <1>3. /\ runner' \in [Messages -> Processes \cup {None}]
        /\ stage' \in [Messages -> Stages] /\ stage'[m] \in {"none", "answered"}
        /\ \A n \in Messages : n # m => stage'[n] = stage[n]
    BY EndedTask DEF RunTurn, Stages
  <1>4. turns'[m] = 1 /\ replies[m] = 0 /\ inbox[m].status # "completed"
    BY <1>1 DEF StageTells, AnsweredOnce
  <1>5. turns' \in [Messages -> Nat] /\ \A n \in Messages : n # m => turns'[n] = turns[n]
    BY <1>1
  <1>6. TypeOK'
    <2> HIDE DEF RunTurn
    <2> QED BY <1>1, <1>2, <1>3, <1>5
  <1>7. CursorIsBehind' /\ NothingIsSkipped' /\ BatchIsCovered' /\ FreshIsExclusive'
    BY <1>1, <1>2, <1>3, <1>5, TaskKeeps
  <1>8. StageTells' /\ AnsweredOnce'
    BY <1>1, <1>2, <1>3, <1>4, <1>5 DEF StageTells, AnsweredOnce
  <1> QED BY <1>6, <1>7, <1>8

(* A reply is enqueued *)
LEMMA ReplyInv ==
  ASSUME Inv, NEW m \in Messages, Reply(m)
  PROVE  Inv'
  <1> USE DEF Inv, TypeOK, Reply, consumer, poll, work
  <1>1. TypeOK'
    BY DEF Loops, Stages
  <1>2. CursorIsBehind'
    BY OneHolder DEF CursorIsBehind, Holds
  <1>3. NothingIsSkipped' /\ BatchIsCovered'
    BY DEF NothingIsSkipped, BatchIsCovered, Batch, Uncommitted, Messages
  <1>4. FreshIsExclusive'
    BY DEF FreshIsExclusive, FreshRow, Untouched, Uncommitted, First, Messages
  <1>5. StageTells' /\ AnsweredOnce'
    BY DEF StageTells, AnsweredOnce, FreshIsExclusive, Untouched
  <1> QED BY <1>1, <1>2, <1>3, <1>4, <1>5

(* A row is completed *)
LEMMA CompleteInv ==
  ASSUME Inv, NEW m \in Messages, Complete(m)
  PROVE  Inv'
  <1> USE DEF Inv, TypeOK
  <1>1. /\ stage[m] = "replied" /\ EndTask(m)
        /\ UNCHANGED <<arrived, lease, lapsed, token, cursor, loop, from, upto, fresh,
                       turns, replies>>
    BY DEF Complete, consumer, poll
  <1>2. [inbox[m] EXCEPT !.status = "completed"] \in Item
        /\ [inbox[m] EXCEPT !.status = "completed"].status = "completed"
    BY Rows
  <1>3. /\ inbox' \in [Messages -> Item]
        /\ \A n \in Messages : n # m => inbox'[n] = inbox[n]
        /\ inbox'[m] = inbox[m] \/ inbox'[m].status = "completed"
    <2>1. \/ inbox' = inbox
          \/ inbox' = [inbox EXCEPT ![m] = [inbox[m] EXCEPT !.status = "completed"]]
      BY DEF Complete
    <2> QED BY <2>1, <1>2
  <1>4. /\ runner' \in [Messages -> Processes \cup {None}]
        /\ stage' \in [Messages -> Stages] /\ stage'[m] = "none"
        /\ \A n \in Messages : n # m => stage'[n] = stage[n]
    BY <1>1, EndedTask
  <1>5. TypeOK'
    BY <1>1, <1>3, <1>4
  <1>6. CursorIsBehind' /\ NothingIsSkipped' /\ BatchIsCovered' /\ FreshIsExclusive'
    BY <1>1, <1>3, <1>4, TaskKeeps
  <1>7. StageTells' /\ AnsweredOnce'
    BY <1>1, <1>3, <1>4 DEF StageTells, AnsweredOnce
  <1> QED BY <1>5, <1>6, <1>7

(* A background task fails *)
LEMMA TaskFailsInv ==
  ASSUME Inv, NEW m \in Messages, TaskFails(m)
  PROVE  Inv'
  <1> USE DEF Inv, TypeOK
  <1>1. /\ stage[m] \in {"turn", "answered", "replied"} /\ EndTask(m)
        /\ UNCHANGED <<arrived, lease, lapsed, token, cursor, loop, from, upto, fresh,
                       turns, replies>>
    BY DEF TaskFails, consumer, poll
  <1>2. /\ inbox' \in [Messages -> Item]
        /\ \A n \in Messages : n # m => inbox'[n] = inbox[n]
        /\ inbox'[m] = inbox[m] \/ inbox'[m].status \in {"dead_letter", "retry_wait"}
    BY FailureRows DEF TaskFails
  <1>3. /\ runner' \in [Messages -> Processes \cup {None}]
        /\ stage' \in [Messages -> Stages] /\ stage'[m] = "none"
        /\ \A n \in Messages : n # m => stage'[n] = stage[n]
    BY <1>1, EndedTask
  <1>4. TypeOK'
    BY <1>1, <1>2, <1>3
  <1>5. CursorIsBehind' /\ NothingIsSkipped' /\ BatchIsCovered' /\ FreshIsExclusive'
    BY <1>1, <1>2, <1>3, TaskKeeps
  <1>6. StageTells' /\ AnsweredOnce'
    BY <1>1, <1>2, <1>3 DEF StageTells, AnsweredOnce
  <1> QED BY <1>4, <1>5, <1>6

(* Every step keeps the tokens old *)
LEMMA StepTokens ==
  ASSUME TypeOK, TokensAreOld, [Next]_vars
  PROVE  TokensAreOld'
  <1> USE DEF TypeOK, TokensAreOld, consumer, poll, work
  <1>1. CASE UNCHANGED <<lease, token>>
    BY <1>1
  <1>2. CASE Lapse \/ Arrive
    BY <1>1, <1>2 DEF Lapse, Arrive
  <1>3. ASSUME NEW p \in Processes, LoopStep(p) PROVE TokensAreOld'
    <2>1. CASE Acquire(p)
      BY <2>1 DEF Acquire
    <2>2. CASE RenewLate(p)
      BY <2>2 DEF RenewLate
    <2>3. CASE Stop(p)
      <3>1. lease'.token = lease.token /\ UNCHANGED token
        BY <2>3 DEF Stop
      <3> QED BY <3>1
    <2>4. CASE \/ Start(p) \/ Crash(p) \/ Poll(p) \/ Insert(p) \/ UpdateCursor(p)
               \/ Commit(p) \/ PersistFails(p) \/ LoopDies(p) \/ AllHandled(p)
      BY <1>1, <2>4 DEF Start, Crash, Poll, Insert, UpdateCursor, Commit, PersistFails,
                        LoopDies, AllHandled
    <2>5. ASSUME NEW m \in Messages, ClaimItem(p, m) \/ SkipItem(p, m) \/ Dispatch(p, m)
          PROVE  TokensAreOld'
      BY <1>1, <2>5 DEF ClaimItem, SkipItem, Dispatch
    <2> QED BY <1>3, <2>1, <2>2, <2>3, <2>4, <2>5 DEF LoopStep
  <1>4. ASSUME NEW m \in Messages, TaskStep(m) PROVE TokensAreOld'
    BY <1>1, <1>4 DEF TaskStep, BeginTurn, RunTurn, Reply, Complete, TaskFails
  <1>5. CASE UNCHANGED vars
    BY <1>1, <1>5 DEF vars
  <1> QED BY <1>2, <1>3, <1>4, <1>5 DEF Next

(* Every step preserves the invariant *)
LEMMA StepInv == Inv /\ TokensAreOld /\ [Next]_vars => Inv'
  <1> SUFFICES ASSUME Inv, TokensAreOld, [Next]_vars PROVE Inv'
    OBVIOUS
  <1>1. CASE Lapse \/ Arrive
    BY <1>1, LapseInv, ArriveInv
  <1>2. ASSUME NEW p \in Processes, LoopStep(p) PROVE Inv'
    <2>1. ASSUME NEW m \in Messages, ClaimItem(p, m) \/ SkipItem(p, m) \/ Dispatch(p, m)
          PROVE  Inv'
      BY <2>1, ClaimItemInv, SkipItemInv, DispatchInv
    <2> QED BY <1>2, <2>1, AcquireInv, RenewLateInv, StartInv, StopInv, CrashInv, PollInv, InsertInv,
               UpdateCursorInv, CommitInv, PersistFailsInv, LoopDiesInv, AllHandledInv
            DEF LoopStep
  <1>3. ASSUME NEW m \in Messages, TaskStep(m) PROVE Inv'
    BY <1>3, BeginTurnInv, RunTurnInv, ReplyInv, CompleteInv, TaskFailsInv DEF TaskStep
  <1>4. CASE UNCHANGED vars
    BY <1>4 DEF vars, Inv, TypeOK, CursorIsBehind, NothingIsSkipped, BatchIsCovered,
                FreshIsExclusive, FreshRow, Untouched, First, StageTells, AnsweredOnce,
                Uncommitted, Batch, Holds
  <1> QED BY <1>1, <1>2, <1>3, <1>4 DEF Next

(* The strengthened invariant holds in every reachable state *)
LEMMA Invariance == Spec => []Inv
  <1>1. Init => TokensAreOld
    BY DEF Init, TokensAreOld
  <1>2. Inv /\ TokensAreOld /\ [Next]_vars => TokensAreOld'
    BY StepTokens DEF Inv
  <1> QED BY <1>1, <1>2, InitInv, StepInv, PTL DEF Spec

(* The variables have their types, and no cursor is ahead of the provider *)
THEOREM TypeCorrect == Spec => []TypeOK
  BY Invariance, PTL DEF Inv

(* No message is acknowledged before it is stored, whatever processes poll,   *)
(* die or lose the lease                                                      *)
THEOREM NothingSkipped == Spec => []NothingIsSkipped
  BY Invariance, PTL DEF Inv

(* No message gets a second turn or a second reply *)
THEOREM AnsweredAtMostOnce == Spec => []AnsweredOnce
  BY Invariance, PTL DEF Inv

(* A row is new for one process only, and untouched until that one claims it  *)
THEOREM FreshRowsAreExclusive == Spec => []FreshIsExclusive
  BY Invariance, PTL DEF Inv

(* A process that lost the lease never moves the cursor back *)
THEOREM CursorNeverGoesBack == Spec => CursorOnlyAdvances
  <1>1. Inv /\ [Next]_vars => [cursor' >= cursor]_cursor
    <2> SUFFICES ASSUME Inv, [Next]_vars, cursor' # cursor PROVE cursor' >= cursor
      OBVIOUS
    <2>1. PICK p \in Processes : Commit(p)
      BY DEF vars, Next, LoopStep, TaskStep, Lapse, Arrive, Acquire, RenewLate, Start, Stop,
             Crash, Poll, Insert, UpdateCursor, PersistFails, LoopDies, AllHandled, ClaimItem,
             SkipItem, Dispatch, BeginTurn, RunTurn, Reply, Complete, TaskFails
    <2>2. loop[p] = "updated" /\ cursor' = upto[p]
      BY <2>1 DEF Commit
    <2> QED BY <2>2 DEF Inv, TypeOK, CursorIsBehind
  <1> QED BY <1>1, Invariance, PTL DEF Spec, CursorOnlyAdvances

--------------------------------------------------------------------------------
(* The refinement: every step of the inbox is a step of MessageFeed, or none  *)

(* What a transaction inserts belongs to its poll                             *)
FreshIsPolled == \A p \in Processes : Uncommitted(p) => fresh[p] \subseteq Batch(p)

(* Every step preserves that                                                  *)
LEMMA StepFreshIsPolled ==
  TypeOK /\ FreshIsPolled /\ [Next]_vars => FreshIsPolled'
  <1> SUFFICES ASSUME TypeOK, FreshIsPolled, [Next]_vars PROVE FreshIsPolled'
    OBVIOUS
  <1> USE DEF TypeOK, FreshIsPolled, Uncommitted, Batch, consumer, poll, work
  <1>1. CASE UNCHANGED <<loop, from, upto, fresh>>
    BY <1>1
  <1>2. CASE Lapse \/ Arrive
    BY <1>1, <1>2 DEF Lapse, Arrive
  <1>3. ASSUME NEW p \in Processes, LoopStep(p) PROVE FreshIsPolled'
    <2>1. CASE Insert(p)
      BY <2>1 DEF Insert, NewItems
    <2>2. CASE UpdateCursor(p)
      BY <2>2 DEF UpdateCursor
    <2>3. CASE Commit(p)
      BY <2>3 DEF Commit
    <2>4. CASE Acquire(p) \/ RenewLate(p) \/ Start(p) \/ Stop(p) \/ Crash(p)
      BY <2>4 DEF Acquire, RenewLate, Start, Stop, Crash, EndLoop
    <2>5. CASE Poll(p) \/ PersistFails(p) \/ LoopDies(p) \/ AllHandled(p)
      BY <2>5 DEF Poll, PersistFails, LoopDies, AllHandled
    <2>6. ASSUME NEW m \in Messages, ClaimItem(p, m) \/ SkipItem(p, m) \/ Dispatch(p, m)
          PROVE  FreshIsPolled'
      BY <2>6 DEF ClaimItem, SkipItem, Dispatch, Handled
    <2> QED BY <1>3, <2>1, <2>2, <2>3, <2>4, <2>5, <2>6 DEF LoopStep
  <1>4. ASSUME NEW m \in Messages, TaskStep(m) PROVE FreshIsPolled'
    BY <1>1, <1>4 DEF TaskStep, BeginTurn, RunTurn, Reply, Complete, TaskFails
  <1>5. CASE UNCHANGED vars
    BY <1>1, <1>5 DEF vars
  <1> QED BY <1>2, <1>3, <1>4, <1>5 DEF Next

(* It holds in every reachable state                                          *)
LEMMA FreshInvariance == Spec => []FreshIsPolled
  <1>1. Init => FreshIsPolled
    BY DEF Init, FreshIsPolled, Uncommitted
  <1> QED BY <1>1, StepFreshIsPolled, TypeCorrect, PTL DEF Spec

StoredItems   == {m \in Messages : inbox[m].status # "absent"}
AnsweredItems == {m \in Messages : turns[m] > 0}
RepliedItems  == {m \in Messages : replies[m] > 0}

Unseen == UNCHANGED <<arrived, cursor, StoredItems, AnsweredItems, RepliedItems>>

(* A step that leaves the provider, the cursor and the history alone, and     *)
(* that neither adds nor removes a row, is not seen by MessageFeed            *)
LEMMA Stutter ==
  ASSUME UNCHANGED <<arrived, cursor, turns, replies>>,
         \A m \in Messages : inbox'[m].status = "absent" <=> inbox[m].status = "absent"
  PROVE  Unseen
  BY DEF Unseen, StoredItems, AnsweredItems, RepliedItems

(* A failed task or claim does not remove its row                             *)
LEMMA FailureKeepsRows ==
  ASSUME TypeOK, NEW m \in Messages, inbox[m].status # "absent", Failure(m)
  PROVE  \A n \in Messages : inbox'[n].status = "absent" <=> inbox[n].status = "absent"
  BY FailureRows

(* The commit of a poll stores everything up to its cursor                    *)
LEMMA CommitStores ==
  ASSUME Inv, FreshIsPolled, NEW p \in Processes, Commit(p)
  PROVE  /\ cursor' \in cursor..arrived
         /\ StoredItems' = StoredItems \cup 1..cursor'
         /\ UNCHANGED <<arrived, AnsweredItems, RepliedItems>>
  <1> USE DEF Inv, TypeOK
  <1>1. /\ loop[p] = "updated" /\ cursor' = upto[p]
        /\ UNCHANGED <<arrived, turns, replies>>
        /\ \A m \in Messages :
             inbox'[m] = IF m \in fresh[p] THEN [status |-> "received", attempts |-> 0]
                                          ELSE inbox[m]
    BY DEF Commit, Stored, work
  <1>2. cursor' \in cursor..arrived
    BY <1>1 DEF CursorIsBehind
  <1>3. \A m \in Messages : inbox'[m].status # "absent" <=>
          m \in fresh[p] \/ inbox[m].status # "absent"
    BY <1>1
  <1>4. 1..cursor' \subseteq Messages
    BY <1>2, ChannelInboxAssumption DEF Messages
  <1>5. \A m \in 1..cursor' : m \in fresh[p] \/ inbox[m].status # "absent"
    <2> TAKE m \in 1..cursor'
    <2>1. m \in Messages
      BY <1>4
    <2>2. CASE m <= from[p]
      BY <2>1, <2>2 DEF NothingIsSkipped
    <2>3. CASE ~(m <= from[p])
      <3>1. m \in Batch(p)
        BY <1>1, <2>1, <2>3 DEF Batch, Messages
      <3> QED BY <1>1, <3>1 DEF BatchIsCovered, Uncommitted
    <2> QED BY <2>2, <2>3
  <1>6. fresh[p] \subseteq 1..cursor'
    BY <1>1 DEF FreshIsPolled, Uncommitted, Batch, Messages
  <1>7. StoredItems' = StoredItems \cup 1..cursor'
    BY <1>3, <1>4, <1>5, <1>6 DEF StoredItems
  <1> QED BY <1>1, <1>2, <1>7 DEF AnsweredItems, RepliedItems

(* A turn answers a stored message that was not answered                      *)
LEMMA RunTurnAnswers ==
  ASSUME Inv, NEW m \in Messages, RunTurn(m)
  PROVE  /\ m \in StoredItems \ AnsweredItems
         /\ AnsweredItems' = AnsweredItems \cup {m}
         /\ UNCHANGED <<arrived, cursor, StoredItems, RepliedItems>>
  <1> USE DEF Inv, TypeOK
  <1>1. /\ stage[m] = "turn" /\ turns' = [turns EXCEPT ![m] = @ + 1]
        /\ UNCHANGED <<arrived, cursor, replies>>
    BY DEF RunTurn
  <1>2. turns[m] = 0 /\ inbox[m].status # "absent"
    BY <1>1 DEF StageTells, FreshIsExclusive, Untouched
  <1>3. \A n \in Messages : inbox'[n].status = "absent" <=> inbox[n].status = "absent"
    BY <1>2, FailureKeepsRows DEF RunTurn
  <1>4. StoredItems' = StoredItems
    BY <1>3 DEF StoredItems
  <1>5. AnsweredItems' = AnsweredItems \cup {m}
    BY <1>1, <1>2 DEF AnsweredItems
  <1> QED BY <1>1, <1>2, <1>4, <1>5 DEF StoredItems, AnsweredItems, RepliedItems

(* A reply is the reply to an answered message                                *)
LEMMA ReplyReplies ==
  ASSUME Inv, NEW m \in Messages, Reply(m)
  PROVE  /\ m \in StoredItems /\ m \in AnsweredItems \ RepliedItems
         /\ RepliedItems' = RepliedItems \cup {m}
         /\ UNCHANGED <<arrived, cursor, StoredItems, AnsweredItems>>
  <1> USE DEF Inv, TypeOK
  <1>1. /\ stage[m] = "answered" /\ replies' = [replies EXCEPT ![m] = @ + 1]
        /\ UNCHANGED <<arrived, cursor, inbox, turns>>
    BY DEF Reply
  <1>2. turns[m] = 1 /\ replies[m] = 0 /\ inbox[m].status # "absent"
    BY <1>1 DEF StageTells, FreshIsExclusive, Untouched
  <1>3. RepliedItems' = RepliedItems \cup {m}
    BY <1>1, <1>2 DEF RepliedItems
  <1> QED BY <1>1, <1>2, <1>3 DEF StoredItems, AnsweredItems, RepliedItems

(* The other steps of a poll loop are not seen                                *)
LEMMA LoopStepUnseen ==
  ASSUME Inv, NEW p \in Processes, LoopStep(p), ~Commit(p)
  PROVE  Unseen
  <1> USE DEF Inv, TypeOK, consumer, poll, work
  <1>1. CASE UNCHANGED <<arrived, cursor, inbox, turns, replies>>
    BY <1>1, Stutter
  <1>2. ASSUME NEW m \in Messages, ClaimItem(p, m) PROVE Unseen
    <2>1. inbox[m].status # "absent"
      BY <1>2 DEF ClaimItem, Claimable
    <2>2. \A n \in Messages : inbox'[n].status = "absent" <=> inbox[n].status = "absent"
      BY <1>2, <2>1 DEF ClaimItem
    <2> QED BY <1>2, <2>2, Stutter DEF ClaimItem
  <1>3. ASSUME NEW m \in Messages, Dispatch(p, m) PROVE Unseen
    <2>1. inbox[m].status # "absent"
      BY <1>3 DEF Dispatch, First, FreshIsExclusive, FreshRow, Uncommitted
    <2>2. \A n \in Messages : inbox'[n].status = "absent" <=> inbox[n].status = "absent"
      BY <1>3, <2>1, FailureKeepsRows DEF Dispatch
    <2> QED BY <1>3, <2>2, Stutter DEF Dispatch
  <1>4. CASE Acquire(p) \/ RenewLate(p) \/ Start(p) \/ Stop(p) \/ Crash(p) \/ Poll(p)
    BY <1>1, <1>4 DEF Acquire, RenewLate, Start, Stop, Crash, Poll
  <1>5. CASE Insert(p) \/ UpdateCursor(p) \/ PersistFails(p) \/ LoopDies(p) \/ AllHandled(p)
    BY <1>1, <1>5 DEF Insert, UpdateCursor, PersistFails, LoopDies, AllHandled
  <1>6. ASSUME NEW m \in Messages, SkipItem(p, m) PROVE Unseen
    BY <1>1, <1>6 DEF SkipItem
  <1> QED BY <1>2, <1>3, <1>4, <1>5, <1>6 DEF LoopStep

(* The other steps of a background task are not seen                          *)
LEMMA TaskStepUnseen ==
  ASSUME Inv, NEW m \in Messages, TaskStep(m), ~RunTurn(m), ~Reply(m)
  PROVE  Unseen
  <1> USE DEF Inv, TypeOK, consumer, poll, work
  <1>1. CASE BeginTurn(m)
    BY <1>1, Stutter DEF BeginTurn
  <1>2. stage[m] # "none" => inbox[m].status # "absent"
    BY DEF FreshIsExclusive, Untouched
  <1>3. CASE Complete(m)
    <2>1. \A n \in Messages : inbox'[n].status = "absent" <=> inbox[n].status = "absent"
      BY <1>3, Rows DEF Complete
    <2> QED BY <1>3, <2>1, Stutter DEF Complete
  <1>4. CASE TaskFails(m)
    <2>1. \A n \in Messages : inbox'[n].status = "absent" <=> inbox[n].status = "absent"
      BY <1>2, <1>4, FailureKeepsRows DEF TaskFails
    <2> QED BY <1>4, <2>1, Stutter DEF TaskFails
  <1> QED BY <1>1, <1>3, <1>4 DEF TaskStep

(* The lease, the polls and the tasks of all processes implement MessageFeed, *)
(* which knows nothing of processes, leases or transactions                   *)
THEOREM RefinesFeed == Spec => ImplementsFeed
  <1> USE DEF Feed!vars, StoredItems, AnsweredItems, RepliedItems
  <1>1. Init => Feed!Init
    BY DEF Init, Feed!Init
  <1>2. Inv /\ FreshIsPolled /\ [Next]_vars => [Feed!Next]_(Feed!vars)
    <2> SUFFICES ASSUME Inv, FreshIsPolled, [Next]_vars PROVE [Feed!Next]_(Feed!vars)
      OBVIOUS
    <2>1. Unseen => UNCHANGED Feed!vars
      BY DEF Unseen
    <2>2. CASE Arrive
      <3>1. Feed!Arrive
        BY <2>2 DEF Arrive, Feed!Arrive, work
      <3> QED BY <3>1 DEF Feed!Next
    <2>3. ASSUME NEW p \in Processes, Commit(p) PROVE Feed!Next
      <3>1. PICK n \in cursor..arrived : n = cursor'
        BY <2>3, CommitStores
      <3>2. Feed!Store(n)
        BY <2>3, <3>1, CommitStores DEF Feed!Store
      <3> QED BY <3>1, <3>2 DEF Feed!Next
    <2>4. ASSUME NEW m \in Messages, RunTurn(m) PROVE Feed!Next
      <3>1. Feed!Answer(m)
        BY <2>4, RunTurnAnswers DEF Feed!Answer
      <3> QED BY <2>4, <3>1, RunTurnAnswers DEF Feed!Next
    <2>5. ASSUME NEW m \in Messages, Reply(m) PROVE Feed!Next
      <3>1. Feed!Reply(m)
        BY <2>5, ReplyReplies DEF Feed!Reply
      <3> QED BY <2>5, <3>1, ReplyReplies DEF Feed!Next
    <2>6. CASE Lapse
      BY <2>6, <2>1, Stutter DEF Lapse, work
    <2>7. ASSUME NEW p \in Processes, LoopStep(p) PROVE [Feed!Next]_(Feed!vars)
      BY <2>7, <2>1, <2>3, LoopStepUnseen
    <2>8. ASSUME NEW m \in Messages, TaskStep(m) PROVE [Feed!Next]_(Feed!vars)
      BY <2>8, <2>1, <2>4, <2>5, TaskStepUnseen
    <2>9. CASE UNCHANGED vars
      BY <2>9 DEF vars
    <2> QED BY <2>2, <2>6, <2>7, <2>8, <2>9 DEF Next
  <1> QED BY <1>1, <1>2, Invariance, FreshInvariance, PTL
          DEF Spec, ImplementsFeed, Feed!Spec
================================================================================
