----------------------------- MODULE ChannelInbox -----------------------------
(***************************************************************************)
(* Inbound WeChat messages of one user (channels/): the consumer lease     *)
(* that several processes compete for, the poll loop that stores what the  *)
(* provider returns together with the cursor, and the background tasks     *)
(* that run one agent turn per message and close its inbox row.            *)
(*                                                                         *)
(* A poll is stored in one transaction of three steps here: the fence is   *)
(* read and the rows are inserted, the cursor is updated under the same    *)
(* fence, the transaction commits.  All messages are text messages of the  *)
(* bound sender; other ones are stored too and never handled.              *)
(***************************************************************************)
EXTENDS Integers, FiniteSets

CONSTANTS
  Processes,    \* instances with wechat_agent_consumer_enabled
  None,         \* no process
  MaxMessages,  \* bound: messages the provider ever has
  MaxToken,     \* bound: fencing tokens that a pool may lose
  MaxAttempts   \* wechat_agent_max_attempts

ASSUME ChannelInboxAssumption ==
  /\ None \notin Processes
  /\ MaxMessages \in Nat /\ MaxToken \in Nat
  /\ MaxAttempts \in Nat \ {0}

Messages == 1..MaxMessages   \* in the order of the provider's cursor

VARIABLES
  arrived,   \* number of messages the provider has
  lease,     \* the wechat_consumer_leases row
  lapsed,    \* its lease_until has passed
  cursor,    \* committed cursor of the credential and its registration
  inbox,     \* committed wechat_inbox rows
  loop,      \* where the poll loop of each process is
  token,     \* the fencing token it was configured with
  from,      \* the cursor it polls from
  upto,      \* the cursor its last poll returned
  fresh,     \* the rows it inserted and has still to handle
  runner,    \* the process that has a background task for the message
  stage,     \* and how far that task is
  turns,     \* history: agent turns committed for the message
  replies    \* history: replies enqueued for it

vars == <<arrived, lease, lapsed, cursor, inbox, loop, token, from, upto, fresh,
          runner, stage, turns, replies>>
consumer == <<lease, lapsed, token>>
poll     == <<from, upto>>
work     == <<runner, stage, turns, replies>>

Statuses == {"absent", "received", "processing", "retry_wait", "completed",
             "dead_letter"}
Item     == [status: Statuses, attempts: Nat]
Loops    == {"down", "starting", "polling", "polled", "inserted", "updated",
             "handling", "claimed", "dead"}
Stages   == {"none", "waiting", "turn", "answered", "replied"}

Init ==
  /\ arrived = 0
  /\ lease = [owner |-> None, token |-> 0]
  /\ lapsed = FALSE
  /\ cursor = 0
  /\ inbox = [m \in Messages |-> [status |-> "absent", attempts |-> 0]]
  /\ loop = [p \in Processes |-> "down"]
  /\ token = [p \in Processes |-> 0]
  /\ from = token /\ upto = token
  /\ fresh = [p \in Processes |-> {}]
  /\ runner = [m \in Messages |-> None]
  /\ stage = [m \in Messages |-> "none"]
  /\ turns = [m \in Messages |-> 0]
  /\ replies = turns

--------------------------------------------------------------------------------
(* The consumer lease: ConsumerLeaseManager, ConsumerLeaseSupervisor *)

Holds(p) == lease = [owner |-> p, token |-> token[p]]
Valid(p) == Holds(p) /\ ~lapsed

(* The bound: a pool that holds the last token keeps it *)
MayLose == lease.token < MaxToken \/ \A p \in Processes : token[p] # lease.token

(* Mutant of Acquire: a lease that has ended is not taken over *)
AcquireFree(p) ==
  /\ loop[p] = "down"
  /\ lease.owner = None
  /\ MayLose
  /\ lease' = [owner |-> p, token |-> lease.token + 1]
  /\ lapsed' = FALSE
  /\ token' = [token EXCEPT ![p] = lease.token + 1]
  /\ loop' = [loop EXCEPT ![p] = "starting"]
  /\ UNCHANGED <<arrived, cursor, inbox, poll, fresh, work>>

(* try_acquire_or_renew of a process without a token *)
Acquire(p) ==
  /\ loop[p] = "down"
  /\ lease.owner = None \/ lapsed
  /\ MayLose
  /\ lease' = [owner |-> p, token |-> lease.token + 1]
  /\ lapsed' = FALSE
  /\ token' = [token EXCEPT ![p] = lease.token + 1]
  /\ loop' = [loop EXCEPT ![p] = "starting"]
  /\ UNCHANGED <<arrived, cursor, inbox, poll, fresh, work>>

(* A renewal that comes too late takes the free lease with a new token, which *)
(* the pool of the process never learns: _renew_loop counts a failure, and    *)
(* nobody passes the fence until the lease has ended again.                   *)
RenewLate(p) ==
  /\ loop[p] # "down"
  /\ lease.owner = None \/ lapsed
  /\ lease.token < MaxToken
  /\ lease' = [owner |-> p, token |-> lease.token + 1]
  /\ lapsed' = FALSE
  /\ UNCHANGED <<arrived, cursor, inbox, loop, token, poll, fresh, work>>

(* lease_until passes before the next renewal *)
Lapse ==
  /\ lease.owner # None /\ ~lapsed
  /\ MayLose
  /\ lapsed' = TRUE
  /\ UNCHANGED <<arrived, lease, cursor, inbox, loop, token, poll, fresh, work>>

(* Mutant of Start: the loop starts behind the message at its cursor *)
StartPast(p) ==
  /\ loop[p] = "starting"
  /\ loop' = [loop EXCEPT ![p] = "polling"]
  /\ from' = [from EXCEPT ![p] = cursor + 1]
  /\ UNCHANGED <<arrived, consumer, cursor, inbox, upto, fresh, work>>

(* ILinkConnectionPool.startup: the cursor is read from the registration *)
Start(p) ==
  /\ loop[p] = "starting"
  /\ loop' = [loop EXCEPT ![p] = "polling"]
  /\ from' = [from EXCEPT ![p] = cursor]
  /\ UNCHANGED <<arrived, consumer, cursor, inbox, upto, fresh, work>>

EndLoop(p) ==
  /\ loop' = [loop EXCEPT ![p] = "down"]
  /\ fresh' = [fresh EXCEPT ![p] = {}]

(* Two renewals failed, or the process shuts down: the poll loop is cancelled, *)
(* its open transaction rolled back and the lease released if it is still     *)
(* held.  Background tasks are not cancelled.                                 *)
Stop(p) ==
  /\ loop[p] # "down"
  /\ Valid(p) => MayLose
  /\ EndLoop(p)
  /\ lease' = IF Holds(p) THEN [lease EXCEPT !.owner = None] ELSE lease
  /\ UNCHANGED <<arrived, lapsed, cursor, inbox, token, poll, work>>

(* The process dies, its background tasks with it *)
Crash(p) ==
  /\ loop[p] # "down" \/ \E m \in Messages : runner[m] = p
  /\ Valid(p) => MayLose
  /\ EndLoop(p)
  /\ runner' = [m \in Messages |-> IF runner[m] = p THEN None ELSE runner[m]]
  /\ stage' = [m \in Messages |-> IF runner[m] = p THEN "none" ELSE stage[m]]
  /\ UNCHANGED <<arrived, consumer, cursor, inbox, poll, turns, replies>>

--------------------------------------------------------------------------------
(* One poll: _poll_loop, persist_poll_batch *)

Arrive ==
  /\ arrived < MaxMessages
  /\ arrived' = arrived + 1
  /\ UNCHANGED <<consumer, cursor, inbox, loop, poll, fresh, work>>

(* getupdates *)
Poll(p) ==
  /\ loop[p] = "polling"
  /\ loop' = [loop EXCEPT ![p] = "polled"]
  /\ upto' = [upto EXCEPT ![p] = arrived]
  /\ UNCHANGED <<arrived, consumer, cursor, inbox, from, fresh, work>>

Batch(p) == {m \in Messages : from[p] < m /\ m <= upto[p]}

(* Mutant of NewItems: rows that exist already are handled again *)
NewItemsAll(p) == Batch(p)

(* ON CONFLICT DO NOTHING on the dedupe key *)
NewItems(p) == {m \in Batch(p) : inbox[m].status = "absent"}

Uncommitted(p) == loop[p] \in {"inserted", "updated"}

(* The fence is read with the lease time; an insert waits for an open        *)
(* transaction that has inserted the same key.                               *)
Insert(p) ==
  /\ loop[p] = "polled"
  /\ Valid(p)
  /\ \A q \in Processes \ {p} : Uncommitted(q) => fresh[q] \cap Batch(p) = {}
  /\ fresh' = [fresh EXCEPT ![p] = NewItems(p)]
  /\ loop' = [loop EXCEPT ![p] = "inserted"]
  /\ UNCHANGED <<arrived, consumer, cursor, inbox, poll, work>>

(* Mutant of Fence: the cursor is updated by credential alone *)
FenceNone(p) == p \in Processes

(* now() is the start of the transaction, so a lease that ended since then    *)
(* is noticed only when another process has taken it.                         *)
Fence(p) == Holds(p)

UpdateCursor(p) ==
  /\ loop[p] = "inserted"
  /\ Fence(p)
  /\ \A q \in Processes : loop[q] # "updated"
  /\ loop' = [loop EXCEPT ![p] = "updated"]
  /\ UNCHANGED <<arrived, consumer, cursor, inbox, poll, fresh, work>>

(* Mutant of Stored: of two new messages only the first is stored *)
StoredFirst(p) == {m \in fresh[p] : m = from[p] + 1}

Stored(p) == fresh[p]

(* The rows and the cursor become visible.  When the answer to the commit is *)
(* lost, the loop polls again from its old cursor.                           *)
Commit(p) ==
  /\ loop[p] = "updated"
  /\ cursor' = upto[p]
  /\ inbox' = [m \in Messages |-> IF m \in Stored(p)
                                    THEN [status |-> "received", attempts |-> 0]
                                    ELSE inbox[m]]
  /\ \/ /\ loop' = [loop EXCEPT ![p] = "handling"]
        /\ from' = [from EXCEPT ![p] = upto[p]]
        /\ UNCHANGED fresh
     \/ /\ loop' = [loop EXCEPT ![p] = "polling"]
        /\ fresh' = [fresh EXCEPT ![p] = {}]
        /\ UNCHANGED from
  /\ UNCHANGED <<arrived, consumer, upto, work>>

(* StaleConsumerFence, or the database fails: rolled back, polled again *)
PersistFails(p) ==
  /\ loop[p] = "polled" \/ Uncommitted(p)
  /\ loop' = [loop EXCEPT ![p] = "polling"]
  /\ fresh' = [fresh EXCEPT ![p] = {}]
  /\ UNCHANGED <<arrived, consumer, cursor, inbox, poll, work>>

--------------------------------------------------------------------------------
(* Handling the new messages of a poll, in their order *)

First(p, m) == m \in fresh[p] /\ \A n \in fresh[p] : m <= n

Handled(p, m) == fresh' = [fresh EXCEPT ![p] = @ \ {m}]

Claimable(m) == inbox[m].status \in {"received", "retry_wait"}

(* persist_inbound_message, claim_inbox_item *)
ClaimItem(p, m) ==
  /\ loop[p] = "handling" /\ First(p, m)
  /\ Claimable(m)
  /\ inbox' = [inbox EXCEPT ![m] = [status |-> "processing",
                                    attempts |-> inbox[m].attempts + 1]]
  /\ loop' = [loop EXCEPT ![p] = "claimed"]
  /\ UNCHANGED <<arrived, consumer, cursor, poll, fresh, work>>

(* The inbound message could not be stored, or the row could not be claimed *)
SkipItem(p, m) ==
  /\ loop[p] = "handling" /\ First(p, m)
  /\ Handled(p, m)
  /\ UNCHANGED <<arrived, consumer, cursor, inbox, loop, poll, work>>

(* claim_inbox_item raises outside of every try, or startup could not load    *)
(* the registrations and goes on without them: there is no poll loop, the     *)
(* lease is renewed all the same.                                             *)
LoopDies(p) ==
  /\ loop[p] = "starting" \/ (loop[p] = "handling" /\ fresh[p] # {})
  /\ loop' = [loop EXCEPT ![p] = "dead"]
  /\ fresh' = [fresh EXCEPT ![p] = {}]
  /\ UNCHANGED <<arrived, consumer, cursor, inbox, poll, work>>

AllHandled(p) ==
  /\ loop[p] = "handling" /\ fresh[p] = {}
  /\ loop' = [loop EXCEPT ![p] = "polling"]
  /\ UNCHANGED <<arrived, consumer, cursor, inbox, poll, fresh, work>>

(* finish_inbox_item(succeeded=False) *)
Failed(item) ==
  [item EXCEPT !.status = IF item.attempts >= MaxAttempts THEN "dead_letter"
                                                           ELSE "retry_wait"]

(* What a failure leaves: finish_inbox_item may fail as well *)
Failure(m) == inbox' \in {inbox, [inbox EXCEPT ![m] = Failed(@)]}

(* The placeholder is enqueued and the background task created.  A message   *)
(* without text or context token stays in processing.                        *)
Dispatch(p, m) ==
  /\ loop[p] = "claimed" /\ First(p, m)
  /\ loop' = [loop EXCEPT ![p] = "handling"]
  /\ Handled(p, m)
  /\ \/ /\ runner' = [runner EXCEPT ![m] = p]
        /\ stage' = [stage EXCEPT ![m] = "waiting"]
        /\ UNCHANGED inbox
     \/ Failure(m) /\ UNCHANGED <<runner, stage>>
  /\ UNCHANGED <<arrived, consumer, cursor, poll, turns, replies>>

--------------------------------------------------------------------------------
(* The background task of a message: _dispatch_agent_reply *)

EndTask(m) ==
  /\ runner' = [runner EXCEPT ![m] = None]
  /\ stage' = [stage EXCEPT ![m] = "none"]

(* The lock of the user in that process, which is granted in order *)
BeginTurn(m) ==
  /\ stage[m] = "waiting"
  /\ \A n \in Messages \ {m} :
       runner[n] = runner[m] => stage[n] = "waiting" /\ m < n
  /\ stage' = [stage EXCEPT ![m] = "turn"]
  /\ UNCHANGED <<arrived, consumer, cursor, inbox, loop, poll, fresh, runner, turns,
                 replies>>

(* process_inbound_reply commits the turn.  An empty reply fails. *)
RunTurn(m) ==
  /\ stage[m] = "turn"
  /\ turns' = [turns EXCEPT ![m] = @ + 1]
  /\ \/ /\ stage' = [stage EXCEPT ![m] = "answered"]
        /\ UNCHANGED <<inbox, runner>>
     \/ Failure(m) /\ EndTask(m)
  /\ UNCHANGED <<arrived, consumer, cursor, loop, poll, fresh, replies>>

(* enqueue_outbound_message *)
Reply(m) ==
  /\ stage[m] = "answered"
  /\ stage' = [stage EXCEPT ![m] = "replied"]
  /\ replies' = [replies EXCEPT ![m] = @ + 1]
  /\ UNCHANGED <<arrived, consumer, cursor, inbox, loop, poll, fresh, runner, turns>>

(* finish_inbox_item(succeeded=True) *)
Complete(m) ==
  /\ stage[m] = "replied"
  /\ inbox' = IF inbox[m].status = "processing"
                THEN [inbox EXCEPT ![m].status = "completed"] ELSE inbox
  /\ EndTask(m)
  /\ UNCHANGED <<arrived, consumer, cursor, loop, poll, fresh, turns, replies>>

(* The turn is rolled back, or the reply or the end cannot be stored *)
TaskFails(m) ==
  /\ stage[m] \in {"turn", "answered", "replied"}
  /\ Failure(m)
  /\ EndTask(m)
  /\ UNCHANGED <<arrived, consumer, cursor, loop, poll, fresh, turns, replies>>

--------------------------------------------------------------------------------

LoopStep(p) ==
  \/ Acquire(p) \/ RenewLate(p) \/ Start(p) \/ Stop(p) \/ Crash(p)
  \/ Poll(p) \/ Insert(p) \/ UpdateCursor(p) \/ Commit(p) \/ PersistFails(p)
  \/ LoopDies(p) \/ AllHandled(p)
  \/ \E m \in Messages : ClaimItem(p, m) \/ SkipItem(p, m) \/ Dispatch(p, m)

TaskStep(m) ==
  BeginTurn(m) \/ RunTurn(m) \/ Reply(m) \/ Complete(m) \/ TaskFails(m)

Next ==
  \/ Lapse \/ Arrive
  \/ \E p \in Processes : LoopStep(p)
  \/ \E m \in Messages : TaskStep(m)

Spec == Init /\ [][Next]_vars

(* A lease that nobody renews ends, a standby process tries again every few   *)
(* seconds, a process that lost the lease notices, and a poll loop goes on:   *)
(* a poll that is tried again and again is stored in the end.                 *)
Fairness ==
  /\ WF_vars(Lapse /\ loop[lease.owner] = "down")
  /\ \A p \in Processes :
       /\ WF_vars(Acquire(p)) /\ WF_vars(Stop(p) /\ ~Valid(p))
       /\ WF_vars(Start(p)) /\ WF_vars(Poll(p)) /\ WF_vars(AllHandled(p))
       /\ SF_vars(Insert(p)) /\ SF_vars(UpdateCursor(p)) /\ SF_vars(Commit(p))
       /\ WF_vars(\E m \in Messages : ClaimItem(p, m) \/ SkipItem(p, m) \/ Dispatch(p, m))
  /\ \A m \in Messages : WF_vars(TaskStep(m))

FairSpec == Spec /\ Fairness

--------------------------------------------------------------------------------
(* Properties *)

(* Types; the cursors never run ahead of the provider. *)
TypeOK ==
  /\ arrived \in 0..MaxMessages
  /\ lease \in [owner: Processes \cup {None}, token: Nat]
  /\ lapsed \in BOOLEAN
  /\ cursor \in 0..arrived
  /\ inbox \in [Messages -> Item]
  /\ loop \in [Processes -> Loops]
  /\ token \in [Processes -> Nat]
  /\ from \in [Processes -> 0..arrived]
  /\ upto \in [Processes -> 0..arrived]
  /\ fresh \in [Processes -> SUBSET Messages]
  /\ runner \in [Messages -> Processes \cup {None}]
  /\ stage \in [Messages -> Stages]
  /\ turns \in [Messages -> Nat]
  /\ replies \in [Messages -> Nat]

(* No message is acknowledged to the provider before it is stored: whatever   *)
(* process died, lost its lease or was rolled back, every message up to the   *)
(* committed cursor, and up to the cursor any loop has polled from, has its   *)
(* row (persist_poll_batch: one fenced transaction).                          *)
NothingIsSkipped ==
  \A m \in Messages :
    m <= cursor \/ (\E p \in Processes : m <= from[p]) => inbox[m].status # "absent"

(* The cursor never goes back: a process that lost the lease in the middle of *)
(* a poll cannot write over its successor (the fence in the cursor UPDATE).   *)
CursorOnlyAdvances == [][cursor' >= cursor]_cursor

(* However often a message is delivered, and by however many processes, it    *)
(* gets at most one agent turn and one reply, and its row is completed only   *)
(* with the reply stored (processable_items, claim_inbox_item).               *)
AnsweredOnce ==
  \A m \in Messages :
    /\ turns[m] <= 1 /\ replies[m] <= turns[m]
    /\ inbox[m].status = "completed" => replies[m] = 1

(* What the provider has is stored in the end, in spite of crashes and lost   *)
(* leases, as long as the holder's poll loop has not died under it.           *)
LoopDiedUnderLease == \E p \in Processes : Holds(p) /\ loop[p] = "dead"

ArrivedMessagesAreStored ==
  \A m \in Messages :
    arrived >= m ~> inbox[m].status # "absent" \/ LoopDiedUnderLease

(* The lease, the polls and the tasks together do what MessageFeed promises:  *)
(* every commit of a poll stores its messages and moves the cursor over       *)
(* exactly them, and turns and replies come once, in that order.              *)
Feed == INSTANCE MessageFeed WITH
  forgotten <- cursor,
  stored    <- {m \in Messages : inbox[m].status # "absent"},
  answered  <- {m \in Messages : turns[m] > 0},
  replied   <- {m \in Messages : replies[m] > 0}

ImplementsFeed == Feed!Spec
================================================================================
