# InterCraft in TLA+

InterCraft is a web application for job seekers: résumés, interview training, an
AI agent that is reached over WeChat, and a point account that pays for AI work.
The back end (`src/backend/app`) is FastAPI with PostgreSQL, Redis and ARQ
workers; the browser application is `src/src`. This directory holds TLA+ models
of its protocols, the configurations that TLC checks them with, and proofs that
TLAPS checks. Source paths below are relative to `src/backend/app` unless they
begin with `src/`.

| module | what it is |
| --- | --- |
| `PointLedger` | grants, compensations, reservations, settlements, releases, refunds and expiry of points, in overlapping sessions |
| `PointPurse` | the abstract specification that `PointLedger` implements |
| `Dispatch` | durable dispatch intents: scans, claims, jobs, leases |
| `DurableQueue` | the abstract specification that `Dispatch` implements |
| `AgentTask` | tasks of the WeChat agent: turns, tools, confirmations, cancellation, recovery |
| `ToolApproval` | the abstract specification that `AgentTask` implements |
| `ChannelInbox` | WeChat messages: consumer lease, poll loop, stored polls, reply tasks |
| `MessageFeed` | the abstract specification that `ChannelInbox` implements |
| `OutboundDelivery` | WeChat replies and notices: poll loops and the drain that claim and send them |
| `MessageDelivery` | the abstract specification that `OutboundDelivery` implements |
| `TaskAcceptance` | `POST /ai-tasks`: idempotency key, reservation, task and intent in one transaction |
| `AcceptOnce` | the abstract specification that `TaskAcceptance` implements |
| `TaskRuntime` | cancellation and re-execution of an AI task, and its log of events |
| `TaskPage` | the browser page that polls that log; extends `TaskRuntime` |
| `EditLock` | the Redis lock of a resource, the hook that drives it, and the stale sweeps |
| `*Proofs` | theorems and proofs; those of `TaskRuntime` are in `TaskPageProofs` |
| `MC*` | model values and symmetry for TLC; the `.cfg` files give the bounds |

`PROJECT.json` has the machine-readable form: the lines each definition stands
for, the runs, a plausible bug for every checked property, the findings, the
hazards and the theorems. The operators called "Mutant of ..." in the modules
are those bugs; nothing in a specification uses them.

## 1. Inventory

How the parts interact: a WeChat message is polled by the inbox, answered by an
agent turn (`AgentTask`), and the reply is queued for outbound delivery. AI work
requested in the browser is accepted against a quote: acceptance reserves points
in the ledger and inserts a task and a dispatch intent in one transaction; a
scan delivers the intent to a worker, which drives the AI task runtime and
finally settles or releases the points. All parts share PostgreSQL, with one
session per request or job (`core/db.py`), which commits at its normal exit and
rolls back on `Exception` only: a cancelled coroutine commits what it has
flushed. Jobs are handed over through Redis, which may lose or repeat them.

**Point ledger** (`modules/ai_metering/points`, `repository.py`, two workers).
State: an account projection (available, reserved), FIFO buckets with four
columns (available, reserved, consumed, expired), reservations with what is left
of them, quotes, an append-only log with postings. Operations: daily grant,
compensate, reserve, settle, release, refund, expire. Hard: account and rows are
read by plain SELECTs and overwritten from the copy, so overlapping commands
lose updates; the expiry worker commits a bucket whose expiry was refused; long
mixes of partial commands; buckets that lapse while points of them are reserved;
several reservations on one bucket. Correct when points are conserved, the
projection agrees with the rows, nothing is spent twice, and what expires first
is spent first: the first three only until an update is lost or an expiry goes
unposted. *Modelled.* `settle`, `release`, `refund` and
`compensate_cross_day_release` have no caller in the program yet; the model
takes them as the code offers them.

**Dispatch intents** (`modules/ai_runtime/recovery/service.py`, `repository.py`,
`workers/tasks/ai_task_dispatch.py`). State: intent rows (status,
claim_generation, attempt_count, claim_expires_at) and ARQ jobs. Operations: a
scan every 30 s that resets stranded intents, claims pending ones and enqueues a
job for each; a job that claims and confirms. Hard: overlapping scans, jobs that
run before the scan commits, late, lost and repeated jobs, a compare-and-set on
the generation only. Correct when claims are counted, fenced and bounded, leases
are respected, and every intent settles. *Partly*: `retry_wait` is left out,
because nothing in the program puts an intent there.

**Agent tasks** (`modules/agent`, `workers/tasks/agent_task_recovery.py`). State:
task rows (status, epoch, claim), tool executions with their confirmations, the
WeChat binding and its epoch. Operations: a turn of the model, the decision on a
proposal by message or on the web, edit, reject, cancel, recovery, resume and
replay, bind and unbind. Hard: one turn is one long transaction that others
cannot see; claims that lapse under it; a cancellation, or a rejection that ends
in one, decided on an old read;
crash and shutdown in the middle. Correct when a tool that needs a confirmation
acts only with it, recovery repeats nothing that may have had an effect, and no
task waits for nothing. *Modelled*, with the exceptions in section 6.

**WeChat inbox** (`channels/durable_inbox.py`, `ilink_pool.py`,
`consumer_lease.py`). State: the consumer lease with its fencing token, the
cursor, inbox rows, a poll loop per process, a background task per message.
Operations: acquire, lose and release the lease; poll; store a poll with its
cursor; claim a row; run the turn; enqueue the reply; close the row. Hard:
handing the lease over in the middle of a poll, lost answers of commits, crashes
between any two steps. Correct when nothing is skipped, nothing is answered
twice and the cursor never goes back. *Partly*, see section 6.

**Outbound delivery** (`channels/message_handler.py`,
`modules/agent/repository.py`, `workers/tasks/agents_outbound_drain.py`). State:
outbound `agent_messages` with two status columns, a claim and a time for the
next attempt. Operations: enqueue (from the reply of a turn, and from a finished
research report), claim the due rows of a user, send them, write their results;
the drain also gives up what is too old. Hard: the claim, all sends and all
results are one transaction, so a crash after a send forgets it while a
cancelled send commits the claim; two senders at once; an answer of the provider
that leaves open whether it took the message. Correct when a message is repeated
only where a result was lost, nothing is sent after it was settled, and no reply
is left behind. *Partly*, see section 6.

**Acceptance** (`modules/ai_runtime/acceptance.py`, `api.py`, and the parts of
the point service that it calls). State: tasks with their idempotency keys, a
quote, the account and its buckets, the grant of the day. Operation: one
request, one transaction, of many statements. Hard: the same key twice at the
same time; account and buckets are read without a lock; the first requests of a
day all grant; an answer that refuses, after rows were flushed. Correct when a
key stands for one task, which is charged once, and no transaction waits for
ever. *Partly*, see section 6.

**AI task runtime and its page** (`modules/ai_runtime/control.py`, `service.py`,
`repository.py`, `state_machine.py`; `src/src/hooks/queries/useAITasks.ts`).
State: the task with status and version, executions, a log of numbered events;
in the browser a cursor, the events shown and a cache. Operations: cancel,
re-execute, list events after a cursor, poll, refresh. Hard: the task is read
without a lock and the numbers of events and executions are computed from what
was read; status and events are read by two statements; an answer may arrive
for a cursor that has moved. Correct when the log has no gaps and tells the
status, and a page shows all of it. *Partly*: nothing in the program moves a
task to any status but accepted and cancelled, so the rest of the state machine
is unreachable.

**Edit locks** (`modules/locks`, `src/src/lib/lock`). State: a Redis key with a
time to live, and in each editor a status, a lock id and a timer. Operations:
acquire, heartbeat, release, the sweep of stale locks. Hard: all but the
acquisition are several calls of Redis; heartbeats write back what they read;
one user in two tabs has one lock. Correct when editors of two users are never
both told that they hold the lock, and an abandoned lock ends. *Partly*, see
section 6.

Not modelled yet:

- **Client outbox** (`src/src/lib/outbox`, `modules/outbox`): offline edits
  replayed in batches. Correct when no edit is lost or applied twice. It is next
  in the plan (section 7).
- **Agent command outbox** (`workers/tasks/agent_command_outbox_drain.py`): a
  drain with a claim per row, close to outbound delivery.
- **Projections of AI tasks**: consumers of the runtime's events.

Left out for good: the provider gateway and its circuit breakers (external calls
with a local counter), usage, budgets and reconciliation (append-only records
and reports), sessions and accounts (one short transaction each), the résumé
back end, interviews, research and LangGraph agents (CRUD, or control inside a
library), memory, observability and evaluation, the other CRUD modules,
administration, and the browser's rendering. `PROJECT.json` names their files.

## 2. Modules

### PointLedger and PointPurse

A command is three steps of its session, because that is how often it looks at
what others see: `ReadAccount` copies the account, `ReadRows` buckets and
reservations, and the command's own action computes on `copy` and commits. The
daily grant and `Compensate` write after the first step, as they read no bucket.
`Commit` is what an UPDATE does: values that the session has changed overwrite
whatever the columns hold by then (`Merge`), the others stay. `Lost` tells
which of them had changed since they were read. Row locks last from the flush to
the end of the transaction and only order the commits. `Abort` is an exception,
a used idempotency key, a lost connection or a crash. The expiry worker selects
the due buckets (`ReadDue`), then reads the account (`ReadAccountOfDue`) and
sweeps all of them in one transaction, in order (`ExpireDueBuckets`): where
`append_event` refuses, because its copy of the account does not cover the
bucket, the exception is caught without a rollback, and the swept bucket is
committed without its event.

Variables are the rows: `account`, `bucket` with the columns `available`,
`reserved` and `expired`, `reservation` with `remaining`. `grant_dates` are the
used keys of the daily grant, `consumed_posted` is the sum of the consumed
postings of a bucket, which refunds do not clamp and nothing bounds from below.
Two variables are history: `overwritten` has the buckets written from an old
copy, `drifted` is true from the first lost update or unposted expiry on. The
loop that draws from buckets in order is not unrolled: `Draws` is the set (of
one element, or none) of the results it can have. `AppendEvent` is the guard
against a negative projection.

`PointPurse` has no buckets: it is the account as its user sees it, with the
points granted, available, reserved, spent and lost so far, and six ways for
them to go; it promises nothing after `drifted`. `Purse` is its instance over
the sums of the columns, and `ImplementsPurse` the refinement: a command may
touch many buckets, and others may commit beside it, but over the whole account
it moves points on one way only, in one direction.

### Dispatch and DurableQueue

A scan is two steps: `Scan` locks the rows it finds, computes their new values
and enqueues jobs; `ScanCommit` or `ScanAbort` ends it. So a job may run before
the scan that enqueued it commits, or after it was rolled back. `reached` stands
for the LIMIT, the admission limit and a cancellation in the middle, which
commits the half that was flushed. A job is `JobRead` and `JobWrite` with
anything in between; it may be lost, retried, or repeated after its commit. A
lease ends in `Lapse`, at any time: `lapsed` is the set of intents whose
`claim_expires_at` has passed, and is all that the code asks of the clock.

`DurableQueue` is a queue with leases and a limit of attempts, without scans,
jobs or transactions: an item waits, is claimed (which counts an attempt), and
is given back, confirmed or given up; only an item whose attempts are used up is
given up, and no settled item waits again. `ImplementsQueue` maps the rows of
the intents onto it. The code fences a job by the generation alone, so a late
job may confirm an item that was given up, give up one that was confirmed, or
claim a confirmed one once more; `DurableQueue` has these steps too, because
what the queue does promise is that they never exceed the limit of attempts and
never bring a settled item back to those that wait.

### AgentTask and ToolApproval

A turn, and a confirmation by message, are each one long transaction in READ
COMMITTED: `ownTask` and `ownExec` are the rows as it sees them, `mine` the
executions it has written, and `Commit` makes all of it visible in one step.
Its statements are separate actions (`Message`, `Claim`, `CallTool`, `Propose`,
`RepeatCall`, `Finish`; `Decide`, `Queue`, `Execute`), so web decisions, edits,
cancellations, recovery and changes of the binding come in between, and each
statement sees what they committed. `Interrupt` is a shutdown that cancels the
coroutine and so commits, `Abort` a crash or a failed statement. `CancelRead`
and `CancelWrite` are the two halves of `request_cancel`: it reads the task
without a lock and writes it by id. A rejection ends in the same function:
`RejectRead` decides and locks the confirmation and its execution and reads the
task, `RejectWrite` writes all three rows, `RejectFails` is its rollback;
`rejecting` holds the status that was read. The other operations are one
statement, or take their lock first. A confirmation is a field of its
execution: its version and arguments hash change only with its status, so the
compare-and-sets on them are the test for "pending".

`ToolApproval` is what the user is promised of each call, without tasks, turns
and transactions. `Approval` is its instance over the committed executions, and
`ImplementsApproval` the refinement: what needs a confirmation takes effect only
from "approved", which only a decision on a pending proposal leads to.

### ChannelInbox and MessageFeed

Several processes, one user, messages numbered in the order of the provider's
cursor. `lease` with `lapsed` is the consumer lease, `token[p]` the fencing token
of each process, `loop[p]` where its poll loop is. A renewal that comes after the
lease has ended takes it with a new token (`RenewLate`), which the pool never
learns: until that lease ends too, nobody passes the fence. Storing a poll is one
transaction of three steps: `Insert` (the fence is read, rows are inserted with
ON CONFLICT DO NOTHING), `UpdateCursor` (under the same fence, and under the row
lock of the credential), `Commit`. `now()` is the start of a transaction, so the
second fence notices a successor but not a lease that merely ended since.
`Commit` has two outcomes: the answer arrives, or is lost and the loop polls
again from its old cursor. `PersistFails` is a stale fence or a failed
statement. The rows of the poll are then handled in order (`ClaimItem`,
`SkipItem`, `Dispatch`, `LoopDies`); each dispatched message has a background
task (`BeginTurn`, `RunTurn`, `Reply`, `Complete`, `TaskFails`), which `Stop`
does not cancel and `Crash` ends. The lock that serialises turns is per process.

`MessageFeed` says what all of this amounts to, without processes, leases or
transactions: the messages up to the cursor are stored and forgotten by the
provider in one step, and a stored message is answered and replied to at most
once, in that order. `Feed` is its instance over the rows of `ChannelInbox`,
`ImplementsFeed` the refinement.

### OutboundDelivery and MessageDelivery

`delivery` is the column `delivery_status` as committed, `draft` what the open
transaction of `holder[m]` has made of it: the rows a sender claimed stay locked
until its transaction ends. `Claim` takes all rows that are due and not locked
(SKIP LOCKED); then each row is sent (`Send`) and its answer written
(`Confirmed`, `Ambiguous`, `Rejected`, `SendFails`), until `Commit`. `Interrupt`
is a cancelled sender, whose session commits; `Abort` a crash or a failed
statement, which rolls everything back although the provider has the copies.
`resting` are the rows whose claim or delay has not ended. The drain claims and
sends in the same way (`DrainScan`, `DrainClaims`) or gives a user up
(`DrainGivesUp`); its cutoff reads rows as too old and writes them later
(`ExpireStale`). `MessageDelivery` forgets senders and transactions.
`ImplementsDelivery` is the refinement.

### TaskAcceptance and AcceptOnce

`pc[h]` is where the transaction of a request is, `mine` the task it has
inserted, `written` the rows of it that are flushed, `seen` its copies of the
account and of the buckets. The unique constraint of the key and the row lock of
the account are where a transaction waits (`KeyIsFree`, `ledger_lock`). Every
statement is an action: `LookupFindsNothing`, `InsertTask`, `EnsureDaily`,
`ReadAccount`, `ReadBuckets`, `Charge`, `Commit`. `Refuse` is what the code does
when points do not suffice: it answers, and the session commits what was
flushed. `AcceptOnce` binds a key to a task, charged or not, in one step;
`ImplementsAcceptOnce` is the refinement.

### TaskRuntime and TaskPage

`TaskRuntime` has the requests to cancel and to re-execute one task, statement by
statement: `Load` copies the task, `InsertExecution` and `Flush` insert under
the unique constraints of the two numbers (a loser waits and collides), and the
first update locks the task's row. `TaskPage` adds the page: `Open` sets cursor
and events from a cached answer, `Poll`, `Refresh` and retries begin requests,
`ReadTask` and `PageAfter` are the two statements of the answer, `Deliver`
merges it. `interrupted` is history: a request for what the cursor has passed
already did not succeed. It becomes true only when a page is opened over a
cached answer, and is the exception that the page's properties make.

### EditLock

`key` is the value of the Redis key, with `fresh` for a heartbeat less than 90 s
old and `expires` for a key with a time to live. Each call of Redis is a step;
`acquiring`, `beat`, `releasing` and `sweep` are the requests between two of
them. `view` and `held` are the hook. `passed` is history: the editors whose
lock has ended while they still hold it, because heartbeats stayed away, another
editor of the same user released it, or a request that had found another lock
came late.

## 3. Runs

Sizes are distinct states. The bounded models may stop at their bounds (no time
left, no message, no slot), so deadlock is not checked, except in `ledger`, where a
session can always read again.

| run | states | bounds |
| --- | --- | --- |
| `ledger` | 639 000 | 2 overlapping sessions, 2 buckets, 2 reservations of up to 2 points, clock 0..1 with one unit per day, symmetric |
| `dispatch` | 117 000 | 2 intents, 2 scanners, 1 job at a time for each intent, 2 attempts |
| `agent_task` | 520 000 | 1 task, 3 calls, 2 attempts, 2 changes of the binding |
| `agent_task_resume` | 1 493 000 | 2 tasks with 1 call each, 1 attempt, 1 change of the binding, symmetric |
| `inbox` | 160 000 | 2 processes, 2 messages, 2 fencing tokens, 2 attempts |
| `outbound` | 56 000 | 1 poll loop, 1 drain, 2 messages, 2 copies that the provider takes |
| `acceptance` | 8 200 | 2 requests at a time, 2 keys, 2 quotes, 2 tasks, points for one |
| `task_page` | 80 000 | 2 requests at a time, begun while there are fewer than 4 events; pages of 2 |
| `edit_lock` | 1 290 000 | 2 editors of one user and 1 of another, 3 locks, 2 requests under way |

- `ledger`: until an update is lost or an expiry goes unposted, the projection
  agrees with the rows (`ProjectionMatchesRows`) and the points of the account move
  as in `PointPurse` (`ImplementsPurse`); a bucket that was never overwritten
  conserves its points (`PostingsConserve`); what expires first of the buckets
  that were read is spent first (`SoonestToExpireFirst`). Two sessions are an
  overlap. Two buckets are two business days, or one day and a compensation that
  expires after it; two reservations can share a bucket, or one can span both.
  The constraint `UntilDrift` has TLC check the states in which the account has
  just drifted and go no further: what is claimed of later states is
  `TypeOK`, `PostingsConserve` and `SoonestToExpireFirst`, and that they hold there is
  shown by the proofs. `MaxOverRefund` bounds how far refunds of a bucket exceed
  what it consumed, as the code has no such bound; it is 0 in the run, and any
  number in the proofs.
- `dispatch`: claims are counted, fenced and bounded; the rows move as the items
  of `DurableQueue` (`ImplementsQueue`: in particular an intent is given up only
  when its attempts are used up); a scan commits what it computed from rows that did not
  change; a claim is not taken before its lease ended; every pending intent is
  confirmed or dead-lettered. Two scanners overlap, and an intent goes through
  both of its attempts and beyond.
- `agent_task`: tool calls move as in `ToolApproval` (`ImplementsApproval`), a task
  that has ended is written over only in the last step of a cancellation or a
  rejection that had read it open (`OnlyStaleCancellationsReopen`), a waiting task has a proposal, recovery
  retries or gives up only clean work, and open tasks settle. Three calls allow a call with an effect, a proposal and its
  edited form in one task; two changes of the binding allow unbind and bind again.
- `agent_task_resume`: a resumed task stays resolved while transactions of its
  first life are still open. Tasks are symmetric: the property is an invariant
  and no definition tells them apart.
- `inbox`: no message is skipped or answered twice, what arrived is stored in the
  end, and the whole implements `MessageFeed`. Two tokens are one handover, at any
  point of a poll; two messages are a poll of two, two polls, or a poll that a
  successor overlaps. A pool that holds the last token keeps it, and a late renewal
  uses up a token: that is the bound (`MaxToken`, `MayLose`), and handovers in a
  row are what the proofs cover.
- `outbound`: no row has two senders, copies of a message are counted against
  lost results (`RepeatedOnlyIfLost`), settled means settled
  (`ImplementsDelivery`), and an open reply gets into the hands of a sender, or is
  settled, again and again (`NoReplyIsForgotten`). Two messages are a batch whose
  second half is behind a failure; two copies are a lost one and its repetition,
  or one of each message.
- `acceptance`: the refinement of `AcceptOnce`, one grant a day, account and
  buckets that agree with the charged tasks unless an overlap overwrote one
  (`AccountAgreesUnlessOverlapped`), and an end of every request. Two requests
  compete for one key or for one quote, which is read without a lock; points
  suffice for one task, so the second is refused unless it has read too early.
  Two tasks are what two keys can have at once, and rolled-back ones are reused.
- `task_page`: `EventsTellTheTask` (no gaps, the last event names the status, the
  version is never ahead), `NewestExecutionIsCurrent`, `PageIsWhole` (a page
  that was not interrupted shows everything before its cursor, and stops only
  when it shows an end), `EventsAreShown` (an open page shows an event that
  stays). Four events make two full pages, and both orders of a cancellation
  and a re-execution.
- `edit_lock`: two users never both hold the lock unless it ended under one of
  them (`ExclusiveUnlessPassed`), and a lock that no browser renews ends without
  any sweep (`AbandonedLocksEnd`). A third editor is needed for two tabs of one
  user beside another user; three locks are one that is released, one that is
  granted while a request for the first is under way, and one after that.

Each of the other runs checks one promise of the source that the code does not
keep; `PROJECT.json` quotes the promise and the line.

| run | what TLC finds |
| --- | --- |
| `agent_task_reply` | a turn that lost its claim tells the user that nothing was committed, and commits what its tools did |
| `outbound_reports` | the notice of a finished report is queued without a `delivery_status`, so no sender ever claims it |
| `acceptance_atomic` | a request that is refused for want of points leaves a task without a reservation, and its key answers `CORRUPT_TASK` for ever |

## 4. Fairness

- `PointLedger` and its run have no liveness property and no fairness.
- `Dispatch`: leases end (weak), scans that keep being tried reach every intent
  sometimes and commit sometimes (strong, because another scan may hold the rows
  each time). The cron entry runs every 30 s for ever. Jobs are not fair: they may
  all be lost, and intents settle nevertheless.
- `AgentTask`: leases end, recovery runs for each row of its queue, an open
  transaction goes on (all weak). The user is not fair.
- `ChannelInbox`: the lease of a process that is gone ends, a process without a
  lease tries for it every few seconds, a process that lost it stops, the steps
  of the loop and of the tasks go on (weak); inserting, updating the cursor and
  committing are tried again after every failure and succeed in the end (strong:
  the database does not fail each time). The provider is not fair.
- `OutboundDelivery`: claims and delays end, a sender whose transaction is open
  goes on in some way, the drain's cron entry runs (weak); the drain and the
  loops find rows unlocked sometimes, and a sender that claims a message again
  and again gets to it sometimes (strong). Whether the provider takes a message
  is open.
- `TaskAcceptance`: each request goes on to its next statement or ends
  (`SF_vars(Step(h))`: a statement that waits for the lock of a row or for the
  transaction that inserted the same key is enabled again and again while others
  come and go, and PostgreSQL queues those that wait). New requests are not fair.
- `TaskPage`: the interval timer polls (weak), a request that is tried again is
  answered in the end (strong, of `ReadTask` and `Deliver`). Nothing is assumed
  of the requests to the runtime: an event that was committed is shown even if
  the process that appended it is gone.
- `EditLock`: time passes, and Redis ends a time to live (weak, and only while no
  editor holds the lock or asks for it). No sweep is assumed to run.

`outbound_reports` uses the fairness of `OutboundDelivery`, so what it finds is not
a scheduler that stops.

## 5. Proofs

TLC checks the bounds above; the theorems hold for any sets of processes,
intents, tasks, calls and quotes and any limits. The only assumptions are those
named in the modules (`PointLedgerAssumption`, `DispatchAssumption`,
`AgentTaskAssumption`, `ChannelInboxAssumption`, `OutboundAssumption`,
`TaskAcceptanceAssumption`, `TaskRuntimeAssumption`, `TaskPageAssumption`,
`EditLockAssumption`): limits are natural numbers, `None` is no process, tasks
that may ever be inserted are finitely many, an editor has a user. Each proof
module defines an inductive invariant `Inv` (`IInv` in `TaskPageProofs`), proves
that `Init` implies it and that every action preserves it, and derives the
properties.

- `PointLedgerProofs`: `Inv` is the types (columns are never negative), blank
  rows for buckets that were not granted yet (a grant overwrites them), the
  conservation of postings for each bucket, the reservation lifecycle, and the
  same facts about every `copy` (`CopiesInv`), which is what makes the invariant
  inductive: a command computes on a copy that may be old, but once was true.
  `Shape` says how a command may change its copy; that each command has it
  (`Executes`, one lemma per command) is reasoning about one session alone.
  `CommitInv` then carries it over to the rows: a column that is not overwritten
  changes by as much as the copy did, because it still holds what was read.
  Theorems: `TypeCorrect`, `Conservation`, `Lifecycle` (a reservation is closed
  exactly when nothing of it remains), and the action properties `FifoSpending` and
  `NeverTwice`; only the proofs state `Lifecycle` and `NeverTwice`.
  The projection is about sums of whole columns. The sum of a column is a fold
  of the community modules, which unfolds to the CHOOSE of a recursive function;
  that it has one is proved here for any finite set of rows, and facts about sums
  (`SumsAdd`, `SumOfPart`, `RowAdds`, `DrawSums`: a draw adds up to its points) by
  looking at a smallest set of rows for which they fail, since the induction
  theorems of the library cannot be used. `SumShape` is what a command does to the
  sums of its copy, `MergeSums` that the rows follow when no update is lost, and
  `OneWay` that points go one way only. Theorems: `ProjectionIsExact` and
  `RefinesPurse`.
- `DispatchProofs`: `Inv` adds that overlapping scans hold disjoint rows and that
  what a job has read is not newer than the row; at one generation a row is
  dispatching before it is pending, so a job that read it pending never confirms
  the claim of another (`SeenIsBehind`). Theorems: `TypeCorrect`,
  `ClaimsAreCounted`, `DeadLetters`, `ScanIsolation`, `LeasesHold`, and
  `RefinesQueue`: the commit of a scan is one step of the queue on all the rows it
  locked, and the write of a job one on its row. What a job has read may be old,
  so the proof needs that a claim which it saw was made (`ClaimsWereMade`).
- `AgentTaskProofs`: `Inv` adds what an open transaction may rely on
  (`OpenTransactions`: the rows it locked are as it read them, and its task is
  new or waits for a confirmation), that its own rows hold at most one proposal,
  that rows carry epochs of the past or the current one while it is bound
  (`EpochsPass`), and that only a finished task is resumed. Theorems:
  `TypeCorrect`, `OnlyApproved`, `OneProposal`, `WaitingHasAProposal`,
  `RetriesAreClean`, `ResumedStaysResolved`. For the refinement, `HeldRows` says how
  far the rows that an open transaction has written may be from the committed
  ones, so that its commit, which shows many statements at once, is one step of
  `ToolApproval` (`CommitMoves`); `RefinesApproval` is the theorem. `RowsEndWell` is
  shown of every step: a task that has ended changes only in the second half of a
  cancellation or a rejection (`EndedTasksStay`). `OpenRejections` says that what a
  rejection under way has locked is still pending and is no row of an open
  transaction; without it the second half could write over a decided proposal. `Claims` says which rows have a lease that can still end; from
  it follows `RecoveryFindsAll` (stated by the proofs only): a task that is left
  running, waits for a result or is to be cancelled is found by recovery now or
  when its lease ends, which is what `OpenTasksSettle` needs besides fairness.
- `ChannelInboxProofs`: `Inv` adds that the holder of the lease has polled at
  least as far as the cursor and as any transaction that is about to move it
  (`CursorIsBehind`: this is where the fence is needed), that such a transaction
  has a row for every message of its poll (`BatchIsCovered`), that no process has a
  token that was not given out (`TokensAreOld`, for late renewals), that a new row is
  fresh for one process only and nothing has happened to it (`FreshIsExclusive`),
  and that the stage of a task tells what it has done. Theorems: `TypeCorrect`,
  `NothingSkipped`, `AnsweredAtMostOnce`, `FreshRowsAreExclusive`,
  `CursorNeverGoesBack` (stated by the proof only), and `RefinesFeed`: every step maps to a step of
  `MessageFeed` or to none. A commit is a `Store` because rows and cursor become
  visible together and the rows of the poll are exactly the gap.
- `OutboundDeliveryProofs`: `Inv` adds that a locked row is open and its draft
  tells what its sender has done with it (`DraftsTell`), and that the copies of an
  open message are the lost ones and the one in the transaction that holds it
  (`CopiesAreCounted`), which is what makes `RepeatedOnlyIfLost` inductive. In the
  refinement a commit maps to one `Settle` of several messages. Theorems:
  `TypeCorrect`, `RepeatsAreLosses`, `RefinesDelivery`, and `NoRowStaysLocked`: only
  a sender in the middle of its transaction has rows locked.
- `TaskAcceptanceProofs`: `Inv` adds that a committed task has either all of its
  rows or the first two (`RowsAreWritten`), that a key is used once by committed
  and open transactions together (`KeysAreUnique`), and for the account who holds
  its lock (`LockIsUsed`) and what the copies of those who charge contain
  (`CopiesAreComplete`, and `CopiesAgree` as long as nothing overlapped).
  Theorems: `TypeCorrect`, `KeysAreAcceptedOnce` (the refinement of `AcceptOnce`),
  `AcceptedTasksAreWhole` (a task that a reply named has all of its rows, a
  property that only the proof states), `OneGrant`, `OnlyOverlapsLosePoints`, and
  `NoCircularWaits`: who waits for a key may wait for one that waits for the
  ledger, and whoever holds the ledger waits for nobody.
- `TaskPageProofs`: the invariant has a part for the log (`LogInv`), one for the
  requests (`RequestInv`: what a request has read is not newer than what is
  committed, and who has the row has read the whole log), one for the
  executions (`ExecutionInv`: one is inserted at a time), and two for the page
  (`PageReads`: it has read nothing but the log; `PageShows`: it shows all that
  precedes the request under way, and all that precedes its cursor unless that
  request starts anew). Theorems: `TypeCorrect`, `LogTellsTheTask`,
  `ExecutionsAreOrdered`, `PageShowsAll`, and `EventsArePermanent`: a request that
  read the sequences too early collides, and never overwrites an event.
- `EditLockProofs`: `Inv` adds that a lock id which an editor holds, or has in a
  request, was granted to its user (`OwnLocks`), that a cleanup runs for a closed
  editor (`CleanupsAreLate`), that a sweep has a lock that was stale
  (`SweepsAreOfStale`), and that the key holds the lock of every editor that has
  one and has not lost it (`KeyIsHeld`). The last is the strengthening: exclusion
  itself says nothing of the key, and two different locks cannot both be in it.
  Theorems: `TypeCorrect`, `Exclusive`, and `NoLockIsForEver`: the key has a time to
  live in every state, also between the two calls of a heartbeat.

Only model-checked: the liveness properties (`EveryIntentSettles`,
`OpenTasksSettle`, `ArrivedMessagesAreStored`, `NoReplyIsForgotten`, `RequestsEnd`,
`EventsAreShown`, `AbandonedLocksEnd`), which need fairness and ENABLED, and those are
beyond the prover. The theorems `RecoveryFindsAll`, `NothingSkipped`,
`NoRowStaysLocked`, `NoCircularWaits`, `PageShowsAll` and `NoLockIsForEver` are the safety
facts that six of them rest on. Every invariant and every action property of
the passing runs, and every refinement, is a theorem. `DeadLetters`, `OnlyApproved`
and `OneProposal` are theorems that no run has as a property of its
own: the refinements that the runs check say as much.

## 6. What the models leave out

- `PointLedger`: amounts are small numbers, metadata, quotes and idempotency hashes
  are absent, and a repeated command changes nothing. The rows that one command
  reads are read in one step, its account in another. Buckets that expire at the
  same time are drawn in order of creation. `consumed_points`, which a refund
  clamps at zero and no command reads, is left out; `consumed_posted` is the sum of the
  postings. One transaction is one command: acceptance, which runs several, is
  `TaskAcceptance`. The expiry worker runs once a day (`workers/main.py:296`), one run
  at a time, and its LIMIT of 500 buckets is not reached.
- `Dispatch`: `retry_wait`, payloads, and the admission count itself, which only
  limits what a scan reaches.
- `AgentTask`: messages, arguments and results are absent; a result is one of
  success with an effect, success of a read, failure or unknown. A tool's result
  with status `retry_wait` or `cancelled` counts as failed, a confirmation with
  status `cancelled` as rejected. What a rejection does before it reads the task is
  one step with that read, since the locks it takes last to its end. The conversation lock of a user, the
  memory and the trace records are left out. A tool handler that was interrupted
  may have had effects outside of the database, which `effect` does not count: it
  says that the result was recorded. With the default limit of five attempts
  `dead_letter` is hardly ever reached, because nothing claims a task in
  `retry_wait`; the model uses limits of one and two.
- `ChannelInbox`: all messages are valid texts of the bound sender and the
  credential stays active (the stop on an expired session is left out, as are
  adding and removing single users, quarantined rows and the circuit breaker).
  `claim_until` and `next_attempt_at` of inbox rows are left out because no code
  claims a row a second time; for the same reason `dead_letter` occurs only with a
  limit of one attempt. Cancelling a statement of the database breaks its
  connection and so rolls back. The outbound queue that the same loop drains
  is `OutboundDelivery`; the two are not composed.
- `OutboundDelivery`: one user; `claim_owner` and `attempt_count`, which decide
  nothing, the limit of 20 rows for a claim, and the age of a row (any row may be too
  old when the drain looks). `ExpireStale` takes effect only for a database role
  that bypasses row-level security, so the constant `RlsBypassed` is TRUE in
  `outbound` and FALSE in `outbound_reports`, which is the role of the application.
- `TaskAcceptance`: one user, capability, action and business day; one price; the
  quote of a request stands for its body. Milestones go with the execution; input
  snapshots are left out; a quote may be refused at any time, which covers its
  expiry and a mismatch. All buckets are one `stock`: what a draw takes from which
  bucket is `PointLedger`. The row locks of account and buckets are one.
- `TaskRuntime` and `TaskPage`: quote and points of a re-execution, intents,
  milestones, artifacts, and the actions resume and system_failure_retry, which
  no reachable status allows. A hidden tab pauses its polling. A request is
  tried twice at most, as the page's query client has it.
- `EditLock`: one resource. The look-up of a lock by its id is taken together with
  sending the request; the delete or the write that acts on it comes later. The
  status "readonly" stands for "conflict" too. `get_status`, audit records, and the
  broadcasts that the hook ignores are left out, as is the repetition of a DELETE
  after a 5xx. An editor is opened again only when nothing of its last time is
  under way. Instead of 60, 90 and 300 seconds a lock may become stale at any
  time, and end at any time after that.

Steps that the models take as the code does, and that no property of a run
rules out:

- `PointLedger`: overlapping commands lose updates of the account, of buckets and
  of reservations, though "projections update in the same transaction" is what
  the repository promises, and an expiry that the account does not cover is
  committed without its event: `drifted` and `overwritten` are where the
  properties stop. Two reservations share a bucket, and settling one consumes what
  the other holds, which can then never be closed (`points/service.py:574`);
  points released into a bucket that was swept stay in `available_points` for ever
  (`points/service.py:580`), although the header of `workers/tasks/ai_point_expiry.py`
  says that such releases become compensation grants: `compensate_cross_day_release`,
  which would make one, is never called, and `release` puts the points back; a
  refund is not compared with what was consumed. Nothing calls settle, release or
  refund yet.
- `Dispatch`: a late job confirms or claims an intent that a scan has settled;
  `DurableQueue` has that as what it does.
- `AgentTask`: a cancellation, or a rejection, that read the task before it
  succeeded overwrites the row, and `OnlyStaleCancellationsReopen` shows that nothing else does; a task in
  `retry_wait`, which recovery calls the safe retry queue, is never claimed again.
- `ChannelInbox`: a row in `retry_wait` is never claimed again.
- `TaskPage`: a page that is opened again over a cached answer loses earlier events
  when its first request is replaced or fails; a stale cancellation sets
  `task_version` back (`ai_runtime/service.py:26` promises optimistic versioning); the comment that
  gaps stop the cursor (`useAITasks.ts:83`) is about a function that does not set it.
- `EditLock`: release deletes what is there by then, though it "verifies ownership
  before releasing" (`locks/service.py:162`); a heartbeat brings back a lock that
  was released, or overwrites a newer one; two tabs of one user share a lock id
  (the contract in `specs` refuses the second with `lock.already_held_by_you`), and
  one's release ends the other's lock; the cron sweep runs in a worker to which no
  browser is connected, so the holder is never told; a page that is left while it
  acquires keeps its heartbeats (`useLock.ts:94`); the button releases the lock and
  the hook takes it again at once; an editor that was refused does not ask again.

## 7. Plan

In this order, most important first:

1. `ClientOutbox`: browser queue, batches, partial failure, replay on the server.
   Abstract specification: each edit is applied once, in order. A batch that a
   network error leaves in `syncing` is never offered again; the module should
   show it.
2. `ChannelReply`: the composition of `ChannelInbox` and `OutboundDelivery`; a
   completed row has a reply that is delivered or dead.
3. `AcceptedWork`: the composition of `TaskAcceptance`, `Dispatch` and `TaskRuntime`
   over one task, with its intent and its re-executions.
4. The agent command outbox and the projections.

Theorems to add: what an `EditLock` without the exceptions of
`ExclusiveUnlessPassed` would implement, a lock with a lease; the log of `TaskRuntime`
and its page as a refinement of an append-only feed; the compositions above, from
the refinements that are proved.
