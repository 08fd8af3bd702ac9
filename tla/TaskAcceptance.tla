---------------------------- MODULE TaskAcceptance ----------------------------
(***************************************************************************)
(* POST /ai-tasks for one user, one capability and action                  *)
(* (ai_runtime/api.py accept_task, ai_runtime/acceptance.py accept): each  *)
(* request is handled in one READ COMMITTED transaction, which looks up    *)
(* the idempotency key, writes the task and its execution, reserves points *)
(* and writes the first event and the dispatch intent.  Handlers of        *)
(* several processes run at once; their statements interleave.             *)
(***************************************************************************)
EXTENDS Integers, FiniteSets

CONSTANTS
  Handlers,     \* requests that are handled at the same time
  Keys,         \* idempotency keys
  Quotes,       \* quotes of the user; the rest of a request's body goes with it
  Tasks,        \* bound: tasks ever inserted
  None,         \* no key, quote or task
  Price,        \* points of one task
  Balance,      \* points the account has before today's grant
  DailyPoints   \* points of the daily grant

ASSUME TaskAcceptanceAssumption ==
  /\ None \notin Handlers \cup Keys \cup Quotes \cup Tasks
  /\ IsFiniteSet(Tasks)
  /\ Price \in Nat \ {0}
  /\ Balance \in Nat
  /\ DailyPoints \in Nat \ {0}

(* What an acceptance writes; an execution comes with its milestones *)
Tables == {"task", "execution", "reservation", "event", "intent"}

VARIABLES
  key,          \* ai_tasks: idempotency_key,
  body,         \* the quote, which stands for acceptance_request_hash,
  rows,         \* and the rows that a task has in all tables
  quote,        \* PointQuote.status
  account,      \* PointAccount: available_points and reserved_points
  stock,        \* available_points of the active buckets together
  granted,      \* today's daily grant is committed
  pc,           \* where each handler is
  request,      \* the key and the quote that it handles
  mine,         \* the task it inserts
  written,      \* rows of that task that its transaction has flushed
  seen,         \* its copies of account and buckets
  ledger_lock,  \* the handler whose transaction has updated the account
  told,         \* history: tasks that a reply "accepted" to the key has named
  overlapped    \* history: a handler has updated an account that is not as it read it

committed == <<key, body, rows, quote, account, stock, granted>>
local     == <<pc, request, mine, written, seen, ledger_lock>>
vars      == <<committed, local, told, overlapped>>

NoRequest == [key |-> None, quote |-> None]
Purse     == [available: Nat, reserved: Nat, stock: Nat]
Nothing   == [available |-> 0, reserved |-> 0, stock |-> 0]

Init ==
  /\ key = [t \in Tasks |-> None]
  /\ body = key
  /\ rows = [t \in Tasks |-> {}]
  /\ quote = [q \in Quotes |-> "quoted"]
  /\ account = [available |-> Balance, reserved |-> 0]
  /\ stock = Balance
  /\ granted = FALSE
  /\ pc = [h \in Handlers |-> "idle"]
  /\ request = [h \in Handlers |-> NoRequest]
  /\ mine = [h \in Handlers |-> None]
  /\ written = [h \in Handlers |-> {}]
  /\ seen = [h \in Handlers |-> Nothing]
  /\ ledger_lock = None
  /\ told = [k \in Keys |-> {}]
  /\ overlapped = FALSE

--------------------------------------------------------------------------------
(* The end of a transaction *)

(* Mutants of Release: rows that were flushed stay in the session; the lock    *)
(* of the account belongs to the session and outlives the transaction.        *)
ReleaseKeepsRows(h) ==
  /\ pc' = [pc EXCEPT ![h] = "idle"]
  /\ request' = [request EXCEPT ![h] = NoRequest]
  /\ mine' = [mine EXCEPT ![h] = None]
  /\ seen' = [seen EXCEPT ![h] = Nothing]
  /\ ledger_lock' = IF ledger_lock = h THEN None ELSE ledger_lock
  /\ UNCHANGED written

ReleaseKeepsLock(h) ==
  /\ pc' = [pc EXCEPT ![h] = "idle"]
  /\ request' = [request EXCEPT ![h] = NoRequest]
  /\ mine' = [mine EXCEPT ![h] = None]
  /\ written' = [written EXCEPT ![h] = {}]
  /\ seen' = [seen EXCEPT ![h] = Nothing]
  /\ UNCHANGED ledger_lock

(* Its locks are released, its session is given back *)
Release(h) ==
  /\ pc' = [pc EXCEPT ![h] = "idle"]
  /\ request' = [request EXCEPT ![h] = NoRequest]
  /\ mine' = [mine EXCEPT ![h] = None]
  /\ written' = [written EXCEPT ![h] = {}]
  /\ seen' = [seen EXCEPT ![h] = Nothing]
  /\ ledger_lock' = IF ledger_lock = h THEN None ELSE ledger_lock

(* What the handler has flushed becomes visible *)
CommitWritten(h) ==
  /\ key' = [key EXCEPT ![mine[h]] = request[h].key]
  /\ body' = [body EXCEPT ![mine[h]] = request[h].quote]
  /\ rows' = [rows EXCEPT ![mine[h]] = written[h]]
  /\ quote' = IF "reservation" \in written[h]
                THEN [quote EXCEPT ![request[h].quote] = "reserved"] ELSE quote
  /\ IF ledger_lock = h
       THEN /\ account' = [available |-> seen[h].available,
                           reserved  |-> seen[h].reserved]
            /\ stock' = seen[h].stock
            /\ granted' = TRUE
       ELSE UNCHANGED <<account, stock, granted>>
  /\ Release(h)

(* Rolled back: an exception, a lost connection, the death of the process *)
Abort(h) ==
  /\ pc[h] # "idle"
  /\ Release(h)
  /\ UNCHANGED <<committed, told, overlapped>>

--------------------------------------------------------------------------------
(* The statements of a request *)

(* The reply "accepted" reaches the client or does not *)
Reply(k, t) ==
  \/ told' = [told EXCEPT ![k] = @ \cup {t}]
  \/ UNCHANGED told

Goto(h, next) == pc' = [pc EXCEPT ![h] = next]

(* A request is received, a first one or a repetition *)
Receive(h, k, q) ==
  /\ pc[h] = "idle"
  /\ request' = [request EXCEPT ![h] = [key |-> k, quote |-> q]]
  /\ Goto(h, "lookup")
  /\ UNCHANGED <<committed, mine, written, seen, ledger_lock, told, overlapped>>

(* The key was used before: the same request gets the task that it had, a     *)
(* different one IDEMPOTENCY_CONFLICT, and a task without its lineage is      *)
(* CORRUPT_TASK.  Nothing has been written.                                   *)
Reuse(h) ==
  /\ pc[h] = "lookup"
  /\ \E t \in Tasks :
       /\ key[t] = request[h].key
       /\ IF body[t] = request[h].quote /\ {"execution", "reservation"} \subseteq rows[t]
            THEN Reply(request[h].key, t)
            ELSE UNCHANGED told
  /\ Release(h)
  /\ UNCHANGED <<committed, overlapped>>

LookupFindsNothing(h) ==
  /\ pc[h] = "lookup"
  /\ \A t \in Tasks : key[t] # request[h].key
  /\ Goto(h, "quote")
  /\ UNCHANGED <<committed, request, mine, written, seen, ledger_lock, told,
                 overlapped>>

(* The quote is read without a lock, and never again *)
QuoteUsable(h) ==
  /\ pc[h] = "quote"
  /\ quote[request[h].quote] = "quoted"
  /\ Goto(h, "insert")
  /\ UNCHANGED <<committed, request, mine, written, seen, ledger_lock, told,
                 overlapped>>

(* It was used, has expired or does not match: refused, with nothing written *)
QuoteRefused(h) ==
  /\ pc[h] = "quote"
  /\ Release(h)
  /\ UNCHANGED <<committed, told, overlapped>>

(* A transaction that has inserted a task of the key is still open *)
Inserting(k) == \E h \in Handlers : mine[h] # None /\ request[h].key = k

Unused == {t \in Tasks : key[t] = None /\ \A h \in Handlers : mine[h] # t}

(* Mutant of KeyIsFree: uq_ai_tasks_scoped_idempotency is missing *)
KeyIsFreeAlways(k) == TRUE

(* uq_ai_tasks_scoped_idempotency *)
KeyIsFree(k) == \A t \in Tasks : key[t] # k

(* The INSERT waits for other transactions that have inserted the key *)
InsertTask(h) ==
  /\ pc[h] = "insert"
  /\ ~Inserting(request[h].key) /\ KeyIsFree(request[h].key)
  /\ \E t \in Unused : mine' = [mine EXCEPT ![h] = t]
  /\ written' = [written EXCEPT ![h] = {"task", "execution"}]
  /\ Goto(h, "grant")
  /\ UNCHANGED <<committed, request, seen, ledger_lock, told, overlapped>>

(* IntegrityError, which nothing catches *)
InsertFails(h) ==
  /\ pc[h] = "insert"
  /\ ~Inserting(request[h].key) /\ ~KeyIsFree(request[h].key)
  /\ Release(h)
  /\ UNCHANGED <<committed, told, overlapped>>

(* Mutant of NeedsGrant: the key of the daily grant is not looked at *)
NeedsGrantAlways == TRUE

(* daily-grant:user:date is not used yet *)
NeedsGrant == ~granted

(* ensure_daily_entitlement: today's points, unless they were granted.  Who   *)
(* grants at the same time waits for the other's event and then drops its own *)
(* (begin_nested).                                                            *)
EnsureDaily(h) ==
  /\ pc[h] = "grant"
  /\ \/ ~NeedsGrant /\ UNCHANGED <<seen, ledger_lock>>
     \/ /\ NeedsGrant /\ ledger_lock = None
        /\ ledger_lock' = h
        /\ seen' = [seen EXCEPT ![h] =
             [available |-> account.available + DailyPoints,
              reserved  |-> account.reserved,
              stock     |-> stock + DailyPoints]]
  /\ Goto(h, "account")
  /\ UNCHANGED <<committed, request, mine, written, told, overlapped>>

(* reserve reads the account without a lock, or has it from the grant *)
ReadAccount(h) ==
  /\ pc[h] = "account"
  /\ seen' = IF ledger_lock = h THEN seen
             ELSE [seen EXCEPT ![h].available = account.available,
                               ![h].reserved = account.reserved]
  /\ Goto(h, IF seen'[h].available < Price THEN "refused" ELSE "buckets")
  /\ UNCHANGED <<committed, request, mine, written, ledger_lock, told, overlapped>>

(* list_active_buckets_fifo, later, and again without a lock *)
ReadBuckets(h) ==
  /\ pc[h] = "buckets"
  /\ seen' = IF ledger_lock = h THEN seen ELSE [seen EXCEPT ![h].stock = stock]
  /\ Goto(h, IF seen'[h].stock < Price THEN "refused" ELSE "charge")
  /\ UNCHANGED <<committed, request, mine, written, ledger_lock, told, overlapped>>

(* The handler's copies are those of the committed rows *)
UpToDate(h) ==
  seen[h] = [available |-> account.available, reserved |-> account.reserved,
             stock |-> stock]

(* What is written together with the reservation *)
Lineage == {"reservation", "event", "intent"}

(* Mutant of Charged: the buckets are not drawn from *)
ChargedAccountOnly(purse) ==
  [purse EXCEPT !.available = @ - Price, !.reserved = @ + Price]

Charged(purse) ==
  [available |-> purse.available - Price, reserved |-> purse.reserved + Price,
   stock |-> purse.stock - Price]

(* The rest of reserve and of accept: values computed from what was read      *)
(* overwrite buckets and account; the UPDATE waits for the lock of the row.   *)
Charge(h) ==
  /\ pc[h] = "charge"
  /\ ledger_lock \in {None, h}
  /\ ledger_lock' = h
  /\ seen' = [seen EXCEPT ![h] = Charged(@)]
  /\ overlapped' = (overlapped \/ (ledger_lock = None /\ ~UpToDate(h)))
  /\ written' = [written EXCEPT ![h] = @ \cup Lineage]
  /\ Goto(h, "ready")
  /\ UNCHANGED <<committed, request, mine, told>>

(* accept_task commits and answers *)
Commit(h) ==
  /\ pc[h] = "ready"
  /\ CommitWritten(h)
  /\ Reply(request[h].key, mine[h])
  /\ UNCHANGED overlapped

(* LedgerError becomes AcceptanceError, and accept_task returns a problem: no *)
(* exception reaches the session, which commits what was flushed.             *)
Refuse(h) ==
  /\ pc[h] = "refused"
  /\ CommitWritten(h)
  /\ UNCHANGED <<told, overlapped>>

--------------------------------------------------------------------------------

(* What a handler does next, unless it dies *)
Step(h) ==
  \/ Reuse(h) \/ LookupFindsNothing(h)
  \/ QuoteUsable(h) \/ QuoteRefused(h)
  \/ InsertTask(h) \/ InsertFails(h)
  \/ EnsureDaily(h) \/ ReadAccount(h) \/ ReadBuckets(h) \/ Charge(h)
  \/ Commit(h) \/ Refuse(h)

Next ==
  \E h \in Handlers :
    \/ \E k \in Keys, q \in Quotes : Receive(h, k, q)
    \/ Step(h)
    \/ Abort(h)

Spec == Init /\ [][Next]_vars

(* Every handler goes on: the database answers, and a lock is granted to      *)
(* those who wait for it (PostgreSQL queues them).                            *)
FairSpec == Spec /\ \A h \in Handlers : SF_vars(Step(h))

--------------------------------------------------------------------------------
(* Properties *)

Open == {"grant", "account", "buckets", "charge", "ready", "refused"}

(* Types; and an open transaction has a task of its own that nobody else sees *)
TypeOK ==
  /\ key \in [Tasks -> Keys \cup {None}]
  /\ body \in [Tasks -> Quotes \cup {None}]
  /\ rows \in [Tasks -> SUBSET Tables]
  /\ quote \in [Quotes -> {"quoted", "reserved"}]
  /\ account \in [available: Nat, reserved: Nat]
  /\ stock \in Nat
  /\ granted \in BOOLEAN
  /\ pc \in [Handlers -> {"idle", "lookup", "quote", "insert"} \cup Open]
  /\ request \in [Handlers -> [key: Keys, quote: Quotes] \cup {NoRequest}]
  /\ mine \in [Handlers -> Tasks \cup {None}]
  /\ written \in [Handlers -> SUBSET Tables]
  /\ seen \in [Handlers -> Purse]
  /\ ledger_lock \in Handlers \cup {None}
  /\ told \in [Keys -> SUBSET Tasks]
  /\ overlapped \in BOOLEAN
  /\ \A h \in Handlers :
       /\ IF pc[h] \in Open THEN mine[h] \in {t \in Tasks : key[t] = None}
                           ELSE mine[h] = None /\ written[h] = {} /\ ledger_lock # h
       /\ pc[h] # "idle" => request[h] # NoRequest
       /\ \A g \in Handlers : g # h /\ mine[g] = mine[h] => mine[h] = None

(* Concurrent requests, repetitions, lost replies and crashes notwithstanding, *)
(* a key stands for one task, which is charged once and at once, and is the    *)
(* only one that replies to the key name.                                     *)
TaskOf(k) ==
  IF \E t \in Tasks : key[t] = k THEN CHOOSE t \in Tasks : key[t] = k ELSE None

ChargedTasks == {t \in Tasks : "reservation" \in rows[t]}

Once == INSTANCE AcceptOnce WITH
  bound <- [k \in Keys |-> TaskOf(k)], charged <- ChargedTasks

ImplementsAcceptOnce == Once!Spec

(* Who is told that a task was accepted finds it, whatever dies then: with an *)
(* execution, a reservation, a first event and something that will start it.  *)
AcceptedIsDurable ==
  \A k \in Keys : \A t \in told[k] :
    /\ key[t] = k
    /\ rows[t] = Tables
    /\ quote[body[t]] = "reserved"

(* The daily grant is given once, however many first requests of the day are  *)
(* handled at the same time, and acceptances only move points.                *)
GrantedOncePerDay ==
  account.available + account.reserved =
    Balance + (IF granted THEN DailyPoints ELSE 0)

(* The account holds the points of all tasks that were charged, and the       *)
(* buckets agree with it, unless an acceptance has overwritten an account or  *)
(* buckets that another one changed since it read them.                       *)
AccountAgreesUnlessOverlapped ==
  ~overlapped =>
    /\ account.reserved = Price * Cardinality(ChargedTasks)
    /\ account.available = stock

(* The waits for the key, for the grant and for the account never close a     *)
(* circle: every request ends.                                                *)
RequestsEnd == \A h \in Handlers : pc[h] # "idle" ~> pc[h] = "idle"

(* "Atomically creates task + execution + reservation + events + dispatch     *)
(* intent." (ai_runtime/acceptance.py:3)                                      *)
AcceptanceIsAtomic == \A t \in Tasks : rows[t] \in {{}, Tables}
================================================================================
