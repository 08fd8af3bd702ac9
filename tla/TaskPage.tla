------------------------------- MODULE TaskPage -------------------------------
(***************************************************************************)
(* The page of a task in the browser (hooks/queries/useAITasks.ts,         *)
(* useAITaskEvents) over the runtime of the task: it polls                 *)
(* /ai-tasks/{id}/events from a cursor, merges pages into what it shows,   *)
(* and stops when a page says that the task is terminal.                   *)
(***************************************************************************)
EXTENDS TaskRuntime, FiniteSets

CONSTANT PageSize   \* limit of a page

ASSUME TaskPageAssumption == PageSize \in Nat \ {0}

VARIABLES
  open,        \* the page is mounted
  shown,       \* sequences of the events that it shows
  cursor,      \* afterSequenceRef
  cache,       \* query.data: the last answer, which outlives the page
  fetch,       \* the request under way
  interrupted  \* history: a request for what the cursor has passed did not succeed

page == <<open, shown, cursor, cache, fetch, interrupted>>

NoPage  == [events |-> {}, next |-> 0, terminal |-> FALSE]
NoFetch == [phase |-> "none", after |-> 0, attempt |-> 0, terminal |-> FALSE]
Sent(after, attempt) ==
  [phase |-> "sent", after |-> after, attempt |-> attempt, terminal |-> FALSE]

PageInit ==
  /\ Init
  /\ open = FALSE
  /\ shown = {}
  /\ cursor = 0
  /\ cache = NoPage
  /\ fetch = NoFetch
  /\ interrupted = FALSE

(* The request under way begins before the cursor *)
Behind == fetch.phase # "none" /\ fetch.after # cursor

(* Mounted: the effects reset the cursor, begin the first request and then    *)
(* take events and cursor over from an answer that is still cached            *)
Open ==
  /\ ~open
  /\ open' = TRUE
  /\ fetch' = Sent(0, 1)
  /\ shown' = cache.events
  /\ cursor' = cache.next
  /\ UNCHANGED <<cache, interrupted>>

(* Unmounted: the request is aborted *)
Close ==
  /\ open
  /\ open' = FALSE
  /\ shown' = {}
  /\ cursor' = 0
  /\ fetch' = NoFetch
  /\ interrupted' = FALSE
  /\ UNCHANGED cache

(* The query client drops what is not shown any more *)
Forget ==
  /\ ~open
  /\ cache' = NoPage
  /\ UNCHANGED <<open, shown, cursor, fetch, interrupted>>

(* A request begins, in place of one that may be under way *)
Request(attempt) ==
  /\ fetch' = Sent(cursor, attempt)
  /\ interrupted' = (interrupted \/ Behind)
  /\ UNCHANGED <<open, shown, cursor, cache>>

(* Mutant of Poll: an empty answer ends the polling *)
PollUntilEmpty ==
  /\ open /\ fetch.phase = "none" /\ ~cache.terminal /\ cache.events # {}
  /\ Request(1)

(* refetchInterval *)
Poll ==
  /\ open /\ fetch.phase = "none" /\ ~cache.terminal
  /\ Request(1)

(* refetch: the button of the page, or the network is back *)
Refresh ==
  /\ open /\ (fetch.phase = "none" \/ cache # NoPage)
  /\ Request(1)

(* A request fails; the first attempt is repeated *)
FetchFails ==
  /\ fetch.phase # "none"
  /\ \/ fetch.attempt = 1 /\ Request(2)
     \/ /\ fetch.attempt = 2
        /\ fetch' = NoFetch
        /\ interrupted' = (interrupted \/ Behind)
        /\ UNCHANGED <<open, shown, cursor, cache>>

(* list_events reads the task first *)
ReadTask ==
  /\ fetch.phase = "sent"
  /\ fetch' = [fetch EXCEPT !.phase = "task read", !.terminal = status \in Terminal]
  /\ UNCHANGED <<open, shown, cursor, cache, interrupted>>

PageAfter(n) == {i \in DOMAIN events : n < i /\ i <= n + PageSize}

(* Mutant of Following: a page ends where the log ends *)
FollowingLog(n) == Newest(DOMAIN events)

(* next_sequence *)
Following(n) == IF PageAfter(n) = {} THEN n ELSE Newest(PageAfter(n))

(* ... then the events, and the page merges the answer *)
Deliver ==
  /\ fetch.phase = "task read"
  /\ LET answer == [events   |-> PageAfter(fetch.after),
                    next     |-> Following(fetch.after),
                    terminal |-> fetch.terminal]
     IN /\ shown' = shown \cup answer.events
        /\ cursor' = answer.next
        /\ cache' = answer
  /\ fetch' = NoFetch
  /\ UNCHANGED <<open, interrupted>>

PageStep ==
  \/ Open \/ Close \/ Forget \/ Poll \/ Refresh \/ FetchFails \/ ReadTask \/ Deliver

PageNext ==
  \/ Next /\ UNCHANGED page
  \/ PageStep /\ UNCHANGED vars

PageSpec == PageInit /\ [][PageNext]_<<vars, page>>

(* An open page keeps polling, and requests do not fail, or are not replaced, *)
(* for ever.  Nothing is assumed of the handlers.                             *)
PageFairSpec ==
  /\ PageSpec
  /\ WF_<<vars, page>>(Poll /\ UNCHANGED vars)
  /\ SF_<<vars, page>>(ReadTask /\ UNCHANGED vars)
  /\ SF_<<vars, page>>(Deliver /\ UNCHANGED vars)

--------------------------------------------------------------------------------
(* Properties *)

(* Types; and a transaction has the lock from its flush to its end *)
TypeOK ==
  /\ status \in Statuses
  /\ version \in Nat /\ current \in Nat
  /\ executions \in SUBSET Nat
  /\ DOMAIN events \subseteq Nat
  /\ \A i \in DOMAIN events :
       events[i] \in [action: Actions \cup {"accept"}, to: Statuses, execution: Nat]
  /\ pc \in [Handlers -> {"idle", "number", "insert", "list", "flush", "commit"}]
  /\ goal \in [Handlers -> Actions]
  /\ copy \in [Handlers -> [version: Nat, current: Nat]]
  /\ number \in [Handlers -> Nat]
  /\ last \in [Handlers -> Nat]
  /\ row_lock \in Handlers \cup {None}
  /\ \A h \in Handlers : pc[h] = "commit" <=> row_lock = h
  /\ open \in BOOLEAN /\ interrupted \in BOOLEAN
  /\ shown \in SUBSET Nat /\ cursor \in Nat
  /\ cache \in [events: SUBSET Nat, next: Nat, terminal: BOOLEAN]
  /\ fetch \in [phase: {"none", "sent", "task read"}, after: Nat, attempt: 0 .. 2,
                terminal: BOOLEAN]

Stopped == open /\ fetch.phase = "none" /\ cache.terminal

Full(answer) == Cardinality(answer.events) = PageSize

(* An open page shows every event that its cursor has passed, and when it     *)
(* stops polling it shows an event that ended the task (unless the last page  *)
(* was full), whatever is appended while it reads.  The exception is a page   *)
(* that was opened over a cached answer and whose first request did not       *)
(* succeed: the next one begins at the cursor of that answer.                 *)
PageIsWhole ==
  (open /\ ~interrupted) =>
    /\ ~Behind => 1 .. cursor \subseteq shown
    /\ (Stopped /\ ~Full(cache)) => \E i \in shown : events[i].to \in Terminal

(* What is appended while a page is open is shown, unless the page is closed, *)
(* has stopped or was interrupted.                                            *)
EventsAreShown ==
  \A n \in 1 .. MaxEvents :
    (open /\ n \in DOMAIN events) ~> (n \in shown \/ ~open \/ Stopped \/ interrupted)
================================================================================
