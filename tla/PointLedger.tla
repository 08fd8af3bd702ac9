------------------------------ MODULE PointLedger ------------------------------
(***************************************************************************)
(* The semantic point commands of one user's account                       *)
(* (ai_metering/points/service.py, ai_metering/repository.py and the two   *)
(* point workers): grant, compensate, reserve, settle, release, refund and *)
(* expire over FIFO buckets, an account projection and reservations.       *)
(*                                                                         *)
(* Several sessions run commands at once.  A command reads the account,    *)
(* then the rows, by plain SELECTs; it computes on these copies and writes *)
(* what it has changed when its transaction commits, whatever the columns  *)
(* hold by then.  A command that raises is rolled back, and one whose      *)
(* idempotency key was used already changes nothing.                       *)
(***************************************************************************)
EXTENDS Integers, FiniteSets, Functions

CONSTANTS
  Sessions,        \* sessions that run commands of the user at the same time
  MaxBuckets,      \* bound: buckets ever granted
  MaxReservations, \* bound: reservations ever made
  MaxPoints,       \* bound: points of one reserve, settle or release
  MaxCredit,       \* bound: points of one compensation or refund
  MaxOverRefund,   \* bound: points a bucket is refunded beyond what it consumed
  MaxTime,         \* bound: the clock
  Expiries,        \* bound: expiry times that an operator names
  DayLength,       \* clock units of one business day
  DailyPoints      \* points of one daily grant

ASSUME PointLedgerAssumption ==
  /\ MaxBuckets \in Nat \ {0}
  /\ MaxReservations \in Nat \ {0}
  /\ MaxPoints \in Nat \ {0}
  /\ MaxCredit \in Nat
  /\ MaxOverRefund \in Nat
  /\ MaxTime \in Nat
  /\ Expiries \subseteq Nat
  /\ DayLength \in Nat \ {0}
  /\ DailyPoints \in Nat \ {0}

VARIABLES
  now,              \* the clock the commands read
  account,          \* PointAccount: available_points, reserved_points
  bucket,           \* PointBucket rows, numbered in order of creation,
  available,        \* and the point columns of these rows
  reserved,
  expired,
  reservation,      \* PointReservation rows
  remaining,        \* and their remaining_points
  grant_dates,      \* business dates whose daily-grant key is used
  consumed_posted,  \* sum of the "consumed" postings of each bucket
  doing,            \* what each session has read so far
  copy,             \* the values it has read, and when
  overwritten,      \* history: buckets written from a copy that was out of date
  drifted           \* history: some update was lost, or an expiry went unposted

columns == <<account, bucket, available, reserved, expired, reservation, remaining>>
history == <<overwritten, drifted>>
vars    == <<now, columns, grant_dates, consumed_posted, doing, copy, history>>

BucketIds      == 1..MaxBuckets
ReservationIds == 1..MaxReservations
Points         == 1..MaxPoints

BucketType == [granted: Nat, expires_at: Nat,
               status: {"absent", "active", "expired"}]
ReservationType == [points: Nat, source: SUBSET BucketIds,
                    status: {"absent", "reserved", "partially_settled",
                             "settled", "released"}]
CopyType == [at: Nat, account: [available: Nat, reserved: Nat],
             bucket: [BucketIds -> BucketType],
             available: [BucketIds -> Nat], reserved: [BucketIds -> Nat],
             expired: [BucketIds -> Nat],
             reservation: [ReservationIds -> ReservationType],
             remaining: [ReservationIds -> Nat]]

NoBucket      == [granted |-> 0, expires_at |-> 0, status |-> "absent"]
NoReservation == [points |-> 0, source |-> {}, status |-> "absent"]
NoPoints      == [available |-> 0, reserved |-> 0]

Zero == [b \in BucketIds |-> 0]

NoCopy ==
  [at |-> 0, account |-> NoPoints, bucket |-> [b \in BucketIds |-> NoBucket],
   available |-> Zero, reserved |-> Zero, expired |-> Zero,
   reservation |-> [r \in ReservationIds |-> NoReservation],
   remaining |-> [r \in ReservationIds |-> 0]]

Init ==
  /\ now = 0
  /\ account = NoPoints
  /\ bucket = NoCopy.bucket
  /\ available = Zero /\ reserved = Zero /\ expired = Zero
  /\ reservation = NoCopy.reservation
  /\ remaining = NoCopy.remaining
  /\ grant_dates = {}
  /\ consumed_posted = Zero
  /\ doing = [s \in Sessions |-> "idle"]
  /\ copy = [s \in Sessions |-> NoCopy]
  /\ overwritten = {} /\ drifted = FALSE

--------------------------------------------------------------------------------
(* Helpers; c is the copy of a session *)

BusinessDate(t) == t \div DayLength

Lapsed(c, b) == c.bucket[b].expires_at <= c.at

(* Mutant of Before: ordered by creation only *)
BeforeByCreation(c, a, b) == a < b

(* ORDER BY expires_at, created_at *)
Before(c, a, b) ==
  \/ c.bucket[a].expires_at < c.bucket[b].expires_at
  \/ c.bucket[a].expires_at = c.bucket[b].expires_at /\ a < b

(* The rows of list_active_buckets_fifo *)
ActiveBuckets(c) ==
  {b \in BucketIds : c.bucket[b].status = "active" /\ ~Lapsed(c, b) /\ c.available[b] > 0}

(* The result of the loop that takes min(stock, remaining) from the buckets *)
(* of S in order until points are drawn: a later bucket is touched only     *)
(* when every earlier one is emptied.  It is empty when S holds too little. *)
Draws(c, S, stock, points) ==
  {d \in [BucketIds -> 0..points] :
     /\ \A b \in BucketIds : d[b] <= IF b \in S THEN stock[b] ELSE 0
     /\ \A a, b \in S : Before(c, a, b) /\ d[b] > 0 => d[a] = stock[a]
     /\ SumFunction(d) = points}

Plus(column, d)  == [b \in BucketIds |-> column[b] + d[b]]
Minus(column, d) == [b \in BucketIds |-> column[b] - d[b]]

--------------------------------------------------------------------------------
(* Reading and writing *)

End(s) ==
  /\ doing' = [doing EXCEPT ![s] = "idle"]
  /\ copy' = [copy EXCEPT ![s] = NoCopy]

(* An UPDATE names only the values the session has changed, *)
Merge(current, old, new) ==
  [x \in DOMAIN current |-> IF new[x] = old[x] THEN current[x] ELSE new[x]]

(* and it overwrites what others have written to them since the read. *)
Lost(current, old, new) ==
  {x \in DOMAIN current : new[x] # old[x] /\ current[x] # old[x]}

(* Flush and commit: new is the copy of s after its command, unposted are   *)
(* buckets whose expiry event was refused.  The row locks of the UPDATEs    *)
(* make the transactions commit one at a time.                              *)
Commit(s, new, unposted) ==
  LET old == copy[s]
      lost == Lost(available, old.available, new.available)
                \cup Lost(reserved, old.reserved, new.reserved)
                \cup Lost(expired, old.expired, new.expired)
  IN
  /\ account' = Merge(account, old.account, new.account)
  /\ bucket' = Merge(bucket, old.bucket, new.bucket)
  /\ available' = Merge(available, old.available, new.available)
  /\ reserved' = Merge(reserved, old.reserved, new.reserved)
  /\ expired' = Merge(expired, old.expired, new.expired)
  /\ reservation' = Merge(reservation, old.reservation, new.reservation)
  /\ remaining' = Merge(remaining, old.remaining, new.remaining)
  /\ overwritten' = overwritten \cup lost
  /\ drifted' = \/ drifted
                \/ lost # {}
                \/ Lost(account, old.account, new.account) # {}
                \/ Lost(reservation, old.reservation, new.reservation) # {}
                \/ Lost(remaining, old.remaining, new.remaining) # {}
                \/ unposted # {}
  /\ End(s)

(* Mutant of AppendEvent: the reserved projection is not written *)
AppendEventAvailableOnly(s, new, available_delta, reserved_delta) ==
  /\ new.account.available + available_delta \in Nat
  /\ new.account.reserved + reserved_delta \in Nat
  /\ Commit(s, [new EXCEPT !.account.available = @ + available_delta], {})

(* append_event_with_postings, the last write of a command: a projection    *)
(* that would be negative raises                                            *)
AppendEvent(s, new, available_delta, reserved_delta) ==
  /\ new.account.available + available_delta \in Nat
  /\ new.account.reserved + reserved_delta \in Nat
  /\ Commit(s, [new EXCEPT !.account =
                  [available |-> @.available + available_delta,
                   reserved  |-> @.reserved + reserved_delta]], {})

(* grant and compensate: a new active bucket *)
Grant(s, points, expires_at) ==
  \E b \in BucketIds :
    /\ bucket[b].status = "absent"
    /\ \A a \in BucketIds : a < b => bucket[a].status # "absent"
    /\ AppendEvent(s, [copy[s] EXCEPT
         !.bucket[b] = [granted |-> points, expires_at |-> expires_at,
                        status |-> "active"],
         !.available[b] = points], points, 0)

Stored ==
  [at |-> now, account |-> account, bucket |-> bucket, available |-> available,
   reserved |-> reserved, expired |-> expired, reservation |-> reservation,
   remaining |-> remaining]

Read(s, what, c) ==
  /\ doing' = [doing EXCEPT ![s] = what]
  /\ copy' = [copy EXCEPT ![s] = c]
  /\ UNCHANGED <<now, columns, grant_dates, consumed_posted, history>>

(* get_or_create_account *)
ReadAccount(s) ==
  /\ doing[s] = "idle"
  /\ Read(s, "account", [NoCopy EXCEPT !.account = account, !.at = now])

(* Then the buckets and reservations.  The account is not read again: the   *)
(* session keeps the object it has.                                         *)
ReadRows(s) ==
  /\ doing[s] = "account"
  /\ Read(s, "rows", [Stored EXCEPT !.account = copy[s].account])

(* The rows expire_due_buckets selects *)
DueBuckets(c) ==
  {b \in BucketIds : c.bucket[b].status = "active" /\ Lapsed(c, b) /\ c.available[b] > 0}

(* The expiry worker, one run at a time, selects the due buckets first, *)
ReadDue(s) ==
  /\ doing[s] = "idle"
  /\ \A t \in Sessions : doing[t] \notin {"due", "expiry"}
  /\ DueBuckets(Stored) # {}
  /\ Read(s, "due", [Stored EXCEPT !.account = NoPoints])

(* and the account with the first of them. *)
ReadAccountOfDue(s) ==
  /\ doing[s] = "due"
  /\ Read(s, "expiry", [copy[s] EXCEPT !.account = account])

(* Rolled back: an exception, a used key, a lost connection, the end of the process *)
Abort(s) ==
  /\ doing[s] # "idle"
  /\ End(s)
  /\ UNCHANGED <<now, columns, grant_dates, consumed_posted, history>>

--------------------------------------------------------------------------------
(* Commands *)

Tick ==
  /\ now < MaxTime
  /\ now' = now + 1
  /\ UNCHANGED <<columns, grant_dates, consumed_posted, doing, copy, history>>

(* ensure_daily_entitlement and the daily grant worker share the unique key *)
(* daily-grant:user:date; the bucket lasts until the next midnight.         *)
DailyGrant(s) ==
  LET date == BusinessDate(copy[s].at) IN
  /\ doing[s] = "account"
  /\ date \notin grant_dates
  /\ grant_dates' = grant_dates \cup {date}
  /\ Grant(s, DailyPoints, (date + 1) * DayLength)
  /\ UNCHANGED <<now, consumed_posted>>

(* The operator's compensate command, and compensate_cross_day_release *)
Compensate(s, points, expires_at) ==
  /\ doing[s] = "account"
  /\ Grant(s, points, expires_at)
  /\ UNCHANGED <<now, grant_dates, consumed_posted>>

Reserve(s, points) ==
  LET c == copy[s] IN
  /\ doing[s] = "rows"
  /\ c.account.available >= points
  /\ \E r \in ReservationIds :
       /\ reservation[r].status = "absent"
       /\ \A t \in ReservationIds : t < r => reservation[t].status # "absent"
       /\ \E d \in Draws(c, ActiveBuckets(c), c.available, points) :
            AppendEvent(s, [c EXCEPT
              !.available = Minus(@, d),
              !.reserved = Plus(@, d),
              !.reservation[r] =
                 [points |-> points, source |-> {b \in BucketIds : d[b] > 0},
                  status |-> "reserved"],
              !.remaining[r] = points], -points, points)
  /\ UNCHANGED <<now, grant_dates, consumed_posted>>

(* Mutant of Covers: remaining_points is not checked *)
CoversUnchecked(c, r, points) == points <= c.account.reserved

(* What _consume_reservation checks first *)
Covers(c, r, points) == points <= c.remaining[r] /\ points <= c.account.reserved

(* The reservation after points of it are settled or released *)
DrawnDown(c, r, points, last_status, part_status) ==
  [c EXCEPT !.remaining[r] = @ - points,
            !.reservation[r].status =
              IF c.remaining[r] = points THEN last_status ELSE part_status]

Settle(s, r, points) ==
  LET c == copy[s] IN
  /\ doing[s] = "rows"
  /\ Covers(c, r, points)
  /\ \E d \in Draws(c, c.reservation[r].source, c.reserved, points) :
       /\ AppendEvent(s, [DrawnDown(c, r, points, "settled", "partially_settled")
                            EXCEPT !.reserved = Minus(@, d)], 0, -points)
       /\ consumed_posted' = Plus(consumed_posted, d)
  /\ UNCHANGED <<now, grant_dates>>

(* Mutant of Restored: the points stay reserved as well *)
RestoredTwice(c, d) == [c EXCEPT !.available = Plus(@, d)]

(* The points of d return from reserved to available *)
Restored(c, d) == [c EXCEPT !.available = Plus(@, d), !.reserved = Minus(@, d)]

Release(s, r, points) ==
  LET c == copy[s] IN
  /\ doing[s] = "rows"
  /\ Covers(c, r, points)
  /\ \E d \in Draws(c, c.reservation[r].source, c.reserved, points) :
       AppendEvent(s, Restored(DrawnDown(c, r, points, "released",
                                         c.reservation[r].status), d),
                   points, -points)
  /\ UNCHANGED <<now, grant_dates, consumed_posted>>

(* refund (and reverse): named is the caller's bucket_id, 0 when it gives   *)
(* none; then the first active unexpired bucket is the target.              *)
RefundTarget(c, named) ==
  LET open == {b \in BucketIds : c.bucket[b].status = "active" /\ ~Lapsed(c, b)}
  IN  IF named # 0 /\ c.bucket[named].status # "absent" THEN {named}
      ELSE {b \in open : \A a \in open : a = b \/ Before(c, b, a)}

(* Nothing compares points with what was consumed. *)
Refund(s, points, named) ==
  LET c == copy[s]
      target == {b \in RefundTarget(c, named) : ~Lapsed(c, b)}
  IN
  /\ doing[s] = "rows"
  /\ \/ /\ target = {}
        /\ Grant(s, points, c.at + DayLength)
        /\ UNCHANGED consumed_posted
     \/ \E b \in target :
          /\ points - consumed_posted[b] <= MaxOverRefund
          /\ AppendEvent(s, [c EXCEPT !.available[b] = @ + points], points, 0)
          /\ consumed_posted' = [consumed_posted EXCEPT ![b] = @ - points]
  /\ UNCHANGED <<now, grant_dates>>

(* Mutant of Swept: available_points is not cleared *)
SweptKeepingPoints(c, S) ==
  [c EXCEPT
    !.expired = [b \in BucketIds |-> @[b] + IF b \in S THEN c.available[b] ELSE 0],
    !.bucket = [b \in BucketIds |->
                  IF b \in S THEN [@[b] EXCEPT !.status = "expired"] ELSE @[b]]]

(* expire: the unreserved points of the buckets S move to expired *)
Swept(c, S) ==
  [c EXCEPT
    !.available = [b \in BucketIds |-> IF b \in S THEN 0 ELSE @[b]],
    !.expired = [b \in BucketIds |-> @[b] + IF b \in S THEN c.available[b] ELSE 0],
    !.bucket = [b \in BucketIds |->
                  IF b \in S THEN [@[b] EXCEPT !.status = "expired"] ELSE @[b]]]

(* An expiry is posted when the account still covers it; when it does not,  *)
(* append_event raises, the worker catches this and goes on with the next   *)
(* bucket, and the bucket, already changed, is committed with the others.   *)
ExpireDueBuckets(s) ==
  LET c == copy[s]
      due == DueBuckets(c)
  IN
  /\ doing[s] = "expiry"
  /\ \E posted \in SUBSET due :
       /\ \A b \in due :
            b \in posted <=>
              SumFunctionOnSet(c.available, {a \in posted : Before(c, a, b)})
                + c.available[b] <= c.account.available
       /\ Commit(s, [Swept(c, due) EXCEPT !.account.available =
                       @ - SumFunctionOnSet(c.available, posted)],
                 due \ posted)
  /\ UNCHANGED <<now, grant_dates, consumed_posted>>

Command(s) ==
  \/ DailyGrant(s)
  \/ \E p \in 1..MaxCredit, e \in Expiries : Compensate(s, p, e)
  \/ \E p \in Points : Reserve(s, p)
  \/ \E r \in ReservationIds, p \in Points : Settle(s, r, p)
  \/ \E r \in ReservationIds, p \in Points : Release(s, r, p)
  \/ \E p \in 1..MaxCredit, named \in BucketIds \cup {0} : Refund(s, p, named)
  \/ ExpireDueBuckets(s)

Next ==
  \/ Tick
  \/ \E s \in Sessions :
       \/ ReadAccount(s)
       \/ ReadRows(s)
       \/ ReadDue(s)
       \/ ReadAccountOfDue(s)
       \/ Abort(s)
       \/ Command(s)

Spec == Init /\ [][Next]_vars

--------------------------------------------------------------------------------
(* Properties *)

(* Nothing goes negative, however the sessions overlap: a write that a      *)
(* command computes from its copy is refused before it would.               *)
TypeOK ==
  /\ now \in Nat
  /\ account \in [available: Nat, reserved: Nat]
  /\ bucket \in [BucketIds -> BucketType]
  /\ available \in [BucketIds -> Nat]
  /\ reserved \in [BucketIds -> Nat]
  /\ expired \in [BucketIds -> Nat]
  /\ reservation \in [ReservationIds -> ReservationType]
  /\ remaining \in [ReservationIds -> Nat]
  /\ grant_dates \subseteq Nat
  /\ consumed_posted \in [BucketIds -> Int]
  /\ doing \in [Sessions -> {"idle", "account", "rows", "due", "expiry"}]
  /\ copy \in [Sessions -> CopyType]
  /\ overwritten \subseteq BucketIds
  /\ drifted \in BOOLEAN

(* Until an update is lost or an expiry goes unposted, the account          *)
(* projection is what the rows add up to: available points are those of the *)
(* buckets, reserved points are those of the buckets and also what the open *)
(* reservations still hold.  repository.py says so without the exception    *)
(* ("projections update in the same transaction").                          *)
ProjectionMatchesRows ==
  ~drifted =>
    /\ account.available = SumFunction(available)
    /\ account.reserved = SumFunction(reserved)
    /\ account.reserved = SumFunction(remaining)

(* The postings account for every granted point of a bucket that no session *)
(* has overwritten from an old copy, whatever happened to the others: a     *)
(* point is available, reserved, expired or posted as consumed, and no      *)
(* command loses one between compartments.                                  *)
PostingsConserve ==
  \A b \in BucketIds \ overwritten :
    bucket[b].granted = available[b] + reserved[b] + expired[b] + consumed_posted[b]

(* Until then, a reservation is closed exactly when nothing remains of it,  *)
(* and one that was never settled in part keeps the status "reserved"       *)
(* however often it was released in part (_consume_reservation).            *)
ReservationLifecycle ==
  ~drifted =>
    \A r \in ReservationIds :
      /\ remaining[r] <= reservation[r].points
      /\ reservation[r].status \in {"absent", "settled", "released"} <=> remaining[r] = 0
      /\ reservation[r].status = "partially_settled" =>
           remaining[r] < reservation[r].points

(* Points that expire sooner are reserved sooner: of the buckets it has     *)
(* read, a new reservation draws on no lapsed one, and on one only when     *)
(* every unexpired one that expires sooner is left empty                    *)
(* (list_active_buckets_fifo, reserve).                                     *)
SoonestToExpireFirst ==
  [][\A s \in Sessions, r \in ReservationIds, a, b \in BucketIds :
       LET c == copy[s] IN
       doing'[s] # doing[s] /\ reservation[r].status = "absent"
         /\ b \in reservation'[r].source =>
         /\ ~Lapsed(c, b)
         /\ (/\ c.bucket[a].status = "active" /\ ~Lapsed(c, a) /\ c.available[a] > 0
             /\ c.bucket[a].expires_at < c.bucket[b].expires_at)
            => available'[a] = 0]_vars

(* While no update is lost, what a reservation holds only shrinks and a     *)
(* closed one stays as it is: nothing is settled or released twice.         *)
ReservationsOnlyShrink ==
  [][~drifted' =>
       \A r \in ReservationIds :
         reservation[r].status # "absent" =>
           /\ remaining'[r] <= remaining[r]
           /\ reservation'[r].points = reservation[r].points
           /\ reservation[r].status \in {"settled", "released"} =>
                reservation'[r] = reservation[r] /\ remaining'[r] = remaining[r]]_vars

Granted == [b \in BucketIds |-> bucket[b].granted]

(* The account without its rows: the sums over all buckets *)
Purse == INSTANCE PointPurse WITH
  granted <- SumFunction(Granted), available <- SumFunction(available),
  reserved <- SumFunction(reserved), spent <- SumFunction(consumed_posted),
  lost <- SumFunction(expired), drifted <- drifted

(* Until an update is lost or an expiry goes unposted, a command moves the  *)
(* points of the account on one of the ways of PointPurse, whatever buckets *)
(* it draws from and whoever runs beside it: only a grant brings points in, *)
(* none are lost on the way, and what has expired never comes back          *)
(* (PointService).                                                          *)
ImplementsPurse == Purse!Spec
================================================================================
