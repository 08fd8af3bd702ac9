------------------------------- MODULE Dispatch -------------------------------
(***************************************************************************)
(* Delivery of durable dispatch intents (ai_runtime/recovery/service.py,   *)
(* ai_runtime/repository.py and the two ARQ entry points that run them).   *)
(* A scan is one transaction: it locks the rows it finds (FOR UPDATE SKIP  *)
(* LOCKED), resets the stranded ones, claims the pending ones and enqueues *)
(* a job for each claim before it commits.  A job reads its intent without *)
(* a lock and writes later under a compare-and-set on claim_generation.    *)
(* Jobs may be lost, run twice or run before the scan commits.             *)
(*                                                                         *)
(* Time is only read to tell whether a claim's lease ended, so the clock   *)
(* is the set of intents whose claim_expires_at has passed.                *)
(***************************************************************************)
EXTENDS Integers, FiniteSets

CONSTANTS
  Intents,      \* ai_dispatch_intents ids
  Scanners,     \* transactions of scan_ai_task_recovery
  Slots,        \* bound: jobs of one intent that exist at the same time
  MaxAttempts   \* max_dispatch_attempts

ASSUME DispatchAssumption == MaxAttempts \in Nat \ {0}

Jobs == Intents \X Slots

VARIABLES
  row,      \* committed rows: status, claim_generation, attempt_count
  lapsed,   \* intents whose claim_expires_at has passed
  holds,    \* rows each open scan has locked
  staged,   \* and the values it will commit for them
  job,      \* phase of each job: free, queued, read
  seen,     \* the row a job in phase "read" has read
  claims    \* history: claims committed for each intent

vars == <<row, lapsed, holds, staged, job, seen, claims>>

Statuses == {"absent", "pending", "dispatching", "confirmed", "dead_letter"}
Row      == [status: Statuses, generation: Nat, attempts: Nat]
NewRow(status) == [status |-> status, generation |-> 1, attempts |-> 0]

Init ==
  /\ row = [i \in Intents |-> NewRow("absent")]
  /\ lapsed = {}
  /\ holds = [s \in Scanners |-> {}]
  /\ staged = row
  /\ job = [j \in Jobs |-> "free"]
  /\ seen = [j \in Jobs |-> NewRow("absent")]
  /\ claims = [i \in Intents |-> 0]

--------------------------------------------------------------------------------
(* What the commands do to a row *)

Reset(r)   == [r EXCEPT !.status = "pending"]
Confirm(r) == [r EXCEPT !.status = "confirmed"]

(* Mutant of Claim: one attempt more than the limit is allowed *)
ClaimOffByOne(r) ==
  IF r.attempts > MaxAttempts
    THEN [r EXCEPT !.status = "dead_letter"]
    ELSE [status |-> "dispatching", generation |-> r.generation + 1,
          attempts |-> r.attempts + 1]

(* claim_dispatch_intent on a pending row *)
Claim(r) ==
  IF r.attempts + 1 > MaxAttempts
    THEN [r EXCEPT !.status = "dead_letter"]
    ELSE [status |-> "dispatching", generation |-> r.generation + 1,
          attempts |-> r.attempts + 1]

(* Mutant of Stranded: the lease is not looked at *)
StrandedAtOnce(i) == row[i].status = "dispatching"

(* Mutant of Stranded: dispatching rows are never taken back *)
StrandedNever(i) == row[i].status = "retry_wait"

Stranded(i) == row[i].status = "dispatching" /\ i \in lapsed

(* Mutant of Locked: the rows are selected without FOR UPDATE *)
LockedNever(i) == i \notin Intents

Locked(i) == \E s \in Scanners : i \in holds[s]

(* Mutant of EndLease: claim_expires_at is not cleared *)
EndLeaseForgotten(S) == UNCHANGED lapsed

(* claim_expires_at is cleared or set anew in the rows of S *)
EndLease(S) == lapsed' = lapsed \ S

--------------------------------------------------------------------------------
(* One run of scan_ai_task_recovery *)

Found(reached) ==
  {i \in Intents : /\ ~Locked(i)
                   /\ Stranded(i) \/ (row[i].status = "pending" /\ i \in reached)}

Reconciled(i) == IF Stranded(i) THEN Reset(row[i]) ELSE row[i]

Delivered(i, reached) == IF i \in reached THEN Claim(Reconciled(i)) ELSE Reconciled(i)

HasFreeSlot(i) == \E n \in Slots : job[<<i, n>>] = "free"
FreeSlot(i)    == CHOOSE n \in Slots : job[<<i, n>>] = "free"

(* enqueue_dispatch_job for the intents of S *)
Enqueue(S) ==
  job' = [j \in Jobs |-> IF j[1] \in S /\ j[2] = FreeSlot(j[1]) THEN "queued"
                                                               ELSE job[j]]

(* reconcile_stranded_intents, then deliver_pending_intents for the intents  *)
(* in reached: none at the admission limit, those of the LIMIT, or those up  *)
(* to the point where a timeout of the job cancelled the scan, which then    *)
(* commits what it has (_session_cm).  An enqueue may fail for any of them.  *)
ScanWith(s, reached) ==
  LET found   == Found(reached)
      claimed == {i \in found : Delivered(i, reached).status = "dispatching"}
  IN /\ holds[s] = {}
     /\ found # {}
     /\ holds' = [holds EXCEPT ![s] = found]
     /\ staged' = [i \in Intents |-> IF i \in found THEN Delivered(i, reached)
                                                    ELSE staged[i]]
     /\ \E sent \in SUBSET {i \in claimed : HasFreeSlot(i)} : Enqueue(sent)
     /\ UNCHANGED <<row, lapsed, seen, claims>>

Scan(s) == \E reached \in SUBSET Intents : ScanWith(s, reached)

ScanCommit(s) ==
  /\ holds[s] # {}
  /\ row' = [i \in Intents |-> IF i \in holds[s] THEN staged[i] ELSE row[i]]
  /\ EndLease(holds[s])
  /\ claims' = [i \in Intents |->
                  IF i \in holds[s] /\ staged[i].status = "dispatching"
                    THEN claims[i] + 1 ELSE claims[i]]
  /\ holds' = [holds EXCEPT ![s] = {}]
  /\ UNCHANGED <<staged, job, seen>>

(* The scan fails or its worker dies: nothing is committed, but the jobs it  *)
(* enqueued stay in Redis.                                                   *)
ScanAbort(s) ==
  /\ holds[s] # {}
  /\ holds' = [holds EXCEPT ![s] = {}]
  /\ UNCHANGED <<row, lapsed, staged, job, seen, claims>>

--------------------------------------------------------------------------------
(* One run of dispatch_ai_task_intent *)

JobRead(j) ==
  LET r == row[j[1]]
  IN /\ job[j] = "queued"
     /\ IF r.status \in {"pending", "dispatching"}
          THEN /\ job' = [job EXCEPT ![j] = "read"]
               /\ seen' = [seen EXCEPT ![j] = r]
          ELSE /\ job' = [job EXCEPT ![j] = "free"]
               /\ UNCHANGED seen
     /\ UNCHANGED <<row, lapsed, holds, staged, claims>>

(* Mutant of CasMatches: the update is by id alone *)
CasAlways(i, r) == i \in Intents

(* cas_dispatch_intent: the WHERE clause has the generation, not the status *)
CasMatches(i, r) == row[i].generation = r.generation

Confirmed(r) ==
  IF r.status = "dispatching" THEN Confirm(r)
  ELSE IF Claim(r).status = "dispatching" THEN Confirm(Claim(r)) ELSE Claim(r)

(* The claim of a pending intent and the confirmation are one transaction.   *)
(* Its first update waits for a scan that holds the row.                     *)
JobWrite(j) ==
  LET i == j[1]
      r == seen[j]
  IN /\ job[j] = "read"
     /\ ~Locked(i)
     /\ IF CasMatches(i, r)
          THEN /\ row' = [row EXCEPT ![i] = Confirmed(r)]
               /\ claims' = [claims EXCEPT ![i] = @ +
                    IF r.status = "pending" /\ Claim(r).status = "dispatching"
                      THEN 1 ELSE 0]
               /\ EndLease({i})
          ELSE UNCHANGED <<row, claims, lapsed>>
     /\ \E phase \in {"free", "queued"} : job' = [job EXCEPT ![j] = phase]
     /\ UNCHANGED <<holds, staged, seen>>

(* The worker dies before it commits and ARQ runs the job again.  (A worker  *)
(* that dies after the commit is the phase "queued" of JobWrite.)            *)
JobRetry(j) ==
  /\ job[j] = "read"
  /\ job' = [job EXCEPT ![j] = "queued"]
  /\ UNCHANGED <<row, lapsed, holds, staged, seen, claims>>

(* Redis loses the job *)
JobLost(j) ==
  /\ job[j] = "queued"
  /\ job' = [job EXCEPT ![j] = "free"]
  /\ UNCHANGED <<row, lapsed, holds, staged, seen, claims>>

--------------------------------------------------------------------------------

(* The intent acceptance and the control commands insert *)
Insert(i) ==
  /\ row[i].status = "absent"
  /\ row' = [row EXCEPT ![i] = NewRow("pending")]
  /\ UNCHANGED <<lapsed, holds, staged, job, seen, claims>>

(* claim_expires_at passes *)
Lapse(i) ==
  /\ row[i].status = "dispatching"
  /\ i \notin lapsed
  /\ lapsed' = lapsed \cup {i}
  /\ UNCHANGED <<row, holds, staged, job, seen, claims>>

Next ==
  \/ \E i \in Intents : Insert(i) \/ Lapse(i)
  \/ \E s \in Scanners : Scan(s) \/ ScanCommit(s) \/ ScanAbort(s)
  \/ \E j \in Jobs : JobRead(j) \/ JobWrite(j) \/ JobRetry(j) \/ JobLost(j)

Spec == Init /\ [][Next]_vars

(* The cron entry runs the scan every 30 s for ever, a lease ends by itself, *)
(* and scans that keep being tried sometimes reach every intent and commit.  *)
Fairness ==
  /\ \A i \in Intents : WF_vars(Lapse(i))
  /\ \A s \in Scanners : SF_vars(ScanWith(s, Intents)) /\ SF_vars(ScanCommit(s))

FairSpec == Spec /\ Fairness

--------------------------------------------------------------------------------
(* Properties *)

(* Types; only a dispatching intent has a lease that can have ended. *)
TypeOK ==
  /\ row \in [Intents -> Row]
  /\ lapsed \in SUBSET {i \in Intents : row[i].status = "dispatching"}
  /\ holds \in [Scanners -> SUBSET Intents]
  /\ staged \in [Intents -> Row]
  /\ job \in [Jobs -> {"free", "queued", "read"}]
  /\ seen \in [Jobs -> Row]
  /\ claims \in [Intents -> Nat]

(* Every claim that was committed, by a scan or by a job with a stale read,  *)
(* is counted in attempt_count and fenced by a generation of its own, and    *)
(* there are never more of them than max_dispatch_attempts                   *)
(* (claim_dispatch_intent, cas_dispatch_intent).                             *)
EveryClaimIsCounted ==
  \A i \in Intents : /\ claims[i] = row[i].attempts
                     /\ row[i].generation = row[i].attempts + 1
                     /\ claims[i] <= MaxAttempts

(* An intent goes to dead letter only after all of its attempts were used    *)
(* (claim_dispatch_intent).                                                  *)
DeadLetterMeansExhausted ==
  \A i \in Intents : row[i].status = "dead_letter" => row[i].attempts = MaxAttempts

(* A claim is taken from its holder only after its lease ended: an intent    *)
(* leaves dispatching by a confirmation of that claim, or lapsed             *)
(* (reconcile_stranded_intents).                                             *)
LeaseIsRespected ==
  [][\A i \in Intents :
       row[i].status = "dispatching" /\ row'[i] # row[i] =>
         i \in lapsed \/ row'[i] = Confirm(row[i])]_vars

(* The row a scan decided on does not change under it: what it commits was   *)
(* computed from the row that is still there (with_for_update).              *)
ScanDecidesOnCurrentRow ==
  \A s \in Scanners : \A i \in holds[s] :
    /\ row[i].status = "pending" \/ Stranded(i)
    /\ staged[i] \in {Reset(row[i]), Claim(row[i]), Claim(Reset(row[i]))}

(* An accepted intent is delivered or goes to dead letter, whatever jobs are *)
(* lost: the row stays the truth (module docstring of recovery/service.py).  *)
EveryIntentSettles ==
  \A i \in Intents :
    row[i].status = "pending" ~> row[i].status \in {"confirmed", "dead_letter"}

(* The queue this table of rows is a version of *)
Queue == INSTANCE DurableQueue
  WITH Items <- Intents, Limit <- MaxAttempts,
       state <- [i \in Intents |-> row[i].status], ended <- lapsed

(* Scans that overlap or die and jobs that are lost, doubled or late claim,  *)
(* deliver and give up intents as DurableQueue allows (RecoveryService).     *)
ImplementsQueue == Queue!Spec
================================================================================
