------------------------------- MODULE EditLock -------------------------------
(***************************************************************************)
(* The edit lock of one resource: a Redis key that editors take with       *)
(* SET NX, renew by heartbeats and delete (modules/locks), the hook that   *)
(* drives an editor in the browser (src/lib/lock/useLock.ts), and the      *)
(* sweeps that delete a lock whose heartbeats have stopped.  Each call of  *)
(* Redis is a step; all requests but SET NX take several.                  *)
(***************************************************************************)
EXTENDS Naturals, Sequences, FiniteSets

CONSTANTS
  Editors,    \* places where the resource may be opened: one mounted hook each
  Users,
  UserOf,     \* the user who is logged in there
  Sweeps,     \* the cron job, and the checks after a lost connection
  MaxLocks,     \* bound: locks granted
  MaxRequests   \* bound: requests and sweeps under way

ASSUME EditLockAssumption ==
  /\ UserOf \in [Editors -> Users]
  /\ MaxLocks \in Nat /\ MaxRequests \in Nat

VARIABLES
  owner,      \* the user of every lock id, in the order in which they were granted
  key,        \* the value of the Redis key
  view,       \* what the hook shows
  held,       \* lockIdRef, and the lock that the client renews; 0 without
  acquiring,  \* the request to acquire
  beat,       \* a heartbeat under way
  releasing,  \* the requests to release: of the button, and of the cleanup
  sweep,      \* the lock that a sweep has found stale
  passed      \* history: editors whose lock has ended under them

vars == <<owner, key, view, held, acquiring, beat, releasing, sweep, passed>>

NoLock == [id |-> 0, fresh |-> FALSE, expires |-> FALSE]
Quiet  == [phase |-> "none", id |-> 0]
Sent   == [phase |-> "sent", id |-> 0]

Reasons == {"button", "cleanup"}
Ids == 1 .. Len(owner)

Init ==
  /\ owner = <<>>
  /\ key = NoLock
  /\ view = [e \in Editors |-> "closed"]
  /\ held = [e \in Editors |-> 0]
  /\ acquiring = [e \in Editors |-> Quiet]
  /\ beat = [e \in Editors |-> Quiet]
  /\ releasing = [e \in Editors |-> [why \in Reasons |-> Quiet]]
  /\ sweep = [s \in Sweeps |-> NoLock]
  /\ passed = {}

UnderWay ==
  {<<"acquire", e>> : e \in {d \in Editors : acquiring[d] # Quiet}} \cup
  {<<"beat", e>> : e \in {d \in Editors : beat[d] # Quiet}} \cup
  {r \in Reasons \X Editors : releasing[r[2]][r[1]] # Quiet} \cup
  {<<"sweep", s>> : s \in {r \in Sweeps : sweep[r] # NoLock}}

Room == Cardinality(UnderWay) < MaxRequests

Mounted(e) == view[e] # "closed"

(* The hook shows the lock as its own, and has not been told to release it *)
Editing(e) == view[e] = "locked" /\ releasing[e]["button"] = Quiet

(* The editors that have, or are about to be told that they have, the lock *)
Having(id) ==
  {e \in Editors :
     Mounted(e) /\ id # 0 /\ (held[e] = id \/ acquiring[e] = [phase |-> "answered", id |-> id])}

--------------------------------------------------------------------------------
(* Acquire *)

(* The editor opens and asks for the lock.  Bound: nothing of the last time   *)
(* that it was open is left.                                                  *)
Mount(e) ==
  /\ Room /\ ~Mounted(e) /\ held[e] = 0 /\ acquiring[e] = Quiet /\ beat[e] = Quiet
  /\ \A why \in Reasons : releasing[e][why] = Quiet
  /\ view' = [view EXCEPT ![e] = "acquiring"]
  /\ acquiring' = [acquiring EXCEPT ![e] = Sent]
  /\ UNCHANGED <<owner, key, held, beat, releasing, sweep, passed>>

(* SET NX: a new lock, or a look at the one that is there *)
SetIfAbsent(e) ==
  /\ acquiring[e].phase = "sent"
  /\ \/ /\ key = NoLock /\ Len(owner) < MaxLocks
        /\ owner' = Append(owner, UserOf[e])
        /\ key' = [id |-> Len(owner) + 1, fresh |-> TRUE, expires |-> TRUE]
        /\ acquiring' = [acquiring EXCEPT ![e] = [phase |-> "answered", id |-> Len(owner) + 1]]
     \/ /\ key # NoLock
        /\ acquiring' = [acquiring EXCEPT ![e] = [phase |-> "refused", id |-> 0]]
        /\ UNCHANGED <<owner, key>>
  /\ UNCHANGED <<view, held, beat, releasing, sweep, passed>>

(* Mutant of OwnedBy: the user is not compared *)
OwnedByAnyone(e) == key # NoLock

OwnedBy(e) == key # NoLock /\ owner[key.id] = UserOf[e]

(* GET: the lock of the same user is granted again, whoever asked for it; a   *)
(* lock of another user, or none any more, is a conflict                      *)
ReadExisting(e) ==
  /\ acquiring[e].phase = "refused"
  /\ acquiring' = [acquiring EXCEPT ![e] =
       [phase |-> "answered", id |-> IF OwnedBy(e) THEN key.id ELSE 0]]
  /\ UNCHANGED <<owner, key, view, held, beat, releasing, sweep, passed>>

(* The answer starts the heartbeats, even when the hook is unmounted by then  *)
AcquireAnswered(e) ==
  /\ acquiring[e].phase = "answered"
  /\ LET id == acquiring[e].id IN
       /\ held' = [held EXCEPT ![e] = id]
       /\ view' = [view EXCEPT ![e] =
            IF ~Mounted(e) THEN "closed" ELSE IF id = 0 THEN "readonly" ELSE "locked"]
  /\ acquiring' = [acquiring EXCEPT ![e] = Quiet]
  /\ UNCHANGED <<owner, key, beat, releasing, sweep, passed>>

(* Any other error, before or after the lock was granted *)
AcquireFails(e) ==
  /\ acquiring[e] # Quiet
  /\ view' = [view EXCEPT ![e] = IF Mounted(e) THEN "readonly" ELSE "closed"]
  /\ acquiring' = [acquiring EXCEPT ![e] = Quiet]
  /\ passed' = passed \ {e}
  /\ UNCHANGED <<owner, key, held, beat, releasing, sweep>>

--------------------------------------------------------------------------------
(* Heartbeat.  Bound: one at a time for each editor. *)

(* SCAN and GET find the lock of the hook *)
Found(e) == held[e] # 0 /\ key.id = held[e] /\ OwnedBy(e)

(* A heartbeat that finds no lock changes nothing *)
Beat(e) ==
  /\ Room /\ beat[e] = Quiet /\ Found(e)
  /\ beat' = [beat EXCEPT ![e] = [phase |-> "found", id |-> held[e]]]
  /\ UNCHANGED <<owner, key, view, held, acquiring, releasing, sweep, passed>>

(* EXPIRE: whichever lock is there by now lives on *)
BeatExtends(e) ==
  /\ beat[e].phase = "found"
  /\ IF key = NoLock
     THEN beat' = [beat EXCEPT ![e] = Quiet] /\ UNCHANGED key
     ELSE /\ beat' = [beat EXCEPT ![e].phase = "extended"]
          /\ key' = [key EXCEPT !.expires = TRUE]
  /\ UNCHANGED <<owner, view, held, acquiring, releasing, sweep, passed>>

(* Mutant of BeatWrites: SET without EX, which clears the time to live *)
BeatWritesForever(e) ==
  /\ beat[e].phase = "extended"
  /\ key' = [id |-> beat[e].id, fresh |-> TRUE, expires |-> FALSE]
  /\ passed' = IF key.id = beat[e].id THEN passed ELSE passed \cup Having(key.id)
  /\ beat' = [beat EXCEPT ![e] = Quiet]
  /\ UNCHANGED <<owner, view, held, acquiring, releasing, sweep>>

(* SET EX of what GET has found: it brings a lock back that has been released *)
(* since, and overwrites a newer one                                          *)
BeatWrites(e) ==
  /\ beat[e].phase = "extended"
  /\ key' = [id |-> beat[e].id, fresh |-> TRUE, expires |-> TRUE]
  /\ passed' = IF key.id = beat[e].id THEN passed ELSE passed \cup Having(key.id)
  /\ beat' = [beat EXCEPT ![e] = Quiet]
  /\ UNCHANGED <<owner, view, held, acquiring, releasing, sweep>>

(* A heartbeat is lost, or dies between two calls; nobody notices *)
BeatFails(e) ==
  /\ beat[e] # Quiet
  /\ beat' = [beat EXCEPT ![e] = Quiet]
  /\ UNCHANGED <<owner, key, view, held, acquiring, releasing, sweep, passed>>

--------------------------------------------------------------------------------
(* Release *)

(* Mutant of LetGo: lockIdRef and the client are kept *)
LetGoOfNothing(e) ==
  /\ IF Mounted(e)
     THEN /\ view' = [view EXCEPT ![e] = "acquiring"]
          /\ acquiring' = [acquiring EXCEPT ![e] = Sent]
     ELSE UNCHANGED <<view, acquiring>>
  /\ UNCHANGED held

(* Released by the button, the hook is idle, and so asks for the lock again *)
LetGo(e) ==
  /\ held' = [held EXCEPT ![e] = 0]
  /\ IF Mounted(e)
     THEN /\ view' = [view EXCEPT ![e] = "acquiring"]
          /\ acquiring' = [acquiring EXCEPT ![e] = Sent]
     ELSE UNCHANGED <<view, acquiring>>

(* SCAN and GET: the lock is looked for by its id, and its user is checked *)
Looked(e) == IF Found(e) THEN [phase |-> "found", id |-> held[e]] ELSE Quiet

(* The button of the editor *)
PressRelease(e) ==
  /\ Room /\ Editing(e)
  /\ releasing' = [releasing EXCEPT ![e]["button"] = Looked(e)]
  /\ IF Found(e)
     THEN UNCHANGED <<view, held, acquiring, passed>>
     ELSE LetGo(e) /\ passed' = passed \ {e}
  /\ UNCHANGED <<owner, key, beat, sweep>>

(* Unmounted: the lock is released if there is one yet, and its heartbeats stop *)
Unmount(e) ==
  /\ Mounted(e) /\ (Room \/ held[e] = 0)
  /\ view' = [view EXCEPT ![e] = "closed"]
  /\ held' = [held EXCEPT ![e] = 0]
  /\ releasing' = [releasing EXCEPT ![e]["cleanup"] = IF held[e] = 0 THEN @ ELSE Looked(e)]
  /\ passed' = passed \ {e}
  /\ UNCHANGED <<owner, key, acquiring, beat, sweep>>

(* The browser is gone: nothing is cleaned up, requests under way go on *)
Vanish(e) ==
  /\ Mounted(e) \/ held[e] # 0
  /\ view' = [view EXCEPT ![e] = "closed"]
  /\ held' = [held EXCEPT ![e] = 0]
  /\ acquiring' = [acquiring EXCEPT ![e] = Quiet]
  /\ passed' = passed \ {e}
  /\ UNCHANGED <<owner, key, beat, releasing, sweep>>

(* The hook waits for the end of the request of the button, and of no other *)
ReleaseEnds(e, why) ==
  /\ releasing' = [releasing EXCEPT ![e][why] = Quiet]
  /\ IF why = "button" THEN LetGo(e) ELSE UNCHANGED <<view, held, acquiring>>

(* DEL: whatever lock is there by now *)
ReleaseDeletes(e, why) ==
  LET id == releasing[e][why].id IN
  /\ releasing[e][why] # Quiet
  /\ key' = NoLock
  /\ passed' = (passed \ {e}) \cup
       {f \in Having(key.id) \ {e} : key.id # id \/ UserOf[f] = UserOf[e]}
  /\ ReleaseEnds(e, why)
  /\ UNCHANGED <<owner, beat, sweep>>

(* A request to release gets lost, or dies between two calls *)
ReleaseFails(e, why) ==
  /\ releasing[e][why] # Quiet
  /\ passed' = passed \ {e}
  /\ ReleaseEnds(e, why)
  /\ UNCHANGED <<owner, key, beat, sweep>>

--------------------------------------------------------------------------------
(* Time and sweeps *)

(* The last heartbeat is too old: one that is lost or late is enough *)
Age ==
  /\ key.fresh
  /\ key' = [key EXCEPT !.fresh = FALSE]
  /\ UNCHANGED <<owner, view, held, acquiring, beat, releasing, sweep, passed>>

(* The time to live, which is longer, ends *)
Expire ==
  /\ key # NoLock /\ ~key.fresh /\ key.expires
  /\ key' = NoLock
  /\ passed' = passed \cup Having(key.id)
  /\ UNCHANGED <<owner, view, held, acquiring, beat, releasing, sweep>>

(* scan_stale *)
SweepFinds(s) ==
  /\ Room /\ sweep[s] = NoLock /\ key # NoLock /\ ~key.fresh
  /\ sweep' = [sweep EXCEPT ![s] = key]
  /\ UNCHANGED <<owner, key, view, held, acquiring, beat, releasing, passed>>

(* DEL of whatever lock is there by now.  Editors of the user that happen to   *)
(* be connected to the process are told: to that of the cron job, none is.    *)
SweepDeletes(s) ==
  /\ sweep[s] # NoLock
  /\ key' = NoLock
  /\ passed' = IF ~key.fresh \/ key # sweep[s] THEN passed \cup Having(key.id) ELSE passed
  /\ sweep' = [sweep EXCEPT ![s] = NoLock]
  /\ \E told \in SUBSET {e \in Editors : UserOf[e] = owner[sweep[s].id] /\ held[e] # 0} :
       view' = [e \in Editors |-> IF e \in told /\ Mounted(e) THEN "readonly" ELSE view[e]]
  /\ UNCHANGED <<owner, held, acquiring, beat, releasing>>

(* A sweep dies *)
SweepFails(s) ==
  /\ sweep[s] # NoLock
  /\ sweep' = [sweep EXCEPT ![s] = NoLock]
  /\ UNCHANGED <<owner, key, view, held, acquiring, beat, releasing, passed>>

--------------------------------------------------------------------------------

Acquire(e) ==
  Mount(e) \/ SetIfAbsent(e) \/ ReadExisting(e) \/ AcquireAnswered(e) \/ AcquireFails(e)

Heartbeat(e) ==
  Beat(e) \/ BeatExtends(e) \/ BeatWrites(e) \/ BeatFails(e)

Release(e) ==
  \/ PressRelease(e) \/ Unmount(e) \/ Vanish(e)
  \/ \E why \in Reasons :
       ReleaseDeletes(e, why) \/ ReleaseFails(e, why)

Sweeping(s) == SweepFinds(s) \/ SweepDeletes(s) \/ SweepFails(s)

Next ==
  \/ \E e \in Editors : Acquire(e) \/ Heartbeat(e) \/ Release(e)
  \/ \E s \in Sweeps : Sweeping(s)
  \/ Age \/ Expire

Spec == Init /\ [][Next]_vars

(* Time passes for a lock that nobody holds or asks for any more *)
Abandoned ==
  \A e \in Editors : held[e] = 0 /\ acquiring[e] = Quiet /\ beat[e] = Quiet

FairSpec ==
  /\ Spec
  /\ WF_vars(Abandoned /\ Age)
  /\ WF_vars(Abandoned /\ Expire)

--------------------------------------------------------------------------------
(* Properties *)

(* Types; an editor that asks for the lock has none, one that shows it has one *)
Numbers == {0} \cup Ids
Locks == {NoLock} \cup [id: Ids, fresh: BOOLEAN, expires: BOOLEAN]
TypeOK ==
  /\ owner \in Seq(Users) /\ Len(owner) <= MaxLocks
  /\ key \in Locks /\ sweep \in [Sweeps -> Locks]
  /\ view \in [Editors -> {"closed", "acquiring", "locked", "readonly"}]
  /\ held \in [Editors -> Numbers]
  /\ acquiring \in [Editors -> [phase: {"none", "sent", "refused", "answered"}, id: Numbers]]
  /\ beat \in [Editors -> {Quiet} \cup [phase: {"found", "extended"}, id: Ids]]
  /\ releasing \in [Editors -> [Reasons -> {Quiet} \cup [phase: {"found"}, id: Ids]]]
  /\ passed \in SUBSET Editors
  /\ \A e \in Editors :
       /\ view[e] = "acquiring" \/ acquiring[e] # Quiet => held[e] = 0
       /\ view[e] = "locked" => held[e] # 0

(* Editors of two users never both show the lock as their own, unless the     *)
(* lock of one has ended under it: heartbeats stayed away, another editor of  *)
(* its user released it, or a request that had found another lock came late.  *)
ExclusiveUnlessPassed ==
  \A e, f \in Editors :
    (Editing(e) /\ Editing(f) /\ UserOf[e] # UserOf[f]) => (e \in passed \/ f \in passed)

(* A lock that no browser renews ends, even when no sweep ever runs and when  *)
(* a late heartbeat has brought it back.                                      *)
AbandonedLocksEnd == (key # NoLock /\ Abandoned) ~> (key = NoLock \/ ~Abandoned)
================================================================================
