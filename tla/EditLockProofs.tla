---------------------------- MODULE EditLockProofs ----------------------------
(* Theorems about EditLock: for any editors, users and sweeps *)
EXTENDS EditLock, TLAPS

(* Whatever refers to a lock belongs to the user of the lock *)
OwnLocks ==
  \A e \in Editors :
    /\ held[e] # 0 => owner[held[e]] = UserOf[e]
    /\ acquiring[e].id # 0 => owner[acquiring[e].id] = UserOf[e]
    /\ beat[e].id # 0 => owner[beat[e].id] = UserOf[e]
    /\ \A why \in Reasons : releasing[e][why].id # 0 => owner[releasing[e][why].id] = UserOf[e]

(* What the key holds for an editor whose lock has not ended under it *)
KeyIsHeld(e) ==
  /\ Editing(e) => key.id = held[e]
  /\ Mounted(e) /\ acquiring[e].phase = "answered" /\ acquiring[e].id # 0 => key.id = acquiring[e].id

(* A cleanup runs for a closed editor *)
CleanupsAreLate == \A e \in Editors : releasing[e]["cleanup"] # Quiet => ~Mounted(e)

(* A sweep goes on with a lock that was stale *)
SweepsAreOfStale == \A s \in Sweeps : ~sweep[s].fresh

(* The inductive invariant *)
Inv ==
  /\ TypeOK
  /\ OwnLocks
  /\ CleanupsAreLate
  /\ SweepsAreOfStale
  /\ \A e \in Editors \ passed : KeyIsHeld(e)

(* Nothing is open at first *)
LEMMA InitInv == Init => Inv
BY EditLockAssumption
   DEF Init, Inv, TypeOK, OwnLocks, KeyIsHeld, CleanupsAreLate, SweepsAreOfStale, Editing, Mounted, NoLock, Quiet, Reasons, Ids, Numbers,
       Locks

(* Each step of an editor that asks for the lock preserves the invariant *)
LEMMA AcquireInv == ASSUME Inv, NEW e \in Editors, Acquire(e) PROVE Inv'
<1> USE EditLockAssumption DEF Inv, TypeOK, OwnLocks, KeyIsHeld, CleanupsAreLate, SweepsAreOfStale, Editing, Mounted, NoLock, Quiet, Reasons, Ids, Numbers, Locks
<1>1. CASE Mount(e)
  BY <1>1 DEF Mount, Sent
<1>2. CASE SetIfAbsent(e)
  <2>1. CASE key # NoLock /\ UNCHANGED <<owner, key>>
    <3>1. /\ acquiring' = [acquiring EXCEPT ![e] = [phase |-> "refused", id |-> 0]]
          /\ acquiring[e] # Quiet
          /\ UNCHANGED <<owner, key, view, held, beat, releasing, sweep, passed>>
      BY <1>2, <2>1 DEF SetIfAbsent
    <3> QED
      BY <3>1
  <2>2. CASE key = NoLock /\ owner' = Append(owner, UserOf[e])
    <3> DEFINE new == Len(owner) + 1
    <3>1. /\ key' = [id |-> new, fresh |-> TRUE, expires |-> TRUE]
          /\ acquiring' = [acquiring EXCEPT ![e] = [phase |-> "answered", id |-> new]]
          /\ Len(owner) < MaxLocks
          /\ UNCHANGED <<view, held, beat, releasing, sweep, passed>>
      BY <1>2, <2>2 DEF SetIfAbsent
    <3>2. /\ owner' \in Seq(Users) /\ Len(owner') = new /\ owner'[new] = UserOf[e]
          /\ \A i \in Ids : owner'[i] = owner[i]
      BY <2>2
    <3>3. /\ Ids \subseteq Ids' /\ new \in Ids' /\ Numbers \subseteq Numbers' /\ new # 0
      BY <3>2
    <3>4. TypeOK'
      <4>1. key' \in Locks' /\ sweep' \in [Sweeps -> Locks']
        BY <3>1, <3>3
      <4>2. acquiring' \in [Editors -> [phase: {"none", "sent", "refused", "answered"}, id: Numbers']]
        BY <3>1, <3>3
      <4>3. beat' \in [Editors -> {Quiet} \cup [phase: {"found", "extended"}, id: Ids']]
        BY <3>1, <3>3
      <4>4. releasing' \in [Editors -> [Reasons -> {Quiet} \cup [phase: {"found"}, id: Ids']]]
        BY <3>1, <3>3
      <4>5. owner' \in Seq(Users) /\ Len(owner') <= MaxLocks
        BY <3>1, <3>2
      <4>6. held' \in [Editors -> Numbers']
        BY <3>1, <3>3
      <4>7. \A f \in Editors : acquiring'[f] # Quiet => held'[f] = 0
        BY <1>2, <3>1 DEF SetIfAbsent, Sent
      <4> QED
        BY <3>1, <4>1, <4>2, <4>3, <4>4, <4>5, <4>6, <4>7
    <3>5. OwnLocks'
      <4>1. acquiring'[e].id = new /\ owner'[new] = UserOf[e]
        BY <3>1, <3>2
      <4>2. \A f \in Editors \ {e} : acquiring'[f] = acquiring[f]
        BY <3>1
      <4>3. /\ \A f \in Editors : /\ held[f] \in Numbers /\ acquiring[f].id \in Numbers
                                 /\ beat[f].id \in Numbers
            /\ \A f \in Editors, why \in Reasons : releasing[f][why].id \in Numbers
        OBVIOUS
      <4>4. \A i \in Numbers : i # 0 => owner'[i] = owner[i]
        BY <3>2
      <4>5. \A f \in Editors : acquiring'[f].id # 0 => owner'[acquiring'[f].id] = UserOf[f]
        <5>1. \A f \in Editors : acquiring[f].id # 0 => owner[acquiring[f].id] = UserOf[f]
          OBVIOUS
        <5>2. SUFFICES ASSUME NEW f \in Editors, acquiring'[f].id # 0
                       PROVE  owner'[acquiring'[f].id] = UserOf[f]
          OBVIOUS
        <5>3. CASE f = e
          BY <4>1, <5>3
        <5>4. CASE f # e
          BY <4>2, <4>3, <4>4, <5>1, <5>2, <5>4
        <5> QED
          BY <5>3, <5>4
      <4>6. \A f \in Editors : /\ held[f] # 0 => owner'[held[f]] = UserOf[f]
                               /\ beat[f].id # 0 => owner'[beat[f].id] = UserOf[f]
        BY <4>3, <4>4
      <4>7. \A f \in Editors, why \in Reasons :
              releasing[f][why].id # 0 => owner'[releasing[f][why].id] = UserOf[f]
        <5>1. \A f \in Editors, why \in Reasons :
                releasing[f][why].id # 0 => owner[releasing[f][why].id] = UserOf[f]
          OBVIOUS
        <5> QED
          BY <4>3, <4>4, <5>1
      <4> QED
        BY <3>1, <4>5, <4>6, <4>7
    <3> QED
      BY <3>1, <3>2, <3>3, <3>4, <3>5, <2>2
  <2> QED
    BY <1>2, <2>1, <2>2 DEF SetIfAbsent
<1>3. CASE ReadExisting(e)
  BY <1>3 DEF ReadExisting, OwnedBy
<1>4. CASE AcquireAnswered(e)
  BY <1>4 DEF AcquireAnswered
<1>5. CASE AcquireFails(e)
  BY <1>5 DEF AcquireFails
<1> QED
  BY <1>1, <1>2, <1>3, <1>4, <1>5 DEF Acquire

(* Each step of a heartbeat preserves the invariant *)
LEMMA HeartbeatInv == ASSUME Inv, NEW e \in Editors, Heartbeat(e) PROVE Inv'
<1> USE EditLockAssumption DEF Inv, TypeOK, OwnLocks, KeyIsHeld, CleanupsAreLate, SweepsAreOfStale, Editing, Mounted, NoLock, Quiet, Reasons, Ids, Numbers, Locks
<1>1. CASE Beat(e)
  BY <1>1 DEF Beat, Found
<1>2. CASE BeatExtends(e)
  <2>1. CASE key = NoLock
    <3>1. /\ beat' = [beat EXCEPT ![e] = [phase |-> "none", id |-> 0]]
          /\ UNCHANGED <<owner, key, view, held, acquiring, releasing, sweep, passed>>
      BY <1>2, <2>1 DEF BeatExtends
    <3> QED
      BY <3>1
  <2>2. CASE key # NoLock
    <3>1. /\ key' = [id |-> key.id, fresh |-> key.fresh, expires |-> TRUE]
          /\ key' \in [id: Ids, fresh: BOOLEAN, expires: BOOLEAN]
      BY <1>2, <2>2 DEF BeatExtends
    <3>2. /\ beat' = [beat EXCEPT ![e] = [phase |-> "extended", id |-> beat[e].id]]
          /\ beat[e].id \in Ids
      BY <1>2, <2>2 DEF BeatExtends
    <3>3. UNCHANGED <<owner, view, held, acquiring, releasing, sweep, passed>>
      BY <1>2 DEF BeatExtends
    <3> QED
      BY <3>1, <3>2, <3>3
  <2> QED
    BY <2>1, <2>2
<1>3. CASE BeatWrites(e)
  <2>1. TypeOK'
    BY <1>3 DEF BeatWrites, Having
  <2>2. OwnLocks'
    BY <1>3 DEF BeatWrites, Having
  <2>3. CleanupsAreLate' /\ SweepsAreOfStale'
    BY <1>3 DEF BeatWrites, Having
  <2>4. \A f \in Editors \ passed' : KeyIsHeld(f)'
    BY <1>3 DEF BeatWrites, Having
  <2> QED
    BY <2>1, <2>2, <2>3, <2>4 DEF Inv
<1>4. CASE BeatFails(e)
  BY <1>4 DEF BeatFails
<1> QED
  BY <1>1, <1>2, <1>3, <1>4 DEF Heartbeat

(* Each step that lets a lock go preserves the invariant *)
LEMMA ReleaseInv == ASSUME Inv, NEW e \in Editors, Release(e) PROVE Inv'
<1> USE EditLockAssumption DEF Inv, TypeOK, OwnLocks, KeyIsHeld, CleanupsAreLate, SweepsAreOfStale, Editing, Mounted, NoLock, Quiet, Reasons, Ids, Numbers, Locks
<1>1. CASE PressRelease(e)
  <2>1. TypeOK'
    <3> DEFINE Slots == {Quiet} \cup [phase: {"found"}, id: Ids]
    <3>1. releasing' \in [Editors -> [Reasons -> Slots]]
      <4>1. releasing \in [Editors -> [Reasons -> Slots]]
        OBVIOUS
      <4>2. PICK x \in Slots, why0 \in Reasons : releasing' = [releasing EXCEPT ![e][why0] = x]
        BY <1>1 DEF PressRelease, Looked, Found, LetGo, Sent
      <4> QED
        BY <4>1, <4>2
    <3>2. UNCHANGED owner /\ key' \in Locks /\ UNCHANGED sweep /\ UNCHANGED beat
      BY <1>1 DEF PressRelease, Looked, Found, LetGo, Sent
    <3>3. /\ view' \in [Editors -> {"closed", "acquiring", "locked", "readonly"}]
          /\ held' \in [Editors -> Numbers]
      BY <1>1 DEF PressRelease, Looked, Found, LetGo, Sent
    <3>4. acquiring' \in [Editors -> [phase: {"none", "sent", "refused", "answered"}, id: Numbers]]
      <4> DEFINE Asks == [phase: {"none", "sent", "refused", "answered"}, id: Numbers]
      <4>1. [phase |-> "sent", id |-> 0] \in Asks
        OBVIOUS
      <4>2. acquiring \in [Editors -> Asks]
        OBVIOUS
      <4>3. acquiring' = acquiring \/ acquiring' = [acquiring EXCEPT ![e] = [phase |-> "sent", id |-> 0]]
        BY <1>1 DEF PressRelease, Looked, Found, LetGo, Sent
      <4> HIDE DEF Asks
      <4>4. acquiring' \in [Editors -> Asks]
        BY <4>1, <4>2, <4>3
      <4> QED
        BY <4>4 DEF Asks
    <3>5. passed' \in SUBSET Editors
      BY <1>1 DEF PressRelease, Looked, Found, LetGo, Sent
    <3>6. \A f \in Editors :
            /\ view'[f] = "acquiring" \/ acquiring'[f] # Quiet => held'[f] = 0
            /\ view'[f] = "locked" => held'[f] # 0
      BY <1>1 DEF PressRelease, Looked, Found, LetGo, Sent
    <3> QED
      BY <3>1, <3>2, <3>3, <3>4, <3>5, <3>6
  <2>2. OwnLocks'
    BY <1>1 DEF PressRelease, Looked, Found, LetGo, Sent
  <2>3. CleanupsAreLate' /\ SweepsAreOfStale'
    BY <1>1 DEF PressRelease, Looked, Found, LetGo, Sent
  <2>4. \A f \in Editors \ passed' : KeyIsHeld(f)'
    BY <1>1 DEF PressRelease, Looked, Found, LetGo, Sent
  <2> QED
    BY <2>1, <2>2, <2>3, <2>4 DEF Inv
<1>2. CASE Unmount(e)
  BY <1>2 DEF Unmount, Looked, Found
<1>3. CASE Vanish(e)
  BY <1>3 DEF Vanish
<1>4. ASSUME NEW why \in Reasons, ReleaseDeletes(e, why) PROVE Inv'
  <2>1. TypeOK'
    <3> DEFINE Slots == {Quiet} \cup [phase: {"found"}, id: Ids]
    <3>1. releasing' \in [Editors -> [Reasons -> Slots]]
      <4>1. releasing \in [Editors -> [Reasons -> Slots]]
        OBVIOUS
      <4>2. PICK x \in Slots, why0 \in Reasons : releasing' = [releasing EXCEPT ![e][why0] = x]
        BY <1>4 DEF ReleaseDeletes, ReleaseEnds, LetGo, Sent, Having
      <4> QED
        BY <4>1, <4>2
    <3>2. UNCHANGED owner /\ key' \in Locks /\ UNCHANGED sweep /\ UNCHANGED beat
      BY <1>4 DEF ReleaseDeletes, ReleaseEnds, LetGo, Sent, Having
    <3>3. /\ view' \in [Editors -> {"closed", "acquiring", "locked", "readonly"}]
          /\ held' \in [Editors -> Numbers]
      BY <1>4 DEF ReleaseDeletes, ReleaseEnds, LetGo, Sent, Having
    <3>4. acquiring' \in [Editors -> [phase: {"none", "sent", "refused", "answered"}, id: Numbers]]
      <4> DEFINE Asks == [phase: {"none", "sent", "refused", "answered"}, id: Numbers]
      <4>1. [phase |-> "sent", id |-> 0] \in Asks
        OBVIOUS
      <4>2. acquiring \in [Editors -> Asks]
        OBVIOUS
      <4>3. acquiring' = acquiring \/ acquiring' = [acquiring EXCEPT ![e] = [phase |-> "sent", id |-> 0]]
        BY <1>4 DEF ReleaseDeletes, ReleaseEnds, LetGo, Sent, Having
      <4> HIDE DEF Asks
      <4>4. acquiring' \in [Editors -> Asks]
        BY <4>1, <4>2, <4>3
      <4> QED
        BY <4>4 DEF Asks
    <3>5. passed' \in SUBSET Editors
      BY <1>4 DEF ReleaseDeletes, ReleaseEnds, LetGo, Sent, Having
    <3>6. \A f \in Editors :
            /\ view'[f] = "acquiring" \/ acquiring'[f] # Quiet => held'[f] = 0
            /\ view'[f] = "locked" => held'[f] # 0
      BY <1>4 DEF ReleaseDeletes, ReleaseEnds, LetGo, Sent, Having
    <3> QED
      BY <3>1, <3>2, <3>3, <3>4, <3>5, <3>6
  <2>2. OwnLocks'
    BY <1>4 DEF ReleaseDeletes, ReleaseEnds, LetGo, Sent, Having
  <2>3. CleanupsAreLate' /\ SweepsAreOfStale'
    BY <1>4 DEF ReleaseDeletes, ReleaseEnds, LetGo, Sent, Having
  <2>4. \A f \in Editors \ passed' : KeyIsHeld(f)'
    BY <1>4 DEF ReleaseDeletes, ReleaseEnds, LetGo, Sent, Having
  <2> QED
    BY <2>1, <2>2, <2>3, <2>4 DEF Inv
<1>5. ASSUME NEW why \in Reasons, ReleaseFails(e, why) PROVE Inv'
  <2>1. TypeOK'
    <3> DEFINE Slots == {Quiet} \cup [phase: {"found"}, id: Ids]
    <3>1. releasing' \in [Editors -> [Reasons -> Slots]]
      <4>1. releasing \in [Editors -> [Reasons -> Slots]]
        OBVIOUS
      <4>2. PICK x \in Slots, why0 \in Reasons : releasing' = [releasing EXCEPT ![e][why0] = x]
        BY <1>5 DEF ReleaseFails, ReleaseEnds, LetGo, Sent
      <4> QED
        BY <4>1, <4>2
    <3>2. UNCHANGED owner /\ key' \in Locks /\ UNCHANGED sweep /\ UNCHANGED beat
      BY <1>5 DEF ReleaseFails, ReleaseEnds, LetGo, Sent
    <3>3. /\ view' \in [Editors -> {"closed", "acquiring", "locked", "readonly"}]
          /\ held' \in [Editors -> Numbers]
      BY <1>5 DEF ReleaseFails, ReleaseEnds, LetGo, Sent
    <3>4. acquiring' \in [Editors -> [phase: {"none", "sent", "refused", "answered"}, id: Numbers]]
      <4> DEFINE Asks == [phase: {"none", "sent", "refused", "answered"}, id: Numbers]
      <4>1. [phase |-> "sent", id |-> 0] \in Asks
        OBVIOUS
      <4>2. acquiring \in [Editors -> Asks]
        OBVIOUS
      <4>3. acquiring' = acquiring \/ acquiring' = [acquiring EXCEPT ![e] = [phase |-> "sent", id |-> 0]]
        BY <1>5 DEF ReleaseFails, ReleaseEnds, LetGo, Sent
      <4> HIDE DEF Asks
      <4>4. acquiring' \in [Editors -> Asks]
        BY <4>1, <4>2, <4>3
      <4> QED
        BY <4>4 DEF Asks
    <3>5. passed' \in SUBSET Editors
      BY <1>5 DEF ReleaseFails, ReleaseEnds, LetGo, Sent
    <3>6. \A f \in Editors :
            /\ view'[f] = "acquiring" \/ acquiring'[f] # Quiet => held'[f] = 0
            /\ view'[f] = "locked" => held'[f] # 0
      BY <1>5 DEF ReleaseFails, ReleaseEnds, LetGo, Sent
    <3> QED
      BY <3>1, <3>2, <3>3, <3>4, <3>5, <3>6
  <2>2. OwnLocks'
    BY <1>5 DEF ReleaseFails, ReleaseEnds, LetGo, Sent
  <2>3. CleanupsAreLate' /\ SweepsAreOfStale'
    BY <1>5 DEF ReleaseFails, ReleaseEnds, LetGo, Sent
  <2>4. \A f \in Editors \ passed' : KeyIsHeld(f)'
    BY <1>5 DEF ReleaseFails, ReleaseEnds, LetGo, Sent
  <2> QED
    BY <2>1, <2>2, <2>3, <2>4 DEF Inv
<1> QED
  BY <1>1, <1>2, <1>3, <1>4, <1>5 DEF Release

(* Each step of a sweep preserves the invariant *)
LEMMA SweepInv == ASSUME Inv, NEW s \in Sweeps, Sweeping(s) PROVE Inv'
<1> USE EditLockAssumption DEF Inv, TypeOK, OwnLocks, KeyIsHeld, CleanupsAreLate, SweepsAreOfStale, Editing, Mounted, NoLock, Quiet, Reasons, Ids, Numbers, Locks
<1>1. CASE SweepFinds(s)
  BY <1>1 DEF SweepFinds
<1>2. CASE SweepDeletes(s)
  <2>1. TypeOK'
    BY <1>2 DEF SweepDeletes, Having
  <2>2. OwnLocks'
    BY <1>2 DEF SweepDeletes, Having
  <2>3. CleanupsAreLate' /\ SweepsAreOfStale'
    BY <1>2 DEF SweepDeletes, Having
  <2>4. \A f \in Editors \ passed' : KeyIsHeld(f)'
    BY <1>2 DEF SweepDeletes, Having
  <2> QED
    BY <2>1, <2>2, <2>3, <2>4 DEF Inv
<1>3. CASE SweepFails(s)
  BY <1>3 DEF SweepFails
<1> QED
  BY <1>1, <1>2, <1>3 DEF Sweeping

(* The passing of time preserves the invariant *)
LEMMA TimeInv == ASSUME Inv, Age \/ Expire PROVE Inv'
<1> USE EditLockAssumption DEF Inv, TypeOK, OwnLocks, KeyIsHeld, CleanupsAreLate, SweepsAreOfStale, Editing, Mounted, NoLock, Quiet, Reasons, Ids, Numbers, Locks
<1>1. CASE Age
  <2>1. key \in [id: Ids, fresh: BOOLEAN, expires: BOOLEAN]
    BY <1>1 DEF Age
  <2>2. /\ key' = [key EXCEPT !.fresh = FALSE]
        /\ UNCHANGED <<owner, view, held, acquiring, beat, releasing, sweep, passed>>
    BY <1>1 DEF Age
  <2>3. /\ key' = [id |-> key.id, fresh |-> FALSE, expires |-> key.expires]
        /\ key' \in [id: Ids, fresh: BOOLEAN, expires: BOOLEAN]
    BY <2>1, <2>2
  <2> QED
    BY <2>2, <2>3
<1>2. CASE Expire
  BY <1>2 DEF Expire, Having
<1> QED
  BY <1>1, <1>2

(* The invariant holds for ever *)
LEMMA Invariance == Spec => []Inv
<1>1. Inv /\ [Next]_vars => Inv'
  <2> SUFFICES ASSUME Inv, [Next]_vars PROVE Inv'
    OBVIOUS
  <2>1. CASE Next
    BY <2>1, AcquireInv, HeartbeatInv, ReleaseInv, SweepInv, TimeInv DEF Next
  <2>2. CASE UNCHANGED vars
    BY <2>2 DEF vars, Inv, TypeOK, OwnLocks, KeyIsHeld, CleanupsAreLate, SweepsAreOfStale, Editing, Mounted, Ids, Numbers, Locks
  <2> QED
    BY <2>1, <2>2
<1> QED
  BY InitInv, <1>1, PTL DEF Spec

(* Types, and an editor has a lock when it shows one and none while it asks: *)
(* for any editors and users.                                                 *)
THEOREM TypeCorrect == Spec => []TypeOK
<1>1. Inv => TypeOK
  BY DEF Inv
<1> QED
  BY Invariance, <1>1, PTL

(* Editors of two users never both show the lock as their own, unless the     *)
(* lock of one of them has ended under it (LockService.acquire, release,      *)
(* heartbeat, auto_release_stale).                                            *)
THEOREM Exclusive == Spec => []ExclusiveUnlessPassed
<1>1. Inv => ExclusiveUnlessPassed
  <2> SUFFICES ASSUME Inv, NEW e \in Editors \ passed, NEW f \in Editors \ passed,
                      Editing(e), Editing(f)
               PROVE  UserOf[e] = UserOf[f]
    BY DEF ExclusiveUnlessPassed
  <2>1. held[e] = held[f] /\ held[e] # 0
    BY DEF Inv, TypeOK, KeyIsHeld, Editing
  <2> QED
    BY <2>1 DEF Inv, OwnLocks
<1> QED
  BY Invariance, <1>1, PTL

(* A lock has a time to live in every state, the ones between two calls of a  *)
(* heartbeat included: Redis ends it even when no sweep ever does.            *)
LocksExpire == key # NoLock => key.expires

(* No call leaves a key without a time to live, whatever was released,        *)
(* granted or swept since the request read it (SET NX EX, EXPIRE, SET EX).    *)
THEOREM NoLockIsForEver == Spec => []LocksExpire
<1>1. Init => LocksExpire
  BY DEF Init, LocksExpire
<1>2. Inv /\ LocksExpire /\ [Next]_vars => LocksExpire'
  <2> SUFFICES ASSUME Inv, LocksExpire, [Next]_vars, key' # NoLock, key' # key
               PROVE  key'.expires
    BY DEF LocksExpire
  <2>0. key # NoLock => key \in [id: Ids, fresh: BOOLEAN, expires: BOOLEAN]
    BY DEF Inv, TypeOK, Locks
  <2>1. CASE \E e \in Editors : Acquire(e)
    BY <2>1 DEF Acquire, Mount, SetIfAbsent, ReadExisting, AcquireAnswered, AcquireFails
  <2>2. CASE \E e \in Editors : Heartbeat(e)
    <3>1. ASSUME key # NoLock, key' = [key EXCEPT !.expires = TRUE]
          PROVE  key'.expires
      BY <2>0, <3>1
    <3>2. ASSUME NEW e \in Editors, Heartbeat(e)
          PROVE  \/ key # NoLock /\ key' = [key EXCEPT !.expires = TRUE]
                 \/ key' = [id |-> beat[e].id, fresh |-> TRUE, expires |-> TRUE]
      BY <3>2 DEF Heartbeat, Beat, BeatExtends, BeatWrites, BeatFails
    <3>3. ASSUME NEW e \in Editors,
                 key' = [id |-> beat[e].id, fresh |-> TRUE, expires |-> TRUE]
          PROVE  key'.expires
      BY <3>3
    <3> QED
      BY <2>2, <3>1, <3>2, <3>3
  <2>3. CASE \E e \in Editors : Release(e)
    BY <2>3 DEF Release, PressRelease, Unmount, Vanish, ReleaseDeletes, ReleaseFails
  <2>4. CASE \E s \in Sweeps : Sweeping(s)
    BY <2>4 DEF Sweeping, SweepFinds, SweepDeletes, SweepFails
  <2>5. CASE Age
    <3>1. key # NoLock /\ [key EXCEPT !.fresh = FALSE].expires = key.expires
      BY <2>0, <2>5 DEF Age, NoLock
    <3> QED
      BY <2>5, <3>1 DEF Age, LocksExpire
  <2>6. CASE Expire
    BY <2>6 DEF Expire
  <2>7. CASE UNCHANGED vars
    BY <2>7 DEF vars
  <2> QED
    BY <2>1, <2>2, <2>3, <2>4, <2>5, <2>6, <2>7 DEF Next
<1> QED
  BY <1>1, <1>2, Invariance, PTL DEF Spec
================================================================================
