-------------------------- MODULE TaskAcceptanceProofs --------------------------
(***************************************************************************)
(* Proofs about TaskAcceptance for any handlers, keys, quotes and points.  *)
(***************************************************************************)
EXTENDS TaskAcceptance, FiniteSetTheorems, TLAPS

First == {"task", "execution"}

(* A committed task has all of its rows, or the first two only; a transaction  *)
(* has flushed the first two until it charges                                 *)
RowsAreWritten ==
  /\ \A t \in Tasks :
       IF key[t] = None THEN rows[t] = {}
       ELSE /\ body[t] \in Quotes
            /\ \/ rows[t] = First
               \/ rows[t] = Tables /\ quote[body[t]] = "reserved"
  /\ \A h \in Handlers :
       pc[h] \in Open => written[h] = IF pc[h] = "ready" THEN Tables ELSE First

(* uq_ai_tasks_scoped_idempotency, for committed and for uncommitted tasks *)
KeysAreUnique ==
  /\ \A s, t \in Tasks : key[s] # None /\ key[s] = key[t] => s = t
  /\ \A h \in Handlers : mine[h] # None => \A t \in Tasks : key[t] # request[h].key
  /\ \A g, h \in Handlers :
       mine[g] # None /\ mine[h] # None /\ request[g].key = request[h].key => g = h

(* Who has locked the ledger has a task, and who charges has the lock *)
LockIsUsed ==
  \A h \in Handlers :
    /\ ledger_lock = h =>
         pc[h] \in {"account", "buckets", "charge", "ready", "refused"}
    /\ pc[h] = "ready" => ledger_lock = h
    /\ pc[h] \in {"account", "buckets", "charge"} => ledger_lock = h \/ granted

(* Copies that were read after the grant have all points of the day *)
CopiesAreComplete ==
  \A h \in Handlers :
    /\ pc[h] \in {"buckets", "charge"} \/ ledger_lock = h =>
         seen[h].available + seen[h].reserved = Balance + DailyPoints
    /\ pc[h] \in {"buckets", "charge"} => seen[h].available >= Price
    /\ pc[h] = "charge" => seen[h].stock >= Price

(* Without an overlap the holder of the lock continues from what is committed *)
CopiesAgree ==
  ~overlapped =>
    \A h \in Handlers : ledger_lock = h =>
      /\ seen[h].available = seen[h].stock
      /\ seen[h].reserved = account.reserved + (IF pc[h] = "ready" THEN Price ELSE 0)

Inv ==
  /\ TypeOK
  /\ RowsAreWritten
  /\ KeysAreUnique
  /\ AcceptedIsDurable
  /\ GrantedOncePerDay
  /\ AccountAgreesUnlessOverlapped
  /\ LockIsUsed
  /\ CopiesAreComplete
  /\ CopiesAgree

(* The assumptions on the constants *)
LEMMA Constants ==
  /\ None \notin Handlers /\ None \notin Keys /\ None \notin Quotes /\ None \notin Tasks
  /\ IsFiniteSet(Tasks)
  /\ Price \in Nat /\ Price > 0 /\ Balance \in Nat /\ DailyPoints \in Nat
  BY TaskAcceptanceAssumption

(* A handler that is not idle has a request *)
LEMMA RequestKnown ==
  ASSUME TypeOK, NEW h \in Handlers, pc[h] # "idle"
  PROVE  request[h].key \in Keys /\ request[h].quote \in Quotes
  BY DEF TypeOK

(* The invariant holds at the start *)
LEMMA InitInv == Init => Inv
  <1> SUFFICES ASSUME Init PROVE Inv
    OBVIOUS
  <1> USE Constants DEF Init
  <1>1. TypeOK
    BY DEF TypeOK, Open, Purse, Nothing, NoRequest
  <1>2. RowsAreWritten /\ KeysAreUnique /\ AcceptedIsDurable
    BY DEF RowsAreWritten, KeysAreUnique, AcceptedIsDurable, Open
  <1>3. GrantedOncePerDay
    BY DEF GrantedOncePerDay
  <1>4. LockIsUsed /\ CopiesAreComplete /\ CopiesAgree
    BY DEF LockIsUsed, CopiesAreComplete, CopiesAgree
  <1>5. AccountAgreesUnlessOverlapped
    <2>1. ChargedTasks = {}
      BY DEF ChargedTasks
    <2> QED BY <2>1, FS_EmptySet DEF AccountAgreesUnlessOverlapped
  <1> QED BY <1>1, <1>2, <1>3, <1>4, <1>5 DEF Inv

(* What the end of a transaction does to the local variables *)
LEMMA ReleaseLocal ==
  ASSUME TypeOK, NEW h \in Handlers, Release(h)
  PROVE  /\ \A g \in Handlers :
              /\ pc'[g] = IF g = h THEN "idle" ELSE pc[g]
              /\ request'[g] = IF g = h THEN NoRequest ELSE request[g]
              /\ mine'[g] = IF g = h THEN None ELSE mine[g]
              /\ written'[g] = IF g = h THEN {} ELSE written[g]
              /\ seen'[g] = IF g = h THEN Nothing ELSE seen[g]
              /\ ledger_lock' = g <=> g # h /\ ledger_lock = g
         /\ pc' \in [Handlers -> {"idle", "lookup", "quote", "insert"} \cup Open]
         /\ request' \in [Handlers -> [key: Keys, quote: Quotes] \cup {NoRequest}]
         /\ mine' \in [Handlers -> Tasks \cup {None}]
         /\ written' \in [Handlers -> SUBSET Tables]
         /\ seen' \in [Handlers -> Purse]
         /\ ledger_lock' \in Handlers \cup {None}
  <1> USE DEF TypeOK, Release
  <1>1. Nothing \in Purse
    BY DEF Nothing, Purse
  <1>2. \A g \in Handlers : ledger_lock' = g <=> g # h /\ ledger_lock = g
    BY Constants
  <1>3. \A g \in Handlers :
          /\ pc'[g] = IF g = h THEN "idle" ELSE pc[g]
          /\ request'[g] = IF g = h THEN NoRequest ELSE request[g]
          /\ mine'[g] = IF g = h THEN None ELSE mine[g]
          /\ written'[g] = IF g = h THEN {} ELSE written[g]
          /\ seen'[g] = IF g = h THEN Nothing ELSE seen[g]
    OBVIOUS
  <1> QED BY <1>1, <1>2, <1>3

(* A transaction that ends without a change of rows *)
LEMMA EndInv ==
  ASSUME Inv, NEW h \in Handlers, Release(h), UNCHANGED <<committed, overlapped>>,
         told' \in [Keys -> SUBSET Tasks], AcceptedIsDurable'
  PROVE  Inv'
  <1> USE ReleaseLocal DEF Inv, committed
  <1>1. TypeOK'
    <2>1. \A g \in Handlers :
            /\ IF pc'[g] \in Open THEN mine'[g] \in {t \in Tasks : key'[t] = None}
               ELSE mine'[g] = None /\ written'[g] = {} /\ ledger_lock' # g
            /\ pc'[g] # "idle" => request'[g] # NoRequest
      BY DEF TypeOK, Open
    <2>2. \A f, g \in Handlers : f # g /\ mine'[f] = mine'[g] => mine'[g] = None
      BY DEF TypeOK
    <2> QED BY <2>1, <2>2 DEF TypeOK
  <1>2. RowsAreWritten'
    BY DEF RowsAreWritten, Open
  <1>3. KeysAreUnique'
    BY DEF KeysAreUnique
  <1>4. GrantedOncePerDay' /\ AccountAgreesUnlessOverlapped'
    BY DEF GrantedOncePerDay, AccountAgreesUnlessOverlapped, ChargedTasks
  <1>5. LockIsUsed'
    BY DEF LockIsUsed
  <1>6. CopiesAreComplete' /\ CopiesAgree'
    BY DEF CopiesAreComplete, CopiesAgree
  <1> QED BY <1>1, <1>2, <1>3, <1>4, <1>5, <1>6

(* Steps that only move a handler on, before it has a task *)
LEMMA MoveInv ==
  ASSUME Inv, NEW h \in Handlers, pc[h] \notin Open,
         NEW next \in {"lookup", "quote", "insert"},
         pc' = [pc EXCEPT ![h] = next],
         NEW r \in [key: Keys, quote: Quotes],
         request' = [request EXCEPT ![h] = r],
         UNCHANGED <<committed, mine, written, seen, ledger_lock, told, overlapped>>
  PROVE  Inv'
  <1> USE DEF Inv, committed
  <1>1. \A g \in Handlers :
          /\ pc'[g] = IF g = h THEN next ELSE pc[g]
          /\ request'[g] = IF g = h THEN r ELSE request[g]
    BY DEF TypeOK
  <1>2. next \notin Open /\ next # "idle" /\ r # NoRequest /\ mine[h] = None
    BY Constants DEF Open, NoRequest, TypeOK
  <1>3. TypeOK'
    <2>1. /\ pc' \in [Handlers -> {"idle", "lookup", "quote", "insert"} \cup Open]
          /\ request' \in [Handlers -> [key: Keys, quote: Quotes] \cup {NoRequest}]
      BY DEF TypeOK
    <2>2. \A g \in Handlers :
            /\ IF pc'[g] \in Open THEN mine[g] \in {t \in Tasks : key[t] = None}
               ELSE mine[g] = None /\ written[g] = {} /\ ledger_lock # g
            /\ pc'[g] # "idle" => request'[g] # NoRequest
      BY <1>1, <1>2 DEF TypeOK
    <2> QED BY <2>1, <2>2 DEF TypeOK
  <1>4. RowsAreWritten'
    BY <1>1, <1>2 DEF RowsAreWritten
  <1>5. KeysAreUnique'
    BY <1>1, <1>2 DEF KeysAreUnique
  <1>6. AcceptedIsDurable' /\ GrantedOncePerDay' /\ AccountAgreesUnlessOverlapped'
    BY DEF AcceptedIsDurable, GrantedOncePerDay, AccountAgreesUnlessOverlapped,
           ChargedTasks
  <1>7. LockIsUsed'
    BY <1>1, <1>2 DEF LockIsUsed, Open
  <1>8. CopiesAreComplete' /\ CopiesAgree'
    BY <1>1, <1>2 DEF CopiesAreComplete, CopiesAgree, LockIsUsed, Open
  <1> QED BY <1>3, <1>4, <1>5, <1>6, <1>7, <1>8

(* The first rows of a task: no other transaction has its key *)
LEMMA InsertInv ==
  ASSUME Inv, NEW h \in Handlers, InsertTask(h)
  PROVE  Inv'
  <1> USE DEF Inv, InsertTask, Goto, committed
  <1>1. PICK t \in Unused : mine' = [mine EXCEPT ![h] = t]
    OBVIOUS
  <1>2. t \in Tasks /\ key[t] = None /\ t # None /\ \A g \in Handlers : mine[g] # t
    BY Constants DEF Unused
  <1>3. \A g \in Handlers :
          /\ pc'[g] = IF g = h THEN "grant" ELSE pc[g]
          /\ mine'[g] = IF g = h THEN t ELSE mine[g]
          /\ written'[g] = IF g = h THEN First ELSE written[g]
    BY <1>1 DEF TypeOK, First
  <1>4. mine[h] = None /\ ledger_lock # h
    BY DEF TypeOK, Open
  <1>5. TypeOK'
    <2>1. /\ pc' \in [Handlers -> {"idle", "lookup", "quote", "insert"} \cup Open]
          /\ mine' \in [Handlers -> Tasks \cup {None}]
          /\ written' \in [Handlers -> SUBSET Tables]
      BY <1>1, <1>2 DEF TypeOK, Open, Tables
    <2>2. \A g \in Handlers :
            /\ IF pc'[g] \in Open THEN mine'[g] \in {u \in Tasks : key[u] = None}
               ELSE mine'[g] = None /\ written'[g] = {} /\ ledger_lock # g
            /\ pc'[g] # "idle" => request[g] # NoRequest
      BY <1>2, <1>3 DEF TypeOK, Open
    <2>3. \A f, g \in Handlers : f # g /\ mine'[f] = mine'[g] => mine'[g] = None
      BY <1>2, <1>3 DEF TypeOK
    <2> QED BY <2>1, <2>2, <2>3 DEF TypeOK
  <1>6. RowsAreWritten'
    BY <1>3 DEF RowsAreWritten, Open
  <1>7. KeysAreUnique'
    <2>1. \A g \in Handlers : mine[g] # None => request[g].key # request[h].key
      BY DEF Inserting
    <2>2. \A u \in Tasks : key[u] # request[h].key
      BY DEF KeyIsFree
    <2> QED BY <1>3, <1>4, <2>1, <2>2 DEF KeysAreUnique
  <1>8. AcceptedIsDurable' /\ GrantedOncePerDay' /\ AccountAgreesUnlessOverlapped'
    BY DEF AcceptedIsDurable, GrantedOncePerDay, AccountAgreesUnlessOverlapped,
           ChargedTasks
  <1>9. LockIsUsed' /\ CopiesAreComplete' /\ CopiesAgree'
    BY <1>3, <1>4 DEF LockIsUsed, CopiesAreComplete, CopiesAgree
  <1> QED BY <1>5, <1>6, <1>7, <1>8, <1>9

(* The steps on the ledger, in what they share: a handler that has a task     *)
(* moves on with other copies, and perhaps with the lock                      *)
LEMMA LedgerInv ==
  ASSUME Inv, NEW h \in Handlers, pc[h] \in Open \ {"ready"},
         NEW next \in {"account", "buckets", "charge", "refused"},
         pc' = [pc EXCEPT ![h] = next],
         NEW purse \in Purse, seen' = [seen EXCEPT ![h] = purse],
         UNCHANGED <<committed, request, mine, written, told, overlapped>>,
         \/ ledger_lock' = ledger_lock
         \/ ledger_lock = None /\ ledger_lock' = h,
         next # "refused" => ledger_lock' = h \/ granted,
         next \in {"buckets", "charge"} \/ ledger_lock' = h =>
           purse.available + purse.reserved = Balance + DailyPoints,
         next \in {"buckets", "charge"} => purse.available >= Price,
         next = "charge" => purse.stock >= Price,
         ~overlapped /\ ledger_lock' = h =>
           purse.available = purse.stock /\ purse.reserved = account.reserved
  PROVE  Inv'
  <1> USE DEF Inv, committed
  <1>1. \A g \in Handlers :
          /\ pc'[g] = IF g = h THEN next ELSE pc[g]
          /\ seen'[g] = IF g = h THEN purse ELSE seen[g]
    BY DEF TypeOK
  <1>2. next \in Open \ {"ready"} /\ next # "idle"
    BY DEF Open
  <1>3. \A g \in Handlers : g # h => (ledger_lock' = g <=> ledger_lock = g)
    BY Constants
  <1>4. TypeOK'
    <2>1. /\ pc' \in [Handlers -> {"idle", "lookup", "quote", "insert"} \cup Open]
          /\ seen' \in [Handlers -> Purse]
          /\ ledger_lock' \in Handlers \cup {None}
      BY <1>2 DEF TypeOK
    <2>2. \A g \in Handlers :
            /\ IF pc'[g] \in Open THEN mine[g] \in {t \in Tasks : key[t] = None}
               ELSE mine[g] = None /\ written[g] = {} /\ ledger_lock' # g
            /\ pc'[g] # "idle" => request[g] # NoRequest
      BY <1>1, <1>2, <1>3 DEF TypeOK, Open
    <2> QED BY <2>1, <2>2 DEF TypeOK
  <1>5. RowsAreWritten'
    BY <1>1, <1>2 DEF RowsAreWritten
  <1>6. KeysAreUnique' /\ AcceptedIsDurable' /\ GrantedOncePerDay'
    BY DEF KeysAreUnique, AcceptedIsDurable, GrantedOncePerDay
  <1>10. AccountAgreesUnlessOverlapped'
    BY DEF AccountAgreesUnlessOverlapped, ChargedTasks
  <1>7. LockIsUsed'
    BY <1>1, <1>2, <1>3 DEF LockIsUsed
  <1>8. CopiesAreComplete'
    BY <1>1, <1>2, <1>3 DEF CopiesAreComplete
  <1>9. CopiesAgree'
    <2>1. account.reserved \in Nat
      BY DEF TypeOK
    <2> QED BY <1>1, <1>2, <1>3, <2>1 DEF CopiesAgree
  <1> QED BY <1>4, <1>5, <1>6, <1>7, <1>8, <1>9, <1>10

(* The grant, if this is the first request of the day *)
LEMMA GrantInv ==
  ASSUME Inv, NEW h \in Handlers, EnsureDaily(h)
  PROVE  Inv'
  <1> USE DEF Inv
  <1>1. pc[h] \in Open \ {"ready"} /\ seen[h] \in Purse
    BY DEF EnsureDaily, Open, TypeOK
  <1>2. pc' = [pc EXCEPT ![h] = "account"]
    BY DEF EnsureDaily, Goto
  <1>3. ledger_lock # h
    BY DEF EnsureDaily, LockIsUsed
  <1>4. CASE ~NeedsGrant /\ UNCHANGED <<seen, ledger_lock>>
    <2>1. seen' = [seen EXCEPT ![h] = seen[h]]
      BY <1>4 DEF TypeOK
    <2>2. ledger_lock' # h /\ granted
      BY <1>3, <1>4 DEF NeedsGrant, TypeOK
    <2> HIDE DEF Inv
    <2> QED BY <1>1, <1>2, <1>4, <2>1, <2>2, LedgerInv DEF EnsureDaily
  <1>5. CASE /\ NeedsGrant /\ ledger_lock = None
             /\ ledger_lock' = h
             /\ seen' = [seen EXCEPT ![h] =
                  [available |-> account.available + DailyPoints,
                   reserved  |-> account.reserved,
                   stock     |-> stock + DailyPoints]]
    <2> DEFINE purse == [available |-> account.available + DailyPoints,
                         reserved  |-> account.reserved,
                         stock     |-> stock + DailyPoints]
    <2>1. purse \in Purse
      BY Constants DEF TypeOK, Purse
    <2>2. purse.available + purse.reserved = Balance + DailyPoints
      <3>1. account.available + account.reserved = Balance
        BY <1>5, Constants DEF NeedsGrant, GrantedOncePerDay
      <3>2. account.available \in Nat /\ account.reserved \in Nat
        BY DEF TypeOK
      <3> QED BY <3>1, <3>2, Constants
    <2>3. ~overlapped => purse.available = purse.stock
      BY DEF AccountAgreesUnlessOverlapped
    <2>4. purse.reserved = account.reserved /\ seen' = [seen EXCEPT ![h] = purse]
      BY <1>5
    <2> HIDE DEF Inv, purse
    <2> QED BY <1>1, <1>2, <1>5, <2>1, <2>2, <2>3, <2>4, LedgerInv DEF EnsureDaily
  <1> QED BY <1>4, <1>5 DEF EnsureDaily

(* The account is read: enough points, or refused *)
LEMMA ReadAccountInv ==
  ASSUME Inv, NEW h \in Handlers, ReadAccount(h)
  PROVE  Inv'
  <1> USE DEF Inv
  <1> DEFINE purse == IF ledger_lock = h THEN seen[h]
                      ELSE [seen[h] EXCEPT !.available = account.available,
                                           !.reserved = account.reserved]
             next == IF purse.available < Price THEN "refused" ELSE "buckets"
  <1>1. pc[h] \in Open \ {"ready"} /\ pc[h] # "ready" /\ seen[h] \in Purse
    BY DEF ReadAccount, Open, TypeOK
  <1>2. seen' = [seen EXCEPT ![h] = purse]
    BY <1>1 DEF ReadAccount, TypeOK, Purse
  <1>3. seen'[h] = purse
    BY <1>2 DEF TypeOK
  <1>4. pc' = [pc EXCEPT ![h] = next] /\ next \in {"buckets", "refused"}
    BY <1>3 DEF ReadAccount, Goto
  <1>5. purse \in Purse
    BY <1>1 DEF TypeOK, Purse
  <1>6. ledger_lock = h \/ granted
    BY DEF ReadAccount, LockIsUsed
  <1>7. purse.available + purse.reserved = Balance + DailyPoints
    <2>1. CASE ledger_lock = h
      BY <2>1 DEF CopiesAreComplete
    <2>2. CASE ledger_lock # h
      BY <1>1, <1>6, <2>2 DEF GrantedOncePerDay, Purse
    <2> QED BY <2>1, <2>2
  <1>8. next = "buckets" => purse.available >= Price
    <2>1. purse.available \in Nat
      BY <1>5 DEF Purse
    <2> HIDE DEF purse
    <2> QED BY <2>1, Constants
  <1>9. ~overlapped /\ ledger_lock = h =>
          purse.available = purse.stock /\ purse.reserved = account.reserved
    BY <1>1 DEF CopiesAgree, TypeOK
  <1> HIDE DEF Inv, purse, next
  <1> QED BY <1>1, <1>2, <1>4, <1>5, <1>6, <1>7, <1>8, <1>9, LedgerInv DEF ReadAccount

(* The buckets are read: enough points, or refused *)
LEMMA ReadBucketsInv ==
  ASSUME Inv, NEW h \in Handlers, ReadBuckets(h)
  PROVE  Inv'
  <1> USE DEF Inv
  <1> DEFINE purse == IF ledger_lock = h THEN seen[h]
                      ELSE [seen[h] EXCEPT !.stock = stock]
             next == IF purse.stock < Price THEN "refused" ELSE "charge"
  <1>1. pc[h] \in Open \ {"ready"} /\ pc[h] # "ready" /\ seen[h] \in Purse
    BY DEF ReadBuckets, Open, TypeOK
  <1>2. seen' = [seen EXCEPT ![h] = purse]
    BY <1>1 DEF ReadBuckets, TypeOK, Purse
  <1>3. seen'[h] = purse
    BY <1>2 DEF TypeOK
  <1>4. pc' = [pc EXCEPT ![h] = next] /\ next \in {"charge", "refused"}
    BY <1>3 DEF ReadBuckets, Goto
  <1>5. purse \in Purse
    BY <1>1 DEF TypeOK, Purse
  <1>6. ledger_lock = h \/ granted
    BY DEF ReadBuckets, LockIsUsed
  <1>7. /\ purse.available = seen[h].available /\ purse.reserved = seen[h].reserved
        /\ seen[h].available + seen[h].reserved = Balance + DailyPoints
        /\ seen[h].available >= Price
    BY <1>1 DEF CopiesAreComplete, ReadBuckets, Purse
  <1>8. next = "charge" => purse.stock >= Price
    BY <1>5, Constants DEF Purse
  <1>9. ~overlapped /\ ledger_lock = h =>
          purse.available = purse.stock /\ purse.reserved = account.reserved
    BY <1>1 DEF CopiesAgree, TypeOK
  <1> HIDE DEF Inv, purse, next
  <1> QED BY <1>1, <1>2, <1>4, <1>5, <1>6, <1>7, <1>8, <1>9, LedgerInv DEF ReadBuckets

(* The charge: computed from the copies, written under the lock *)
LEMMA ChargeInv ==
  ASSUME Inv, NEW h \in Handlers, Charge(h)
  PROVE  Inv'
  <1> USE DEF Inv, committed
  <1>1. /\ pc[h] = "charge" /\ pc[h] \in Open /\ pc[h] # "ready"
        /\ ledger_lock \in {None, h} /\ ledger_lock' = h
        /\ UNCHANGED <<key, body, rows, quote, account, stock, granted, request, mine, told>>
    BY DEF Charge, Open
  <1>2. \A g \in Handlers :
          /\ pc'[g] = IF g = h THEN "ready" ELSE pc[g]
          /\ seen'[g] = IF g = h THEN Charged(seen[h]) ELSE seen[g]
          /\ written'[g] = IF g = h THEN Tables ELSE written[g]
    <2>1. written[h] = First
      BY <1>1 DEF RowsAreWritten
    <2> QED BY <2>1 DEF Charge, Goto, TypeOK, Lineage, Tables, First
  <1>3. /\ seen[h].available \in Nat /\ seen[h].reserved \in Nat /\ seen[h].stock \in Nat
        /\ seen[h].available >= Price /\ seen[h].stock >= Price
        /\ seen[h].available + seen[h].reserved = Balance + DailyPoints
    BY <1>1 DEF CopiesAreComplete, TypeOK, Purse
  <1>4. /\ Charged(seen[h]).available = seen[h].available - Price
        /\ Charged(seen[h]).reserved = seen[h].reserved + Price
        /\ Charged(seen[h]).stock = seen[h].stock - Price
        /\ Charged(seen[h]) \in Purse
    BY <1>3, Constants DEF Charged, Purse
  <1>5. \A g \in Handlers : g # h => ledger_lock # g
    BY <1>1, Constants
  <1>6. overlapped' \in BOOLEAN /\ (overlapped => overlapped')
          /\ (~overlapped' => ledger_lock = h \/ UpToDate(h))
    BY <1>1 DEF Charge, TypeOK
  <1>7. TypeOK'
    <2>1. /\ pc' \in [Handlers -> {"idle", "lookup", "quote", "insert"} \cup Open]
          /\ seen' \in [Handlers -> Purse]
          /\ written' \in [Handlers -> SUBSET Tables]
      BY <1>4 DEF Charge, Goto, TypeOK, Open, Tables, Lineage
    <2>2. \A g \in Handlers :
            /\ IF pc'[g] \in Open THEN mine[g] \in {t \in Tasks : key[t] = None}
               ELSE mine[g] = None /\ written'[g] = {} /\ ledger_lock' # g
            /\ pc'[g] # "idle" => request[g] # NoRequest
      BY <1>1, <1>2 DEF TypeOK, Open
    <2> QED BY <1>1, <1>6, <2>1, <2>2 DEF TypeOK
  <1>8. RowsAreWritten'
    BY <1>1, <1>2 DEF RowsAreWritten
  <1>9. KeysAreUnique' /\ AcceptedIsDurable' /\ GrantedOncePerDay'
    BY <1>1 DEF KeysAreUnique, AcceptedIsDurable, GrantedOncePerDay
  <1>10. AccountAgreesUnlessOverlapped'
    BY <1>1, <1>6 DEF AccountAgreesUnlessOverlapped, ChargedTasks
  <1>11. LockIsUsed'
    BY <1>1, <1>2, <1>5 DEF LockIsUsed
  <1>12. CopiesAreComplete'
    <2>1. Charged(seen[h]).available + Charged(seen[h]).reserved = Balance + DailyPoints
      BY <1>3, <1>4, Constants
    <2> QED BY <1>1, <1>2, <1>5, <2>1 DEF CopiesAreComplete
  <1>13. CopiesAgree'
    <2> SUFFICES ASSUME ~overlapped'
                 PROVE  /\ Charged(seen[h]).available = Charged(seen[h]).stock
                        /\ Charged(seen[h]).reserved = account.reserved + Price
      BY <1>1, <1>2 DEF CopiesAgree
    <2>1. ~overlapped /\ (ledger_lock = h \/ UpToDate(h))
      BY <1>6
    <2>2. seen[h].available = seen[h].stock /\ seen[h].reserved = account.reserved
      <3>1. CASE ledger_lock = h
        <4>1. account.reserved \in Nat
          BY DEF TypeOK
        <4> QED BY <1>1, <2>1, <3>1, <4>1 DEF CopiesAgree
      <3>2. CASE UpToDate(h)
        BY <2>1, <3>2 DEF UpToDate, AccountAgreesUnlessOverlapped
      <3> QED BY <2>1, <3>1, <3>2
    <2> QED BY <1>3, <1>4, <2>2
  <1> QED BY <1>7, <1>8, <1>9, <1>10, <1>11, <1>12, <1>13

(* One more task of the same price *)
LEMMA OneMore == \A p, n \in Nat : p * (n + 1) = p * n + p
  OBVIOUS

(* Rows become visible: of an acceptance, or of one that was refused *)
LEMMA CommitInv ==
  ASSUME Inv, NEW h \in Handlers, pc[h] \in {"ready", "refused"}, CommitWritten(h),
         UNCHANGED overlapped,
         \/ told' = told
         \/ pc[h] = "ready" /\ told' = [told EXCEPT ![request[h].key] = @ \cup {mine[h]}]
  PROVE  Inv'
  <1> USE DEF Inv
  <1> DEFINE k == request[h].key
             q == request[h].quote
             t == mine[h]
  <1>1. /\ k \in Keys /\ q \in Quotes /\ t \in Tasks /\ key[t] = None /\ k # None
        /\ written[h] = IF pc[h] = "ready" THEN Tables ELSE First
    <2>1. pc[h] \in Open /\ pc[h] # "idle"
      BY DEF Open
    <2> QED BY <2>1, RequestKnown, Constants DEF TypeOK, RowsAreWritten
  <1>2. Release(h)
    BY DEF CommitWritten
  <1>3. \A u \in Tasks :
          /\ key'[u] = IF u = t THEN k ELSE key[u]
          /\ body'[u] = IF u = t THEN q ELSE body[u]
          /\ rows'[u] = IF u = t THEN written[h] ELSE rows[u]
    BY <1>1 DEF CommitWritten, TypeOK
  <1>4. "reservation" \in written[h] <=> pc[h] = "ready"
    BY <1>1 DEF Tables, First
  <1>5. \A r \in Quotes :
          quote'[r] = IF pc[h] = "ready" /\ r = q THEN "reserved" ELSE quote[r]
    BY <1>1, <1>4 DEF CommitWritten, TypeOK
  <1>6. \/ /\ ledger_lock = h /\ granted' = TRUE
           /\ account'.available = seen[h].available
           /\ account'.reserved = seen[h].reserved
           /\ stock' = seen[h].stock
        \/ ledger_lock # h /\ UNCHANGED <<account, stock, granted>>
    BY DEF CommitWritten
  <1>7. pc[h] = "ready" => ledger_lock = h
    BY DEF LockIsUsed
  <1>8. /\ key' \in [Tasks -> Keys \cup {None}] /\ body' \in [Tasks -> Quotes \cup {None}]
        /\ rows' \in [Tasks -> SUBSET Tables] /\ told' \in [Keys -> SUBSET Tasks]
        /\ quote' \in [Quotes -> {"quoted", "reserved"}]
    BY <1>1 DEF CommitWritten, TypeOK
  <1>9. /\ account' \in [available: Nat, reserved: Nat] /\ stock' \in Nat
        /\ granted' \in BOOLEAN
    <2>1. CASE ledger_lock = h
      <3>1. seen[h] \in Purse
        BY DEF TypeOK
      <3>2. /\ seen[h].available \in Nat /\ seen[h].reserved \in Nat
            /\ seen[h].stock \in Nat
        BY <3>1 DEF Purse
      <3>3. /\ account' = [available |-> seen[h].available, reserved |-> seen[h].reserved]
            /\ stock' = seen[h].stock /\ granted' = TRUE
        BY <2>1 DEF CommitWritten
      <3> QED BY <3>2, <3>3
    <2>2. CASE ledger_lock # h
      <3>1. UNCHANGED <<account, stock, granted>>
        BY <2>2 DEF CommitWritten
      <3> QED BY <3>1 DEF TypeOK
    <2> QED BY <2>1, <2>2
  <1>10. \A g \in Handlers : mine[g] # None /\ g # h => mine[g] # t /\ request[g].key # k
    BY <1>1, Constants DEF TypeOK, KeysAreUnique
  <1> HIDE DEF k, q, t
  <1>11. TypeOK'
    <2>1. \A g \in Handlers :
            /\ IF pc'[g] \in Open THEN mine'[g] \in {u \in Tasks : key'[u] = None}
               ELSE mine'[g] = None /\ written'[g] = {} /\ ledger_lock' # g
            /\ pc'[g] # "idle" => request'[g] # NoRequest
      <3>1. "idle" \notin Open
        BY DEF Open
      <3>2. \A g \in Handlers : g # h /\ pc[g] \in Open =>
              mine[g] # None /\ key'[mine[g]] = key[mine[g]]
        BY <1>3, <1>10, Constants DEF TypeOK
      <3> QED BY <1>2, <3>1, <3>2, ReleaseLocal DEF TypeOK
    <2>2. \A f, g \in Handlers : f # g /\ mine'[f] = mine'[g] => mine'[g] = None
      BY <1>2, ReleaseLocal DEF TypeOK
    <2> QED BY <1>2, <1>8, <1>9, <2>1, <2>2, ReleaseLocal DEF TypeOK
  <1>12. RowsAreWritten'
    <2>1. \A u \in Tasks :
            IF key'[u] = None THEN rows'[u] = {}
            ELSE /\ body'[u] \in Quotes
                 /\ \/ rows'[u] = First
                    \/ rows'[u] = Tables /\ quote'[body'[u]] = "reserved"
      <3> TAKE u \in Tasks
      <3>1. CASE u = t
        BY <1>1, <1>3, <1>5, <3>1
      <3>2. CASE u # t
        BY <1>3, <1>5, <3>2 DEF RowsAreWritten
      <3> QED BY <3>1, <3>2
    <2>2. \A g \in Handlers :
            pc'[g] \in Open => written'[g] = IF pc'[g] = "ready" THEN Tables ELSE First
      BY <1>2, ReleaseLocal DEF RowsAreWritten, Open
    <2> QED BY <2>1, <2>2 DEF RowsAreWritten
  <1>13. KeysAreUnique'
    <2>1. \A u \in Tasks : key[u] # k
      BY <1>1, Constants DEF KeysAreUnique, k, t
    <2>2. \A u, v \in Tasks : key'[u] # None /\ key'[u] = key'[v] => u = v
      BY <1>3, <2>1 DEF KeysAreUnique
    <2>3. \A g \in Handlers : mine'[g] # None => \A u \in Tasks : key'[u] # request'[g].key
      BY <1>2, <1>3, <1>10, ReleaseLocal DEF KeysAreUnique
    <2>4. \A f, g \in Handlers :
            mine'[f] # None /\ mine'[g] # None /\ request'[f].key = request'[g].key => f = g
      BY <1>2, ReleaseLocal DEF KeysAreUnique
    <2> QED BY <2>2, <2>3, <2>4 DEF KeysAreUnique
  <1>14. AcceptedIsDurable'
    <2> SUFFICES ASSUME NEW j \in Keys, NEW u \in told'[j]
                 PROVE  /\ key'[u] = j /\ rows'[u] = Tables
                        /\ quote'[body'[u]] = "reserved"
      BY DEF AcceptedIsDurable
    <2>1. u \in Tasks
      BY <1>8
    <2>2. CASE u \in told[j]
      <3>1. u # t
        BY <1>1, <2>2, Constants DEF AcceptedIsDurable
      <3>2. key[u] = j /\ rows[u] = Tables /\ quote[body[u]] = "reserved"
        BY <2>2 DEF AcceptedIsDurable
      <3>3. body[u] \in Quotes
        BY <2>1, <3>2, Constants DEF RowsAreWritten
      <3> QED BY <1>3, <1>5, <2>1, <3>1, <3>2, <3>3
    <2>3. CASE u \notin told[j]
      <3>1. pc[h] = "ready" /\ u = t /\ j = k
        BY <1>1, <2>3 DEF TypeOK, k, t
      <3> QED BY <1>1, <1>3, <1>5, <3>1
    <2> QED BY <2>2, <2>3
  <1>15. GrantedOncePerDay'
    <2>1. CASE ledger_lock = h
      BY <1>6, <2>1 DEF CopiesAreComplete, GrantedOncePerDay
    <2>2. CASE ledger_lock # h
      BY <1>6, <2>2 DEF GrantedOncePerDay
    <2> QED BY <2>1, <2>2
  <1>16. AccountAgreesUnlessOverlapped'
    <2> SUFFICES ASSUME ~overlapped
                 PROVE  /\ account'.reserved = Price * Cardinality(ChargedTasks')
                        /\ account'.available = stock'
      BY DEF AccountAgreesUnlessOverlapped
    <2>1. /\ account.reserved = Price * Cardinality(ChargedTasks)
          /\ account.available = stock
      BY DEF AccountAgreesUnlessOverlapped
    <2>2. CASE pc[h] = "ready"
      <3>1. ledger_lock = h
        BY <1>7, <2>2
      <3>2. /\ account'.reserved = account.reserved + Price
            /\ account'.available = stock'
        BY <1>6, <2>2, <3>1 DEF CopiesAgree
      <3>3. t \notin ChargedTasks
        BY <1>1 DEF ChargedTasks, RowsAreWritten
      <3>4. ChargedTasks' = ChargedTasks \cup {t}
        BY <1>1, <1>3, <1>4, <2>2 DEF ChargedTasks
      <3>5. IsFiniteSet(ChargedTasks)
        BY Constants, FS_Subset DEF ChargedTasks
      <3>6. /\ Cardinality(ChargedTasks') = Cardinality(ChargedTasks) + 1
            /\ Cardinality(ChargedTasks) \in Nat
        BY <3>3, <3>4, <3>5, FS_AddElement, FS_CardinalityType
      <3> QED BY <2>1, <3>2, <3>6, OneMore, Constants
    <2>3. CASE pc[h] # "ready"
      <3>1. ChargedTasks' = ChargedTasks
        <4>1. "reservation" \notin written[h] /\ "reservation" \notin rows[t]
          BY <1>1, <1>4, <2>3 DEF RowsAreWritten
        <4> QED BY <1>3, <4>1 DEF ChargedTasks
      <3>2. account'.reserved = account.reserved /\ account'.available = stock'
        <4>1. account.reserved \in Nat
          BY DEF TypeOK
        <4>2. CASE ledger_lock = h
          BY <1>6, <2>3, <4>1, <4>2 DEF CopiesAgree
        <4>3. CASE ledger_lock # h
          BY <1>6, <2>1, <4>3
        <4> QED BY <4>2, <4>3
      <3> QED BY <2>1, <3>1, <3>2
    <2> QED BY <2>2, <2>3
  <1>17. LockIsUsed'
    BY <1>2, <1>6, ReleaseLocal DEF LockIsUsed
  <1>18. CopiesAreComplete'
    BY <1>2, ReleaseLocal DEF CopiesAreComplete
  <1>19. CopiesAgree'
    BY <1>2, <1>6, ReleaseLocal DEF CopiesAgree
  <1> QED BY <1>11, <1>12, <1>13, <1>14, <1>15, <1>16, <1>17, <1>18, <1>19

(* A reply that names an earlier task names a whole one *)
LEMMA ReuseInv ==
  ASSUME Inv, NEW h \in Handlers, Reuse(h)
  PROVE  Inv'
  <1>1. PICK t \in Tasks :
          /\ key[t] = request[h].key
          /\ \/ told' = told
             \/ /\ {"execution", "reservation"} \subseteq rows[t]
                /\ told' = [told EXCEPT ![request[h].key] = @ \cup {t}]
    BY DEF Reuse, Reply
  <1>2. request[h].key \in Keys /\ request[h].key # None
    BY RequestKnown, Constants DEF Reuse, Inv
  <1>3. Release(h) /\ UNCHANGED <<committed, overlapped>>
    BY DEF Reuse
  <1>4. told' \in [Keys -> SUBSET Tasks]
    BY <1>1 DEF Inv, TypeOK
  <1>5. AcceptedIsDurable'
    <2>1. CASE told' = told
      BY <1>3, <2>1 DEF Inv, AcceptedIsDurable, committed
    <2>2. CASE /\ {"execution", "reservation"} \subseteq rows[t]
               /\ told' = [told EXCEPT ![request[h].key] = @ \cup {t}]
      <3>1. rows[t] = Tables /\ quote[body[t]] = "reserved"
        BY <1>1, <1>2, <2>2 DEF Inv, RowsAreWritten, First
      <3>2. \A j \in Keys : told'[j] =
              IF j = request[h].key THEN told[j] \cup {t} ELSE told[j]
        BY <2>2 DEF Inv, TypeOK
      <3>3. UNCHANGED <<key, body, rows, quote>>
        BY <1>3 DEF committed
      <3>4. ASSUME NEW j \in Keys, NEW u \in told'[j]
            PROVE  /\ key[u] = j /\ rows[u] = Tables
                   /\ quote[body[u]] = "reserved"
        <4>1. CASE u \in told[j]
          BY <4>1 DEF Inv, AcceptedIsDurable
        <4>2. CASE u \notin told[j]
          <5>1. j = request[h].key /\ u = t
            BY <3>2, <3>4, <4>2
          <5> QED BY <1>1, <3>1, <5>1
        <4> QED BY <4>1, <4>2
      <3> QED BY <3>3, <3>4 DEF AcceptedIsDurable
    <2> QED BY <1>1, <2>1, <2>2
  <1> QED BY <1>3, <1>4, <1>5, EndInv

(* Every step keeps the invariant *)
LEMMA NextInv == Inv /\ [Next]_vars => Inv'
  <1> SUFFICES ASSUME Inv, [Next]_vars PROVE Inv'
    OBVIOUS
  <1>1. ASSUME NEW h \in Handlers, NEW k \in Keys, NEW q \in Quotes, Receive(h, k, q)
        PROVE  Inv'
    <2>1. pc[h] \notin Open /\ [key |-> k, quote |-> q] \in [key: Keys, quote: Quotes]
      BY <1>1 DEF Receive, Open
    <2> QED BY <1>1, <2>1, MoveInv DEF Receive, Goto
  <1>2. ASSUME NEW h \in Handlers, Step(h) PROVE Inv'
    <2>1. CASE Reuse(h)
      BY <2>1, ReuseInv
    <2>2. CASE LookupFindsNothing(h) \/ QuoteUsable(h)
      <3>1. pc[h] \notin Open /\ request[h] \in [key: Keys, quote: Quotes]
        BY <2>2 DEF LookupFindsNothing, QuoteUsable, Open, Inv, TypeOK
      <3>2. request' = [request EXCEPT ![h] = request[h]]
        BY <2>2 DEF LookupFindsNothing, QuoteUsable, Inv, TypeOK
      <3> QED BY <2>2, <3>1, <3>2, MoveInv DEF LookupFindsNothing, QuoteUsable, Goto
    <2>3. CASE QuoteRefused(h) \/ InsertFails(h)
      <3>1. Release(h) /\ UNCHANGED <<committed, told, overlapped>>
        BY <2>3 DEF QuoteRefused, InsertFails
      <3>2. told' \in [Keys -> SUBSET Tasks] /\ AcceptedIsDurable'
        BY <3>1 DEF Inv, TypeOK, AcceptedIsDurable, committed
      <3> QED BY <3>1, <3>2, EndInv
    <2>4. CASE InsertTask(h)
      BY <2>4, InsertInv
    <2>5. CASE EnsureDaily(h)
      BY <2>5, GrantInv
    <2>6. CASE ReadAccount(h)
      BY <2>6, ReadAccountInv
    <2>7. CASE ReadBuckets(h)
      BY <2>7, ReadBucketsInv
    <2>8. CASE Charge(h)
      BY <2>8, ChargeInv
    <2>9. CASE Commit(h)
      BY <2>9, CommitInv DEF Commit, Reply
    <2>10. CASE Refuse(h)
      BY <2>10, CommitInv DEF Refuse
    <2> QED BY <1>2, <2>1, <2>2, <2>3, <2>4, <2>5, <2>6, <2>7, <2>8, <2>9, <2>10 DEF Step
  <1>3. ASSUME NEW h \in Handlers, Abort(h) PROVE Inv'
    <2>1. told' \in [Keys -> SUBSET Tasks] /\ AcceptedIsDurable'
      BY <1>3 DEF Abort, Inv, TypeOK, AcceptedIsDurable, committed
    <2> QED BY <1>3, <2>1, EndInv DEF Abort
  <1>4. CASE UNCHANGED vars
    <2> USE <1>4 DEF Inv, vars, committed, local
    <2>1. TypeOK' /\ RowsAreWritten' /\ KeysAreUnique' /\ AcceptedIsDurable'
      BY DEF TypeOK, RowsAreWritten, KeysAreUnique, AcceptedIsDurable
    <2>2. GrantedOncePerDay' /\ AccountAgreesUnlessOverlapped' /\ LockIsUsed'
      BY DEF GrantedOncePerDay, AccountAgreesUnlessOverlapped, ChargedTasks, LockIsUsed
    <2>3. CopiesAreComplete' /\ CopiesAgree'
      BY DEF CopiesAreComplete, CopiesAgree
    <2> QED BY <2>1, <2>2, <2>3
  <1> QED BY <1>1, <1>2, <1>3, <1>4 DEF Next

(* The invariant holds in every behaviour *)
LEMMA Invariance == Spec => []Inv
  BY InitInv, NextInv, PTL DEF Spec

(* Types; and every open transaction has a task of its own *)
THEOREM TypeCorrect == Spec => []TypeOK
  <1>1. Inv => TypeOK
    BY DEF Inv
  <1> QED BY <1>1, Invariance, PTL

(* Whoever is told that a task was accepted finds all of its rows, whatever   *)
(* dies afterwards                                                            *)
THEOREM AcceptedTasksAreWhole == Spec => []AcceptedIsDurable
  <1>1. Inv => AcceptedIsDurable
    BY DEF Inv
  <1> QED BY <1>1, Invariance, PTL

(* However many first requests of the day there are, the grant is given once *)
THEOREM OneGrant == Spec => []GrantedOncePerDay
  <1>1. Inv => GrantedOncePerDay
    BY DEF Inv
  <1> QED BY <1>1, Invariance, PTL

(* The account is out of step with the reservations only after an overlap *)
THEOREM OnlyOverlapsLosePoints == Spec => []AccountAgreesUnlessOverlapped
  <1>1. Inv => AccountAgreesUnlessOverlapped
    BY DEF Inv
  <1> QED BY <1>1, Invariance, PTL

(* A key stands for the one task that has it *)
LEMMA TaskOfKey ==
  ASSUME KeysAreUnique, TypeOK, NEW k \in Keys
  PROVE  /\ \A t \in Tasks : TaskOf(k) = t <=> key[t] = k
         /\ TaskOf(k) = None <=> \A t \in Tasks : key[t] # k
         /\ TaskOf(k) \in Tasks \cup {None}
  <1>1. k # None
    BY Constants
  <1>2. CASE \E t \in Tasks : key[t] = k
    <2>1. TaskOf(k) \in Tasks /\ key[TaskOf(k)] = k
      BY <1>2 DEF TaskOf
    <2> QED BY <1>1, <1>2, <2>1, Constants DEF KeysAreUnique
  <1>3. CASE \A t \in Tasks : key[t] # k
    <2>1. TaskOf(k) = None
      BY <1>3 DEF TaskOf
    <2> QED BY <1>3, <2>1, Constants
  <1> QED BY <1>2, <1>3

(* The same of all keys, to be used before and after a step *)
KeysStandForTasks ==
  \A k \in Keys :
    /\ \A t \in Tasks : TaskOf(k) = t <=> key[t] = k
    /\ TaskOf(k) = None <=> \A t \in Tasks : key[t] # k
    /\ TaskOf(k) \in Tasks \cup {None}

(* It follows from the invariant *)
LEMMA TaskOfKeys == Inv => KeysStandForTasks
  BY TaskOfKey DEF Inv, KeysStandForTasks

(* At the start no key stands for a task *)
LEMMA InitRefines == Init => Once!Init
  <1> SUFFICES ASSUME Init PROVE Once!Init
    OBVIOUS
  <1>1. \A k \in Keys : TaskOf(k) = None
    BY Constants DEF Init, TaskOf
  <1>2. ChargedTasks = {} /\ told = [k \in Keys |-> {}]
    BY DEF Init, ChargedTasks
  <1> QED BY <1>1, <1>2 DEF Once!Init

(* A step that leaves keys, rows and replies alone is not seen *)
LEMMA HiddenStep ==
  ASSUME UNCHANGED <<key, rows, told>>
  PROVE  UNCHANGED Once!vars
  BY DEF Once!vars, TaskOf, ChargedTasks

(* An earlier task is named again *)
LEMMA ReuseRefines ==
  ASSUME Inv, NEW h \in Handlers, Reuse(h)
  PROVE  [Once!Next]_(Once!vars)
  <1> DEFINE k == request[h].key
  <1>1. PICK t \in Tasks :
          /\ key[t] = k
          /\ \/ told' = told
             \/ /\ {"execution", "reservation"} \subseteq rows[t]
                /\ told' = [told EXCEPT ![k] = @ \cup {t}]
    BY DEF Reuse, Reply
  <1>2. k \in Keys
    BY RequestKnown DEF Reuse, Inv
  <1>3. UNCHANGED <<key, rows>>
    BY DEF Reuse, committed
  <1>4. CASE told' = told
    BY <1>3, <1>4, HiddenStep
  <1>5. CASE /\ {"execution", "reservation"} \subseteq rows[t]
             /\ told' = [told EXCEPT ![k] = @ \cup {t}]
    <2>1. TaskOf(k) = t
      BY <1>1, <1>2, TaskOfKey DEF Inv
    <2>2. t \in ChargedTasks
      BY <1>5 DEF ChargedTasks
    <2>3. ASSUME NEW u \in told[k] PROVE u = t
      <3>1. u \in Tasks /\ key[u] = k
        BY <1>2 DEF Inv, TypeOK, AcceptedIsDurable
      <3> QED BY <1>1, <1>2, <3>1, Constants DEF Inv, KeysAreUnique
    <2>4. told[k] \cup {t} = {t}
      BY <2>3
    <2>5. told' = [told EXCEPT ![k] = {t}]
      BY <1>5, <2>4
    <2>6. /\ [j \in Keys |-> TaskOf(j)]' = [j \in Keys |-> TaskOf(j)]
          /\ ChargedTasks' = ChargedTasks
      BY <1>3 DEF TaskOf, ChargedTasks
    <2>7. Once!Tell(k)
      BY <1>2, <2>1, <2>2, <2>5, <2>6 DEF Once!Tell
    <2> QED BY <1>2, <2>7 DEF Once!Next
  <1> QED BY <1>1, <1>4, <1>5

(* A key is bound when the rows of its task become visible *)
LEMMA CommitRefines ==
  ASSUME Inv, Inv', NEW h \in Handlers, pc[h] \in {"ready", "refused"}, CommitWritten(h),
         \/ told' = told
         \/ pc[h] = "ready" /\ told' = [told EXCEPT ![request[h].key] = @ \cup {mine[h]}]
  PROVE  \E k \in Keys, t \in Tasks : Once!Bind(k, t)
  <1> DEFINE k == request[h].key
             t == mine[h]
             Bound == [j \in Keys |-> TaskOf(j)]
  <1>1. /\ k \in Keys /\ t \in Tasks /\ key[t] = None
        /\ \A u \in Tasks : key[u] # k
        /\ written[h] = IF pc[h] = "ready" THEN Tables ELSE First
    <2>1. pc[h] \in Open /\ pc[h] # "idle"
      BY DEF Open
    <2> QED BY <2>1, RequestKnown, Constants DEF Inv, TypeOK, RowsAreWritten, KeysAreUnique
  <1>2. \A u \in Tasks :
          /\ key'[u] = IF u = t THEN k ELSE key[u]
          /\ rows'[u] = IF u = t THEN written[h] ELSE rows[u]
    BY <1>1 DEF CommitWritten, Inv, TypeOK
  <1>3. TaskOf(k) = None /\ t \in {u \in Tasks : \A j \in Keys : TaskOf(j) # u}
    BY <1>1, TaskOfKey, Constants DEF Inv
  <1>4. ASSUME NEW j \in Keys
        PROVE  TaskOf(j)' = IF j = k THEN t ELSE TaskOf(j)
    <2>1. /\ \A u \in Tasks : TaskOf(j)' = u <=> key'[u] = j
          /\ TaskOf(j)' = None <=> \A u \in Tasks : key'[u] # j
          /\ TaskOf(j)' \in Tasks \cup {None}
      <3>1. KeysStandForTasks'
        BY TaskOfKeys, PTL
      <3> QED BY <3>1 DEF KeysStandForTasks
    <2>2. /\ \A u \in Tasks : TaskOf(j) = u <=> key[u] = j
          /\ TaskOf(j) = None <=> \A u \in Tasks : key[u] # j
          /\ TaskOf(j) \in Tasks \cup {None}
      BY TaskOfKey DEF Inv
    <2>3. CASE j = k
      BY <1>1, <1>2, <2>1, <2>3
    <2>4. CASE j # k
      BY <1>1, <1>2, <2>1, <2>2, <2>4, Constants
    <2> QED BY <2>3, <2>4
  <1>5. Bound' = [Bound EXCEPT ![k] = t]
    BY <1>1, <1>4
  <1>6. ChargedTasks' = IF pc[h] = "ready" THEN ChargedTasks \cup {t} ELSE ChargedTasks
    <2>1. "reservation" \in written[h] <=> pc[h] = "ready"
      BY <1>1 DEF Tables, First
    <2>2. "reservation" \notin rows[t]
      BY <1>1 DEF Inv, RowsAreWritten
    <2> QED BY <1>1, <1>2, <2>1, <2>2 DEF ChargedTasks
  <1>7. pc[h] = "ready" => [told EXCEPT ![k] = @ \cup {t}] = [told EXCEPT ![k] = {t}]
    <2>1. told[k] = {}
      BY <1>1 DEF Inv, TypeOK, AcceptedIsDurable
    <2> QED BY <2>1
  <1>8. \/ told' = told
        \/ t \in ChargedTasks' /\ told' = [told EXCEPT ![k] = {t}]
    BY <1>6, <1>7
  <1> QED BY <1>1, <1>3, <1>5, <1>6, <1>8 DEF Once!Bind, Once!Free

(* Every step is a step of AcceptOnce, or is not seen there *)
LEMMA StepRefines ==
  ASSUME Inv, Inv', [Next]_vars
  PROVE  [Once!Next]_(Once!vars)
  <1>1. ASSUME NEW h \in Handlers, Step(h) PROVE [Once!Next]_(Once!vars)
    <2>1. CASE Reuse(h)
      BY <2>1, ReuseRefines
    <2>2. CASE Commit(h)
      BY <2>2, CommitRefines DEF Commit, Reply, Once!Next
    <2>3. CASE Refuse(h)
      BY <2>3, CommitRefines DEF Refuse, Once!Next
    <2>4. CASE \/ LookupFindsNothing(h) \/ QuoteUsable(h) \/ QuoteRefused(h)
               \/ InsertTask(h) \/ InsertFails(h) \/ EnsureDaily(h)
               \/ ReadAccount(h) \/ ReadBuckets(h) \/ Charge(h)
      <3>1. UNCHANGED <<key, rows, told>>
        BY <2>4 DEF LookupFindsNothing, QuoteUsable, QuoteRefused, InsertTask,
                    InsertFails, EnsureDaily, ReadAccount, ReadBuckets, Charge, committed
      <3> QED BY <3>1, HiddenStep
    <2> QED BY <1>1, <2>1, <2>2, <2>3, <2>4 DEF Step
  <1>2. ASSUME NEW h \in Handlers,
               \/ Abort(h)
               \/ \E k \in Keys, q \in Quotes : Receive(h, k, q)
        PROVE  [Once!Next]_(Once!vars)
    BY <1>2, HiddenStep DEF Abort, Receive, committed
  <1>3. CASE UNCHANGED vars
    BY <1>3, HiddenStep DEF vars, committed
  <1> QED BY <1>1, <1>2, <1>3 DEF Next

(* A key stands for one task, charged at once or never, in every behaviour    *)
(* of any number of handlers: AcceptOnce                                      *)
THEOREM KeysAreAcceptedOnce == Spec => ImplementsAcceptOnce
  <1>1. Inv /\ Inv' /\ [Next]_vars => [Once!Next]_(Once!vars)
    BY StepRefines
  <1> QED BY <1>1, InitRefines, Invariance, PTL DEF Spec, ImplementsAcceptOnce, Once!Spec

--------------------------------------------------------------------------------
(* Waits *)

(* The statement of g waits for the transaction of h: to insert a key that h  *)
(* has inserted, to grant what h is granting, or to update the account that   *)
(* h has updated                                                              *)
WaitsFor(g, h) ==
  \/ pc[g] = "insert" /\ mine[h] # None /\ request[h].key = request[g].key
  \/ pc[g] = "grant" /\ NeedsGrant /\ ledger_lock = h
  \/ pc[g] = "charge" /\ ledger_lock = h /\ h # g

(* Whoever is waited for is in its transaction, and the second in a row of    *)
(* waits waits for nobody: the waits for keys, grant and account never close  *)
(* a circle (uq_ai_tasks_scoped_idempotency, ensure_daily_entitlement,        *)
(* append_event_with_postings).                                               *)
WaitsEnd ==
  \A g, h \in Handlers : WaitsFor(g, h) =>
    /\ pc[h] # "idle"
    /\ \A f \in Handlers : WaitsFor(h, f) => \A e \in Handlers : ~WaitsFor(f, e)

(* Transactions never wait for each other in a circle, however many requests  *)
(* use the same keys, quotes and account                                      *)
THEOREM NoCircularWaits == Spec => []WaitsEnd
  <1>1. ASSUME Inv, NEW g \in Handlers, NEW h \in Handlers, WaitsFor(g, h)
        PROVE  /\ pc[h] \in Open
               /\ pc[g] # "insert" => \A f \in Handlers : ~WaitsFor(h, f)
    <2>1. mine[h] # None => pc[h] \in Open
      BY <1>1 DEF Inv, TypeOK
    <2>2. ASSUME ledger_lock = h
          PROVE  pc[h] \in Open /\ \A f \in Handlers : ~WaitsFor(h, f)
      BY <1>1, <2>2 DEF Inv, LockIsUsed, WaitsFor, Open
    <2> QED BY <1>1, <2>1, <2>2 DEF WaitsFor
  <1>2. Inv => WaitsEnd
    <2> SUFFICES ASSUME Inv, NEW g \in Handlers, NEW h \in Handlers, WaitsFor(g, h)
                 PROVE  /\ pc[h] \in Open
                        /\ \A f \in Handlers :
                             WaitsFor(h, f) => \A e \in Handlers : ~WaitsFor(f, e)
      BY DEF WaitsEnd, Open
    <2>1. pc[h] \in Open /\ pc[h] # "insert"
      BY <1>1 DEF Open
    <2> QED BY <1>1, <2>1
  <1> QED BY <1>2, Invariance, PTL
================================================================================
