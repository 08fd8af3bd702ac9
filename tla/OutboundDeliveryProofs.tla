------------------------- MODULE OutboundDeliveryProofs -------------------------
(***************************************************************************)
(* Proofs about OutboundDelivery for any messages, senders and bounds.     *)
(***************************************************************************)
EXTENDS OutboundDelivery, TLAPS

(* A copy of the message was taken in the transaction that holds its row *)
Copied(m) == \E s \in Senders : m \in copies[s]

(* As long as a row is open, the copies of its message are the lost ones and  *)
(* the one in the open transaction; afterwards there is one more at most      *)
CopiesAreCounted ==
  \A m \in Messages :
    /\ delivery[m] \notin Settled =>
         accepted[m] = lost[m] + (IF Copied(m) THEN 1 ELSE 0)
    /\ accepted[m] <= lost[m] + 1

(* A locked row is open, its draft says what has become of it so far, and it  *)
(* is sent once in a transaction                                              *)
DraftsTell ==
  /\ \A m \in Messages : holder[m] # None =>
       /\ delivery[m] \in Open
       /\ draft[m] \in {"claimed", "retry_wait"} \cup Settled
       /\ draft[m] = "sent" => m \in copies[holder[m]]
  /\ \A s \in Senders :
       /\ batch[s] \cap copies[s] = {}
       /\ pc[s] = "sending" => current[s] # None
       /\ pc[s] \in {"idle", "called"} => current[s] = None

(* Only existing rows are too old *)
StaleExist == \A d \in Drains : \A m \in stale[d] : delivery[m] # "absent"

Inv ==
  /\ TypeOK
  /\ CopiesAreCounted
  /\ DraftsTell
  /\ StaleExist

(* None is neither a message nor a sender *)
LEMMA NoneIsNothing ==
  /\ None \notin Messages /\ None \notin Senders
  /\ Drains \subseteq Senders /\ Loops \subseteq Senders
  BY OutboundAssumption DEF Senders

(* The invariant holds at the start *)
LEMMA InitInv == Init => Inv
  <1> SUFFICES ASSUME Init PROVE Inv
    OBVIOUS
  <1>1. TypeOK
    BY NoneIsNothing DEF Init, TypeOK, Statuses, Held
  <1>2. CopiesAreCounted
    BY DEF Init, CopiesAreCounted, Copied
  <1>3. DraftsTell /\ StaleExist
    BY NoneIsNothing DEF Init, DraftsTell, StaleExist
  <1> QED BY <1>1, <1>2, <1>3 DEF Inv

(* A new row *)
LEMMA InsertInv ==
  ASSUME Inv, NEW m \in Messages, NEW status \in Open, Insert(m, status)
  PROVE  Inv'
  <1> USE DEF Inv, Insert, tx, history
  <1>1. \A n \in Messages : delivery'[n] = IF n = m THEN status ELSE delivery[n]
    BY DEF TypeOK
  <1>2. status \notin Settled /\ status # "absent" /\ delivery[m] \notin Settled
    BY DEF Open, Settled
  <1>3. TypeOK'
    BY <1>1 DEF TypeOK, Statuses, Held
  <1>4. CopiesAreCounted'
    BY <1>1, <1>2 DEF CopiesAreCounted, Copied
  <1>5. DraftsTell'
    BY <1>1 DEF DraftsTell
  <1>6. StaleExist'
    BY <1>1, <1>2 DEF StaleExist, TypeOK
  <1> QED BY <1>3, <1>4, <1>5, <1>6

(* claim_outbound: the rows it locks are open and in no transaction *)
LEMMA ClaimInv ==
  ASSUME Inv, NEW s \in Senders, pc[s] \in {"idle", "called"}, Claim(s)
  PROVE  Inv'
  <1> USE DEF Inv, Claim, rows, history
  <1>1. \A m \in Messages :
          /\ holder'[m] = IF m \in Candidates THEN s ELSE holder[m]
          /\ draft'[m] = IF m \in Candidates THEN "claimed" ELSE draft[m]
    OBVIOUS
  <1>2. \A m \in Candidates :
          m \in Messages /\ holder[m] = None /\ delivery[m] \in Open
    BY DEF Candidates, Claimable, Open
  <1>3. \A r \in Senders : batch'[r] = IF r = s THEN Candidates ELSE batch[r]
    BY DEF TypeOK
  <1>4. \A r \in Senders : pc'[r] = IF r = s THEN "open" ELSE pc[r]
    BY DEF TypeOK
  <1>5. \A r \in Senders : \A m \in Candidates : m \notin Held(r) /\ m \notin copies[r]
    BY <1>2, NoneIsNothing DEF TypeOK, Held
  <1>6. \A r \in Senders : Held(r)' = IF r = s THEN Held(r) \cup Candidates ELSE Held(r)
    BY <1>1, <1>2, <1>5 DEF Held
  <1>7. TypeOK'
    <2>1. holder' \in [Messages -> Senders \cup {None}] /\ draft' \in [Messages -> Statuses]
      BY DEF TypeOK, Statuses, Open
    <2>2. batch' \in [Senders -> SUBSET Messages]
      BY <1>2 DEF TypeOK
    <2>3. pc' \in [Senders -> {"idle", "called", "open", "sending", "closing"}]
      BY DEF TypeOK
    <2>4. \A r \in Senders : /\ (batch[r] \cup copies[r] \subseteq Held(r))'
                             /\ (current[r] \in Held(r) \cup {None})'
      BY <1>3, <1>6 DEF TypeOK
    <2> QED BY <2>1, <2>2, <2>3, <2>4 DEF TypeOK
  <1>8. CopiesAreCounted'
    BY DEF CopiesAreCounted, Copied
  <1>9. DraftsTell'
    <2>1. \A m \in Messages : holder'[m] # None =>
            /\ delivery[m] \in Open
            /\ draft'[m] \in {"claimed", "retry_wait"} \cup Settled
            /\ draft'[m] = "sent" => m \in copies[holder'[m]]
      BY <1>1, <1>2 DEF DraftsTell
    <2>2. \A r \in Senders : batch'[r] \cap copies[r] = {}
      BY <1>3, <1>5 DEF DraftsTell
    <2> QED BY <1>4, <2>1, <2>2 DEF DraftsTell
  <1> QED BY <1>7, <1>8, <1>9 DEF StaleExist

(* The copy that the provider takes is the first one in the transaction *)
LEMMA SendInv ==
  ASSUME Inv, NEW s \in Senders, Send(s)
  PROVE  Inv'
  <1> USE DEF Inv, Send, rows
  <1>1. PICK m \in batch[s] :
          /\ current' = [current EXCEPT ![s] = m]
          /\ batch' = [batch EXCEPT ![s] = @ \ {m}]
          /\ \/ /\ accepted' = [accepted EXCEPT ![m] = @ + 1]
                /\ copies' = [copies EXCEPT ![s] = @ \cup {m}]
             \/ UNCHANGED <<accepted, copies>>
    OBVIOUS
  <1>2. m \in Messages /\ holder[m] = s /\ m \in Held(s) /\ m \notin copies[s]
    BY DEF TypeOK, Held, DraftsTell
  <1>3. delivery[m] \notin Settled
    BY <1>2, NoneIsNothing DEF DraftsTell, Open, Settled
  <1>4. \A r \in Senders : m \notin copies[r]
    BY <1>2 DEF TypeOK, Held
  <1>5. \A r \in Senders :
          /\ current'[r] = IF r = s THEN m ELSE current[r]
          /\ batch'[r] = IF r = s THEN batch[r] \ {m} ELSE batch[r]
          /\ pc'[r] = IF r = s THEN "sending" ELSE pc[r]
    BY <1>1 DEF TypeOK
  <1>6. \/ /\ \A r \in Senders : copies'[r] = IF r = s THEN copies[r] \cup {m} ELSE copies[r]
           /\ \A n \in Messages : accepted'[n] = IF n = m THEN accepted[n] + 1 ELSE accepted[n]
        \/ copies' = copies /\ accepted' = accepted
    <2>1. CASE UNCHANGED <<accepted, copies>>
      BY <2>1
    <2>2. CASE /\ accepted' = [accepted EXCEPT ![m] = @ + 1]
               /\ copies' = [copies EXCEPT ![s] = @ \cup {m}]
      <3>1. \A r \in Senders : copies'[r] = IF r = s THEN copies[r] \cup {m} ELSE copies[r]
        BY <2>2 DEF TypeOK
      <3>2. \A n \in Messages : accepted'[n] = IF n = m THEN accepted[n] + 1 ELSE accepted[n]
        BY <1>2, <2>2 DEF TypeOK
      <3> QED BY <3>1, <3>2
    <2> QED BY <1>1, <2>1, <2>2
  <1>7. \A r \in Senders : Held(r)' = Held(r)
    BY DEF Held
  <1>8. TypeOK'
    <2>1. /\ current' \in [Senders -> Messages \cup {None}]
          /\ batch' \in [Senders -> SUBSET Messages]
          /\ pc' \in [Senders -> {"idle", "called", "open", "sending", "closing"}]
      BY <1>1, <1>2 DEF TypeOK
    <2>2. copies' \in [Senders -> SUBSET Messages] /\ accepted' \in [Messages -> Nat]
      BY <1>1, <1>2 DEF TypeOK
    <2>3. \A r \in Senders : /\ (batch[r] \cup copies[r] \subseteq Held(r))'
                             /\ (current[r] \in Held(r) \cup {None})'
      BY <1>2, <1>5, <1>6, <1>7 DEF TypeOK
    <2> QED BY <2>1, <2>2, <2>3 DEF TypeOK
  <1>9. CopiesAreCounted'
    <2>1. CASE copies' = copies /\ accepted' = accepted
      BY <2>1 DEF CopiesAreCounted, Copied
    <2>2. CASE /\ \A r \in Senders : copies'[r] = IF r = s THEN copies[r] \cup {m} ELSE copies[r]
               /\ \A n \in Messages : accepted'[n] = IF n = m THEN accepted[n] + 1 ELSE accepted[n]
      <3> SUFFICES ASSUME NEW n \in Messages
                   PROVE  /\ delivery[n] \notin Settled =>
                               accepted'[n] = lost[n] + (IF Copied(n)' THEN 1 ELSE 0)
                          /\ accepted'[n] <= lost[n] + 1
        BY DEF CopiesAreCounted
      <3>1. CASE n = m
        <4>1. Copied(m)' /\ ~Copied(m)
          BY <1>4, <2>2 DEF Copied
        <4> QED BY <1>3, <2>2, <3>1, <4>1 DEF CopiesAreCounted, TypeOK
      <3>2. CASE n # m
        <4>1. Copied(n)' <=> Copied(n)
          BY <2>2, <3>2 DEF Copied
        <4> QED BY <2>2, <3>2, <4>1 DEF CopiesAreCounted
      <3> QED BY <3>1, <3>2
    <2> QED BY <1>6, <2>1, <2>2
  <1>10. DraftsTell'
    <2>1. \A n \in Messages : holder[n] # None =>
            /\ delivery[n] \in Open
            /\ draft[n] \in {"claimed", "retry_wait"} \cup Settled
            /\ draft[n] = "sent" => n \in copies'[holder[n]]
      BY <1>6 DEF DraftsTell, TypeOK
    <2>2. \A r \in Senders : (batch[r] \cap copies[r])' = {}
      BY <1>5, <1>6 DEF DraftsTell
    <2>3. \A r \in Senders : /\ pc'[r] = "sending" => current'[r] # None
                             /\ pc'[r] \in {"idle", "called"} => current'[r] = None
      <3> TAKE r \in Senders
      <3>1. CASE r = s
        <4>1. pc'[r] = "sending" /\ current'[r] = m /\ m # None
          BY <1>2, <1>5, <3>1, NoneIsNothing
        <4> QED BY <4>1
      <3>2. CASE r # s
        BY <1>5, <3>2 DEF DraftsTell
      <3> QED BY <3>1, <3>2
    <2>4. holder' = holder /\ draft' = draft /\ delivery' = delivery
      OBVIOUS
    <2> HIDE DEF Send
    <2> QED BY <2>1, <2>2, <2>3, <2>4 DEF DraftsTell
  <1> QED BY <1>8, <1>9, <1>10 DEF StaleExist

(* finish_outbound_claim changes the draft of the row that was sent *)
LEMMA FinishInv ==
  ASSUME Inv, NEW s \in Senders, NEW status \in {"retry_wait"} \cup Settled,
         NEW next \in {"open", "closing"}, Finish(s, status, next),
         status = "sent" => current[s] \in copies[s]
  PROVE  Inv'
  <1> USE DEF Inv, Finish, rows, history
  <1>1. current[s] \in Messages /\ holder[current[s]] = s
    BY DEF DraftsTell, TypeOK, Held
  <1>2. \A m \in Messages : draft'[m] = IF m = current[s] THEN status ELSE draft[m]
    BY DEF TypeOK
  <1>3. \A r \in Senders : /\ current'[r] = IF r = s THEN None ELSE current[r]
                           /\ pc'[r] = IF r = s THEN next ELSE pc[r]
    BY DEF TypeOK
  <1>4. TypeOK'
    <2>1. draft' \in [Messages -> Statuses]
      BY DEF TypeOK, Statuses, Open
    <2>2. /\ current' \in [Senders -> Messages \cup {None}]
          /\ pc' \in [Senders -> {"idle", "called", "open", "sending", "closing"}]
      BY DEF TypeOK
    <2>3. \A r \in Senders : Held(r)' = Held(r)
      BY DEF Held
    <2> QED BY <1>3, <2>1, <2>2, <2>3 DEF TypeOK
  <1>5. CopiesAreCounted'
    BY DEF CopiesAreCounted, Copied
  <1>6. DraftsTell'
    <2>1. \A m \in Messages : holder[m] # None =>
            /\ delivery[m] \in Open
            /\ draft'[m] \in {"claimed", "retry_wait"} \cup Settled
            /\ draft'[m] = "sent" => m \in copies[holder[m]]
      BY <1>1, <1>2 DEF DraftsTell
    <2> QED BY <1>3, <2>1 DEF DraftsTell
  <1> QED BY <1>4, <1>5, <1>6 DEF StaleExist

(* The end of a transaction: nothing is left of it in the sender's variables *)
LEMMA ReleaseFacts ==
  ASSUME TypeOK, NEW s \in Senders, Release(s)
  PROVE  /\ \A m \in Messages :
              /\ holder'[m] = IF m \in Held(s) THEN None ELSE holder[m]
              /\ draft'[m] = IF m \in Held(s) THEN "absent" ELSE draft[m]
         /\ \A r \in Senders :
              /\ batch'[r] = IF r = s THEN {} ELSE batch[r]
              /\ copies'[r] = IF r = s THEN {} ELSE copies[r]
              /\ current'[r] = IF r = s THEN None ELSE current[r]
              /\ pc'[r] = IF r = s THEN "idle" ELSE pc[r]
              /\ Held(r)' = IF r = s THEN {} ELSE Held(r)
         /\ stale' = stale /\ accepted' = accepted
  <1> USE DEF Release
  <1>1. \A m \in Messages :
          /\ holder'[m] = IF m \in Held(s) THEN None ELSE holder[m]
          /\ draft'[m] = IF m \in Held(s) THEN "absent" ELSE draft[m]
    OBVIOUS
  <1>2. \A r \in Senders :
          /\ batch'[r] = IF r = s THEN {} ELSE batch[r]
          /\ copies'[r] = IF r = s THEN {} ELSE copies[r]
          /\ current'[r] = IF r = s THEN None ELSE current[r]
          /\ pc'[r] = IF r = s THEN "idle" ELSE pc[r]
    BY DEF TypeOK
  <1>3. \A r \in Senders : Held(r)' = IF r = s THEN {} ELSE Held(r)
    BY <1>1, NoneIsNothing DEF Held
  <1> QED BY <1>1, <1>2, <1>3

(* What a transaction leaves when it ends, committed or not: no lock, and its  *)
(* copies counted as lost unless their rows are settled                       *)
LEMMA EndInv ==
  ASSUME Inv, NEW s \in Senders, Release(s),
         \A m \in Messages : m \notin Held(s) => delivery'[m] = delivery[m],
         \A m \in Messages : m \in Held(s) => delivery'[m] \in {delivery[m], draft[m]},
         delivery' \in [Messages -> Statuses], resting' \in SUBSET Messages,
         NEW gone \in SUBSET copies[s], Forget(gone),
         \A m \in copies[s] : m \in gone \/ delivery'[m] \in Settled
  PROVE  Inv'
  <1> USE DEF Inv
  <1>0. Held(s) \subseteq Messages /\ \A m \in Held(s) : holder[m] = s /\ s # None
    BY NoneIsNothing DEF Held
  <1>1. \A m \in Messages : lost'[m] = IF m \in gone THEN lost[m] + 1 ELSE lost[m]
    BY DEF Forget
  <1>2. TypeOK'
    <2>1. lost' \in [Messages -> Nat]
      BY DEF Forget, TypeOK
    <2>2. holder' \in [Messages -> Senders \cup {None}] /\ draft' \in [Messages -> Statuses]
      BY DEF Release, TypeOK, Statuses
    <2>3. /\ batch' \in [Senders -> SUBSET Messages]
          /\ copies' \in [Senders -> SUBSET Messages]
          /\ current' \in [Senders -> Messages \cup {None}]
          /\ pc' \in [Senders -> {"idle", "called", "open", "sending", "closing"}]
      BY DEF Release, TypeOK
    <2>4. \A r \in Senders : /\ (batch[r] \cup copies[r] \subseteq Held(r))'
                             /\ (current[r] \in Held(r) \cup {None})'
      BY ReleaseFacts DEF TypeOK
    <2> QED BY <2>1, <2>2, <2>3, <2>4, ReleaseFacts DEF TypeOK
  <1>3. CopiesAreCounted'
    <2> SUFFICES ASSUME NEW m \in Messages
                 PROVE  /\ delivery'[m] \notin Settled =>
                             accepted'[m] = lost'[m] + (IF Copied(m)' THEN 1 ELSE 0)
                        /\ accepted'[m] <= lost'[m] + 1
      BY DEF CopiesAreCounted
    <2>1. accepted'[m] = accepted[m] /\ accepted[m] \in Nat /\ lost[m] \in Nat
      BY ReleaseFacts DEF TypeOK
    <2>2. CASE m \in copies[s]
      <3>1. m \in Held(s) /\ delivery[m] \in Open /\ Copied(m)
        BY <2>2, <1>0 DEF TypeOK, DraftsTell, Copied
      <3>2. accepted[m] = lost[m] + 1
        BY <3>1 DEF CopiesAreCounted, Open, Settled
      <3>3. ~Copied(m)'
        BY <3>1, <1>0, ReleaseFacts DEF Copied, TypeOK, Held
      <3> QED BY <1>1, <2>1, <2>2, <3>2, <3>3
    <2>3. CASE m \notin copies[s]
      <3>1. Copied(m)' <=> Copied(m)
        BY <2>3, ReleaseFacts DEF Copied
      <3>2. lost'[m] = lost[m]
        BY <1>1, <2>3
      <3>3. delivery'[m] \notin Settled => delivery[m] \notin Settled
        BY <1>0 DEF DraftsTell, Open, Settled
      <3> QED BY <2>1, <3>1, <3>2, <3>3 DEF CopiesAreCounted
    <2> QED BY <2>2, <2>3
  <1>4. DraftsTell'
    <2>1. \A m \in Messages : holder'[m] # None =>
            /\ m \notin Held(s) /\ holder'[m] = holder[m] /\ draft'[m] = draft[m]
            /\ delivery'[m] = delivery[m] /\ holder[m] \in Senders \ {s}
      BY ReleaseFacts DEF Held, TypeOK
    <2>2. \A m \in Messages : holder'[m] # None =>
            /\ delivery'[m] \in Open
            /\ draft'[m] \in {"claimed", "retry_wait"} \cup Settled
            /\ draft'[m] = "sent" => m \in copies'[holder'[m]]
      BY <2>1, ReleaseFacts DEF DraftsTell
    <2>3. \A r \in Senders : /\ (batch[r] \cap copies[r])' = {}
                             /\ pc'[r] = "sending" => current'[r] # None
                             /\ pc'[r] \in {"idle", "called"} => current'[r] = None
      BY ReleaseFacts DEF DraftsTell
    <2> QED BY <2>2, <2>3 DEF DraftsTell
  <1>5. StaleExist'
    <2> SUFFICES ASSUME NEW d \in Drains, NEW m \in stale[d]
                 PROVE  delivery'[m] # "absent"
      BY ReleaseFacts DEF StaleExist
    <2>1. m \in Messages /\ delivery[m] # "absent"
      BY DEF StaleExist, TypeOK
    <2>2. m \in Held(s) => draft[m] # "absent"
      BY <1>0 DEF DraftsTell, Settled
    <2> QED BY <2>1, <2>2
  <1> QED BY <1>2, <1>3, <1>4, <1>5

(* The commit writes the drafts *)
LEMMA CommitInv ==
  ASSUME Inv, NEW s \in Senders, CommitDrafts(s)
  PROVE  Inv'
  <1> DEFINE gone == {m \in copies[s] : draft[m] \notin Settled}
  <1>1. \A m \in Messages : delivery'[m] = IF m \in Held(s) THEN draft[m] ELSE delivery[m]
    BY DEF CommitDrafts
  <1>2. delivery' \in [Messages -> Statuses] /\ resting' \in SUBSET Messages
    BY DEF CommitDrafts, Inv, TypeOK
  <1>3. \A m \in copies[s] : m \in Messages /\ m \in Held(s)
    BY DEF Inv, TypeOK, Held
  <1>4. \A m \in copies[s] : m \in gone \/ delivery'[m] \in Settled
    BY <1>1, <1>3
  <1>5. Forget(gone) /\ Release(s) /\ gone \in SUBSET copies[s]
    BY DEF CommitDrafts
  <1> HIDE DEF gone
  <1> QED BY <1>1, <1>2, <1>4, <1>5, EndInv

(* A rollback leaves the rows as they were *)
LEMMA AbortInv ==
  ASSUME Inv, NEW s \in Senders, Abort(s)
  PROVE  Inv'
  <1>1. delivery' = delivery /\ resting' = resting
    BY DEF Abort, rows
  <1>2. delivery' \in [Messages -> Statuses] /\ resting' \in SUBSET Messages
    BY <1>1 DEF Inv, TypeOK
  <1>3. Forget(copies[s]) /\ Release(s)
    BY DEF Abort
  <1> QED BY <1>1, <1>2, <1>3, EndInv

(* The drain writes rows that nobody holds, and settles them *)
LEMMA ExpireInv ==
  ASSUME Inv, NEW d \in Drains, ExpireStale(d)
  PROVE  Inv'
  <1> USE DEF Inv, ExpireStale, tx, history
  <1>1. \A m \in Messages :
          delivery'[m] = IF m \in stale[d] THEN "failed" ELSE delivery[m]
    OBVIOUS
  <1>2. stale[d] \subseteq Messages /\ \A m \in stale[d] : holder[m] = None
    BY DEF TypeOK
  <1>3. "failed" \in Settled /\ "failed" # "absent"
    BY DEF Settled
  <1>4. TypeOK'
    <2>1. delivery' \in [Messages -> Statuses]
      BY DEF TypeOK, Statuses, Settled
    <2>2. resting' \in SUBSET Messages /\ stale' \in [Drains -> SUBSET Messages]
      BY DEF TypeOK
    <2>3. \A r \in Senders : Held(r)' = Held(r)
      BY DEF Held
    <2> QED BY <2>1, <2>2, <2>3 DEF TypeOK
  <1>5. CopiesAreCounted'
    BY <1>1, <1>3 DEF CopiesAreCounted, Copied
  <1>6. DraftsTell'
    BY <1>1, <1>2 DEF DraftsTell
  <1>7. StaleExist'
    BY <1>1, <1>3 DEF StaleExist, TypeOK
  <1> QED BY <1>4, <1>5, <1>6, <1>7

(* The other steps of a drain move its program counter and its stale rows *)
LEMMA DrainInv ==
  ASSUME Inv, NEW d \in Drains, DrainScan(d) \/ DrainGivesUp(d) \/ ExpireFails(d)
  PROVE  Inv'
  <1> USE DEF Inv, rows, tx, history
  <1>1. /\ delivery' = delivery /\ resting' = resting /\ holder' = holder
        /\ draft' = draft /\ batch' = batch /\ current' = current /\ copies' = copies
        /\ accepted' = accepted /\ lost' = lost
    BY DEF DrainScan, DrainGivesUp, ExpireFails
  <1>2. /\ pc' \in [Senders -> {"idle", "called", "open", "sending", "closing"}]
        /\ \A r \in Senders : pc'[r] = pc[r] \/ (pc[r] \in {"idle", "called"}
                                                 /\ pc'[r] \in {"idle", "called"})
    BY NoneIsNothing DEF DrainScan, DrainGivesUp, ExpireFails, TypeOK
  <1>3. /\ stale' \in [Drains -> SUBSET Messages]
        /\ \A c \in Drains : \A m \in stale'[c] : delivery[m] # "absent"
    <2>1. CASE DrainScan(d)
      <3>1. PICK tooOld \in SUBSET PendingRows : stale' = [stale EXCEPT ![d] = tooOld]
        BY <2>1 DEF DrainScan
      <3>2. \A m \in PendingRows : m \in Messages /\ delivery[m] # "absent"
        BY DEF PendingRows
      <3> QED BY <3>1, <3>2 DEF TypeOK, StaleExist
    <2>2. CASE DrainGivesUp(d) \/ ExpireFails(d)
      BY <2>2 DEF DrainGivesUp, ExpireFails, TypeOK, StaleExist
    <2> QED BY <2>1, <2>2
  <1>4. TypeOK'
    <2>1. \A r \in Senders : Held(r)' = Held(r)
      BY <1>1 DEF Held
    <2> QED BY <1>1, <1>2, <1>3, <2>1 DEF TypeOK
  <1>5. CopiesAreCounted'
    BY <1>1 DEF CopiesAreCounted, Copied
  <1>6. DraftsTell'
    BY <1>1, <1>2 DEF DraftsTell
  <1>7. StaleExist'
    BY <1>1, <1>3 DEF StaleExist
  <1> QED BY <1>4, <1>5, <1>6, <1>7

(* Every step of a sender *)
LEMMA SenderInv ==
  ASSUME Inv, NEW s \in Senders, SenderStep(s)
  PROVE  Inv'
  <1>1. CASE Send(s)
    BY <1>1, SendInv
  <1>2. CASE Confirmed(s)
    BY <1>2, FinishInv DEF Confirmed, Settled
  <1>3. CASE Ambiguous(s)
    BY <1>3, FinishInv DEF Ambiguous, Settled
  <1>4. CASE Rejected(s)
    BY <1>4, FinishInv DEF Rejected, Settled
  <1>5. CASE SendFails(s)
    BY <1>5, FinishInv DEF SendFails
  <1>6. CASE Commit(s) \/ Interrupt(s)
    BY <1>6, CommitInv DEF Commit, Interrupt
  <1>7. CASE Abort(s)
    BY <1>7, AbortInv
  <1> QED BY <1>1, <1>2, <1>3, <1>4, <1>5, <1>6, <1>7 DEF SenderStep

(* Every step preserves the invariant *)
LEMMA NextInv == Inv /\ [Next]_vars => Inv'
  <1> SUFFICES ASSUME Inv, [Next]_vars PROVE Inv'
    OBVIOUS
  <1>1. ASSUME NEW m \in Messages, RowStep(m) PROVE Inv'
    <2>1. CASE Enqueue(m) \/ EnqueueReport(m)
      BY <2>1, InsertInv DEF Enqueue, EnqueueReport, Open
    <2>2. CASE Due(m)
      BY <2>2 DEF Due, tx, history, Inv, TypeOK, Held, CopiesAreCounted, Copied,
                  DraftsTell, StaleExist
    <2> QED BY <1>1, <2>1, <2>2 DEF RowStep
  <1>2. ASSUME NEW p \in Loops, LoopClaims(p) PROVE Inv'
    BY <1>2, ClaimInv, NoneIsNothing DEF LoopClaims
  <1>3. ASSUME NEW s \in Senders, SenderStep(s) PROVE Inv'
    BY <1>3, SenderInv
  <1>4. ASSUME NEW d \in Drains, DrainStep(d) PROVE Inv'
    BY <1>4, ClaimInv, ExpireInv, DrainInv, NoneIsNothing DEF DrainStep, DrainClaims
  <1>5. CASE UNCHANGED vars
    BY <1>5 DEF vars, Inv, TypeOK, Held, CopiesAreCounted, Copied, DraftsTell, StaleExist
  <1> QED BY <1>1, <1>2, <1>3, <1>4, <1>5 DEF Next

(* The inductive invariant holds in every behaviour *)
THEOREM Invariance == Spec => []Inv
  <1> QED BY InitInv, NextInv, PTL DEF Spec

(* What a sender works on are rows that it, and no other, has locked *)
THEOREM TypeCorrect == Spec => []TypeOK
  <1>1. Inv => TypeOK
    BY DEF Inv
  <1> QED BY <1>1, Invariance, PTL

(* A message is repeated only if the result of an earlier copy was lost *)
THEOREM RepeatsAreLosses == Spec => []RepeatedOnlyIfLost
  <1>1. Inv => RepeatedOnlyIfLost
    BY DEF Inv, CopiesAreCounted, RepeatedOnlyIfLost
  <1> QED BY <1>1, Invariance, PTL

(* The four states of MessageDelivery *)
LEMMA StateFacts ==
  \A status \in Statuses :
    /\ StateOf(status) \in Delivered!States
    /\ status = "absent" => StateOf(status) = "absent"
    /\ status \in Open => StateOf(status) = "open"
    /\ status = "sent" => StateOf(status) = "sent"
    /\ status \in {"failed", "unknown_delivery"} => StateOf(status) = "closed"
  BY DEF StateOf, Statuses, Open, Settled, Delivered!States

(* Steps that leave the committed rows and the copies alone are not seen *)
LEMMA Unseen ==
  ASSUME delivery' = delivery, accepted' = accepted
  PROVE  UNCHANGED Delivered!vars
  BY DEF Delivered!vars

(* A new row is a queued message *)
LEMMA InsertQueues ==
  ASSUME Inv, NEW m \in Messages, NEW status \in Open, Insert(m, status)
  PROVE  Delivered!Next
  <1> DEFINE st == [n \in Messages |-> StateOf(delivery[n])]
  <1>1. delivery' = [delivery EXCEPT ![m] = status] /\ accepted' = accepted
    BY DEF Insert, history
  <1>2. st[m] = "absent" /\ StateOf(status) = "open"
    BY StateFacts DEF Insert, Inv, TypeOK, Statuses
  <1>3. st' = [st EXCEPT ![m] = "open"]
    BY <1>1, <1>2 DEF Inv, TypeOK
  <1> HIDE DEF st
  <1>4. Delivered!Queue(m)
    BY <1>1, <1>2, <1>3 DEF Delivered!Queue, st
  <1> QED BY <1>4 DEF Delivered!Next

(* Only open messages are handed over *)
LEMMA SendHandsOver ==
  ASSUME Inv, NEW s \in Senders, Send(s)
  PROVE  [Delivered!Next]_(Delivered!vars)
  <1>1. delivery' = delivery
    BY DEF Send, rows
  <1>2. CASE accepted' = accepted
    BY <1>1, <1>2, Unseen
  <1>3. ASSUME NEW m \in batch[s], accepted' = [accepted EXCEPT ![m] = @ + 1]
        PROVE  Delivered!Next
    <2>1. m \in Messages /\ holder[m] = s /\ s # None
      BY NoneIsNothing DEF Inv, TypeOK, Held
    <2>2. delivery[m] \in Open
      BY <2>1 DEF Inv, DraftsTell
    <2>3. StateOf(delivery[m]) = "open"
      BY <2>1, <2>2, StateFacts DEF Inv, TypeOK
    <2>4. Delivered!HandOver(m)
      BY <1>1, <1>3, <2>1, <2>3 DEF Delivered!HandOver
    <2> QED BY <2>1, <2>4 DEF Delivered!Next
  <1> QED BY <1>2, <1>3 DEF Send

(* The end of a transaction and the cutoff settle rows *)
LEMMA ChangesSettle ==
  ASSUME Inv, delivery' \in [Messages -> Statuses], accepted' = accepted,
         \A m \in Messages :
           \/ StateOf(delivery'[m]) = StateOf(delivery[m])
           \/ delivery[m] \in Open /\ delivery'[m] = "sent" /\ accepted[m] > 0
           \/ delivery[m] # "absent" /\ delivery'[m] \in {"failed", "unknown_delivery"}
  PROVE  Delivered!Next
  <1> DEFINE st == [n \in Messages |-> StateOf(delivery[n])]
  <1>1. st' \in [Messages -> Delivered!States]
    BY StateFacts
  <1>2. \A m \in Messages :
          st[m] = StateOf(delivery[m]) /\ st'[m] = StateOf(delivery'[m])
    OBVIOUS
  <1>3. \A m \in Messages :
          \/ st'[m] = st[m]
          \/ st[m] = "open" /\ st'[m] = "sent" /\ accepted[m] > 0
          \/ st[m] \in {"open", "sent"} /\ st'[m] = "closed"
    <2> TAKE m \in Messages
    <2>1. delivery[m] \in Statuses /\ delivery'[m] \in Statuses
      BY DEF Inv, TypeOK
    <2>2. CASE StateOf(delivery'[m]) = StateOf(delivery[m])
      BY <1>2, <2>2
    <2>3. CASE delivery[m] \in Open /\ delivery'[m] = "sent" /\ accepted[m] > 0
      BY <1>2, <2>1, <2>3, StateFacts
    <2>4. CASE delivery[m] # "absent" /\ delivery'[m] \in {"failed", "unknown_delivery"}
      <3>1. delivery[m] \in Open \/ delivery[m] = "sent"
              \/ delivery[m] \in {"failed", "unknown_delivery"}
        BY <2>1, <2>4 DEF Statuses, Open, Settled
      <3>2. StateOf(delivery'[m]) = "closed"
        BY <2>1, <2>4, StateFacts
      <3>3. StateOf(delivery[m]) \in {"open", "sent", "closed"}
        BY <2>1, <3>1, StateFacts
      <3> QED BY <1>2, <3>2, <3>3
    <2> QED BY <2>2, <2>3, <2>4
  <1> HIDE DEF st
  <1>4. Delivered!Settle
    BY <1>1, <1>3 DEF Delivered!Settle, st
  <1> QED BY <1>4 DEF Delivered!Next

(* A draft "sent" has a copy, so a report of success is true *)
LEMMA CommitSettles ==
  ASSUME Inv, NEW s \in Senders, CommitDrafts(s)
  PROVE  Delivered!Next
  <1>1. \A m \in Messages : delivery'[m] = IF m \in Held(s) THEN draft[m] ELSE delivery[m]
    BY DEF CommitDrafts
  <1>2. delivery' \in [Messages -> Statuses] /\ accepted' = accepted
    BY DEF CommitDrafts, Release, Inv, TypeOK
  <1>3. ASSUME NEW m \in Messages, m \in Held(s)
        PROVE  \/ StateOf(delivery'[m]) = StateOf(delivery[m])
               \/ delivery[m] \in Open /\ delivery'[m] = "sent" /\ accepted[m] > 0
               \/ delivery[m] # "absent" /\ delivery'[m] \in {"failed", "unknown_delivery"}
    <2>1. /\ holder[m] = s /\ delivery[m] \in Open /\ delivery'[m] = draft[m]
          /\ draft[m] \in {"claimed", "retry_wait"} \cup Settled
          /\ draft[m] = "sent" => m \in copies[s]
      BY <1>1, <1>3, NoneIsNothing DEF Held, Inv, DraftsTell
    <2>2. CASE draft[m] = "sent"
      <3>1. Copied(m) /\ delivery[m] \notin Settled
        BY <2>1, <2>2 DEF Copied, Open, Settled
      <3>2. accepted[m] = lost[m] + 1 /\ lost[m] \in Nat
        BY <3>1 DEF Inv, CopiesAreCounted, TypeOK
      <3> QED BY <2>1, <2>2, <3>2
    <2>3. CASE draft[m] \in {"claimed", "retry_wait"}
      <3>1. draft[m] \in Open
        BY <2>3 DEF Open
      <3>2. delivery[m] \in Statuses /\ draft[m] \in Statuses
        BY <2>1, <3>1 DEF Statuses
      <3>3. StateOf(delivery[m]) = "open" /\ StateOf(draft[m]) = "open"
        BY <2>1, <3>1, <3>2, StateFacts
      <3>4. StateOf(delivery'[m]) = StateOf(draft[m])
        BY <2>1
      <3> QED BY <3>3, <3>4
    <2>4. CASE draft[m] \in {"failed", "unknown_delivery"}
      <3>1. delivery[m] # "absent"
        BY <2>1 DEF Open
      <3> QED BY <2>1, <2>4, <3>1
    <2>5. draft[m] = "sent" \/ draft[m] \in {"claimed", "retry_wait"}
            \/ draft[m] \in {"failed", "unknown_delivery"}
      BY <2>1 DEF Settled
    <2> QED BY <2>2, <2>3, <2>4, <2>5
  <1>4. \A m \in Messages : m \notin Held(s) => delivery'[m] = delivery[m]
    BY <1>1
  <1> QED BY <1>2, <1>3, <1>4, ChangesSettle

(* The cutoff gives up existing rows *)
LEMMA ExpireSettles ==
  ASSUME Inv, NEW d \in Drains, ExpireStale(d)
  PROVE  Delivered!Next
  <1>1. \A m \in Messages :
          delivery'[m] = IF m \in stale[d] THEN "failed" ELSE delivery[m]
    BY DEF ExpireStale
  <1>2. delivery' \in [Messages -> Statuses] /\ accepted' = accepted
    BY DEF ExpireStale, history, Inv, TypeOK, Statuses, Settled
  <1>3. \A m \in Messages : m \in stale[d] => delivery[m] # "absent"
    BY DEF Inv, StaleExist
  <1> QED BY <1>1, <1>2, <1>3, ChangesSettle

(* OutboundDelivery implements MessageDelivery, for any senders and messages *)
THEOREM RefinesDelivery == Spec => ImplementsDelivery
  <1>1. Init => Delivered!Init
    <2> SUFFICES ASSUME Init PROVE Delivered!Init
      OBVIOUS
    <2>1. \A m \in Messages : delivery[m] = "absent"
      BY DEF Init
    <2>2. [m \in Messages |-> StateOf(delivery[m])] = [m \in Messages |-> "absent"]
      BY <2>1, StateFacts DEF Statuses
    <2>3. accepted = [m \in Messages |-> 0]
      BY DEF Init
    <2> QED BY <2>2, <2>3 DEF Delivered!Init
  <1>2. Inv /\ [Next]_vars => [Delivered!Next]_(Delivered!vars)
    <2> SUFFICES ASSUME Inv, [Next]_vars PROVE [Delivered!Next]_(Delivered!vars)
      OBVIOUS
    <2>1. ASSUME NEW m \in Messages, RowStep(m)
          PROVE  [Delivered!Next]_(Delivered!vars)
      <3>1. CASE Enqueue(m) \/ EnqueueReport(m)
        BY <3>1, InsertQueues DEF Enqueue, EnqueueReport, Open
      <3>2. CASE Due(m)
        BY <3>2, Unseen DEF Due, history
      <3> QED BY <2>1, <3>1, <3>2 DEF RowStep
    <2>2. ASSUME NEW s \in Senders, Claim(s) PROVE [Delivered!Next]_(Delivered!vars)
      BY <2>2, Unseen DEF Claim, rows, history
    <2>3. ASSUME NEW s \in Senders, SenderStep(s)
          PROVE  [Delivered!Next]_(Delivered!vars)
      <3>1. CASE Send(s)
        BY <3>1, SendHandsOver
      <3>2. CASE Confirmed(s) \/ Ambiguous(s) \/ Rejected(s) \/ SendFails(s)
        BY <3>2, Unseen
           DEF Confirmed, Ambiguous, Rejected, SendFails, Finish, rows, history
      <3>3. CASE Commit(s) \/ Interrupt(s)
        BY <3>3, CommitSettles DEF Commit, Interrupt
      <3>4. CASE Abort(s)
        BY <3>4, Unseen DEF Abort, Release, rows
      <3> QED BY <2>3, <3>1, <3>2, <3>3, <3>4 DEF SenderStep
    <2>4. ASSUME NEW d \in Drains, DrainStep(d)
          PROVE  [Delivered!Next]_(Delivered!vars)
      <3>1. CASE DrainScan(d) \/ DrainGivesUp(d) \/ ExpireFails(d)
        BY <3>1, Unseen DEF DrainScan, DrainGivesUp, ExpireFails, rows, history
      <3>2. CASE DrainClaims(d)
        BY <3>2, <2>2, NoneIsNothing DEF DrainClaims
      <3>3. CASE ExpireStale(d)
        BY <3>3, ExpireSettles
      <3> QED BY <2>4, <3>1, <3>2, <3>3 DEF DrainStep
    <2>5. CASE UNCHANGED vars
      BY <2>5, Unseen DEF vars
    <2> QED BY <2>1, <2>2, <2>3, <2>4, <2>5, NoneIsNothing DEF Next, LoopClaims
  <1> QED BY <1>1, <1>2, Invariance, PTL DEF Spec, ImplementsDelivery, Delivered!Spec

--------------------------------------------------------------------------------
(* Locks *)

(* A row is locked only as long as the transaction of its sender is open: a   *)
(* reply that somebody has left behind can be claimed again (Interrupt,       *)
(* Abort, Commit; FOR UPDATE SKIP LOCKED).                                    *)
LocksEnd ==
  \A m \in Messages : holder[m] # None => pc[holder[m]] \in {"open", "sending", "closing"}

(* No break, cancellation or crash leaves a row locked *)
THEOREM NoRowStaysLocked == Spec => []LocksEnd
  <1>1. Init => LocksEnd
    BY DEF Init, LocksEnd
  <1>2. Inv /\ LocksEnd /\ [Next]_vars => LocksEnd'
    <2> SUFFICES ASSUME Inv, LocksEnd, [Next]_vars PROVE LocksEnd'
      OBVIOUS
    <2> USE NoneIsNothing DEF Inv, TypeOK, LocksEnd
    <2>1. ASSUME NEW m \in Messages, RowStep(m) PROVE LocksEnd'
      BY <2>1 DEF RowStep, Enqueue, EnqueueReport, Insert, Due, tx
    <2>2. ASSUME NEW s \in Senders, Claim(s) PROVE LocksEnd'
      BY <2>2 DEF Claim
    <2>3. ASSUME NEW s \in Senders, SenderStep(s) PROVE LocksEnd'
      <3>1. CASE Send(s)
        BY <3>1 DEF Send
      <3>2. CASE Confirmed(s) \/ Ambiguous(s) \/ Rejected(s) \/ SendFails(s)
        BY <3>2 DEF Confirmed, Ambiguous, Rejected, SendFails, Finish
      <3>3. CASE Commit(s) \/ Interrupt(s) \/ Abort(s)
        <4>1. Release(s)
          BY <3>3 DEF Commit, Interrupt, Abort, CommitDrafts
        <4> QED BY <4>1 DEF Release, Held
      <3> QED BY <2>3, <3>1, <3>2, <3>3 DEF SenderStep
    <2>4. ASSUME NEW d \in Drains, DrainStep(d) PROVE LocksEnd'
      <3>1. CASE DrainScan(d)
        <4>1. \A m \in Messages : holder'[m] = holder[m] /\ holder[m] # d
          BY <3>1 DEF DrainScan, tx
        <4> QED BY <3>1, <4>1 DEF DrainScan
      <3>2. CASE DrainGivesUp(d)
        <4>1. \A m \in Messages : holder'[m] = holder[m] /\ holder[m] # d
          BY <3>2 DEF DrainGivesUp, tx
        <4> QED BY <3>2, <4>1 DEF DrainGivesUp
      <3>3. CASE DrainClaims(d)
        BY <2>2, <3>3 DEF DrainClaims
      <3>4. CASE ExpireStale(d) \/ ExpireFails(d)
        BY <3>4 DEF ExpireStale, ExpireFails, tx
      <3> QED BY <2>4, <3>1, <3>2, <3>3, <3>4 DEF DrainStep
    <2>5. CASE UNCHANGED vars
      BY <2>5 DEF vars
    <2> QED BY <2>1, <2>2, <2>3, <2>4, <2>5 DEF Next, LoopClaims
  <1> QED BY <1>1, <1>2, Invariance, PTL DEF Spec
================================================================================
