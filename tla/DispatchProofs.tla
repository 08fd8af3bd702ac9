---------------------------- MODULE DispatchProofs ----------------------------
(***************************************************************************)
(* Safety of Dispatch for any number of intents, overlapping scans, jobs   *)
(* and attempts.                                                           *)
(***************************************************************************)
EXTENDS Dispatch, TLAPS

(* A row that was never inserted is still the initial one. *)
AbsentIsInitial ==
  \A i \in Intents : row[i].status = "absent" => row[i] = NewRow("absent")

(* What a job has read is older than the row or as old; at one generation a  *)
(* row is dispatching before it is pending, never after.                     *)
SeenIsBehind ==
  \A j \in Jobs : job[j] = "read" =>
    /\ seen[j].status \in {"pending", "dispatching"}
    /\ seen[j].generation = seen[j].attempts + 1
    /\ seen[j].generation <= row[j[1]].generation
    /\ seen[j].status = "pending" /\ seen[j].generation = row[j[1]].generation
         => row[j[1]].status # "dispatching"

(* Two open scans never hold the same intent (skip_locked).                  *)
ScansAreDisjoint ==
  \A s, t \in Scanners : s # t => holds[s] \cap holds[t] = {}

(* The inductive invariant *)
Inv ==
  /\ TypeOK
  /\ EveryClaimIsCounted
  /\ DeadLetterMeansExhausted
  /\ ScanDecidesOnCurrentRow
  /\ ScansAreDisjoint
  /\ AbsentIsInitial
  /\ SeenIsBehind

--------------------------------------------------------------------------------

(* A job belongs to an intent                                               *)
LEMMA JobIntent == \A j \in Jobs : j[1] \in Intents
  BY DEF Jobs

(* The commands on a well-typed row *)
LEMMA Commands ==
  ASSUME NEW r \in Row
  PROVE  /\ Reset(r) \in Row /\ Reset(r).status = "pending"
         /\ Reset(r).generation = r.generation /\ Reset(r).attempts = r.attempts
         /\ Confirm(r) \in Row /\ Confirm(r).status = "confirmed"
         /\ Confirm(r).generation = r.generation /\ Confirm(r).attempts = r.attempts
         /\ Claim(r) \in Row
         /\ \/ /\ Claim(r).status = "dead_letter" /\ r.attempts >= MaxAttempts
               /\ Claim(r).generation = r.generation /\ Claim(r).attempts = r.attempts
            \/ /\ Claim(r).status = "dispatching" /\ r.attempts < MaxAttempts
               /\ Claim(r).generation = r.generation + 1
               /\ Claim(r).attempts = r.attempts + 1
  BY DispatchAssumption DEF Row, Statuses, Reset, Confirm, Claim

(* The invariant holds at the start                                         *)
LEMMA InitInv == Init => Inv
  <1> SUFFICES ASSUME Init PROVE Inv
    OBVIOUS
  <1>1. NewRow("absent") \in Row
    BY DEF NewRow, Row, Statuses
  <1>2. TypeOK
    BY <1>1 DEF Init, TypeOK
  <1>3. EveryClaimIsCounted /\ DeadLetterMeansExhausted /\ AbsentIsInitial
    BY DispatchAssumption DEF Init, EveryClaimIsCounted, DeadLetterMeansExhausted, AbsentIsInitial, NewRow
  <1>4. ScanDecidesOnCurrentRow /\ ScansAreDisjoint /\ SeenIsBehind
    BY DEF Init, ScanDecidesOnCurrentRow, Stranded, ScansAreDisjoint, SeenIsBehind
  <1>5. QED
    BY <1>2, <1>3, <1>4 DEF Inv

--------------------------------------------------------------------------------
(* Every action preserves the invariant *)

(* An intent is inserted                                                    *)
LEMMA InsertStep ==
  ASSUME Inv, NEW i \in Intents, Insert(i)
  PROVE  Inv'
  <1>1. NewRow("pending") \in Row
    BY DEF NewRow, Row, Statuses
  <1>2. row[i] = NewRow("absent")
    BY DEF Inv, AbsentIsInitial, Insert
  <1>3. \A s \in Scanners : i \notin holds[s]
    BY <1>2 DEF Inv, ScanDecidesOnCurrentRow, Stranded, Insert, NewRow
  <1>4. \A k \in Intents : k # i => row'[k] = row[k]
    BY DEF Insert, Inv, TypeOK
  <1>5. row'[i] = NewRow("pending")
    BY DEF Insert, Inv, TypeOK
  <1>6. TypeOK'
    BY <1>1, <1>2, <1>4, <1>5 DEF Insert, Inv, TypeOK, NewRow
  <1>7. EveryClaimIsCounted'
    BY <1>2, <1>4, <1>5 DEF Insert, Inv, EveryClaimIsCounted, NewRow
  <1>8. DeadLetterMeansExhausted' /\ AbsentIsInitial'
    BY <1>4, <1>5 DEF Inv, DeadLetterMeansExhausted, AbsentIsInitial, NewRow
  <1>9. ScanDecidesOnCurrentRow'
    BY <1>3, <1>4 DEF Insert, Inv, TypeOK, ScanDecidesOnCurrentRow, Stranded
  <1>10. ScansAreDisjoint'
    BY DEF Insert, Inv, ScansAreDisjoint
  <1>11. SeenIsBehind'
    BY <1>2, <1>4, <1>5, JobIntent DEF Insert, Inv, SeenIsBehind, NewRow
  <1>12. QED
    BY <1>6, <1>7, <1>8, <1>9, <1>10, <1>11 DEF Inv

(* Decisions for a row the scan finds *)
LEMMA DeliveredRow ==
  ASSUME Inv, NEW reached \in SUBSET Intents, NEW i \in Found(reached)
  PROVE  /\ i \in Intents /\ ~Locked(i)
         /\ row[i].status = "pending" \/ Stranded(i)
         /\ Delivered(i, reached) \in {Reset(row[i]), Claim(row[i]), Claim(Reset(row[i]))}
         /\ Delivered(i, reached) \in Row
  <1>1. row[i] \in Row
    BY DEF Inv, TypeOK, Found
  <1>2. /\ i \in Intents /\ ~Locked(i)
        /\ Stranded(i) \/ (row[i].status = "pending" /\ i \in reached)
    BY DEF Found
  <1>3. Reset(row[i]) \in Row /\ Claim(row[i]) \in Row /\ Claim(Reset(row[i])) \in Row
    BY <1>1, Commands
  <1>4. CASE Stranded(i)
    BY <1>2, <1>3, <1>4 DEF Stranded, Delivered, Reconciled
  <1>5. CASE ~Stranded(i)
    BY <1>2, <1>3, <1>5 DEF Delivered, Reconciled
  <1>6. QED
    BY <1>4, <1>5

(* A scan locks rows and stages what it will commit for them                *)
LEMMA ScanStep ==
  ASSUME Inv, NEW s \in Scanners, Scan(s)
  PROVE  Inv'
  <1>1. PICK reached \in SUBSET Intents : ScanWith(s, reached)
    BY DEF Scan
  <1> DEFINE found == Found(reached)
  <1>2. /\ UNCHANGED <<row, lapsed, seen, claims>>
        /\ holds' = [holds EXCEPT ![s] = found]
        /\ holds[s] = {}
        /\ staged' = [i \in Intents |-> IF i \in found THEN Delivered(i, reached)
                                                      ELSE staged[i]]
    BY <1>1 DEF ScanWith
  <1>3. \E sent \in SUBSET Intents : Enqueue(sent)
    <2>1. found \in SUBSET Intents
      BY DEF Found
    <2>2. QED
      BY <1>1, <2>1 DEF ScanWith
  <1>4. /\ job' \in [Jobs -> {"free", "queued", "read"}]
        /\ \A j \in Jobs : job'[j] = "read" => job[j] = "read"
    BY <1>3 DEF Enqueue, Inv, TypeOK
  <1>5. \A i \in found : /\ i \in Intents /\ ~Locked(i)
                         /\ row[i].status = "pending" \/ Stranded(i)
                         /\ Delivered(i, reached) \in
                              {Reset(row[i]), Claim(row[i]), Claim(Reset(row[i]))}
                         /\ Delivered(i, reached) \in Row
    BY DeliveredRow
  <1> HIDE DEF found
  <1>6. TypeOK'
    BY <1>2, <1>4, <1>5 DEF Inv, TypeOK
  <1>7. EveryClaimIsCounted' /\ DeadLetterMeansExhausted' /\ AbsentIsInitial'
    BY <1>2 DEF Inv, EveryClaimIsCounted, DeadLetterMeansExhausted, AbsentIsInitial
  <1>8. ScanDecidesOnCurrentRow'
    <2> SUFFICES ASSUME NEW t \in Scanners, NEW i \in holds'[t]
                 PROVE  /\ row[i].status = "pending" \/ Stranded(i)
                        /\ staged'[i] \in {Reset(row[i]), Claim(row[i]), Claim(Reset(row[i]))}
      BY <1>2 DEF ScanDecidesOnCurrentRow, Stranded, Reset, Claim
    <2>1. CASE t = s
      BY <1>2, <1>5, <2>1 DEF Inv, TypeOK
    <2>2. CASE t # s
      <3>1. i \in holds[t] /\ i \in Intents /\ i \notin found
        BY <1>2, <1>5, <2>2 DEF Inv, TypeOK, Locked
      <3>2. QED
        BY <1>2, <3>1 DEF Inv, ScanDecidesOnCurrentRow, Stranded
    <2>3. QED
      BY <2>1, <2>2
  <1>9. ScansAreDisjoint'
    BY <1>2, <1>5 DEF Inv, TypeOK, ScansAreDisjoint, Locked
  <1>10. SeenIsBehind'
    BY <1>2, <1>4 DEF Inv, SeenIsBehind
  <1>11. QED
    BY <1>6, <1>7, <1>8, <1>9, <1>10 DEF Inv

(* What a scan commits for a row it holds *)
LEMMA StagedRow ==
  ASSUME Inv, NEW s \in Scanners, NEW i \in holds[s]
  PROVE  /\ i \in Intents /\ row[i] \in Row /\ staged[i] \in Row
         /\ row[i].status \in {"pending", "dispatching"}
         /\ \/ /\ staged[i].status = "pending"
               /\ staged[i].generation = row[i].generation
               /\ staged[i].attempts = row[i].attempts
            \/ /\ staged[i].status = "dead_letter" /\ row[i].attempts >= MaxAttempts
               /\ staged[i].generation = row[i].generation
               /\ staged[i].attempts = row[i].attempts
            \/ /\ staged[i].status = "dispatching" /\ row[i].attempts < MaxAttempts
               /\ staged[i].generation = row[i].generation + 1
               /\ staged[i].attempts = row[i].attempts + 1
  <1>1. i \in Intents /\ row[i] \in Row /\ staged[i] \in Row
    BY DEF Inv, TypeOK
  <1>2. /\ row[i].status \in {"pending", "dispatching"}
        /\ staged[i] \in {Reset(row[i]), Claim(row[i]), Claim(Reset(row[i]))}
    BY DEF Inv, ScanDecidesOnCurrentRow, Stranded
  <1>3. CASE staged[i] = Reset(row[i])
    BY <1>1, <1>2, <1>3, Commands
  <1>4. CASE staged[i] = Claim(row[i])
    BY <1>1, <1>2, <1>4, Commands
  <1>5. CASE staged[i] = Claim(Reset(row[i]))
    BY <1>1, <1>2, <1>5, Commands
  <1>6. QED
    BY <1>1, <1>2, <1>3, <1>4, <1>5

(* A scan commits                                                           *)
LEMMA ScanCommitStep ==
  ASSUME Inv, NEW s \in Scanners, ScanCommit(s)
  PROVE  Inv'
  <1>1. /\ \A i \in Intents : row'[i] = IF i \in holds[s] THEN staged[i] ELSE row[i]
        /\ \A i \in Intents : claims'[i] =
             IF i \in holds[s] /\ staged[i].status = "dispatching"
               THEN claims[i] + 1 ELSE claims[i]
        /\ lapsed' = lapsed \ holds[s]
        /\ holds' = [holds EXCEPT ![s] = {}]
        /\ UNCHANGED <<staged, job, seen>>
    BY DEF ScanCommit, EndLease
  <1>2. \A i \in holds[s] :
           /\ i \in Intents /\ row[i] \in Row /\ staged[i] \in Row
           /\ row[i].status \in {"pending", "dispatching"}
           /\ \/ /\ staged[i].status = "pending"
                 /\ staged[i].generation = row[i].generation
                 /\ staged[i].attempts = row[i].attempts
              \/ /\ staged[i].status = "dead_letter" /\ row[i].attempts >= MaxAttempts
                 /\ staged[i].generation = row[i].generation
                 /\ staged[i].attempts = row[i].attempts
              \/ /\ staged[i].status = "dispatching" /\ row[i].attempts < MaxAttempts
                 /\ staged[i].generation = row[i].generation + 1
                 /\ staged[i].attempts = row[i].attempts + 1
    BY StagedRow
  <1>3. TypeOK'
    <2>1. row' \in [Intents -> Row] /\ claims' \in [Intents -> Nat]
      BY DEF ScanCommit, Inv, TypeOK
    <2>2. lapsed' \in SUBSET {i \in Intents : row'[i].status = "dispatching"}
      BY <1>1 DEF Inv, TypeOK
    <2>3. QED
      BY <1>1, <2>1, <2>2 DEF Inv, TypeOK
  <1>4. EveryClaimIsCounted'
    <2> SUFFICES ASSUME NEW i \in Intents
                 PROVE  /\ claims'[i] = row'[i].attempts
                        /\ row'[i].generation = row'[i].attempts + 1
                        /\ claims'[i] <= MaxAttempts
      BY DEF EveryClaimIsCounted
    <2>1. /\ claims[i] = row[i].attempts /\ row[i].generation = row[i].attempts + 1
          /\ claims[i] <= MaxAttempts /\ row[i].attempts \in Nat
      BY DEF Inv, EveryClaimIsCounted, TypeOK, Row
    <2>2. CASE i \in holds[s]
      BY <1>1, <1>2, <2>1, <2>2, DispatchAssumption
    <2>3. CASE i \notin holds[s]
      BY <1>1, <2>1, <2>3
    <2>4. QED
      BY <2>2, <2>3
  <1>5. DeadLetterMeansExhausted'
    <2> SUFFICES ASSUME NEW i \in Intents, row'[i].status = "dead_letter"
                 PROVE  row'[i].attempts = MaxAttempts
      BY DEF DeadLetterMeansExhausted
    <2>1. /\ row[i].attempts <= MaxAttempts /\ row[i].attempts \in Nat
          /\ row[i].status = "dead_letter" => row[i].attempts = MaxAttempts
      BY DEF Inv, EveryClaimIsCounted, TypeOK, Row, DeadLetterMeansExhausted
    <2>2. QED
      BY <1>1, <1>2, <2>1, DispatchAssumption
  <1>6. AbsentIsInitial'
    BY <1>1, <1>2 DEF Inv, AbsentIsInitial, NewRow
  <1>7. ScanDecidesOnCurrentRow'
    <2> SUFFICES ASSUME NEW t \in Scanners, NEW i \in holds'[t]
                 PROVE  /\ row'[i].status = "pending" \/ Stranded(i)'
                        /\ staged'[i] \in {Reset(row'[i]), Claim(row'[i]), Claim(Reset(row'[i]))}
      BY DEF ScanDecidesOnCurrentRow, Stranded, Reset, Claim
    <2>1. t # s /\ i \in holds[t] /\ i \in Intents
      BY <1>1 DEF Inv, TypeOK
    <2>2. i \notin holds[s]
      BY <2>1 DEF Inv, ScansAreDisjoint
    <2>3. row'[i] = row[i] /\ staged'[i] = staged[i]
      BY <1>1, <2>1, <2>2
    <2>4. QED
      BY <1>1, <2>1, <2>2, <2>3 DEF Inv, ScanDecidesOnCurrentRow, Stranded
  <1>8. ScansAreDisjoint'
    BY <1>1 DEF Inv, TypeOK, ScansAreDisjoint
  <1>9. SeenIsBehind'
    <2> SUFFICES ASSUME NEW j \in Jobs, job[j] = "read"
                 PROVE  /\ seen[j].status \in {"pending", "dispatching"}
                        /\ seen[j].generation = seen[j].attempts + 1
                        /\ seen[j].generation <= row'[j[1]].generation
                        /\ seen[j].status = "pending"
                             /\ seen[j].generation = row'[j[1]].generation
                             => row'[j[1]].status # "dispatching"
      BY <1>1 DEF SeenIsBehind
    <2>1. /\ seen[j].status \in {"pending", "dispatching"}
          /\ seen[j].generation = seen[j].attempts + 1
          /\ seen[j].generation <= row[j[1]].generation
          /\ seen[j].status = "pending" /\ seen[j].generation = row[j[1]].generation
               => row[j[1]].status # "dispatching"
      BY DEF Inv, SeenIsBehind
    <2>2. /\ seen[j].generation \in Nat /\ row[j[1]].generation \in Nat
          /\ j[1] \in Intents
      BY JobIntent DEF Inv, TypeOK, Row
    <2>3. CASE j[1] \in holds[s]
      BY <1>1, <1>2, <2>1, <2>2, <2>3
    <2>4. CASE j[1] \notin holds[s]
      BY <1>1, <2>1, <2>2, <2>4
    <2>5. QED
      BY <2>3, <2>4
  <1>10. QED
    BY <1>3, <1>4, <1>5, <1>6, <1>7, <1>8, <1>9 DEF Inv

(* A scan is rolled back                                                    *)
LEMMA ScanAbortStep ==
  ASSUME Inv, NEW s \in Scanners, ScanAbort(s)
  PROVE  Inv'
  <1>1. TypeOK'
    BY DEF ScanAbort, Inv, TypeOK
  <1>2. EveryClaimIsCounted' /\ DeadLetterMeansExhausted' /\ AbsentIsInitial' /\ SeenIsBehind'
    BY DEF ScanAbort, Inv, EveryClaimIsCounted, DeadLetterMeansExhausted,
           AbsentIsInitial, SeenIsBehind
  <1>3. \A t \in Scanners : holds'[t] \subseteq holds[t]
    BY DEF ScanAbort, Inv, TypeOK
  <1>4. ScanDecidesOnCurrentRow'
    BY <1>3 DEF ScanAbort, Inv, ScanDecidesOnCurrentRow, Stranded, Reset, Claim
  <1>5. ScansAreDisjoint'
    BY <1>3 DEF Inv, ScansAreDisjoint
  <1>6. QED
    BY <1>1, <1>2, <1>4, <1>5 DEF Inv

(* A job reads its intent                                                   *)
LEMMA JobReadStep ==
  ASSUME Inv, NEW j \in Jobs, JobRead(j)
  PROVE  Inv'
  <1>1. UNCHANGED <<row, lapsed, holds, staged, claims>>
    BY DEF JobRead
  <1>2. row[j[1]] \in Row
    BY JobIntent DEF Inv, TypeOK
  <1>3. TypeOK'
    BY <1>2 DEF JobRead, Inv, TypeOK
  <1>4. EveryClaimIsCounted' /\ DeadLetterMeansExhausted' /\ AbsentIsInitial'
    BY <1>1 DEF Inv, EveryClaimIsCounted, DeadLetterMeansExhausted, AbsentIsInitial
  <1>5. ScanDecidesOnCurrentRow' /\ ScansAreDisjoint'
    BY <1>1 DEF Inv, ScanDecidesOnCurrentRow, Stranded, ScansAreDisjoint, Reset, Claim
  <1>6. SeenIsBehind'
    <2> SUFFICES ASSUME NEW k \in Jobs, job'[k] = "read"
                 PROVE  /\ seen'[k].status \in {"pending", "dispatching"}
                        /\ seen'[k].generation = seen'[k].attempts + 1
                        /\ seen'[k].generation <= row[k[1]].generation
                        /\ seen'[k].status = "pending"
                             /\ seen'[k].generation = row[k[1]].generation
                             => row[k[1]].status # "dispatching"
      BY <1>1 DEF SeenIsBehind
    <2>1. CASE k = j
      <3>1. seen'[k] = row[k[1]] /\ row[k[1]].status \in {"pending", "dispatching"}
        BY <2>1 DEF JobRead, Inv, TypeOK
      <3>2. row[k[1]].generation = row[k[1]].attempts + 1 /\ row[k[1]].generation \in Nat
        BY <1>2, <2>1, JobIntent DEF Inv, EveryClaimIsCounted, Row
      <3>3. QED
        BY <3>1, <3>2
    <2>2. CASE k # j
      BY <2>2 DEF JobRead, Inv, TypeOK, SeenIsBehind
    <2>3. QED
      BY <2>1, <2>2
  <1>7. QED
    BY <1>3, <1>4, <1>5, <1>6 DEF Inv

(* What a job writes when its compare-and-set matches *)
LEMMA ConfirmedRow ==
  ASSUME Inv, NEW j \in Jobs, JobWrite(j), CasMatches(j[1], seen[j])
  PROVE  LET old == row[j[1]]
             new == Confirmed(seen[j])
         IN /\ new \in Row /\ old \in Row
            /\ old.attempts = seen[j].attempts /\ old.generation = seen[j].generation
            /\ \/ /\ seen[j].status = "dispatching" /\ new.status = "confirmed"
                  /\ new.generation = old.generation /\ new.attempts = old.attempts
               \/ /\ seen[j].status = "pending" /\ Claim(seen[j]).status # "dispatching"
                  /\ old.status # "dispatching"
                  /\ new.status = "dead_letter" /\ old.attempts >= MaxAttempts
                  /\ new.generation = old.generation /\ new.attempts = old.attempts
               \/ /\ seen[j].status = "pending" /\ Claim(seen[j]).status = "dispatching"
                  /\ old.status # "dispatching"
                  /\ new.status = "confirmed" /\ old.attempts < MaxAttempts
                  /\ new.generation = old.generation + 1
                  /\ new.attempts = old.attempts + 1
  <1>1. /\ seen[j] \in Row /\ row[j[1]] \in Row /\ j[1] \in Intents
        /\ job[j] = "read" /\ row[j[1]].generation = seen[j].generation
    BY JobIntent DEF Inv, TypeOK, JobWrite, CasMatches
  <1>2. /\ seen[j].status \in {"pending", "dispatching"}
        /\ seen[j].generation = seen[j].attempts + 1
        /\ seen[j].status = "pending" => row[j[1]].status # "dispatching"
    BY <1>1 DEF Inv, SeenIsBehind
  <1>3. row[j[1]].attempts = seen[j].attempts
    BY <1>1, <1>2 DEF Inv, EveryClaimIsCounted, Row
  <1>4. Claim(seen[j]) \in Row
    BY <1>1, Commands
  <1>5. CASE seen[j].status = "dispatching"
    BY <1>1, <1>3, <1>5, Commands DEF Confirmed
  <1>6. CASE seen[j].status = "pending" /\ Claim(seen[j]).status # "dispatching"
    <2>1. Confirmed(seen[j]) = Claim(seen[j])
      BY <1>6 DEF Confirmed
    <2>2. QED
      BY <1>1, <1>2, <1>3, <1>4, <1>6, <2>1, Commands
  <1>7. CASE seen[j].status = "pending" /\ Claim(seen[j]).status = "dispatching"
    <2>1. Confirmed(seen[j]) = Confirm(Claim(seen[j]))
      BY <1>7 DEF Confirmed
    <2>2. /\ Claim(seen[j]).generation = seen[j].generation + 1
          /\ Claim(seen[j]).attempts = seen[j].attempts + 1
          /\ seen[j].attempts < MaxAttempts
      BY <1>1, <1>7, Commands
    <2>3. /\ Confirm(Claim(seen[j])) \in Row
          /\ Confirm(Claim(seen[j])).status = "confirmed"
          /\ Confirm(Claim(seen[j])).generation = Claim(seen[j]).generation
          /\ Confirm(Claim(seen[j])).attempts = Claim(seen[j]).attempts
      BY <1>4, Commands
    <2>4. QED
      BY <1>1, <1>2, <1>3, <1>7, <2>1, <2>2, <2>3
  <1>8. QED
    BY <1>2, <1>5, <1>6, <1>7

(* A job writes under its compare-and-set                                   *)
LEMMA JobWriteStep ==
  ASSUME Inv, NEW j \in Jobs, JobWrite(j)
  PROVE  Inv'
  <1> DEFINE i == j[1]
             new == Confirmed(seen[j])
  <1>1. /\ i \in Intents /\ ~Locked(i)
        /\ UNCHANGED <<holds, staged, seen>>
        /\ job' \in [Jobs -> {"free", "queued", "read"}]
        /\ \A k \in Jobs : job'[k] = "read" => job[k] = "read"
    BY JobIntent DEF JobWrite, Inv, TypeOK
  <1>2. CASE ~CasMatches(i, seen[j])
    <2>1. UNCHANGED <<row, claims, lapsed>>
      BY <1>2 DEF JobWrite
    <2>2. TypeOK'
      BY <1>1, <2>1 DEF Inv, TypeOK
    <2>3. EveryClaimIsCounted' /\ DeadLetterMeansExhausted' /\ AbsentIsInitial'
      BY <2>1 DEF Inv, EveryClaimIsCounted, DeadLetterMeansExhausted, AbsentIsInitial
    <2>4. ScanDecidesOnCurrentRow' /\ ScansAreDisjoint'
      BY <1>1, <2>1 DEF Inv, ScanDecidesOnCurrentRow, Stranded, ScansAreDisjoint, Reset, Claim
    <2>5. SeenIsBehind'
      BY <1>1, <2>1 DEF Inv, SeenIsBehind
    <2>6. QED
      BY <2>2, <2>3, <2>4, <2>5 DEF Inv
  <1>3. CASE CasMatches(i, seen[j])
    <2>1. /\ new \in Row /\ row[i] \in Row
          /\ \/ /\ seen[j].status = "dispatching" /\ new.status = "confirmed"
                /\ new.generation = row[i].generation /\ new.attempts = row[i].attempts
             \/ /\ seen[j].status = "pending" /\ Claim(seen[j]).status # "dispatching"
                /\ new.status = "dead_letter" /\ row[i].attempts >= MaxAttempts
                /\ new.generation = row[i].generation /\ new.attempts = row[i].attempts
             \/ /\ seen[j].status = "pending" /\ Claim(seen[j]).status = "dispatching"
                /\ new.status = "confirmed" /\ row[i].attempts < MaxAttempts
                /\ new.generation = row[i].generation + 1
                /\ new.attempts = row[i].attempts + 1
      BY <1>3, ConfirmedRow
    <2>2. /\ row' = [row EXCEPT ![i] = new]
          /\ claims' = [claims EXCEPT ![i] = @ +
               IF seen[j].status = "pending" /\ Claim(seen[j]).status = "dispatching"
                 THEN 1 ELSE 0]
          /\ lapsed' = lapsed \ {i}
      BY <1>3 DEF JobWrite, EndLease
    <2> HIDE DEF i, new
    <2>3. TypeOK'
      <3>1. row' \in [Intents -> Row] /\ claims' \in [Intents -> Nat]
        BY <1>1, <2>1, <2>2 DEF Inv, TypeOK
      <3>2. lapsed' \in SUBSET {k \in Intents : row'[k].status = "dispatching"}
        BY <1>1, <2>2 DEF Inv, TypeOK
      <3>3. QED
        BY <1>1, <3>1, <3>2 DEF Inv, TypeOK
    <2>4. row'[i] = new /\ \A k \in Intents : k # i => row'[k] = row[k] /\ claims'[k] = claims[k]
      BY <1>1, <2>2 DEF Inv, TypeOK
    <2>5. EveryClaimIsCounted'
      <3>1. /\ claims[i] = row[i].attempts /\ row[i].generation = row[i].attempts + 1
            /\ claims[i] <= MaxAttempts /\ row[i].attempts \in Nat
        BY <1>1, <2>1 DEF Inv, EveryClaimIsCounted, Row
      <3>2. claims'[i] = new.attempts /\ new.generation = new.attempts + 1
            /\ claims'[i] <= MaxAttempts
        BY <1>1, <2>1, <2>2, <3>1, DispatchAssumption DEF Inv, TypeOK
      <3>3. QED
        BY <2>4, <3>2 DEF Inv, EveryClaimIsCounted
    <2>6. DeadLetterMeansExhausted'
      <3>1. row[i].attempts <= MaxAttempts /\ row[i].attempts \in Nat
        BY <1>1, <2>1 DEF Inv, EveryClaimIsCounted, Row
      <3>2. new.status = "dead_letter" => new.attempts = MaxAttempts
        BY <2>1, <3>1, DispatchAssumption
      <3>3. QED
        BY <2>4, <3>2 DEF Inv, DeadLetterMeansExhausted
    <2>7. AbsentIsInitial'
      BY <2>1, <2>4 DEF Inv, AbsentIsInitial
    <2>8. ScanDecidesOnCurrentRow'
      <3> SUFFICES ASSUME NEW t \in Scanners, NEW k \in holds[t]
                   PROVE  /\ row'[k].status = "pending" \/ Stranded(k)'
                          /\ staged[k] \in {Reset(row'[k]), Claim(row'[k]), Claim(Reset(row'[k]))}
        BY <1>1 DEF ScanDecidesOnCurrentRow, Stranded, Reset, Claim
      <3>1. k # i /\ k \in Intents
        BY <1>1 DEF Locked, Inv, TypeOK
      <3>2. row'[k] = row[k]
        BY <2>4, <3>1
      <3>3. QED
        BY <2>2, <3>1, <3>2 DEF Inv, ScanDecidesOnCurrentRow, Stranded
    <2>9. ScansAreDisjoint'
      BY <1>1 DEF Inv, ScansAreDisjoint
    <2>10. SeenIsBehind'
      <3> SUFFICES ASSUME NEW k \in Jobs, job[k] = "read"
                   PROVE  /\ seen[k].status \in {"pending", "dispatching"}
                          /\ seen[k].generation = seen[k].attempts + 1
                          /\ seen[k].generation <= row'[k[1]].generation
                          /\ seen[k].status = "pending"
                               /\ seen[k].generation = row'[k[1]].generation
                               => row'[k[1]].status # "dispatching"
        BY <1>1 DEF SeenIsBehind
      <3>1. /\ seen[k].status \in {"pending", "dispatching"}
            /\ seen[k].generation = seen[k].attempts + 1
            /\ seen[k].generation <= row[k[1]].generation
            /\ seen[k].status = "pending" /\ seen[k].generation = row[k[1]].generation
                 => row[k[1]].status # "dispatching"
        BY DEF Inv, SeenIsBehind
      <3>2. seen[k].generation \in Nat /\ row[k[1]].generation \in Nat /\ k[1] \in Intents
        BY JobIntent DEF Inv, TypeOK, Row
      <3>3. CASE k[1] = i
        BY <2>1, <2>4, <3>1, <3>2, <3>3
      <3>4. CASE k[1] # i
        BY <2>4, <3>1, <3>2, <3>4
      <3>5. QED
        BY <3>3, <3>4
    <2>11. QED
      BY <2>3, <2>5, <2>6, <2>7, <2>8, <2>9, <2>10 DEF Inv
  <1>4. QED
    BY <1>2, <1>3

(* The steps that change nothing but the job, or only end a lease *)
LEMMA QuietSteps ==
  ASSUME Inv,
         \/ \E j \in Jobs : JobRetry(j) \/ JobLost(j)
         \/ \E i \in Intents : Lapse(i)
         \/ UNCHANGED vars
  PROVE  Inv'
  <1>1. UNCHANGED <<row, holds, staged, seen, claims>>
    BY DEF JobRetry, JobLost, Lapse, vars
  <1>2. /\ job' \in [Jobs -> {"free", "queued", "read"}]
        /\ \A k \in Jobs : job'[k] = "read" => job[k] = "read"
    BY DEF JobRetry, JobLost, Lapse, vars, Inv, TypeOK
  <1>3. /\ lapsed' \in SUBSET {i \in Intents : row[i].status = "dispatching"}
        /\ lapsed \subseteq lapsed'
    BY DEF JobRetry, JobLost, Lapse, vars, Inv, TypeOK
  <1>4. TypeOK'
    BY <1>1, <1>2, <1>3 DEF Inv, TypeOK
  <1>5. EveryClaimIsCounted' /\ DeadLetterMeansExhausted' /\ AbsentIsInitial'
    BY <1>1 DEF Inv, EveryClaimIsCounted, DeadLetterMeansExhausted, AbsentIsInitial
  <1>6. ScanDecidesOnCurrentRow' /\ ScansAreDisjoint'
    BY <1>1, <1>3 DEF Inv, ScanDecidesOnCurrentRow, Stranded, ScansAreDisjoint, Reset, Claim
  <1>7. SeenIsBehind'
    BY <1>1, <1>2 DEF Inv, SeenIsBehind
  <1>8. QED
    BY <1>4, <1>5, <1>6, <1>7 DEF Inv

(* Every step preserves the invariant                                       *)
LEMMA NextInv == Inv /\ [Next]_vars => Inv'
  <1> SUFFICES ASSUME Inv, [Next]_vars PROVE Inv'
    OBVIOUS
  <1>1. ASSUME NEW i \in Intents, Insert(i) PROVE Inv'
    BY <1>1, InsertStep
  <1>2. ASSUME NEW s \in Scanners, Scan(s) PROVE Inv'
    BY <1>2, ScanStep
  <1>3. ASSUME NEW s \in Scanners, ScanCommit(s) PROVE Inv'
    BY <1>3, ScanCommitStep
  <1>4. ASSUME NEW s \in Scanners, ScanAbort(s) PROVE Inv'
    BY <1>4, ScanAbortStep
  <1>5. ASSUME NEW j \in Jobs, JobRead(j) PROVE Inv'
    BY <1>5, JobReadStep
  <1>6. ASSUME NEW j \in Jobs, JobWrite(j) PROVE Inv'
    BY <1>6, JobWriteStep
  <1>7. QED
    BY <1>1, <1>2, <1>3, <1>4, <1>5, <1>6, QuietSteps DEF Next

--------------------------------------------------------------------------------
(* Theorems *)

(* The inductive invariant holds in every reachable state                   *)
THEOREM InvAlways == Spec => []Inv
  BY InitInv, NextInv, PTL DEF Spec

(* The claims of any number of overlapping scans and late jobs are counted   *)
(* and fenced, and there are never more than max_dispatch_attempts.          *)
THEOREM ClaimsAreCounted == Spec => []EveryClaimIsCounted
  <1>1. Inv => EveryClaimIsCounted
    BY DEF Inv
  <1>2. QED
    BY <1>1, InvAlways, PTL

(* Rows are well typed and only a dispatching intent has a lapsed lease. *)
THEOREM TypeCorrect == Spec => []TypeOK
  <1>1. Inv => TypeOK
    BY DEF Inv
  <1>2. QED
    BY <1>1, InvAlways, PTL

(* An intent is dead-lettered only when its attempts are used up. *)
THEOREM DeadLetters == Spec => []DeadLetterMeansExhausted
  <1>1. Inv => DeadLetterMeansExhausted
    BY DEF Inv
  <1>2. QED
    BY <1>1, InvAlways, PTL

(* What a scan commits follows from the row that is still in the table, and  *)
(* no two scans work on the same row.                                        *)
THEOREM ScanIsolation == Spec => [](ScanDecidesOnCurrentRow /\ ScansAreDisjoint)
  <1>1. Inv => ScanDecidesOnCurrentRow /\ ScansAreDisjoint
    BY DEF Inv
  <1>2. QED
    BY <1>1, InvAlways, PTL

(* One step never takes an intent from a holder whose lease did not end. *)
LEMMA LeaseStep ==
  ASSUME Inv, [Next]_vars, NEW i \in Intents,
         row[i].status = "dispatching", row'[i] # row[i], i \notin lapsed
  PROVE  row'[i] = Confirm(row[i])
  <1>1. ASSUME NEW k \in Intents, Insert(k) PROVE FALSE
    BY <1>1 DEF Insert, Inv, TypeOK
  <1>2. ASSUME NEW s \in Scanners, ScanCommit(s) PROVE FALSE
    <2>1. i \notin holds[s]
      BY DEF Inv, ScanDecidesOnCurrentRow, Stranded
    <2>2. QED
      BY <1>2, <2>1 DEF ScanCommit
  <1>3. ASSUME NEW j \in Jobs, JobWrite(j) PROVE row'[i] = Confirm(row[i])
    <2>1. CasMatches(j[1], seen[j]) /\ j[1] = i /\ row'[i] = Confirmed(seen[j])
      BY <1>3, JobIntent DEF JobWrite, Inv, TypeOK
    <2>2. seen[j].status = "dispatching"
      BY <1>3, <2>1, ConfirmedRow
    <2>3. row[i].attempts = seen[j].attempts /\ row[i].generation = seen[j].generation
      BY <1>3, <2>1, ConfirmedRow
    <2>4. seen[j] \in Row /\ row[i] \in Row
      BY DEF Inv, TypeOK
    <2>5. seen[j] = row[i]
      BY <2>2, <2>3, <2>4 DEF Row
    <2>6. QED
      BY <2>1, <2>2, <2>5 DEF Confirmed
  <1>4. ASSUME \/ \E s \in Scanners : Scan(s) \/ ScanAbort(s)
               \/ \E j \in Jobs : JobRead(j) \/ JobRetry(j) \/ JobLost(j)
               \/ \E k \in Intents : Lapse(k)
               \/ UNCHANGED vars
        PROVE  FALSE
    BY <1>4 DEF Scan, ScanWith, ScanAbort, JobRead, JobRetry, JobLost, Lapse, vars
  <1>5. QED
    BY <1>1, <1>2, <1>3, <1>4 DEF Next

(* No claim is taken from its holder before its lease has ended             *)
THEOREM LeasesHold == Spec => LeaseIsRespected
  <1>1. Inv /\ [Next]_vars =>
          [\A i \in Intents :
             row[i].status = "dispatching" /\ row'[i] # row[i] =>
               i \in lapsed \/ row'[i] = Confirm(row[i])]_vars
    BY LeaseStep
  <1>2. QED
    BY <1>1, InvAlways, PTL DEF Spec, LeaseIsRespected

--------------------------------------------------------------------------------
(* Refinement of DurableQueue *)

(* Whoever has a claim has claimed the intent, and reads rows that exist.    *)
ClaimsWereMade ==
  /\ \A i \in Intents : row[i].status = "dispatching" => row[i].attempts > 0
  /\ \A j \in Jobs : job[j] = "read" =>
       /\ row[j[1]].status # "absent"
       /\ seen[j].status = "dispatching" => seen[j].attempts > 0

(* A step that commits no row, and one that commits some: what becomes of    *)
(* the rows is all that ClaimsWereMade depends on.                           *)
LEMMA RowsMove ==
  ASSUME Inv, ClaimsWereMade,
         \A i \in Intents :
           \/ row'[i] = row[i]
           \/ /\ row'[i].status # "absent"
              /\ row'[i].status = "dispatching" => row'[i].attempts > 0,
         \A j \in Jobs : job'[j] = "read" => job[j] = "read" /\ seen'[j] = seen[j]
  PROVE  ClaimsWereMade'
  <1>1. \A i \in Intents : row'[i].status = "dispatching" => row'[i].attempts > 0
    BY DEF ClaimsWereMade
  <1>2. \A j \in Jobs : job'[j] = "read" =>
          /\ row'[j[1]].status # "absent"
          /\ seen'[j].status = "dispatching" => seen'[j].attempts > 0
    BY JobIntent DEF ClaimsWereMade
  <1>3. QED
    BY <1>1, <1>2 DEF ClaimsWereMade

(* What a scan commits for a row is a claim, a return or a dead letter.      *)
LEMMA ScanCommitsMoves ==
  ASSUME Inv, ClaimsWereMade, NEW s \in Scanners, ScanCommit(s)
  PROVE  Queue!Next /\ ClaimsWereMade'
  <1> DEFINE state == [i \in Intents |-> row[i].status]
  <1>1. /\ \A i \in Intents : row'[i] = IF i \in holds[s] THEN staged[i] ELSE row[i]
        /\ \A i \in Intents : claims'[i] =
             IF i \in holds[s] /\ staged[i].status = "dispatching"
               THEN claims[i] + 1 ELSE claims[i]
        /\ lapsed' = lapsed \ holds[s]
        /\ UNCHANGED <<job, seen>>
    BY DEF ScanCommit, EndLease
  <1>2. Inv'
    BY ScanCommitStep
  <1>3. /\ state' \in [Intents -> Queue!States] /\ claims' \in [Intents -> Nat]
        /\ lapsed' \in SUBSET Intents
    BY <1>2 DEF Inv, TypeOK, Row, Statuses, Queue!States
  <1>4. ASSUME NEW i \in Intents, i \in holds[s]
        PROVE  /\ Queue!Claim(i) \/ Queue!TakeBack(i) \/ Queue!GiveUp(i) \/ Queue!Stay(i)
               /\ i \notin lapsed'
               /\ row'[i].status # "absent"
               /\ row'[i].status = "dispatching" => row'[i].attempts > 0
    <2>1. /\ row[i].status = "pending" \/ (row[i].status = "dispatching" /\ i \in lapsed)
          /\ claims[i] = row[i].attempts /\ claims[i] <= MaxAttempts
      BY <1>4 DEF Inv, ScanDecidesOnCurrentRow, Stranded, EveryClaimIsCounted
    <2>2. row[i] \in Row /\ staged[i] \in Row
      BY DEF Inv, TypeOK
    <2>3. /\ state[i] = row[i].status /\ state'[i] = staged[i].status
          /\ row'[i] = staged[i]
      BY <1>1, <1>4
    <2>4. Queue!Free(i)
      BY <2>1, <2>3 DEF Queue!Free, Queue!Lapsed
    <2>5. CASE staged[i].status = "pending"
      <3>1. claims'[i] = claims[i]
        BY <1>1, <2>5
      <3>2. row[i].status = "pending" => Queue!Stay(i)
        BY <2>3, <2>5, <3>1 DEF Queue!Stay, Queue!Becomes
      <3>3. row[i].status = "dispatching" /\ i \in lapsed => Queue!TakeBack(i)
        BY <2>3, <2>5, <3>1 DEF Queue!TakeBack, Queue!Lapsed, Queue!Becomes
      <3>4. QED
        BY <1>1, <1>4, <2>1, <2>3, <2>5, <3>2, <3>3
    <2>6. CASE staged[i].status = "dead_letter" /\ row[i].attempts >= MaxAttempts
      <3>1. claims'[i] = claims[i] /\ claims[i] = MaxAttempts
        BY <1>1, <2>1, <2>2, <2>6, DispatchAssumption DEF Row
      <3>2. Queue!GiveUp(i)
        BY <2>3, <2>4, <2>6, <3>1 DEF Queue!GiveUp, Queue!Becomes
      <3>3. QED
        BY <1>1, <1>4, <2>3, <2>6, <3>2
    <2>7. CASE /\ staged[i].status = "dispatching" /\ row[i].attempts < MaxAttempts
               /\ staged[i].attempts = row[i].attempts + 1
      <3>1. claims'[i] = claims[i] + 1 /\ claims[i] < MaxAttempts
        BY <1>1, <1>4, <2>1, <2>7
      <3>2. Queue!Claim(i)
        BY <2>3, <2>4, <2>7, <3>1 DEF Queue!Claim, Queue!Becomes
      <3>3. staged[i].attempts > 0
        BY <2>2, <2>7 DEF Row
      <3>4. QED
        BY <1>1, <1>4, <2>3, <2>7, <3>2, <3>3
    <2>8. QED
      BY <1>4, <2>5, <2>6, <2>7, StagedRow
  <1>5. ASSUME NEW i \in Intents, i \notin holds[s]
        PROVE  Queue!Stay(i) /\ row'[i] = row[i]
    BY <1>1, <1>5 DEF Queue!Stay, Queue!Becomes
  <1>6. ASSUME NEW i \in Intents PROVE Queue!Leases(i)
    <2>1. i \in lapsed' => i \in lapsed /\ i \notin holds[s]
      BY <1>1
    <2>2. i \in lapsed => row[i].status = "dispatching"
      BY DEF Inv, TypeOK
    <2>3. QED
      BY <1>1, <2>1, <2>2 DEF Queue!Leases
  <1>7. Queue!Next
    BY <1>3, <1>4, <1>5, <1>6 DEF Queue!Next
  <1>8. ClaimsWereMade'
    BY <1>1, <1>4, <1>5, RowsMove
  <1>9. QED
    BY <1>7, <1>8

(* What a job writes is a delivery, by a claim that was made before or is     *)
(* made with it, or a dead letter.                                           *)
LEMMA JobWritesMove ==
  ASSUME Inv, ClaimsWereMade, NEW j \in Jobs, JobWrite(j), CasMatches(j[1], seen[j])
  PROVE  Queue!Next /\ ClaimsWereMade'
  <1> DEFINE i == j[1]
             new == Confirmed(seen[j])
             state == [k \in Intents |-> row[k].status]
  <1>1. i \in Intents /\ job[j] = "read"
    BY JobIntent DEF JobWrite
  <1>2. /\ new \in Row /\ row[i] \in Row
        /\ row[i].attempts = seen[j].attempts
        /\ \/ /\ seen[j].status = "dispatching" /\ new.status = "confirmed"
              /\ new.attempts = row[i].attempts
           \/ /\ seen[j].status = "pending" /\ Claim(seen[j]).status # "dispatching"
              /\ row[i].status # "dispatching"
              /\ new.status = "dead_letter" /\ row[i].attempts >= MaxAttempts
              /\ new.attempts = row[i].attempts
           \/ /\ seen[j].status = "pending" /\ Claim(seen[j]).status = "dispatching"
              /\ row[i].status # "dispatching"
              /\ new.status = "confirmed" /\ row[i].attempts < MaxAttempts
              /\ new.attempts = row[i].attempts + 1
    BY ConfirmedRow
  <1>3. /\ row' = [row EXCEPT ![i] = new]
        /\ claims' = [claims EXCEPT ![i] = @ +
             IF seen[j].status = "pending" /\ Claim(seen[j]).status = "dispatching"
               THEN 1 ELSE 0]
        /\ lapsed' = lapsed \ {i}
        /\ \A k \in Jobs : job'[k] = "read" => job[k] = "read" /\ seen'[k] = seen[k]
    BY DEF JobWrite, EndLease, Inv, TypeOK
  <1>4. /\ row[i].status # "absent"
        /\ seen[j].status = "dispatching" => seen[j].attempts > 0
    BY <1>1 DEF ClaimsWereMade
  <1> HIDE DEF i, new
  <1>5. /\ row'[i] = new
        /\ claims'[i] = claims[i] +
             IF seen[j].status = "pending" /\ Claim(seen[j]).status = "dispatching"
               THEN 1 ELSE 0
        /\ \A k \in Intents : k # i => row'[k] = row[k] /\ claims'[k] = claims[k]
    BY <1>1, <1>3 DEF Inv, TypeOK
  <1>6. /\ state[i] = row[i].status /\ state'[i] = new.status
        /\ claims[i] = row[i].attempts /\ claims[i] <= MaxAttempts /\ claims[i] \in Nat
    BY <1>1, <1>5 DEF Inv, TypeOK, EveryClaimIsCounted
  <1>7. row[i].status \in {"pending", "dispatching", "confirmed", "dead_letter"}
    BY <1>2, <1>4 DEF Row, Statuses
  <1>8. Queue!GiveUp(i) \/ Queue!Deliver(i)
    <2>1. CASE seen[j].status = "dispatching" /\ new.status = "confirmed"
      <3>1. claims'[i] = claims[i] /\ claims[i] > 0
        BY <1>2, <1>4, <1>5, <1>6, <2>1
      <3>2. QED
        BY <1>4, <1>6, <2>1, <3>1 DEF Queue!Deliver, Queue!Becomes
    <2>2. CASE /\ seen[j].status = "pending" /\ Claim(seen[j]).status # "dispatching"
               /\ row[i].status # "dispatching"
               /\ new.status = "dead_letter" /\ row[i].attempts >= MaxAttempts
      <3>1. claims'[i] = claims[i] /\ claims[i] = MaxAttempts
        BY <1>5, <1>6, <2>2, DispatchAssumption
      <3>2. QED
        BY <1>6, <1>7, <2>2, <3>1
           DEF Queue!GiveUp, Queue!Becomes, Queue!Free, Queue!Settled
    <2>3. CASE /\ seen[j].status = "pending" /\ Claim(seen[j]).status = "dispatching"
               /\ row[i].status # "dispatching"
               /\ new.status = "confirmed" /\ row[i].attempts < MaxAttempts
      <3>1. claims'[i] = claims[i] + 1 /\ claims[i] < MaxAttempts
        BY <1>5, <1>6, <2>3
      <3>2. QED
        BY <1>6, <1>7, <2>3, <3>1 DEF Queue!Deliver, Queue!Becomes, Queue!Settled
    <2>4. QED
      BY <1>2, <2>1, <2>2, <2>3
  <1>9. \A k \in Intents : k # i => Queue!Stay(k)
    BY <1>5 DEF Queue!Stay, Queue!Becomes
  <1>10. ASSUME NEW k \in Intents PROVE Queue!Leases(k)
    <2>1. k \in lapsed' => k \in lapsed /\ k # i
      BY <1>3
    <2>2. k \in lapsed => row[k].status = "dispatching"
      BY DEF Inv, TypeOK
    <2>3. QED
      BY <1>5, <2>1, <2>2 DEF Queue!Leases
  <1>11. Inv'
    BY JobWriteStep
  <1>12. /\ state' \in [Intents -> Queue!States] /\ claims' \in [Intents -> Nat]
         /\ lapsed' \in SUBSET Intents
    BY <1>11 DEF Inv, TypeOK, Row, Statuses, Queue!States
  <1>13. Queue!Next
    BY <1>8, <1>9, <1>10, <1>12 DEF Queue!Next
  <1>14. ClaimsWereMade'
    <2>1. new.status \in {"confirmed", "dead_letter"}
      BY <1>2
    <2>2. \A k \in Intents :
            \/ row'[k] = row[k]
            \/ /\ row'[k].status # "absent"
               /\ row'[k].status = "dispatching" => row'[k].attempts > 0
      BY <1>5, <2>1
    <2>3. QED
      BY <1>3, <2>2, RowsMove
  <1>15. QED
    BY <1>13, <1>14

(* An inserted intent is an item added to the queue.                         *)
LEMMA InsertAdds ==
  ASSUME Inv, ClaimsWereMade, NEW i \in Intents, Insert(i)
  PROVE  Queue!Next /\ ClaimsWereMade'
  <1> DEFINE state == [k \in Intents |-> row[k].status]
  <1>1. /\ row[i].status = "absent" /\ row'[i] = NewRow("pending")
        /\ \A k \in Intents : k # i => row'[k] = row[k]
        /\ UNCHANGED <<claims, lapsed, job, seen>>
    BY DEF Insert, Inv, TypeOK
  <1>2. row'[i].status = "pending"
    BY <1>1 DEF NewRow
  <1>3. Queue!Add(i)
    BY <1>1, <1>2 DEF Queue!Add, Queue!Becomes
  <1>4. \A k \in Intents : k # i => Queue!Stay(k)
    BY <1>1 DEF Queue!Stay, Queue!Becomes
  <1>5. \A k \in Intents : k \in lapsed => row[k].status = "dispatching"
    BY DEF Inv, TypeOK
  <1>6. \A k \in Intents : Queue!Leases(k)
    BY <1>1, <1>5 DEF Queue!Leases
  <1>7. Inv'
    BY InsertStep
  <1>8. /\ state' \in [Intents -> Queue!States] /\ claims' \in [Intents -> Nat]
        /\ lapsed' \in SUBSET Intents
    BY <1>7 DEF Inv, TypeOK, Row, Statuses, Queue!States
  <1>9. Queue!Next
    BY <1>3, <1>4, <1>6, <1>8 DEF Queue!Next
  <1>10. ClaimsWereMade'
    BY <1>1, <1>2, RowsMove
  <1>11. QED
    BY <1>9, <1>10

(* A lease that ends is one of a claim that stays.                           *)
LEMMA LapseEnds ==
  ASSUME Inv, ClaimsWereMade, NEW i \in Intents, Lapse(i)
  PROVE  Queue!Next /\ ClaimsWereMade'
  <1> DEFINE state == [k \in Intents |-> row[k].status]
  <1>1. /\ row[i].status = "dispatching" /\ lapsed' = lapsed \cup {i}
        /\ UNCHANGED <<row, claims, job, seen>>
    BY DEF Lapse
  <1>2. \A k \in Intents : Queue!Stay(k)
    BY <1>1 DEF Queue!Stay, Queue!Becomes
  <1>3. \A k \in Intents : k \in lapsed' => row[k].status = "dispatching"
    BY <1>1 DEF Inv, TypeOK
  <1>4. \A k \in Intents : Queue!Leases(k)
    BY <1>1, <1>3 DEF Queue!Leases
  <1>5. /\ state' \in [Intents -> Queue!States] /\ claims' \in [Intents -> Nat]
        /\ lapsed' \in SUBSET Intents
    BY <1>1 DEF Inv, TypeOK, Row, Statuses, Queue!States
  <1>6. Queue!Next
    BY <1>2, <1>4, <1>5 DEF Queue!Next
  <1>7. ClaimsWereMade'
    BY <1>1, RowsMove
  <1>8. QED
    BY <1>6, <1>7

(* All other steps leave the queue as it is.                                 *)
LEMMA Unqueued ==
  ASSUME Inv, ClaimsWereMade,
         \/ \E s \in Scanners : Scan(s) \/ ScanAbort(s)
         \/ \E j \in Jobs : \/ JobRead(j) \/ JobRetry(j) \/ JobLost(j)
                            \/ JobWrite(j) /\ ~CasMatches(j[1], seen[j])
         \/ UNCHANGED vars
  PROVE  UNCHANGED Queue!vars /\ ClaimsWereMade'
  <1>1. UNCHANGED <<row, claims, lapsed>>
    BY DEF Scan, ScanWith, ScanAbort, JobRead, JobRetry, JobLost, JobWrite, vars
  <1>2. UNCHANGED Queue!vars
    BY <1>1 DEF Queue!vars
  <1>3. ASSUME NEW j \in Jobs, JobRead(j)
        PROVE  ClaimsWereMade'
    <2>1. \A k \in Jobs : job'[k] = "read" =>
            (job[k] = "read" /\ seen'[k] = seen[k])
            \/ (seen'[k] = row[k[1]] /\ row[k[1]].status \in {"pending", "dispatching"})
      BY <1>3 DEF JobRead, Inv, TypeOK
    <2>2. QED
      BY <1>1, <2>1, JobIntent DEF ClaimsWereMade
  <1>4. ASSUME \/ \E s \in Scanners : Scan(s) \/ ScanAbort(s)
               \/ \E j \in Jobs : \/ JobRetry(j) \/ JobLost(j)
                                  \/ JobWrite(j) /\ ~CasMatches(j[1], seen[j])
               \/ UNCHANGED vars
        PROVE  \A k \in Jobs : job'[k] = "read" => job[k] = "read" /\ seen'[k] = seen[k]
    BY <1>4 DEF Scan, ScanWith, Enqueue, ScanAbort, JobRetry, JobLost, JobWrite, vars,
                Inv, TypeOK
  <1>5. QED
    BY <1>1, <1>2, <1>3, <1>4, RowsMove

(* Whatever scans and jobs meet, die or come late, intents are claimed,      *)
(* delivered and given up as the queue allows, for any number of them.       *)
THEOREM RefinesQueue == Spec => ImplementsQueue
  <1>1. Init => Queue!Init /\ ClaimsWereMade
    <2> SUFFICES ASSUME Init PROVE Queue!Init /\ ClaimsWereMade
      OBVIOUS
    <2>1. \A i \in Intents : row[i].status = "absent"
      BY DEF Init, NewRow
    <2>2. Queue!Init
      BY <2>1 DEF Init, Queue!Init
    <2>3. QED
      BY <2>1, <2>2 DEF Init, ClaimsWereMade
  <1>2. Inv /\ ClaimsWereMade /\ [Next]_vars
          => [Queue!Next]_(Queue!vars) /\ ClaimsWereMade'
    <2> SUFFICES ASSUME Inv, ClaimsWereMade, [Next]_vars
                 PROVE  [Queue!Next]_(Queue!vars) /\ ClaimsWereMade'
      OBVIOUS
    <2>1. ASSUME NEW i \in Intents, Insert(i) \/ Lapse(i)
          PROVE  Queue!Next /\ ClaimsWereMade'
      BY <2>1, InsertAdds, LapseEnds
    <2>2. ASSUME NEW s \in Scanners, ScanCommit(s)
          PROVE  Queue!Next /\ ClaimsWereMade'
      BY <2>2, ScanCommitsMoves
    <2>3. ASSUME NEW j \in Jobs, JobWrite(j)
          PROVE  [Queue!Next]_(Queue!vars) /\ ClaimsWereMade'
      <3>1. CASE CasMatches(j[1], seen[j])
        BY <2>3, <3>1, JobWritesMove
      <3>2. CASE ~CasMatches(j[1], seen[j])
        BY <2>3, <3>2, Unqueued
      <3>3. QED
        BY <3>1, <3>2
    <2>4. ASSUME \/ \E s \in Scanners : Scan(s) \/ ScanAbort(s)
                 \/ \E j \in Jobs : JobRead(j) \/ JobRetry(j) \/ JobLost(j)
                 \/ UNCHANGED vars
          PROVE  UNCHANGED Queue!vars /\ ClaimsWereMade'
      <3>1. \/ \E s \in Scanners : Scan(s) \/ ScanAbort(s)
            \/ \E j \in Jobs : \/ JobRead(j) \/ JobRetry(j) \/ JobLost(j)
                               \/ JobWrite(j) /\ ~CasMatches(j[1], seen[j])
            \/ UNCHANGED vars
        BY <2>4
      <3>2. QED
        BY <3>1, Unqueued
    <2>5. QED
      BY <2>1, <2>2, <2>3, <2>4 DEF Next
  <1>3. QED
    BY <1>1, <1>2, InvAlways, PTL DEF Spec, ImplementsQueue, Queue!Spec
================================================================================
