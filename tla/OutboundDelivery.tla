--------------------------- MODULE OutboundDelivery ---------------------------
(***************************************************************************)
(* Outbound WeChat messages of one user: rows of agent_messages that poll  *)
(* loops (channels/message_handler.py) and the drain worker                *)
(* (workers/tasks/agents_outbound_drain.py) claim and send to the provider.*)
(*                                                                         *)
(* A sender claims all rows that are due, sends them and writes their      *)
(* results in one transaction: the rows stay locked, and nobody sees the   *)
(* claims before it ends.  claim_owner is left out: it is compared only    *)
(* inside that transaction, on rows it has locked, so it always agrees.    *)
(***************************************************************************)
EXTENDS Integers, FiniteSets, Functions

CONSTANTS
  Messages,
  Loops,        \* poll loops, which send after every poll
  Drains,       \* drain workers
  None,         \* no sender, no message
  RlsBypassed,  \* the database role is not subject to row-level security
  MaxCopies     \* bound: copies of messages that the provider takes

ASSUME OutboundAssumption ==
  /\ None \notin Messages \cup Loops \cup Drains
  /\ Loops \cap Drains = {}
  /\ RlsBypassed \in BOOLEAN
  /\ MaxCopies \in Nat

Senders == Loops \cup Drains

VARIABLES
  delivery,  \* committed delivery_status, "null" where there is none
  resting,   \* rows whose claim_until or next_attempt_at is still to come
  holder,    \* the sender whose transaction has locked the row
  draft,     \* the delivery_status of the row in that transaction
  pc,        \* where each sender is
  batch,     \* claimed rows that it has still to send
  current,   \* the row it is sending
  copies,    \* rows the provider took a copy of in its transaction
  stale,     \* rows that a drain has read as too old and not yet written
  accepted,  \* history: copies of the message that the provider took
  lost       \* history: those of them whose result no row has

vars == <<delivery, resting, holder, draft, pc, batch, current, copies, stale,
          accepted, lost>>
rows    == <<delivery, resting>>
tx      == <<holder, draft, batch, current, copies>>
history == <<accepted, lost>>

Open     == {"null", "pending", "retry_wait", "claimed"}
Settled  == {"sent", "failed", "unknown_delivery"}
Statuses == {"absent"} \cup Open \cup Settled

(* Rows with status 'pending': the other column of the pair *)
PendingRows == {m \in Messages : delivery[m] \in {"null", "pending", "retry_wait"}}

Init ==
  /\ delivery = [m \in Messages |-> "absent"]
  /\ resting = {}
  /\ holder = [m \in Messages |-> None]
  /\ draft = delivery
  /\ pc = [s \in Senders |-> "idle"]
  /\ batch = [s \in Senders |-> {}]
  /\ current = [s \in Senders |-> None]
  /\ copies = batch
  /\ stale = [d \in Drains |-> {}]
  /\ accepted = [m \in Messages |-> 0]
  /\ lost = accepted

--------------------------------------------------------------------------------
(* Rows and time *)

Insert(m, status) ==
  /\ delivery[m] = "absent"
  /\ delivery' = [delivery EXCEPT ![m] = status]
  /\ UNCHANGED <<resting, tx, pc, stale, history>>

(* enqueue_outbound_message *)
Enqueue(m) == Insert(m, "pending")

(* The research service inserts its reports without a delivery_status *)
EnqueueReport(m) == Insert(m, "null")

(* claim_until or next_attempt_at passes *)
Due(m) ==
  /\ m \in resting
  /\ resting' = resting \ {m}
  /\ UNCHANGED <<delivery, tx, pc, stale, history>>

--------------------------------------------------------------------------------
(* One transaction of a sender: process_outbound_queue *)

(* Mutant of Claimable: settled rows whose claim has ended are claimed as well *)
ClaimableAny(m) ==
  /\ delivery[m] \notin {"absent", "null"}
  /\ m \notin resting /\ holder[m] = None

(* Mutant of Claimable: rows left behind in claimed are not claimed again *)
ClaimableFresh(m) ==
  /\ delivery[m] \in {"pending", "retry_wait"}
  /\ m \notin resting /\ holder[m] = None

(* Mutant of Claimable: locked rows are not skipped *)
ClaimableLocked(m) ==
  /\ delivery[m] \in {"pending", "retry_wait", "claimed"}
  /\ m \notin resting

(* The WHERE of claim_outbound, with FOR UPDATE SKIP LOCKED *)
Claimable(m) ==
  /\ delivery[m] \in {"pending", "retry_wait", "claimed"}
  /\ m \notin resting /\ holder[m] = None

Candidates == {m \in Messages : Claimable(m)}

(* claim_outbound finds something to send *)
Claim(s) ==
  /\ Candidates # {}
  /\ holder' = [m \in Messages |-> IF m \in Candidates THEN s ELSE holder[m]]
  /\ draft' = [m \in Messages |-> IF m \in Candidates THEN "claimed" ELSE draft[m]]
  /\ batch' = [batch EXCEPT ![s] = Candidates]
  /\ pc' = [pc EXCEPT ![s] = "open"]
  /\ UNCHANGED <<rows, current, copies, stale, history>>

LoopClaims(p) == pc[p] = "idle" /\ Claim(p)

(* client.send_text, in any order (UPDATE ... RETURNING has none); the        *)
(* provider takes the message or does not.                                    *)
Send(s) ==
  /\ pc[s] = "open"
  /\ pc' = [pc EXCEPT ![s] = "sending"]
  /\ \E m \in batch[s] :
       /\ current' = [current EXCEPT ![s] = m]
       /\ batch' = [batch EXCEPT ![s] = @ \ {m}]
       /\ \/ /\ SumFunction(accepted) < MaxCopies
             /\ accepted' = [accepted EXCEPT ![m] = @ + 1]
             /\ copies' = [copies EXCEPT ![s] = @ \cup {m}]
          \/ UNCHANGED <<accepted, copies>>
  /\ UNCHANGED <<rows, holder, draft, stale, lost>>

(* finish_outbound_claim, and where the loop over the rows goes from there *)
Finish(s, status, next) ==
  /\ pc[s] = "sending"
  /\ draft' = [draft EXCEPT ![current[s]] = status]
  /\ current' = [current EXCEPT ![s] = None]
  /\ pc' = [pc EXCEPT ![s] = next]
  /\ UNCHANGED <<rows, holder, batch, copies, stale, history>>

(* Mutant of Confirmed: any answer of the provider counts as sent *)
ConfirmedAny(s) == Finish(s, "sent", "open")

Confirmed(s) == current[s] \in copies[s] /\ Finish(s, "sent", "open")

(* A timeout; the rows not yet sent keep their claim (break) *)
Ambiguous(s) == Finish(s, "unknown_delivery", "closing")

(* ILinkProviderError: a code other than 0, or an answer that is not JSON *)
Rejected(s) == Finish(s, "failed", "closing")

(* Any other exception: the connection broke, before or after the provider    *)
(* took the message, or the answer was an HTTP error.                         *)
SendFails(s) == Finish(s, "retry_wait", "closing")

Held(s) == {m \in Messages : holder[m] = s}

(* The transaction is over: its locks are gone *)
Release(s) ==
  /\ holder' = [m \in Messages |-> IF m \in Held(s) THEN None ELSE holder[m]]
  /\ draft' = [m \in Messages |-> IF m \in Held(s) THEN "absent" ELSE draft[m]]
  /\ batch' = [batch EXCEPT ![s] = {}]
  /\ current' = [current EXCEPT ![s] = None]
  /\ copies' = [copies EXCEPT ![s] = {}]
  /\ pc' = [pc EXCEPT ![s] = "idle"]
  /\ UNCHANGED <<stale, accepted>>

(* Copies of these rows are forgotten *)
Forget(gone) == lost' = [m \in Messages |-> IF m \in gone THEN lost[m] + 1 ELSE lost[m]]

(* What was flushed becomes visible.  Rows that are still claimed, or are to  *)
(* be tried again, rest for a while.                                          *)
CommitDrafts(s) ==
  /\ delivery' = [m \in Messages |-> IF m \in Held(s) THEN draft[m] ELSE delivery[m]]
  /\ resting' = {m \in Messages : IF m \in Held(s) THEN draft[m] \notin Settled
                                                   ELSE m \in resting}
  /\ Forget({m \in copies[s] : draft[m] \notin Settled})
  /\ Release(s)

Commit(s) ==
  /\ pc[s] = "closing" \/ (pc[s] = "open" /\ batch[s] = {})
  /\ CommitDrafts(s)

(* The loop or the job is cancelled while it waits for the provider: the      *)
(* session commits all the same, because it rolls back on Exception only.     *)
Interrupt(s) ==
  /\ pc[s] = "sending"
  /\ CommitDrafts(s)

(* The process dies, or the database fails: rolled back *)
Abort(s) ==
  /\ pc[s] \in {"open", "sending", "closing"}
  /\ Forget(copies[s])
  /\ Release(s)
  /\ UNCHANGED rows

--------------------------------------------------------------------------------
(* The drain worker: agents_outbound_drain, _drain_user *)

(* It reads the rows that look pending: recent ones make it send, those of    *)
(* more than 24 hours are to be given up.  Time is not modelled, so any row    *)
(* may be that old.  The session is left to the garbage collector (break out  *)
(* of the generator), which ends it later.                                    *)
DrainScan(d) ==
  /\ pc[d] = "idle" /\ stale[d] = {}
  /\ \E tooOld \in SUBSET PendingRows :
       /\ stale' = [stale EXCEPT ![d] = tooOld]
       /\ pc' = [pc EXCEPT ![d] = IF tooOld = PendingRows THEN "idle" ELSE "called"]
  /\ UNCHANGED <<rows, tx, history>>

DrainClaims(d) == pc[d] = "called" /\ Claim(d)

(* Nothing to claim, no active credential, no recipient, or an exception *)
DrainGivesUp(d) ==
  /\ pc[d] = "called"
  /\ pc' = [pc EXCEPT ![d] = "idle"]
  /\ UNCHANGED <<rows, tx, stale, history>>

(* The rows that were read are written by id, whatever became of them since,  *)
(* once nobody holds them.  The session resets app.user_id before it flushes, *)
(* so this takes effect only for a role that bypasses row-level security.     *)
ExpireStale(d) ==
  /\ RlsBypassed
  /\ stale[d] # {} /\ \A m \in stale[d] : holder[m] = None
  /\ delivery' = [m \in Messages |-> IF m \in stale[d] THEN "failed" ELSE delivery[m]]
  /\ resting' = resting \ stale[d]
  /\ stale' = [stale EXCEPT ![d] = {}]
  /\ UNCHANGED <<tx, pc, history>>

ExpireFails(d) ==
  /\ stale[d] # {}
  /\ stale' = [stale EXCEPT ![d] = {}]
  /\ UNCHANGED <<rows, tx, pc, history>>

--------------------------------------------------------------------------------

RowStep(m) == Enqueue(m) \/ EnqueueReport(m) \/ Due(m)

SenderStep(s) ==
  \/ Send(s) \/ Confirmed(s) \/ Ambiguous(s) \/ Rejected(s) \/ SendFails(s)
  \/ Commit(s) \/ Interrupt(s) \/ Abort(s)

DrainStep(d) ==
  DrainScan(d) \/ DrainClaims(d) \/ DrainGivesUp(d) \/ ExpireStale(d) \/ ExpireFails(d)

Next ==
  \/ \E m \in Messages : RowStep(m)
  \/ \E p \in Loops : LoopClaims(p)
  \/ \E s \in Senders : SenderStep(s)
  \/ \E d \in Drains : DrainStep(d)

Spec == Init /\ [][Next]_vars

Sends(s, m) == Send(s) /\ current'[s] = m

(* Claims end, the transaction of a sender goes on in some way, the cron job  *)
(* runs every 30 seconds and claims what it can, poll loops keep running and  *)
(* find a message unlocked sometimes, and who claims a message again and      *)
(* again gets to it sometimes.                                                *)
Fairness ==
  /\ \A m \in Messages : WF_vars(Due(m))
  /\ \A s \in Senders : WF_vars(SenderStep(s))
  /\ \A d \in Drains : WF_vars(DrainStep(d)) /\ SF_vars(DrainClaims(d))
  /\ \A m \in Messages :
       /\ \A p \in Loops : SF_vars(LoopClaims(p) /\ Claimable(m))
       /\ \A s \in Senders : SF_vars(Sends(s, m))

FairSpec == Spec /\ Fairness

--------------------------------------------------------------------------------
(* Properties *)

(* Types; what a sender works on are rows that it, and no other, has locked   *)
(* (FOR UPDATE SKIP LOCKED).                                                  *)
TypeOK ==
  /\ delivery \in [Messages -> Statuses]
  /\ resting \in SUBSET Messages
  /\ holder \in [Messages -> Senders \cup {None}]
  /\ draft \in [Messages -> Statuses]
  /\ pc \in [Senders -> {"idle", "called", "open", "sending", "closing"}]
  /\ batch \in [Senders -> SUBSET Messages]
  /\ current \in [Senders -> Messages \cup {None}]
  /\ copies \in [Senders -> SUBSET Messages]
  /\ stale \in [Drains -> SUBSET Messages]
  /\ accepted \in [Messages -> Nat]
  /\ lost \in [Messages -> Nat]
  /\ \A s \in Senders :
       /\ batch[s] \cup copies[s] \subseteq Held(s)
       /\ current[s] \in Held(s) \cup {None}

(* A user gets a message twice only if the result of an earlier copy was lost *)
(* in one of the ways that the program knows: a transaction that was rolled   *)
(* back, a cancelled send, a broken connection.  Two senders, a lapsed claim  *)
(* or a late cutoff never repeat a message (claim_outbound, SKIP LOCKED).     *)
RepeatedOnlyIfLost == \A m \in Messages : accepted[m] <= lost[m] + 1

(* Whatever the senders and the drain do, they deliver as MessageDelivery     *)
(* says: nothing is handed over after it was settled.                         *)
StateOf(status) ==
  CASE status = "absent"  -> "absent"
    [] status \in Open    -> "open"
    [] status = "sent"    -> "sent"
    [] OTHER              -> "closed"

Delivered == INSTANCE MessageDelivery WITH
  state  <- [m \in Messages |-> StateOf(delivery[m])],
  copies <- accepted

ImplementsDelivery == Delivered!Spec

(* As long as a poll loop is alive, no reply is forgotten: whatever a break,  *)
(* a cancelled or a crashed sender has left behind is sent (again), until it  *)
(* is settled (claim_until and next_attempt_at in claim_outbound).            *)
InHand(m) == \E s \in Senders : current[s] = m

NoReplyIsForgotten ==
  \A m \in Messages :
    delivery[m] \in Open \ {"null"} ~> InHand(m) \/ delivery[m] \in Settled

(* "The agents_outbound_drain cron then delivers pending rows via iLink"      *)
(* (research/service.py:754) *)
ReportsSettle ==
  \A m \in Messages : delivery[m] = "null" ~> delivery[m] \in Settled
================================================================================
