---------------------------- MODULE Disbursement ----------------------------
(***************************************************************************)
(* Payouts: the rows a release leaves in `disbursements`, the operator     *)
(* requests that send them through Iris, the notifications Iris sends back *)
(* and the reconciliation sweep.  A call to Iris may time out having taken *)
(* effect or not, a request may die between any two of its steps, and a    *)
(* notification may be lost, repeated, delayed or overtaken.               *)
(***************************************************************************)
EXTENDS Integers, FiniteSets

CONSTANTS
  Payouts,    \* rows of disbursements, one per released milestone
  Refs,       \* reference numbers Iris hands out for one row's creates
  NoRef,      \* iris_reference_no IS NULL
  Executors,  \* concurrent execute requests
  Words,      \* status words Iris may use beyond the four documented ones
  Batch       \* reconcileBatchSize

ASSUME ConstantsAssumption ==
  /\ NoRef \notin Refs
  /\ Words \cap {"absent", "pending", "queued", "failed", "processed", "completed", "refused"} = {}
  /\ Batch \in Nat

RowStatus == {"absent", "pending", "queued", "failed", "processed", "completed"}
\* settledStatuses: the money has left for the bank.
Settled == {"processed", "completed"}
\* A payout at Iris; "none" is a reference not handed out.
IrisState == {"none", "queued", "approved", "processed", "completed", "failed"}
Reported == {"queued", "processed", "completed", "failed"}

VARIABLES
  row,     \* [Payouts -> [status, ref]], the row of disbursements
  booked,  \* [Payouts -> Nat], payout entries in the ledger for the row
  newer,   \* [Payouts -> SUBSET Payouts], rows updated after this one
  exec,    \* [Executors -> Job], what each execute request does next
  sweep,   \* [Payouts -> word], Iris's answer the sweep is about to apply
  payout,  \* [Payouts -> [Refs -> IrisState]], payouts at Iris
  told     \* [Payouts -> [Refs -> set of words]], notifications sent

vars == <<row, booked, newer, exec, sweep, payout, told>>
iris == <<payout, told>>

Idle == [step |-> "idle"]
Steps == {"create", "record", "approve", "resume", "reapprove", "rerecord",
          "settle", "fail", "park"}
Job == {Idle} \cup
  [step : Steps, payout : Payouts, ref : Refs \cup {NoRef}, answer : Reported]

Init ==
  /\ row = [d \in Payouts |-> [status |-> "absent", ref |-> NoRef]]
  /\ booked = [d \in Payouts |-> 0]
  /\ newer = [d \in Payouts |-> {}]
  /\ exec = [e \in Executors |-> Idle]
  /\ sweep = [d \in Payouts |-> "nothing"]
  /\ payout = [d \in Payouts |-> [r \in Refs |-> "none"]]
  /\ told = [d \in Payouts |-> [r \in Refs |-> {}]]

-----------------------------------------------------------------------------
(* Every UPDATE of a row writes updated_at.                                *)
Touch(d) == newer' = [x \in Payouts |-> IF x = d THEN {} ELSE newer[x] \cup {d}]

SetRow(d, status, ref) ==
  /\ row' = [row EXCEPT ![d] = [status |-> status, ref |-> ref]]
  /\ Touch(d)

KeepRow == UNCHANGED <<row, newer>>

Goto(e, step, ref, answer) ==
  exec' = [exec EXCEPT ![e] =
    [step |-> step, payout |-> exec[e].payout, ref |-> ref, answer |-> answer]]

Finish(e) == exec' = [exec EXCEPT ![e] = Idle]

(* How far a payout has come; a status that does not advance it is ignored. *)
PayoutRank(status) ==
  CASE status = "pending"   -> 0
    [] status = "queued"    -> 1
    [] status = "failed"    -> 2
    [] status = "processed" -> 3
    [] status = "completed" -> 4
    [] OTHER                -> -1

(* The four words Iris documents are the enum's own; others are refused.   *)
IrisStatusToDisbursement(word) == IF word \in Reported THEN word ELSE "refused"

\* MUTANT: entries are written on every advance, not probed for.
BookOnEveryAdvance(d) == TRUE

(* bookPayoutTx probes the ledger for this payout's entries first.         *)
NotBooked(d) == booked[d] = 0

(* settle: one transaction under the row lock.  The money that left is     *)
(* booked first, then the status moves if the word advances it.            *)
Settle(d, word) ==
  LET next == IrisStatusToDisbursement(word)
  IN  /\ booked' = IF next \in Settled /\ NotBooked(d)
                   THEN [booked EXCEPT ![d] = @ + 1] ELSE booked
      /\ IF PayoutRank(next) > PayoutRank(row[d].status)
         THEN SetRow(d, next, row[d].ref)
         ELSE KeepRow

-----------------------------------------------------------------------------
(* A release records its payout; ON CONFLICT DO NOTHING on the key.        *)
EnqueueOnRelease(d) ==
  /\ row[d].status = "absent"
  /\ SetRow(d, "pending", NoRef)
  /\ UNCHANGED <<booked, exec, sweep, iris>>

\* MUTANT: a claimed row is always created, its reference is not looked at.
AlwaysCreate(d) == "create"

(* A claimed row that carries a reference is resumed, never created again. *)
FirstStep(d) == IF row[d].ref = NoRef THEN "create" ELSE "resume"

(* EXECUTE: the claim is a compare-and-set out of pending or failed.       *)
ClaimForExecution(e, d) ==
  /\ exec[e] = Idle
  /\ row[d].status \in {"pending", "failed"}
  /\ SetRow(d, "queued", row[d].ref)
  /\ exec' = [exec EXCEPT ![e] =
       [step |-> FirstStep(d), payout |-> d, ref |-> row[d].ref, answer |-> "queued"]]
  /\ UNCHANGED <<booked, sweep, iris>>

(* The create is rejected, lands and answers, or ends with an outcome the  *)
(* caller cannot tell (a timeout, a 5xx, an unreadable body).              *)
CreatePayout(e) ==
  /\ exec[e].step = "create"
  /\ \/ Goto(e, "fail", NoRef, "queued") /\ UNCHANGED payout
     \/ Goto(e, "park", NoRef, "queued") /\ UNCHANGED payout
     \/ \E r \in Refs :
          /\ payout[exec[e].payout][r] = "none"
          /\ payout' = [payout EXCEPT ![exec[e].payout][r] = "queued"]
          /\ \/ Goto(e, "record", r, "queued")
             \/ Goto(e, "park", NoRef, "queued")
  /\ UNCHANGED <<row, booked, newer, sweep, told>>

(* The reference is recorded unless the row has settled meanwhile.  Execute *)
(* records it before it approves, resumeExisting after.                    *)
MarkExecuted(e) ==
  /\ exec[e].step \in {"record", "rerecord"}
  /\ LET d == exec[e].payout
     IN  IF row[d].status \notin Settled
         THEN SetRow(d, row[d].status, exec[e].ref) ELSE KeepRow
  /\ IF exec[e].step = "record" THEN Goto(e, "approve", exec[e].ref, "queued") ELSE Finish(e)
  /\ UNCHANGED <<booked, sweep, iris>>

(* An approval may land or not and, if it landed, answer or not.           *)
ApprovePayout(e) ==
  /\ exec[e].step \in {"approve", "reapprove"}
  /\ LET d == exec[e].payout
         r == exec[e].ref
     IN  \/ /\ payout[d][r] \in {"queued", "approved"}
            /\ payout' = [payout EXCEPT ![d][r] = "approved"]
            /\ \/ IF exec[e].step = "approve" THEN Finish(e) ELSE Goto(e, "rerecord", r, "queued")
               \/ Goto(e, "fail", r, "queued")
         \/ Goto(e, "fail", r, "queued") /\ UNCHANGED payout
  /\ UNCHANGED <<row, booked, newer, sweep, told>>

\* MUTANT: the update has no status guard.
FailableAnyRow(d) == TRUE

(* A settled payout is terminal for an executor.                           *)
Failable(d) == row[d].status \notin Settled

(* The row becomes claimable again and keeps its reference if it has one.  *)
MarkFailed(e) ==
  /\ exec[e].step = "fail"
  /\ LET d == exec[e].payout
         r == exec[e].ref
     IN  IF Failable(d)
         THEN SetRow(d, "failed", IF r = NoRef THEN row[d].ref ELSE r) ELSE KeepRow
  /\ Finish(e)
  /\ UNCHANGED <<booked, sweep, iris>>

(* The row stays queued, outside the claimable set.                        *)
MarkAmbiguous(e) ==
  /\ exec[e].step = "park"
  /\ LET d == exec[e].payout
     IN  IF row[d].status = "queued" THEN SetRow(d, "queued", row[d].ref) ELSE KeepRow
  /\ Finish(e)
  /\ UNCHANGED <<booked, sweep, iris>>

(* The word Iris uses for a payout; one approved but not yet sent is still *)
(* queued, or under a word of Iris's own.                                  *)
WordFor(state) == IF state = "approved" THEN {"queued"} \cup Words ELSE {state}

(* RESUME: Iris's answer decides; no answer or an unknown word parks.      *)
ResumeExisting(e) ==
  /\ exec[e].step = "resume"
  /\ LET d == exec[e].payout
         r == exec[e].ref
     IN  \/ Goto(e, "park", r, "queued")
         \/ \E w \in WordFor(payout[d][r]) \cap Reported :
              IF w = "queued" THEN Goto(e, "reapprove", r, "queued")
                              ELSE Goto(e, "settle", r, w)
  /\ UNCHANGED <<row, booked, newer, sweep, iris>>

ResumeSettle(e) ==
  /\ exec[e].step = "settle"
  /\ Settle(exec[e].payout, exec[e].answer)
  /\ Finish(e)
  /\ UNCHANGED <<sweep, iris>>

(* The request ends here: a crash, or a database error before the write.   *)
Abandon(e) ==
  /\ exec[e] # Idle
  /\ Finish(e)
  /\ UNCHANGED <<row, booked, newer, sweep, iris>>

-----------------------------------------------------------------------------
(* IRIS: an approved payout goes to the bank and arrives, or the operator  *)
(* at Iris or the bank refuses it.  Each change is notified once or never. *)
IrisStep(d, r, from, to) ==
  /\ payout[d][r] \in from
  /\ payout' = [payout EXCEPT ![d][r] = to]
  /\ told' = [told EXCEPT ![d][r] = @ \cup WordFor(to)]
  /\ UNCHANGED <<row, booked, newer, exec, sweep>>

Iris(d, r) ==
  \/ IrisStep(d, r, {"queued"}, "approved")
  \/ IrisStep(d, r, {"approved"}, "processed")
  \/ IrisStep(d, r, {"processed"}, "completed")
  \/ IrisStep(d, r, {"queued", "approved", "processed"}, "failed")

(* A notification finds its row by the reference, the first time or again. *)
IrisPayoutNotification(d, r) ==
  /\ row[d].ref = r
  /\ \E w \in told[d][r] : Settle(d, w)
  /\ UNCHANGED <<exec, sweep, iris>>

-----------------------------------------------------------------------------
\* MUTANT: only payouts the bank has taken are looked at.
ProcessedOnly(d) == row[d].status = "processed"

(* ListStuck: rows still queued or processed; the batch takes the stillest. *)
Stuck(d) == row[d].status \in {"queued", "processed"}
Listed(d) == Stuck(d) /\ Cardinality({x \in Payouts : Stuck(x) /\ d \in newer[x]}) < Batch

(* SWEEP: ask Iris about a listed row with a reference.  A row without one, *)
(* one Iris does not answer for and one still queued there are passed over. *)
SweepAsk(d) ==
  /\ sweep[d] = "nothing"
  /\ Listed(d)
  /\ row[d].ref # NoRef
  /\ \E w \in WordFor(payout[d][row[d].ref]) \ {"queued"} : sweep' = [sweep EXCEPT ![d] = w]
  /\ UNCHANGED <<row, booked, newer, exec, iris>>

SweepSettle(d) ==
  /\ sweep[d] # "nothing"
  /\ Settle(d, sweep[d])
  /\ sweep' = [sweep EXCEPT ![d] = "nothing"]
  /\ UNCHANGED <<exec, iris>>

(* The pass ends before the answer is applied: a deadline, a restart.      *)
SweepDrop(d) ==
  /\ sweep[d] # "nothing"
  /\ sweep' = [sweep EXCEPT ![d] = "nothing"]
  /\ UNCHANGED <<row, booked, newer, exec, iris>>

Next ==
  \/ \E d \in Payouts :
       \/ EnqueueOnRelease(d)
       \/ SweepAsk(d)
       \/ SweepSettle(d)
       \/ SweepDrop(d)
       \/ \E r \in Refs : Iris(d, r) \/ IrisPayoutNotification(d, r)
  \/ \E e \in Executors :
       \/ \E d \in Payouts : ClaimForExecution(e, d)
       \/ CreatePayout(e)
       \/ MarkExecuted(e)
       \/ ApprovePayout(e)
       \/ MarkFailed(e)
       \/ MarkAmbiguous(e)
       \/ ResumeExisting(e)
       \/ ResumeSettle(e)
       \/ Abandon(e)

Spec == Init /\ [][Next]_vars

(* The ticker keeps running passes, a pass walks its whole list, and a     *)
(* payout Iris is asked about often enough is answered for and settled.    *)
Fairness == \A d \in Payouts : WF_vars(SweepAsk(d)) /\ SF_vars(SweepSettle(d))
FairSpec == Spec /\ Fairness

-----------------------------------------------------------------------------
(* PROPERTIES                                                              *)

(* Rows and Iris payouts only ever have the statuses of their enums; a row *)
(* carries a reference only of a payout that Iris created.                 *)
TypeOK ==
  /\ row \in [Payouts -> [status : RowStatus, ref : Refs \cup {NoRef}]]
  /\ booked \in [Payouts -> Nat]
  /\ newer \in [Payouts -> SUBSET Payouts]
  /\ exec \in [Executors -> Job]
  /\ sweep \in [Payouts -> {"nothing"} \cup Reported \cup Words]
  /\ payout \in [Payouts -> [Refs -> IrisState]]
  /\ told \in [Payouts -> [Refs -> SUBSET (Reported \cup Words)]]
  /\ \A d \in Payouts : row[d].ref # NoRef => payout[d][row[d].ref] # "none"

(* One milestone is paid at most once: whatever is claimed, retried, timed *)
(* out or abandoned, Iris never holds two payouts for one row.             *)
OnePayout ==
  \A d \in Payouts : \A r, s \in Refs :
    payout[d][r] # "none" /\ payout[d][s] # "none" => r = s

(* The payout's ledger entries exist, once, exactly when the row says that *)
(* the money left, although Iris reports both processed and completed and  *)
(* the row may pass through failed in between.                             *)
BookedWhenSettled ==
  \A d \in Payouts : booked[d] = IF row[d].status \in Settled THEN 1 ELSE 0

(* A row that says the money left is never claimable again: an executor's  *)
(* late failure or a late notification does not take it back.              *)
SettledRowIsFinal ==
  [][\A d \in Payouts :
       row[d].status \in Settled =>
         /\ row'[d].status \in Settled
         /\ row[d].status = "completed" => row'[d].status = "completed"
         /\ row'[d].ref = row[d].ref]_vars

(* A payout whose notifications are all lost does not sit in queued: once  *)
(* the bank has taken or refused it, the sweep moves its row on.           *)
QueuedIsResolved ==
  \A d \in Payouts : \A r \in Refs :
    row[d] = [status |-> "queued", ref |-> r] /\ payout[d][r] \in {"processed", "completed", "failed"}
      ~> row[d].status # "queued"
=============================================================================
