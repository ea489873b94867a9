------------------------- MODULE DisbursementProofs -------------------------
(***************************************************************************)
(* Proofs about Disbursement, for any number of rows, references and       *)
(* concurrent execute requests.                                            *)
(***************************************************************************)
EXTENDS Disbursement, TLAPS

(* A request that is about to create, or has learnt what its create did    *)
(* and not written it down yet: it alone knows that its row is being sent. *)
Fresh(e) == exec[e].step \in {"create", "record"} \/ (exec[e].step = "fail" /\ exec[e].ref = NoRef)
(* A request that works on a payout already recorded in the row.           *)
Linked(e) ==
  \/ exec[e].step \in {"approve", "resume", "reapprove", "rerecord", "settle"}
  \/ exec[e].step = "fail" /\ exec[e].ref # NoRef
NoneAtIris(d) == \A r \in Refs : payout[d][r] = "none"

(* A row an executor may claim and has no reference of was never sent.     *)
Unsent ==
  \A d \in Payouts :
    /\ row[d].status = "absent" => row[d].ref = NoRef
    /\ row[d].ref = NoRef /\ row[d].status \in {"absent", "pending", "failed"} => NoneAtIris(d)
FreshOK(e) ==
  /\ row[exec[e].payout] = [status |-> "queued", ref |-> NoRef]
  /\ exec[e].step # "record" => NoneAtIris(exec[e].payout)
  /\ exec[e].step = "record" =>
       exec[e].ref \in Refs /\ payout[exec[e].payout][exec[e].ref] # "none"
FreshRow == \A e \in Executors : Fresh(e) => FreshOK(e)
FreshAlone ==
  \A e, f \in Executors : Fresh(e) /\ Fresh(f) /\ exec[e].payout = exec[f].payout => e = f
LinkedRow ==
  \A e \in Executors :
    Linked(e) => exec[e].ref \in Refs /\ row[exec[e].payout].ref = exec[e].ref
SweptRow == \A d \in Payouts : sweep[d] # "nothing" => row[d].ref # NoRef

PInv == OnePayout /\ Unsent /\ FreshRow /\ FreshAlone /\ LinkedRow /\ SweptRow
IInv == TypeOK /\ BookedWhenSettled /\ PInv

-----------------------------------------------------------------------------
(* The fields of a job that is not idle have their types.                  *)
LEMMA JobFields ==
  ASSUME TypeOK, NEW e \in Executors, exec[e] # Idle
  PROVE  /\ exec[e] \in [step : Steps, payout : Payouts, ref : Refs \cup {NoRef}, answer : Reported]
         /\ exec[e].step \in Steps /\ exec[e].payout \in Payouts
         /\ exec[e].ref \in Refs \cup {NoRef} /\ exec[e].answer \in Reported
<1>1. exec[e] \in Job BY DEF TypeOK
<1> QED BY <1>1 DEF Job

(* What a settlement does to its row and its entries: a row only moves to  *)
(* a reported status, keeps its reference, never leaves the settled ones,  *)
(* and is booked when it enters them.                                      *)
LEMMA SettleEffect ==
  ASSUME TypeOK, BookedWhenSettled, NEW d \in Payouts, NEW w, Settle(d, w)
  PROVE  /\ \E s \in RowStatus :
              /\ row' = [row EXCEPT ![d] = [status |-> s, ref |-> row[d].ref]]
              /\ s # row[d].status => s \in Reported
              /\ row[d].status \in Settled => s \in Settled
              /\ row[d].status = "completed" => s = "completed"
              /\ booked' = [booked EXCEPT ![d] = IF s \in Settled THEN 1 ELSE 0]
         /\ newer' \in [Payouts -> SUBSET Payouts]
<1> DEFINE next == IrisStatusToDisbursement(w)
           cur == row[d].status
<1>1. cur \in RowStatus /\ row[d] = [status |-> cur, ref |-> row[d].ref]
  BY DEF TypeOK
<1>2. next \in Reported \cup {"refused"}
  BY DEF IrisStatusToDisbursement
<1>3. booked[d] = IF cur \in Settled THEN 1 ELSE 0
  BY DEF BookedWhenSettled
<1>4. booked' = IF next \in Settled /\ cur \notin Settled THEN [booked EXCEPT ![d] = 1] ELSE booked
  <2>1. booked' = IF next \in Settled /\ NotBooked(d) THEN [booked EXCEPT ![d] = booked[d] + 1] ELSE booked
    BY DEF Settle
  <2>2. NotBooked(d) <=> cur \notin Settled BY <1>3 DEF NotBooked
  <2>3. cur \notin Settled => booked[d] + 1 = 1 BY <1>3
  <2> QED BY <2>1, <2>2, <2>3
<1>5. booked = [booked EXCEPT ![d] = IF cur \in Settled THEN 1 ELSE 0]
  BY <1>3 DEF TypeOK
<1>6. CASE PayoutRank(next) > PayoutRank(cur)
  <2>1. row' = [row EXCEPT ![d] = [status |-> next, ref |-> row[d].ref]] /\ Touch(d)
    BY <1>6 DEF Settle, SetRow
  <2>2. next # "refused"
    BY <1>1, <1>6 DEF PayoutRank, RowStatus
  <2>3. next \in Reported /\ next \in RowStatus
    BY <1>2, <2>2 DEF Reported, RowStatus
  <2>4. cur \in Settled => next \in Settled
    BY <1>1, <1>6, <2>3 DEF PayoutRank, RowStatus, Reported, Settled
  <2>5. cur # "completed"
    BY <1>6, <2>3 DEF PayoutRank, Reported
  <2>6. booked' = [booked EXCEPT ![d] = IF next \in Settled THEN 1 ELSE 0]
    BY <1>4, <1>5, <2>4
  <2>7. newer' \in [Payouts -> SUBSET Payouts]
    BY <2>1 DEF Touch, TypeOK
  <2> QED BY <2>1, <2>3, <2>4, <2>5, <2>6, <2>7
<1>7. CASE ~(PayoutRank(next) > PayoutRank(cur))
  <2>1. row' = row /\ newer' = newer
    BY <1>7 DEF Settle, KeepRow
  <2>2. row' = [row EXCEPT ![d] = [status |-> cur, ref |-> row[d].ref]]
    BY <1>1, <2>1 DEF TypeOK
  <2>3. next \in Settled => cur \in Settled
    BY <1>1, <1>7 DEF PayoutRank, RowStatus, Settled
  <2>4. booked' = [booked EXCEPT ![d] = IF cur \in Settled THEN 1 ELSE 0]
    BY <1>4, <1>5, <2>3
  <2>5. newer' \in [Payouts -> SUBSET Payouts]
    BY <2>1 DEF TypeOK
  <2> QED BY <1>1, <2>2, <2>4, <2>5
<1> QED BY <1>6, <1>7

(* Nothing is claimed, sent or known of a row before it is recorded.       *)
LEMMA InitIInv == Init => IInv
BY DEF Init, IInv, PInv, TypeOK, BookedWhenSettled, OnePayout, Unsent, FreshRow, FreshOK, FreshAlone,
       LinkedRow, SweptRow, Fresh, Linked, NoneAtIris, RowStatus, Settled, Job, Idle, Steps,
       IrisState, Reported

-----------------------------------------------------------------------------
(* Settling a row of which a payout is recorded keeps the invariant; exec  *)
(* and sweep may at the same time drop work.                               *)
LEMMA SettleIInv ==
  ASSUME IInv, NEW d \in Payouts, NEW w, Settle(d, w), row[d].ref # NoRef,
         UNCHANGED iris,
         exec' = exec \/ \E e \in Executors : Finish(e),
         sweep' = sweep \/ sweep' = [sweep EXCEPT ![d] = "nothing"]
  PROVE  IInv'
<1> USE DEF IInv, PInv
<1>1. PICK s \in RowStatus :
        /\ row' = [row EXCEPT ![d] = [status |-> s, ref |-> row[d].ref]]
        /\ s # row[d].status => s \in Reported
        /\ row[d].status \in Settled => s \in Settled
        /\ booked' = [booked EXCEPT ![d] = IF s \in Settled THEN 1 ELSE 0]
  BY SettleEffect
<1>2. newer' \in [Payouts -> SUBSET Payouts]
  BY SettleEffect
<1>3. \A x \in Payouts : /\ row'[x].ref = row[x].ref
                         /\ x # d => row'[x] = row[x]
                         /\ row'[x] \in [status : RowStatus, ref : Refs \cup {NoRef}]
  BY <1>1 DEF TypeOK
<1>4. row'[d].status = s /\ row[d].status # "absent"
  BY <1>1 DEF TypeOK, Unsent
<1>5. \A e \in Executors : exec'[e] = exec[e] \/ exec'[e] = Idle
  BY DEF Finish, TypeOK
<1>6. exec' \in [Executors -> Job]
  BY DEF Finish, TypeOK, Job
<1>7. payout' = payout /\ told' = told
  BY DEF iris
<1>8. TypeOK'
  <2>1. row' \in [Payouts -> [status : RowStatus, ref : Refs \cup {NoRef}]]
    BY <1>1, <1>3 DEF TypeOK
  <2>2. booked' \in [Payouts -> Nat]
    BY <1>1 DEF TypeOK
  <2>3. sweep' \in [Payouts -> {"nothing"} \cup Reported \cup Words]
    BY DEF TypeOK
  <2> QED BY <2>1, <2>2, <2>3, <1>2, <1>3, <1>6, <1>7 DEF TypeOK
<1>9. BookedWhenSettled'
  BY <1>1, <1>3, <1>4 DEF BookedWhenSettled, TypeOK
<1>10. OnePayout' /\ SweptRow' /\ Unsent'
  <2>1. s # "absent"
    BY <1>1, <1>4 DEF Reported
  <2>2. Unsent'
    BY <1>3, <1>4, <1>7, <2>1 DEF Unsent, NoneAtIris
  <2>3. SweptRow'
    BY <1>3 DEF SweptRow, TypeOK
  <2> QED BY <2>2, <2>3, <1>7 DEF OnePayout
<1>11. \A e \in Executors : /\ Fresh(e)' => Fresh(e) /\ exec'[e] = exec[e]
                            /\ Linked(e)' => Linked(e) /\ exec'[e] = exec[e]
  BY <1>5 DEF Fresh, Linked, Idle
<1>12. FreshRow' /\ FreshAlone'
  <2>1. ASSUME NEW e \in Executors, Fresh(e) PROVE exec[e].payout # d /\ exec[e].payout \in Payouts
    <3>1. exec[e] # Idle BY <2>1 DEF Fresh, Idle
    <3>2. row[exec[e].payout].ref = NoRef BY <2>1 DEF FreshRow, FreshOK
    <3> QED BY <3>1, <3>2, JobFields
  <2>2. FreshRow'
    BY <1>3, <1>7, <1>11, <2>1 DEF FreshRow, FreshOK, NoneAtIris
  <2> QED BY <2>2, <1>11 DEF FreshAlone
<1>13. LinkedRow'
  <2>1. ASSUME NEW e \in Executors, Linked(e) PROVE exec[e].payout \in Payouts
    BY <2>1, JobFields DEF Linked, Idle
  <2> QED BY <1>3, <1>11, <2>1 DEF LinkedRow
<1> QED BY <1>8, <1>9, <1>10, <1>12, <1>13

-----------------------------------------------------------------------------
(* What SetRow does, field by field.                                       *)
LEMMA SetRowEffect ==
  ASSUME TypeOK, NEW d \in Payouts, NEW s \in RowStatus, NEW ref \in Refs \cup {NoRef},
         SetRow(d, s, ref)
  PROVE  /\ row' \in [Payouts -> [status : RowStatus, ref : Refs \cup {NoRef}]]
         /\ newer' \in [Payouts -> SUBSET Payouts]
         /\ row'[d] = [status |-> s, ref |-> ref]
         /\ row'[d].status = s /\ row'[d].ref = ref
         /\ \A x \in Payouts : x # d => row'[x] = row[x]
BY DEF SetRow, Touch, TypeOK

(* A release recording its payout: the row was absent, nobody works on it. *)
LEMMA EnqueueIInv ==
  ASSUME IInv, NEW d \in Payouts, EnqueueOnRelease(d)
  PROVE  IInv'
<1> USE DEF IInv, PInv
<1>1. SetRow(d, "pending", NoRef) /\ row[d].status = "absent"
  BY DEF EnqueueOnRelease
<1>2. row[d].ref = NoRef /\ NoneAtIris(d)
  BY <1>1 DEF Unsent
<1>3. /\ row' \in [Payouts -> [status : RowStatus, ref : Refs \cup {NoRef}]]
      /\ newer' \in [Payouts -> SUBSET Payouts]
      /\ row'[d].status = "pending" /\ row'[d].ref = NoRef
      /\ \A x \in Payouts : x # d => row'[x] = row[x]
  BY <1>1, SetRowEffect DEF RowStatus
<1>4. booked' = booked /\ exec' = exec /\ sweep' = sweep /\ payout' = payout /\ told' = told
  BY DEF EnqueueOnRelease, iris
<1>5. TypeOK'
  BY <1>3, <1>4 DEF TypeOK
<1>6. BookedWhenSettled' /\ OnePayout' /\ Unsent' /\ SweptRow'
  BY <1>1, <1>2, <1>3, <1>4 DEF BookedWhenSettled, OnePayout, Unsent, SweptRow, Settled, NoneAtIris
<1>7. ASSUME NEW e \in Executors, Fresh(e) \/ Linked(e)
      PROVE  exec[e].payout \in Payouts /\ exec[e].payout # d
  <2>1. exec[e] # Idle BY <1>7 DEF Fresh, Linked, Idle
  <2>2. exec[e].payout \in Payouts BY <2>1, JobFields
  <2>3. Fresh(e) => row[exec[e].payout].status = "queued" BY DEF FreshRow, FreshOK
  <2>4. Linked(e) => row[exec[e].payout].ref # NoRef BY ConstantsAssumption DEF LinkedRow
  <2> QED BY <1>1, <1>2, <1>7, <2>2, <2>3, <2>4
<1>8. FreshRow' /\ FreshAlone' /\ LinkedRow'
  BY <1>3, <1>4, <1>7 DEF FreshRow, FreshOK, FreshAlone, LinkedRow, Fresh, Linked, NoneAtIris
<1> QED BY <1>5, <1>6, <1>8

(* The sweep asking Iris, or dropping an answer, changes nothing else.     *)
LEMMA SweepIInv ==
  ASSUME IInv, NEW d \in Payouts, SweepAsk(d) \/ SweepDrop(d)
  PROVE  IInv'
<1> USE DEF IInv, PInv
<1>1. UNCHANGED <<row, booked, newer, exec, payout, told>>
  BY DEF SweepAsk, SweepDrop, iris
<1>2. sweep' \in [Payouts -> {"nothing"} \cup Reported \cup Words]
  <2>1. CASE SweepDrop(d) BY <2>1 DEF SweepDrop, TypeOK
  <2>2. CASE SweepAsk(d)
    <3>1. row[d].ref \in Refs /\ payout[d][row[d].ref] \in IrisState \ {"none"}
      BY <2>2 DEF SweepAsk, TypeOK
    <3>2. WordFor(payout[d][row[d].ref]) \subseteq Reported \cup Words
      BY <3>1 DEF WordFor, IrisState, Reported
    <3> QED BY <2>2, <3>2 DEF SweepAsk, TypeOK
  <2> QED BY <2>1, <2>2
<1>3. SweptRow'
  BY <1>1 DEF SweepAsk, SweepDrop, SweptRow, TypeOK
<1> QED BY <1>1, <1>2, <1>3
        DEF TypeOK, BookedWhenSettled, OnePayout, Unsent, FreshRow, FreshOK, FreshAlone, LinkedRow,
            Fresh, Linked, NoneAtIris

(* Iris moves payouts it has; it neither creates nor forgets one here.     *)
LEMMA IrisIInv ==
  ASSUME IInv, NEW d \in Payouts, NEW r \in Refs, Iris(d, r)
  PROVE  IInv'
<1> USE DEF IInv, PInv
<1>1. PICK from, to :
        /\ IrisStep(d, r, from, to)
        /\ "none" \notin from /\ to \in IrisState \ {"none"}
  BY DEF Iris, IrisState
<1>2. UNCHANGED <<row, booked, newer, exec, sweep>>
  BY <1>1 DEF IrisStep
<1>3. \A x \in Payouts, s \in Refs : payout'[x][s] = "none" <=> payout[x][s] = "none"
  BY <1>1 DEF IrisStep, TypeOK
<1>4. payout' \in [Payouts -> [Refs -> IrisState]]
  BY <1>1 DEF IrisStep, TypeOK
<1>5. told' \in [Payouts -> [Refs -> SUBSET (Reported \cup Words)]]
  <2>1. WordFor(to) \subseteq Reported \cup Words
    BY <1>1 DEF WordFor, IrisState, Reported
  <2>2. told' = [told EXCEPT ![d][r] = told[d][r] \cup WordFor(to)]
    BY <1>1 DEF IrisStep
  <2> QED BY <2>1, <2>2 DEF TypeOK
<1>6. TypeOK'
  BY <1>2, <1>3, <1>4, <1>5 DEF TypeOK
<1>7. OnePayout' /\ Unsent' /\ SweptRow' /\ BookedWhenSettled'
  BY <1>2, <1>3 DEF OnePayout, Unsent, NoneAtIris, SweptRow, BookedWhenSettled
<1>8. ASSUME NEW e \in Executors, Fresh(e) PROVE exec[e].payout \in Payouts
  BY <1>8, JobFields DEF Fresh, Idle
<1>9. FreshRow' /\ FreshAlone' /\ LinkedRow'
  BY <1>2, <1>3, <1>8 DEF FreshRow, FreshOK, FreshAlone, LinkedRow, Fresh, Linked, NoneAtIris
<1> QED BY <1>6, <1>7, <1>9

-----------------------------------------------------------------------------
(* A request working on a fresh row is the only one fresh there, and none  *)
(* is linked to it.                                                        *)
LEMMA FreshOwnsRow ==
  ASSUME IInv, NEW e \in Executors, Fresh(e)
  PROVE  /\ exec[e] # Idle /\ exec[e].payout \in Payouts
         /\ row[exec[e].payout] = [status |-> "queued", ref |-> NoRef]
         /\ row[exec[e].payout].status = "queued" /\ row[exec[e].payout].ref = NoRef
         /\ \A f \in Executors : f # e /\ (Fresh(f) \/ Linked(f)) => exec[f].payout # exec[e].payout
<1> USE DEF IInv, PInv
<1>1. exec[e] # Idle BY DEF Fresh, Idle
<1>2. exec[e].payout \in Payouts BY <1>1, JobFields
<1>3. row[exec[e].payout] = [status |-> "queued", ref |-> NoRef] BY DEF FreshRow, FreshOK
<1>4. row[exec[e].payout].status = "queued" /\ row[exec[e].payout].ref = NoRef BY <1>3
<1>5. ASSUME NEW f \in Executors, f # e, Fresh(f) \/ Linked(f)
      PROVE  exec[f].payout # exec[e].payout
  <2>1. CASE Fresh(f) BY <1>5, <2>1 DEF FreshAlone
  <2>2. CASE Linked(f)
    <3>1. row[exec[f].payout].ref # NoRef BY <2>2, ConstantsAssumption DEF LinkedRow
    <3> QED BY <1>4, <3>1
  <2> QED BY <1>5, <2>1, <2>2
<1> QED BY <1>1, <1>2, <1>3, <1>4, <1>5

(* A request linked to a payout works on the reference its row carries.    *)
LEMMA LinkedHasRef ==
  ASSUME IInv, NEW e \in Executors, Linked(e)
  PROVE  /\ exec[e] # Idle /\ exec[e].payout \in Payouts
         /\ exec[e].ref \in Refs /\ exec[e].ref # NoRef
         /\ row[exec[e].payout].ref = exec[e].ref
         /\ payout[exec[e].payout][exec[e].ref] # "none"
<1> USE DEF IInv, PInv
<1>1. exec[e] # Idle BY DEF Linked, Idle
<1>2. exec[e].payout \in Payouts BY <1>1, JobFields
<1>3. exec[e].ref \in Refs /\ row[exec[e].payout].ref = exec[e].ref BY DEF LinkedRow
<1> QED BY <1>1, <1>2, <1>3, ConstantsAssumption DEF TypeOK

(* A request that stops, or parks the row it failed to learn about, leaves *)
(* every other request as it was.                                          *)
LEMMA StopIInv ==
  ASSUME IInv, NEW e \in Executors, exec[e] # Idle, Finish(e), UNCHANGED <<booked, sweep, iris>>,
         KeepRow \/ \E s \in RowStatus : /\ SetRow(exec[e].payout, s, row[exec[e].payout].ref)
                                         /\ s = row[exec[e].payout].status
  PROVE  IInv'
<1> USE DEF IInv, PInv
<1> DEFINE d == exec[e].payout
<1>1. d \in Payouts BY JobFields
<1>2. row' = row /\ newer' \in [Payouts -> SUBSET Payouts]
  <2>1. CASE KeepRow BY <2>1 DEF KeepRow, TypeOK
  <2>2. CASE SetRow(d, row[d].status, row[d].ref)
    <3>1. row' = [row EXCEPT ![d] = [status |-> row[d].status, ref |-> row[d].ref]]
      BY <2>2 DEF SetRow
    <3>2. row[d] = [status |-> row[d].status, ref |-> row[d].ref]
      BY <1>1 DEF TypeOK
    <3>3. row' = row BY <1>1, <3>1, <3>2 DEF TypeOK
    <3>4. newer' \in [Payouts -> SUBSET Payouts] BY <1>1, <2>2 DEF SetRow, Touch, TypeOK
    <3> QED BY <3>3, <3>4
  <2> QED BY <2>1, <2>2
<1>3. booked' = booked /\ sweep' = sweep /\ payout' = payout /\ told' = told
  BY DEF iris
<1>4. exec' \in [Executors -> Job] /\ \A f \in Executors : exec'[f] = exec[f] \/ exec'[f] = Idle
  BY DEF Finish, TypeOK, Job
<1>5. TypeOK' BY <1>2, <1>3, <1>4 DEF TypeOK
<1>6. \A f \in Executors : /\ Fresh(f)' => Fresh(f) /\ exec'[f] = exec[f]
                           /\ Linked(f)' => Linked(f) /\ exec'[f] = exec[f]
  BY <1>4 DEF Fresh, Linked, Idle
<1>7. FreshRow' /\ FreshAlone' /\ LinkedRow'
  BY <1>2, <1>3, <1>6 DEF FreshRow, FreshOK, FreshAlone, LinkedRow, NoneAtIris
<1> QED BY <1>2, <1>3, <1>5, <1>7
        DEF BookedWhenSettled, OnePayout, Unsent, SweptRow, NoneAtIris

(* The claim: the row leaves the claimable set, so the claimer is alone if *)
(* the row has no reference, and linked to its payout if it has.           *)
LEMMA ClaimIInv ==
  ASSUME IInv, NEW e \in Executors, NEW d \in Payouts, ClaimForExecution(e, d)
  PROVE  IInv'
<1> USE DEF IInv, PInv
<1> DEFINE j == [step |-> FirstStep(d), payout |-> d, ref |-> row[d].ref, answer |-> "queued"]
<1>1. /\ row[d].status \in {"pending", "failed"} /\ SetRow(d, "queued", row[d].ref)
      /\ exec' = [exec EXCEPT ![e] = j]
      /\ UNCHANGED <<booked, sweep, payout, told>>
  BY DEF ClaimForExecution, iris
<1>2. row[d].ref \in Refs \cup {NoRef} BY DEF TypeOK
<1>3. /\ row' \in [Payouts -> [status : RowStatus, ref : Refs \cup {NoRef}]]
      /\ newer' \in [Payouts -> SUBSET Payouts]
      /\ row'[d] = [status |-> "queued", ref |-> row[d].ref]
      /\ row'[d].status = "queued" /\ row'[d].ref = row[d].ref
      /\ \A x \in Payouts : x # d => row'[x] = row[x]
  BY <1>1, <1>2, SetRowEffect DEF RowStatus
<1>4. j \in Job
  BY <1>2 DEF Job, FirstStep, Steps, Reported
<1>5. exec' \in [Executors -> Job] /\ exec'[e] = j
      /\ \A f \in Executors : f # e => exec'[f] = exec[f]
  BY <1>1, <1>4 DEF TypeOK
<1>6. TypeOK'
  BY <1>1, <1>3, <1>5, ZenonT(40) DEF TypeOK
<1>7. BookedWhenSettled' /\ OnePayout' /\ Unsent' /\ SweptRow'
  BY <1>1, <1>3 DEF BookedWhenSettled, OnePayout, Unsent, SweptRow, Settled, NoneAtIris
<1>8. ASSUME NEW f \in Executors, Fresh(f)
      PROVE  exec[f].payout # d /\ exec[f].payout \in Payouts
  BY <1>1, <1>8, FreshOwnsRow
<1>9. Fresh(e)' => row[d].ref = NoRef /\ NoneAtIris(d) /\ exec'[e].step = "create"
  <2>1. exec'[e].step = FirstStep(d) /\ exec'[e].ref = row[d].ref BY <1>5
  <2> QED BY <1>1, <2>1 DEF Fresh, FirstStep, Unsent
<1>10. Linked(e)' => row[d].ref # NoRef /\ exec'[e].ref = row[d].ref /\ exec'[e].payout = d
  BY <1>5 DEF Linked, FirstStep
<1>11. \A f \in Executors : f # e => (Fresh(f)' <=> Fresh(f)) /\ (Linked(f)' <=> Linked(f))
  BY <1>5 DEF Fresh, Linked
<1>12. FreshRow'
  <2> SUFFICES ASSUME NEW f \in Executors, Fresh(f)' PROVE FreshOK(f)'
    BY DEF FreshRow
  <2>1. CASE f = e
    BY <2>1, <1>1, <1>3, <1>5, <1>9 DEF FreshOK, NoneAtIris
  <2>2. CASE f # e
    BY <2>2, <1>1, <1>3, <1>5, <1>8, <1>11 DEF FreshRow, FreshOK, NoneAtIris
  <2> QED BY <2>1, <2>2
<1>13. FreshAlone'
  BY <1>5, <1>8, <1>11 DEF FreshAlone
<1>14. LinkedRow'
  <2> SUFFICES ASSUME NEW f \in Executors, Linked(f)'
               PROVE  exec'[f].ref \in Refs /\ row'[exec'[f].payout].ref = exec'[f].ref
    BY DEF LinkedRow
  <2>1. CASE f = e
    BY <2>1, <1>2, <1>3, <1>10
  <2>2. CASE f # e
    <3>1. Linked(f) /\ exec'[f] = exec[f] BY <2>2, <1>5, <1>11
    <3>2. exec[f].payout \in Payouts BY <3>1, LinkedHasRef
    <3> QED BY <3>1, <3>2, <1>3 DEF LinkedRow
  <2> QED BY <2>1, <2>2
<1> QED BY <1>6, <1>7, <1>12, <1>13, <1>14

(* How a create can end for its request.                                  *)
LEMMA CreateOutcome ==
  ASSUME TypeOK, NEW e \in Executors, CreatePayout(e)
  PROVE  \E j \in Job :
           /\ exec' = [exec EXCEPT ![e] = j]
           /\ j.step \in {"fail", "park", "record"} /\ j.payout = exec[e].payout
           /\ j.step # "record" => j.ref = NoRef
           /\ j.step = "fail" => payout' = payout
           /\ \/ payout' = payout /\ j.step # "record"
              \/ \E r \in Refs : /\ payout' = [payout EXCEPT ![exec[e].payout][r] = "queued"]
                                 /\ j.step = "record" => j.ref = r
<1> DEFINE d == exec[e].payout
<1>1. exec[e] # Idle BY DEF CreatePayout, Idle
<1>2. d \in Payouts BY <1>1, JobFields
<1>3. PICK j :
        /\ exec' = [exec EXCEPT ![e] = j]
        /\ \/ payout' = payout /\ j = [step |-> "fail", payout |-> d, ref |-> NoRef, answer |-> "queued"]
           \/ payout' = payout /\ j = [step |-> "park", payout |-> d, ref |-> NoRef, answer |-> "queued"]
           \/ \E r \in Refs :
                /\ payout' = [payout EXCEPT ![d][r] = "queued"]
                /\ \/ j = [step |-> "record", payout |-> d, ref |-> r, answer |-> "queued"]
                   \/ j = [step |-> "park", payout |-> d, ref |-> NoRef, answer |-> "queued"]
  BY DEF CreatePayout, Goto
<1>4. /\ j.step \in {"fail", "park", "record"} /\ j.payout = d /\ j \in Job
      /\ j.step # "record" => j.ref = NoRef
      /\ j.step = "fail" => payout' = payout
      /\ \/ payout' = payout /\ j.step # "record"
         \/ \E r \in Refs : /\ payout' = [payout EXCEPT ![d][r] = "queued"]
                            /\ j.step = "record" => j.ref = r
  <2>1. CASE payout' = payout /\ j = [step |-> "fail", payout |-> d, ref |-> NoRef, answer |-> "queued"]
    BY <2>1, <1>2 DEF Job, Steps, Reported
  <2>2. CASE payout' = payout /\ j = [step |-> "park", payout |-> d, ref |-> NoRef, answer |-> "queued"]
    BY <2>2, <1>2 DEF Job, Steps, Reported
  <2>3. ASSUME NEW r \in Refs, payout' = [payout EXCEPT ![d][r] = "queued"],
               \/ j = [step |-> "record", payout |-> d, ref |-> r, answer |-> "queued"]
               \/ j = [step |-> "park", payout |-> d, ref |-> NoRef, answer |-> "queued"]
        PROVE  /\ j.step \in {"park", "record"} /\ j.payout = d /\ j \in Job
               /\ j.step # "record" => j.ref = NoRef
               /\ j.step = "record" => j.ref = r
    <3>1. CASE j = [step |-> "record", payout |-> d, ref |-> r, answer |-> "queued"]
      BY <3>1, <1>2 DEF Job, Steps, Reported
    <3>2. CASE j = [step |-> "park", payout |-> d, ref |-> NoRef, answer |-> "queued"]
      BY <3>2, <1>2 DEF Job, Steps, Reported
    <3> QED BY <2>3, <3>1, <3>2
  <2>4. CASE \E r \in Refs :
               /\ payout' = [payout EXCEPT ![d][r] = "queued"]
               /\ \/ j = [step |-> "record", payout |-> d, ref |-> r, answer |-> "queued"]
                  \/ j = [step |-> "park", payout |-> d, ref |-> NoRef, answer |-> "queued"]
    <3>1. PICK r \in Refs :
            /\ payout' = [payout EXCEPT ![d][r] = "queued"]
            /\ \/ j = [step |-> "record", payout |-> d, ref |-> r, answer |-> "queued"]
               \/ j = [step |-> "park", payout |-> d, ref |-> NoRef, answer |-> "queued"]
      BY <2>4
    <3>2. /\ j.step \in {"park", "record"} /\ j.payout = d /\ j \in Job
          /\ j.step # "record" => j.ref = NoRef
          /\ j.step = "record" => j.ref = r
      BY <2>3, <3>1
    <3> QED BY <3>1, <3>2
  <2> QED BY <1>3, <2>1, <2>2, <2>4
<1> QED BY <1>3, <1>4

(* The create: it is made for a row nothing was sent for, so the reference *)
(* it may hand out is the row's only one.                                  *)
LEMMA CreateIInv ==
  ASSUME IInv, NEW e \in Executors, CreatePayout(e)
  PROVE  IInv'
<1> USE DEF IInv, PInv
<1> DEFINE d == exec[e].payout
<1>1. exec[e].step = "create" /\ Fresh(e) /\ UNCHANGED <<row, booked, newer, sweep, told>>
  BY DEF CreatePayout, Fresh
<1>2. /\ d \in Payouts /\ row[d].status = "queued" /\ row[d].ref = NoRef
      /\ row[d] = [status |-> "queued", ref |-> NoRef]
      /\ \A f \in Executors : f # e /\ (Fresh(f) \/ Linked(f)) => exec[f].payout # d
  BY <1>1, FreshOwnsRow
<1>3. NoneAtIris(d) BY <1>1 DEF FreshRow, FreshOK
<1>4. PICK j \in Job :
        /\ exec' = [exec EXCEPT ![e] = j]
        /\ j.step \in {"fail", "park", "record"} /\ j.payout = d
        /\ j.step # "record" => j.ref = NoRef
        /\ j.step = "fail" => payout' = payout
        /\ \/ payout' = payout /\ j.step # "record"
           \/ \E r \in Refs : /\ payout' = [payout EXCEPT ![d][r] = "queued"]
                              /\ j.step = "record" => j.ref = r
  BY CreateOutcome
<1>5. j \in Job /\ j.payout = d
  BY <1>4
<1>6. exec' \in [Executors -> Job] /\ exec'[e] = j /\ \A f \in Executors : f # e => exec'[f] = exec[f]
  BY <1>4, <1>5 DEF TypeOK
<1>7. /\ payout' \in [Payouts -> [Refs -> IrisState]]
      /\ \A x \in Payouts : x # d => payout'[x] = payout[x]
      /\ \A r, s \in Refs : payout'[d][r] # "none" /\ payout'[d][s] # "none" => r = s
      /\ j.step = "record" => j.ref \in Refs /\ payout'[d][j.ref] # "none"
  <2>1. CASE payout' = payout
    <3>1. ASSUME NEW r \in Refs, payout' = [payout EXCEPT ![d][r] = "queued"] PROVE FALSE
      <4>1. payout'[d][r] = "queued" BY <1>2, <3>1 DEF TypeOK
      <4> QED BY <1>3, <2>1, <4>1 DEF NoneAtIris
    <3>2. j.step # "record" BY <1>4, <3>1
    <3> QED BY <1>3, <2>1, <3>2 DEF NoneAtIris, TypeOK
  <2>2. CASE payout' # payout
    <3>1. PICK r \in Refs :
            /\ payout' = [payout EXCEPT ![d][r] = "queued"]
            /\ j.step = "record" => j.ref = r
      BY <1>4, <2>2
    <3>2. payout' = [payout EXCEPT ![d] = [payout[d] EXCEPT ![r] = "queued"]] BY <3>1
    <3>3. payout'[d] = [payout[d] EXCEPT ![r] = "queued"] /\ payout'[d] \in [Refs -> IrisState]
      BY <1>2, <3>2 DEF TypeOK, IrisState
    <3>4. \A s \in Refs : payout'[d][s] # "none" <=> s = r
      BY <1>2, <1>3, <3>3 DEF TypeOK, NoneAtIris
    <3>5. payout' \in [Payouts -> [Refs -> IrisState]] /\ \A x \in Payouts : x # d => payout'[x] = payout[x]
      BY <1>2, <3>2, <3>3 DEF TypeOK
    <3> QED BY <3>1, <3>4, <3>5
  <2> QED BY <2>1, <2>2
<1>8. \A x \in Payouts, r \in Refs : payout[x][r] # "none" => payout'[x][r] # "none"
  BY <1>2, <1>3, <1>7 DEF NoneAtIris
<1>9. j.step = "fail" => payout' = payout
  BY <1>4
<1>10. TypeOK'
  BY <1>1, <1>6, <1>7, <1>8 DEF TypeOK
<1>11. BookedWhenSettled' /\ OnePayout' /\ Unsent' /\ SweptRow'
  BY <1>1, <1>2, <1>7 DEF BookedWhenSettled, OnePayout, Unsent, SweptRow, NoneAtIris
<1>12. \A f \in Executors : f # e => (Fresh(f)' <=> Fresh(f)) /\ (Linked(f)' <=> Linked(f))
  BY <1>6 DEF Fresh, Linked
<1>13. /\ ~Linked(e)'
       /\ Fresh(e)' => \/ j.step = "fail" /\ payout' = payout
                       \/ j.step = "record" /\ j.ref \in Refs /\ payout'[d][j.ref] # "none"
  <2>1. j.step \in {"park", "record"} \/ (j.step = "fail" /\ j.ref = NoRef)
    BY <1>4
  <2> QED BY <2>1, <1>6, <1>7, <1>9 DEF Fresh, Linked
<1>14. FreshRow'
  <2> SUFFICES ASSUME NEW f \in Executors, Fresh(f)' PROVE FreshOK(f)'
    BY DEF FreshRow
  <2>1. CASE f = e
    BY <2>1, <1>1, <1>2, <1>3, <1>5, <1>6, <1>13 DEF FreshOK, NoneAtIris
  <2>2. CASE f # e
    <3>1. Fresh(f) /\ exec'[f] = exec[f] BY <2>2, <1>6, <1>12
    <3>2. exec[f].payout \in Payouts /\ exec[f].payout # d BY <3>1, <2>2, <1>2, FreshOwnsRow
    <3> QED BY <3>1, <3>2, <1>1, <1>7 DEF FreshRow, FreshOK, NoneAtIris
  <2> QED BY <2>1, <2>2
<1>15. FreshAlone'
  BY <1>2, <1>5, <1>6, <1>12 DEF FreshAlone
<1>16. LinkedRow'
  BY <1>1, <1>6, <1>12, <1>13 DEF LinkedRow
<1> QED BY <1>10, <1>11, <1>14, <1>15, <1>16

(* A linked request that moves on stays linked to the same payout, parks   *)
(* or stops; Iris's payouts may meanwhile be approved.                     *)
LEMMA LinkedMove ==
  ASSUME IInv, NEW e \in Executors, Linked(e), NEW j \in Job,
         UNCHANGED <<row, booked, newer, sweep, told>>,
         payout' \in [Payouts -> [Refs -> IrisState]],
         \A x \in Payouts, s \in Refs : payout'[x][s] = "none" <=> payout[x][s] = "none",
         exec' = [exec EXCEPT ![e] = j],
         \/ j = Idle
         \/ /\ j.step \in {"reapprove", "rerecord", "settle", "fail", "park"}
            /\ j.payout = exec[e].payout /\ j.ref = exec[e].ref
  PROVE  IInv'
<1> USE DEF IInv, PInv
<1>1. /\ exec[e].payout \in Payouts /\ exec[e].ref \in Refs /\ exec[e].ref # NoRef
      /\ row[exec[e].payout].ref = exec[e].ref
  BY LinkedHasRef
<1>2. exec' \in [Executors -> Job] /\ exec'[e] = j /\ \A f \in Executors : f # e => exec'[f] = exec[f]
  BY DEF TypeOK
<1>3. TypeOK'
  BY <1>2 DEF TypeOK
<1>4. BookedWhenSettled' /\ OnePayout' /\ Unsent' /\ SweptRow'
  BY DEF BookedWhenSettled, OnePayout, Unsent, SweptRow, NoneAtIris
<1>5. ~Fresh(e)'
  BY <1>1, <1>2 DEF Fresh, Idle
<1>6. \A f \in Executors : f # e => (Fresh(f)' <=> Fresh(f)) /\ (Linked(f)' <=> Linked(f))
  BY <1>2 DEF Fresh, Linked
<1>7. \A f \in Executors : Fresh(f)' => f # e /\ Fresh(f) /\ exec'[f] = exec[f]
  BY <1>2, <1>5, <1>6
<1>8. FreshRow' /\ FreshAlone'
  <2>1. ASSUME NEW f \in Executors, Fresh(f)' PROVE FreshOK(f)'
    <3>1. Fresh(f) /\ exec'[f] = exec[f] BY <1>7, <2>1
    <3>2. exec[f].payout \in Payouts BY <3>1, FreshOwnsRow
    <3> QED BY <3>1, <3>2 DEF FreshRow, FreshOK, NoneAtIris
  <2>2. FreshRow' BY <2>1 DEF FreshRow
  <2> QED BY <1>7, <2>2 DEF FreshAlone
<1>9. LinkedRow'
  <2> SUFFICES ASSUME NEW f \in Executors, Linked(f)'
               PROVE  exec'[f].ref \in Refs /\ row'[exec'[f].payout].ref = exec'[f].ref
    BY DEF LinkedRow
  <2>1. CASE f = e BY <2>1, <1>1, <1>2 DEF Linked, Idle
  <2>2. CASE f # e BY <2>2, <1>2, <1>6 DEF LinkedRow
  <2> QED BY <2>1, <2>2
<1> QED BY <1>3, <1>4, <1>8, <1>9

(* An approval, whether it lands, answers, both or neither.                *)
LEMMA ApproveIInv ==
  ASSUME IInv, NEW e \in Executors, ApprovePayout(e)
  PROVE  IInv'
<1> DEFINE d == exec[e].payout
           r == exec[e].ref
<1>1. exec[e].step \in {"approve", "reapprove"} /\ Linked(e)
  BY DEF ApprovePayout, Linked
<1>2. d \in Payouts /\ r \in Refs /\ payout[d][r] # "none" /\ TypeOK
  BY <1>1, LinkedHasRef DEF IInv
<1>3. UNCHANGED <<row, booked, newer, sweep, told>>
  BY DEF ApprovePayout
<1>4. payout' = payout \/ payout' = [payout EXCEPT ![d][r] = "approved"]
  BY DEF ApprovePayout
<1>5. /\ payout' \in [Payouts -> [Refs -> IrisState]]
      /\ \A x \in Payouts, s \in Refs : payout'[x][s] = "none" <=> payout[x][s] = "none"
  <2>1. CASE payout' = payout BY <2>1, <1>2 DEF TypeOK
  <2>2. ASSUME payout' = [payout EXCEPT ![d][r] = "approved"]
        PROVE  /\ payout' \in [Payouts -> [Refs -> IrisState]]
               /\ \A x \in Payouts, s \in Refs : payout'[x][s] = "none" <=> payout[x][s] = "none"
    <3>1. payout' = [payout EXCEPT ![d] = [payout[d] EXCEPT ![r] = "approved"]] BY <2>2
    <3>2. [payout[d] EXCEPT ![r] = "approved"] \in [Refs -> IrisState]
      BY <1>2 DEF TypeOK, IrisState
    <3>3. \A x \in Payouts : payout'[x] = IF x = d THEN [payout[d] EXCEPT ![r] = "approved"] ELSE payout[x]
      BY <3>1, <1>2 DEF TypeOK
    <3>4. payout' \in [Payouts -> [Refs -> IrisState]]
      BY <3>1, <3>2, <1>2 DEF TypeOK
    <3>5. ASSUME NEW x \in Payouts, NEW s \in Refs
          PROVE  payout'[x][s] = "none" <=> payout[x][s] = "none"
      <4>1. CASE x # d BY <4>1, <3>3
      <4>2. CASE x = d
        <5>1. payout'[x] = [payout[d] EXCEPT ![r] = "approved"] BY <4>2, <3>3
        <5>2. payout'[x][s] = IF s = r THEN "approved" ELSE payout[d][s] BY <5>1, <1>2 DEF TypeOK
        <5> QED BY <4>2, <5>2, <1>2
      <4> QED BY <4>1, <4>2
    <3> QED BY <3>4, <3>5
  <2> QED BY <1>4, <2>1, <2>2
<1>6. \/ Finish(e) \/ Goto(e, "rerecord", r, "queued") \/ Goto(e, "fail", r, "queued")
  BY DEF ApprovePayout
<1>7. CASE Finish(e)
  BY <1>1, <1>3, <1>5, <1>7, LinkedMove DEF Finish, Job
<1>8. CASE Goto(e, "rerecord", r, "queued")
  <2> DEFINE j == [step |-> "rerecord", payout |-> d, ref |-> r, answer |-> "queued"]
  <2>1. j \in Job BY <1>2 DEF Job, Steps, Reported
  <2>2. exec' = [exec EXCEPT ![e] = j] BY <1>8 DEF Goto
  <2> QED BY <1>1, <1>3, <1>5, <2>1, <2>2, LinkedMove
<1>9. CASE Goto(e, "fail", r, "queued")
  <2> DEFINE j == [step |-> "fail", payout |-> d, ref |-> r, answer |-> "queued"]
  <2>1. j \in Job BY <1>2 DEF Job, Steps, Reported
  <2>2. exec' = [exec EXCEPT ![e] = j] BY <1>9 DEF Goto
  <2>3. j.step = "fail" /\ j.payout = d /\ j.ref = r OBVIOUS
  <2> HIDE DEF j
  <2> QED BY <1>1, <1>3, <1>5, <2>1, <2>2, <2>3, LinkedMove
<1> QED BY <1>6, <1>7, <1>8, <1>9

(* A resumed request acting on Iris's answer, or on the lack of one.       *)
LEMMA ResumeIInv ==
  ASSUME IInv, NEW e \in Executors, ResumeExisting(e)
  PROVE  IInv'
<1> DEFINE d == exec[e].payout
           r == exec[e].ref
<1>1. exec[e].step = "resume" /\ Linked(e)
  BY DEF ResumeExisting, Linked
<1>2. d \in Payouts /\ r \in Refs /\ TypeOK
  BY <1>1, LinkedHasRef DEF IInv
<1>3. UNCHANGED <<row, booked, newer, sweep, told>> /\ payout' = payout
  BY DEF ResumeExisting, iris
<1>4. payout' \in [Payouts -> [Refs -> IrisState]]
  BY <1>2, <1>3 DEF TypeOK
<1>5. \E s \in {"park", "reapprove", "settle"} : \E w \in Reported : Goto(e, s, r, w)
  BY DEF ResumeExisting, Reported
<1>6. PICK s \in {"park", "reapprove", "settle"}, w \in Reported : Goto(e, s, r, w)
  BY <1>5
<1> DEFINE j == [step |-> s, payout |-> d, ref |-> r, answer |-> w]
<1>7. j \in Job
  BY <1>2, <1>6 DEF Job, Steps
<1>8. exec' = [exec EXCEPT ![e] = j]
  BY <1>6 DEF Goto
<1>9. j.step \in {"park", "reapprove", "settle"} /\ j.payout = d /\ j.ref = r
  BY <1>6
<1> HIDE DEF j
<1> QED BY <1>1, <1>3, <1>4, <1>7, <1>8, <1>9, LinkedMove

(* Recording the reference of a create: the row's one payout is now known  *)
(* to it, and its request linked to it.  Recording it again changes nothing.*)
LEMMA MarkExecutedIInv ==
  ASSUME IInv, NEW e \in Executors, MarkExecuted(e)
  PROVE  IInv'
<1> DEFINE d == exec[e].payout
           r == exec[e].ref
<1>1. UNCHANGED <<booked, sweep, iris>> /\ booked' = booked /\ sweep' = sweep /\ payout' = payout /\ told' = told
  BY DEF MarkExecuted, iris
<1>2. CASE exec[e].step = "rerecord"
  <2>1. Linked(e) BY <1>2 DEF Linked
  <2>2. /\ exec[e] # Idle /\ d \in Payouts /\ row[d].ref = r /\ row[d].status \in RowStatus
    BY <2>1, LinkedHasRef DEF IInv, TypeOK
  <2>3. Finish(e) BY <1>2 DEF MarkExecuted
  <2>4. KeepRow \/ SetRow(d, row[d].status, row[d].ref) BY <2>2 DEF MarkExecuted
  <2> QED BY <1>1, <2>2, <2>3, <2>4, StopIInv
<1>3. CASE exec[e].step = "record"
  <2> DEFINE j == [step |-> "approve", payout |-> d, ref |-> r, answer |-> "queued"]
  <2> USE DEF IInv, PInv
  <2>1. Fresh(e) BY <1>3 DEF Fresh
  <2>2. /\ d \in Payouts /\ row[d].status = "queued" /\ row[d].ref = NoRef
        /\ \A f \in Executors : f # e /\ (Fresh(f) \/ Linked(f)) => exec[f].payout # d
    BY <2>1, FreshOwnsRow
  <2>3. r \in Refs /\ payout[d][r] # "none"
    BY <1>3, <2>1 DEF FreshRow, FreshOK
  <2>4. SetRow(d, "queued", r) /\ exec' = [exec EXCEPT ![e] = j]
    BY <1>3, <2>2 DEF MarkExecuted, Settled, Goto
  <2>5. /\ row' \in [Payouts -> [status : RowStatus, ref : Refs \cup {NoRef}]]
        /\ newer' \in [Payouts -> SUBSET Payouts]
        /\ row'[d].status = "queued" /\ row'[d].ref = r
        /\ \A x \in Payouts : x # d => row'[x] = row[x]
    <3>1. "queued" \in RowStatus /\ r \in Refs \cup {NoRef} BY <2>3 DEF RowStatus
    <3> QED BY <2>2, <2>4, <3>1, SetRowEffect, ZenonT(40)
  <2>6. j \in Job BY <2>2, <2>3 DEF Job, Steps, Reported
  <2>7. exec' \in [Executors -> Job] /\ exec'[e] = j /\ \A f \in Executors : f # e => exec'[f] = exec[f]
    BY <2>4, <2>6 DEF TypeOK
  <2>8. TypeOK' BY <1>1, <2>3, <2>5, <2>7 DEF TypeOK
  <2>9. r # NoRef BY <2>3, ConstantsAssumption
  <2>10. BookedWhenSettled' /\ OnePayout' /\ Unsent' /\ SweptRow'
    BY <1>1, <2>2, <2>5, <2>9 DEF BookedWhenSettled, OnePayout, Unsent, SweptRow, NoneAtIris, Settled
  <2>11. \A f \in Executors : /\ Fresh(f)' => f # e /\ Fresh(f) /\ exec'[f] = exec[f]
                              /\ Linked(f)' /\ f # e => Linked(f) /\ exec'[f] = exec[f]
    BY <2>7 DEF Fresh, Linked
  <2>12. FreshRow' /\ FreshAlone'
    <3>1. ASSUME NEW f \in Executors, Fresh(f)' PROVE FreshOK(f)'
      <4>1. f # e /\ Fresh(f) /\ exec'[f] = exec[f] BY <2>11, <3>1
      <4>2. exec[f].payout \in Payouts /\ exec[f].payout # d BY <4>1, <2>2, FreshOwnsRow
      <4> QED BY <4>1, <4>2, <1>1, <2>5 DEF FreshRow, FreshOK, NoneAtIris
    <3>2. FreshRow' BY <3>1 DEF FreshRow
    <3> QED BY <2>11, <3>2 DEF FreshAlone
  <2>13. ASSUME NEW f \in Executors, Linked(f)'
         PROVE  exec'[f].ref \in Refs /\ row'[exec'[f].payout].ref = exec'[f].ref
    <3>1. CASE f = e BY <3>1, <2>3, <2>5, <2>7
    <3>2. CASE f # e
      <4>1. Linked(f) /\ exec'[f] = exec[f] BY <2>11, <2>13, <3>2
      <4>2. exec[f].payout \in Payouts /\ exec[f].payout # d BY <4>1, <3>2, <2>2, LinkedHasRef
      <4> QED BY <4>1, <4>2, <2>5 DEF LinkedRow
    <3> QED BY <3>1, <3>2
  <2>14. LinkedRow' BY <2>13 DEF LinkedRow
  <2> QED BY <2>8, <2>10, <2>12, <2>14
<1> QED BY <1>2, <1>3 DEF MarkExecuted

(* Failing a row: either its create was rejected and nothing was sent, or  *)
(* it keeps the reference of what was; a settled row is left alone.        *)
LEMMA MarkFailedIInv ==
  ASSUME IInv, NEW e \in Executors, MarkFailed(e)
  PROVE  IInv'
<1> DEFINE d == exec[e].payout
           r == exec[e].ref
<1> USE DEF IInv, PInv
<1>1. exec[e].step = "fail" /\ Finish(e)
      /\ UNCHANGED <<booked, sweep, iris>> /\ booked' = booked /\ sweep' = sweep /\ payout' = payout /\ told' = told
  BY DEF MarkFailed, iris
<1>2. exec[e] # Idle /\ d \in Payouts /\ r \in Refs \cup {NoRef}
  BY <1>1, JobFields DEF Idle
<1>3. /\ row[d].ref = r
      /\ r = NoRef => NoneAtIris(d) /\ \A f \in Executors : f # e => ~(Fresh(f) /\ exec[f].payout = d)
      /\ r # NoRef => \A f \in Executors : ~(Fresh(f) /\ exec[f].payout = d)
  <2>1. CASE r = NoRef
    <3>1. Fresh(e) BY <1>1, <2>1 DEF Fresh
    <3> QED BY <1>1, <2>1, <3>1, FreshOwnsRow DEF FreshRow, FreshOK
  <2>2. CASE r # NoRef
    <3>1. Linked(e) BY <1>1, <2>2 DEF Linked
    <3>2. row[d].ref = r BY <3>1, LinkedHasRef
    <3> QED BY <2>2, <3>2, FreshOwnsRow
  <2> QED BY <2>1, <2>2
<1>4. CASE row[d].status \in Settled
  <2>1. KeepRow BY <1>4 DEF MarkFailed, Failable
  <2> QED BY <1>1, <1>2, <2>1, StopIInv
<1>5. CASE row[d].status \notin Settled
  <2>1. SetRow(d, "failed", r)
    BY <1>3, <1>5 DEF MarkFailed, Failable
  <2>2. /\ row' \in [Payouts -> [status : RowStatus, ref : Refs \cup {NoRef}]]
        /\ newer' \in [Payouts -> SUBSET Payouts]
        /\ row'[d].status = "failed" /\ row'[d].ref = r
        /\ \A x \in Payouts : x # d => row'[x] = row[x]
    <3>1. "failed" \in RowStatus BY DEF RowStatus
    <3>2. TypeOK OBVIOUS
    <3> HIDE DEF d, r, IInv, PInv
    <3> QED BY <1>2, <2>1, <3>1, <3>2, SetRowEffect, ZenonT(40)
  <2>3. exec' \in [Executors -> Job] /\ \A f \in Executors : exec'[f] = IF f = e THEN Idle ELSE exec[f]
    BY <1>1 DEF Finish, TypeOK, Job
  <2>4. \A x \in Payouts : row'[x].ref = row[x].ref
    BY <1>3, <2>2
  <2>5. TypeOK' BY <1>1, <2>2, <2>3, <2>4 DEF TypeOK
  <2>6. BookedWhenSettled' /\ OnePayout' /\ Unsent' /\ SweptRow'
    BY <1>1, <1>3, <1>5, <2>2, <2>4
       DEF BookedWhenSettled, OnePayout, Unsent, SweptRow, NoneAtIris, Settled
  <2>7. \A f \in Executors : /\ Fresh(f)' => f # e /\ Fresh(f) /\ exec'[f] = exec[f]
                             /\ Linked(f)' => f # e /\ Linked(f) /\ exec'[f] = exec[f]
    BY <2>3 DEF Fresh, Linked, Idle
  <2>8. FreshRow' /\ FreshAlone'
    <3>1. ASSUME NEW f \in Executors, Fresh(f)' PROVE FreshOK(f)'
      <4>1. f # e /\ Fresh(f) /\ exec'[f] = exec[f] BY <2>7, <3>1
      <4>2. exec[f].payout \in Payouts /\ exec[f].payout # d BY <4>1, <1>3, FreshOwnsRow
      <4> QED BY <4>1, <4>2, <1>1, <2>2 DEF FreshRow, FreshOK, NoneAtIris
    <3>2. FreshRow' BY <3>1 DEF FreshRow
    <3> QED BY <2>7, <3>2 DEF FreshAlone
  <2>9. ASSUME NEW f \in Executors, Linked(f)'
        PROVE  exec'[f].ref \in Refs /\ row'[exec'[f].payout].ref = exec'[f].ref
    <3>1. Linked(f) /\ exec'[f] = exec[f] BY <2>7, <2>9
    <3>2. exec[f].payout \in Payouts BY <3>1, LinkedHasRef
    <3> QED BY <3>1, <3>2, <2>4 DEF LinkedRow
  <2>10. LinkedRow' BY <2>9 DEF LinkedRow
  <2> QED BY <2>5, <2>6, <2>8, <2>10
<1> QED BY <1>4, <1>5

-----------------------------------------------------------------------------
(* Every step keeps the inductive invariant.                               *)
LEMMA NextIInv == IInv /\ [Next]_vars => IInv'
<1> SUFFICES ASSUME IInv, [Next]_vars PROVE IInv' OBVIOUS
<1>1. ASSUME NEW d \in Payouts, EnqueueOnRelease(d) PROVE IInv'
  BY <1>1, EnqueueIInv
<1>2. ASSUME NEW d \in Payouts, SweepAsk(d) \/ SweepDrop(d) PROVE IInv'
  BY <1>2, SweepIInv
<1>3. ASSUME NEW d \in Payouts, SweepSettle(d) PROVE IInv'
  <2>1. row[d].ref # NoRef BY <1>3 DEF SweepSettle, IInv, PInv, SweptRow
  <2>2. Settle(d, sweep[d]) /\ UNCHANGED iris /\ exec' = exec /\ sweep' = [sweep EXCEPT ![d] = "nothing"]
    BY <1>3 DEF SweepSettle
  <2> QED BY <2>1, <2>2, SettleIInv
<1>4. ASSUME NEW d \in Payouts, NEW r \in Refs, Iris(d, r) PROVE IInv'
  BY <1>4, IrisIInv
<1>5. ASSUME NEW d \in Payouts, NEW r \in Refs, IrisPayoutNotification(d, r) PROVE IInv'
  <2>1. row[d].ref # NoRef BY <1>5, ConstantsAssumption DEF IrisPayoutNotification
  <2>2. PICK w : Settle(d, w) BY <1>5 DEF IrisPayoutNotification
  <2>3. UNCHANGED iris /\ exec' = exec /\ sweep' = sweep BY <1>5 DEF IrisPayoutNotification
  <2> QED BY <2>1, <2>2, <2>3, SettleIInv
<1>6. ASSUME NEW e \in Executors, NEW d \in Payouts, ClaimForExecution(e, d) PROVE IInv'
  BY <1>6, ClaimIInv
<1>7. ASSUME NEW e \in Executors, CreatePayout(e) PROVE IInv'
  BY <1>7, CreateIInv
<1>8. ASSUME NEW e \in Executors, MarkExecuted(e) PROVE IInv'
  BY <1>8, MarkExecutedIInv
<1>9. ASSUME NEW e \in Executors, ApprovePayout(e) PROVE IInv'
  BY <1>9, ApproveIInv
<1>10. ASSUME NEW e \in Executors, MarkFailed(e) PROVE IInv'
  BY <1>10, MarkFailedIInv
<1>11. ASSUME NEW e \in Executors, MarkAmbiguous(e) PROVE IInv'
  <2>1. exec[e] # Idle BY <1>11 DEF MarkAmbiguous, Idle
  <2>2. exec[e].payout \in Payouts BY <2>1, JobFields DEF IInv
  <2>3. KeepRow \/ (SetRow(exec[e].payout, "queued", row[exec[e].payout].ref) /\ row[exec[e].payout].status = "queued")
    BY <1>11 DEF MarkAmbiguous
  <2>4. "queued" \in RowStatus BY DEF RowStatus
  <2>5. Finish(e) /\ UNCHANGED <<booked, sweep, iris>> BY <1>11 DEF MarkAmbiguous
  <2> QED BY <2>1, <2>3, <2>4, <2>5, StopIInv
<1>12. ASSUME NEW e \in Executors, ResumeExisting(e) PROVE IInv'
  BY <1>12, ResumeIInv
<1>13. ASSUME NEW e \in Executors, ResumeSettle(e) PROVE IInv'
  <2>1. Linked(e) BY <1>13 DEF ResumeSettle, Linked
  <2>2. exec[e].payout \in Payouts /\ row[exec[e].payout].ref # NoRef BY <2>1, LinkedHasRef
  <2>3. Settle(exec[e].payout, exec[e].answer) /\ Finish(e) /\ UNCHANGED iris /\ sweep' = sweep
    BY <1>13 DEF ResumeSettle
  <2> QED BY <2>2, <2>3, SettleIInv
<1>14. ASSUME NEW e \in Executors, Abandon(e) PROVE IInv'
  <2>1. exec[e] # Idle /\ Finish(e) /\ UNCHANGED <<booked, sweep, iris>> /\ KeepRow
    BY <1>14 DEF Abandon, iris, KeepRow
  <2> QED BY <2>1, StopIInv
<1>15. CASE UNCHANGED vars
  BY <1>15 DEF vars, IInv, PInv, TypeOK, BookedWhenSettled, OnePayout, Unsent, FreshRow, FreshOK,
               FreshAlone, LinkedRow, SweptRow, Fresh, Linked, NoneAtIris
<1> QED BY <1>1, <1>2, <1>3, <1>4, <1>5, <1>6, <1>7, <1>8, <1>9, <1>10, <1>11, <1>12, <1>13, <1>14, <1>15
        DEF Next

(* The strengthening holds always.                                         *)
THEOREM InvHolds == Spec => []IInv
<1>1. Init => IInv BY InitIInv
<1>2. IInv /\ [Next]_vars => IInv' BY NextIInv
<1> QED BY <1>1, <1>2, PTL DEF Spec

(* Rows, requests and payouts keep their types, and a recorded reference   *)
(* is always one Iris handed out for that row.                             *)
THEOREM TypeCorrect == Spec => []TypeOK
<1>1. IInv => TypeOK BY DEF IInv
<1> QED BY <1>1, InvHolds, PTL

(* However many operators, retries, crashes, timeouts and notifications    *)
(* meet on it, a row is never paid through more than one Iris payout.      *)
THEOREM PaidOnce == Spec => []OnePayout
<1>1. IInv => OnePayout BY DEF IInv, PInv
<1> QED BY <1>1, InvHolds, PTL

(* The ledger carries a payout's entries once, exactly while its row says  *)
(* that the money left.                                                    *)
THEOREM BookedOnceSettled == Spec => []BookedWhenSettled
<1>1. IInv => BookedWhenSettled BY DEF IInv
<1> QED BY <1>1, InvHolds, PTL

(* One step never takes a settled row back.                                *)
LEMMA FinalStep ==
  ASSUME IInv, [Next]_vars, NEW d \in Payouts, row[d].status \in Settled
  PROVE  /\ row'[d].status \in Settled
         /\ row[d].status = "completed" => row'[d].status = "completed"
         /\ row'[d].ref = row[d].ref
<1> DEFINE Kept == /\ row'[d].status \in Settled
                   /\ row[d].status = "completed" => row'[d].status = "completed"
                   /\ row'[d].ref = row[d].ref
<1>1. TypeOK /\ BookedWhenSettled BY DEF IInv
<1>2. ASSUME NEW x \in Payouts, NEW w, Settle(x, w) PROVE Kept
  <2>1. PICK s \in RowStatus :
          /\ row' = [row EXCEPT ![x] = [status |-> s, ref |-> row[x].ref]]
          /\ row[x].status \in Settled => s \in Settled
          /\ row[x].status = "completed" => s = "completed"
    BY <1>1, <1>2, SettleEffect
  <2> QED BY <1>1, <2>1 DEF TypeOK
<1>3. ASSUME NEW x \in Payouts, NEW s, NEW ref, SetRow(x, s, ref), row[x].status \notin Settled
      PROVE  Kept
  BY <1>1, <1>3 DEF SetRow, TypeOK
<1>4. ASSUME row' = row PROVE Kept
  BY <1>4
<1>5. ASSUME NEW x \in Payouts, EnqueueOnRelease(x) PROVE Kept
  BY <1>3, <1>5 DEF EnqueueOnRelease, Settled
<1>6. ASSUME NEW x \in Payouts, SweepAsk(x) \/ SweepDrop(x) PROVE Kept
  BY <1>4, <1>6 DEF SweepAsk, SweepDrop
<1>7. ASSUME NEW x \in Payouts, SweepSettle(x) PROVE Kept
  BY <1>2, <1>7 DEF SweepSettle
<1>8. ASSUME NEW x \in Payouts, NEW r \in Refs, Iris(x, r) PROVE Kept
  BY <1>4, <1>8 DEF Iris, IrisStep
<1>9. ASSUME NEW x \in Payouts, NEW r \in Refs, IrisPayoutNotification(x, r) PROVE Kept
  BY <1>2, <1>9 DEF IrisPayoutNotification
<1>10. ASSUME NEW e \in Executors, NEW x \in Payouts, ClaimForExecution(e, x) PROVE Kept
  BY <1>3, <1>10 DEF ClaimForExecution, Settled
<1>11. ASSUME NEW e \in Executors, CreatePayout(e) \/ ApprovePayout(e) \/ ResumeExisting(e) \/ Abandon(e)
       PROVE  Kept
  BY <1>4, <1>11 DEF CreatePayout, ApprovePayout, ResumeExisting, Abandon
<1>12. ASSUME NEW e \in Executors, MarkExecuted(e) \/ MarkFailed(e) \/ MarkAmbiguous(e) PROVE Kept
  <2>1. exec[e].payout \in Payouts
    BY <1>1, <1>12, JobFields DEF MarkExecuted, MarkFailed, MarkAmbiguous, Idle
  <2>2. KeepRow \/ \E s, ref : SetRow(exec[e].payout, s, ref) /\ row[exec[e].payout].status \notin Settled
    BY <1>12 DEF MarkExecuted, MarkFailed, MarkAmbiguous, Failable, Settled
  <2> QED BY <1>3, <1>4, <2>1, <2>2 DEF KeepRow
<1>13. ASSUME NEW e \in Executors, ResumeSettle(e) PROVE Kept
  <2>1. exec[e].payout \in Payouts
    BY <1>1, <1>13, JobFields DEF ResumeSettle, Idle
  <2> QED BY <1>2, <1>13, <2>1 DEF ResumeSettle
<1>14. CASE UNCHANGED vars
  BY <1>4, <1>14 DEF vars
<1> QED BY <1>5, <1>6, <1>7, <1>8, <1>9, <1>10, <1>11, <1>12, <1>13, <1>14 DEF Next

(* Nothing an executor, the sweep or a notification learns late moves a    *)
(* payout that has left for the bank back into the claimable set.          *)
THEOREM SettledStaysSettled == Spec => SettledRowIsFinal
<1>1. IInv /\ [Next]_vars =>
        [\A d \in Payouts :
           row[d].status \in Settled =>
             /\ row'[d].status \in Settled
             /\ row[d].status = "completed" => row'[d].status = "completed"
             /\ row'[d].ref = row[d].ref]_vars
  BY FinalStep
<1> QED BY <1>1, InvHolds, PTL DEF Spec, SettledRowIsFinal
=============================================================================
