------------------------------ MODULE Lifecycle ------------------------------
(***************************************************************************)
(* A project's status from the review of its PRD on, the escrow under it   *)
(* and the disputes about it: the owner's and the operator's transitions,  *)
(* the settlement that starts the matching, the last milestone approval    *)
(* that starts the review, the cancellation and the resolutions that       *)
(* refund, the workflow that escalates a dispute.  Each handler reads,     *)
(* decides, calls payment-service and writes in separate statements.  A    *)
(* call to payment-service is one step here, as EscrowPromise has it for a *)
(* key that is not contested: two calls that overlap under one key, which  *)
(* may move its money twice, are in EscrowLedger and not here.             *)
(***************************************************************************)
EXTENDS Integers, Sequences, FiniteSets, Functions, FiniteSetsExt

CONSTANTS
  Callers,     \* requests and consumer deliveries in flight
  Amounts,     \* <<amount of each escrow deposit>>, in order of creation
  Disputes,    \* dispute ids
  Cancel,      \* the cause of a cancellation's refunds
  Milestones,  \* how many milestones of one unit the project has
  PackageShares \* what a work package may still be owed when a case asks

ASSUME ConstantsAssumption ==
  /\ IsFiniteSet(Callers)
  /\ Amounts \in Seq(Nat \ {0})
  /\ Cancel \notin Disputes
  /\ Milestones \in Nat
  /\ \A share \in PackageShares : share \in Nat

Deposits == DOMAIN Amounts
Causes == Disputes \cup {Cancel}

Before == {"draft", "scoping", "brd_review", "prd_review", "matching"}
DISPUTABLE_STATUSES == {"in_progress", "final_review"}
Ended == {"completed", "cancelled"}
Statuses == Before \cup DISPUTABLE_STATUSES \cup Ended

(* VALID_TRANSITIONS                                                       *)
Targets(s) ==
  CASE s = "draft"        -> {"scoping", "cancelled"}
    [] s = "scoping"      -> {"brd_review", "cancelled"}
    [] s = "brd_review"   -> {"prd_review", "cancelled"}
    [] s = "prd_review"   -> {"matching", "cancelled"}
    [] s = "matching"     -> {"in_progress", "cancelled"}
    [] s = "in_progress"  -> {"final_review", "cancelled"}
    [] s = "final_review" -> {"completed", "cancelled"}
    [] s \in Ended        -> {}

(* A case is unresolved as open, under_review, mediation or escalated;     *)
(* from each of them validTransitions leads to a later one or to resolved. *)
DisputeStatuses == {"absent", "unresolved", "resolved"}
\* The targets that can ever be valid after prd_review.
Later == {"matching"} \cup DISPUTABLE_STATUSES \cup Ended

Outcomes == {"funds_to_talent", "funds_to_owner", "split"}

VARIABLES
  status,      \* projects.status
  deposit,     \* [Deposits -> status of the escrow_in row]
  balance,     \* what the project's escrow pools hold
  unpaid,      \* milestones whose slice is still in escrow
  unapproved,  \* milestones not approved
  asked,       \* [Causes -> [Deposits -> amount of the refund row, or 0]]
  moved,       \* [Causes -> [Deposits -> money that refund moved]]
  dispute,     \* [Disputes -> [status, resolvedAt, outcome, scoped to a package]]
  call,        \* [Callers -> the request's next step and what it holds]
  tried,       \* [Disputes -> full refunds sized, refunds sized to nothing,
               \*  refunds that found the deposits gone] (history)
  excused      \* escrow a sizing or a gate could not see (history)

vars == <<status, deposit, balance, unpaid, unapproved, asked, moved, dispute,
          call, tried, excused>>
escrow == <<deposit, balance, asked, moved>>
work == <<unpaid, unapproved>>
history == <<tried, excused>>

Idle == [at |-> "idle", cause |-> Cancel, goal |-> "none", sawReview |-> FALSE,
         left |-> {}, remaining |-> 0]
Absent == [status |-> "absent", resolvedAt |-> FALSE, outcome |-> "none", scoped |-> FALSE]

Init ==
  /\ status = "prd_review"   \* nothing is deposited before it
  /\ deposit = [d \in Deposits |-> "pending"]
  /\ balance = 0
  /\ unpaid = Milestones
  /\ unapproved = Milestones
  /\ asked = [k \in Causes |-> [d \in Deposits |-> 0]]
  /\ moved = [k \in Causes |-> [d \in Deposits |-> 0]]
  /\ dispute = [k \in Disputes |-> Absent]
  /\ call = [c \in Callers |-> Idle]
  /\ tried = [k \in Disputes |-> {}]
  /\ excused = FALSE

GoesTo(c, step) == call' = [call EXCEPT ![c].at = step]
Answer(c) == call' = [call EXCEPT ![c] = Idle]

\* IS_DISPUTED: an unresolved row.
Disputed == \E k \in Disputes : dispute[k].status # "absent" /\ ~dispute[k].resolvedAt

-----------------------------------------------------------------------------
(* ESCROW: what payment-service does                                       *)

\* A request that has sized a refund, or has found nothing held.
Sized(c) == call[c].goal \in Ended /\ call[c].at \in {"list", "refund", "read", "write"}

\* A cancellation has refunded part of a deposit: its retry replays that
\* refund, and counts it at what is held then.
PartlyCancelled == \E d \in Deposits : deposit[d] = "completed" /\ moved[Cancel][d] > 0

(* The gateway settles a checkout: row, ledger and payment.settled.        *)
FundEscrow(d) ==
  /\ deposit[d] = "pending"
  /\ deposit' = [deposit EXCEPT ![d] = "completed"]
  /\ balance' = balance + Amounts[d]
  /\ excused' = \/ excused \/ status \in Ended \/ PartlyCancelled
                 \/ \E c \in Callers : Sized(c)
  /\ UNCHANGED <<status, work, asked, moved, dispute, call, tried>>

(* The release of a milestone's slice, by the owner's approval, the        *)
(* workflow or the sweep: none of them looks at the project or its case.   *)
PayMilestone ==
  /\ unpaid > 0 /\ balance > 0
  /\ status \notin Before
  /\ unpaid' = unpaid - 1
  /\ balance' = balance - 1
  /\ UNCHANGED <<status, deposit, unapproved, asked, moved, dispute, call, history>>

(* The project-wide cap: completed refund rows against completed deposits. *)
CapAdmits(k, d, amount) ==
  LET Rows == {x \in Causes \X Deposits : x # <<k, d>> /\ moved[x[1]][x[2]] > 0}
      refunded == MapThenSumSet(LAMBDA x : asked[x[1]][x[2]], Rows)
      funded == SumFunctionOnSet(Amounts, {x \in Deposits : deposit[x] = "completed"})
  IN  refunded + amount <= funded

\* MUTANT: every attempt refunds under a key of its own.
NeverReplays(k, d) == FALSE

(* The key of a completed refund replays it.                               *)
Replays(k, d) == moved[k][d] > 0

(* ProcessRefund: the row commits first, under the amount first asked for; *)
(* the ledger follows if the deposit, the cap and the pools admit it.      *)
RefundRow(k, d, amount) ==
  asked' = [asked EXCEPT ![k][d] = IF @ = 0 THEN amount ELSE @]

RefundMoves(k, d, amount) ==
  /\ ~Replays(k, d)
  /\ amount <= balance
  /\ CapAdmits(k, d, amount)
  /\ RefundRow(k, d, amount)
  /\ moved' = [moved EXCEPT ![k][d] = @ + amount]
  /\ balance' = balance - amount
  /\ deposit' = [deposit EXCEPT ![d] = IF amount = Amounts[d] THEN "refunded" ELSE @]

-----------------------------------------------------------------------------
(* POST /projects/:id/transition                                           *)

(* The owner (or an operator, who may not cancel) asks; the row is read,   *)
(* and a cancellation must be valid from the status it shows.              *)
AskTransition(c, target) ==
  /\ call[c].at = "idle"
  /\ target = "cancelled" => "cancelled" \in Targets(status)
  /\ call' = [call EXCEPT ![c] =
       [Idle EXCEPT !.at = IF target \in Ended THEN "gate" ELSE "read", !.goal = target,
                    !.sawReview = target = "completed" /\ status = "final_review"]]
  /\ UNCHANGED <<status, escrow, work, dispute, history>>

\* MUTANT: completion is admitted with money in escrow.
ApprovedOnly == unapproved = 0

(* Every milestone approved and nothing held.                              *)
NothingOutstanding == unapproved = 0 /\ balance = 0

(* The gates of an end: completing asks for nothing outstanding, but only  *)
(* of a project it saw in review; an open case stops the owner, and only   *)
(* the owner cancels.  The gates of a start of work, seats filled and      *)
(* agreements signed, are not modelled: Crash stands for any refusal.      *)
Gate(c) ==
  /\ call[c].at = "gate"
  /\ \/ /\ call[c].goal = "completed"
        /\ call[c].sawReview => NothingOutstanding
        /\ GoesTo(c, "read")
     \/ /\ call[c].goal = "cancelled"
        /\ ~Disputed
        /\ GoesTo(c, "size")
  /\ UNCHANGED <<status, escrow, work, dispute, history>>

(* transitionStatus validates against a read of its own.                   *)
ReadStatus(c) ==
  /\ call[c].at = "read"
  /\ IF call[c].goal \in Targets(status) THEN GoesTo(c, "write") ELSE Answer(c)
  /\ UNCHANGED <<status, escrow, work, dispute, history>>

(* updateStatus writes by id, whatever the status is by now.               *)
WriteStatus(c) ==
  /\ call[c].at = "write"
  /\ status' = call[c].goal
  /\ excused' = (excused \/ (call[c].goal = "completed" /\ ~call[c].sawReview))
  /\ Answer(c)
  /\ UNCHANGED <<escrow, work, dispute, tried>>

(* settleEscrow: payment.settled, delivered once or again.                 *)
SettleEscrow(c, d) ==
  /\ call[c].at = "idle"
  /\ deposit[d] # "pending"
  /\ call' = [call EXCEPT ![c] = [Idle EXCEPT !.at = "read", !.goal = "matching"]]
  /\ UNCHANGED <<status, escrow, work, dispute, history>>

(* A milestone is approved; the last approval moves the project to review. *)
ApproveMilestone(c) ==
  /\ call[c].at = "idle"
  /\ status \notin Before
  /\ unapproved > 0
  /\ unapproved' = unapproved - 1
  /\ IF unapproved = 1
     THEN call' = [call EXCEPT ![c] = [Idle EXCEPT !.at = "read", !.goal = "final_review"]]
     ELSE UNCHANGED call
  /\ UNCHANGED <<status, escrow, unpaid, dispute, history>>

-----------------------------------------------------------------------------
(* REFUNDS, of a cancellation and of a resolution                          *)

(* What a refund may return: a case about a work package no more than the   *)
(* package is still owed, every other all that is held.                    *)
Claims(c) ==
  IF call[c].cause \in Disputes /\ dispute[call[c].cause].scoped
  THEN {Min({share, balance}) : share \in PackageShares}
  ELSE {balance}

(* disputeRefundAmount: a split returns half of it, rounded down.          *)
RefundSize(goal, claim) == IF goal = "split" THEN claim \div 2 ELSE claim

(* The balance is asked for and the refund sized; nothing to return, and   *)
(* the deposits are not looked at.  A package that is not on the project   *)
(* is refused, which Crash stands for.                                     *)
SizeRefund(c) ==
  /\ call[c].at = "size"
  /\ \E claim \in Claims(c) :
       LET size == RefundSize(call[c].goal, claim)
       IN  /\ call' = [call EXCEPT ![c].remaining = size,
                                   ![c].at = IF size = 0 THEN "refund" ELSE "list"]
           /\ tried' = IF call[c].cause = Cancel THEN tried
                       ELSE [tried EXCEPT ![call[c].cause] =
                               @ \cup (IF size = 0 THEN {"nothing"} ELSE {})
                                 \cup ({call[c].goal} \ {"split"})]
  /\ UNCHANGED <<status, escrow, work, dispute, excused>>

(* The deposits still completed by then; without one nothing is refunded.  *)
ListDeposits(c) ==
  LET found == {d \in Deposits : deposit[d] = "completed"}
  IN  /\ call[c].at = "list"
      /\ call' = [call EXCEPT ![c].left = found, ![c].at = "refund"]
      /\ tried' = IF call[c].cause \in Disputes /\ found = {}
                  THEN [tried EXCEPT ![call[c].cause] = @ \cup {"gone"}]
                  ELSE tried
      /\ UNCHANGED <<status, escrow, work, dispute, excused>>

Spread(c) == call[c].left # {} /\ call[c].remaining > 0

(* A resolution goes through the deposits in order of creation, a          *)
(* cancellation in whatever order the query returned them.                 *)
Visits(c) == IF call[c].cause = Cancel THEN call[c].left ELSE {Min(call[c].left)}

(* One refund of a deposit that is still completed: it moves or replays    *)
(* and is heard, or the request fails with it, having moved the money, or  *)
(* only left its row behind.                                               *)
RefundDeposit(c, d) ==
  /\ call[c].at = "refund" /\ Spread(c)
  /\ d \in Visits(c)
  /\ LET k == call[c].cause
         amount == Min({call[c].remaining, Amounts[d]})
         heard == call' = [call EXCEPT ![c].left = @ \ {d}, ![c].remaining = @ - amount]
     IN  /\ deposit[d] = "completed"
         /\ \/ RefundMoves(k, d, amount) /\ (heard \/ Answer(c))
            \/ Replays(k, d) /\ heard /\ UNCHANGED <<deposit, balance, asked, moved>>
            \/ RefundRow(k, d, amount) /\ Answer(c) /\ UNCHANGED <<deposit, balance, moved>>
  /\ UNCHANGED <<status, work, dispute, history>>

(* Money first: the status flip or the resolution comes after the refunds. *)
RefundsDone(c) ==
  /\ call[c].at = "refund" /\ ~Spread(c)
  /\ call' = [call EXCEPT ![c] =
       [@ EXCEPT !.at = IF call[c].cause = Cancel THEN "read" ELSE "record",
                 !.left = {}, !.remaining = 0]]
  /\ UNCHANGED <<status, escrow, work, dispute, history>>

-----------------------------------------------------------------------------
(* DISPUTES                                                                *)

(* POST /disputes: the status and the open case are read, then the row is  *)
(* inserted, about one work package or about the project.                  *)
AskDispute(c, k) ==
  /\ call[c].at = "idle"
  /\ dispute[k].status = "absent"
  /\ status \in DISPUTABLE_STATUSES
  /\ ~Disputed
  /\ call' = [call EXCEPT ![c] = [Idle EXCEPT !.at = "insert", !.cause = k]]
  /\ UNCHANGED <<status, escrow, work, dispute, history>>

InsertDispute(c) ==
  /\ call[c].at = "insert"
  /\ dispute[call[c].cause].status = "absent"
  /\ \E scoped \in BOOLEAN :
       dispute' = [dispute EXCEPT ![call[c].cause] =
                     [Absent EXCEPT !.status = "unresolved", !.scoped = scoped]]
  /\ Answer(c)
  /\ UNCHANGED <<status, escrow, work, history>>

(* PATCH /disputes/:id/status by an operator, to a later status or to      *)
(* resolved, and advanceDisputePhase of the workflow, to the status of its *)
(* phase: a case read as unresolved is written by id.                      *)
AskDisputeStatus(c, k, s) ==
  /\ call[c].at = "idle"
  /\ dispute[k].status = "unresolved"
  /\ s # "absent"
  /\ call' = [call EXCEPT ![c] = [Idle EXCEPT !.at = "move", !.cause = k, !.goal = s]]
  /\ UNCHANGED <<status, escrow, work, dispute, history>>

WriteDisputeStatus(c) ==
  /\ call[c].at = "move"
  /\ dispute' = [dispute EXCEPT ![call[c].cause].status = call[c].goal]
  /\ Answer(c)
  /\ UNCHANGED <<status, escrow, work, history>>

\* MUTANT: the resolution is recorded before its refund.
RecordFirst(outcome) == "record"

(* Money moves before the dispute is marked resolved.                      *)
FirstStep(outcome) == IF outcome = "funds_to_talent" THEN "record" ELSE "size"

(* PATCH /disputes/:id/resolve                                             *)
AskResolution(c, k, outcome) ==
  /\ call[c].at = "idle"
  /\ dispute[k].status = "unresolved"
  /\ call' = [call EXCEPT ![c] =
       [Idle EXCEPT !.at = FirstStep(outcome), !.cause = k, !.goal = outcome]]
  /\ UNCHANGED <<status, escrow, work, dispute, history>>

RecordResolution(c) ==
  /\ call[c].at = "record"
  /\ dispute' = [dispute EXCEPT ![call[c].cause] =
       [@ EXCEPT !.status = "resolved", !.resolvedAt = TRUE, !.outcome = call[c].goal]]
  /\ Answer(c)
  /\ UNCHANGED <<status, escrow, work, history>>

(* The request fails or its process dies between two steps.                *)
Crash(c) ==
  /\ call[c].at # "idle"
  /\ Answer(c)
  /\ UNCHANGED <<status, escrow, work, dispute, history>>

-----------------------------------------------------------------------------
Transition(c) ==
  \/ \E target \in Later : AskTransition(c, target)
  \/ Gate(c) \/ ReadStatus(c) \/ WriteStatus(c)
  \/ \E d \in Deposits : SettleEscrow(c, d)
  \/ ApproveMilestone(c)

Refund(c) ==
  \/ SizeRefund(c) \/ ListDeposits(c)
  \/ (\E d \in Deposits : RefundDeposit(c, d))
  \/ RefundsDone(c)

Case(c) ==
  \/ \E k \in Disputes :
       \/ AskDispute(c, k)
       \/ \E s \in DisputeStatuses : AskDisputeStatus(c, k, s)
       \/ \E outcome \in Outcomes : AskResolution(c, k, outcome)
  \/ InsertDispute(c) \/ WriteDisputeStatus(c) \/ RecordResolution(c)

Next ==
  \/ \E d \in Deposits : FundEscrow(d)
  \/ PayMilestone
  \/ \E c \in Callers : Transition(c) \/ Refund(c) \/ Case(c) \/ Crash(c)

Spec == Init /\ [][Next]_vars

-----------------------------------------------------------------------------
(* PROPERTIES                                                              *)

Steps == {"idle", "gate", "read", "write", "size", "list", "refund", "record",
          "insert", "move"}
Goals == Later \cup DisputeStatuses \cup Outcomes \cup {"none"}

(* Types of the variables; money is never negative.                        *)
TypeOK ==
  /\ status \in Statuses
  /\ deposit \in [Deposits -> {"pending", "completed", "refunded"}]
  /\ balance \in Nat
  /\ unpaid \in 0..Milestones /\ unapproved \in 0..Milestones
  /\ asked \in [Causes -> [Deposits -> Nat]]
  /\ moved \in [Causes -> [Deposits -> Nat]]
  /\ dispute \in [Disputes -> [status : DisputeStatuses, resolvedAt : BOOLEAN,
                              outcome : Outcomes \cup {"none"}, scoped : BOOLEAN]]
  /\ call \in [Callers -> [at : Steps, cause : Causes, goal : Goals, sawReview : BOOLEAN,
                           left : SUBSET Deposits, remaining : Nat]]
  /\ tried \in [Disputes -> SUBSET {"funds_to_owner", "nothing", "gone"}]
  /\ excused \in BOOLEAN

MovedFor(k) == SumFunction(moved[k])
Funded == SumFunctionOnSet(Amounts, {d \in Deposits : deposit[d] # "pending"})

(* A project that has ended holds no escrow, whatever ran beside the       *)
(* request that ended it: unless a deposit settled after that request had  *)
(* sized the refund or found nothing held, or after an earlier attempt to  *)
(* cancel had refunded part of another one, which the retry then counts as *)
(* refunded at the new balance; or the completion was asked before the     *)
(* project was in review, where nothing looks at the balance.              *)
EndedHoldsNothing == status \in Ended => balance = 0 \/ excused

(* Retries after a crash, two operators whose calls do not overlap, a case *)
(* the workflow reopened: a case only ever split returns, of each deposit, *)
(* at most half of what was deposited in all.  Of two deposits together it *)
(* may return more: a retry after the first refund halves again what is    *)
(* left.                                                                   *)
SplitReturnsHalf ==
  \A k \in Disputes, d \in Deposits :
    "funds_to_owner" \notin tried[k] => 2 * moved[k][d] <= Funded

\* Another cause has refunded a deposit in full.
TakenByAnother(k) ==
  \E d \in Deposits, other \in Causes \ {k} : deposit[d] = "refunded" /\ moved[other][d] > 0

(* "If the refund fails, this throws ... The other order leaves a dispute  *)
(* recorded as resolved whose refund silently never happened": a case      *)
(* recorded in the owner's favour has refunded, or found nothing to; or    *)
(* another refund took a deposit in full between the two reads, and left   *)
(* none to list: then nothing is moved for the case and it is recorded.    *)
RecordedRefundHappened ==
  \A k \in Disputes :
    dispute[k].outcome \in {"funds_to_owner", "split"} =>
      MovedFor(k) > 0 \/ "nothing" \in tried[k] \/ ("gone" \in tried[k] /\ TakenByAnother(k))
=============================================================================
