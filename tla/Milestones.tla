----------------------------- MODULE Milestones -----------------------------
(***************************************************************************)
(* One milestone of project-service, from the first start of work to its   *)
(* approval: the calls of PATCH /milestones/:id/status by the owner and    *)
(* the talent, the Temporal workflow that approves it after a silent        *)
(* review window, and the hourly sweep that stands in for the workflow.    *)
(* A handler is several statements on a pool, so other handlers run        *)
(* between them; payment-service may fail or answer late, a process may    *)
(* crash anywhere, and Temporal may miss or reorder what it is told.       *)
(***************************************************************************)
EXTENDS Integers, FiniteSets

CONSTANTS
  Callers,        \* requests in flight at the same time
  FreeRevisions,  \* FREE_MILESTONE_REVISIONS
  MaxAttempts,    \* attempts of a Temporal activity
  MaxSubmissions, \* bound: how often the talent submits
  MaxCredits      \* bound: how many extra rounds the owner buys

ASSUME ConstantsAssumption ==
  /\ IsFiniteSet(Callers) /\ Callers # {}
  /\ FreeRevisions \in Nat \ {0}
  /\ MaxAttempts \in Nat \ {0}
  /\ MaxSubmissions \in Nat
  /\ MaxCredits \in Nat

Statuses == {"pending", "in_progress", "submitted", "changes_requested", "approved"}
Ops == Statuses \ {"pending"}

(* The targets MILESTONE_TRANSITIONS lists for a status.                   *)
Targets(s) ==
  CASE s = "pending" -> {"in_progress"}
    [] s = "in_progress" -> {"submitted"}
    [] s = "submitted" -> {"approved", "changes_requested"}
    [] s = "changes_requested" -> {"in_progress"}
    [] s = "approved" -> {}

\* Who approves without being asked: the workflow and the sweep.
Releasers == {"timer", "sweep"}

VARIABLES
  status,         \* milestones.status
  revisionCount,  \* milestones.revision_count
  submissions,    \* submissions so far; submitted_at is that of the last one
  payee,          \* it names a talent and an amount; set when it is created
  lapsed,         \* review windows of 14 days that are over
  credits,        \* paid revision_requests nobody has used
  spent,          \* paid revision_requests that were used
  paid,           \* payment-service completed release:<milestone>
  call,           \* [Callers -> the request's next step and what it read]
  told,           \* what Temporal has been sent and not yet received
  timer,          \* the open workflow: its window, and whether it was signalled
  auto,           \* [Releasers -> the release's next step]
  events          \* outbox rows written, by kind

vars == <<status, revisionCount, submissions, payee, lapsed, credits, spent, paid,
          call, told, timer, auto, events>>
row == <<status, revisionCount, submissions, payee>>
purse == <<credits, spent>>

Idle == [at |-> "idle", op |-> "approved", seen |-> "pending"]
NoTimer == [window |-> 0, signalled |-> FALSE]
AtRest == [at |-> "idle", flipped |-> FALSE, tries |-> 0]

CallSteps == {"idle", "release", "read", "credit", "increment", "write"}
AutoSteps == {"idle", "asleep", "presettle", "prepay", "flip", "settle",
              "pay", "notify"}

Init ==
  /\ status = "pending"
  /\ revisionCount = 0
  /\ submissions = 0
  /\ payee \in BOOLEAN
  /\ lapsed = 0
  /\ credits = 0
  /\ spent = 0
  /\ paid = FALSE
  /\ call = [c \in Callers |-> Idle]
  /\ told = {}
  /\ timer = NoTimer
  /\ auto = [r \in Releasers |-> AtRest]
  /\ events = [approved |-> 0, released |-> 0, announced |-> FALSE]

-----------------------------------------------------------------------------
(* PATCH /milestones/:id/status                                            *)

CallGoesTo(c, step) == call' = [call EXCEPT ![c].at = step]
Answer(c) == call' = [call EXCEPT ![c] = Idle]

\* MUTANT: the settlement pays whatever the status is.
SettlesAnyway(expected) == TRUE

(* settleMilestoneEscrow pays from the expected status and from no other.  *)
Settles(expected) == status = expected

(* The owner approves: the handler settles before it writes.  With nobody  *)
(* to pay it goes on unpaid, as an integration milestone does.             *)
Approve(c) ==
  /\ call[c].at = "idle"
  /\ CallGoesTo(c, IF Settles("submitted") /\ payee THEN "release" ELSE "read")
  /\ UNCHANGED <<row, lapsed, purse, paid, told, timer, auto, events>>

(* releaseMilestoneEscrow under the key release:<milestone>: it pays and   *)
(* says so, pays and is not heard, or fails, as settlement does for a      *)
(* milestone priced above its package.  An error refuses the approval.     *)
Release(c) ==
  /\ call[c].at = "release"
  /\ \/ paid' = TRUE /\ CallGoesTo(c, "read")
     \/ paid' \in {paid, TRUE} /\ Answer(c)
  /\ UNCHANGED <<row, lapsed, purse, told, timer, auto, events>>

\* MUTANT: one round too many is free.
BeyondAllowance == revisionCount > FreeRevisions

(* The round asked for is not one of the free ones.                        *)
BeyondFree == revisionCount >= FreeRevisions

(* updateMilestoneStatus reads the row and checks the transition on it.    *)
ReadRow(c, op) ==
  /\ \/ op = "approved" /\ call[c].at = "read"
     \/ op # "approved" /\ call[c].at = "idle"
  /\ IF op \in Targets(status)
     THEN call' = [call EXCEPT ![c] = [op |-> op, seen |-> status,
                     at |-> IF op # "changes_requested" THEN "write"
                            ELSE IF BeyondFree THEN "credit" ELSE "increment"]]
     ELSE Answer(c)
  /\ UNCHANGED <<row, lapsed, purse, paid, told, timer, auto, events>>

\* An unused revision request of this milestone whose payment settled.
HasCredit == credits > 0

(* consumePaidRevisionCredit, in a transaction of its own.                 *)
ConsumeCredit(c) ==
  /\ call[c].at = "credit"
  /\ \/ /\ HasCredit
        /\ credits' = credits - 1
        /\ spent' = spent + 1
        /\ CallGoesTo(c, "increment")
     \/ ~HasCredit /\ Answer(c) /\ UNCHANGED purse
  /\ UNCHANGED <<row, lapsed, paid, told, timer, auto, events>>

(* incrementRevisionCount writes by id alone, whatever the status is now.  *)
IncrementRevisionCount(c) ==
  /\ call[c].at = "increment"
  /\ revisionCount' = revisionCount + 1
  /\ status' = "changes_requested"
  /\ told' = told \cup {"changes_requested"}
  /\ Answer(c)
  /\ UNCHANGED <<submissions, payee, lapsed, purse, paid, timer, auto, events>>

\* MUTANT: the write forgets the status the transition was checked on.
HoldsAnyway(expected) == TRUE

(* The condition of the UPDATE: the row still has the expected status.     *)
Holds(expected) == status = expected

(* updateStatus, a compare-and-swap that appends the event of the status   *)
(* in its transaction.  A row that moved on answers CONFLICT.              *)
UpdateStatus(c) ==
  /\ call[c].at = "write"
  /\ IF Holds(call[c].seen)
     THEN LET op == call[c].op
          IN  /\ op = "submitted" => submissions < MaxSubmissions
              /\ status' = op
              /\ submissions' = IF op = "submitted" THEN submissions + 1 ELSE submissions
              /\ events' = IF op = "approved"
                           THEN [events EXCEPT !.approved = @ + 1] ELSE events
              /\ told' = told \cup ({op} \ {"in_progress"})
     ELSE UNCHANGED <<status, submissions, events, told>>
  /\ Answer(c)
  /\ UNCHANGED <<revisionCount, payee, lapsed, purse, paid, timer, auto>>

(* The process dies with the request.                                      *)
CrashCall(c) ==
  /\ call[c].at # "idle"
  /\ Answer(c)
  /\ UNCHANGED <<row, lapsed, purse, paid, told, timer, auto, events>>

(* The settled payment of a round beyond the free ones inserts its credit. *)
SettleRevision ==
  /\ credits + spent < MaxCredits
  /\ credits' = credits + 1
  /\ UNCHANGED <<row, lapsed, spent, paid, call, told, timer, auto, events>>

-----------------------------------------------------------------------------
(* THE TEMPORAL WORKFLOW                                                   *)

GoesTo(r, step) == auto' = [auto EXCEPT ![r].at = step]
Rest(r) == auto' = [auto EXCEPT ![r] = AtRest]

(* triggerTemporalForMilestoneStatus: fire and forget, so a message is     *)
(* lost or arrives when it does.  A start is refused while a workflow is   *)
(* open; a workflow past its sleep no longer minds the signal.             *)
Receive(t) ==
  /\ t \in told
  /\ told' = told \ {t}
  /\ \/ UNCHANGED <<timer, auto>>
     \/ /\ t = "submitted" /\ auto["timer"].at = "idle"
        /\ GoesTo("timer", "asleep")
        /\ timer' = [window |-> submissions, signalled |-> FALSE]
     \/ t = "changes_requested" /\ Rest("timer") /\ timer' = NoTimer
     \/ /\ t = "approved" /\ auto["timer"].at = "asleep"
        /\ timer' = [timer EXCEPT !.signalled = TRUE]
        /\ UNCHANGED auto
  /\ UNCHANGED <<row, lapsed, purse, paid, call, events>>

(* Fourteen days pass after a submission.                                  *)
Lapse ==
  /\ lapsed < submissions
  /\ lapsed' = lapsed + 1
  /\ UNCHANGED <<row, purse, paid, call, told, timer, auto, events>>

\* MUTANT: the workflow does not wait for its window.
WakesEarly == auto["timer"].at = "asleep"

(* The sleep of the workflow is over with the window it was started in.    *)
Wakes == auto["timer"].at = "asleep" /\ timer.window <= lapsed

(* It ends if it was signalled, if checkMilestoneReleased finds another    *)
(* status, or if that activity fails every time.                           *)
TimerFires ==
  /\ Wakes
  /\ \/ Rest("timer")
     \/ /\ ~timer.signalled /\ status = "submitted"
        /\ auto' = [auto EXCEPT !["timer"] = [AtRest EXCEPT !.at = "flip", !.tries = 1]]
  /\ timer' = NoTimer
  /\ UNCHANGED <<row, lapsed, purse, paid, call, told, events>>

-----------------------------------------------------------------------------
(* THE SWEEP, on the replica that holds its lease                          *)

\* MUTANT: the comparison with the cutoff excludes what has just lapsed.
OverdueLater == status = "submitted" /\ lapsed > submissions

(* findOverdueSubmitted                                                    *)
Overdue == status = "submitted" /\ lapsed = submissions

SweepFinds ==
  /\ auto["sweep"].at = "idle"
  /\ Overdue
  /\ GoesTo("sweep", "presettle")
  /\ UNCHANGED <<row, lapsed, purse, paid, call, told, timer, events>>

(* It settles before it approves, as the owner's call does.                *)
SweepSettles ==
  /\ auto["sweep"].at = "presettle"
  /\ GoesTo("sweep", IF Settles("submitted") /\ payee THEN "prepay" ELSE "flip")
  /\ UNCHANGED <<row, lapsed, purse, paid, call, told, timer, events>>

SweepPays ==
  /\ auto["sweep"].at = "prepay"
  /\ paid' = TRUE
  /\ GoesTo("sweep", "flip")
  /\ UNCHANGED <<row, lapsed, purse, call, told, timer, events>>

-----------------------------------------------------------------------------
(* releaseEscrow AND notifyAutoRelease, for the workflow and the sweep     *)

(* The approval, a compare-and-swap on "submitted".                        *)
Flip(r) ==
  /\ auto[r].at = "flip"
  /\ auto' = [auto EXCEPT ![r].at = "settle", ![r].flipped = Holds("submitted")]
  /\ IF Holds("submitted")
     THEN /\ status' = "approved"
          /\ events' = [events EXCEPT !.approved = @ + 1, !.released = @ + 1]
     ELSE UNCHANGED <<status, events>>
  /\ UNCHANGED <<revisionCount, submissions, payee, lapsed, purse, paid, call, told, timer>>

(* Only the run that approved announces.                                   *)
Released(r) ==
  auto' = [auto EXCEPT ![r] = IF auto[r].flipped
                              THEN [auto[r] EXCEPT !.at = "notify", !.tries = 1]
                              ELSE AtRest]

AutoSettles(r) ==
  /\ auto[r].at = "settle"
  /\ IF Settles("approved") /\ payee THEN GoesTo(r, "pay") ELSE Released(r)
  /\ UNCHANGED <<row, lapsed, purse, paid, call, told, timer, events>>

AutoPays(r) ==
  /\ auto[r].at = "pay"
  /\ paid' = TRUE
  /\ Released(r)
  /\ UNCHANGED <<row, lapsed, purse, call, told, timer, events>>

(* A call to payment-service fails or is not heard, or the process dies:   *)
(* the sweep leaves the rest to its next run, the workflow tries the       *)
(* activity again from its start while it has attempts left.               *)
AutoFails(r) ==
  /\ auto[r].at \notin {"idle", "asleep"}
  /\ paid' \in {paid, paid \/ auto[r].at \in {"prepay", "pay"}}
  /\ IF r = "timer" /\ auto[r].tries < MaxAttempts
     THEN auto' = [auto EXCEPT ![r].tries = @ + 1, ![r].flipped = FALSE,
                     ![r].at = IF auto[r].at = "notify" THEN "notify" ELSE "flip"]
     ELSE Rest(r)
  /\ UNCHANGED <<row, lapsed, purse, call, told, timer, events>>

(* The event is appended; the workflow may not hear of it and do it again. *)
Notify(r) ==
  /\ auto[r].at = "notify"
  /\ events' = [events EXCEPT !.announced = TRUE]
  /\ \/ Rest(r)
     \/ /\ r = "timer" /\ auto[r].tries < MaxAttempts
        /\ auto' = [auto EXCEPT ![r].tries = @ + 1]
  /\ UNCHANGED <<row, lapsed, purse, paid, call, told, timer>>

-----------------------------------------------------------------------------
Calls(c) ==
  \/ Approve(c) \/ Release(c)
  \/ \E op \in Ops : ReadRow(c, op)
  \/ ConsumeCredit(c)
  \/ IncrementRevisionCount(c) \/ UpdateStatus(c)
  \/ CrashCall(c)

Releases(r) ==
  Flip(r) \/ AutoSettles(r) \/ AutoPays(r) \/ AutoFails(r) \/ Notify(r)

Next ==
  \/ \E c \in Callers : Calls(c)
  \/ SettleRevision
  \/ \E t \in told : Receive(t)
  \/ Lapse
  \/ TimerFires
  \/ SweepFinds \/ SweepSettles \/ SweepPays
  \/ \E r \in Releasers : Releases(r)

Spec == Init /\ [][Next]_vars

(* Time passes.  The hourly job runs again and again and no step of it     *)
(* hangs; it is not interrupted for ever at the same step, and settlement  *)
(* does not fail for ever.  That leaves out a milestone priced above its   *)
(* work package, which settlement refuses for good, and one crowded out of *)
(* the batch by enough of those.  Nobody else has to act.                  *)
Fairness ==
  /\ WF_vars(Lapse)
  /\ WF_vars(Releases("sweep"))
  /\ SF_vars(SweepFinds)
  /\ SF_vars(SweepSettles)
  /\ SF_vars(SweepPays)
  /\ SF_vars(Flip("sweep"))

FairSpec == Spec /\ Fairness

-----------------------------------------------------------------------------
(* PROPERTIES                                                              *)

TypeOK ==
  /\ status \in Statuses
  /\ revisionCount \in Nat /\ submissions \in Nat /\ lapsed \in Nat
  /\ payee \in BOOLEAN
  /\ credits \in Nat /\ spent \in Nat
  /\ paid \in BOOLEAN
  /\ call \in [Callers -> [at : CallSteps, op : Ops, seen : Statuses]]
  /\ told \subseteq Ops
  /\ timer \in [window : Nat, signalled : BOOLEAN]
  /\ auto \in [Releasers -> [at : AutoSteps, flipped : BOOLEAN, tries : Nat]]
  /\ events \in [approved : Nat, released : Nat, announced : BOOLEAN]

(* However the owner's double click, the workflow and the sweep overlap,   *)
(* one submission is approved at most once: the talent hears no            *)
(* milestone.approved twice and completed_at is not overwritten.           *)
ApprovedOncePerSubmission == events.approved <= submissions

(* No order of calls, retries and revisions moves money for a milestone    *)
(* the talent never submitted.                                             *)
PaidWasSubmitted == paid => submissions > 0

(* Rounds beyond the free ones are paid for, except those that requests    *)
(* overlapping each other slip past the limit: one fewer than there are    *)
(* requests in flight, over the whole life of the milestone.               *)
RoundsArePaid == revisionCount <= FreeRevisions + spent + Cardinality(Callers) - 1

(* The announcement of an automatic release follows an automatic release,  *)
(* and that follows a review window that ran out.                          *)
AutoReleaseEarned ==
  /\ events.announced => events.released > 0
  /\ events.released > 0 => lapsed > 0

(* Work handed in is decided in the end even if the owner never looks and  *)
(* Temporal never hears of it.                                             *)
SubmittedIsDecided == (status = "submitted") ~> (status # "submitted")
=============================================================================
