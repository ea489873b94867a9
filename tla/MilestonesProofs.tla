--------------------------- MODULE MilestonesProofs ---------------------------
(***************************************************************************)
(* Proofs about Milestones, for any number of requests in flight, any      *)
(* number of free rounds and any number of retries.                        *)
(*                                                                         *)
(* The inductive invariant adds to the properties what somebody between    *)
(* two statements has already established: the transition a request        *)
(* checked (Checked), the submission a payment goes back to (Backed), the  *)
(* window an automatic release waited for (Waited), and the requests that  *)
(* have a round but have not counted it yet (RoundsCounted).               *)
(***************************************************************************)
EXTENDS Milestones, FiniteSetTheorems, TLAPS

Request == [at : CallSteps, op : Ops, seen : Statuses]
Run == [at : AutoSteps, flipped : BOOLEAN, tries : Nat]
Window == [window : Nat, signalled : BOOLEAN]
Written == [approved : Nat, released : Nat, announced : BOOLEAN]

Types ==
  /\ status \in Statuses
  /\ revisionCount \in Nat /\ submissions \in Nat /\ lapsed \in Nat
  /\ credits \in Nat /\ spent \in Nat
  /\ paid \in BOOLEAN
  /\ payee \in BOOLEAN
  /\ call \in [Callers -> Request]
  /\ told \subseteq Ops
  /\ timer \in Window
  /\ auto \in [Releasers -> Run]
  /\ events \in Written

\* Steps of an automatic release after its window.
Awake == {"presettle", "prepay", "flip", "settle", "pay", "notify"}

Checked == \A c \in Callers : call[c].at = "write" => call[c].op \in Targets(call[c].seen)

OneApprovalEach ==
  events.approved + (IF status = "submitted" THEN 1 ELSE 0) <= submissions

Backed ==
  /\ status = "approved" \/ paid => submissions > 0
  /\ \A c \in Callers : call[c].at = "release" => submissions > 0
  /\ \A r \in Releasers : auto[r].at \in {"prepay", "pay"} => submissions > 0

Waited ==
  /\ events.announced => events.released > 0
  /\ events.released > 0 => lapsed > 0
  /\ "submitted" \in told => submissions > 0
  /\ auto["timer"].at = "asleep" => timer.window > 0
  /\ \A r \in Releasers :
       /\ auto[r].at \in Awake => lapsed > 0
       /\ auto[r].flipped \/ auto[r].at = "notify" => events.released > 0

Incrementing == {c \in Callers : call[c].at = "increment"}

RoundsCounted ==
  revisionCount + Cardinality(Incrementing)
    <= FreeRevisions + spent + Cardinality(Callers) - 1

IInv == Types /\ Checked /\ OneApprovalEach /\ Backed /\ Waited /\ RoundsCounted

(* The records an action builds are of their types.                         *)
LEMMA RunRecords ==
  ASSUME NEW x \in Run, NEW b \in BOOLEAN
  PROVE  /\ [x EXCEPT !.at = "settle", !.flipped = b] \in Run
         /\ [x EXCEPT !.at = "notify", !.tries = 1] \in Run
         /\ [x EXCEPT !.tries = x.tries + 1] \in Run
         /\ [x EXCEPT !.tries = x.tries + 1, !.flipped = FALSE, !.at = "notify"] \in Run
         /\ [x EXCEPT !.tries = x.tries + 1, !.flipped = FALSE, !.at = "flip"] \in Run
<1>1. x.tries + 1 \in Nat
  BY DEF Run
<1> QED
  BY <1>1 DEF Run, AutoSteps

LEMMA WrittenRecords ==
  ASSUME NEW e \in Written
  PROVE  /\ [e EXCEPT !.approved = e.approved + 1] \in Written
         /\ [e EXCEPT !.approved = e.approved + 1, !.released = e.released + 1] \in Written
         /\ [e EXCEPT !.announced = TRUE] \in Written
<1>1. e.approved + 1 \in Nat /\ e.released + 1 \in Nat
  BY DEF Written
<1> QED
  BY <1>1 DEF Written

(* Moves of a request and of a release keep them the records they are.    *)
LEMMA CallMoves ==
  ASSUME call \in [Callers -> Request], NEW c \in Callers
  PROVE  /\ \A s \in CallSteps : [call EXCEPT ![c].at = s] \in [Callers -> Request]
         /\ [call EXCEPT ![c] = Idle] \in [Callers -> Request]
<1>1. Idle \in Request
  BY DEF Idle, Request, CallSteps, Ops, Statuses
<1>2. \A s \in CallSteps : [call[c] EXCEPT !.at = s] \in Request
  BY DEF Request
<1> QED
  BY <1>1, <1>2

LEMMA RunMoves ==
  ASSUME auto \in [Releasers -> Run], NEW r \in Releasers
  PROVE  /\ \A s \in AutoSteps : [auto EXCEPT ![r].at = s] \in [Releasers -> Run]
         /\ [auto EXCEPT ![r] = AtRest] \in [Releasers -> Run]
         /\ \A x \in Run : [auto EXCEPT ![r] = x] \in [Releasers -> Run]
         /\ auto[r].at \in AutoSteps /\ auto[r].flipped \in BOOLEAN /\ auto[r].tries \in Nat
<1>1. AtRest \in Run
  BY DEF AtRest, Run, AutoSteps
<1>2. \A s \in AutoSteps : [auto[r] EXCEPT !.at = s] \in Run
  BY DEF Run
<1> QED
  BY <1>1, <1>2 DEF Run

(* What a write does to the row and to the outbox.                         *)
LEMMA Updates ==
  ASSUME Types, Checked, NEW c \in Callers, UpdateStatus(c)
  PROVE  \/ UNCHANGED <<status, submissions, events, told>>
         \/ /\ status = "submitted" /\ status' = "approved"
            /\ submissions' = submissions
            /\ events'.approved = events.approved + 1
            /\ events'.announced = events.announced /\ events'.released = events.released
            /\ "submitted" \in told' => "submitted" \in told
         \/ /\ status' = "submitted" /\ status # "submitted"
            /\ submissions' = submissions + 1 /\ events' = events
         \/ /\ status' \in {"in_progress", "changes_requested"}
            /\ submissions' = submissions /\ events' = events
            /\ "submitted" \in told' => "submitted" \in told
<1> DEFINE o == call[c].op
<1>1. CASE ~Holds(call[c].seen)
  BY <1>1 DEF UpdateStatus
<1>2. CASE Holds(call[c].seen)
  <2>1. o \in Targets(status) /\ o \in Ops /\ status \in Statuses
    BY <1>2 DEF Types, Request, Checked, Holds, UpdateStatus
  <2>2. /\ status' = o
        /\ submissions' = IF o = "submitted" THEN submissions + 1 ELSE submissions
        /\ events' = IF o = "approved"
                     THEN [events EXCEPT !.approved = events.approved + 1]
                     ELSE events
        /\ told' = told \cup ({o} \ {"in_progress"})
    BY <1>2 DEF UpdateStatus
  <2>3. \/ o = "approved" /\ status = "submitted"
        \/ o = "submitted" /\ status # "submitted"
        \/ o \in {"in_progress", "changes_requested"}
    BY <2>1 DEF Targets, Ops, Statuses
  <2>4. o = "approved" =>
          /\ events'.approved = events.approved + 1
          /\ events'.announced = events.announced /\ events'.released = events.released
    BY <2>2 DEF Types, Written
  <2> QED
    BY <2>2, <2>3, <2>4
<1> QED
  BY <1>1, <1>2

(* What an automatic approval does.                                        *)
LEMMA Flips ==
  ASSUME Types, NEW r \in Releasers, Flip(r)
  PROVE  /\ UNCHANGED <<submissions, lapsed, paid, call, told, timer>>
         /\ auto'[r].at = "settle" /\ auto'[r].flipped = (status = "submitted")
         /\ \A q \in Releasers \ {r} : auto'[q] = auto[q]
         /\ \/ UNCHANGED <<status, events>> /\ status # "submitted"
            \/ /\ status = "submitted" /\ status' = "approved"
               /\ events'.approved = events.approved + 1
               /\ events'.released = events.released + 1
               /\ events'.announced = events.announced
<1>1. auto[r] \in Run
  BY DEF Types
<1>2. auto'[r] = [auto[r] EXCEPT !.at = "settle", !.flipped = (status = "submitted")]
  BY DEF Types, Flip, Holds
<1>3. auto'[r].at = "settle" /\ auto'[r].flipped = (status = "submitted")
  BY <1>1, <1>2 DEF Run
<1>4. \A q \in Releasers \ {r} : auto'[q] = auto[q]
  BY DEF Types, Flip
<1>5. CASE status = "submitted"
  <2>1. events' = [events EXCEPT !.approved = events.approved + 1,
                                 !.released = events.released + 1]
    BY <1>5 DEF Flip, Holds
  <2>2. /\ events'.approved = events.approved + 1
        /\ events'.released = events.released + 1
        /\ events'.announced = events.announced
    BY <2>1 DEF Types, Written
  <2> QED
    BY <1>3, <1>4, <1>5, <2>2 DEF Flip, Holds
<1>6. CASE status # "submitted"
  BY <1>3, <1>4, <1>6 DEF Flip, Holds
<1> QED
  BY <1>5, <1>6

(* What the workflow does when its window is over.                         *)
LEMMA Wakings ==
  TimerFires =>
    \/ auto' = [auto EXCEPT !["timer"] = [at |-> "flip", flipped |-> FALSE, tries |-> 1]]
    \/ auto' = [auto EXCEPT !["timer"] = AtRest]
  BY DEF TimerFires, Rest, AtRest

(* How a release that has settled goes on.                                 *)
LEMMA Settlings ==
  ASSUME Types, NEW r \in Releasers, AutoSettles(r)
  PROVE  /\ UNCHANGED <<row, lapsed, purse, paid, call, told, timer, events>>
         /\ \/ /\ auto' = [auto EXCEPT ![r].at = "pay"] /\ status = "approved"
            \/ /\ auto' = [auto EXCEPT ![r] = [auto[r] EXCEPT !.at = "notify", !.tries = 1]]
               /\ auto[r].flipped
            \/ auto' = [auto EXCEPT ![r] = AtRest]
  BY DEF AutoSettles, Released, GoesTo, Settles

(* Every statement keeps the types.                                         *)
LEMMA TypeStep ==
  Types /\ [Next]_vars => Types'
<1> SUFFICES ASSUME Types, [Next]_vars PROVE Types'
  OBVIOUS
<1> USE ConstantsAssumption DEF Types
<1>1. ASSUME NEW c \in Callers, Approve(c) PROVE Types'
  <2>1. call' \in [Callers -> Request]
    BY <1>1, CallMoves DEF Approve, CallGoesTo, CallSteps
  <2> QED
    BY <2>1, <1>1 DEF Approve, row, purse
<1>2. ASSUME NEW c \in Callers, Release(c) PROVE Types'
  <2>1. \/ call' = [call EXCEPT ![c].at = "read"]
        \/ call' = [call EXCEPT ![c] = Idle]
    BY <1>2, Zenon DEF Release, CallGoesTo, Answer
  <2>2. call' \in [Callers -> Request]
    BY <2>1, CallMoves, ZenonT(40) DEF CallSteps
  <2> QED
    BY <2>2, <1>2 DEF Release, row, purse
<1>3. ASSUME NEW c \in Callers, NEW op \in Ops, ReadRow(c, op) PROVE Types'
  <2> DEFINE next == [op |-> op, seen |-> status,
                      at |-> IF op # "changes_requested" THEN "write"
                             ELSE IF BeyondFree THEN "credit" ELSE "increment"]
  <2>1. next \in Request
    BY DEF Request, CallSteps
  <2>2. call' = [call EXCEPT ![c] = next] \/ call' = [call EXCEPT ![c] = Idle]
    BY <1>3 DEF ReadRow, Answer
  <2> HIDE DEF next
  <2>3. call' \in [Callers -> Request]
    BY <2>1, <2>2, CallMoves
  <2> QED
    BY <2>3, <1>3 DEF ReadRow, row, purse
<1>4. ASSUME NEW c \in Callers, ConsumeCredit(c) PROVE Types'
  <2>1. \/ call' = [call EXCEPT ![c].at = "increment"]
        \/ call' = [call EXCEPT ![c] = Idle]
    BY <1>4, Zenon DEF ConsumeCredit, CallGoesTo, Answer
  <2>2. call' \in [Callers -> Request]
    BY <2>1, CallMoves, ZenonT(40) DEF CallSteps
  <2> QED
    BY <2>2, <1>4 DEF ConsumeCredit, HasCredit, row, purse
<1>5. ASSUME NEW c \in Callers, IncrementRevisionCount(c) PROVE Types'
  <2>1. call' \in [Callers -> Request]
    BY <1>5, CallMoves DEF IncrementRevisionCount, Answer, CallSteps
  <2> QED
    BY <2>1, <1>5 DEF IncrementRevisionCount, purse, Ops, Statuses
<1>6. ASSUME NEW c \in Callers, UpdateStatus(c) PROVE Types'
  <2>1. call' \in [Callers -> Request]
    BY <1>6, CallMoves DEF UpdateStatus, Answer
  <2>2. call[c].op \in Ops /\ call[c].op \in Statuses
    BY DEF Request, Ops
  <2>3. events' \in Written
    BY <1>6, WrittenRecords DEF UpdateStatus
  <2> QED
    BY <2>1, <2>2, <2>3, <1>6 DEF UpdateStatus, purse
<1>7. ASSUME NEW c \in Callers, CrashCall(c) PROVE Types'
  <2>1. call' \in [Callers -> Request]
    BY <1>7, CallMoves DEF CrashCall, Answer, CallSteps
  <2> QED
    BY <2>1, <1>7 DEF CrashCall, row, purse
<1>8. CASE SettleRevision
  BY <1>8 DEF SettleRevision, row, purse
<1>9. ASSUME NEW t \in told, Receive(t) PROVE Types'
  <2>1. auto' \in [Releasers -> Run]
    BY <1>9, RunMoves DEF Receive, GoesTo, Rest, Releasers, AutoSteps
  <2>2. /\ NoTimer \in Window /\ [timer EXCEPT !.signalled = TRUE] \in Window
        /\ [window |-> submissions, signalled |-> FALSE] \in Window
    BY DEF Window, NoTimer
  <2>3. timer' \in Window
    BY <2>2, <1>9 DEF Receive
  <2> QED
    BY <2>1, <2>3, <1>9 DEF Receive, row, purse
<1>10. CASE Lapse
  BY <1>10 DEF Lapse, row, purse
<1>11. CASE TimerFires
  <2> DEFINE next == [at |-> "flip", flipped |-> FALSE, tries |-> 1]
  <2>1. next \in Run
    BY DEF Run, AutoSteps
  <2>2. \/ auto' = [auto EXCEPT !["timer"] = next]
        \/ auto' = [auto EXCEPT !["timer"] = AtRest]
    BY <1>11 DEF TimerFires, Rest, AtRest
  <2> HIDE DEF next
  <2>3. auto' \in [Releasers -> Run]
    BY <2>1, <2>2, RunMoves DEF Releasers
  <2> QED
    BY <2>3, <1>11 DEF TimerFires, NoTimer, Window, row, purse
<1>12. CASE SweepFinds
  <2>1. auto' \in [Releasers -> Run]
    BY <1>12, RunMoves DEF SweepFinds, GoesTo, Releasers, AutoSteps
  <2> QED
    BY <2>1, <1>12 DEF SweepFinds, row, purse
<1>13. CASE SweepSettles
  <2>1. auto' \in [Releasers -> Run]
    BY <1>13, RunMoves DEF SweepSettles, GoesTo, Releasers, AutoSteps
  <2> QED
    BY <2>1, <1>13 DEF SweepSettles, row, purse
<1>14. CASE SweepPays
  <2>1. auto' \in [Releasers -> Run]
    BY <1>14, RunMoves DEF SweepPays, GoesTo, Releasers, AutoSteps
  <2> QED
    BY <2>1, <1>14 DEF SweepPays, row, purse
<1>15. ASSUME NEW r \in Releasers, Flip(r) PROVE Types'
  <2>1. auto' \in [Releasers -> Run]
    <3>1. [auto[r] EXCEPT !.at = "settle", !.flipped = Holds("submitted")] \in Run
      BY RunRecords DEF Holds
    <3> QED
      BY <3>1, <1>15 DEF Flip
  <2>2. events' \in Written
    BY <1>15, WrittenRecords DEF Flip
  <2> QED
    BY <2>1, <2>2, <1>15 DEF Flip, purse, Statuses
<1>16. ASSUME NEW r \in Releasers, AutoSettles(r) PROVE Types'
  <2>1. [auto[r] EXCEPT !.at = "notify", !.tries = 1] \in Run
    BY RunRecords
  <2>2. /\ [auto EXCEPT ![r].at = "pay"] \in [Releasers -> Run]
        /\ [auto EXCEPT ![r] = AtRest] \in [Releasers -> Run]
    BY RunMoves DEF AutoSteps
  <2>3. [auto EXCEPT ![r] = [auto[r] EXCEPT !.at = "notify", !.tries = 1]] \in [Releasers -> Run]
    BY <2>1
  <2>4. auto' \in [Releasers -> Run]
    BY <2>2, <2>3, <1>16, Zenon DEF AutoSettles, Released, GoesTo
  <2> QED
    BY <2>4, <1>16 DEF AutoSettles, row, purse
<1>17. ASSUME NEW r \in Releasers, AutoPays(r) PROVE Types'
  <2>1. [auto[r] EXCEPT !.at = "notify", !.tries = 1] \in Run
    BY RunRecords
  <2>2. auto' \in [Releasers -> Run]
    BY <2>1, <1>17, RunMoves DEF AutoPays, Released, GoesTo, AutoSteps
  <2> QED
    BY <2>2, <1>17 DEF AutoPays, row, purse
<1>18. ASSUME NEW r \in Releasers, AutoFails(r) PROVE Types'
  <2> DEFINE again == [auto[r] EXCEPT !.tries = auto[r].tries + 1, !.flipped = FALSE,
                        !.at = IF auto[r].at = "notify" THEN "notify" ELSE "flip"]
  <2>1. again \in Run
    BY RunRecords
  <2>2. auto' = [auto EXCEPT ![r] = again] \/ auto' = [auto EXCEPT ![r] = AtRest]
    BY <1>18 DEF AutoFails, Rest
  <2> HIDE DEF again
  <2>3. auto' \in [Releasers -> Run]
    BY <2>1, <2>2, RunMoves
  <2> QED
    BY <2>3, <1>18 DEF AutoFails, row, purse
<1>19. ASSUME NEW r \in Releasers, Notify(r) PROVE Types'
  <2>1. [auto[r] EXCEPT !.tries = auto[r].tries + 1] \in Run
    BY RunRecords
  <2>2. auto' \in [Releasers -> Run]
    BY <2>1, <1>19, RunMoves DEF Notify, Rest
  <2>3. events' \in Written
    BY <1>19, WrittenRecords DEF Notify
  <2> QED
    BY <2>2, <2>3, <1>19 DEF Notify, row, purse
<1>20. CASE UNCHANGED vars
  BY <1>20 DEF vars
<1> QED
  BY <1>1, <1>2, <1>3, <1>4, <1>5, <1>6, <1>7, <1>8, <1>9, <1>10, <1>11, <1>12, <1>13, <1>14, <1>15, <1>16, <1>17, <1>18, <1>19, <1>20
  DEF Next, Calls, Releases

(* A write carries a transition its row allowed.                            *)
LEMMA CheckedStep ==
  Types /\ Checked /\ [Next]_vars => Checked'
<1> SUFFICES ASSUME Types, Checked, [Next]_vars PROVE Checked'
  OBVIOUS
<1> USE ConstantsAssumption DEF Types, Request, Run, Written, Window, Statuses, Ops, Releasers, CallSteps, AutoSteps, Checked, Targets, Idle
<1>1. ASSUME NEW c \in Callers, Approve(c) PROVE Checked'
  BY <1>1 DEF Approve, CallGoesTo, Settles, row, purse
<1>2. ASSUME NEW c \in Callers, Release(c) PROVE Checked'
  <2>1. \/ call' = [call EXCEPT ![c].at = "read"]
        \/ call' = [call EXCEPT ![c] = Idle]
    BY <1>2, Zenon DEF Release, CallGoesTo, Answer
  <2> QED
    BY <2>1, SMTT(30)
<1>3. ASSUME NEW c \in Callers, NEW op \in Ops, ReadRow(c, op) PROVE Checked'
  BY <1>3 DEF ReadRow, Answer, Targets, row, purse
<1>4. ASSUME NEW c \in Callers, ConsumeCredit(c) PROVE Checked'
  BY <1>4 DEF ConsumeCredit, HasCredit, CallGoesTo, Answer, row, purse
<1>5. ASSUME NEW c \in Callers, IncrementRevisionCount(c) PROVE Checked'
  BY <1>5 DEF IncrementRevisionCount, Answer, row, purse
<1>6. ASSUME NEW c \in Callers, UpdateStatus(c) PROVE Checked'
  BY <1>6 DEF UpdateStatus, Holds, Answer, row, purse
<1>7. ASSUME NEW c \in Callers, CrashCall(c) PROVE Checked'
  BY <1>7 DEF CrashCall, Answer, row, purse
<1>8. CASE SettleRevision
  BY <1>8 DEF SettleRevision, row, purse
<1>9. ASSUME NEW t \in told, Receive(t) PROVE Checked'
  BY <1>9 DEF Receive, GoesTo, Rest, AtRest, NoTimer, row, purse
<1>10. CASE Lapse
  BY <1>10 DEF Lapse, row, purse
<1>11. CASE TimerFires
  BY <1>11 DEF TimerFires, Wakes, Rest, AtRest, NoTimer, row, purse
<1>12. CASE SweepFinds
  BY <1>12 DEF SweepFinds, Overdue, GoesTo, row, purse
<1>13. CASE SweepSettles
  BY <1>13 DEF SweepSettles, Settles, GoesTo, row, purse
<1>14. CASE SweepPays
  BY <1>14 DEF SweepPays, GoesTo, row, purse
<1>15. ASSUME NEW r \in Releasers, Flip(r) PROVE Checked'
  BY <1>15 DEF Flip, Holds, row, purse
<1>16. ASSUME NEW r \in Releasers, AutoSettles(r) PROVE Checked'
  BY <1>16 DEF AutoSettles, Settles, Released, GoesTo, AtRest, row, purse
<1>17. ASSUME NEW r \in Releasers, AutoPays(r) PROVE Checked'
  BY <1>17 DEF AutoPays, Released, AtRest, row, purse
<1>18. ASSUME NEW r \in Releasers, AutoFails(r) PROVE Checked'
  BY <1>18 DEF AutoFails, Rest, AtRest, row, purse
<1>19. ASSUME NEW r \in Releasers, Notify(r) PROVE Checked'
  BY <1>19 DEF Notify, Rest, AtRest, row, purse
<1>20. CASE UNCHANGED vars
  BY <1>20 DEF vars
<1> QED
  BY <1>1, <1>2, <1>3, <1>4, <1>5, <1>6, <1>7, <1>8, <1>9, <1>10, <1>11, <1>12, <1>13, <1>14, <1>15, <1>16, <1>17, <1>18, <1>19, <1>20, ZenonT(40)
  DEF Next, Calls, Releases

(* A submission is approved once.                                           *)
LEMMA ApprovalStep ==
  Types /\ Checked /\ OneApprovalEach /\ [Next]_vars => OneApprovalEach'
<1> SUFFICES ASSUME Types, Checked, OneApprovalEach, [Next]_vars PROVE OneApprovalEach'
  OBVIOUS
<1> USE ConstantsAssumption DEF Types, Request, Run, Written, Window, Statuses, Ops, Releasers, CallSteps, AutoSteps, Checked, OneApprovalEach, Targets
<1>1. ASSUME NEW c \in Callers, Approve(c) PROVE OneApprovalEach'
  BY <1>1 DEF Approve, CallGoesTo, Settles, row, purse
<1>2. ASSUME NEW c \in Callers, Release(c) PROVE OneApprovalEach'
  BY <1>2 DEF Release, CallGoesTo, Answer, row, purse
<1>3. ASSUME NEW c \in Callers, NEW op \in Ops, ReadRow(c, op) PROVE OneApprovalEach'
  BY <1>3 DEF ReadRow, Answer, Targets, row, purse
<1>4. ASSUME NEW c \in Callers, ConsumeCredit(c) PROVE OneApprovalEach'
  BY <1>4 DEF ConsumeCredit, HasCredit, CallGoesTo, Answer, row, purse
<1>5. ASSUME NEW c \in Callers, IncrementRevisionCount(c) PROVE OneApprovalEach'
  BY <1>5 DEF IncrementRevisionCount, Answer, row, purse
<1>6. ASSUME NEW c \in Callers, UpdateStatus(c) PROVE OneApprovalEach'
  BY <1>6, Updates
<1>7. ASSUME NEW c \in Callers, CrashCall(c) PROVE OneApprovalEach'
  BY <1>7 DEF CrashCall, Answer, row, purse
<1>8. CASE SettleRevision
  BY <1>8 DEF SettleRevision, row, purse
<1>9. ASSUME NEW t \in told, Receive(t) PROVE OneApprovalEach'
  BY <1>9 DEF Receive, GoesTo, Rest, AtRest, NoTimer, row, purse
<1>10. CASE Lapse
  BY <1>10 DEF Lapse, row, purse
<1>11. CASE TimerFires
  BY <1>11 DEF TimerFires, Wakes, Rest, AtRest, NoTimer, row, purse
<1>12. CASE SweepFinds
  BY <1>12 DEF SweepFinds, Overdue, GoesTo, row, purse
<1>13. CASE SweepSettles
  BY <1>13 DEF SweepSettles, Settles, GoesTo, row, purse
<1>14. CASE SweepPays
  BY <1>14 DEF SweepPays, GoesTo, row, purse
<1>15. ASSUME NEW r \in Releasers, Flip(r) PROVE OneApprovalEach'
  BY <1>15, Flips
<1>16. ASSUME NEW r \in Releasers, AutoSettles(r) PROVE OneApprovalEach'
  BY <1>16 DEF AutoSettles, Settles, Released, GoesTo, AtRest, row, purse
<1>17. ASSUME NEW r \in Releasers, AutoPays(r) PROVE OneApprovalEach'
  BY <1>17 DEF AutoPays, Released, AtRest, row, purse
<1>18. ASSUME NEW r \in Releasers, AutoFails(r) PROVE OneApprovalEach'
  BY <1>18 DEF AutoFails, Rest, AtRest, row, purse
<1>19. ASSUME NEW r \in Releasers, Notify(r) PROVE OneApprovalEach'
  BY <1>19 DEF Notify, Rest, AtRest, row, purse
<1>20. CASE UNCHANGED vars
  BY <1>20 DEF vars
<1> QED
  BY <1>1, <1>2, <1>3, <1>4, <1>5, <1>6, <1>7, <1>8, <1>9, <1>10, <1>11, <1>12, <1>13, <1>14, <1>15, <1>16, <1>17, <1>18, <1>19, <1>20
  DEF Next, Calls, Releases

(* Money and approvals go back to a submission.                             *)
LEMMA BackedStep ==
  Types /\ Checked /\ OneApprovalEach /\ Backed /\ [Next]_vars => Backed'
<1> SUFFICES ASSUME Types, Checked, OneApprovalEach, Backed, [Next]_vars PROVE Backed'
  OBVIOUS
<1> USE ConstantsAssumption DEF Types, Request, Run, Written, Window, Statuses, Ops, Releasers, CallSteps, AutoSteps, Checked, OneApprovalEach, Backed, Targets, Idle
<1>1. ASSUME NEW c \in Callers, Approve(c) PROVE Backed'
  BY <1>1 DEF Approve, CallGoesTo, Settles, row, purse
<1>2. ASSUME NEW c \in Callers, Release(c) PROVE Backed'
  BY <1>2 DEF Release, CallGoesTo, Answer, row, purse
<1>3. ASSUME NEW c \in Callers, NEW op \in Ops, ReadRow(c, op) PROVE Backed'
  BY <1>3 DEF ReadRow, Answer, Targets, row, purse
<1>4. ASSUME NEW c \in Callers, ConsumeCredit(c) PROVE Backed'
  BY <1>4 DEF ConsumeCredit, HasCredit, CallGoesTo, Answer, row, purse
<1>5. ASSUME NEW c \in Callers, IncrementRevisionCount(c) PROVE Backed'
  BY <1>5 DEF IncrementRevisionCount, Answer, row, purse
<1>6. ASSUME NEW c \in Callers, UpdateStatus(c) PROVE Backed'
  BY <1>6 DEF UpdateStatus, Holds, Answer, row, purse
<1>7. ASSUME NEW c \in Callers, CrashCall(c) PROVE Backed'
  BY <1>7 DEF CrashCall, Answer, row, purse
<1>8. CASE SettleRevision
  BY <1>8 DEF SettleRevision, row, purse
<1>9. ASSUME NEW t \in told, Receive(t) PROVE Backed'
  BY <1>9 DEF Receive, GoesTo, Rest, AtRest, NoTimer, row, purse
<1>10. CASE Lapse
  BY <1>10 DEF Lapse, row, purse
<1>11. CASE TimerFires
  BY <1>11 DEF TimerFires, Wakes, Rest, AtRest, NoTimer, row, purse
<1>12. CASE SweepFinds
  BY <1>12 DEF SweepFinds, Overdue, GoesTo, row, purse
<1>13. CASE SweepSettles
  BY <1>13 DEF SweepSettles, Settles, GoesTo, row, purse
<1>14. CASE SweepPays
  BY <1>14 DEF SweepPays, GoesTo, row, purse
<1>15. ASSUME NEW r \in Releasers, Flip(r) PROVE Backed'
  BY <1>15 DEF Flip, Holds, row, purse
<1>16. ASSUME NEW r \in Releasers, AutoSettles(r) PROVE Backed'
  <2>1. CASE auto' = [auto EXCEPT ![r].at = "pay"] /\ status = "approved"
    BY <1>16, <2>1, Settlings DEF row
  <2>2. CASE /\ auto' = [auto EXCEPT ![r] = [auto[r] EXCEPT !.at = "notify", !.tries = 1]]
             /\ auto[r].flipped
    BY <1>16, <2>2, Settlings DEF row
  <2>3. CASE auto' = [auto EXCEPT ![r] = AtRest]
    BY <1>16, <2>3, Settlings DEF row, AtRest
  <2> QED
    BY <1>16, <2>1, <2>2, <2>3, Settlings
<1>17. ASSUME NEW r \in Releasers, AutoPays(r) PROVE Backed'
  BY <1>17 DEF AutoPays, Released, AtRest, row, purse
<1>18. ASSUME NEW r \in Releasers, AutoFails(r) PROVE Backed'
  BY <1>18 DEF AutoFails, Rest, AtRest, row, purse
<1>19. ASSUME NEW r \in Releasers, Notify(r) PROVE Backed'
  BY <1>19 DEF Notify, Rest, AtRest, row, purse
<1>20. CASE UNCHANGED vars
  BY <1>20 DEF vars
<1> QED
  BY <1>1, <1>2, <1>3, <1>4, <1>5, <1>6, <1>7, <1>8, <1>9, <1>10, <1>11, <1>12, <1>13, <1>14, <1>15, <1>16, <1>17, <1>18, <1>19, <1>20
  DEF Next, Calls, Releases

(* An automatic release has waited for its window.                          *)
LEMMA WaitedStep ==
  Types /\ Checked /\ OneApprovalEach /\ Waited /\ [Next]_vars => Waited'
<1> SUFFICES ASSUME Types, Checked, OneApprovalEach, Waited, [Next]_vars PROVE Waited'
  OBVIOUS
<1> USE ConstantsAssumption DEF Types, Request, Run, Written, Window, Statuses, Ops, Releasers, CallSteps, AutoSteps, Checked, OneApprovalEach, Waited, Awake, Targets
<1>1. ASSUME NEW c \in Callers, Approve(c) PROVE Waited'
  BY <1>1 DEF Approve, CallGoesTo, Settles, row, purse
<1>2. ASSUME NEW c \in Callers, Release(c) PROVE Waited'
  BY <1>2 DEF Release, CallGoesTo, Answer, row, purse
<1>3. ASSUME NEW c \in Callers, NEW op \in Ops, ReadRow(c, op) PROVE Waited'
  BY <1>3 DEF ReadRow, Answer, Targets, row, purse
<1>4. ASSUME NEW c \in Callers, ConsumeCredit(c) PROVE Waited'
  BY <1>4 DEF ConsumeCredit, HasCredit, CallGoesTo, Answer, row, purse
<1>5. ASSUME NEW c \in Callers, IncrementRevisionCount(c) PROVE Waited'
  BY <1>5 DEF IncrementRevisionCount, Answer, row, purse
<1>6. ASSUME NEW c \in Callers, UpdateStatus(c) PROVE Waited'
  <2>1. UNCHANGED <<lapsed, timer, auto>>
    BY <1>6 DEF UpdateStatus
  <2> QED
    BY <1>6, <2>1, Updates
<1>7. ASSUME NEW c \in Callers, CrashCall(c) PROVE Waited'
  BY <1>7 DEF CrashCall, Answer, row, purse
<1>8. CASE SettleRevision
  BY <1>8 DEF SettleRevision, row, purse
<1>9. ASSUME NEW t \in told, Receive(t) PROVE Waited'
  BY <1>9 DEF Receive, GoesTo, Rest, AtRest, NoTimer, row, purse
<1>10. CASE Lapse
  BY <1>10 DEF Lapse, row, purse
<1>11. CASE TimerFires
  <2>1. lapsed > 0
    BY <1>11 DEF TimerFires, Wakes
  <2>2. \/ auto' = [auto EXCEPT !["timer"] = [at |-> "flip", flipped |-> FALSE, tries |-> 1]]
        \/ auto' = [auto EXCEPT !["timer"] = AtRest]
    BY <1>11, Wakings
  <2>3. /\ auto'["timer"].at \in {"flip", "idle"} /\ ~auto'["timer"].flipped
        /\ auto'["sweep"] = auto["sweep"]
    BY <2>2 DEF AtRest
  <2> QED
    BY <1>11, <2>1, <2>3 DEF TimerFires, NoTimer, row, purse
<1>12. CASE SweepFinds
  BY <1>12 DEF SweepFinds, Overdue, GoesTo, row, purse
<1>13. CASE SweepSettles
  BY <1>13 DEF SweepSettles, Settles, GoesTo, row, purse
<1>14. CASE SweepPays
  BY <1>14 DEF SweepPays, GoesTo, row, purse
<1>15. ASSUME NEW r \in Releasers, Flip(r) PROVE Waited'
  <2>1. lapsed > 0
    BY <1>15 DEF Flip
  <2> QED
    BY <1>15, <2>1, Flips
<1>16. ASSUME NEW r \in Releasers, AutoSettles(r) PROVE Waited'
  <2>1. CASE auto' = [auto EXCEPT ![r].at = "pay"] /\ status = "approved"
    BY <1>16, <2>1, Settlings DEF row, AutoSettles
  <2>2. CASE /\ auto' = [auto EXCEPT ![r] = [auto[r] EXCEPT !.at = "notify", !.tries = 1]]
             /\ auto[r].flipped
    BY <1>16, <2>2, Settlings DEF row, AutoSettles
  <2>3. CASE auto' = [auto EXCEPT ![r] = AtRest]
    BY <1>16, <2>3, Settlings DEF row, AtRest, AutoSettles
  <2> QED
    BY <1>16, <2>1, <2>2, <2>3, Settlings
<1>17. ASSUME NEW r \in Releasers, AutoPays(r) PROVE Waited'
  BY <1>17 DEF AutoPays, Released, AtRest, row, purse
<1>18. ASSUME NEW r \in Releasers, AutoFails(r) PROVE Waited'
  BY <1>18 DEF AutoFails, Rest, AtRest, row, purse
<1>19. ASSUME NEW r \in Releasers, Notify(r) PROVE Waited'
  BY <1>19 DEF Notify, Rest, AtRest, row, purse
<1>20. CASE UNCHANGED vars
  BY <1>20 DEF vars
<1> QED
  BY <1>1, <1>2, <1>3, <1>4, <1>5, <1>6, <1>7, <1>8, <1>9, <1>10, <1>11, <1>12, <1>13, <1>14, <1>15, <1>16, <1>17, <1>18, <1>19, <1>20
  DEF Next, Calls, Releases

(* Fewer requests at the increment, or none more, disturb no count.         *)
LEMMA StillCounted ==
  ASSUME Types, RoundsCounted, Incrementing' \subseteq Incrementing,
         revisionCount' = revisionCount, spent' \in Nat, spent' >= spent
  PROVE  RoundsCounted'
<1>1. IsFiniteSet(Incrementing)
  BY ConstantsAssumption, FS_Subset DEF Incrementing
<1>2. /\ Cardinality(Incrementing') <= Cardinality(Incrementing)
      /\ Cardinality(Incrementing') \in Nat /\ Cardinality(Incrementing) \in Nat
  BY <1>1, FS_Subset, FS_CardinalityType
<1>3. Cardinality(Callers) \in Nat /\ FreeRevisions \in Nat
  BY ConstantsAssumption, FS_CardinalityType
<1> QED
  BY <1>2, <1>3 DEF RoundsCounted, Types

(* A request leaves the count alone, or takes a round that is free, or one *)
(* that is paid, or counts the one it has.                                 *)
LEMMA RoundsStep ==
  Types /\ RoundsCounted /\ [Next]_vars => RoundsCounted'
<1> SUFFICES ASSUME Types, RoundsCounted, [Next]_vars PROVE RoundsCounted'
  OBVIOUS
<1> DEFINE I == Incrementing
<1>a. /\ IsFiniteSet(I) /\ I \subseteq Callers /\ Cardinality(I) \in Nat
      /\ Cardinality(Callers) \in Nat /\ FreeRevisions \in Nat
  BY ConstantsAssumption, FS_Subset, FS_CardinalityType DEF Incrementing
<1>b. revisionCount \in Nat /\ spent \in Nat /\ credits \in Nat
  BY DEF Types
<1>1. ASSUME NEW c \in Callers, Calls(c) PROVE RoundsCounted'
  <2>1. \A d \in Callers \ {c} : call'[d] = call[d]
    BY <1>1 DEF Types, Calls, Approve, Release, ReadRow, ConsumeCredit, IncrementRevisionCount,
      UpdateStatus, CrashCall, CallGoesTo, Answer
  <2>2. CASE call'[c].at # "increment" /\ UNCHANGED <<revisionCount, spent>>
    <3>1. I' \subseteq I
      BY <2>1, <2>2 DEF Incrementing
    <3> QED
      BY <3>1, <2>2, <1>b, StillCounted
  <2>3. ASSUME NEW op \in Ops, ReadRow(c, op), call'[c].at = "increment" PROVE RoundsCounted'
    <3>1. UNCHANGED <<revisionCount, spent>> /\ revisionCount < FreeRevisions
      BY <2>3, <1>a, <1>b DEF Types, Request, ReadRow, BeyondFree, Answer, Idle, row, purse
    <3>2. I' \subseteq Callers
      BY DEF Incrementing
    <3>3. Cardinality(I') \in Nat /\ Cardinality(I') <= Cardinality(Callers)
      BY <3>2, ConstantsAssumption, FS_Subset, FS_CardinalityType
    <3> QED
      BY <3>1, <3>3, <1>a, <1>b DEF RoundsCounted
  <2>4. CASE ConsumeCredit(c) /\ call'[c].at = "increment"
    <3>1. revisionCount' = revisionCount /\ spent' = spent + 1
      BY <2>4 DEF Types, Request, ConsumeCredit, Answer, Idle, row, purse
    <3>2. I' = I \cup {c} /\ c \notin I
      BY <2>1, <2>4 DEF ConsumeCredit, Incrementing
    <3>3. Cardinality(I') = Cardinality(I) + 1
      BY <3>2, <1>a, FS_AddElement
    <3> QED
      BY <3>1, <3>3, <1>a, <1>b DEF RoundsCounted
  <2>5. CASE IncrementRevisionCount(c)
    <3>1. revisionCount' = revisionCount + 1 /\ spent' = spent /\ c \in I
      BY <2>5 DEF IncrementRevisionCount, Incrementing, purse
    <3>2. call'[c].at = "idle"
      BY <2>5 DEF Types, IncrementRevisionCount, Answer, Idle
    <3>3. I' = I \ {c}
      BY <2>1, <3>1, <3>2 DEF Incrementing
    <3>4. Cardinality(I') = Cardinality(I) - 1
      BY <3>1, <3>3, <1>a, FS_RemoveElement
    <3> QED
      BY <3>1, <3>4, <1>a, <1>b DEF RoundsCounted
  <2>6. CASE Approve(c) \/ Release(c) \/ UpdateStatus(c) \/ CrashCall(c)
    <3>1. call'[c].at \in {"release", "read", "idle"}
      <4>1. \/ call' = [call EXCEPT ![c].at = "release"]
            \/ call' = [call EXCEPT ![c].at = "read"]
            \/ call' = [call EXCEPT ![c] = Idle]
        BY <2>6, Zenon DEF Approve, Release, UpdateStatus, CrashCall, CallGoesTo, Answer
      <4> QED
        BY <4>1 DEF Types, Request, Idle
    <3>2. UNCHANGED <<revisionCount, spent>>
      BY <2>6 DEF Approve, Release, UpdateStatus, CrashCall, row, purse
    <3> QED
      BY <3>1, <3>2, <2>2
  <2>7. CASE ConsumeCredit(c) /\ call'[c].at # "increment"
    <3>1. UNCHANGED <<revisionCount, spent>>
      BY <2>7 DEF Types, Request, ConsumeCredit, CallGoesTo, row, purse
    <3> QED
      BY <3>1, <2>2, <2>7
  <2>8. ASSUME NEW op \in Ops, ReadRow(c, op), call'[c].at # "increment" PROVE RoundsCounted'
    BY <2>8, <2>2 DEF ReadRow, row, purse
  <2> QED
    BY <1>1, <2>3, <2>4, <2>5, <2>6, <2>7, <2>8 DEF Calls
<1>2. CASE SettleRevision \/ TimerFires \/ Lapse \/ (\E t \in told : Receive(t))
  <2>1. UNCHANGED <<call, revisionCount, spent>>
    BY <1>2 DEF SettleRevision, TimerFires, Lapse, Receive, row, purse
  <2> QED
    BY <2>1, <1>b, StillCounted DEF Incrementing
<1>3. CASE SweepFinds \/ SweepSettles \/ SweepPays \/ (\E r \in Releasers : Releases(r))
  <2>1. UNCHANGED <<call, revisionCount, spent>>
    BY <1>3 DEF SweepFinds, SweepSettles, SweepPays, Releases, Flip, AutoSettles, AutoPays,
      AutoFails, Notify, row, purse
  <2> QED
    BY <2>1, <1>b, StillCounted DEF Incrementing
<1>4. CASE UNCHANGED vars
  BY <1>4, <1>b, StillCounted DEF vars, Incrementing
<1> QED
  BY <1>1, <1>2, <1>3, <1>4 DEF Next

LEMMA InitInv == Init => IInv
<1> SUFFICES ASSUME Init PROVE IInv
  OBVIOUS
<1>1. Idle \in Request /\ AtRest \in Run /\ NoTimer \in Window
  BY DEF Idle, Request, AtRest, Run, NoTimer, Window, CallSteps, AutoSteps, Ops, Statuses
<1>2. events \in Written
  BY DEF Init, Written
<1>3. Types
  BY <1>1, <1>2 DEF Init, Types, Statuses
<1>4. Checked
  BY DEF Init, Checked, Idle
<1>5. OneApprovalEach /\ Backed /\ Waited
  BY DEF Init, OneApprovalEach, Backed, Waited, Idle, AtRest, Awake, Releasers
<1>6. RoundsCounted
  <2>1. Incrementing = {}
    BY DEF Init, Incrementing, Idle
  <2>2. Cardinality(Callers) \in Nat /\ Cardinality(Callers) # 0
    BY ConstantsAssumption, FS_CardinalityType, FS_EmptySet
  <2> QED
    BY <2>1, <2>2, FS_EmptySet, ConstantsAssumption DEF Init, RoundsCounted
<1> QED
  BY <1>3, <1>4, <1>5, <1>6 DEF IInv

THEOREM Inductive == Spec => []IInv
<1>1. IInv /\ [Next]_vars => IInv'
  BY TypeStep, CheckedStep, ApprovalStep, BackedStep, WaitedStep, RoundsStep DEF IInv
<1> QED
  BY InitInv, <1>1, PTL DEF Spec

(* The row, the requests, the workflow and the sweep are always of their   *)
(* types.                                                                  *)
THEOREM TypeCorrect == Spec => []TypeOK
<1>1. IInv => TypeOK
  BY DEF IInv, Types, TypeOK, Request, Run, Written, Window
<1> QED
  BY Inductive, <1>1, PTL

(* No overlap of the owner's calls, the workflow and the sweep approves a  *)
(* submission twice.                                                       *)
THEOREM ApprovedOnce == Spec => []ApprovedOncePerSubmission
<1>1. IInv => ApprovedOncePerSubmission
  BY DEF IInv, Types, Written, OneApprovalEach, ApprovedOncePerSubmission
<1> QED
  BY Inductive, <1>1, PTL

(* No order of calls, retries and revisions pays a milestone that was      *)
(* never submitted.                                                        *)
THEOREM PaymentsBacked == Spec => []PaidWasSubmitted
<1>1. IInv => PaidWasSubmitted
  BY DEF IInv, Backed, PaidWasSubmitted
<1> QED
  BY Inductive, <1>1, PTL

(* An automatic release has waited for a review window to run out.         *)
THEOREM ReleasesEarned == Spec => []AutoReleaseEarned
<1>1. IInv => AutoReleaseEarned
  BY DEF IInv, Waited, AutoReleaseEarned
<1> QED
  BY Inductive, <1>1, PTL

(* Requests in flight together slip past the free rounds at most once      *)
(* each but one, over the whole life of the milestone.                     *)
THEOREM RoundsBounded == Spec => []RoundsArePaid
<1>1. IInv => RoundsArePaid
  <2> SUFFICES ASSUME IInv PROVE RoundsArePaid
    OBVIOUS
  <2>1. /\ Cardinality(Incrementing) \in Nat /\ Cardinality(Callers) \in Nat
        /\ FreeRevisions \in Nat
    BY ConstantsAssumption, FS_Subset, FS_CardinalityType DEF Incrementing
  <2> QED
    BY <2>1 DEF IInv, Types, RoundsCounted, RoundsArePaid
<1> QED
  BY Inductive, <1>1, PTL
=============================================================================
