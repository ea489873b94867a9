------------------------------ MODULE Staffing ------------------------------
(***************************************************************************)
(* How a project finds its team: the owner offers positions, talents       *)
(* accept or decline, applications are accepted, a seat is given up and    *)
(* refilled, agreements are made and signed, work starts, and a Temporal   *)
(* workflow (with an hourly sweep behind it) answers for a team that does  *)
(* not form.  Answers, applications and terminations hold the project row  *)
(* for their whole transaction and repeat under it every check made before *)
(* it, so each is one action; the owner's confirm and start of work decide *)
(* on what they read earlier, and so take several.                         *)
(***************************************************************************)
EXTENDS Integers, FiniteSets

CONSTANTS
  Talents,   \* verified talents with a CV and a payout account
  Packages,  \* the project's work packages, named by their order_index
  Rounds,    \* bound: how often a talent may take up the same package
  Written,   \* bound: the package statuses callers write directly
  Callers    \* requests of the owner in flight at the same time

PackageStatuses == {"open", "offered", "staffed", "in_progress", "completed"}

ASSUME ConstantsAssumption ==
  /\ IsFiniteSet(Talents) /\ IsFiniteSet(Callers)
  /\ Packages \subseteq Nat /\ IsFiniteSet(Packages) /\ Packages # {}
  /\ Rounds \in Nat
  /\ Written \subseteq Packages \X PackageStatuses

(* A row of project_assignments, named by whose it is, for what, and which *)
(* of theirs.                                                              *)
Seats == Talents \X Packages \X (1..Rounds)
TalentOf(a) == a[1]
PackageOf(a) == a[2]

VARIABLES
  project,    \* where the project stands: looking for a team, at work, past it
  package,    \* [Packages -> work_packages.status]
  seat,       \* [Seats -> project_assignments.status]
  agreement,  \* [Seats -> the NDA and the IP transfer of the assignment]
  completed,  \* projects.team_completed_at is set
  announced,  \* project.team.complete events written
  byHand,     \* packages whose seat status a caller has written directly
  request,    \* [Callers -> the request's next step and what it read]
  workflow    \* the escalation workflow: its step, what it saw, its deadline

vars == <<project, package, seat, agreement, completed, announced, byHand,
          request, workflow>>
team == <<package, seat>>
fame == <<completed, announced>>

StaffedPackageStatuses == {"staffed", "in_progress", "completed"}
SeatStatuses == {"absent", "offered", "active", "ended"}
RequestSteps == {"idle", "confirm", "timer", "contracts", "signatures", "status", "write"}
WorkflowSteps == {"none", "poll", "decide", "done"}

Idle == [at |-> "idle", offers |-> {}, first |-> FALSE]
NewRun == [at |-> "poll", saw |-> FALSE, late |-> FALSE, escalated |-> FALSE]

Init ==
  /\ project = "matching"
  /\ package = [p \in Packages |-> "open"]
  /\ seat = [a \in Seats |-> "absent"]
  /\ agreement = [a \in Seats |-> "none"]
  /\ completed = FALSE
  /\ announced = 0
  /\ byHand = {}
  /\ request = [c \in Callers |-> Idle]
  /\ workflow = [NewRun EXCEPT !.at = "none"]

-----------------------------------------------------------------------------
(* WHAT THE HANDLERS READ                                                  *)

\* The database keeps at most one of these per package.
LiveSeats == {a \in Seats : seat[a] \in {"offered", "active"}}
ActiveSeats == {a \in Seats : seat[a] = "active"}
OpenPackages == {p \in Packages : package[p] = "open"}
LiveTalents == {TalentOf(a) : a \in LiveSeats}
Held(p) == \E a \in LiveSeats : PackageOf(a) = p

AllPackagesStaffed == \A p \in Packages : package[p] \in StaffedPackageStatuses

(* The next row for a talent on a package.                                 *)
IsNextSeat(a) ==
  /\ seat[a] = "absent"
  /\ \A r \in 1..Rounds : r < a[3] => seat[<<a[1], a[2], r>>] # "absent"

-----------------------------------------------------------------------------
(* FINALIZING: what accepting an offer and accepting an application share  *)

(* ensureProjectContracts, for the seats active in the transaction.        *)
EnsureContracts(active) ==
  agreement' = [a \in Seats |-> IF a \in active /\ agreement[a] = "none"
                                THEN "made" ELSE agreement[a]]

(* One more announcement; the count stops at two.                          *)
Announce == announced' = IF announced < 2 THEN announced + 1 ELSE announced

(* finalizeStaffing, after package and seat were written.                  *)
FinalizeStaffing ==
  /\ EnsureContracts({a \in Seats : seat'[a] = "active"})
  /\ IF AllPackagesStaffed' /\ project = "matching"
     THEN completed' = TRUE /\ Announce
     ELSE UNCHANGED fame

-----------------------------------------------------------------------------
(* POST /matching/confirm                                                  *)

(* validateTeamAssignments: open packages, talents not on the project, and *)
(* neither twice.                                                          *)
ValidOffers(offers) ==
  /\ offers # {}
  /\ \A o \in offers : PackageOf(o) \in OpenPackages /\ TalentOf(o) \notin LiveTalents
  /\ \A o, q \in offers : o # q => PackageOf(o) # PackageOf(q) /\ TalentOf(o) # TalentOf(q)

(* The checks, on the pool: the transaction repeats none of them.          *)
ConfirmReads(c, offers) ==
  /\ request[c].at = "idle"
  /\ project \in {"matching", "in_progress"}
  /\ ValidOffers(offers)
  /\ request' = [request EXCEPT ![c] =
       [at |-> "confirm", offers |-> offers, first |-> LiveSeats = {}]]
  /\ UNCHANGED <<project, team, agreement, fame, byHand, workflow>>

\* MUTANT: nothing but the earlier read keeps a package from two talents.
AnyFits(offers) == TRUE

(* uq_project_assignments_wp_live: no package gets a second live row.      *)
FitsIndex(offers) == \A o \in offers : ~Held(PackageOf(o))

(* The rows an offer inserts: for each talent and package the next one.    *)
Inserted(offers) == {a \in Seats : IsNextSeat(a) /\ \E o \in offers : o[1] = a[1] /\ o[2] = a[2]}

(* The transaction: every offer and its package, or none of them.  The     *)
(* first round of offers of a team also starts the escalation timer.       *)
ConfirmCommits(c) ==
  LET offers == request[c].offers
      refused == ~FitsIndex(offers)
  IN
  /\ request[c].at = "confirm"
  /\ refused \/ \A o \in offers : \E a \in Inserted(offers) : a[1] = o[1] /\ a[2] = o[2]
  /\ IF refused
     THEN /\ request' = [request EXCEPT ![c] = Idle]
          /\ UNCHANGED team
     ELSE /\ request' = [request EXCEPT ![c] =
               IF request[c].first THEN [Idle EXCEPT !.at = "timer"] ELSE Idle]
          /\ seat' = [a \in Seats |-> IF a \in Inserted(offers) THEN "offered" ELSE seat[a]]
          /\ package' = [p \in Packages |->
               IF \E o \in offers : PackageOf(o) = p THEN "offered" ELSE package[p]]
  /\ UNCHANGED <<project, agreement, fame, byHand, workflow>>

(* A run under the project's workflow id: refused while one is open.       *)
StartRun == workflow' = IF workflow.at \in {"none", "done"}
                        THEN [NewRun EXCEPT !.escalated = workflow.escalated] ELSE workflow

(* startTeamFormationWorkflow, after the commit: Temporal may not answer,  *)
(* the process may be gone.                                                *)
StartTimer(c) ==
  /\ request[c].at = "timer"
  /\ request' = [request EXCEPT ![c] = Idle]
  /\ StartRun \/ UNCHANGED workflow
  /\ UNCHANGED <<project, team, agreement, fame, byHand>>

-----------------------------------------------------------------------------
(* ANSWERS, APPLICATIONS, TERMINATIONS                                     *)

Writes(a, s, p) ==
  /\ seat' = [seat EXCEPT ![a] = s]
  /\ package' = [package EXCEPT ![PackageOf(a)] = p]

(* claimOfferedAssignment moves an offer nobody has answered.              *)
Claims(a) == seat[a] = "offered"

(* POST /matching/assignments/:id/accept                                   *)
Accept(a) ==
  /\ Claims(a)
  /\ Writes(a, "active", "staffed")
  /\ FinalizeStaffing
  /\ UNCHANGED <<project, byHand, request, workflow>>

(* POST /matching/assignments/:id/decline                                  *)
Decline(a) ==
  /\ Claims(a)
  /\ Writes(a, "ended", "open")
  /\ UNCHANGED <<project, agreement, fame, byHand, request, workflow>>

\* MUTANT: a seat may be given up before work has started.
RunningOrMatching == project # "closed"

\* assertProjectRunning, on the locked row.
Running == project = "in_progress"

(* POST /matching/assignments/:id/terminate                                *)
Terminate(a) ==
  /\ Running
  /\ seat[a] = "active"
  /\ Writes(a, "ended", "open")
  /\ UNCHANGED <<project, agreement, fame, byHand, request, workflow>>

(* PATCH /applications/:id to accepted: the application's own status, the  *)
(* talent's other seats and the project's status are not asked about.      *)
AcceptApplication(a) ==
  /\ PackageOf(a) \in OpenPackages
  /\ \A p \in OpenPackages : PackageOf(a) <= p
  /\ IsNextSeat(a)
  /\ FitsIndex({a})
  /\ Writes(a, "active", "staffed")
  /\ FinalizeStaffing
  /\ UNCHANGED <<project, byHand, request, workflow>>

-----------------------------------------------------------------------------
(* PATCH /work-packages/:id/status, AGREEMENTS                             *)

WorkPackageTransitions ==
  [open |-> {"offered", "staffed"}, offered |-> {"staffed", "open"},
   staffed |-> {"in_progress", "open"}, in_progress |-> {"completed", "open"},
   completed |-> {}]

(* The package alone is written, in any project.  Moving a staffed package *)
(* through its work leaves its seat what it was; the rest is by hand.      *)
UpdatePackage(p, s) ==
  /\ <<p, s>> \in Written
  /\ s \in WorkPackageTransitions[package[p]]
  /\ package' = [package EXCEPT ![p] = s]
  /\ byHand' = IF s \in {"in_progress", "completed"} THEN byHand ELSE byHand \cup {p}
  /\ UNCHANGED <<project, seat, agreement, fame, request, workflow>>

(* POST /contracts, by the owner, for a live assignment.                   *)
CreateContract(a) ==
  /\ a \in LiveSeats
  /\ agreement[a] = "none"
  /\ agreement' = [agreement EXCEPT ![a] = "made"]
  /\ UNCHANGED <<project, team, fame, byHand, request, workflow>>

(* PATCH /contracts/:id/sign, by the second of the two parties.  Nothing   *)
(* reads the agreement of a seat that has ended.                           *)
Sign(a) ==
  /\ a \in LiveSeats
  /\ agreement[a] = "made"
  /\ agreement' = [agreement EXCEPT ![a] = "signed"]
  /\ UNCHANGED <<project, team, fame, byHand, request, workflow>>

-----------------------------------------------------------------------------
(* POST /projects/:id/transition                                           *)

GoesTo(c, step) == request' = [request EXCEPT ![c] = [Idle EXCEPT !.at = step]]

(* To in_progress: no open seat...                                         *)
StartReads(c) ==
  /\ request[c].at = "idle"
  /\ AllPackagesStaffed
  /\ GoesTo(c, "contracts")
  /\ UNCHANGED <<project, team, agreement, fame, byHand, workflow>>

(* ...the agreements of every active seat exist...                         *)
StartContracts(c) ==
  /\ request[c].at = "contracts"
  /\ EnsureContracts(ActiveSeats)
  /\ GoesTo(c, "signatures")
  /\ UNCHANGED <<project, team, fame, byHand, workflow>>

(* Both parties signed both agreements.                                    *)
FullySigned(a) == agreement[a] = "signed"

(* ...and are signed...                                                    *)
StartSignatures(c) ==
  /\ request[c].at = "signatures"
  /\ GoesTo(c, IF \A a \in ActiveSeats : FullySigned(a) THEN "status" ELSE "idle")
  /\ UNCHANGED <<project, team, agreement, fame, byHand, workflow>>

(* ...and the project still waits for it: transitionStatus reads the row   *)
(* and writes it afterwards without comparing.                             *)
StartStatus(c) ==
  /\ request[c].at = "status"
  /\ GoesTo(c, IF project = "matching" THEN "write" ELSE "idle")
  /\ UNCHANGED <<project, team, agreement, fame, byHand, workflow>>

StartWrites(c) ==
  /\ request[c].at = "write"
  /\ project' = "in_progress"
  /\ GoesTo(c, "idle")
  /\ UNCHANGED <<team, agreement, fame, byHand, workflow>>

(* Cancelled, or on to its final review.                                   *)
Close ==
  /\ project # "closed"
  /\ project' = "closed"
  /\ UNCHANGED <<team, agreement, fame, byHand, request, workflow>>

-----------------------------------------------------------------------------
(* THE ESCALATION WORKFLOW AND ITS SWEEP                                   *)

OffersOut == \E a \in Seats : seat[a] = "offered"

\* MUTANT: a project is stalled only before anyone has accepted.
StalledUntouched == project = "matching" /\ OffersOut /\ ActiveSeats = {}

\* findStalledTeamFormation
Stalled == project = "matching" /\ OffersOut

(* The hourly sweep, when Temporal answers: a run where there was none.    *)
Sweep ==
  /\ Stalled
  /\ workflow.at = "none"
  /\ StartRun
  /\ UNCHANGED <<project, team, agreement, fame, byHand, request>>

Open == workflow.at \in {"poll", "decide"}

\* Fourteen days since the run began.
Deadline ==
  /\ Open
  /\ ~workflow.late
  /\ workflow' = [workflow EXCEPT !.late = TRUE]
  /\ UNCHANGED <<project, team, agreement, fame, byHand, request>>

(* getTeamStatus: on a signal, and every hour.                             *)
Poll ==
  /\ workflow.at = "poll"
  /\ workflow' = [workflow EXCEPT !.at = "decide", !.saw = AllPackagesStaffed]
  /\ UNCHANGED <<project, team, agreement, fame, byHand, request>>

(* signalTeamComplete is sent after a completing answer and after a start; *)
(* it may have arrived by the time the workflow decides, or never.         *)
MayBeTold == completed \/ project # "matching"

CloseRun(escalated) == workflow' = [NewRun EXCEPT !.at = "done", !.escalated = escalated]

\* MUTANT: the activity announces whenever the project is looking.
UnlatchedStamp == project = "matching"

\* The guard of finalizeTeam's update.
Unstamped == project = "matching" /\ ~completed

(* Told or shown that the team is complete: finalizeTeam, whose answer may *)
(* be lost, and then it is run again.                                      *)
FinalizeTeam ==
  /\ workflow.at = "decide"
  /\ workflow.saw \/ MayBeTold
  /\ IF Unstamped THEN completed' = TRUE /\ Announce ELSE UNCHANGED fame
  /\ CloseRun(workflow.escalated) \/ UNCHANGED workflow
  /\ UNCHANGED <<project, team, agreement, byHand, request>>

(* escalateTeamFormation: not seen complete, and past the deadline.        *)
Escalate ==
  /\ workflow.at = "decide"
  /\ ~workflow.saw
  /\ workflow.late
  /\ CloseRun(TRUE)
  /\ UNCHANGED <<project, team, agreement, fame, byHand, request>>

(* Neither: the workflow waits for a signal or for the hour.               *)
Wait ==
  /\ workflow.at = "decide"
  /\ ~workflow.saw
  /\ ~workflow.late
  /\ workflow' = [workflow EXCEPT !.at = "poll"]
  /\ UNCHANGED <<project, team, agreement, fame, byHand, request>>

-----------------------------------------------------------------------------
Starting(c) ==
  StartContracts(c) \/ StartSignatures(c) \/ StartStatus(c) \/ StartWrites(c)

Next ==
  \/ \E c \in Callers :
       \/ \E offers \in SUBSET {a \in Seats : a[3] = 1} : ConfirmReads(c, offers)
       \/ ConfirmCommits(c) \/ StartTimer(c)
       \/ StartReads(c) \/ Starting(c)
  \/ \E a \in Seats : \/ Accept(a) \/ Decline(a) \/ Terminate(a) \/ AcceptApplication(a)
                      \/ CreateContract(a) \/ Sign(a)
  \/ \E p \in Packages, s \in PackageStatuses : UpdatePackage(p, s)
  \/ Close
  \/ Sweep \/ Deadline \/ Poll \/ FinalizeTeam \/ Escalate \/ Wait

Spec == Init /\ [][Next]_vars

(* The sweep runs hourly, time passes, and Temporal runs an open workflow. *)
(* An activity is taken to succeed within its three attempts: a run that   *)
(* failed would count as existing, and the sweep would not start another.  *)
Fairness ==
  /\ WF_vars(Sweep)
  /\ WF_vars(Deadline)
  /\ WF_vars(Poll \/ Escalate \/ Wait \/ (FinalizeTeam /\ workflow'.at = "done"))
FairSpec == Spec /\ Fairness

-----------------------------------------------------------------------------
(* PROPERTIES                                                              *)

TypeOK ==
  /\ project \in {"matching", "in_progress", "closed"}
  /\ package \in [Packages -> PackageStatuses]
  /\ seat \in [Seats -> SeatStatuses]
  /\ agreement \in [Seats -> {"none", "made", "signed"}]
  /\ completed \in BOOLEAN
  /\ announced \in 0..2
  /\ byHand \subseteq Packages
  /\ request \in [Callers -> [at : RequestSteps, offers : SUBSET Seats, first : BOOLEAN]]
  /\ workflow \in [at : WorkflowSteps, saw : BOOLEAN, late : BOOLEAN, escalated : BOOLEAN]

\* The seats of a package that are in some status.
SeatsOf(p, s) == {a \in Seats : PackageOf(a) = p /\ seat[a] = s}

(* However offers, answers, applications and terminations interleave, a    *)
(* package is open exactly when nobody holds or is offered it, offered     *)
(* when one talent is, and staffed when one talent has it: none is lost to *)
(* the pool or given twice, unless its status was written by hand.         *)
PackagesMatchSeats ==
  \A p \in Packages \ byHand :
    /\ \A a, b \in LiveSeats : PackageOf(a) = p /\ PackageOf(b) = p => a = b
    /\ package[p] = "offered" <=> SeatsOf(p, "offered") # {}
    /\ package[p] \in StaffedPackageStatuses <=> SeatsOf(p, "active") # {}

(* Work starts only with a talent on every package who has an agreement    *)
(* that both parties signed, although the start of work reads the          *)
(* packages, the agreements and the project at different times.            *)
StartsStaffedAndSigned ==
  [][project = "matching" /\ project' = "in_progress" =>
       \A p \in Packages \ byHand : \E a \in SeatsOf(p, "active") : FullySigned(a)]_vars

(* A complete team is announced once, whoever notices it: by the time work *)
(* can start it has been, and neither the workflow nor a refilled seat     *)
(* announces it again.                                                     *)
AnnouncedOnce ==
  byHand = {} =>
    /\ announced <= 1
    /\ announced = 1 <=> completed
    /\ project = "matching" /\ AllPackagesStaffed => completed
    /\ project = "in_progress" => completed

(* A team that is asked and does not form is answered for: its offers are  *)
(* all answered, or it completes, or the owner is told, or the project     *)
(* moves on - even if Temporal was away when the offers went out.          *)
OffersAnsweredFor ==
  (project = "matching" /\ OffersOut) ~>
    \/ project # "matching" \/ ~OffersOut
    \/ completed \/ workflow.escalated

=============================================================================
