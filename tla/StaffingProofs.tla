--------------------------- MODULE StaffingProofs ---------------------------
(***************************************************************************)
(* Proofs about Staffing, for any number of talents, packages and requests *)
(* in flight, and for whatever callers write to the packages directly.     *)
(*                                                                         *)
(* The inductive invariant says of the rows that no package has two live   *)
(* seats (OneHolder) and that packages tell of their seats (Matches); of   *)
(* a request under way, that what it read still holds while the project is *)
(* looking for its team (Distinct, Backed, SignedOff); and of the stamp,   *)
(* that it is set when the last package is staffed and not before (Noted,  *)
(* Once, Known).                                                           *)
(***************************************************************************)
EXTENDS Staffing, TLAPS

Request == [at : RequestSteps, offers : SUBSET Seats, first : BOOLEAN]
Run == [at : WorkflowSteps, saw : BOOLEAN, late : BOOLEAN, escalated : BOOLEAN]

Live(a) == seat[a] \in {"offered", "active"}
Has(p, s) == \E a \in Seats : PackageOf(a) = p /\ seat[a] = s

OneHolder == \A a, b \in Seats : Live(a) /\ Live(b) /\ PackageOf(a) = PackageOf(b) => a = b

Matches ==
  \A p \in Packages : p \notin byHand =>
    /\ package[p] = "offered" <=> Has(p, "offered")
    /\ package[p] \in StaffedPackageStatuses <=> Has(p, "active")

Distinct ==
  \A c \in Callers : request[c].at = "confirm" =>
    \A o, q \in request[c].offers : PackageOf(o) = PackageOf(q) => o = q

Backed ==
  project = "matching" =>
    \A c \in Callers : request[c].at \in {"contracts", "signatures", "status", "write"} =>
      \A p \in Packages : p \notin byHand => Has(p, "active")

SignedOff ==
  project = "matching" =>
    \A c \in Callers : request[c].at \in {"status", "write"} =>
      \A a \in Seats : seat[a] = "active" /\ PackageOf(a) \notin byHand => agreement[a] = "signed"

Noted == byHand = {} /\ project = "matching" => (completed <=> AllPackagesStaffed)

Once ==
  byHand = {} =>
    /\ announced <= 1
    /\ announced = 1 <=> completed
    /\ project = "in_progress" => completed

Known ==
  byHand = {} =>
    /\ project = "matching" /\ workflow.at = "decide" /\ workflow.saw => completed
    /\ \A c \in Callers :
         /\ request[c].at = "write" => completed
         /\ project = "matching" /\ request[c].at \in {"contracts", "signatures", "status"}
              => completed

IInv ==
  /\ TypeOK /\ OneHolder /\ Matches /\ Distinct /\ Backed /\ SignedOff
  /\ Noted /\ Once /\ Known

(* A seat is a talent's, on a package, and is determined by its parts.     *)
LEMMA SeatParts ==
  /\ \A a \in Seats : a[1] \in Talents /\ a[2] \in Packages /\ a[3] \in Nat
                      /\ TalentOf(a) = a[1] /\ PackageOf(a) = a[2]
  /\ \A a, b \in Seats : a[1] = b[1] /\ a[2] = b[2] /\ a[3] = b[3] => a = b
  /\ \A a, b \in Seats : <<a[1], a[2], b[3]>> \in Seats
BY ConstantsAssumption DEF Seats, TalentOf, PackageOf

(* At most one row is the next of a talent on a package.                   *)
LEMMA NextSeatUnique ==
  ASSUME NEW a \in Seats, NEW b \in Seats, IsNextSeat(a), IsNextSeat(b),
         a[1] = b[1], a[2] = b[2]
  PROVE  a = b
<1>1. a[3] \in 1..Rounds /\ b[3] \in 1..Rounds
  BY DEF Seats
<1>2. a = <<a[1], a[2], a[3]>> /\ b = <<b[1], b[2], b[3]>>
  BY DEF Seats
<1>3. CASE a[3] < b[3]
  BY <1>1, <1>2, <1>3 DEF IsNextSeat
<1>4. CASE b[3] < a[3]
  BY <1>1, <1>2, <1>4 DEF IsNextSeat
<1>5. CASE a[3] = b[3]
  BY <1>2, <1>5
<1> QED
  BY <1>1, <1>3, <1>4, <1>5, ConstantsAssumption

(* The rows a confirm inserts go to different packages, the offered ones.  *)
LEMMA InsertedSeats ==
  ASSUME NEW offers \in SUBSET Seats,
         \A o, q \in offers : PackageOf(o) = PackageOf(q) => o = q
  PROVE  /\ Inserted(offers) \subseteq Seats
         /\ \A a \in Inserted(offers) :
              /\ seat[a] = "absent"
              /\ \E o \in offers : PackageOf(o) = PackageOf(a)
         /\ \A a, b \in Inserted(offers) : PackageOf(a) = PackageOf(b) => a = b
<1>1. Inserted(offers) \subseteq Seats
  BY DEF Inserted
<1>2. \A a \in Inserted(offers) :
        seat[a] = "absent" /\ \E o \in offers : PackageOf(o) = PackageOf(a)
  BY DEF Inserted, IsNextSeat, PackageOf
<1>3. ASSUME NEW a \in Inserted(offers), NEW b \in Inserted(offers), PackageOf(a) = PackageOf(b)
      PROVE  a = b
  <2>1. PICK o \in offers : o[1] = a[1] /\ o[2] = a[2]
    BY DEF Inserted
  <2>2. PICK q \in offers : q[1] = b[1] /\ q[2] = b[2]
    BY DEF Inserted
  <2>3. o = q
    BY <1>3, <2>1, <2>2 DEF PackageOf
  <2> QED
    BY <1>1, <2>1, <2>2, <2>3, NextSeatUnique DEF Inserted
<1> QED
  BY <1>1, <1>2, <1>3

(* A step of a request leaves the others where they are.                   *)
LEMMA RequestMoves ==
  ASSUME request \in [Callers -> Request], NEW c \in Callers
  PROVE  /\ \A s \in RequestSteps : [request EXCEPT ![c] = [Idle EXCEPT !.at = s]] \in [Callers -> Request]
         /\ [request EXCEPT ![c] = Idle] \in [Callers -> Request]
         /\ \A o \in SUBSET Seats, f \in BOOLEAN :
              [request EXCEPT ![c] = [at |-> "confirm", offers |-> o, first |-> f]] \in [Callers -> Request]
<1>1. Idle \in Request /\ \A s \in RequestSteps : [Idle EXCEPT !.at = s] \in Request
  BY DEF Idle, Request, RequestSteps
<1>2. \A o \in SUBSET Seats, f \in BOOLEAN :
        [at |-> "confirm", offers |-> o, first |-> f] \in Request
  BY DEF Request, RequestSteps
<1> QED
  BY <1>1, <1>2

(* The actions that touch neither packages nor seats.                      *)
Beside ==
  \/ \E c \in Callers : StartTimer(c) \/ StartReads(c) \/ StartContracts(c)
                        \/ StartSignatures(c) \/ StartStatus(c) \/ StartWrites(c)
  \/ \E c \in Callers, offers \in SUBSET Seats : ConfirmReads(c, offers)
  \/ \E a \in Seats : CreateContract(a) \/ Sign(a)
  \/ Close \/ Sweep \/ Deadline \/ Poll \/ FinalizeTeam \/ Escalate \/ Wait
  \/ UNCHANGED vars

LEMMA Steps ==
  ASSUME [Next]_vars
  PROVE  \/ Beside
         \/ \E c \in Callers : ConfirmCommits(c)
         \/ \E a \in Seats : Accept(a) \/ Decline(a) \/ Terminate(a) \/ AcceptApplication(a)
         \/ \E p \in Packages, s \in PackageStatuses : UpdatePackage(p, s)
BY DEF Next, Starting, Beside

LEMMA BesideTeam ==
  ASSUME Beside PROVE UNCHANGED <<package, seat, byHand>>
BY DEF Beside, StartTimer, StartReads, StartContracts, StartSignatures, StartStatus,
       StartWrites, ConfirmReads, CreateContract, Sign, Close, Sweep, Deadline, Poll,
       FinalizeTeam, Escalate, Wait, team, vars

-----------------------------------------------------------------------------
(* TYPES                                                                   *)

LEMMA AgreementType ==
  ASSUME agreement \in [Seats -> {"none", "made", "signed"}], NEW active
  PROVE  EnsureContracts(active) => agreement' \in [Seats -> {"none", "made", "signed"}]
BY DEF EnsureContracts

LEMMA FameType ==
  ASSUME completed \in BOOLEAN, announced \in 0..2
  PROVE  /\ completed' = TRUE /\ Announce => completed' \in BOOLEAN /\ announced' \in 0..2
         /\ UNCHANGED fame => completed' \in BOOLEAN /\ announced' \in 0..2
<1>1. ASSUME completed' = TRUE, Announce PROVE completed' \in BOOLEAN /\ announced' \in 0..2
  <2>1. announced' \in 0..2
    BY <1>1 DEF Announce
  <2> QED
    BY <1>1, <2>1
<1>2. ASSUME UNCHANGED fame PROVE completed' \in BOOLEAN /\ announced' \in 0..2
  BY <1>2 DEF fame
<1> QED
  BY <1>1, <1>2

LEMMA WritesType ==
  ASSUME package \in [Packages -> PackageStatuses], seat \in [Seats -> SeatStatuses],
         NEW a \in Seats, NEW s \in SeatStatuses, NEW p \in PackageStatuses, Writes(a, s, p)
  PROVE  package' \in [Packages -> PackageStatuses] /\ seat' \in [Seats -> SeatStatuses]
BY SeatParts DEF Writes

LEMMA FinalizeType ==
  ASSUME TypeOK, FinalizeStaffing
  PROVE  /\ agreement' \in [Seats -> {"none", "made", "signed"}]
         /\ completed' \in BOOLEAN /\ announced' \in 0..2
BY AgreementType, FameType DEF TypeOK, FinalizeStaffing

LEMMA StartRunType ==
  ASSUME workflow \in Run, StartRun
  PROVE  workflow' \in Run
BY DEF StartRun, NewRun, Run, WorkflowSteps

LEMMA TypeInit == Init => TypeOK
<1>1. Idle \in Request
  BY DEF Idle, Request, RequestSteps
<1>2. [NewRun EXCEPT !.at = "none"] \in Run
  BY DEF NewRun, Run, WorkflowSteps
<1>3. ASSUME Init PROVE TypeOK
  <2>1. completed \in BOOLEAN
    BY <1>3 DEF Init
  <2>2. announced \in 0..2 /\ project \in {"matching", "in_progress", "closed"} /\ byHand \subseteq Packages
    BY <1>3 DEF Init
  <2>3. /\ package \in [Packages -> PackageStatuses] /\ seat \in [Seats -> SeatStatuses]
        /\ agreement \in [Seats -> {"none", "made", "signed"}]
    BY <1>3 DEF Init, PackageStatuses, SeatStatuses
  <2>4. request \in [Callers -> Request]
    BY <1>1, <1>3 DEF Init
  <2>5. workflow \in Run
    BY <1>2, <1>3 DEF Init
  <2> QED
    BY <2>1, <2>2, <2>3, <2>4, <2>5 DEF TypeOK, Request, Run
<1> QED
  BY <1>3

LEMMA TypeStep == TypeOK /\ [Next]_vars => TypeOK'
<1> SUFFICES ASSUME TypeOK, [Next]_vars PROVE TypeOK'
  OBVIOUS
<1> USE DEF Request, Run
<1>0. /\ request \in [Callers -> Request] /\ workflow \in Run
      /\ package \in [Packages -> PackageStatuses] /\ seat \in [Seats -> SeatStatuses]
  BY DEF TypeOK
<1>1. ASSUME NEW c \in Callers, NEW offers \in SUBSET Seats, ConfirmReads(c, offers) PROVE TypeOK'
  <2>1. request' \in [Callers -> Request]
    BY <1>0, <1>1, RequestMoves DEF ConfirmReads
  <2> QED
    BY <1>1, <2>1 DEF TypeOK, ConfirmReads, team, fame
<1>2. ASSUME NEW c \in Callers, ConfirmCommits(c) PROVE TypeOK'
  <2>1. request' \in [Callers -> Request]
    <3>1. "timer" \in RequestSteps
      BY DEF RequestSteps
    <3>2. request' \in {[request EXCEPT ![c] = Idle], [request EXCEPT ![c] = [Idle EXCEPT !.at = "timer"]]}
      BY <1>2 DEF ConfirmCommits
    <3> HIDE DEF Request
    <3> QED
      BY <1>0, <3>1, <3>2, RequestMoves
  <2>2. package' \in [Packages -> PackageStatuses] /\ seat' \in [Seats -> SeatStatuses]
    BY <1>0, <1>2 DEF ConfirmCommits, team, PackageStatuses, SeatStatuses
  <2> QED
    BY <1>2, <2>1, <2>2 DEF TypeOK, ConfirmCommits, fame
<1>3. ASSUME NEW c \in Callers, StartTimer(c) PROVE TypeOK'
  <2>1. request' \in [Callers -> Request] /\ workflow' \in Run
    BY <1>0, <1>3, RequestMoves, StartRunType DEF StartTimer
  <2> QED
    BY <1>3, <2>1 DEF TypeOK, StartTimer, team, fame
<1>4. ASSUME NEW c \in Callers,
             StartReads(c) \/ StartContracts(c) \/ StartSignatures(c) \/ StartStatus(c) \/ StartWrites(c)
      PROVE  TypeOK'
  <2>1. request' \in [Callers -> Request]
    <3>1. \E s \in RequestSteps : GoesTo(c, s)
      BY <1>4
      DEF StartReads, StartContracts, StartSignatures, StartStatus, StartWrites, RequestSteps
    <3> HIDE DEF Request
    <3> QED
      BY <1>0, <3>1, RequestMoves DEF GoesTo
  <2>2. agreement' \in [Seats -> {"none", "made", "signed"}]
    BY <1>4, AgreementType
    DEF TypeOK, StartReads, StartContracts, StartSignatures, StartStatus, StartWrites
  <2> QED
    BY <1>4, <2>1, <2>2
    DEF TypeOK, StartReads, StartContracts, StartSignatures, StartStatus, StartWrites, team, fame
<1>5. ASSUME NEW a \in Seats, Accept(a) \/ AcceptApplication(a) PROVE TypeOK'
  <2>1. package' \in [Packages -> PackageStatuses] /\ seat' \in [Seats -> SeatStatuses]
    BY <1>0, <1>5, WritesType DEF Accept, AcceptApplication, SeatStatuses, PackageStatuses
  <2>2. FinalizeStaffing /\ UNCHANGED <<project, byHand, request, workflow>>
    BY <1>5 DEF Accept, AcceptApplication
  <2> QED
    BY <2>1, <2>2, FinalizeType DEF TypeOK
<1>6. ASSUME NEW a \in Seats, Decline(a) \/ Terminate(a) PROVE TypeOK'
  <2>1. package' \in [Packages -> PackageStatuses] /\ seat' \in [Seats -> SeatStatuses]
    BY <1>0, <1>6, WritesType DEF Decline, Terminate, SeatStatuses, PackageStatuses
  <2> QED
    BY <1>6, <2>1 DEF TypeOK, Decline, Terminate, fame
<1>7. ASSUME NEW p \in Packages, NEW s \in PackageStatuses, UpdatePackage(p, s) PROVE TypeOK'
  BY <1>7 DEF TypeOK, UpdatePackage, fame
<1>8. ASSUME NEW a \in Seats, CreateContract(a) \/ Sign(a) PROVE TypeOK'
  BY <1>8 DEF TypeOK, CreateContract, Sign, team, fame
<1>9. CASE Close
  BY <1>9 DEF TypeOK, Close, team, fame
<1>10. CASE Sweep \/ Deadline \/ Poll \/ Escalate \/ Wait
  <2>1. workflow' \in Run
    BY <1>0, <1>10, StartRunType
    DEF Sweep, Deadline, Poll, Escalate, Wait, CloseRun, NewRun, WorkflowSteps, AllPackagesStaffed
  <2> QED
    BY <1>10, <2>1 DEF TypeOK, Sweep, Deadline, Poll, Escalate, Wait, team, fame
<1>11. CASE FinalizeTeam
  <2>1. workflow' \in Run
    BY <1>0, <1>11 DEF FinalizeTeam, CloseRun, NewRun, WorkflowSteps
  <2>2. completed' \in BOOLEAN /\ announced' \in 0..2
    BY <1>11, FameType DEF TypeOK, FinalizeTeam
  <2> QED
    BY <1>11, <2>1, <2>2 DEF TypeOK, FinalizeTeam, team
<1>12. CASE UNCHANGED vars
  BY <1>12 DEF TypeOK, vars, team, fame
<1> QED
  BY <1>1, <1>2, <1>3, <1>4, <1>5, <1>6, <1>7, <1>8, <1>9, <1>10, <1>11, <1>12 DEF Next, Starting

-----------------------------------------------------------------------------
(* ROWS                                                                    *)

(* What the four answers write.                                            *)
LEMMA Answers ==
  ASSUME NEW a \in Seats, Accept(a) \/ Decline(a) \/ Terminate(a) \/ AcceptApplication(a)
  PROVE  /\ UNCHANGED <<project, byHand, request, workflow>>
         /\ Accept(a) => seat[a] = "offered" /\ Writes(a, "active", "staffed") /\ FinalizeStaffing
         /\ AcceptApplication(a) =>
              /\ seat[a] = "absent" /\ package[PackageOf(a)] = "open" /\ ~Held(PackageOf(a))
              /\ Writes(a, "active", "staffed") /\ FinalizeStaffing
         /\ Decline(a) => /\ seat[a] = "offered" /\ Writes(a, "ended", "open")
                          /\ UNCHANGED <<agreement, fame>>
         /\ Terminate(a) => /\ seat[a] = "active" /\ project = "in_progress"
                            /\ Writes(a, "ended", "open") /\ UNCHANGED <<agreement, fame>>
<1>1. Accept(a) => seat[a] = "offered" /\ Writes(a, "active", "staffed") /\ FinalizeStaffing
  BY DEF Accept, Claims
<1>2. AcceptApplication(a) =>
        /\ seat[a] = "absent" /\ package[PackageOf(a)] = "open" /\ ~Held(PackageOf(a))
        /\ Writes(a, "active", "staffed") /\ FinalizeStaffing
  BY DEF AcceptApplication, OpenPackages, IsNextSeat, FitsIndex
<1>3. Decline(a) => /\ seat[a] = "offered" /\ Writes(a, "ended", "open")
                    /\ UNCHANGED <<agreement, fame>>
  BY DEF Decline, Claims
<1>4. Terminate(a) => /\ seat[a] = "active" /\ project = "in_progress"
                      /\ Writes(a, "ended", "open") /\ UNCHANGED <<agreement, fame>>
  BY DEF Terminate, Running
<1>5. UNCHANGED <<project, byHand, request, workflow>>
  BY DEF Accept, Decline, Terminate, AcceptApplication
<1> QED
  BY <1>1, <1>2, <1>3, <1>4, <1>5

(* What a confirm writes when the index lets it.                           *)
LEMMA Confirms ==
  ASSUME TypeOK, Distinct, NEW c \in Callers, ConfirmCommits(c), ~UNCHANGED team
  PROVE  \E offers \in SUBSET Seats, new \in SUBSET Seats :
           /\ \A o \in offers : \E a \in new : PackageOf(a) = PackageOf(o)
           /\ \A a \in new : /\ seat[a] = "absent" /\ ~Held(PackageOf(a))
                             /\ \E o \in offers : PackageOf(o) = PackageOf(a)
           /\ \A a, b \in new : PackageOf(a) = PackageOf(b) => a = b
           /\ \A o \in offers : ~Held(PackageOf(o))
           /\ seat' = [a \in Seats |-> IF a \in new THEN "offered" ELSE seat[a]]
           /\ package' = [p \in Packages |->
                            IF \E o \in offers : PackageOf(o) = p THEN "offered" ELSE package[p]]
<1> DEFINE offers == request[c].offers
           new == Inserted(offers)
<1>1. offers \in SUBSET Seats
  BY DEF TypeOK
<1>2. \A o, q \in offers : PackageOf(o) = PackageOf(q) => o = q
  BY DEF Distinct, ConfirmCommits
<1>3. /\ new \subseteq Seats
      /\ \A a \in new : seat[a] = "absent" /\ \E o \in offers : PackageOf(o) = PackageOf(a)
      /\ \A a, b \in new : PackageOf(a) = PackageOf(b) => a = b
  BY <1>1, <1>2, InsertedSeats
<1>4. FitsIndex(offers)
  BY DEF ConfirmCommits
<1>5. \A o \in offers : \E a \in new : PackageOf(a) = PackageOf(o)
  BY <1>4 DEF ConfirmCommits, PackageOf
<1>6. /\ seat' = [a \in Seats |-> IF a \in new THEN "offered" ELSE seat[a]]
      /\ package' = [p \in Packages |->
                       IF \E o \in offers : PackageOf(o) = p THEN "offered" ELSE package[p]]
  BY <1>4 DEF ConfirmCommits
<1>7. \A o \in offers : ~Held(PackageOf(o))
  BY <1>4 DEF FitsIndex
<1>8. \A a \in new : ~Held(PackageOf(a))
  BY <1>3, <1>7
<1> HIDE DEF new, offers
<1> QED
  BY <1>1, <1>3, <1>5, <1>6, <1>7, <1>8

LEMMA HeldIsLive == \A p : Held(p) <=> \E a \in Seats : PackageOf(a) = p /\ Live(a)
BY DEF Held, LiveSeats, Live

LEMMA ConfirmTeamType ==
  ASSUME NEW c \in Callers, ConfirmCommits(c)
  PROVE  UNCHANGED <<project, agreement, fame, byHand, workflow>>
BY DEF ConfirmCommits

LEMMA OneHolderStep ==
  ASSUME TypeOK, OneHolder, Distinct, [Next]_vars PROVE OneHolder'
<1>1. CASE UNCHANGED seat
  BY <1>1 DEF OneHolder, Live
<1>2. ASSUME NEW c \in Callers, ConfirmCommits(c), ~UNCHANGED team PROVE OneHolder'
  <2>1. PICK new \in SUBSET Seats :
          /\ \A a \in new : ~Held(PackageOf(a))
          /\ \A a, b \in new : PackageOf(a) = PackageOf(b) => a = b
          /\ seat' = [a \in Seats |-> IF a \in new THEN "offered" ELSE seat[a]]
    BY <1>2, Confirms
  <2>2. \A a \in Seats : Live(a)' => Live(a) \/ a \in new
    BY <2>1 DEF Live
  <2>3. \A a \in new, b \in Seats : Live(b) => PackageOf(a) # PackageOf(b)
    BY <2>1, HeldIsLive
  <2> QED
    BY <2>1, <2>2, <2>3 DEF OneHolder
<1>3. ASSUME NEW a \in Seats, Accept(a) \/ Decline(a) \/ Terminate(a) PROVE OneHolder'
  <2>1. Live(a) /\ \A b \in Seats : b # a => seat'[b] = seat[b]
    BY <1>3, Answers DEF Live, Writes, TypeOK
  <2>2. \A b \in Seats : Live(b)' => Live(b)
    BY <2>1 DEF Live
  <2> QED
    BY <2>2 DEF OneHolder
<1>4. ASSUME NEW a \in Seats, AcceptApplication(a) PROVE OneHolder'
  <2>1. ~Held(PackageOf(a)) /\ \A b \in Seats : b # a => seat'[b] = seat[b]
    BY <1>4, Answers DEF Writes, TypeOK
  <2>2. \A b \in Seats : Live(b)' => Live(b) \/ b = a
    BY <2>1 DEF Live
  <2>3. \A b \in Seats : Live(b) => PackageOf(a) # PackageOf(b)
    BY <2>1, HeldIsLive
  <2> QED
    BY <2>2, <2>3 DEF OneHolder
<1>5. ASSUME NEW p \in Packages, NEW s \in PackageStatuses, UpdatePackage(p, s) PROVE UNCHANGED seat
  BY <1>5 DEF UpdatePackage
<1> QED
  BY <1>1, <1>2, <1>3, <1>4, <1>5, Steps, BesideTeam DEF team

LEMMA DistinctStep ==
  ASSUME TypeOK, Distinct, [Next]_vars PROVE Distinct'
<1> SUFFICES ASSUME NEW d \in Callers, request'[d].at = "confirm"
             PROVE  \A o, q \in request'[d].offers : PackageOf(o) = PackageOf(q) => o = q
  BY DEF Distinct
<1>1. CASE request'[d] = request[d]
  BY <1>1 DEF Distinct
<1>2. ASSUME NEW c \in Callers, NEW offers \in SUBSET Seats, ConfirmReads(c, offers),
             request'[d] # request[d]
      PROVE  \A o, q \in request'[d].offers : PackageOf(o) = PackageOf(q) => o = q
  <2>1. request'[d].offers = offers
    BY <1>2 DEF ConfirmReads, TypeOK
  <2> QED
    BY <1>2, <2>1 DEF ConfirmReads, ValidOffers
<1>3. ASSUME NEW c \in Callers,
             \/ ConfirmCommits(c) \/ StartTimer(c) \/ StartReads(c) \/ StartContracts(c)
             \/ StartSignatures(c) \/ StartStatus(c) \/ StartWrites(c)
      PROVE  request'[d] = request[d]
  <2>1. c # d => request'[d] = request[d]
    BY <1>3 DEF ConfirmCommits, StartTimer, StartReads, StartContracts, StartSignatures,
                StartStatus, StartWrites, GoesTo, TypeOK
  <2>2. c = d => request'[d].at # "confirm"
    BY <1>3 DEF ConfirmCommits, StartTimer, StartReads, StartContracts, StartSignatures,
                StartStatus, StartWrites, GoesTo, TypeOK, Idle
  <2> QED
    BY <2>1, <2>2
<1>4. ASSUME NEW a \in Seats,
             \/ Accept(a) \/ Decline(a) \/ Terminate(a) \/ AcceptApplication(a)
             \/ CreateContract(a) \/ Sign(a)
      PROVE  request' = request
  BY <1>4 DEF Accept, Decline, Terminate, AcceptApplication, CreateContract, Sign
<1>5. ASSUME \/ \E p \in Packages, s \in PackageStatuses : UpdatePackage(p, s)
             \/ Close \/ Sweep \/ Deadline \/ Poll \/ FinalizeTeam \/ Escalate \/ Wait
             \/ UNCHANGED vars
      PROVE  request' = request
  BY <1>5 DEF UpdatePackage, Close, Sweep, Deadline, Poll, FinalizeTeam, Escalate, Wait, vars
<1> QED
  BY <1>1, <1>2, <1>3, <1>4, <1>5, Steps DEF Beside

(* An answer's package tells of the seat it was about.                     *)
LEMMA WrittenMatches ==
  ASSUME TypeOK, OneHolder, OneHolder', Matches, NEW a \in Seats,
         UNCHANGED byHand,
         \/ Writes(a, "active", "staffed")
         \/ Live(a) /\ Writes(a, "ended", "open")
  PROVE  Matches'
<1> SUFFICES ASSUME NEW p \in Packages, p \notin byHand
             PROVE  /\ package'[p] = "offered" <=> Has(p, "offered")'
                    /\ package'[p] \in StaffedPackageStatuses <=> Has(p, "active")'
  BY DEF Matches
<1>1. \A b \in Seats : b # a => seat'[b] = seat[b]
  BY DEF Writes, TypeOK
<1>2. CASE PackageOf(a) # p
  <2>1. package'[p] = package[p]
    BY <1>2 DEF Writes, TypeOK
  <2>2. \A s : Has(p, s)' <=> Has(p, s)
    BY <1>1, <1>2 DEF Has
  <2> QED
    BY <2>1, <2>2 DEF Matches
<1>3. CASE PackageOf(a) = p /\ Writes(a, "active", "staffed")
  <2>1. package'[p] = "staffed" /\ seat'[a] = "active"
    BY <1>3 DEF Writes, TypeOK
  <2>2. ~Has(p, "offered")'
    BY <1>3, <2>1 DEF Has, OneHolder, Live
  <2> QED
    BY <1>3, <2>1, <2>2 DEF Has, StaffedPackageStatuses
<1>4. CASE PackageOf(a) = p /\ Live(a) /\ Writes(a, "ended", "open")
  <2>1. package'[p] = "open" /\ seat'[a] = "ended"
    BY <1>4 DEF Writes, TypeOK
  <2>2. \A b \in Seats : PackageOf(b) = p => ~Live(b)'
    BY <1>1, <1>4, <2>1 DEF OneHolder, Live
  <2> QED
    BY <2>1, <2>2 DEF Has, Live, StaffedPackageStatuses
<1> QED
  BY <1>2, <1>3, <1>4

LEMMA MatchesStep ==
  ASSUME TypeOK, OneHolder, OneHolder', Distinct, Matches, [Next]_vars PROVE Matches'
<1>1. CASE UNCHANGED <<package, seat, byHand>>
  BY <1>1 DEF Matches, Has
<1>2. ASSUME NEW c \in Callers, ConfirmCommits(c), ~UNCHANGED team PROVE Matches'
  <2>1. PICK offers \in SUBSET Seats, new \in SUBSET Seats :
          /\ \A o \in offers : \E a \in new : PackageOf(a) = PackageOf(o)
          /\ \A a \in new : \E o \in offers : PackageOf(o) = PackageOf(a)
          /\ \A o \in offers : ~Held(PackageOf(o))
          /\ seat' = [a \in Seats |-> IF a \in new THEN "offered" ELSE seat[a]]
          /\ package' = [p \in Packages |->
                           IF \E o \in offers : PackageOf(o) = p THEN "offered" ELSE package[p]]
    BY <1>2, Confirms
  <2> SUFFICES ASSUME NEW p \in Packages, p \notin byHand
               PROVE  /\ package'[p] = "offered" <=> Has(p, "offered")'
                      /\ package'[p] \in StaffedPackageStatuses <=> Has(p, "active")'
    BY <1>2, ConfirmTeamType DEF Matches
  <2>2. CASE \E o \in offers : PackageOf(o) = p
    <3>1. PICK a \in new : PackageOf(a) = p
      BY <2>1, <2>2
    <3>2. seat'[a] = "offered" /\ package'[p] = "offered"
      BY <2>1, <2>2
    <3>3. \A b \in Seats : PackageOf(b) = p => seat'[b] # "active"
      BY <2>1, <2>2, HeldIsLive DEF Live
    <3> QED
      BY <3>1, <3>2, <3>3 DEF Has, StaffedPackageStatuses
  <2>3. CASE ~\E o \in offers : PackageOf(o) = p
    <3>1. package'[p] = package[p] /\ \A a \in Seats : PackageOf(a) = p => seat'[a] = seat[a]
      BY <2>1, <2>3
    <3> QED
      BY <3>1 DEF Has, Matches
  <2> QED
    BY <2>2, <2>3
<1>3. ASSUME NEW a \in Seats, Accept(a) \/ Decline(a) \/ Terminate(a) \/ AcceptApplication(a)
      PROVE  Matches'
  <2>1. /\ UNCHANGED byHand
        /\ Writes(a, "active", "staffed") \/ (Live(a) /\ Writes(a, "ended", "open"))
    BY <1>3, Answers DEF Live
  <2> QED
    BY <2>1, WrittenMatches
<1>4. ASSUME NEW q \in Packages, NEW s \in PackageStatuses, UpdatePackage(q, s) PROVE Matches'
  <2> SUFFICES ASSUME NEW p \in Packages, p \notin byHand'
               PROVE  /\ package'[p] = "offered" <=> Has(p, "offered")'
                      /\ package'[p] \in StaffedPackageStatuses <=> Has(p, "active")'
    BY DEF Matches
  <2>1. p \notin byHand /\ UNCHANGED seat
    BY <1>4 DEF UpdatePackage
  <2>2. CASE p # q
    <3>1. package'[p] = package[p]
      BY <1>4, <2>2 DEF UpdatePackage, TypeOK
    <3> QED
      BY <2>1, <3>1 DEF Has, Matches
  <2>3. CASE p = q
    <3>1. s \in {"in_progress", "completed"} /\ package'[p] = s
      BY <1>4, <2>3 DEF UpdatePackage, TypeOK
    <3>2. package[p] \in {"staffed", "in_progress"}
      BY <1>4, <2>3, <3>1 DEF UpdatePackage, WorkPackageTransitions, TypeOK, PackageStatuses
    <3> QED
      BY <2>1, <3>1, <3>2 DEF Has, Matches, StaffedPackageStatuses
  <2> QED
    BY <2>2, <2>3
<1>5. ASSUME NEW c \in Callers, ConfirmCommits(c), UNCHANGED team
      PROVE  UNCHANGED <<package, seat, byHand>>
  BY <1>5, ConfirmTeamType DEF team
<1> QED
  BY <1>1, <1>2, <1>3, <1>4, <1>5, Steps, BesideTeam

-----------------------------------------------------------------------------
(* REQUESTS UNDER WAY                                                      *)

(* While the project is looking for its team, a step takes nothing from    *)
(* what a start of work has read.                                          *)
LEMMA Keeps ==
  ASSUME TypeOK, OneHolder, Distinct, [Next]_vars
  PROVE  /\ project' = "matching" => project = "matching"
         /\ byHand \subseteq byHand'
         /\ \A a \in Seats : agreement[a] = "signed" => agreement'[a] = "signed"
         /\ project = "matching" =>
              \A a \in Seats : seat[a] = "active" => seat'[a] = "active"
<1>1. ASSUME Beside
      PROVE  /\ project' = "matching" => project = "matching"
             /\ \A a \in Seats : agreement[a] = "signed" => agreement'[a] = "signed"
  BY <1>1 DEF Beside, StartTimer, StartReads, StartContracts, StartSignatures, StartStatus,
       StartWrites, ConfirmReads, CreateContract, Sign, Close, Sweep, Deadline, Poll,
       FinalizeTeam, Escalate, Wait, team, vars, EnsureContracts, TypeOK
<1>2. ASSUME NEW c \in Callers, ConfirmCommits(c)
      PROVE  \A a \in Seats : seat[a] = "active" => seat'[a] = "active"
  BY <1>2, Confirms DEF team
<1>3. ASSUME NEW a \in Seats, Accept(a) \/ Decline(a) \/ Terminate(a) \/ AcceptApplication(a)
      PROVE  /\ \A b \in Seats : agreement[b] = "signed" => agreement'[b] = "signed"
             /\ project = "matching" =>
                  \A b \in Seats : seat[b] = "active" => seat'[b] = "active"
  <2>1. \A b \in Seats : agreement[b] = "signed" => agreement'[b] = "signed"
    BY <1>3, Answers DEF FinalizeStaffing, EnsureContracts
  <2>2. project = "matching" => seat[a] # "active" \/ seat'[a] = "active"
    BY <1>3, Answers DEF Writes, TypeOK
  <2>3. \A b \in Seats : b # a => seat'[b] = seat[b]
    BY <1>3, Answers DEF Writes, TypeOK
  <2> QED
    BY <2>1, <2>2, <2>3
<1>4. ASSUME NEW p \in Packages, NEW s \in PackageStatuses, UpdatePackage(p, s)
      PROVE  UNCHANGED <<project, seat, agreement>> /\ byHand \subseteq byHand'
  BY <1>4 DEF UpdatePackage
<1> QED
  BY <1>1, <1>2, <1>3, <1>4, Steps, BesideTeam, ConfirmTeamType, Answers

(* Where a request goes, and what it found on the way.                     *)
LEMMA Requests ==
  ASSUME TypeOK, [Next]_vars, NEW d \in Callers
  PROVE  \/ request'[d] = request[d]
         \/ request'[d].at \in {"idle", "confirm", "timer"}
         \/ Beside /\ UNCHANGED <<project, workflow, completed, announced>> /\
              \/ AllPackagesStaffed /\ UNCHANGED agreement /\ request'[d].at = "contracts"
              \/ request[d].at = "contracts" /\ request'[d].at = "signatures"
              \/ /\ request[d].at = "signatures" /\ request'[d].at = "status"
                 /\ UNCHANGED agreement
                 /\ \A a \in ActiveSeats : FullySigned(a)
              \/ /\ request[d].at = "status" /\ request'[d].at = "write"
                 /\ UNCHANGED agreement /\ project = "matching"
<1> DEFINE Moves(c) == StartReads(c) \/ StartContracts(c) \/ StartSignatures(c)
                       \/ StartStatus(c) \/ StartWrites(c)
<1>1. CASE \E c \in Callers : Moves(c)
  <2>1. PICK c \in Callers : Moves(c)
    BY <1>1
  <2>2. Beside
    BY <2>1 DEF Beside
  <2>3. CASE c # d
    <3>1. request'[d] = request[d]
      BY <2>1, <2>3 DEF StartReads, StartContracts, StartSignatures, StartStatus, StartWrites,
                        GoesTo, TypeOK
    <3> QED
      BY <3>1
  <2>4. CASE c = d
    <3>1. \A s : GoesTo(d, s) => request'[d].at = s
      BY DEF GoesTo, TypeOK, Idle
    <3>2. CASE StartReads(d)
      BY <2>2, <3>1, <3>2 DEF StartReads, fame
    <3>3. CASE StartContracts(d)
      BY <2>2, <3>1, <3>3 DEF StartContracts, fame
    <3>4. CASE StartSignatures(d)
      <4>1. \/ request'[d].at = "idle"
            \/ request'[d].at = "status" /\ \A a \in ActiveSeats : FullySigned(a)
        BY <3>1, <3>4 DEF StartSignatures
      <4>2. /\ request[d].at = "signatures"
            /\ UNCHANGED <<project, workflow, completed, announced, agreement>>
        BY <3>4 DEF StartSignatures, fame
      <4> QED
        BY <2>2, <4>1, <4>2
    <3>5. CASE StartStatus(d)
      <4>1. request'[d].at = "idle" \/ (request'[d].at = "write" /\ project = "matching")
        BY <3>1, <3>5 DEF StartStatus
      <4>2. /\ request[d].at = "status"
            /\ UNCHANGED <<project, workflow, completed, announced, agreement>>
        BY <3>5 DEF StartStatus, fame
      <4> QED
        BY <2>2, <4>1, <4>2
    <3>6. CASE StartWrites(d)
      BY <3>1, <3>6 DEF StartWrites
    <3> QED
      BY <2>1, <2>4, <3>2, <3>3, <3>4, <3>5, <3>6
  <2> QED
    BY <2>3, <2>4
<1>2. CASE \E c \in Callers : ConfirmCommits(c) \/ StartTimer(c)
  BY <1>2 DEF ConfirmCommits, StartTimer, TypeOK, Idle
<1>3. CASE \E c \in Callers, offers \in SUBSET Seats : ConfirmReads(c, offers)
  BY <1>3 DEF ConfirmReads, TypeOK
<1>4. CASE \/ \E a \in Seats : CreateContract(a) \/ Sign(a)
           \/ Close \/ Sweep \/ Deadline \/ Poll \/ FinalizeTeam \/ Escalate \/ Wait
           \/ UNCHANGED vars
  BY <1>4 DEF CreateContract, Sign, Close, Sweep, Deadline, Poll, FinalizeTeam, Escalate, Wait, vars
<1>5. CASE \E a \in Seats : Accept(a) \/ Decline(a) \/ Terminate(a) \/ AcceptApplication(a)
  BY <1>5, Answers
<1>6. CASE \E p \in Packages, s \in PackageStatuses : UpdatePackage(p, s)
  BY <1>6 DEF UpdatePackage
<1> QED
  BY <1>1, <1>2, <1>3, <1>4, <1>5, <1>6, Steps DEF Beside

LEMMA BackedStep ==
  ASSUME TypeOK, OneHolder, Distinct, Matches, Backed, [Next]_vars PROVE Backed'
<1> SUFFICES ASSUME project' = "matching", NEW d \in Callers,
                    request'[d].at \in {"contracts", "signatures", "status", "write"},
                    NEW p \in Packages, p \notin byHand'
             PROVE  Has(p, "active")'
  BY DEF Backed
<1>1. project = "matching" /\ p \notin byHand
  BY Keeps
<1>2. Has(p, "active")
  <2>1. CASE request[d].at \in {"contracts", "signatures", "status", "write"}
    BY <1>1, <2>1 DEF Backed
  <2>2. CASE AllPackagesStaffed
    BY <1>1, <2>2 DEF AllPackagesStaffed, Matches
  <2> QED
    BY <2>1, <2>2, Requests
<1> QED
  BY <1>1, <1>2, Keeps DEF Has

LEMMA SignedOffStep ==
  ASSUME TypeOK, OneHolder, OneHolder', Distinct, Backed, SignedOff, [Next]_vars
  PROVE  SignedOff'
<1> SUFFICES ASSUME project' = "matching", NEW d \in Callers,
                    request'[d].at \in {"status", "write"},
                    NEW a \in Seats, seat'[a] = "active", PackageOf(a) \notin byHand'
             PROVE  agreement'[a] = "signed"
  BY DEF SignedOff
<1>1. project = "matching" /\ PackageOf(a) \notin byHand
  BY Keeps
<1>2. request[d].at \in {"signatures", "status", "write"}
  BY Requests
<1>3. PackageOf(a) \in Packages
  BY SeatParts
<1>4. seat[a] = "active"
  <2>1. PICK b \in Seats : PackageOf(b) = PackageOf(a) /\ seat[b] = "active"
    BY <1>1, <1>2, <1>3 DEF Backed, Has
  <2>2. seat'[b] = "active"
    BY <1>1, <2>1, Keeps
  <2> QED
    BY <2>1, <2>2 DEF OneHolder, Live
<1>5. CASE request[d].at \in {"status", "write"}
  BY <1>1, <1>4, <1>5, Keeps DEF SignedOff
<1>6. CASE request[d].at = "signatures"
  BY <1>4, <1>6, Requests DEF ActiveSeats, FullySigned
<1> QED
  BY <1>2, <1>5, <1>6

-----------------------------------------------------------------------------
(* THE STAMP                                                               *)

(* Nobody has accepted the last offer yet: what was not staffed before an  *)
(* answer leaves the team incomplete.                                      *)
LEMMA AnswersIncomplete ==
  ASSUME TypeOK, Matches, byHand = {}, project = "matching", NEW a \in Seats,
         Accept(a) \/ Decline(a) \/ AcceptApplication(a)
  PROVE  ~AllPackagesStaffed
<1>1. PackageOf(a) \in Packages
  BY SeatParts
<1>2. CASE seat[a] = "offered"
  BY <1>1, <1>2 DEF Matches, Has, AllPackagesStaffed, StaffedPackageStatuses
<1>3. CASE package[PackageOf(a)] = "open"
  BY <1>1, <1>3 DEF AllPackagesStaffed, StaffedPackageStatuses
<1> QED
  BY <1>2, <1>3, Answers

(* What becomes of the stamp in a step, when no package is written by hand.*)
LEMMA Stamps ==
  ASSUME TypeOK, OneHolder, Distinct, Matches, Noted, Known, [Next]_vars, byHand' = {}
  PROVE  /\ byHand = {}
         /\ \/ UNCHANGED <<completed, announced>>
            \/ ~completed /\ completed' /\ Announce /\ project = "matching"
         /\ project' = "matching" => (completed' <=> AllPackagesStaffed')
<1>1. byHand = {}
  BY Keeps
<1>2. CASE Beside
  <2>1. UNCHANGED <<completed, announced>>
    <3>1. CASE FinalizeTeam
      BY <1>1, <3>1 DEF FinalizeTeam, Known, Unstamped, MayBeTold, fame
    <3>2. CASE ~FinalizeTeam
      BY <1>2, <3>2 DEF Beside, StartTimer, StartReads, StartContracts, StartSignatures,
         StartStatus, StartWrites, ConfirmReads, CreateContract, Sign, Close, Sweep, Deadline,
         Poll, Escalate, Wait, vars, fame
    <3> QED
      BY <3>1, <3>2
  <2>2. project' = "matching" => project = "matching"
    BY Keeps
  <2>3. AllPackagesStaffed' <=> AllPackagesStaffed
    BY <1>2, BesideTeam DEF AllPackagesStaffed
  <2> QED
    BY <1>1, <2>1, <2>2, <2>3 DEF Noted
<1>3. ASSUME NEW c \in Callers, ConfirmCommits(c)
      PROVE  /\ UNCHANGED <<completed, announced>>
             /\ project' = "matching" => (completed' <=> AllPackagesStaffed')
  <2>1. UNCHANGED <<completed, announced, project>>
    BY <1>3, ConfirmTeamType DEF fame
  <2>2. CASE UNCHANGED team
    BY <1>1, <2>1, <2>2 DEF Noted, AllPackagesStaffed, team
  <2>3. CASE ~UNCHANGED team
    <3>1. PICK offers \in SUBSET Seats :
            /\ \A o \in offers : ~Held(PackageOf(o))
            /\ package' = [p \in Packages |->
                 IF \E o \in offers : PackageOf(o) = p THEN "offered" ELSE package[p]]
      BY <1>3, <2>3, Confirms
    <3>2. CASE offers = {}
      BY <1>1, <2>1, <3>1, <3>2 DEF Noted, AllPackagesStaffed
    <3>3. ASSUME NEW o \in offers PROVE ~AllPackagesStaffed /\ ~AllPackagesStaffed'
      <4>1. PackageOf(o) \in Packages
        BY SeatParts
      <4>2. package'[PackageOf(o)] = "offered" /\ ~Has(PackageOf(o), "active")
        BY <3>1, <4>1, HeldIsLive DEF Has, Live
      <4> QED
        BY <1>1, <4>1, <4>2 DEF Matches, AllPackagesStaffed, StaffedPackageStatuses
    <3> QED
      BY <1>1, <2>1, <3>2, <3>3 DEF Noted
  <2> QED
    BY <2>2, <2>3
<1>4. ASSUME NEW a \in Seats, Accept(a) \/ AcceptApplication(a)
      PROVE  /\ \/ UNCHANGED <<completed, announced>>
                \/ ~completed /\ completed' /\ Announce /\ project = "matching"
             /\ project' = "matching" => (completed' <=> AllPackagesStaffed')
  <2>1. FinalizeStaffing /\ UNCHANGED project
    BY <1>4, Answers
  <2>2. project = "matching" => ~completed
    BY <1>1, <1>4, AnswersIncomplete DEF Noted
  <2>3. CASE AllPackagesStaffed' /\ project = "matching"
    <3>1. completed' = TRUE /\ Announce
      BY <2>1, <2>3 DEF FinalizeStaffing
    <3> QED
      BY <2>2, <2>3, <3>1
  <2>4. CASE ~(AllPackagesStaffed' /\ project = "matching")
    <3>1. UNCHANGED <<completed, announced>>
      BY <2>1, <2>4 DEF FinalizeStaffing, fame
    <3> QED
      BY <2>1, <2>2, <2>4, <3>1
  <2> QED
    BY <2>3, <2>4
<1>5. ASSUME NEW a \in Seats, Decline(a) \/ Terminate(a)
      PROVE  /\ UNCHANGED <<completed, announced>>
             /\ project' = "matching" => (completed' <=> AllPackagesStaffed')
  <2>1. UNCHANGED <<project, completed, announced>> /\ Writes(a, "ended", "open")
    BY <1>5, Answers DEF fame
  <2>2. project = "matching" => Decline(a)
    BY <1>5, Answers
  <2>3. project = "matching" => ~completed
    BY <1>1, <2>2, AnswersIncomplete DEF Noted
  <2>4. ~AllPackagesStaffed'
    <3>1. PackageOf(a) \in Packages /\ package'[PackageOf(a)] = "open"
      BY <2>1, SeatParts DEF Writes, TypeOK
    <3> QED
      BY <3>1 DEF AllPackagesStaffed, StaffedPackageStatuses
  <2> QED
    BY <2>1, <2>3, <2>4
<1>6. ASSUME NEW q \in Packages, NEW s \in PackageStatuses, UpdatePackage(q, s)
      PROVE  /\ UNCHANGED <<completed, announced>>
             /\ project' = "matching" => (completed' <=> AllPackagesStaffed')
  <2>1. UNCHANGED <<project, completed, announced>>
    BY <1>6 DEF UpdatePackage, fame
  <2>2. s \in {"in_progress", "completed"} /\ package' = [package EXCEPT ![q] = s]
    BY <1>6 DEF UpdatePackage
  <2>3. package[q] \in {"staffed", "in_progress"}
    BY <1>6, <2>2 DEF UpdatePackage, WorkPackageTransitions, TypeOK, PackageStatuses
  <2>4. AllPackagesStaffed' <=> AllPackagesStaffed
    BY <2>2, <2>3 DEF AllPackagesStaffed, StaffedPackageStatuses, TypeOK
  <2> QED
    BY <1>1, <2>1, <2>4 DEF Noted
<1> QED
  BY <1>1, <1>2, <1>3, <1>4, <1>5, <1>6, Steps

LEMMA NotedStep ==
  ASSUME TypeOK, OneHolder, Distinct, Matches, Noted, Known, [Next]_vars PROVE Noted'
BY Stamps DEF Noted

(* The workflow's glance and the requests' reads came after the stamp.     *)
LEMMA KnownStep ==
  ASSUME TypeOK, OneHolder, Distinct, Matches, Noted, Known, [Next]_vars PROVE Known'
<1> SUFFICES ASSUME byHand' = {}
             PROVE  /\ project' = "matching" /\ workflow'.at = "decide" /\ workflow'.saw => completed'
                    /\ \A d \in Callers :
                         /\ request'[d].at = "write" => completed'
                         /\ project' = "matching"
                              /\ request'[d].at \in {"contracts", "signatures", "status"}
                            => completed'
  BY DEF Known
<1>1. byHand = {} /\ (completed => completed') /\ (project' = "matching" => project = "matching")
  BY Stamps, Keeps
<1>2. ASSUME project' = "matching", workflow'.at = "decide", workflow'.saw PROVE completed'
  <2>1. CASE workflow' = workflow
    BY <1>1, <1>2, <2>1 DEF Known
  <2>2. CASE Poll
    <3>1. AllPackagesStaffed
      BY <1>2, <2>2 DEF Poll, TypeOK
    <3> QED
      BY <1>1, <1>2, <3>1 DEF Noted
  <2>3. workflow' = workflow \/ Poll \/ workflow'.at # "decide" \/ Deadline
    <3>1. CASE \E c \in Callers : \/ StartTimer(c) \/ StartReads(c) \/ StartContracts(c)
                                  \/ StartSignatures(c) \/ StartStatus(c) \/ StartWrites(c)
      BY <3>1 DEF StartTimer, StartReads, StartContracts, StartSignatures, StartStatus,
                  StartWrites, StartRun, NewRun
    <3>2. CASE \E c \in Callers, offers \in SUBSET Seats : ConfirmReads(c, offers)
      BY <3>2 DEF ConfirmReads
    <3>3. CASE \/ \E a \in Seats : CreateContract(a) \/ Sign(a)
               \/ Close \/ UNCHANGED vars
      BY <3>3 DEF CreateContract, Sign, Close, vars
    <3>4. CASE Sweep \/ FinalizeTeam \/ Escalate \/ Wait
      BY <3>4 DEF Sweep, FinalizeTeam, Escalate, Wait, CloseRun, StartRun, NewRun, TypeOK
    <3>5. CASE \/ \E c \in Callers : ConfirmCommits(c)
               \/ \E a \in Seats : Accept(a) \/ Decline(a) \/ Terminate(a) \/ AcceptApplication(a)
               \/ \E p \in Packages, s \in PackageStatuses : UpdatePackage(p, s)
      BY <3>5, ConfirmTeamType, Answers DEF UpdatePackage
    <3> QED
      BY <3>1, <3>2, <3>3, <3>4, <3>5, Steps DEF Beside
  <2>4. CASE Deadline
    <3>1. workflow'.at = workflow.at /\ workflow'.saw = workflow.saw
      BY <2>4 DEF Deadline, TypeOK
    <3> QED
      BY <1>1, <1>2, <3>1 DEF Known
  <2> QED
    BY <1>2, <2>1, <2>2, <2>3, <2>4
<1>3. ASSUME NEW d \in Callers, request'[d].at = "write" PROVE completed'
  <2>1. \/ request[d].at = "write"
        \/ request[d].at = "status" /\ project = "matching"
    BY <1>3, Requests
  <2> QED
    BY <1>1, <2>1 DEF Known
<1>4. ASSUME NEW d \in Callers, project' = "matching",
             request'[d].at \in {"contracts", "signatures", "status"}
      PROVE  completed'
  <2>1. request[d].at \in {"contracts", "signatures", "status"} \/ AllPackagesStaffed
    BY <1>4, Requests
  <2> QED
    BY <1>1, <1>4, <2>1 DEF Known, Noted
<1> QED
  BY <1>2, <1>3, <1>4

LEMMA OnceStep ==
  ASSUME TypeOK, OneHolder, Distinct, Matches, Noted, Known, Once, [Next]_vars PROVE Once'
<1> SUFFICES ASSUME byHand' = {}
             PROVE  /\ announced' <= 1 /\ (announced' = 1 <=> completed')
                    /\ project' = "in_progress" => completed'
  BY DEF Once
<1>1. byHand = {} /\ announced \in 0..2 /\ completed \in BOOLEAN
  BY Stamps DEF TypeOK
<1>2. announced' <= 1 /\ (announced' = 1 <=> completed')
  <2>1. CASE UNCHANGED <<completed, announced>>
    BY <1>1, <2>1 DEF Once
  <2>2. CASE ~completed /\ completed' /\ Announce
    <3>1. announced = 0
      BY <1>1, <2>2 DEF Once
    <3>2. announced' = 1
      BY <2>2, <3>1 DEF Announce
    <3> QED
      BY <2>2, <3>2
  <2> QED
    BY <2>1, <2>2, Stamps
<1>3. ASSUME project' = "in_progress" PROVE completed'
  <2>1. project = "in_progress" \/ \E c \in Callers : request[c].at = "write"
    <3>1. CASE Beside
      BY <1>3, <3>1 DEF Beside, StartTimer, StartReads, StartContracts, StartSignatures,
         StartStatus, StartWrites, ConfirmReads, CreateContract, Sign, Close, Sweep, Deadline,
         Poll, FinalizeTeam, Escalate, Wait, vars
    <3> QED
      BY <1>3, <3>1, Steps, ConfirmTeamType, Answers DEF UpdatePackage
  <2> QED
    BY <1>1, <2>1, Stamps DEF Once, Known
<1> QED
  BY <1>2, <1>3

-----------------------------------------------------------------------------
(* THEOREMS                                                                *)

LEMMA IInvInit == Init => IInv
<1> SUFFICES ASSUME Init PROVE IInv
  OBVIOUS
<1>1. TypeOK
  BY TypeInit
<1>2. \A c \in Callers : request[c].at = "idle"
  BY DEF Init, Idle
<1>3. (\A a \in Seats : seat[a] = "absent") /\ \A p \in Packages : package[p] = "open"
  BY DEF Init
<1>4. OneHolder /\ Matches
  BY <1>3 DEF OneHolder, Matches, Live, Has, StaffedPackageStatuses
<1>5. Distinct /\ Backed /\ SignedOff
  BY <1>2 DEF Distinct, Backed, SignedOff
<1>6. ~AllPackagesStaffed
  BY <1>3, ConstantsAssumption DEF AllPackagesStaffed, StaffedPackageStatuses
<1>7. Noted /\ Once
  BY <1>6 DEF Init, Noted, Once
<1>8. Known
  BY <1>2 DEF Init, Known, NewRun
<1> QED
  BY <1>1, <1>4, <1>5, <1>7, <1>8 DEF IInv

LEMMA IInvStep == IInv /\ [Next]_vars => IInv'
<1> SUFFICES ASSUME IInv, [Next]_vars PROVE IInv'
  OBVIOUS
<1>1. /\ TypeOK /\ OneHolder /\ Matches /\ Distinct /\ Backed /\ SignedOff
      /\ Noted /\ Once /\ Known
  BY DEF IInv
<1>2. OneHolder'
  BY <1>1, OneHolderStep
<1> QED
  BY <1>1, <1>2, TypeStep, DistinctStep, MatchesStep, BackedStep, SignedOffStep,
     NotedStep, OnceStep, KnownStep DEF IInv

(* The strengthening of the properties below is inductive.                 *)
THEOREM Inductive == Spec => []IInv
BY IInvInit, IInvStep, PTL DEF Spec

(* Every variable keeps its type, for any team, any number of owner's      *)
(* requests in flight and any statuses written to the packages directly.   *)
THEOREM TypeCorrect == Spec => []TypeOK
<1>1. IInv => TypeOK
  BY DEF IInv
<1> QED
  BY <1>1, Inductive, PTL

(* POST /matching/confirm, accept, decline, terminate and accepting an     *)
(* application leave every package telling of its seat.                    *)
THEOREM SeatsMatch == Spec => []PackagesMatchSeats
<1>1. IInv => PackagesMatchSeats
  <2> SUFFICES ASSUME IInv, NEW p \in Packages, p \notin byHand
               PROVE  /\ \A a, b \in LiveSeats : PackageOf(a) = p /\ PackageOf(b) = p => a = b
                      /\ package[p] = "offered" <=> SeatsOf(p, "offered") # {}
                      /\ package[p] \in StaffedPackageStatuses <=> SeatsOf(p, "active") # {}
    BY DEF PackagesMatchSeats
  <2>1. \A s : SeatsOf(p, s) # {} <=> Has(p, s)
    BY DEF SeatsOf, Has
  <2> QED
    BY <2>1 DEF IInv, OneHolder, Matches, LiveSeats, Live
<1> QED
  BY <1>1, Inductive, PTL

(* finalizeStaffing and the workflow's finalizeTeam announce a complete    *)
(* team once between them, and before work starts.                         *)
THEOREM OneAnnouncement == Spec => []AnnouncedOnce
<1>1. IInv => AnnouncedOnce
  BY DEF IInv, AnnouncedOnce, Once, Noted
<1> QED
  BY <1>1, Inductive, PTL

(* POST /projects/:id/transition to in_progress, whose checks are reads of *)
(* different moments, starts work only on a signed agreement per package.  *)
THEOREM StartChecked == Spec => StartsStaffedAndSigned
<1>1. ASSUME IInv, [Next]_vars, project = "matching", project' = "in_progress",
             NEW p \in Packages \ byHand
      PROVE  \E a \in SeatsOf(p, "active") : FullySigned(a)
  <2>1. PICK c \in Callers : request[c].at = "write"
    <3>1. CASE Beside
      BY <1>1, <3>1 DEF Beside, StartTimer, StartReads, StartContracts, StartSignatures,
         StartStatus, StartWrites, ConfirmReads, CreateContract, Sign, Close, Sweep, Deadline,
         Poll, FinalizeTeam, Escalate, Wait, vars
    <3> QED
      BY <1>1, <3>1, Steps, ConfirmTeamType, Answers DEF UpdatePackage
  <2>2. PICK a \in Seats : PackageOf(a) = p /\ seat[a] = "active"
    BY <1>1, <2>1 DEF IInv, Backed, Has
  <2>3. agreement[a] = "signed"
    BY <1>1, <2>1, <2>2 DEF IInv, SignedOff
  <2> QED
    BY <2>2, <2>3 DEF SeatsOf, FullySigned
<1>2. IInv /\ [Next]_vars =>
        [project = "matching" /\ project' = "in_progress" =>
           \A p \in Packages \ byHand : \E a \in SeatsOf(p, "active") : FullySigned(a)]_vars
  BY <1>1
<1> QED
  BY <1>2, Inductive, PTL DEF Spec, StartsStaffedAndSigned

=============================================================================
