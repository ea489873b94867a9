--------------------- MODULE NotificationConsumerProofs ---------------------
(***************************************************************************)
(* What the consumer's properties rest on, for every number of messages,   *)
(* events, instances and tries.                                            *)
(***************************************************************************)
EXTENDS NotificationConsumer, TLAPS

(* A message that waits for its ack has a deadline ahead of it.            *)
PendingHasDeadline == \A m \in Messages : msg[m] = "pending" => ackLeft[m] > 0
(* A message that is offered has a delivery left.                          *)
ReadyHasTries == \A m \in Messages : msg[m] \in {"absent", "ready"} => count[m] < MaxDeliver
TypeInv == TypeOK /\ PendingHasDeadline /\ ReadyHasTries

LEMMA DeliveryParts ==
  ASSUME NEW x \in Deliveries
  PROVE  x[1] \in Messages /\ x[2] \in 1..MaxDeliver /\ EventIn(x) \in Events
  BY ConstantsAssumption DEF Deliveries, EventIn

LEMMA InitialType == Init => TypeInv
  BY ConstantsAssumption
  DEF Init, TypeInv, TypeOK, PendingHasDeadline, ReadyHasTries, Steps, Ended, AckWait, Week

(* A step of one delivery leaves the others alone and keeps types.         *)
LEMMA GoToType ==
  ASSUME TypeInv, NEW x \in Deliveries, NEW s \in Steps \ {"none", "dead"},
         on[x] # Nobody, GoTo(x, s)
  PROVE  /\ step' \in [Deliveries -> Steps]
         /\ on' \in [Deliveries -> Instances \cup {Nobody}]
         /\ \A y \in Deliveries : on'[y] = Nobody <=> step'[y] \in {"none"} \cup Ended
  BY DEF TypeInv, TypeOK, GoTo, Steps, Ended

LEMMA AckType ==
  ASSUME TypeInv, NEW m \in Messages, Ack(m) \/ Nak(m) \/ NakWithDelay(m, LeaseTTL)
  PROVE  /\ msg' \in [Messages -> {"absent", "ready", "pending", "acked", "dropped"}]
         /\ count' = count
         /\ ackLeft' \in [Messages -> 0..AckWait]
         /\ PendingHasDeadline' /\ ReadyHasTries'
  BY DEF TypeInv, TypeOK, PendingHasDeadline, ReadyHasTries, Ack, Nak, NakWithDelay, Again,
         LeaseTTL, AckWait

LEMMA SetKeyType ==
  ASSUME TypeInv, NEW e \in Events, NEW value \in {"free", "held", "done"},
         NEW left \in 0..Week, SetKey(e, value, left)
  PROVE  /\ lease' \in [Events -> {"free", "held", "done"}]
         /\ ttl' \in [Events -> 0..Week]
  BY DEF TypeInv, TypeOK, SetKey

LEMMA HandlingType ==
  ASSUME TypeInv, NEW x \in Deliveries, Handling(x)
  PROVE  TypeInv'
<1> USE DeliveryParts
<1>s. \A s \in {"working", "failed", "undelivered", "sent", "acked", "over", "unparked"} :
        s \in Steps \ {"none", "dead"}
  BY DEF Steps
<1>l. LeaseTTL \in 0..Week /\ Week \in 0..Week /\ 0 \in 0..Week
  BY DEF LeaseTTL, Week
<1>n. on[x] # Nobody
  BY DEF Handling, Claim, ClaimFailsOpen, SkipDuplicate, DeferToClaimHolder,
         HandlerReturns, Release, GiveBack, ParkDeadLetter, Acknowledge, Complete,
         Starts, TypeInv, TypeOK, Ended
<1>1. CASE Claim(x)
  BY <1>1, <1>s, <1>l, <1>n, GoToType, SetKeyType
  DEF Claim, TypeInv, TypeOK, PendingHasDeadline, ReadyHasTries, jetstream, results
<1>2. CASE ClaimFailsOpen(x)
  BY <1>2, <1>s, <1>n, GoToType
  DEF ClaimFailsOpen, TypeInv, TypeOK, PendingHasDeadline, ReadyHasTries, jetstream, redis, results
<1>3. CASE SkipDuplicate(x)
  BY <1>3, <1>s, <1>n, GoToType, AckType
  DEF SkipDuplicate, TypeInv, TypeOK, redis, results
<1>4. CASE DeferToClaimHolder(x)
  <2>1. CASE IsFinalDelivery(x)
    BY <1>4, <2>1, <1>s, <1>n, GoToType
    DEF DeferToClaimHolder, TypeInv, TypeOK, PendingHasDeadline, ReadyHasTries, jetstream, redis, results
  <2>2. CASE ~IsFinalDelivery(x)
    BY <1>4, <2>2, <1>s, <1>n, GoToType, AckType
    DEF DeferToClaimHolder, TypeInv, TypeOK, redis, results
  <2> QED BY <2>1, <2>2
<1>5. CASE HandlerReturns(x)
  BY <1>5, <1>s, <1>n, GoToType
  DEF HandlerReturns, TypeInv, TypeOK, PendingHasDeadline, ReadyHasTries, jetstream, redis
<1>6. CASE Release(x)
  BY <1>6, <1>s, <1>l, <1>n, GoToType, SetKeyType
  DEF Release, TypeInv, TypeOK, PendingHasDeadline, ReadyHasTries, jetstream, redis, results
<1>7. CASE GiveBack(x)
  BY <1>7, <1>s, <1>n, GoToType, AckType
  DEF GiveBack, TypeInv, TypeOK, redis, results
<1>8. CASE ParkDeadLetter(x)
  BY <1>8, <1>s, <1>n, GoToType, AckType
  DEF ParkDeadLetter, TypeInv, TypeOK, redis
<1>9. CASE Acknowledge(x)
  BY <1>9, <1>s, <1>n, GoToType, AckType
  DEF Acknowledge, TypeInv, TypeOK, redis, results
<1>10. CASE Complete(x)
  BY <1>10, <1>s, <1>l, <1>n, GoToType, SetKeyType
  DEF Complete, TypeInv, TypeOK, PendingHasDeadline, ReadyHasTries, jetstream, redis, results
<1> QED
  BY <1>1, <1>2, <1>3, <1>4, <1>5, <1>6, <1>7, <1>8, <1>9, <1>10 DEF Handling

LEMMA TickType ==
  ASSUME TypeInv, NEW P \in SUBSET Deliveries, NEW R \in SUBSET Deliveries, Elapse(P, R)
  PROVE  TypeInv'
<1>1. \A e \in Events : TtlAfter(R, e) \in 0..Week
  BY DEF TtlAfter, LeaseTTL, Week, TypeInv, TypeOK
<1>2. \A e \in Events : ttl'[e] = TtlAfter(R, e)
  BY DEF Elapse
<1>3. /\ lease' \in [Events -> {"free", "held", "done"}]
      /\ ttl' \in [Events -> 0..Week]
  BY <1>1 DEF Elapse, TypeInv, TypeOK
<1>4. ackLeft' \in [Messages -> 0..AckWait]
  BY DEF Elapse, TypeInv, TypeOK, PendingHasDeadline, ReadyHasTries, AckWait
<1>5. /\ msg' \in [Messages -> {"absent", "ready", "pending", "acked", "dropped"}]
      /\ PendingHasDeadline' /\ ReadyHasTries'
  BY <1>4 DEF Elapse, TypeInv, TypeOK, PendingHasDeadline, ReadyHasTries, AckWait, Again
<1> QED
  BY <1>3, <1>4, <1>5 DEF Elapse, TypeInv, TypeOK, results

LEMMA StepType == TypeInv /\ [Next]_vars => TypeInv'
<1> SUFFICES ASSUME TypeInv, [Next]_vars PROVE TypeInv'
  OBVIOUS
<1>1. ASSUME NEW m \in Messages, Publish(m) PROVE TypeInv'
  BY <1>1 DEF Publish, TypeInv, TypeOK, PendingHasDeadline, ReadyHasTries, redis, results
<1>2. ASSUME NEW m \in Messages, NEW i \in Instances, Deliver(m, i) PROVE TypeInv'
  <2>1. count[m] + 1 \in 1..MaxDeliver /\ count[m] \in 0..MaxDeliver
    BY <1>2, ConstantsAssumption DEF Deliver, TypeInv, TypeOK, ReadyHasTries
  <2>2. <<m, count[m] + 1>> \in Deliveries
    BY <2>1 DEF Deliveries
  <2>3. i # Nobody
    BY ConstantsAssumption
  <2>4. /\ step' \in [Deliveries -> Steps]
        /\ on' \in [Deliveries -> Instances \cup {Nobody}]
        /\ \A y \in Deliveries : on'[y] = Nobody <=> step'[y] \in {"none"} \cup Ended
    BY <1>2, <2>2, <2>3 DEF Deliver, TypeInv, TypeOK, Steps, Ended
  <2>5. /\ count' \in [Messages -> 0..MaxDeliver]
        /\ ackLeft' \in [Messages -> 0..AckWait]
        /\ msg' \in [Messages -> {"absent", "ready", "pending", "acked", "dropped"}]
        /\ PendingHasDeadline' /\ ReadyHasTries'
    BY <1>2, <2>1 DEF Deliver, TypeInv, TypeOK, PendingHasDeadline, ReadyHasTries, AckWait
  <2> QED
    BY <1>2, <2>4, <2>5 DEF Deliver, TypeInv, TypeOK, redis, results
<1>3. ASSUME NEW i \in Instances, Crash(i) PROVE TypeInv'
  BY <1>3, ConstantsAssumption
  DEF Crash, TypeInv, TypeOK, PendingHasDeadline, ReadyHasTries, Steps, Ended, jetstream, redis, results
<1>4. CASE Tick
  <2>1. PICK P \in SUBSET Working, R \in SUBSET (Working \cap claimed) : Elapse(P, R)
    BY <1>4 DEF Tick
  <2> QED
    BY <2>1, TickType DEF Working
<1>5. CASE UNCHANGED vars
  BY <1>5 DEF vars, TypeInv, TypeOK, PendingHasDeadline, ReadyHasTries
<1> QED
  BY <1>1, <1>2, <1>3, <1>4, <1>5, HandlingType DEF Next

(* Deliveries and deadlines stay within what the consumer is configured    *)
(* for, and exactly the deliveries under way are on some instance          *)
(* (handleMessage, subscribeStream).                                       *)
THEOREM TypeCorrect == Spec => []TypeOK
<1>1. TypeInv => TypeOK
  BY DEF TypeInv
<1> QED
  BY <1>1, InitialType, StepType, PTL DEF Spec

LEMMA TypeAlways == Spec => []TypeInv
  BY InitialType, StepType, PTL DEF Spec

-----------------------------------------------------------------------------
(* NOTHING IS ACKNOWLEDGED INTO SILENCE                                    *)

DoneWasSent ==
  \A e \in Events : lease[e] = "done" => \E x \in sent : EventIn(x) = e
SettlersSent ==
  \A x \in Deliveries : step[x] \in {"sent", "acked"} => x \in sent
LaterIsNone ==
  \A x \in Deliveries : x[2] > count[x[1]] => step[x] = "none"
UnparkedByFault ==
  (\E x \in Deliveries : step[x] = "unparked") => "dlq" \in Faults
SilenceInv == AckedIsSettled /\ DoneWasSent /\ SettlersSent /\ LaterIsNone /\ UnparkedByFault

LEMMA LastIsDelivery == ASSUME NEW m \in Messages PROVE <<m, MaxDeliver>> \in Deliveries
  BY ConstantsAssumption DEF Deliveries

LEMMA InitialSilence == Init => SilenceInv
  BY ConstantsAssumption
  DEF Init, SilenceInv, AckedIsSettled, ProcessedOrParked, DoneWasSent, SettlersSent,
              LaterIsNone, UnparkedByFault

LEMMA HandlingSilence ==
  ASSUME TypeInv, SilenceInv, NEW x \in Deliveries, Handling(x)
  PROVE  SilenceInv'
<1> USE DeliveryParts
    DEF TypeInv, TypeOK, GoTo, SilenceInv, AckedIsSettled, ProcessedOrParked,
        DoneWasSent, SettlersSent, LaterIsNone, UnparkedByFault, EventIn
<1>1. CASE Claim(x) \/ ClaimFailsOpen(x)
  <2>1. /\ step[x] = "buffered"
        /\ step' = [step EXCEPT ![x] = "working"]
        /\ \/ lease' = lease
           \/ lease' = [lease EXCEPT ![EventOf[x[1]]] = "held"]
        /\ UNCHANGED <<msg, count, sent, parked>>
    BY <1>1 DEF Claim, ClaimFailsOpen, Starts, SetKey, jetstream, redis, results
  <2>2. AckedIsSettled' /\ UnparkedByFault'
    BY <2>1, LastIsDelivery
  <2>3. DoneWasSent' /\ SettlersSent' /\ LaterIsNone'
    BY <2>1
  <2> QED
    BY <2>2, <2>3
<1>2. CASE SkipDuplicate(x)
  BY <1>2 DEF SkipDuplicate, Starts, Ack, redis, results
<1>3. CASE DeferToClaimHolder(x)
  <2>1. /\ step[x] = "buffered"
        /\ \/ step' = [step EXCEPT ![x] = "undelivered"]
           \/ step' = [step EXCEPT ![x] = "over"]
        /\ UNCHANGED <<msg, count, lease, sent, parked>>
    BY <1>3 DEF DeferToClaimHolder, Starts, NakWithDelay, jetstream, redis, results
  <2>2. AckedIsSettled' /\ UnparkedByFault'
    BY <2>1, LastIsDelivery
  <2>3. DoneWasSent' /\ SettlersSent' /\ LaterIsNone'
    BY <2>1
  <2> QED
    BY <2>2, <2>3
<1>4. CASE HandlerReturns(x)
  <2>1. /\ step[x] = "working"
        /\ \/ step' = [step EXCEPT ![x] = "sent"] /\ sent' = sent \cup {x}
           \/ step' = [step EXCEPT ![x] = "failed"] /\ sent' = sent
           \/ step' = [step EXCEPT ![x] = "undelivered"] /\ sent' = sent
        /\ UNCHANGED <<msg, count, lease, parked>>
    BY <1>4 DEF HandlerReturns, jetstream, redis
  <2>2. AckedIsSettled' /\ UnparkedByFault'
    BY <2>1, LastIsDelivery
  <2>3. DoneWasSent' /\ SettlersSent' /\ LaterIsNone'
    BY <2>1
  <2> QED
    BY <2>2, <2>3
<1>5. CASE Release(x)
  BY <1>5 DEF Release, SetKey, jetstream, redis, results
<1>6. CASE GiveBack(x)
  BY <1>6 DEF GiveBack, Nak, Again, redis, results
<1>7. CASE ParkDeadLetter(x)
  <2>1. x[2] = MaxDeliver /\ x = <<x[1], MaxDeliver>>
    <3>1. PICK m \in Messages, k \in 1..MaxDeliver : x = <<m, k>>
      BY DEF Deliveries
    <3>2. k >= MaxDeliver
      BY <1>7, <3>1 DEF ParkDeadLetter, IsFinalDelivery
    <3>3. k = MaxDeliver
      BY <3>2, ConstantsAssumption
    <3> QED
      BY <3>1, <3>3
  <2>2. /\ step[x] = "undelivered"
        /\ \/ step' = [step EXCEPT ![x] = "over"] /\ parked' = parked \cup {x[1]}
           \/ step' = [step EXCEPT ![x] = "unparked"] /\ parked' = parked /\ "dlq" \in Faults
        /\ \/ msg' = [msg EXCEPT ![x[1]] = "acked"]
           \/ msg' = msg
        /\ UNCHANGED <<count, lease, sent>>
    BY <1>7 DEF ParkDeadLetter, Ack, redis
  <2>3. AckedIsSettled'
    <3> SUFFICES ASSUME NEW m \in Messages, msg'[m] = "acked"
                 PROVE  ProcessedOrParked(m)' \/ step'[<<m, MaxDeliver>>] = "unparked"
      OBVIOUS
    <3>1. CASE m = x[1]
      BY <2>1, <2>2, <3>1
    <3>2. CASE m # x[1]
      <4>1. <<m, MaxDeliver>> # x /\ <<m, MaxDeliver>> \in Deliveries
        BY <2>1, <3>2, LastIsDelivery
      <4>2. msg[m] = "acked"
        BY <2>2, <3>2
      <4> QED
        BY <2>2, <4>1, <4>2
    <3> QED
      BY <3>1, <3>2
  <2>4. UnparkedByFault' /\ DoneWasSent' /\ SettlersSent' /\ LaterIsNone'
    BY <2>2
  <2> QED
    BY <2>3, <2>4
<1>8. CASE Acknowledge(x)
  BY <1>8 DEF Acknowledge, Ack, redis, results
<1>9. CASE Complete(x)
  BY <1>9 DEF Complete, SetKey, jetstream, redis, results
<1> QED
  BY <1>1, <1>2, <1>3, <1>4, <1>5, <1>6, <1>7, <1>8, <1>9 DEF Handling

LEMMA StepSilence ==
  ASSUME TypeInv, SilenceInv, [Next]_vars
  PROVE  SilenceInv'
<1> USE DEF SilenceInv, AckedIsSettled, ProcessedOrParked, DoneWasSent, SettlersSent,
              LaterIsNone, UnparkedByFault, TypeInv, TypeOK, EventIn
<1>1. ASSUME NEW m \in Messages, Publish(m) PROVE SilenceInv'
  BY <1>1 DEF Publish, redis, results
<1>2. ASSUME NEW m \in Messages, NEW i \in Instances, Deliver(m, i) PROVE SilenceInv'
  <2> DEFINE x == <<m, count[m] + 1>>
  <2>1. x \in Deliveries /\ x[1] = m /\ x[2] = count[m] + 1 /\ count[m] \in Nat
    BY <1>2, ConstantsAssumption DEF Deliver, Deliveries, ReadyHasTries
  <2>2. step[x] = "none"
    BY <2>1
  <2> HIDE DEF x
  <2>3. /\ step' = [step EXCEPT ![x] = "buffered"]
        /\ count' = [count EXCEPT ![m] = @ + 1]
        /\ msg' = [msg EXCEPT ![m] = "pending"]
        /\ UNCHANGED <<redis, claimed, results>>
    BY <1>2 DEF Deliver, x
  <2>4. ASSUME NEW y \in Deliveries, y[2] > count'[y[1]]
        PROVE  y[2] > count[y[1]] /\ y # x
    <3>1. y[1] \in Messages /\ y[2] \in Nat
      BY DEF Deliveries
    <3> QED
      BY <2>1, <2>3, <2>4, <3>1
  <2>5. LaterIsNone'
    BY <2>3, <2>4
  <2>6. AckedIsSettled'
    BY <2>2, <2>3, LastIsDelivery DEF results
  <2>7. UnparkedByFault' /\ DoneWasSent' /\ SettlersSent'
    BY <2>2, <2>3 DEF redis, results
  <2> QED
    BY <2>5, <2>6, <2>7
<1>3. ASSUME NEW i \in Instances, Crash(i) PROVE SilenceInv'
  <2>1. \A x \in Deliveries : step[x] \in {"none", "unparked"} => on[x] # i
    BY ConstantsAssumption DEF Ended
  <2>2. /\ \A x \in Deliveries : step'[x] = IF on[x] = i THEN "dead" ELSE step[x]
        /\ UNCHANGED <<jetstream, redis, claimed, results>>
    BY <1>3 DEF Crash
  <2>3. AckedIsSettled'
    BY <2>1, <2>2, LastIsDelivery DEF jetstream, results
  <2>4. LaterIsNone' /\ UnparkedByFault' /\ DoneWasSent' /\ SettlersSent'
    BY <2>1, <2>2 DEF jetstream, redis, results
  <2> QED
    BY <2>3, <2>4
<1>4. CASE Tick
  <2>1. PICK P \in SUBSET Working, R \in SUBSET (Working \cap claimed) : Elapse(P, R)
    BY <1>4 DEF Tick
  <2>2. \A m \in Messages : msg'[m] = "acked" => msg[m] = "acked"
    BY <2>1 DEF Elapse, Again
  <2>3. \A e \in Events : lease'[e] = "done" => lease[e] = "done"
    BY <2>1 DEF Elapse
  <2> QED
    BY <2>1, <2>2, <2>3 DEF Elapse, results
<1>5. CASE UNCHANGED vars
  BY <1>5 DEF vars
<1> QED
  BY <1>1, <1>2, <1>3, <1>4, <1>5, HandlingSilence DEF Next

LEMMA SilenceAlways == Spec => []SilenceInv
<1>1. Init /\ [][Next]_vars /\ []TypeInv => []SilenceInv
  BY InitialSilence, StepSilence, PTL
<1> QED
  BY <1>1, TypeAlways, PTL DEF Spec

(* Whatever fails and whoever dies, a message is acknowledged only after   *)
(* its event was processed to the end, with a dead letter parked, or by a  *)
(* last delivery that failed to park one (handleMessage,                   *)
(* deferToClaimHolder).                                                    *)
THEOREM AcknowledgedIsSettled == Spec => []AckedIsSettled
<1>1. SilenceInv => AckedIsSettled
  BY DEF SilenceInv
<1> QED
  BY <1>1, SilenceAlways, PTL

(* As long as dead letters can be recorded, nothing is acked into silence, *)
(* even if Redis, acks and heartbeats fail and processes die               *)
(* (deferToClaimHolder, parkDeadLetter).                                   *)
THEOREM SilencedOnlyByDeadLetters ==
  ASSUME "dlq" \notin Faults PROVE Spec => []NeverSilenced
<1>1. SilenceInv => NeverSilenced
  BY LastIsDelivery
  DEF SilenceInv, AckedIsSettled, NeverSilenced, UnparkedByFault
<1> QED
  BY <1>1, SilenceAlways, PTL

-----------------------------------------------------------------------------
(* THE CLAIM                                                               *)

(* From its claim to its record a delivery has the lease.                  *)
Active == {"working", "failed", "sent", "acked"}
ActiveHolds ==
  \A x \in Deliveries : step[x] \in Active =>
    x \in claimed /\ lease[EventIn(x)] = "held" /\ ttl[EventIn(x)] > 0
ActiveAlone ==
  \A x, y \in Deliveries :
    step[x] \in Active /\ step[y] \in Active /\ EventIn(x) = EventIn(y) => x = y
DoneForAWeek == \A e \in Events : lease[e] = "done" => ttl[e] = Week
SentRecorded ==
  \A x \in sent :
    \/ step[x] \in {"sent", "acked", "dead"}
    \/ step[x] = "over" /\ lease[EventIn(x)] = "done"
NotYetDelivered ==
  \A x \in Deliveries : x[2] > count[x[1]] => step[x] = "none" /\ x \notin sent
ClaimInv == ActiveHolds /\ ActiveAlone /\ DoneForAWeek /\ SentRecorded
            /\ NotYetDelivered /\ ProcessedOnce

LEMMA InitialClaim == Init => ClaimInv
<1> SUFFICES ASSUME Init PROVE ClaimInv
  OBVIOUS
<1>1. \A x \in Deliveries : step[x] = "none"
  BY DEF Init
<1>2. DoneForAWeek
  BY DEF Init, DoneForAWeek
<1> QED
  BY <1>1, <1>2 DEF Init, ClaimInv, ActiveHolds, ActiveAlone, SentRecorded,
                    NotYetDelivered, ProcessedOnce, Active

(* Between a record that an event is done and its week there is no step.   *)
KeepsDone == \A e \in Events : lease[e] = "done" => lease'[e] = "done" /\ ttl'[e] = ttl[e]

LEMMA HandlingClaim ==
  ASSUME "redis" \notin Faults, TypeInv, ClaimInv, NEW x \in Deliveries, Handling(x)
  PROVE  ClaimInv' /\ KeepsDone
<1> USE DeliveryParts
    DEF TypeInv, TypeOK, GoTo, ClaimInv, ActiveHolds, ActiveAlone, DoneForAWeek,
        SentRecorded, NotYetDelivered, ProcessedOnce, Active, KeepsDone
<1>1. CASE Claim(x)
  BY <1>1 DEF Claim, Starts, SetKey, jetstream, results, LeaseTTL
<1>2. ~ClaimFailsOpen(x)
  BY DEF ClaimFailsOpen
<1>3. CASE SkipDuplicate(x)
  BY <1>3 DEF SkipDuplicate, Starts, Ack, redis, results
<1>4. CASE DeferToClaimHolder(x)
  BY <1>4 DEF DeferToClaimHolder, Starts, NakWithDelay, jetstream, redis, results
<1>5. CASE HandlerReturns(x)
  BY <1>5 DEF HandlerReturns, jetstream, redis
<1>6. CASE Release(x)
  BY <1>6 DEF Release, SetKey, jetstream, results
<1>7. CASE GiveBack(x)
  BY <1>7 DEF GiveBack, Nak, redis, results
<1>8. CASE ParkDeadLetter(x)
  BY <1>8 DEF ParkDeadLetter, Ack, redis
<1>9. CASE Acknowledge(x)
  BY <1>9 DEF Acknowledge, Ack, redis, results
<1>10. CASE Complete(x)
  BY <1>10 DEF Complete, SetKey, jetstream, results, Week
<1> QED
  BY <1>1, <1>2, <1>3, <1>4, <1>5, <1>6, <1>7, <1>8, <1>9, <1>10 DEF Handling

LEMMA TickClaim ==
  ASSUME "redis" \notin Faults, TypeInv, ClaimInv, Tick
  PROVE  ClaimInv' /\ KeepsDone
<1> USE DeliveryParts
<1>1. PICK P \in SUBSET Working : Elapse(P, Working \cap claimed)
  BY DEF Tick
<1> DEFINE R == Working \cap claimed
<1>2. /\ \A e \in Events : ttl'[e] = TtlAfter(R, e)
      /\ \A e \in Events : lease'[e] = IF TtlAfter(R, e) = 0 THEN "free" ELSE lease[e]
      /\ UNCHANGED <<count, step, claimed, sent>>
  BY <1>1 DEF Elapse, results
<1>3. ASSUME NEW e \in Events, lease[e] = "done" PROVE TtlAfter(R, e) = Week
  <2>1. ~Refreshed(R, e)
    BY <1>3 DEF Refreshed, Working, ClaimInv, ActiveHolds, Active
  <2> QED
    BY <1>3, <2>1 DEF TtlAfter, ClaimInv, DoneForAWeek
<1>4. ASSUME NEW x \in Deliveries, step[x] \in Active PROVE TtlAfter(R, EventIn(x)) > 0
  <2>1. /\ x \in claimed /\ lease[EventIn(x)] = "held"
        /\ ttl[EventIn(x)] > 0 /\ ttl[EventIn(x)] \in 0..Week
    BY <1>4 DEF ClaimInv, ActiveHolds, TypeInv, TypeOK
  <2>2. CASE step[x] = "working"
    <3>1. Refreshed(R, EventIn(x))
      BY <2>1, <2>2 DEF Refreshed, Working
    <3> QED
      BY <3>1 DEF TtlAfter, LeaseTTL
  <2>3. CASE step[x] \in {"failed", "sent", "acked"}
    <3>1. ttl[EventIn(x)] > 1
      BY <2>1, <2>3 DEF Tick, Prompt
    <3> QED
      BY <2>1, <3>1 DEF TtlAfter, LeaseTTL, Week
  <2> QED
    BY <1>4, <2>2, <2>3 DEF Active
<1>5. KeepsDone /\ DoneForAWeek'
  <2>1. ASSUME NEW e \in Events, lease[e] = "done"
        PROVE  lease'[e] = "done" /\ ttl'[e] = Week /\ ttl[e] = Week
    <3>1. TtlAfter(R, e) = Week /\ ttl[e] = Week
      BY <1>3, <2>1 DEF ClaimInv, DoneForAWeek
    <3> HIDE DEF R
    <3> QED
      BY <1>2, <2>1, <3>1 DEF Week
  <2>2. \A e \in Events : lease'[e] = "done" => lease[e] = "done"
    BY <1>2
  <2> QED
    BY <2>1, <2>2 DEF KeepsDone, DoneForAWeek
<1>6. ActiveHolds'
  <2> SUFFICES ASSUME NEW x \in Deliveries, step[x] \in Active
               PROVE  x \in claimed /\ lease'[EventIn(x)] = "held" /\ ttl'[EventIn(x)] > 0
    BY <1>2 DEF ActiveHolds, EventIn
  <2>1. x \in claimed /\ lease[EventIn(x)] = "held"
    BY DEF ClaimInv, ActiveHolds
  <2>2. TtlAfter(R, EventIn(x)) > 0
    BY <1>4
  <2> QED
    BY <1>2, <2>1, <2>2
<1>7. SentRecorded'
  <2> SUFFICES ASSUME NEW x \in sent
               PROVE  \/ step[x] \in {"sent", "acked", "dead"}
                      \/ step[x] = "over" /\ lease'[EventIn(x)] = "done"
    BY <1>2 DEF SentRecorded, EventIn
  <2>1. EventIn(x) \in Events
    BY DEF TypeInv, TypeOK
  <2> QED
    BY <1>5, <2>1 DEF KeepsDone, ClaimInv, SentRecorded
<1>8. ActiveAlone' /\ NotYetDelivered' /\ ProcessedOnce'
  BY <1>2 DEF ClaimInv, ActiveAlone, NotYetDelivered, ProcessedOnce, EventIn
<1> QED
  BY <1>5, <1>6, <1>7, <1>8 DEF ClaimInv

LEMMA StepClaim ==
  ASSUME "redis" \notin Faults, TypeInv, ClaimInv, [Next]_vars
  PROVE  ClaimInv' /\ (KeepsDone \/ UNCHANGED vars)
<1> USE DEF TypeInv, TypeOK, ClaimInv, ActiveHolds, ActiveAlone, DoneForAWeek,
        SentRecorded, NotYetDelivered, ProcessedOnce, Active, KeepsDone, EventIn
<1>1. ASSUME NEW m \in Messages, Publish(m) PROVE ClaimInv' /\ KeepsDone
  BY <1>1 DEF Publish, redis, results
<1>2. ASSUME NEW m \in Messages, NEW i \in Instances, Deliver(m, i)
      PROVE  ClaimInv' /\ KeepsDone
  <2> DEFINE x == <<m, count[m] + 1>>
  <2>1. x \in Deliveries /\ x[1] = m /\ x[2] = count[m] + 1 /\ count[m] \in Nat
    BY <1>2, ConstantsAssumption DEF Deliver, Deliveries, ReadyHasTries
  <2>2. x \notin sent
    BY <2>1
  <2> HIDE DEF x
  <2>3. /\ step' = [step EXCEPT ![x] = "buffered"]
        /\ count' = [count EXCEPT ![m] = @ + 1]
        /\ UNCHANGED <<redis, claimed, results>>
    BY <1>2 DEF Deliver, x
  <2>4. ASSUME NEW y \in Deliveries, y[2] > count'[y[1]]
        PROVE  y[2] > count[y[1]] /\ y # x
    <3>1. y[1] \in Messages /\ y[2] \in Nat
      BY DEF Deliveries
    <3> QED
      BY <2>1, <2>3, <2>4, <3>1
  <2>5. NotYetDelivered'
    BY <2>3, <2>4 DEF results
  <2> QED
    BY <2>1, <2>2, <2>3, <2>5 DEF redis, results
<1>3. ASSUME NEW i \in Instances, Crash(i) PROVE ClaimInv' /\ KeepsDone
  <2>1. \A x \in Deliveries : step[x] = "none" => on[x] # i
    BY ConstantsAssumption
  <2> QED
    BY <1>3, <2>1 DEF Crash, jetstream, redis, results
<1>4. CASE UNCHANGED vars
  BY <1>4 DEF vars
<1> QED
  BY <1>1, <1>2, <1>3, <1>4, HandlingClaim, TickClaim DEF Next

LEMMA ClaimAlways ==
  ASSUME "redis" \notin Faults PROVE Spec => []ClaimInv
<1>1. Init /\ [][Next]_vars /\ []TypeInv => []ClaimInv
  BY InitialClaim, StepClaim, PTL
<1> QED
  BY <1>1, TypeAlways, PTL DEF Spec

(* While Redis answers, an event is never handed to its recipients by two  *)
(* deliveries at a time, and not by any once it is recorded as done        *)
(* (Claim, startHeartbeat).                                                *)
THEOREM Exclusive == ASSUME "redis" \notin Faults PROVE Spec => []OneAtATime
<1>1. ClaimInv => OneAtATime
  BY DEF ClaimInv, ActiveHolds, ActiveAlone, Active, OneAtATime
<1> QED
  BY <1>1, ClaimAlways, PTL

(* While Redis answers, lost acks, redeliveries and replays do not notify  *)
(* anybody twice; only a death before the record does (handleMessage).     *)
THEOREM NotifiedOnce == ASSUME "redis" \notin Faults PROVE Spec => []ProcessedOnce
<1>1. ClaimInv => ProcessedOnce
  BY DEF ClaimInv
<1> QED
  BY <1>1, ClaimAlways, PTL

(* While Redis answers, the record that an event is done stays for its     *)
(* week: no heartbeat, release or claim of another delivery touches it     *)
(* (startHeartbeat, Complete).                                             *)
THEOREM RecordStands == ASSUME "redis" \notin Faults PROVE Spec => DoneIsKept
<1>1. TypeInv /\ ClaimInv /\ [Next]_vars => [KeepsDone]_vars
  BY StepClaim
<1>2. [][Next]_vars /\ []TypeInv /\ []ClaimInv => [][KeepsDone]_vars
  BY <1>1, PTL
<1> QED
  BY <1>2, TypeAlways, ClaimAlways, PTL DEF Spec, DoneIsKept, KeepsDone
=============================================================================
