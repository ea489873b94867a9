------------------------ MODULE NotificationConsumer ------------------------
(***************************************************************************)
(* notification-service's consumer of one stream: JetStream delivers a     *)
(* message until it is acknowledged or has been tried MaxDeliver times; a    *)
(* delivery claims its event through a lease in Redis before it notifies   *)
(* anybody, a heartbeat keeps both deadlines open, and an event that       *)
(* cannot be processed is parked as a dead letter.  Processes crash, acks  *)
(* and heartbeats get lost, and one event may come in several messages.    *)
(* Time passes in ticks of ten seconds, a little more than one heartbeat.  *)
(***************************************************************************)
EXTENDS Integers, FiniteSets

CONSTANTS
  Events,     \* event ids
  Messages,   \* messages of the stream: first publications, republications
              \* by an outbox that crashed, replays of a dead letter
  EventOf,    \* [Messages -> Events], the id in a message's envelope
  Instances,  \* processes consuming the stream, each one message at a time
  MaxDeliver, \* how often JetStream tries a message
  Nobody,     \* the instance of a delivery that is over
  Faults      \* calls that may fail besides acks: heartbeats to JetStream,
              \* calls to Redis, the recording of dead letters

ASSUME ConstantsAssumption ==
  /\ EventOf \in [Messages -> Events]
  /\ MaxDeliver \in Nat \ {0}
  /\ Nobody \notin Instances
  /\ Faults \subseteq {"beat", "redis", "dlq"}

LeaseTTL == 2
AckWait == 3
\* A finished record's TTL; it outlives everything here and is not counted down.
Week == 3

Deliveries == Messages \X (1..MaxDeliver)
EventIn(x) == EventOf[x[1]]
\* What a delivery does next.
Steps == {"none", "buffered", "working", "failed", "undelivered", "sent", "acked",
          "over", "unparked", "dead"}
Ended == {"over", "unparked", "dead"}

VARIABLES
  msg,      \* [Messages -> state at JetStream]
  count,    \* [Messages -> 0..MaxDeliver], deliveries so far
  ackLeft,  \* [Messages -> 0..AckWait], ticks until JetStream redelivers
  lease,    \* [Events -> {"free", "held", "done"}], the key in Redis
  ttl,      \* [Events -> 0..Week], ticks until the key lapses
  step,     \* [Deliveries -> Steps]
  on,       \* [Deliveries -> Instances \cup {Nobody}], who handles it
  claimed,  \* deliveries that were granted the claim
  sent,     \* deliveries whose handler notified everybody
  parked    \* messages with a dead letter

vars == <<msg, count, ackLeft, lease, ttl, step, on, claimed, sent, parked>>
jetstream == <<msg, count, ackLeft>>
redis == <<lease, ttl>>
results == <<sent, parked>>

Init ==
  /\ msg = [m \in Messages |-> "absent"]
  /\ count = [m \in Messages |-> 0]
  /\ ackLeft = [m \in Messages |-> 0]
  /\ lease = [e \in Events |-> "free"]
  /\ ttl = [e \in Events |-> 0]
  /\ step = [x \in Deliveries |-> "none"]
  /\ on = [x \in Deliveries |-> Nobody]
  /\ claimed = {}
  /\ sent = {}
  /\ parked = {}

-----------------------------------------------------------------------------
(* JETSTREAM                                                               *)

Publish(m) ==
  /\ msg[m] = "absent"
  /\ msg' = [msg EXCEPT ![m] = "ready"]
  /\ UNCHANGED <<count, ackLeft, redis, step, on, claimed, results>>

(* A delivery lands in the buffer of an instance; its ack deadline runs.   *)
Deliver(m, i) ==
  /\ msg[m] = "ready"
  /\ LET x == <<m, count[m] + 1>>
     IN  /\ step' = [step EXCEPT ![x] = "buffered"]
         /\ on' = [on EXCEPT ![x] = i]
  /\ msg' = [msg EXCEPT ![m] = "pending"]
  /\ count' = [count EXCEPT ![m] = @ + 1]
  /\ ackLeft' = [ackLeft EXCEPT ![m] = AckWait]
  /\ UNCHANGED <<redis, claimed, results>>

(* An ack ends the message whichever delivery sends it, or is lost.        *)
Ack(m) ==
  /\ \/ msg' = [msg EXCEPT ![m] = "acked"]
     \/ UNCHANGED msg
  /\ UNCHANGED <<count, ackLeft>>

(* What a message without an ack becomes when its wait ends.               *)
Again(m) == IF count[m] < MaxDeliver THEN "ready" ELSE "dropped"

(* A nak asks for the message back at once; a lost or stale one does not.  *)
Nak(m) ==
  /\ \/ msg[m] = "pending" /\ msg' = [msg EXCEPT ![m] = Again(m)]
     \/ UNCHANGED msg
  /\ UNCHANGED <<count, ackLeft>>

NakWithDelay(m, delay) ==
  /\ \/ msg[m] = "pending" /\ ackLeft' = [ackLeft EXCEPT ![m] = delay]
     \/ UNCHANGED ackLeft
  /\ UNCHANGED <<msg, count>>

-----------------------------------------------------------------------------
(* A DELIVERY                                                              *)

GoTo(x, s) ==
  /\ step' = [step EXCEPT ![x] = s]
  /\ on' = IF s \in Ended THEN [on EXCEPT ![x] = Nobody] ELSE on

Busy(i) == \E x \in Deliveries : on[x] = i /\ step[x] # "buffered"
Starts(x) == step[x] = "buffered" /\ ~Busy(on[x])

\* MUTANT: the last delivery is taken for one that has a successor.
IsBeyondFinal(x) == x[2] > MaxDeliver

IsFinalDelivery(x) == x[2] >= MaxDeliver

SetKey(e, value, left) ==
  /\ lease' = [lease EXCEPT ![e] = value]
  /\ ttl' = [ttl EXCEPT ![e] = left]

(* SET NX: only a free key is taken.                                       *)
Claim(x) ==
  /\ Starts(x)
  /\ lease[EventIn(x)] = "free"
  /\ SetKey(EventIn(x), "held", LeaseTTL)
  /\ claimed' = claimed \cup {x}
  /\ GoTo(x, "working")
  /\ UNCHANGED <<jetstream, results>>

(* Redis does not answer: the event is processed without a claim.          *)
ClaimFailsOpen(x) ==
  /\ Starts(x)
  /\ "redis" \in Faults
  /\ GoTo(x, "working")
  /\ UNCHANGED <<jetstream, redis, claimed, results>>

SkipDuplicate(x) ==
  /\ Starts(x)
  /\ lease[EventIn(x)] = "done"
  /\ Ack(x[1])
  /\ GoTo(x, "over")
  /\ UNCHANGED <<redis, claimed, results>>

\* MUTANT: a held claim is read as a finished one and the message acked away.
DeferByAcking(x) ==
  /\ Starts(x)
  /\ lease[EventIn(x)] = "held"
  /\ Ack(x[1])
  /\ GoTo(x, "over")
  /\ UNCHANGED <<redis, claimed, results>>

(* Somebody holds the claim: give the message back for a full lease, or    *)
(* park it when there is no next delivery.                                 *)
DeferToClaimHolder(x) ==
  /\ Starts(x)
  /\ lease[EventIn(x)] = "held"
  /\ IF IsFinalDelivery(x)
     THEN GoTo(x, "undelivered") /\ UNCHANGED jetstream
     ELSE GoTo(x, "over") /\ NakWithDelay(x[1], LeaseTTL)
  /\ UNCHANGED <<redis, claimed, results>>

(* The handler notified everybody, or failed or panicked part way.         *)
HandlerReturns(x) ==
  /\ step[x] = "working"
  /\ \/ GoTo(x, "sent") /\ sent' = sent \cup {x}
     \/ GoTo(x, IF x \in claimed THEN "failed" ELSE "undelivered") /\ UNCHANGED sent
  /\ UNCHANGED <<jetstream, redis, claimed, parked>>

(* DEL: the claim is handed back so that the redelivery can run.           *)
Release(x) ==
  /\ step[x] = "failed"
  /\ \/ SetKey(EventIn(x), "free", 0)
     \/ "redis" \in Faults /\ UNCHANGED redis
  /\ GoTo(x, "undelivered")
  /\ UNCHANGED <<jetstream, claimed, results>>

GiveBack(x) ==
  /\ step[x] = "undelivered"
  /\ ~IsFinalDelivery(x)
  /\ Nak(x[1])
  /\ GoTo(x, "over")
  /\ UNCHANGED <<redis, claimed, results>>

(* The last delivery is parked, and acked whether that worked or not.      *)
ParkDeadLetter(x) ==
  /\ step[x] = "undelivered"
  /\ IsFinalDelivery(x)
  /\ \/ parked' = parked \cup {x[1]} /\ GoTo(x, "over")
     \/ "dlq" \in Faults /\ UNCHANGED parked /\ GoTo(x, "unparked")
  /\ Ack(x[1])
  /\ UNCHANGED <<redis, claimed, sent>>

\* MUTANT: after an ack that failed the event is not recorded.
AcknowledgeOrGiveUp(x) ==
  /\ step[x] = "sent"
  /\ Ack(x[1])
  /\ GoTo(x, IF x \in claimed /\ msg'[x[1]] = "acked" THEN "acked" ELSE "over")
  /\ UNCHANGED <<redis, claimed, results>>

(* Ack first, record second; a failed ack is recorded all the same.        *)
Acknowledge(x) ==
  /\ step[x] = "sent"
  /\ Ack(x[1])
  /\ GoTo(x, IF x \in claimed THEN "acked" ELSE "over")
  /\ UNCHANGED <<redis, claimed, results>>

Complete(x) ==
  /\ step[x] = "acked"
  /\ \/ SetKey(EventIn(x), "done", Week)
     \/ "redis" \in Faults /\ UNCHANGED redis
  /\ GoTo(x, "over")
  /\ UNCHANGED <<jetstream, claimed, results>>

(* A process dies with what it was doing and what it had buffered.         *)
Crash(i) ==
  /\ \E x \in Deliveries : on[x] = i
  /\ step' = [x \in Deliveries |-> IF on[x] = i THEN "dead" ELSE step[x]]
  /\ on' = [x \in Deliveries |-> IF on[x] = i THEN Nobody ELSE on[x]]
  /\ UNCHANGED <<jetstream, redis, claimed, results>>

-----------------------------------------------------------------------------
(* TIME                                                                    *)

\* MUTANT: the beat of a handler is not stopped when the handler returns.
StillBeating == {x \in Deliveries : step[x] \in {"working", "over"}}

Working == {x \in Deliveries : step[x] = "working"}

\* MUTANT: the heartbeat keeps the ack deadline open but not the lease.
NoRefresh(R, e) == FALSE

(* EXPIRE: a beat of any of the deliveries R extends the key if it exists. *)
Refreshed(R, e) == lease[e] # "free" /\ \E x \in R : EventIn(x) = e

TtlAfter(R, e) ==
  IF Refreshed(R, e) THEN LeaseTTL
  ELSE IF lease[e] = "done" /\ ttl[e] = Week THEN Week
  ELSE IF ttl[e] > 0 THEN ttl[e] - 1 ELSE 0

(* Ten seconds pass.  The deliveries P beat in time for JetStream and R    *)
(* for Redis; every other deadline comes closer or is reached.             *)
Elapse(P, R) ==
  LET Open(m) == \E x \in P : x[1] = m
      left == [m \in Messages |-> IF msg[m] # "pending" THEN 0
                                  ELSE IF Open(m) THEN AckWait ELSE ackLeft[m] - 1]
  IN  /\ ackLeft' = left
      /\ msg' = [m \in Messages |->
           IF msg[m] = "pending" /\ left[m] = 0 THEN Again(m) ELSE msg[m]]
      /\ ttl' = [e \in Events |-> TtlAfter(R, e)]
      /\ lease' = [e \in Events |-> IF TtlAfter(R, e) = 0 THEN "free" ELSE lease[e]]
      /\ UNCHANGED <<count, step, on, claimed, results>>

(* What is taken to be quick: an idle instance starts on what it has       *)
(* buffered, and the few calls after a handler do not outlast the lease    *)
(* and the ack deadline it kept open.                                      *)
Prompt ==
  /\ \A x \in Deliveries : ~Starts(x)
  /\ \A x \in Deliveries : step[x] \in {"failed", "undelivered"} => ackLeft[x[1]] # 1
  /\ \A x \in claimed : step[x] \in {"failed", "sent", "acked"} => ttl[EventIn(x)] > 1

Tick ==
  /\ Prompt
  /\ \E P \in SUBSET Working, R \in SUBSET (Working \cap claimed) :
       /\ "beat" \in Faults \/ P = Working
       /\ "redis" \in Faults \/ R = Working \cap claimed
       /\ Elapse(P, R)

Handling(x) ==
  \/ Claim(x) \/ ClaimFailsOpen(x) \/ SkipDuplicate(x) \/ DeferToClaimHolder(x)
  \/ HandlerReturns(x) \/ Release(x) \/ GiveBack(x) \/ ParkDeadLetter(x)
  \/ Acknowledge(x) \/ Complete(x)

Next ==
  \/ \E m \in Messages : Publish(m) \/ \E i \in Instances : Deliver(m, i)
  \/ \E x \in Deliveries : Handling(x)
  \/ \E i \in Instances : Crash(i)
  \/ Tick

Spec == Init /\ [][Next]_vars

(* Instances keep pulling, every delivery that can take its next step      *)
(* takes it (handlers call out with timeouts), and time passes.            *)
Fairness ==
  /\ \A m \in Messages : WF_vars(\E i \in Instances : Deliver(m, i))
  /\ \A x \in Deliveries : WF_vars(Handling(x))
  /\ WF_vars(Tick)
FairSpec == Spec /\ Fairness

-----------------------------------------------------------------------------
(* PROPERTIES                                                              *)

(* Deliveries never exceed the configured number and deadlines never the   *)
(* configured waits; nobody works for an instance that is gone.            *)
TypeOK ==
  /\ msg \in [Messages -> {"absent", "ready", "pending", "acked", "dropped"}]
  /\ count \in [Messages -> 0..MaxDeliver]
  /\ ackLeft \in [Messages -> 0..AckWait]
  /\ lease \in [Events -> {"free", "held", "done"}]
  /\ ttl \in [Events -> 0..Week]
  /\ step \in [Deliveries -> Steps]
  /\ on \in [Deliveries -> Instances \cup {Nobody}]
  /\ claimed \subseteq Deliveries
  /\ sent \subseteq Deliveries
  /\ parked \subseteq Messages
  /\ \A x \in Deliveries : on[x] = Nobody <=> step[x] \in {"none"} \cup Ended

(* Whatever is redelivered, republished or replayed, no two deliveries of  *)
(* one event notify its recipients at the same time, and none does while   *)
(* the event is recorded as done.                                          *)
OneAtATime ==
  \A x, y \in Deliveries :
    step[x] = "working" /\ EventIn(x) = EventIn(y) =>
      /\ step[y] \in {"working", "failed", "sent", "acked"} => x = y
      /\ lease[EventIn(x)] = "held"

(* An event whose recipients were notified is processed again only if the  *)
(* process that did it died before it could record it, lost acks or not.   *)
ProcessedOnce ==
  \A x, y \in sent :
    EventIn(x) = EventIn(y) /\ x # y => step[x] = "dead" \/ step[y] = "dead"

ProcessedOrParked(m) == m \in parked \/ \E x \in sent : EventIn(x) = EventOf[m]

(* A message is acknowledged only if its event was processed to the end by *)
(* some delivery, or a dead letter of it exists, or its last delivery      *)
(* failed to record one: no duplicate, deferral or dead claim acks it away.*)
AckedIsSettled ==
  \A m \in Messages :
    msg[m] = "acked" => ProcessedOrParked(m) \/ step[<<m, MaxDeliver>>] = "unparked"

(* "Parked where an admin can replay it instead of being acked into        *)
(* silence": whatever fails, what is acknowledged was processed or parked. *)
NeverSilenced ==
  \A m \in Messages : msg[m] = "acked" => ProcessedOrParked(m)

(* A record that an event is done is not shortened, released or taken over *)
(* by a delivery of the event that is still under way.                     *)
DoneIsKept ==
  [][\A e \in Events : lease[e] = "done" => lease'[e] = "done" /\ ttl'[e] = ttl[e]]_vars

(* Every message ends in a notification or a dead letter, unless its last  *)
(* delivery died with its process or failed to record the dead letter.     *)
EventuallySettled ==
  \A m \in Messages :
    msg[m] # "absent" ~>
      ProcessedOrParked(m) \/ step[<<m, MaxDeliver>>] \in {"dead", "unparked"}
=============================================================================
