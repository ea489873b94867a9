--------------------------- MODULE InvoicingProofs ---------------------------
(***************************************************************************)
(* Proofs about Outbox and Invoicing, for any number of milestones,        *)
(* replicas, concurrent deliveries, audiences and retries.                 *)
(*                                                                         *)
(* OutboxInv is inductive for the poll loops alone.  Around the consumer   *)
(* it takes three more facts: the copies before the one a delivery is at   *)
(* are there (Behind); of a milestone no download made a copy of, every    *)
(* number is that of the first copy, and only the delivery of that copy    *)
(* counts (NumbersShared); and a number in hand is at most one beyond the  *)
(* milestones invoiced, the one beyond being its own when it is that of a  *)
(* first copy still to be recorded (NumbersFit).                           *)
(***************************************************************************)
EXTENDS Invoicing, FiniteSetTheorems, TLAPS

WorkerRec == [at : {"idle", "publish", "mark", "failed"},
              event : Events \cup {NoEvent}, seen : 0..MaxRetries]

OutboxInv ==
  /\ appended \subseteq Events
  /\ published \subseteq appended
  /\ retries \in [Events -> 0..MaxRetries]
  /\ dead \subseteq appended
  /\ stream \subseteq appended
  /\ worker \in [Workers -> WorkerRec]
  /\ published \subseteq stream
  /\ \A e \in Events : retries[e] >= MaxRetries => e \in dead
  /\ \A w \in Workers :
       /\ worker[w].at # "idle" => worker[w].event \in appended /\ worker[w].seen < MaxRetries
       /\ worker[w].at = "mark" => worker[w].event \in stream

HandlerRec == [at : {"idle", "make", "count", "record"}, milestone : Milestones \cup {NoEvent},
               turn : 1..Len(Audiences), download : BOOLEAN, number : Nat]

Types ==
  /\ deliveries \in [Milestones -> 0..MaxDeliver]
  /\ number \in [Milestones -> [Copies -> Nat]]
  /\ handler \in [Handlers -> HandlerRec]
  /\ \A m \in downloaded : m \in Milestones

Behind ==
  /\ acked \subseteq stream /\ acked \subseteq Milestones
  /\ \A m \in acked : \A i \in DOMAIN Audiences : number[m][Audiences[i]] # 0
  /\ \A h \in Handlers :
       /\ handler[h].at # "idle" => handler[h].milestone \in Milestones
       /\ handler[h].at # "idle" /\ ~handler[h].download =>
            /\ handler[h].milestone \in stream
            /\ \A j \in 1..(handler[h].turn - 1) : number[handler[h].milestone][Audiences[j]] # 0
       /\ handler[h].at = "make" => ~handler[h].download
       /\ handler[h].at = "record" => handler[h].number > 0

First == Audiences[1]

NumbersShared ==
  /\ \A m \in Milestones : m \notin downloaded =>
       \A a \in Copies : number[m][a] \in {0, number[m][First]}
  /\ \A h \in Handlers :
       ~handler[h].download /\ handler[h].milestone \notin downloaded =>
         /\ handler[h].at = "count" => handler[h].turn = 1
         /\ handler[h].at = "record" /\ handler[h].turn > 1 =>
              handler[h].number = number[handler[h].milestone][First]

NumbersFit ==
  /\ \A m \in Milestones : \A a \in Copies :
       /\ number[m][a] <= Cardinality(Invoiced) + 1
       /\ m \notin downloaded => number[m][a] <= Cardinality(Invoiced)
  /\ \A h \in Handlers : handler[h].at = "record" =>
       /\ handler[h].number <= Cardinality(Invoiced) + 1
       /\ /\ ~handler[h].download /\ handler[h].milestone \notin downloaded
          /\ handler[h].turn = 1 /\ number[handler[h].milestone][First] = 0
          => handler[h].number <= Cardinality(Invoiced \cup {handler[h].milestone})

IInv == OutboxInv /\ Types /\ Behind /\ NumbersFit /\ NumbersShared

-----------------------------------------------------------------------------
(* THE OUTBOX                                                              *)

LEMMA RestingTyped == Resting \in WorkerRec
  BY OutboxAssumption DEF Resting, WorkerRec

LEMMA AppendStep ==
  ASSUME OutboxInv, NEW e \in Events, AppendEvent(e)
  PROVE  OutboxInv'
  BY DEF OutboxInv, AppendEvent

(* Whoever claims, publishes, marks, fails or dies: a row given up on has  *)
(* its dead letter, and a row marked published is in the stream.           *)
LEMMA WorkerStep ==
  ASSUME OutboxInv, NEW w \in Workers, WorkerNext(w)
  PROVE  OutboxInv'
<1>0. /\ worker[w] \in WorkerRec /\ MaxRetries \in Nat /\ MaxRetries > 0
      /\ worker[w].seen \in Nat
  BY OutboxAssumption DEF OutboxInv, WorkerRec
<1>1. ASSUME NEW e \in Events, Claim(w, e) PROVE OutboxInv'
  <2> DEFINE next == [at |-> "publish", event |-> e, seen |-> retries[e]]
  <2>1. e \in appended /\ retries[e] < MaxRetries /\ retries[e] \in 0..MaxRetries
    BY <1>1 DEF Claim, Claimable, OutboxInv
  <2>2. next \in WorkerRec
    BY <2>1 DEF WorkerRec
  <2>3. worker' = [worker EXCEPT ![w] = next]
    BY <1>1 DEF Claim
  <2>4. next.at = "publish" /\ next.event = e /\ next.seen = retries[e]
    OBVIOUS
  <2> HIDE DEF next
  <2>5. worker' \in [Workers -> WorkerRec]
    BY <2>2, <2>3 DEF OutboxInv
  <2> QED
    BY <2>1, <2>3, <2>4, <2>5, <1>1 DEF OutboxInv, Claim
<1>2. CASE Publish(w)
  <2>1. worker[w].event \in appended
    BY <1>2 DEF Publish, OutboxInv
  <2>2. \/ stream' = stream \cup {worker[w].event} /\ worker' = [worker EXCEPT ![w].at = "mark"]
        \/ /\ stream' \in {stream, stream \cup {worker[w].event}}
           /\ worker' = [worker EXCEPT ![w].at = "failed"]
    BY <1>2 DEF Publish, WorkerGoesTo
  <2>3. worker' \in [Workers -> WorkerRec]
    BY <2>2, <1>0 DEF OutboxInv, WorkerRec
  <2> QED
    BY <1>2, <2>1, <2>2, <2>3 DEF OutboxInv, Publish, WorkerRec
<1>3. CASE MarkPublished(w)
  <2>1. \/ worker' = [worker EXCEPT ![w] = Resting]
        \/ worker' = [worker EXCEPT ![w].at = "failed"]
    BY <1>3 DEF MarkPublished, WorkerRests, WorkerGoesTo
  <2>2. worker' \in [Workers -> WorkerRec]
    BY <2>1, <1>0, RestingTyped DEF OutboxInv, WorkerRec
  <2> QED
    BY <1>3, <2>1, <2>2 DEF OutboxInv, MarkPublished, Resting, WorkerRec
<1>4. CASE RecordFailure(w)
  <2> DEFINE e == worker[w].event
             count == worker[w].seen + 1
  <2>1. e \in appended /\ e \in Events /\ count \in 0..MaxRetries
    BY <1>0, <1>4 DEF RecordFailure, OutboxInv
  <2>2. /\ retries' = [retries EXCEPT ![e] = count]
        /\ dead' = IF count >= MaxRetries THEN dead \cup {e} ELSE dead
        /\ worker' = [worker EXCEPT ![w] = Resting]
        /\ UNCHANGED <<appended, published, stream>>
    BY <1>4 DEF RecordFailure, BudgetSpent, WorkerRests
  <2>3. worker' \in [Workers -> WorkerRec]
    BY <2>2, RestingTyped DEF OutboxInv
  <2> HIDE DEF e, count
  <2>4. retries' \in [Events -> 0..MaxRetries] /\ dead' \subseteq appended
    BY <2>1, <2>2 DEF OutboxInv
  <2>5. \A x \in Events : retries'[x] >= MaxRetries => x \in dead'
    BY <2>1, <2>2 DEF OutboxInv
  <2> QED
    BY <2>2, <2>3, <2>4, <2>5 DEF OutboxInv, Resting
<1>5. CASE WorkerDies(w)
  <2>1. worker' = [worker EXCEPT ![w] = Resting]
    BY <1>5 DEF WorkerDies, WorkerRests
  <2>2. worker' \in [Workers -> WorkerRec]
    BY <2>1, RestingTyped DEF OutboxInv
  <2> QED
    BY <1>5, <2>1, <2>2 DEF OutboxInv, WorkerDies, Resting
<1> QED
  BY <1>1, <1>2, <1>3, <1>4, <1>5 DEF WorkerNext

-----------------------------------------------------------------------------
(* THE CONSUMER                                                            *)

LEMMA FreeTyped == Free \in HandlerRec
  BY ConsumerAssumption DEF Free, HandlerRec

\* A copy is dealt with: the next one, or the end with or without an ack.
Moves(h) ==
  \/ /\ ~handler[h].download /\ handler[h].turn < Len(Audiences)
     /\ handler'[h].at = "make" /\ ~handler'[h].download
     /\ handler'[h].milestone = handler[h].milestone
     /\ handler'[h].turn = handler[h].turn + 1
     /\ acked' = acked
  \/ /\ handler'[h] = Free
     /\ \/ acked' = acked
        \/ /\ ~handler[h].download /\ handler[h].turn = Len(Audiences)
           /\ acked' = acked \cup {handler[h].milestone}

\* A handler takes up one copy of a milestone.
TakesUp(h) ==
  /\ handler'[h].milestone \in Milestones
  /\ \/ handler'[h].download
     \/ /\ handler[h].at = "make" /\ ~handler[h].download
        /\ handler'[h].turn = handler[h].turn
        /\ handler'[h].milestone = handler[h].milestone
  /\ UNCHANGED <<acked, number, downloaded>>

\* It finds a number for it.
Reuses(h) ==
  /\ TakesUp(h)
  /\ handler'[h].at = "record" /\ handler'[h].milestone \in Invoiced
  /\ \E a \in Recorded(handler'[h].milestone) :
       handler'[h].number = number[handler'[h].milestone][a]

\* It finds none.
Misses(h) ==
  TakesUp(h) /\ handler'[h].at = "count" /\ handler'[h].milestone \notin Invoiced

\* It counts.
Counts(h) ==
  /\ handler[h].at = "count" /\ handler'[h].at = "record"
  /\ handler'[h].milestone = handler[h].milestone
  /\ handler'[h].turn = handler[h].turn
  /\ handler'[h].download = handler[h].download
  /\ handler'[h].number = Cardinality(Invoiced) + 1
  /\ UNCHANGED <<acked, number, downloaded>>

LEMMA Onward ==
  ASSUME Types, NEW h \in Handlers, Onwards(h)
  PROVE  Moves(h) /\ handler' \in [Handlers -> HandlerRec]
<1> DEFINE next == [handler[h] EXCEPT !.at = "make", !.turn = handler[h].turn + 1, !.number = 0]
<1>0. handler[h] \in HandlerRec /\ handler \in [Handlers -> HandlerRec] /\ Len(Audiences) \in Nat
  BY ConsumerAssumption DEF Types
<1>1. CASE MoreCopies(h)
  <2>1. handler' = [handler EXCEPT ![h] = next] /\ acked' = acked
    BY <1>1 DEF Onwards
  <2>2. ~handler[h].download /\ handler[h].turn < Len(Audiences)
    BY <1>1 DEF MoreCopies
  <2>3. next \in HandlerRec
    <3>1. handler[h].turn + 1 \in 1..Len(Audiences)
      BY <1>0, <2>2 DEF HandlerRec
    <3> QED
      BY <1>0, <3>1, Zenon DEF HandlerRec
  <2>4. /\ next.at = "make" /\ next.download = handler[h].download
        /\ next.milestone = handler[h].milestone /\ next.turn = handler[h].turn + 1
    BY <1>0 DEF HandlerRec
  <2> HIDE DEF next
  <2> QED
    BY <1>0, <2>1, <2>2, <2>3, <2>4 DEF Moves
<1>2. CASE ~MoreCopies(h)
  <2>1. /\ handler' = [handler EXCEPT ![h] = Free]
        /\ \/ acked' = acked
           \/ ~handler[h].download /\ acked' = acked \cup {handler[h].milestone}
    BY <1>2 DEF Onwards, Quits
  <2>2. handler[h].download \/ handler[h].turn = Len(Audiences)
    BY <1>0, <1>2 DEF MoreCopies, HandlerRec
  <2> QED
    BY <1>0, <2>1, <2>2, FreeTyped DEF Moves
<1> QED
  BY <1>1, <1>2

LEMMA InvoicedFinite ==
  /\ IsFiniteSet(Invoiced) /\ Cardinality(Invoiced) \in Nat
  /\ \A m \in Milestones : /\ IsFiniteSet(Invoiced \cup {m})
                           /\ Cardinality(Invoiced \cup {m}) \in Nat
                           /\ m \notin Invoiced =>
                                Cardinality(Invoiced \cup {m}) = Cardinality(Invoiced) + 1
<1>1. IsFiniteSet(Invoiced)
  BY OutboxAssumption, FS_Subset DEF Invoiced, Milestones
<1> QED
  BY <1>1, FS_CardinalityType, FS_AddElement

(* The first query answers with a number, or the milestone has no copy.    *)
Looked(next, m, i) ==
  /\ next \in HandlerRec /\ next.milestone = m /\ next.turn = i
  /\ \/ /\ next.at = "record" /\ m \in Invoiced
        /\ \E a \in Recorded(m) : next.number = number[m][a]
     \/ next.at = "count" /\ m \notin Invoiced

LEMMA LookedUp ==
  ASSUME Types, NEW m \in Milestones, NEW i \in 1..Len(Audiences)
  PROVE  /\ \A next \in LookUp(m, i, TRUE) : Looked(next, m, i) /\ next.download
         /\ \A next \in LookUp(m, i, FALSE) : Looked(next, m, i) /\ ~next.download
<1>1. ASSUME NEW next \in LookUp(m, i, TRUE) PROVE Looked(next, m, i) /\ next.download
  <2>1. CASE m \in Invoiced
    <3>1. PICK a \in Recorded(m) : next = [at |-> "record", milestone |-> m, turn |-> i,
                                           download |-> TRUE, number |-> number[m][a]]
      BY <2>1 DEF LookUp
    <3>2. number[m][a] \in Nat
      BY DEF Recorded, Types
    <3> QED
      BY <2>1, <3>1, <3>2 DEF HandlerRec, Looked
  <2>2. CASE m \notin Invoiced
    <3>1. next = [at |-> "count", milestone |-> m, turn |-> i, download |-> TRUE, number |-> 0]
      BY <2>2 DEF LookUp
    <3>2. /\ next \in HandlerRec /\ next.milestone = m /\ next.turn = i
          /\ next.at = "count" /\ next.download = TRUE
      BY <3>1 DEF HandlerRec
    <3> QED
      BY <2>2, <3>2 DEF Looked
  <2> QED
    BY <2>1, <2>2
<1>2. ASSUME NEW next \in LookUp(m, i, FALSE) PROVE Looked(next, m, i) /\ ~next.download
  <2>1. CASE m \in Invoiced
    <3>1. PICK a \in Recorded(m) : next = [at |-> "record", milestone |-> m, turn |-> i,
                                           download |-> FALSE, number |-> number[m][a]]
      BY <2>1 DEF LookUp
    <3>2. number[m][a] \in Nat
      BY DEF Recorded, Types
    <3> QED
      BY <2>1, <3>1, <3>2 DEF HandlerRec, Looked
  <2>2. CASE m \notin Invoiced
    <3>1. next = [at |-> "count", milestone |-> m, turn |-> i, download |-> FALSE, number |-> 0]
      BY <2>2 DEF LookUp
    <3>2. /\ next \in HandlerRec /\ next.milestone = m /\ next.turn = i
          /\ next.at = "count" /\ next.download = FALSE
      BY <3>1 DEF HandlerRec
    <3> QED
      BY <2>2, <3>2 DEF Looked
  <2> QED
    BY <2>1, <2>2
<1> QED
  BY <1>1, <1>2

(* What a step of a delivery or a download does, without its EXCEPTs.      *)
LEMMA HandlerSteps ==
  ASSUME Types, Behind, NEW h \in Handlers, Handle(h)
  PROVE  /\ UNCHANGED outboxVars
         /\ deliveries' \in [Milestones -> 0..MaxDeliver]
         /\ handler' \in [Handlers -> HandlerRec]
         /\ \A g \in Handlers \ {h} : handler'[g] = handler[g]
         /\ \/ \E m \in Milestones :
                 /\ handler'[h].at = "make" /\ ~handler'[h].download
                 /\ handler'[h].turn = 1 /\ handler'[h].milestone = m /\ m \in stream
                 /\ UNCHANGED <<acked, number, downloaded>>
            \/ Reuses(h) \/ Misses(h) \/ Counts(h)
            \/ /\ handler[h].at = "make" /\ number[handler[h].milestone][Audience(h)] # 0
               /\ Moves(h) /\ UNCHANGED <<number, downloaded>>
            \/ /\ handler[h].at = "record" /\ number[handler[h].milestone][Audience(h)] = 0
               /\ number' = [number EXCEPT ![handler[h].milestone][Audience(h)] = handler[h].number]
               /\ downloaded' = IF handler[h].download
                                THEN downloaded \cup {handler[h].milestone} ELSE downloaded
               /\ Moves(h)
            \/ handler'[h] = Free /\ UNCHANGED <<acked, number, downloaded>>
<1>0. handler[h] \in HandlerRec /\ handler \in [Handlers -> HandlerRec]
  BY DEF Types
<1>1. ASSUME NEW m \in Milestones, Deliver(h, m)
      PROVE /\ deliveries' \in [Milestones -> 0..MaxDeliver]
            /\ handler' \in [Handlers -> HandlerRec]
            /\ \A g \in Handlers \ {h} : handler'[g] = handler[g]
            /\ handler'[h].at = "make" /\ ~handler'[h].download
            /\ handler'[h].turn = 1 /\ handler'[h].milestone = m /\ m \in stream
            /\ UNCHANGED <<outboxVars, acked, number, downloaded>>
  <2> DEFINE next == [Free EXCEPT !.at = "make", !.milestone = m]
  <2>1. next \in HandlerRec
    BY FreeTyped DEF HandlerRec
  <2>2. next.at = "make" /\ ~next.download /\ next.turn = 1 /\ next.milestone = m
    BY DEF Free
  <2>3. handler' = [handler EXCEPT ![h] = next]
    BY <1>1 DEF Deliver
  <2> HIDE DEF next
  <2>4. deliveries' \in [Milestones -> 0..MaxDeliver]
    BY <1>1, ConsumerAssumption DEF Deliver, Types
  <2> QED
    BY <1>0, <1>1, <2>1, <2>2, <2>3, <2>4 DEF Deliver
<1>2. ASSUME NEW m \in Milestones, NEW i \in Readers, Download(h, m, i)
      PROVE /\ deliveries' \in [Milestones -> 0..MaxDeliver]
            /\ handler' \in [Handlers -> HandlerRec]
            /\ \A g \in Handlers \ {h} : handler'[g] = handler[g]
            /\ Reuses(h) \/ Misses(h)
            /\ UNCHANGED outboxVars
  <2>1. PICK next \in LookUp(m, i, TRUE) : handler' = [handler EXCEPT ![h] = next]
    BY <1>2 DEF Download
  <2>2. i \in 1..Len(Audiences)
    BY ConsumerAssumption
  <2>3. Looked(next, m, i) /\ next.download
    BY <2>2, LookedUp
  <2>4. handler'[h] = next
    BY <1>0, <2>1
  <2> QED
    BY <1>0, <1>2, <2>1, <2>3, <2>4 DEF Looked, Download, TakesUp, Reuses, Misses, Types
<1>3. CASE Make(h)
  <2> DEFINE m == handler[h].milestone
  <2>0. m \in Milestones /\ ~handler[h].download
    BY <1>3 DEF Make, Behind
  <2>1. CASE number[m][Audience(h)] # 0 /\ Onwards(h)
    <3>1. \A g \in Handlers \ {h} : handler'[g] = handler[g]
      BY <1>0, <2>1 DEF Onwards, Quits
    <3> QED
      BY <1>3, <2>1, <3>1, Onward DEF Make, Types
  <2>2. ASSUME NEW next \in LookUp(m, handler[h].turn, FALSE), acked' = acked,
               handler' = [handler EXCEPT ![h] = next]
        PROVE /\ handler' \in [Handlers -> HandlerRec]
              /\ \A g \in Handlers \ {h} : handler'[g] = handler[g]
              /\ Reuses(h) \/ Misses(h)
    <3>1. handler[h].turn \in 1..Len(Audiences)
      BY <1>0 DEF HandlerRec
    <3>2. Looked(next, m, handler[h].turn) /\ ~next.download
      BY <2>0, <3>1, LookedUp
    <3> QED
      BY <1>0, <1>3, <2>0, <2>2, <3>2 DEF Looked, TakesUp, Reuses, Misses, Make
  <2> QED
    BY <1>3, <2>1, <2>2 DEF Make, Types
<1>4. CASE Record(h)
  <2> DEFINE m == handler[h].milestone
  <2>1. CASE number[m][Audience(h)] # 0
    <3>1. handler' = [handler EXCEPT ![h] = Free] /\ UNCHANGED <<acked, number, downloaded>>
      BY <1>4, <2>1 DEF Record, Quits
    <3> QED
      BY <1>0, <1>4, <3>1, FreeTyped DEF Record, Types
  <2>2. CASE number[m][Audience(h)] = 0
    <3>1. /\ number' = [number EXCEPT ![m][Audience(h)] = handler[h].number]
          /\ downloaded' = IF handler[h].download THEN downloaded \cup {m} ELSE downloaded
          /\ Onwards(h)
      BY <1>4, <2>2 DEF Record
    <3>2. \A g \in Handlers \ {h} : handler'[g] = handler[g]
      BY <1>0, <3>1 DEF Onwards, Quits
    <3>3. handler[h].at = "record" /\ UNCHANGED <<outboxVars, deliveries>>
      BY <1>4 DEF Record
    <3> QED
      BY <2>2, <3>1, <3>2, <3>3, Onward DEF Types
  <2> QED
    BY <2>1, <2>2
<1>5. CASE HandlerFails(h)
  <2>1. handler' = [handler EXCEPT ![h] = Free] /\ UNCHANGED <<acked, number, downloaded>>
    BY <1>5 DEF HandlerFails, Quits
  <2> QED
    BY <1>0, <1>5, <2>1, FreeTyped DEF HandlerFails, Types
<1>6. CASE Count(h)
  <2> DEFINE n == Cardinality(Invoiced) + 1
             next == [handler[h] EXCEPT !.at = "record", !.number = n]
  <2>1. n \in Nat
    BY InvoicedFinite
  <2>2. /\ next \in HandlerRec /\ next.at = "record" /\ next.number = n
        /\ next.milestone = handler[h].milestone /\ next.turn = handler[h].turn
        /\ next.download = handler[h].download
    BY <1>0, <2>1 DEF HandlerRec
  <2>3. /\ handler' = [handler EXCEPT ![h] = next] /\ handler[h].at = "count"
        /\ UNCHANGED <<outboxVars, deliveries, acked, number, downloaded>>
    BY <1>6 DEF Count, OneMoreThanInvoiced
  <2> HIDE DEF next
  <2> QED
    BY <1>0, <2>2, <2>3 DEF Counts, Types
<1> QED
  BY <1>1, <1>2, <1>3, <1>4, <1>5, <1>6 DEF Handle

\* A copy is recorded under the number in hand.
Records(h) ==
  /\ handler[h].at = "record" /\ number[handler[h].milestone][Audience(h)] = 0
  /\ number' = [number EXCEPT ![handler[h].milestone][Audience(h)] = handler[h].number]
  /\ downloaded' = IF handler[h].download
                   THEN downloaded \cup {handler[h].milestone} ELSE downloaded
  /\ Moves(h)

(* The one copy a record adds, and the milestone it makes an invoiced one. *)
LEMMA RecordedCopy ==
  ASSUME Types, Behind, NEW h \in Handlers, Records(h)
  PROVE  /\ handler[h].milestone \in Milestones /\ Audience(h) \in Copies
         /\ handler[h].number \in Nat /\ handler[h].number > 0
         /\ number' \in [Milestones -> [Copies -> Nat]]
         /\ number'[handler[h].milestone][Audience(h)] = handler[h].number
         /\ \A m \in Milestones : \A a \in Copies :
              m # handler[h].milestone \/ a # Audience(h) => number'[m][a] = number[m][a]
         /\ Invoiced' = Invoiced \cup {handler[h].milestone}
<1> DEFINE k == handler[h].milestone
           b == Audience(h)
<1>1. k \in Milestones /\ handler[h].number \in Nat /\ handler[h].number > 0
  BY DEF Records, Behind, Types, HandlerRec
<1>2. b \in Copies
  BY ConsumerAssumption DEF Types, HandlerRec, Audience, Copies
<1>3. number' = [number EXCEPT ![k][b] = handler[h].number]
  BY DEF Records
<1> HIDE DEF k, b
<1>4. number' \in [Milestones -> [Copies -> Nat]]
  BY <1>1, <1>2, <1>3 DEF Types
<1>5. number'[k][b] = handler[h].number
  BY <1>1, <1>2, <1>3 DEF Types
<1>6. \A m \in Milestones : \A a \in Copies : m # k \/ a # b => number'[m][a] = number[m][a]
  BY <1>1, <1>2, <1>3 DEF Types
<1>7. Invoiced' = Invoiced \cup {k}
  BY <1>1, <1>2, <1>5, <1>6 DEF Invoiced, Recorded
<1> QED
  BY <1>1, <1>2, <1>4, <1>5, <1>6, <1>7 DEF k, b

(* A step records a copy, or leaves the copies and takes a number or none.  *)
LEMMA HandlerCases ==
  ASSUME Types, Behind, NEW h \in Handlers, Handle(h)
  PROVE  \/ Records(h)
         \/ Reuses(h) \/ Misses(h) \/ Counts(h)
         \/ UNCHANGED <<number, downloaded>> /\ handler'[h].at \notin {"count", "record"}
<1>1. Moves(h) => handler'[h].at \notin {"count", "record"}
  BY DEF Moves, Free
<1>2. handler'[h] = Free => handler'[h].at \notin {"count", "record"}
  BY DEF Free
<1> QED
  BY <1>1, <1>2, HandlerSteps DEF Records

LEMMA HandlerTypes ==
  ASSUME Types, Behind, NEW h \in Handlers, Handle(h)
  PROVE  Types'
<1>1. CASE Records(h)
  <2>1. \A m \in downloaded' : m \in Milestones
    <3>1. /\ \A m \in downloaded : m \in Milestones
          /\ handler[h].milestone \in Milestones
      BY <1>1, RecordedCopy DEF Types
    <3>2. \/ downloaded' = downloaded
          \/ downloaded' = downloaded \cup {handler[h].milestone}
      BY <1>1 DEF Records
    <3> QED
      BY <3>1, <3>2
  <2> QED
    BY <1>1, <2>1, HandlerSteps, RecordedCopy DEF Types
<1>2. CASE UNCHANGED <<number, downloaded>>
  BY <1>2, HandlerSteps DEF Types
<1> QED
  BY <1>1, <1>2, HandlerSteps DEF Records, Reuses, Misses, Counts, TakesUp

LEMMA HandlerBehind ==
  ASSUME Types, Behind, NEW h \in Handlers, Handle(h)
  PROVE  Behind'
<1>0. /\ handler[h] \in HandlerRec /\ stream' = stream /\ Len(Audiences) \in Nat
      /\ DOMAIN Audiences = 1..Len(Audiences) /\ Types'
      /\ \A g \in Handlers \ {h} : handler'[g] = handler[g]
  BY ConsumerAssumption, HandlerSteps, HandlerTypes DEF Types, outboxVars
<1>1. ASSUME NEW m \in Milestones,
             handler'[h].at = "make" /\ ~handler'[h].download
               /\ handler'[h].turn = 1 /\ handler'[h].milestone = m /\ m \in stream,
             UNCHANGED <<acked, number, downloaded>>
      PROVE Behind'
  BY <1>0, <1>1 DEF Behind
<1>2. CASE Reuses(h) \/ Misses(h)
  <2>1. handler'[h].at = "record" => handler'[h].number > 0
    <3>1. CASE Reuses(h)
      <4>1. PICK a \in Recorded(handler'[h].milestone) :
              handler'[h].number = number[handler'[h].milestone][a]
        BY <3>1 DEF Reuses
      <4>2. /\ number[handler'[h].milestone][a] # 0
            /\ number[handler'[h].milestone][a] \in Nat
        BY <3>1, <4>1 DEF Recorded, Types, Reuses, TakesUp
      <4> QED
        BY <4>1, <4>2
    <3> QED
      BY <1>2, <3>1 DEF Misses
  <2> QED
    BY <1>0, <1>2, <2>1 DEF Behind, Reuses, Misses, TakesUp
<1>7. CASE Counts(h)
  <2>1. handler'[h].number > 0
    BY <1>7, InvoicedFinite DEF Counts
  <2> QED
    BY <1>0, <1>7, <2>1 DEF Behind, Counts
<1>3. ASSUME Moves(h), handler[h].at # "idle",
             \A m \in Milestones : \A i \in DOMAIN Audiences :
               number[m][Audiences[i]] # 0 => number'[m][Audiences[i]] # 0,
             number'[handler[h].milestone][Audiences[handler[h].turn]] # 0
      PROVE Behind'
  <2> DEFINE k == handler[h].milestone
  <2>1. k \in Milestones /\ handler[h].turn \in 1..Len(Audiences)
    BY <1>0, <1>3 DEF Behind, HandlerRec
  <2>2. ~handler[h].download =>
          k \in stream /\ \A j \in 1..handler[h].turn : number'[k][Audiences[j]] # 0
    BY <1>0, <1>3, <2>1 DEF Behind
  <2>3. /\ acked' \subseteq stream /\ acked' \subseteq Milestones
        /\ \A m \in acked' : \A i \in DOMAIN Audiences : number'[m][Audiences[i]] # 0
    <3>1. \A m \in acked : \A i \in DOMAIN Audiences : number'[m][Audiences[i]] # 0
      BY <1>3 DEF Behind
    <3>2. acked \subseteq stream /\ acked \subseteq Milestones
      BY DEF Behind
    <3>3. CASE acked' = acked
      BY <3>1, <3>2, <3>3
    <3>4. CASE ~handler[h].download /\ handler[h].turn = Len(Audiences) /\ acked' = acked \cup {k}
      BY <1>0, <2>1, <2>2, <3>1, <3>2, <3>4
    <3> QED
      BY <1>3, <3>3, <3>4 DEF Moves
  <2>4. \A g \in Handlers \ {h} :
          /\ handler'[g].at # "idle" => handler'[g].milestone \in Milestones
          /\ handler'[g].at # "idle" /\ ~handler'[g].download =>
               /\ handler'[g].milestone \in stream'
               /\ \A j \in 1..(handler'[g].turn - 1) :
                    number'[handler'[g].milestone][Audiences[j]] # 0
          /\ handler'[g].at = "make" => ~handler'[g].download
          /\ handler'[g].at = "record" => handler'[g].number > 0
    <3>1. SUFFICES ASSUME NEW g \in Handlers \ {h}, handler'[g] = handler[g]
                   PROVE /\ handler[g].at # "idle" => handler[g].milestone \in Milestones
                         /\ handler[g].at # "idle" /\ ~handler[g].download =>
                              /\ handler[g].milestone \in stream
                              /\ \A j \in 1..(handler[g].turn - 1) :
                                   number'[handler[g].milestone][Audiences[j]] # 0
                         /\ handler[g].at = "make" => ~handler[g].download
                         /\ handler[g].at = "record" => handler[g].number > 0
      BY <1>0
    <3>2. handler[g].turn \in 1..Len(Audiences)
      BY DEF Types, HandlerRec
    <3> QED
      BY <1>0, <1>3, <3>2 DEF Behind
  <2>5. /\ handler'[h].at # "idle" => handler'[h].milestone \in Milestones
        /\ handler'[h].at # "idle" /\ ~handler'[h].download =>
             /\ handler'[h].milestone \in stream'
             /\ \A j \in 1..(handler'[h].turn - 1) :
                  number'[handler'[h].milestone][Audiences[j]] # 0
        /\ handler'[h].at = "make" => ~handler'[h].download
        /\ handler'[h].at = "record" => handler'[h].number > 0
    BY <1>0, <1>3, <2>1, <2>2 DEF Moves, Free, HandlerRec
  <2> QED
    BY <1>0, <2>3, <2>4, <2>5 DEF Behind
<1>4. CASE /\ handler[h].at = "make" /\ number[handler[h].milestone][Audience(h)] # 0
           /\ Moves(h) /\ UNCHANGED <<number, downloaded>>
  BY <1>3, <1>4 DEF Audience
<1>5. CASE Records(h)
  <2>1. \A m \in Milestones : \A i \in DOMAIN Audiences :
          number[m][Audiences[i]] # 0 => number'[m][Audiences[i]] # 0
    BY <1>5, RecordedCopy DEF Records, Copies
  <2>2. number'[handler[h].milestone][Audiences[handler[h].turn]] # 0
    BY <1>5, RecordedCopy DEF Audience
  <2> QED
    BY <1>3, <1>5, <2>1, <2>2 DEF Records
<1>6. CASE handler'[h] = Free /\ UNCHANGED <<acked, number, downloaded>>
  BY <1>0, <1>6 DEF Behind, Free
<1> QED
  BY <1>1, <1>2, <1>4, <1>5, <1>6, <1>7, HandlerSteps DEF Records

LEMMA FirstTyped == First \in Copies /\ 1 \in DOMAIN Audiences
  BY ConsumerAssumption DEF First, Copies

(* No download, no first copy: no copy at all.                             *)
LEMMA FirstCopy ==
  ASSUME Types, NumbersShared, NEW m \in Milestones, m \notin downloaded, number[m][First] = 0
  PROVE  m \notin Invoiced
<1>1. \A a \in Copies : number[m][a] = 0
  BY DEF NumbersShared
<1> QED
  BY <1>1 DEF Invoiced, Recorded

(* What a delivery past the first copy has before it.                      *)
LEMMA FirstBehind ==
  ASSUME Types, Behind, NEW h \in Handlers, handler[h].at # "idle", ~handler[h].download,
         handler[h].turn > 1
  PROVE  number[handler[h].milestone][First] # 0
<1>1. 1 \in 1..(handler[h].turn - 1)
  BY DEF Types, HandlerRec
<1> QED
  BY <1>1 DEF Behind, First

LEMMA HandlerShares ==
  ASSUME Types, Behind, NumbersShared, NEW h \in Handlers, Handle(h)
  PROVE  NumbersShared'
<1>0. /\ \A g \in Handlers \ {h} : handler'[g] = handler[g]
      /\ handler' \in [Handlers -> HandlerRec]
  BY HandlerSteps
<1>f. First \in Copies
  BY FirstTyped
<1>1. CASE Records(h)
  <2> DEFINE k == handler[h].milestone
             b == Audience(h)
  <2>1. /\ number[k][b] = 0 /\ handler[h].at = "record" /\ k \in Milestones
        /\ \A m \in downloaded : m \in downloaded'
        /\ k \notin downloaded' => ~handler[h].download /\ k \notin downloaded
        /\ \A m \in Milestones \ {k} : m \in downloaded' <=> m \in downloaded
    BY <1>1, RecordedCopy DEF Records
  <2>2. handler[h].turn \in Nat /\ handler[h].turn > 0
    BY DEF Types, HandlerRec
  <2>3. \A m \in Milestones \ {k} : \A a \in Copies : number'[m][a] = number[m][a]
    BY <1>1, RecordedCopy
  <2>4. ASSUME k \notin downloaded'
        PROVE  \A a \in Copies : number'[k][a] \in {0, number'[k][First]}
    <3>1. CASE handler[h].turn > 1
      <4>1. handler[h].number = number[k][First] /\ number[k][First] # 0
        BY <2>1, <2>4, <3>1, FirstBehind DEF NumbersShared
      <4>2. number'[k][First] = number[k][First]
        BY <1>1, <1>f, <2>1, <4>1, RecordedCopy
      <4> QED
        BY <1>1, <2>1, <2>4, <4>1, <4>2, RecordedCopy DEF NumbersShared
    <3>2. CASE handler[h].turn = 1
      <4>1. b = First
        BY <3>2 DEF Audience, First
      <4>2. \A a \in Copies : number[k][a] = 0
        BY <2>1, <2>4, <4>1 DEF NumbersShared
      <4> QED
        BY <1>1, <4>1, <4>2, RecordedCopy
    <3> QED
      BY <2>2, <3>1, <3>2
  <2>5. ASSUME NEW m \in Milestones, m \notin downloaded'
        PROVE  \A a \in Copies : number'[m][a] \in {0, number'[m][First]}
    BY <1>f, <2>1, <2>3, <2>4, <2>5 DEF NumbersShared
  <2>6. ASSUME NEW g \in Handlers, ~handler'[g].download,
               handler'[g].milestone \notin downloaded'
        PROVE  /\ handler'[g].at = "count" => handler'[g].turn = 1
               /\ handler'[g].at = "record" /\ handler'[g].turn > 1 =>
                    handler'[g].number = number'[handler'[g].milestone][First]
    <3>1. CASE g = h
      BY <1>1, <3>1 DEF Records, Moves, Free
    <3>2. CASE g # h
      <4>1. handler'[g] = handler[g] /\ handler[g].milestone \notin downloaded
        BY <1>0, <2>1, <2>6, <3>2
      <4>2. handler[g].at = "count" => handler[g].turn = 1
        BY <2>6, <4>1 DEF NumbersShared
      <4>3. ASSUME handler[g].at = "record", handler[g].turn > 1
            PROVE  handler[g].number = number'[handler[g].milestone][First]
        <5>1. handler[g].milestone \in Milestones
          BY <4>3 DEF Behind
        <5>2. /\ handler[g].number = number[handler[g].milestone][First]
              /\ number[handler[g].milestone][First] # 0
          BY <2>6, <4>1, <4>3, FirstBehind DEF NumbersShared
        <5>3. number'[handler[g].milestone][First] = number[handler[g].milestone][First]
          BY <1>1, <1>f, <2>1, <5>1, <5>2, RecordedCopy
        <5> QED
          BY <5>2, <5>3
      <4> QED
        BY <4>1, <4>2, <4>3
    <3> QED
      BY <3>1, <3>2
  <2> QED
    BY <2>5, <2>6 DEF NumbersShared
<1>2. ASSUME UNCHANGED <<number, downloaded>>,
             ~handler'[h].download /\ handler'[h].milestone \notin downloaded =>
               /\ handler'[h].at = "count" => handler'[h].turn = 1
               /\ handler'[h].at = "record" /\ handler'[h].turn > 1 =>
                    handler'[h].number = number[handler'[h].milestone][First]
      PROVE  NumbersShared'
  BY <1>0, <1>2 DEF NumbersShared, First
<1>3. CASE UNCHANGED <<number, downloaded>> /\ handler'[h].at \notin {"count", "record"}
  BY <1>2, <1>3
<1>4. CASE Reuses(h)
  <2>1. ASSUME ~handler'[h].download, handler'[h].milestone \notin downloaded
        PROVE  handler'[h].number = number[handler'[h].milestone][First]
    BY <1>4, <2>1 DEF Reuses, TakesUp, Recorded, NumbersShared
  <2> QED
    BY <1>2, <1>4, <2>1 DEF Reuses, TakesUp
<1>5. CASE Misses(h)
  <2>1. ASSUME ~handler'[h].download
        PROVE  handler'[h].turn = 1
    <3>1. /\ handler[h].at = "make" /\ ~handler[h].download
          /\ handler'[h].turn = handler[h].turn /\ handler'[h].milestone = handler[h].milestone
          /\ handler[h].milestone \notin Invoiced /\ handler[h].milestone \in Milestones
      BY <1>5, <2>1 DEF Misses, TakesUp
    <3>2. number[handler[h].milestone][First] = 0
      BY <1>f, <3>1 DEF Invoiced, Recorded
    <3>3. ~(handler[h].turn > 1)
      BY <3>1, <3>2, FirstBehind
    <3>4. handler[h].turn \in 1..Len(Audiences)
      BY DEF Types, HandlerRec
    <3> QED
      BY <3>1, <3>3, <3>4
  <2> QED
    BY <1>2, <1>5, <2>1 DEF Misses, TakesUp
<1>6. CASE Counts(h)
  <2>1. ASSUME ~handler'[h].download, handler'[h].milestone \notin downloaded
        PROVE  handler'[h].turn = 1
    BY <1>6, <2>1 DEF Counts, NumbersShared
  <2> QED
    BY <1>2, <1>6, <2>1 DEF Counts
<1> QED
  BY <1>1, <1>3, <1>4, <1>5, <1>6, HandlerCases

LEMMA HandlerFits ==
  ASSUME Types, Behind, NumbersShared, NumbersFit, NEW h \in Handlers, Handle(h)
  PROVE  NumbersFit'
<1> DEFINE n == Cardinality(Invoiced)
<1>0. /\ \A g \in Handlers \ {h} : handler'[g] = handler[g]
      /\ n \in Nat
  BY HandlerSteps, InvoicedFinite
<1>t. \A m \in Milestones : \A a \in Copies : number[m][a] \in Nat
  BY DEF Types
<1>1. CASE Records(h)
  <2> DEFINE k == handler[h].milestone
             n1 == Cardinality(Invoiced')
  <2>1. /\ Invoiced' = Invoiced \cup {k} /\ k \in Milestones
        /\ n1 \in Nat /\ n <= n1 /\ IsFiniteSet(Invoiced')
        /\ handler[h].number \in Nat
    BY <1>1, RecordedCopy, InvoicedFinite, FS_Subset
  <2>2. /\ \A m \in downloaded : m \in downloaded'
        /\ k \notin downloaded' => ~handler[h].download /\ k \notin downloaded
        /\ number[k][Audience(h)] = 0 /\ handler[h].at = "record"
    BY <1>1 DEF Records
  <2>3. handler[h].number <= n1 + 1 /\ (k \notin downloaded' => handler[h].number <= n1)
    <3>1. handler[h].number <= n + 1
      BY <2>2 DEF NumbersFit
    <3>2. ASSUME k \notin downloaded'
          PROVE  handler[h].number <= n1
      <4>1. CASE handler[h].turn = 1
        <5>1. number[k][First] = 0
          BY <2>2, <4>1 DEF Audience, First
        <5> QED
          BY <2>1, <2>2, <3>2, <4>1, <5>1 DEF NumbersFit
      <4>2. CASE handler[h].turn > 1
        <5>1. handler[h].number = number[k][First]
          BY <2>2, <3>2, <4>2 DEF NumbersShared
        <5>2. number[k][First] <= n
          BY <2>1, <2>2, <3>2, FirstTyped DEF NumbersFit
        <5> QED
          BY <1>0, <2>1, <5>1, <5>2
      <4>3. handler[h].turn \in Nat /\ handler[h].turn > 0
        BY DEF Types, HandlerRec
      <4> QED
        BY <4>1, <4>2, <4>3
    <3> QED
      BY <1>0, <2>1, <3>1, <3>2
  <2>4. ASSUME NEW m \in Milestones, NEW a \in Copies
        PROVE  number'[m][a] <= n1 + 1 /\ (m \notin downloaded' => number'[m][a] <= n1)
    <3>1. CASE m = k /\ a = Audience(h)
      BY <1>1, <2>3, <3>1, RecordedCopy
    <3>2. CASE ~(m = k /\ a = Audience(h))
      <4>1. number'[m][a] = number[m][a] /\ number[m][a] \in Nat
        BY <1>1, <1>t, <3>2, RecordedCopy
      <4>2. number[m][a] <= n + 1 /\ (m \notin downloaded' => number[m][a] <= n)
        BY <2>2 DEF NumbersFit
      <4> QED
        BY <1>0, <2>1, <4>1, <4>2
    <3> QED
      BY <3>1, <3>2
  <2>5. ASSUME NEW g \in Handlers, handler'[g].at = "record"
        PROVE  /\ handler'[g].number <= n1 + 1
               /\ /\ ~handler'[g].download /\ handler'[g].milestone \notin downloaded'
                  /\ handler'[g].turn = 1 /\ number'[handler'[g].milestone][First] = 0
                  => handler'[g].number <= Cardinality(Invoiced' \cup {handler'[g].milestone})
    <3>1. g # h /\ handler'[g] = handler[g]
      BY <1>0, <1>1, <2>5 DEF Records, Moves, Free
    <3> DEFINE q == handler[g].milestone
    <3>2. q \in Milestones /\ handler[g].number \in Nat
      BY <2>5, <3>1 DEF Behind, Types, HandlerRec
    <3>3. handler[g].number <= n + 1
      BY <2>5, <3>1 DEF NumbersFit
    <3>4. ASSUME ~handler[g].download, q \notin downloaded', handler[g].turn = 1,
                 number'[q][First] = 0
          PROVE  handler[g].number <= Cardinality(Invoiced' \cup {q})
      <4> DEFINE A == Invoiced \cup {q}
                 B == Invoiced' \cup {q}
      <4>1. A \subseteq B /\ IsFiniteSet(B)
        BY <2>1, <3>2, FS_AddElement
      <4>2. Cardinality(A) <= Cardinality(B) /\ Cardinality(A) \in Nat /\ Cardinality(B) \in Nat
        BY <4>1, FS_Subset, FS_CardinalityType
      <4>3. number[q][First] = 0
        BY <1>1, <2>2, <3>2, <3>4, FirstTyped, RecordedCopy
      <4>4. handler[g].number <= Cardinality(A)
        BY <2>2, <2>5, <3>1, <3>4, <4>3 DEF NumbersFit
      <4> QED
        BY <3>2, <4>2, <4>4
    <3> QED
      BY <1>0, <2>1, <3>1, <3>2, <3>3, <3>4
  <2> QED
    BY <2>4, <2>5 DEF NumbersFit, First
<1>2. ASSUME UNCHANGED <<number, downloaded>>,
             handler'[h].at = "record" =>
               /\ handler'[h].number <= n + 1
               /\ /\ ~handler'[h].download /\ handler'[h].milestone \notin downloaded
                  /\ handler'[h].turn = 1 /\ number[handler'[h].milestone][First] = 0
                  => handler'[h].number <= Cardinality(Invoiced \cup {handler'[h].milestone})
      PROVE  NumbersFit'
  <2>1. Invoiced' = Invoiced
    BY <1>2 DEF Invoiced, Recorded
  <2> QED
    BY <1>0, <1>2, <2>1 DEF NumbersFit, First
<1>3. CASE /\ UNCHANGED <<number, downloaded>>
           /\ handler'[h].at \notin {"count", "record"} \/ Misses(h)
  BY <1>2, <1>3 DEF Misses
<1>4. CASE Reuses(h)
  <2>1. PICK a \in Copies : handler'[h].number = number[handler'[h].milestone][a]
    BY <1>4 DEF Reuses, Recorded
  <2>2. /\ handler'[h].milestone \in Milestones /\ handler'[h].milestone \in Invoiced
        /\ UNCHANGED <<number, downloaded>>
    BY <1>4 DEF Reuses, TakesUp
  <2>3. handler'[h].number <= n + 1
    BY <2>1, <2>2 DEF NumbersFit
  <2>4. handler'[h].milestone \notin downloaded => number[handler'[h].milestone][First] # 0
    BY <2>2, FirstCopy
  <2> QED
    BY <1>2, <2>2, <2>3, <2>4
<1>5. CASE Counts(h)
  <2>1. /\ handler'[h].milestone \in Milestones /\ handler'[h].number = n + 1
        /\ UNCHANGED <<number, downloaded>>
    BY <1>5 DEF Counts, Behind
  <2>2. ASSUME handler'[h].milestone \notin downloaded, number[handler'[h].milestone][First] = 0
        PROVE  Cardinality(Invoiced \cup {handler'[h].milestone}) = n + 1
    <3>1. handler'[h].milestone \notin Invoiced
      BY <2>1, <2>2, FirstCopy
    <3> QED
      BY <2>1, <3>1, InvoicedFinite
  <2> QED
    BY <1>0, <1>2, <2>1, <2>2
<1>6. Misses(h) => UNCHANGED <<number, downloaded>>
  BY DEF Misses, TakesUp
<1> QED
  BY <1>1, <1>3, <1>4, <1>5, <1>6, HandlerCases

-----------------------------------------------------------------------------
(* TOGETHER                                                                *)

(* The rows and the stream only grow, and nothing here touches a copy.     *)
LEMMA OutboxSteps ==
  ASSUME IInv, UNCHANGED invoiceVars, OutboxInv', stream \subseteq stream'
  PROVE  IInv'
<1> SUFFICES Types' /\ Behind' /\ NumbersFit' /\ NumbersShared'
  BY DEF IInv
<1>1. UNCHANGED <<deliveries, acked, number, handler, downloaded>>
  BY DEF invoiceVars
<1>2. Types'
  BY <1>1 DEF IInv, Types
<1>3. Behind'
  BY <1>1 DEF IInv, Behind
<1>4. NumbersFit'
  <2>1. Invoiced' = Invoiced
    BY <1>1 DEF Invoiced, Recorded
  <2> QED
    BY <1>1, <2>1 DEF IInv, NumbersFit, First
<1>5. NumbersShared'
  BY <1>1 DEF IInv, NumbersShared, First
<1> QED
  BY <1>2, <1>3, <1>4, <1>5

LEMMA InitInv == Init => IInv
<1> SUFFICES ASSUME Init PROVE IInv
  OBVIOUS
<1>1. OutboxInv
  BY OutboxAssumption, RestingTyped DEF Init, OutboxInit, OutboxInv, Resting
<1>2. Types
  <2>1. 0 \in 0..MaxDeliver
    BY ConsumerAssumption
  <2>2. number \in [Milestones -> [Copies -> Nat]]
    BY DEF Init
  <2> QED
    BY <2>1, <2>2, FreeTyped DEF Init, Types
<1>3. Behind
  BY DEF Init, Behind, Free
<1>4. NumbersFit
  BY InvoicedFinite DEF Init, NumbersFit, Free
<1>5. NumbersShared
  BY DEF Init, NumbersShared, Free
<1> QED
  BY <1>1, <1>2, <1>3, <1>4, <1>5 DEF IInv

THEOREM Inductive == Spec => []IInv
<1>1. ASSUME IInv, [Next]_vars PROVE IInv'
  <2>1. ASSUME NEW e \in Events, AppendEvent(e), UNCHANGED invoiceVars PROVE IInv'
    BY <1>1, <2>1, AppendStep, OutboxSteps DEF AppendEvent, IInv
  <2>2. ASSUME NEW w \in Workers, WorkerNext(w), UNCHANGED invoiceVars PROVE IInv'
    <3>1. stream \subseteq stream'
      BY <2>2 DEF WorkerNext, Claim, Publish, MarkPublished, RecordFailure, WorkerDies
    <3> QED
      BY <1>1, <2>2, <3>1, WorkerStep, OutboxSteps DEF IInv
  <2>3. ASSUME NEW h \in Handlers, Handle(h) PROVE IInv'
    <3>1. OutboxInv'
      BY <1>1, <2>3, HandlerSteps DEF IInv, OutboxInv, outboxVars
    <3> QED
      BY <1>1, <2>3, <3>1, HandlerTypes, HandlerBehind, HandlerFits, HandlerShares DEF IInv
  <2>4. CASE UNCHANGED vars
    <3>1. UNCHANGED outboxVars /\ UNCHANGED invoiceVars
      BY <2>4 DEF vars
    <3>2. OutboxInv'
      BY <1>1, <3>1 DEF IInv, OutboxInv, outboxVars
    <3> QED
      BY <1>1, <3>1, <3>2, OutboxSteps DEF outboxVars
  <2> QED
    BY <1>1, <2>1, <2>2, <2>3, <2>4 DEF Next
<1> QED
  BY InitInv, <1>1, PTL DEF Spec

(* Rows, replicas, messages, copies and handlers are of their types.       *)
THEOREM TypeCorrect == Spec => []TypeOK
<1>1. IInv => TypeOK
  BY DEF IInv, OutboxInv, Types, Behind, TypeOK, OutboxTypeOK, WorkerRec, HandlerRec
<1> QED
  BY Inductive, <1>1, PTL

(* However replicas overlap and die, a row no poll looks at any more is in *)
(* the stream or has its dead letter.                                      *)
THEOREM NoRowDropped == Spec => []NothingDropped
<1>1. IInv => NothingDropped
  BY OutboxAssumption DEF IInv, OutboxInv, NothingDropped
<1> QED
  BY Inductive, <1>1, PTL

(* A message is acknowledged only when every copy of its milestone is      *)
(* recorded.                                                               *)
THEOREM AcksAreEarned == Spec => []AckedIsInvoiced
<1>1. IInv => AckedIsInvoiced
  BY DEF IInv, Behind, AckedIsInvoiced, Recorded, Copies
<1> QED
  BY Inductive, <1>1, PTL

(* The copies of a milestone share a number unless a download made one.    *)
THEOREM OneNumberEach == Spec => []ConsumerSharesNumber
<1>1. IInv => ConsumerSharesNumber
  BY DEF IInv, NumbersShared, ConsumerSharesNumber, Recorded
<1> QED
  BY Inductive, <1>1, PTL

(* No number exceeds the count of milestones invoiced, or by one if a      *)
(* download made a copy of its milestone.                                  *)
THEOREM NoGaps == Spec => []GapsOnlyByDownload
<1>1. IInv => GapsOnlyByDownload
  <2> SUFFICES ASSUME IInv, NEW m \in Invoiced, NEW a \in Recorded(m)
               PROVE  number[m][a] <= Cardinality(Invoiced) + IF m \in downloaded THEN 1 ELSE 0
    BY DEF GapsOnlyByDownload
  <2>1. m \in Milestones /\ a \in Copies /\ number[m][a] \in Nat
    BY DEF Invoiced, Recorded, IInv, Types
  <2> QED
    BY <2>1, InvoicedFinite DEF IInv, NumbersFit
<1> QED
  BY Inductive, <1>1, PTL
=============================================================================
