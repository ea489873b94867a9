------------------------------ MODULE Invoicing ------------------------------
(***************************************************************************)
(* From the approval of a milestone to its three invoice copies: the row   *)
(* the approval leaves in the outbox, its publication, the durable consumer*)
(* project-invoice-generator, and the download route that makes a missing  *)
(* copy on the spot.  Messages are handled concurrently, and JetStream     *)
(* delivers one again when its ack is late.                                *)
(***************************************************************************)
EXTENDS Outbox, Sequences

CONSTANTS
  Handlers,    \* deliveries and downloads served at the same time
  MaxDeliver,  \* max_deliver of the consumer
  Audiences,   \* in the order the consumer makes the copies
  Readers      \* places in that order of the audiences that download

ASSUME ConsumerAssumption ==
  /\ MaxDeliver \in Nat \ {0}
  /\ Len(Audiences) \in Nat \ {0} /\ DOMAIN Audiences = 1..Len(Audiences)
  /\ Readers \subseteq DOMAIN Audiences

Milestones == Events   \* one milestone.invoice_requested each, of one project

Copies == {Audiences[i] : i \in DOMAIN Audiences}

VARIABLES
  deliveries,  \* [Milestones -> deliveries of its message so far]
  acked,       \* messages acknowledged
  number,      \* [Milestones -> [Copies -> number of the recorded copy, or 0]]
  handler,     \* [Handlers -> what it is doing]
  downloaded   \* history: milestones of which a download recorded a copy

invoiceVars == <<deliveries, acked, number, handler, downloaded>>
vars == <<outboxVars, invoiceVars>>

Free == [at |-> "idle", milestone |-> NoEvent, turn |-> 1, download |-> FALSE, number |-> 0]

Init ==
  /\ OutboxInit
  /\ deliveries = [m \in Milestones |-> 0]
  /\ acked = {}
  /\ number = [m \in Milestones |-> [a \in Copies |-> 0]]
  /\ handler = [h \in Handlers |-> Free]
  /\ downloaded = {}

Recorded(m) == {a \in Copies : number[m][a] # 0}
Invoiced == {m \in Milestones : Recorded(m) # {}}

Quits(h) == handler' = [handler EXCEPT ![h] = Free]
Audience(h) == Audiences[handler[h].turn]

(* JetStream delivers the message: the first time, after a nak, or because *)
(* the handler at work on it has not answered within ack_wait.             *)
Deliver(h, m) ==
  /\ handler[h].at = "idle"
  /\ m \in stream /\ m \notin acked
  /\ deliveries[m] < MaxDeliver
  /\ deliveries' = [deliveries EXCEPT ![m] = @ + 1]
  /\ handler' = [handler EXCEPT ![h] = [Free EXCEPT !.at = "make", !.milestone = m]]
  /\ UNCHANGED <<outboxVars, acked, number, downloaded>>

\* MUTANT: every copy counts the milestones anew.
CountAnew(m, i, byDownload) ==
  {[at |-> "count", milestone |-> m, turn |-> i, download |-> byDownload, number |-> 0]}

(* invoiceNumberForMilestone, the first query: the number of a copy of the *)
(* milestone is reused; if there is none, the milestones are to be counted.*)
LookUp(m, i, byDownload) ==
  LET At(step, n) ==
        [at |-> step, milestone |-> m, turn |-> i, download |-> byDownload, number |-> n]
  IN  IF m \in Invoiced THEN {At("record", number[m][a]) : a \in Recorded(m)}
      ELSE {At("count", 0)}

\* MUTANT: the number counts copies, not milestones.
OneMoreThanRows == Cardinality({c \in Milestones \X Copies : number[c[1]][c[2]] # 0}) + 1

OneMoreThanInvoiced == Cardinality(Invoiced) + 1

\* MUTANT: the loop over the audiences ends one short.
MoreCopiesButLast(h) == ~handler[h].download /\ handler[h].turn < Len(Audiences) - 1

MoreCopies(h) == ~handler[h].download /\ handler[h].turn < Len(Audiences)

(* After a copy: the next audience; after the last the ack, which may be   *)
(* lost; a download has its answer.                                        *)
Onwards(h) ==
  IF MoreCopies(h)
  THEN /\ handler' = [handler EXCEPT ![h].at = "make", ![h].turn = @ + 1, ![h].number = 0]
       /\ UNCHANGED acked
  ELSE /\ Quits(h)
       /\ \/ UNCHANGED acked
          \/ ~handler[h].download /\ acked' = acked \cup {handler[h].milestone}

(* generateInvoice in a delivery: the copy there is, or the first query    *)
(* for its number.  The code looks for the copy a moment before that query;*)
(* if one is recorded in between, the insert refuses this one.             *)
Make(h) ==
  /\ handler[h].at = "make"
  /\ LET m == handler[h].milestone
     IN  \/ number[m][Audience(h)] # 0 /\ Onwards(h)
         \/ /\ number[m][Audience(h)] = 0
            /\ \E next \in LookUp(m, handler[h].turn, FALSE) :
                 handler' = [handler EXCEPT ![h] = next]
            /\ UNCHANGED acked
  /\ UNCHANGED <<outboxVars, deliveries, number, downloaded>>

(* GET invoices/<milestone>.pdf by whom a copy is for; streamPdf makes it  *)
(* if it is missing.                                                       *)
Download(h, m, i) ==
  /\ handler[h].at = "idle"
  /\ number[m][Audiences[i]] = 0
  /\ \E next \in LookUp(m, i, TRUE) : handler' = [handler EXCEPT ![h] = next]
  /\ UNCHANGED <<outboxVars, deliveries, acked, number, downloaded>>

(* The second query, in no transaction with the first: one more than the   *)
(* milestones invoiced by now, this one perhaps among them.                *)
Count(h) ==
  /\ handler[h].at = "count"
  /\ handler' = [handler EXCEPT ![h].at = "record", ![h].number = OneMoreThanInvoiced]
  /\ UNCHANGED <<outboxVars, deliveries, acked, number, downloaded>>

(* recordInvoice: the unique (milestone, audience) refuses a second copy,  *)
(* and the delivery is given back.                                         *)
Record(h) ==
  /\ handler[h].at = "record"
  /\ LET m == handler[h].milestone
         a == Audience(h)
     IN  IF number[m][a] # 0
         THEN Quits(h) /\ UNCHANGED <<acked, number, downloaded>>
         ELSE /\ number' = [number EXCEPT ![m][a] = handler[h].number]
              /\ downloaded' = IF handler[h].download THEN downloaded \cup {m} ELSE downloaded
              /\ Onwards(h)
  /\ UNCHANGED <<outboxVars, deliveries>>

(* A query, the rendering or the upload fails, or the process dies.        *)
HandlerFails(h) ==
  /\ handler[h].at # "idle"
  /\ Quits(h)
  /\ UNCHANGED <<outboxVars, deliveries, acked, number, downloaded>>

Handle(h) ==
  \/ \E m \in Milestones : Deliver(h, m)
  \/ \E m \in Milestones, i \in Readers : Download(h, m, i)
  \/ Make(h) \/ Count(h) \/ Record(h) \/ HandlerFails(h)

Next ==
  \/ \E e \in Events : AppendEvent(e) /\ UNCHANGED invoiceVars
  \/ \E w \in Workers : WorkerNext(w) /\ UNCHANGED invoiceVars
  \/ \E h \in Handlers : Handle(h)

Spec == Init /\ [][Next]_vars

-----------------------------------------------------------------------------
(* PROPERTIES                                                              *)

TypeOK ==
  /\ OutboxTypeOK
  /\ deliveries \in [Milestones -> 0..MaxDeliver]
  /\ acked \subseteq stream
  /\ number \in [Milestones -> [Copies -> Nat]]
  /\ handler \in [Handlers -> [at : {"idle", "make", "count", "record"},
                               milestone : Milestones \cup {NoEvent},
                               turn : 1..Len(Audiences), download : BOOLEAN,
                               number : Nat]]
  /\ downloaded \subseteq Milestones

(* A message is acknowledged only when all three copies are there, however *)
(* its deliveries overlap and whoever made the copies.                     *)
AckedIsInvoiced == \A m \in acked : Recorded(m) = Copies

(* "All three copies share one invoice number": they do as long as the     *)
(* consumer makes them.  A delivery that overlaps the one it repeats, with *)
(* other milestones invoiced in between, cannot split the number; a        *)
(* download can.                                                           *)
ConsumerSharesNumber ==
  \A m \in Milestones \ downloaded : \A a, b \in Recorded(m) : number[m][a] = number[m][b]

(* Numbers leave no gap, a failed delivery burns none: a milestone's is at *)
(* most the count of milestones invoiced.  Only a download can skip one,   *)
(* when its milestone is invoiced between its two queries, and no more     *)
(* than one.                                                               *)
GapsOnlyByDownload ==
  \A m \in Invoiced : \A a \in Recorded(m) :
    number[m][a] <= Cardinality(Invoiced) + IF m \in downloaded THEN 1 ELSE 0
=============================================================================
