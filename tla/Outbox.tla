------------------------------- MODULE Outbox -------------------------------
(***************************************************************************)
(* The outbox of project-service: rows that committed with the change they *)
(* announce, and the poll loops of its replicas, which publish each row to *)
(* JetStream under a row lock and count the failures of the ones they could *)
(* not publish.  JetStream drops a second copy with the same message id.   *)
(***************************************************************************)
EXTENDS Integers, FiniteSets

CONSTANTS
  Events,      \* ids of outbox rows
  Workers,     \* replicas that poll
  MaxRetries,  \* failed publishes before a row is dead lettered
  Backlog,     \* rows published before we look
  NoEvent

ASSUME OutboxAssumption ==
  /\ IsFiniteSet(Events) /\ IsFiniteSet(Workers)
  /\ MaxRetries \in Nat \ {0}
  /\ Backlog \subseteq Events
  /\ NoEvent \notin Events

VARIABLES
  appended,   \* rows there are
  published,  \* rows marked published
  retries,    \* [Events -> retry_count]
  dead,       \* rows with a dead letter
  stream,     \* messages JetStream holds
  worker      \* [Workers -> what the replica is doing]

outboxVars == <<appended, published, retries, dead, stream, worker>>

Resting == [at |-> "idle", event |-> NoEvent, seen |-> 0]

OutboxInit ==
  /\ appended = Backlog
  /\ published = Backlog
  /\ retries = [e \in Events |-> 0]
  /\ dead = {}
  /\ stream = Backlog
  /\ worker = [w \in Workers |-> Resting]

\* FOR UPDATE: the row is held for as long as the transaction lasts.
Locked(e) == \E w \in Workers : worker[w].at \in {"publish", "mark"} /\ worker[w].event = e

WorkerRests(w) == worker' = [worker EXCEPT ![w] = Resting]
WorkerGoesTo(w, step) == worker' = [worker EXCEPT ![w].at = step]

(* appendOutboxEvent, in the transaction that makes the event true.        *)
AppendEvent(e) ==
  /\ e \notin appended
  /\ appended' = appended \cup {e}
  /\ UNCHANGED <<published, retries, dead, stream, worker>>

(* What the claim checks again under its lock; a locked row is skipped.    *)
Claimable(e) ==
  e \in appended /\ e \notin published /\ retries[e] < MaxRetries /\ ~Locked(e)

(* pollPass takes its candidates without a lock, claimAndPublish one by    *)
(* one with it.                                                            *)
Claim(w, e) ==
  /\ worker[w].at = "idle"
  /\ Claimable(e)
  /\ worker' = [worker EXCEPT ![w] = [at |-> "publish", event |-> e, seen |-> retries[e]]]
  /\ UNCHANGED <<appended, published, retries, dead, stream>>

(* JetStream accepts the message, refuses it, or accepts it unheard.  A    *)
(* failure rolls the claim back, and with it goes the lock.                *)
Publish(w) ==
  /\ worker[w].at = "publish"
  /\ \/ stream' = stream \cup {worker[w].event} /\ WorkerGoesTo(w, "mark")
     \/ stream' \in {stream, stream \cup {worker[w].event}} /\ WorkerGoesTo(w, "failed")
  /\ UNCHANGED <<appended, published, retries, dead>>

(* The mark commits, or the commit fails and the claim with it.            *)
MarkPublished(w) ==
  /\ worker[w].at = "mark"
  /\ \/ published' = published \cup {worker[w].event} /\ WorkerRests(w)
     \/ WorkerGoesTo(w, "failed") /\ UNCHANGED published
  /\ UNCHANGED <<appended, retries, dead, stream>>

\* MUTANT: the dead letter is left to the attempt after the last.
BeyondBudget(count) == count > MaxRetries

BudgetSpent(count) == count >= MaxRetries

(* recordFailure, without the lock and from the count the claim read.      *)
RecordFailure(w) ==
  /\ worker[w].at = "failed"
  /\ LET e == worker[w].event
         count == worker[w].seen + 1
     IN  /\ retries' = [retries EXCEPT ![e] = count]
         /\ dead' = IF BudgetSpent(count) THEN dead \cup {e} ELSE dead
  /\ WorkerRests(w)
  /\ UNCHANGED <<appended, published, stream>>

WorkerDies(w) ==
  /\ worker[w].at # "idle"
  /\ WorkerRests(w)
  /\ UNCHANGED <<appended, published, retries, dead, stream>>

WorkerNext(w) ==
  \/ \E e \in Events : Claim(w, e)
  \/ Publish(w) \/ MarkPublished(w) \/ RecordFailure(w) \/ WorkerDies(w)

-----------------------------------------------------------------------------
(* PROPERTIES                                                              *)

OutboxTypeOK ==
  /\ appended \subseteq Events
  /\ published \subseteq appended
  /\ retries \in [Events -> 0..MaxRetries]
  /\ dead \subseteq appended
  /\ stream \subseteq appended
  /\ worker \in [Workers -> [at : {"idle", "publish", "mark", "failed"},
                             event : Events \cup {NoEvent}, seen : 0..MaxRetries]]

(* An event is never dropped without a trace, however replicas overlap and *)
(* die: a row no poll looks at any more is in the stream or dead lettered. *)
NothingDropped ==
  \A e \in appended :
    ~(e \notin published /\ retries[e] < MaxRetries) => e \in stream \cup dead
=============================================================================
