--------------------------- MODULE DocumentsProofs ---------------------------
(***************************************************************************)
(* Proofs about Documents, for any number of requests, any allowance and   *)
(* any cap.                                                                *)
(*                                                                         *)
(* The inductive invariant adds to the properties what a request carries   *)
(* between its statements: which version it read and whether it created    *)
(* the row (RequestsKnow), when there is content (Content), how far a      *)
(* request may still move the version (WithinCap), and what the row looks  *)
(* like while somebody generates (HeldAlone).                              *)
(***************************************************************************)
EXTENDS Documents, TLAPS

\* Steps at which no claim has been taken.
Outside == {"idle", "look", "insert", "takeOver", "reclaim", "advance", "recheck", "approve"}

\* What is kept of a request.
Request == [at : Steps, seen : Nat, created : BOOLEAN]

Cap == IF paid THEN MaxPaidVersion ELSE FreeGenerations

RequestsKnow ==
  \A c \in Callers :
    /\ call[c].at \in Outside => ~call[c].created
    /\ call[c].at \in {"reclaim", "advance", "recheck"} => call[c].seen >= 1
    /\ Holds(c) /\ ~call[c].created => call[c].seen >= 2

Content ==
  /\ version = 1 => marker = "none"
  /\ delivered > 0 => exists /\ version > ClaimVersion
  /\ exists /\ version > ClaimVersion => delivered > 0
  /\ status # "draft" \/ priced \/ ordered \/ paid => delivered > 0
  /\ \A c \in Callers : call[c].at = "approve" => delivered > 0

WithinCap ==
  /\ version <= Cap
  /\ \A c \in Callers :
       /\ call[c].at \in {"advance", "recheck"} => call[c].seen < Cap
       /\ call[c].at = "reclaim" => call[c].seen <= Cap
       /\ Holds(c) => Version(c) <= Cap

\* A request that generates holds the row: a recent marker at its version.
Standing(c) ==
  /\ exists
  /\ marker = "recent"
  /\ version = IF call[c].created THEN ClaimVersion ELSE call[c].seen

HeldAlone ==
  overtaken \/
    /\ \A c \in Callers : Holds(c) => Standing(c)
    /\ OneGenerationAtATime
    /\ ~exists => delivered = 0
    /\ OnlyClaimedSlotIsOwed

IInv == TypeOK /\ RequestsKnow /\ Content /\ WithinCap /\ HeldAlone

(* A request is the record it is declared to be.                           *)
LEMMA RequestTyped == TypeOK => call \in [Callers -> Request]
  BY DEF TypeOK, Request

(* Every statement keeps the types. *)
LEMMA TypeStep ==
  TypeOK /\ RequestsKnow /\ [Next]_vars => TypeOK'
<1> SUFFICES ASSUME TypeOK, RequestsKnow, [Next]_vars PROVE TypeOK'
  OBVIOUS
<1> USE ConstantsAssumption DEF TypeOK, Steps
<1>1. ASSUME NEW c \in Callers, AskDocument(c) PROVE TypeOK'
  BY <1>1 DEF AskDocument, Idle, GoesTo, Answer, row, sale, history
<1>2. ASSUME NEW c \in Callers, AskRevision(c) PROVE TypeOK'
  BY <1>2 DEF AskRevision, Idle, GoesTo, Answer, row, sale, history, GatePasses, ClaimVersion
<1>3. ASSUME NEW c \in Callers, ClaimGenerationReads(c) PROVE TypeOK'
  <2> DEFINE goes == IF ~exists THEN "insert"
                     ELSE IF version = ClaimVersion THEN "takeOver"
                     ELSE IF marker # "none" THEN "reclaim"
                     ELSE "advance"
  <2>1. \/ call' = [call EXCEPT ![c] = [call[c] EXCEPT !.seen = version, !.at = goes]]
        \/ call' = [call EXCEPT ![c] = Idle]
    BY <1>3 DEF ClaimGenerationReads, Answer
  <2>2. [call[c] EXCEPT !.seen = version, !.at = goes] \in Request /\ Idle \in Request
    BY RequestTyped DEF Request, Steps, Idle
  <2>3. call' \in [Callers -> Request]
    BY <2>1, <2>2, RequestTyped
  <2> QED
    BY <2>3, <1>3 DEF Request, ClaimGenerationReads, row, sale, history
<1>4. ASSUME NEW c \in Callers, ClaimRevisionReads(c) PROVE TypeOK'
  BY <1>4 DEF ClaimRevisionReads, Idle, GoesTo, Answer, row, sale, history
<1>5. ASSUME NEW c \in Callers, InsertClaim(c) PROVE TypeOK'
  <2>1. call' = [call EXCEPT ![c] = [call[c] EXCEPT !.at = "generate", !.created = TRUE]] \/ call' = [call EXCEPT ![c] = Idle]
    BY <1>5 DEF InsertClaim, Answer
  <2>2. [call[c] EXCEPT !.at = "generate", !.created = TRUE] \in Request /\ Idle \in Request
    BY RequestTyped DEF Request, Steps, Idle
  <2>3. call' \in [Callers -> Request]
    BY <2>1, <2>2, RequestTyped
  <2>4. CASE exists
    BY <2>3, <2>4, <1>5 DEF Request, InsertClaim, row, sale, history
  <2>5. CASE ~exists
    <3>1. version' \in Nat /\ marker' = "recent" /\ status' = "draft"
      BY <2>5, <1>5 DEF InsertClaim, ClaimVersion
    <3>2. exists' \in BOOLEAN /\ priced' \in BOOLEAN
      BY <2>5, <1>5 DEF InsertClaim
    <3>3. UNCHANGED <<ordered, paid, delivered, overtaken>>
      BY <1>5 DEF InsertClaim, sale, history
    <3> QED
      BY <3>1, <3>2, <3>3, <2>3 DEF Request
  <2> QED
    BY <2>4, <2>5
<1>6. ASSUME NEW c \in Callers, TakeOver(c) PROVE TypeOK'
  <2>1. call' = [call EXCEPT ![c] = [call[c] EXCEPT !.at = "generate", !.created = TRUE]] \/ call' = [call EXCEPT ![c] = Idle]
    BY <1>6 DEF TakeOver, Answer
  <2>2. [call[c] EXCEPT !.at = "generate", !.created = TRUE] \in Request /\ Idle \in Request
    BY RequestTyped DEF Request, Steps, Idle
  <2>3. call' \in [Callers -> Request]
    BY <2>1, <2>2, RequestTyped
  <2> QED
    BY <2>3, <1>6 DEF Request, TakeOver, sale, history
<1>7. ASSUME NEW c \in Callers, ReclaimAbandoned(c) PROVE TypeOK'
  <2>1. call' = [call EXCEPT ![c] = [call[c] EXCEPT !.at = "generate"]] \/ call' = [call EXCEPT ![c] = Idle]
    BY <1>7 DEF ReclaimAbandoned, GoesTo, Answer
  <2>2. [call[c] EXCEPT !.at = "generate"] \in Request /\ Idle \in Request
    BY RequestTyped DEF Request, Steps, Idle
  <2>3. call' \in [Callers -> Request]
    BY <2>1, <2>2, RequestTyped
  <2> QED
    BY <2>3, <1>7 DEF Request, ReclaimAbandoned, sale, history
<1>8. ASSUME NEW c \in Callers, Advance(c) PROVE TypeOK'
  <2> DEFINE next == [call[c] EXCEPT !.at = "generate", !.seen = call[c].seen + 1]
  <2>1. call[c] \in Request /\ call[c].seen + 1 \in Nat
    BY RequestTyped DEF Request
  <2>2. next \in Request
    BY <2>1 DEF Request, Steps
  <2>3. Idle \in Request
    BY DEF Request, Steps, Idle
  <2>4. call' = [call EXCEPT ![c] = next] \/ call' = [call EXCEPT ![c] = Idle]
    BY <1>8 DEF Advance, Answer
  <2> HIDE DEF next
  <2>5. call' \in [Callers -> Request]
    BY <2>2, <2>3, <2>4, RequestTyped
  <2> QED
    BY <2>1, <2>5, <1>8 DEF Request, Advance, sale
<1>9. ASSUME NEW c \in Callers, Generate(c) PROVE TypeOK'
  BY <1>9 DEF Generate, Idle, GoesTo, Answer, row, sale, history
<1>10. ASSUME NEW c \in Callers, StoreDocument(c) PROVE TypeOK'
  <2>1. call' = [call EXCEPT ![c] = Idle] /\ Idle \in Request
    BY <1>10 DEF StoreDocument, Answer, Request, Steps, Idle
  <2>2. call' \in [Callers -> Request]
    BY <2>1, RequestTyped
  <2>3. version' \in Nat /\ delivered' \in Nat
    BY <1>10, RequestTyped DEF StoreDocument, Version, Request
  <2>4. marker' \in {"none", "recent", "lapsed"} /\ status' \in {"draft", "review", "approved"}
    BY <1>10 DEF StoreDocument, Settled
  <2>5. priced' \in BOOLEAN
    BY <1>10 DEF StoreDocument
  <2>6. UNCHANGED <<exists, ordered, paid, overtaken>>
    BY <1>10 DEF StoreDocument, sale
  <2> QED
    BY <2>2, <2>3, <2>4, <2>5, <2>6 DEF Request
<1>11. ASSUME NEW c \in Callers, AbandonStore(c) PROVE TypeOK'
  BY <1>11 DEF AbandonStore, Idle, GoesTo, Answer, row, sale, history
<1>12. ASSUME NEW c \in Callers, ReleaseClaim(c) PROVE TypeOK'
  <2>1. call' = [call EXCEPT ![c] = Idle] /\ Idle \in Request
    BY <1>12 DEF ReleaseClaim, Answer, Request, Steps, Idle
  <2>2. call' \in [Callers -> Request]
    BY <2>1, RequestTyped
  <2>3. version' \in Nat
    BY <1>12, RequestTyped DEF ReleaseClaim, GivesBack, Version, StillAt, row, Request,
      RequestsKnow, Holds
  <2>4. marker' \in {"none", "recent", "lapsed"} /\ exists' \in BOOLEAN
    BY <1>12 DEF ReleaseClaim, row, Settled
  <2>5. status' \in {"draft", "review", "approved"} /\ priced' \in BOOLEAN
    BY <1>12 DEF ReleaseClaim, row
  <2> QED
    BY <2>2, <2>3, <2>4, <2>5, <1>12 DEF Request, ReleaseClaim, sale, history
<1>13. ASSUME NEW c \in Callers, Crash(c) PROVE TypeOK'
  BY <1>13 DEF Crash, Idle, GoesTo, Answer, row, sale, history
<1>14. ASSUME NEW c \in Callers, AskApproval(c) PROVE TypeOK'
  BY <1>14 DEF AskApproval, Idle, GoesTo, Answer, row, sale, history, InReview
<1>15. ASSUME NEW c \in Callers, Approve(c) PROVE TypeOK'
  BY <1>15 DEF Approve, Idle, GoesTo, Answer, row, sale, history
<1>16. CASE Lapse
  BY <1>16 DEF Lapse, row, sale, history, Holds
<1>17. CASE SettleDocument
  BY <1>17 DEF SettleDocument, row, sale, history
<1>c. CASE OpenCheckout
  BY <1>c DEF OpenCheckout, HasPrice, row, sale, history
<1>18. CASE UNCHANGED vars
  BY <1>18 DEF vars, row, sale, history
<1> QED
  BY <1>1, <1>2, <1>3, <1>4, <1>5, <1>6, <1>7, <1>8, <1>9, <1>10, <1>11, <1>12, <1>13, <1>14, <1>15, <1>16, <1>17, <1>c, <1>18 DEF Next, Claims

(* What a request knows stays true of it. *)
LEMMA RequestsStep ==
  TypeOK /\ RequestsKnow /\ Content /\ [Next]_vars => RequestsKnow'
<1> SUFFICES ASSUME TypeOK, RequestsKnow, Content, [Next]_vars PROVE RequestsKnow'
  OBVIOUS
<1> USE ConstantsAssumption DEF TypeOK, Steps, RequestsKnow, Content, Outside, Holds
<1>1. ASSUME NEW c \in Callers, AskDocument(c) PROVE RequestsKnow'
  BY <1>1 DEF AskDocument, Idle, GoesTo, Answer, row, sale, history
<1>2. ASSUME NEW c \in Callers, AskRevision(c) PROVE RequestsKnow'
  BY <1>2 DEF AskRevision, Idle, GoesTo, Answer, row, sale, history, GatePasses, ClaimVersion
<1>3. ASSUME NEW c \in Callers, ClaimGenerationReads(c) PROVE RequestsKnow'
  BY <1>3 DEF ClaimGenerationReads, Idle, GoesTo, Answer, row, sale, history, ClaimVersion
<1>4. ASSUME NEW c \in Callers, ClaimRevisionReads(c) PROVE RequestsKnow'
  BY <1>4 DEF ClaimRevisionReads, Idle, GoesTo, Answer, row, sale, history
<1>5. ASSUME NEW c \in Callers, InsertClaim(c) PROVE RequestsKnow'
  BY <1>5 DEF InsertClaim, Idle, GoesTo, Answer, row, sale, history, ClaimVersion
<1>6. ASSUME NEW c \in Callers, TakeOver(c) PROVE RequestsKnow'
  BY <1>6 DEF TakeOver, Idle, GoesTo, Answer, row, sale, history, ClaimVersion, Lapsed
<1>7. ASSUME NEW c \in Callers, ReclaimAbandoned(c) PROVE RequestsKnow'
  BY <1>7 DEF ReclaimAbandoned, Idle, GoesTo, Answer, row, sale, history, Lapsed
<1>8. ASSUME NEW c \in Callers, Advance(c) PROVE RequestsKnow'
  BY <1>8 DEF Advance, Idle, GoesTo, Answer, row, sale, history, StillAt
<1>9. ASSUME NEW c \in Callers, Generate(c) PROVE RequestsKnow'
  BY <1>9 DEF Generate, Idle, GoesTo, Answer, row, sale, history
<1>10. ASSUME NEW c \in Callers, StoreDocument(c) PROVE RequestsKnow'
  BY <1>10 DEF StoreDocument, Idle, GoesTo, Answer, row, sale, history, Version, Settled
<1>11. ASSUME NEW c \in Callers, AbandonStore(c) PROVE RequestsKnow'
  BY <1>11 DEF AbandonStore, Idle, GoesTo, Answer, row, sale, history
<1>12. ASSUME NEW c \in Callers, ReleaseClaim(c) PROVE RequestsKnow'
  BY <1>12 DEF ReleaseClaim, Idle, GoesTo, Answer, row, sale, history, StillAt, Version, GivesBack, Settled, ClaimVersion
<1>13. ASSUME NEW c \in Callers, Crash(c) PROVE RequestsKnow'
  BY <1>13 DEF Crash, Idle, GoesTo, Answer, row, sale, history
<1>14. ASSUME NEW c \in Callers, AskApproval(c) PROVE RequestsKnow'
  BY <1>14 DEF AskApproval, Idle, GoesTo, Answer, row, sale, history, InReview
<1>15. ASSUME NEW c \in Callers, Approve(c) PROVE RequestsKnow'
  BY <1>15 DEF Approve, Idle, GoesTo, Answer, row, sale, history
<1>16. CASE Lapse
  BY <1>16 DEF Lapse, row, sale, history, Holds
<1>17. CASE SettleDocument
  BY <1>17 DEF SettleDocument, row, sale, history
<1>c. CASE OpenCheckout
  BY <1>c DEF OpenCheckout, HasPrice, row, sale, history
<1>18. CASE UNCHANGED vars
  BY <1>18 DEF vars, row, sale, history
<1> QED
  BY <1>1, <1>2, <1>3, <1>4, <1>5, <1>6, <1>7, <1>8, <1>9, <1>10, <1>11, <1>12, <1>13, <1>14, <1>15, <1>16, <1>17, <1>c, <1>18 DEF Next, Claims

(* There is content exactly above the version of a reservation. *)
LEMMA ContentStep ==
  TypeOK /\ RequestsKnow /\ Content /\ [Next]_vars => Content'
<1> SUFFICES ASSUME TypeOK, RequestsKnow, Content, [Next]_vars PROVE Content'
  OBVIOUS
<1> USE ConstantsAssumption DEF TypeOK, Steps, RequestsKnow, Content, Outside, Holds, ClaimVersion
<1>1. ASSUME NEW c \in Callers, AskDocument(c) PROVE Content'
  BY <1>1 DEF AskDocument, Idle, GoesTo, Answer, row, sale, history
<1>2. ASSUME NEW c \in Callers, AskRevision(c) PROVE Content'
  BY <1>2 DEF AskRevision, Idle, GoesTo, Answer, row, sale, history, GatePasses, ClaimVersion
<1>3. ASSUME NEW c \in Callers, ClaimGenerationReads(c) PROVE Content'
  BY <1>3 DEF ClaimGenerationReads, Idle, GoesTo, Answer, row, sale, history, ClaimVersion
<1>4. ASSUME NEW c \in Callers, ClaimRevisionReads(c) PROVE Content'
  BY <1>4 DEF ClaimRevisionReads, Idle, GoesTo, Answer, row, sale, history
<1>5. ASSUME NEW c \in Callers, InsertClaim(c) PROVE Content'
  BY <1>5 DEF InsertClaim, Idle, GoesTo, Answer, row, sale, history, ClaimVersion
<1>6. ASSUME NEW c \in Callers, TakeOver(c) PROVE Content'
  BY <1>6 DEF TakeOver, Idle, GoesTo, Answer, row, sale, history, ClaimVersion, Lapsed
<1>7. ASSUME NEW c \in Callers, ReclaimAbandoned(c) PROVE Content'
  BY <1>7 DEF ReclaimAbandoned, Idle, GoesTo, Answer, row, sale, history, Lapsed
<1>8. ASSUME NEW c \in Callers, Advance(c) PROVE Content'
  BY <1>8 DEF Advance, Idle, GoesTo, Answer, row, sale, history, StillAt
<1>9. ASSUME NEW c \in Callers, Generate(c) PROVE Content'
  BY <1>9 DEF Generate, Idle, GoesTo, Answer, row, sale, history
<1>10. ASSUME NEW c \in Callers, StoreDocument(c) PROVE Content'
  BY <1>10 DEF StoreDocument, Idle, GoesTo, Answer, row, sale, history, Version, Settled
<1>11. ASSUME NEW c \in Callers, AbandonStore(c) PROVE Content'
  BY <1>11 DEF AbandonStore, Idle, GoesTo, Answer, row, sale, history
<1>12. ASSUME NEW c \in Callers, ReleaseClaim(c) PROVE Content'
  BY <1>12 DEF ReleaseClaim, Idle, GoesTo, Answer, row, sale, history, StillAt, Version, GivesBack, Settled, ClaimVersion
<1>13. ASSUME NEW c \in Callers, Crash(c) PROVE Content'
  BY <1>13 DEF Crash, Idle, GoesTo, Answer, row, sale, history
<1>14. ASSUME NEW c \in Callers, AskApproval(c) PROVE Content'
  BY <1>14 DEF AskApproval, Idle, GoesTo, Answer, row, sale, history, InReview
<1>15. ASSUME NEW c \in Callers, Approve(c) PROVE Content'
  BY <1>15 DEF Approve, Idle, GoesTo, Answer, row, sale, history
<1>16. CASE Lapse
  BY <1>16 DEF Lapse, row, sale, history, Holds
<1>17. CASE SettleDocument
  BY <1>17 DEF SettleDocument, row, sale, history
<1>c. CASE OpenCheckout
  BY <1>c DEF OpenCheckout, HasPrice, row, sale, history
<1>18. CASE UNCHANGED vars
  BY <1>18 DEF vars, row, sale, history
<1> QED
  BY <1>1, <1>2, <1>3, <1>4, <1>5, <1>6, <1>7, <1>8, <1>9, <1>10, <1>11, <1>12, <1>13, <1>14, <1>15, <1>16, <1>17, <1>c, <1>18 DEF Next, Claims

(* No request moves the version past the cap. *)
LEMMA CapStep ==
  TypeOK /\ RequestsKnow /\ WithinCap /\ [Next]_vars => WithinCap'
<1> SUFFICES ASSUME TypeOK, RequestsKnow, WithinCap, [Next]_vars PROVE WithinCap'
  OBVIOUS
<1> USE ConstantsAssumption DEF TypeOK, Steps, RequestsKnow, WithinCap, Cap, Outside, Holds, Version
<1>1. ASSUME NEW c \in Callers, AskDocument(c) PROVE WithinCap'
  BY <1>1 DEF AskDocument, Idle, GoesTo, Answer, row, sale, history
<1>2. ASSUME NEW c \in Callers, AskRevision(c) PROVE WithinCap'
  BY <1>2 DEF AskRevision, Idle, GoesTo, Answer, row, sale, history, GatePasses, ClaimVersion
<1>3. ASSUME NEW c \in Callers, ClaimGenerationReads(c) PROVE WithinCap'
  BY <1>3 DEF ClaimGenerationReads, Idle, GoesTo, Answer, row, sale, history, ClaimVersion
<1>4. ASSUME NEW c \in Callers, ClaimRevisionReads(c) PROVE WithinCap'
  BY <1>4 DEF ClaimRevisionReads, Idle, GoesTo, Answer, row, sale, history
<1>5. ASSUME NEW c \in Callers, InsertClaim(c) PROVE WithinCap'
  BY <1>5 DEF InsertClaim, Idle, GoesTo, Answer, row, sale, history, ClaimVersion
<1>6. ASSUME NEW c \in Callers, TakeOver(c) PROVE WithinCap'
  BY <1>6 DEF TakeOver, Idle, GoesTo, Answer, row, sale, history, ClaimVersion, Lapsed
<1>7. ASSUME NEW c \in Callers, ReclaimAbandoned(c) PROVE WithinCap'
  BY <1>7 DEF ReclaimAbandoned, Idle, GoesTo, Answer, row, sale, history, Lapsed
<1>8. ASSUME NEW c \in Callers, Advance(c) PROVE WithinCap'
  BY <1>8 DEF Advance, Idle, GoesTo, Answer, row, sale, history, StillAt
<1>9. ASSUME NEW c \in Callers, Generate(c) PROVE WithinCap'
  BY <1>9 DEF Generate, Idle, GoesTo, Answer, row, sale, history
<1>10. ASSUME NEW c \in Callers, StoreDocument(c) PROVE WithinCap'
  BY <1>10 DEF StoreDocument, Idle, GoesTo, Answer, row, sale, history, Version, Settled
<1>11. ASSUME NEW c \in Callers, AbandonStore(c) PROVE WithinCap'
  BY <1>11 DEF AbandonStore, Idle, GoesTo, Answer, row, sale, history
<1>12. ASSUME NEW c \in Callers, ReleaseClaim(c) PROVE WithinCap'
  BY <1>12 DEF ReleaseClaim, Idle, GoesTo, Answer, row, sale, history, StillAt, Version, GivesBack, Settled, ClaimVersion
<1>13. ASSUME NEW c \in Callers, Crash(c) PROVE WithinCap'
  BY <1>13 DEF Crash, Idle, GoesTo, Answer, row, sale, history
<1>14. ASSUME NEW c \in Callers, AskApproval(c) PROVE WithinCap'
  BY <1>14 DEF AskApproval, Idle, GoesTo, Answer, row, sale, history, InReview
<1>15. ASSUME NEW c \in Callers, Approve(c) PROVE WithinCap'
  BY <1>15 DEF Approve, Idle, GoesTo, Answer, row, sale, history
<1>16. CASE Lapse
  BY <1>16 DEF Lapse, row, sale, history, Holds
<1>17. CASE SettleDocument
  BY <1>17 DEF SettleDocument, row, sale, history
<1>c. CASE OpenCheckout
  BY <1>c DEF OpenCheckout, HasPrice, row, sale, history
<1>18. CASE UNCHANGED vars
  BY <1>18 DEF vars, row, sale, history
<1> QED
  BY <1>1, <1>2, <1>3, <1>4, <1>5, <1>6, <1>7, <1>8, <1>9, <1>10, <1>11, <1>12, <1>13, <1>14, <1>15, <1>16, <1>17, <1>c, <1>18 DEF Next, Claims

(* Until a claim is overtaken, one request generates, on a row it holds. *)
LEMMA HeldStep ==
  TypeOK /\ RequestsKnow /\ Content /\ HeldAlone /\ [Next]_vars => HeldAlone'
<1> SUFFICES ASSUME TypeOK, RequestsKnow, Content, HeldAlone, [Next]_vars PROVE HeldAlone'
  OBVIOUS
<1> USE ConstantsAssumption DEF TypeOK, Steps, RequestsKnow, Content, HeldAlone, Standing, OneGenerationAtATime, OnlyClaimedSlotIsOwed, Outside, Holds, ClaimVersion, Version
<1>1. ASSUME NEW c \in Callers, AskDocument(c) PROVE HeldAlone'
  BY <1>1 DEF AskDocument, Idle, GoesTo, Answer, row, sale, history
<1>2. ASSUME NEW c \in Callers, AskRevision(c) PROVE HeldAlone'
  BY <1>2 DEF AskRevision, Idle, GoesTo, Answer, row, sale, history, GatePasses, ClaimVersion
<1>3. ASSUME NEW c \in Callers, ClaimGenerationReads(c) PROVE HeldAlone'
  BY <1>3 DEF ClaimGenerationReads, Idle, GoesTo, Answer, row, sale, history, ClaimVersion
<1>4. ASSUME NEW c \in Callers, ClaimRevisionReads(c) PROVE HeldAlone'
  BY <1>4 DEF ClaimRevisionReads, Idle, GoesTo, Answer, row, sale, history
<1>5. ASSUME NEW c \in Callers, InsertClaim(c) PROVE HeldAlone'
  BY <1>5 DEF InsertClaim, Idle, GoesTo, Answer, row, sale, history, ClaimVersion
<1>6. ASSUME NEW c \in Callers, TakeOver(c) PROVE HeldAlone'
  BY <1>6 DEF TakeOver, Idle, GoesTo, Answer, row, sale, history, ClaimVersion, Lapsed
<1>7. ASSUME NEW c \in Callers, ReclaimAbandoned(c) PROVE HeldAlone'
  BY <1>7 DEF ReclaimAbandoned, Idle, GoesTo, Answer, row, sale, history, Lapsed
<1>8. ASSUME NEW c \in Callers, Advance(c) PROVE HeldAlone'
  BY <1>8 DEF Advance, Idle, GoesTo, Answer, row, sale, history, StillAt
<1>9. ASSUME NEW c \in Callers, Generate(c) PROVE HeldAlone'
  BY <1>9 DEF Generate, Idle, GoesTo, Answer, row, sale, history
<1>10. ASSUME NEW c \in Callers, StoreDocument(c) PROVE HeldAlone'
  BY <1>10 DEF StoreDocument, Idle, GoesTo, Answer, row, sale, history, Version, Settled
<1>11. ASSUME NEW c \in Callers, AbandonStore(c) PROVE HeldAlone'
  BY <1>11 DEF AbandonStore, Idle, GoesTo, Answer, row, sale, history
<1>12. ASSUME NEW c \in Callers, ReleaseClaim(c) PROVE HeldAlone'
  BY <1>12 DEF ReleaseClaim, Idle, GoesTo, Answer, row, sale, history, StillAt, Version, GivesBack, Settled, ClaimVersion
<1>13. ASSUME NEW c \in Callers, Crash(c) PROVE HeldAlone'
  BY <1>13 DEF Crash, Idle, GoesTo, Answer, row, sale, history
<1>14. ASSUME NEW c \in Callers, AskApproval(c) PROVE HeldAlone'
  BY <1>14 DEF AskApproval, Idle, GoesTo, Answer, row, sale, history, InReview
<1>15. ASSUME NEW c \in Callers, Approve(c) PROVE HeldAlone'
  BY <1>15 DEF Approve, Idle, GoesTo, Answer, row, sale, history
<1>16. CASE Lapse
  BY <1>16 DEF Lapse, row, sale, history, Holds
<1>17. CASE SettleDocument
  BY <1>17 DEF SettleDocument, row, sale, history
<1>c. CASE OpenCheckout
  BY <1>c DEF OpenCheckout, HasPrice, row, sale, history
<1>18. CASE UNCHANGED vars
  BY <1>18 DEF vars, row, sale, history
<1> QED
  BY <1>1, <1>2, <1>3, <1>4, <1>5, <1>6, <1>7, <1>8, <1>9, <1>10, <1>11, <1>12, <1>13, <1>14, <1>15, <1>16, <1>17, <1>c, <1>18 DEF Next, Claims

LEMMA InitInv == Init => IInv
<1> SUFFICES ASSUME Init PROVE IInv
  OBVIOUS
<1>1. TypeOK
  <2>1. Idle \in Request
    BY DEF Idle, Request, Steps
  <2>2. call \in [Callers -> Request]
    BY <2>1 DEF Init
  <2> QED
    BY <2>2 DEF Init, TypeOK, Request, ClaimVersion
<1>2. RequestsKnow /\ Content
  BY DEF Init, RequestsKnow, Content, Idle, Outside, Holds, ClaimVersion
<1>3. WithinCap
  BY ConstantsAssumption DEF Init, WithinCap, Cap, Idle, Holds, ClaimVersion
<1>4. HeldAlone
  BY DEF Init, HeldAlone, OneGenerationAtATime, OnlyClaimedSlotIsOwed, Idle, Holds, ClaimVersion
<1> QED
  BY <1>1, <1>2, <1>3, <1>4 DEF IInv

THEOREM Inductive == Spec => []IInv
<1>1. IInv /\ [Next]_vars => IInv'
  BY TypeStep, RequestsStep, ContentStep, CapStep, HeldStep DEF IInv
<1> QED
  BY InitInv, <1>1, PTL DEF Spec

(* The row, its counters and every request are always of their types.      *)
THEOREM TypeCorrect == Spec => []TypeOK
<1>1. IInv => TypeOK
  BY DEF IInv
<1> QED
  BY Inductive, <1>1, PTL

(* A reservation is never approved or sold.                                *)
THEOREM ApprovalsHaveContent == Spec => []ApprovedHasContent
<1>1. IInv => ApprovedHasContent
  BY DEF IInv, Content, ApprovedHasContent, TypeOK
<1> QED
  BY Inductive, <1>1, PTL

(* However generations, revisions, releases and the payment interleave,    *)
(* the version stays within the allowance unpaid and within the cap paid.  *)
THEOREM CapHolds == Spec => []VersionWithinCap
<1>1. IInv => VersionWithinCap
  BY DEF IInv, WithinCap, Cap, VersionWithinCap
<1> QED
  BY Inductive, <1>1, PTL

(* As long as no revision overtook a claim it did not see, one request at  *)
(* a time generates.                                                       *)
THEOREM OneGeneration == Spec => []OneGenerationUnlessOvertaken
<1>1. IInv => OneGenerationUnlessOvertaken
  BY DEF IInv, HeldAlone, OneGenerationUnlessOvertaken
<1> QED
  BY Inductive, <1>1, PTL

(* As long as no revision overtook a claim, the version counts the         *)
(* documents the owner received, and the one more whose claim stands.      *)
THEOREM SlotsCount == Spec => []OnlyClaimedSlotIsOwed
<1>1. IInv => OnlyClaimedSlotIsOwed
  BY DEF IInv, HeldAlone, OnlyClaimedSlotIsOwed
<1> QED
  BY Inductive, <1>1, PTL
=============================================================================
