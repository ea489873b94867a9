------------------------------ MODULE Documents ------------------------------
(***************************************************************************)
(* The BRD (or the PRD) of one project: the free-generation slots a model  *)
(* call spends, the claim that reserves one before the call, revisions,    *)
(* approval, checkout and payment.  Every handler is a sequence of         *)
(* statements on a pool, with a model call of up to a minute in between.   *)
(***************************************************************************)
EXTENDS Integers, FiniteSets

CONSTANTS
  Callers,          \* requests in flight at the same time
  FreeGenerations,  \* FREE_BRD_GENERATIONS, FREE_PRD_GENERATIONS
  MaxPaidVersion    \* MAX_PAID_DOC_VERSION

ASSUME ConstantsAssumption ==
  /\ IsFiniteSet(Callers) /\ Callers # {}
  /\ FreeGenerations \in Nat \ {0}
  /\ MaxPaidVersion \in Nat /\ MaxPaidVersion >= FreeGenerations

ClaimVersion == 0   \* CLAIM_VERSION: a reservation, and no document yet

VARIABLES
  exists,     \* the row of this project is there
  version,    \* its version
  marker,     \* generation_claimed_at: none, recent, or past CLAIM_TTL_MS
  status,     \* draft, review, approved
  priced,     \* its price is more than 0
  ordered,    \* a checkout of the document has been opened
  paid,       \* paid_at is set
  delivered,  \* documents stored so far (history)
  overtaken,  \* a claim took the version of another that was standing (history)
  call        \* [Callers -> the request's next step and what it holds]

vars == <<exists, version, marker, status, priced, ordered, paid, delivered, overtaken, call>>
row == <<exists, version, marker, status, priced>>
sale == <<ordered, paid>>
history == <<delivered, overtaken>>

Idle == [at |-> "idle", seen |-> 0, created |-> FALSE]

Steps == {"idle", "look", "insert", "takeOver", "reclaim", "advance",
          "recheck", "generate", "store", "release", "approve"}

\* Between its claim and the end of its generation.
Holds(c) == call[c].at \in {"generate", "store", "release"}

Init ==
  /\ exists = FALSE
  /\ version = ClaimVersion
  /\ marker = "none"
  /\ status = "draft"
  /\ priced = FALSE
  /\ ordered = FALSE
  /\ paid = FALSE
  /\ delivered = 0
  /\ overtaken = FALSE
  /\ call = [c \in Callers |-> Idle]

GoesTo(c, step) == call' = [call EXCEPT ![c].at = step]
Answer(c) == call' = [call EXCEPT ![c] = Idle]

-----------------------------------------------------------------------------
(* WHO MAY GENERATE                                                        *)

(* POST generate-brd, generate-prd: an allowance spent is refused at once. *)
AskDocument(c) ==
  /\ call[c].at = "idle"
  /\ ~(exists /\ version >= FreeGenerations)
  /\ GoesTo(c, "look")
  /\ UNCHANGED <<row, sale, history>>

\* MUTANT: the gate counts one round too few.
GatePassesAtCap == version <= (IF paid THEN MaxPaidVersion ELSE FreeGenerations)

(* revisionGate                                                            *)
GatePasses == version < (IF paid THEN MaxPaidVersion ELSE FreeGenerations)

(* POST brd/revision, prd/revision: the gate is read now.                  *)
AskRevision(c) ==
  /\ call[c].at = "idle"
  /\ exists /\ version > ClaimVersion
  /\ GatePasses
  /\ call' = [call EXCEPT ![c] = [Idle EXCEPT !.at = "recheck", !.seen = version]]
  /\ UNCHANGED <<row, sale, history>>

(* The read of claimGeneration, which decides how the slot is taken.       *)
ClaimGenerationReads(c) ==
  /\ call[c].at = "look"
  /\ IF exists /\ marker = "none" /\ version >= FreeGenerations
     THEN Answer(c)
     ELSE call' = [call EXCEPT ![c].seen = version,
            ![c].at = IF ~exists THEN "insert"
                      ELSE IF version = ClaimVersion THEN "takeOver"
                      ELSE IF marker # "none" THEN "reclaim"
                      ELSE "advance"]
  /\ UNCHANGED <<row, sale, history>>

(* The read of claimRevision, of the marker at the version the gate saw.   *)
ClaimRevisionReads(c) ==
  /\ call[c].at = "recheck"
  /\ GoesTo(c, IF version = call[c].seen /\ marker # "none" THEN "reclaim" ELSE "advance")
  /\ UNCHANGED <<row, sale, history>>

-----------------------------------------------------------------------------
(* THE CLAIM, one conditional statement each; who loses is refused         *)

(* The unique project_id lets one of two first generations create the row. *)
InsertClaim(c) ==
  /\ call[c].at = "insert"
  /\ IF exists
     THEN Answer(c) /\ UNCHANGED row
     ELSE /\ exists' = TRUE /\ version' = ClaimVersion /\ marker' = "recent"
          /\ status' = "draft" /\ priced' = FALSE
          /\ call' = [call EXCEPT ![c].at = "generate", ![c].created = TRUE]
  /\ UNCHANGED <<sale, history>>

\* MUTANT: an abandoned claim is not told from a running one.
LapsedOrNot == marker # "none"

(* The claim is older than any generation behind it can be running.        *)
Lapsed == marker = "lapsed"

(* A first generation whose process was killed is taken over.              *)
TakeOver(c) ==
  /\ call[c].at = "takeOver"
  /\ IF exists /\ version = ClaimVersion /\ Lapsed
     THEN /\ marker' = "recent"
          /\ call' = [call EXCEPT ![c].at = "generate", ![c].created = TRUE]
     ELSE Answer(c) /\ UNCHANGED marker
  /\ UNCHANGED <<exists, version, status, priced, sale, history>>

(* reclaimAbandoned: the version was taken by a call that is gone, so the  *)
(* slot is still the owner's and the version stays.                        *)
ReclaimAbandoned(c) ==
  /\ call[c].at = "reclaim"
  /\ IF exists /\ version = call[c].seen /\ Lapsed
     THEN marker' = "recent" /\ GoesTo(c, "generate")
     ELSE Answer(c) /\ UNCHANGED marker
  /\ UNCHANGED <<exists, version, status, priced, sale, history>>

(* The row still holds the version that was read.                          *)
StillAt(v) == exists /\ version = v

(* claim: one version further, if the version is still the one read.       *)
Advance(c) ==
  /\ call[c].at = "advance"
  /\ IF StillAt(call[c].seen)
     THEN /\ version' = call[c].seen + 1
          /\ marker' = "recent"
          /\ call' = [call EXCEPT ![c].at = "generate", ![c].seen = @ + 1]
          /\ overtaken' = (overtaken \/ marker # "none")
     ELSE Answer(c) /\ UNCHANGED <<version, marker, overtaken>>
  /\ UNCHANGED <<exists, status, priced, sale, delivered>>

-----------------------------------------------------------------------------
(* THE GENERATION                                                          *)

\* The version the document carries once it is stored.
Version(c) == IF call[c].created THEN 1 ELSE call[c].seen

(* The model answers with a document, or does not.                         *)
Generate(c) ==
  /\ call[c].at = "generate"
  /\ GoesTo(c, "store") \/ GoesTo(c, "release")
  /\ UNCHANGED <<row, sale, history>>

(* CLAIM_SETTLED                                                           *)
Settled == "none"

(* The fill-in: by project or row id, whatever the row holds.              *)
StoreDocument(c) ==
  /\ call[c].at = "store"
  /\ Answer(c)
  /\ IF exists
     THEN /\ version' = Version(c)
          /\ marker' = Settled
          /\ status' = "review"
          /\ priced' = TRUE
          /\ delivered' = delivered + 1
     ELSE UNCHANGED <<version, marker, status, priced, delivered>>
  /\ UNCHANGED <<exists, sale, overtaken>>

(* The work packages of a PRD cannot be written: nothing is stored.        *)
AbandonStore(c) ==
  /\ call[c].at = "store"
  /\ GoesTo(c, "release")
  /\ UNCHANGED <<row, sale, history>>

\* MUTANT: a failed revision keeps the version it took.
KeepsSlot(c) == version

(* The version a released slot goes back to.                               *)
GivesBack(c) == Version(c) - 1

(* releaseClaim undoes its own reservation and nothing else; if it fails   *)
(* the error is dropped and the claim is left to lapse.                    *)
ReleaseClaim(c) ==
  /\ call[c].at = "release"
  /\ Answer(c)
  /\ \/ /\ call[c].created /\ exists /\ version = ClaimVersion
        /\ exists' = FALSE /\ marker' = "none"
        /\ UNCHANGED <<version, status, priced>>
     \/ /\ ~call[c].created /\ StillAt(Version(c))
        /\ version' = GivesBack(c) /\ marker' = Settled
        /\ UNCHANGED <<exists, status, priced>>
     \/ UNCHANGED row
  /\ UNCHANGED <<sale, history>>

(* The process dies with the request.                                      *)
Crash(c) ==
  /\ call[c].at # "idle"
  /\ Answer(c)
  /\ UNCHANGED <<row, sale, history>>

(* CLAIM_TTL_MS pass: twice the deadline of the model call, so a claim     *)
(* gets this old only when the request behind it is gone.                  *)
Lapse ==
  /\ marker = "recent"
  /\ \A c \in Callers : ~Holds(c)
  /\ marker' = "lapsed"
  /\ UNCHANGED <<exists, version, status, priced, sale, history, call>>

-----------------------------------------------------------------------------
(* APPROVAL AND PAYMENT                                                    *)

\* MUTANT: any row of the project can be approved.
AnyStatus == TRUE

\* The content is up for approval.
InReview == status = "review"

(* approveDocument reads the status and refuses a draft.                   *)
AskApproval(c) ==
  /\ call[c].at = "idle"
  /\ exists /\ InReview
  /\ GoesTo(c, "approve")
  /\ UNCHANGED <<row, sale, history>>

(* It then writes by project id, whatever the row holds by now.            *)
Approve(c) ==
  /\ call[c].at = "approve"
  /\ status' = IF exists THEN "approved" ELSE status
  /\ Answer(c)
  /\ UNCHANGED <<exists, version, marker, priced, sale, history>>

\* MUTANT: the checkout does not look at the price.
AnyRow == exists

(* GetCheckoutAmount: there is a row, and its price is not that of a       *)
(* reservation.                                                            *)
HasPrice == exists /\ priced

(* CreateSnapToken: an order is opened for a document that has a price.    *)
OpenCheckout ==
  /\ HasPrice /\ ~ordered
  /\ ordered' = TRUE
  /\ UNCHANGED <<row, paid, history, call>>

(* settleDocument, and the backfill of isDocumentPaid: an order was paid;  *)
(* whatever row the project has by then is marked, once.                   *)
SettleDocument ==
  /\ ordered /\ exists /\ ~paid
  /\ paid' = TRUE
  /\ UNCHANGED <<row, ordered, history, call>>

-----------------------------------------------------------------------------
Claims(c) ==
  \/ InsertClaim(c) \/ TakeOver(c) \/ ReclaimAbandoned(c) \/ Advance(c)

Next ==
  \/ \E c \in Callers :
       \/ AskDocument(c) \/ AskRevision(c)
       \/ ClaimGenerationReads(c) \/ ClaimRevisionReads(c) \/ Claims(c)
       \/ Generate(c) \/ StoreDocument(c) \/ AbandonStore(c) \/ ReleaseClaim(c)
       \/ Crash(c)
       \/ AskApproval(c) \/ Approve(c)
  \/ Lapse
  \/ OpenCheckout \/ SettleDocument

Spec == Init /\ [][Next]_vars

-----------------------------------------------------------------------------
(* PROPERTIES                                                              *)

TypeOK ==
  /\ exists \in BOOLEAN
  /\ version \in Nat
  /\ marker \in {"none", "recent", "lapsed"}
  /\ status \in {"draft", "review", "approved"}
  /\ priced \in BOOLEAN /\ ordered \in BOOLEAN /\ paid \in BOOLEAN
  /\ delivered \in Nat
  /\ overtaken \in BOOLEAN
  /\ call \in [Callers -> [at : Steps, seen : Nat, created : BOOLEAN]]

(* "Exactly one caller may proceed and the rest are turned away before the *)
(* model call": one click, one document, one bill.                         *)
OneGenerationAtATime == \A c, d \in Callers : Holds(c) /\ Holds(d) => c = d

(* Double submits, retries, takeovers and releases keep to that, as long   *)
(* as no revision has taken the version of a claim it did not see.         *)
OneGenerationUnlessOvertaken == overtaken \/ OneGenerationAtATime

(* Every slot but the one whose claim stands has its document: a failed or *)
(* reclaimed generation costs no slot, killed ones never add up, and no    *)
(* slot yields two documents.  A generation that was killed does keep its  *)
(* slot until a request reclaims it; at the free allowance unpaid, or at   *)
(* the cap paid, the gates in front refuse the request that would, so the  *)
(* last slot is lost then.                                                 *)
OnlyClaimedSlotIsOwed ==
  overtaken \/ ~exists \/
    version = IF marker = "none" \/ version = ClaimVersion THEN delivered ELSE delivered + 1

(* No mix of generations, revisions, releases and a payment in between     *)
(* gets past the free allowance unpaid, or past the hard cap paid.         *)
VersionWithinCap == version <= IF paid THEN MaxPaidVersion ELSE FreeGenerations

(* A reservation is never approved or sold as if it were a document, even  *)
(* when the approval writes after the row has changed under it.            *)
ApprovedHasContent == status = "approved" \/ paid => exists /\ delivered > 0 /\ version > ClaimVersion
=============================================================================
