# A verification of BYTZ's money, event and work paths

This directory holds TLA+ specifications of the parts of BYTZ (a managed
marketplace for software projects: owners fund a project into escrow, talents
are paid milestone by milestone) in which a wrong interleaving or a lost message
costs somebody money or leaves somebody waiting. The modules are checked with
TLC on small instances; the most important properties are proved with TLAPS for
every instance.

`PROJECT.json` maps every definition that models code to the lines it models,
lists the runs, the hazards, the disagreements found, and for every checked
property a *mutant*: a plausible bug in one mapped definition under which the
property fails. The mutant operators stand, marked `MUTANT`, directly before the
definition they replace; they are no part of the model.

## The system

All services live under `src/apps`, share one Postgres database and exchange
events through NATS JetStream.

| Part | State it keeps | Operations | Talks to |
|---|---|---|---|
| payment-service, escrow (Go) | `transactions`, `transaction_events`, `accounts`, `ledger_entries`, `outbox_events` | checkout (`CreateSnapToken`), gateway webhook, `ReleaseEscrow`, `ProcessRefund` | Midtrans (webhook in, Snap out), project-service (HTTP callback, events) |
| payment-service, disbursements | `disbursements`, payout entries in the ledger | `Execute`, Iris notification, reconciliation sweep | Iris (create, approve, status) |
| payment-service, outbox publisher | `outbox_events.published`, `retry_count`, `dead_letter_events` | poll, publish, park | JetStream |
| notification-service (Go) | `notifications`, a lease per event in Redis, `dead_letter_events` | consume, defer, park | JetStream, e-mail, Centrifugo |
| project-service (TypeScript) | projects, milestones, work packages, contracts, documents, disputes, invoices | HTTP handlers, outbox worker, settlement and invoice consumers, Temporal workflows, hourly sweeps under an advisory lease | payment-service (release, refund), ai-service, JetStream |
| admin-service (Go) | audit log, the `reprocessed` flag of a dead letter | republish a dead letter, suspend a user, dashboards | JetStream |
| auth-service (TypeScript) | users, sessions, phone codes, rate-limit counters | sign-in, phone verification | e-mail, SMS |
| ai-service (Python) | embeddings, usage rows, an outbox | document generation, CV parsing, matching | language models |
| web, admin, gateway, packages | none of their own | user interface, proxying, shared types and schema | |

What is hard in it:

* *Money moves from several callers.* The owner's approval, the Temporal
  auto-release and the hourly sweep may all settle one milestone; disputes and
  cancellations refund the escrow those releases draw on; Midtrans repeats,
  reorders and delays its notifications, and may take a charge back.
* *A handler is not one step.* Each of them reads a row unlocked, commits a
  pending row of its own, and only then runs a SERIALIZABLE transaction, which
  is retried on a conflict; a crash can fall between any two of these.
* *Outside calls have unknown outcomes.* Creating or approving a payout may time
  out having taken effect; its notification may never come.
* *Everything asynchronous is delivered at least once, and gives up at some
  point* (dead letters, `max_deliver`, retry budgets).

* *Decisions are taken on rows read earlier.* Most handlers of project-service
  are several statements on a pool. Some writes compare the status they were
  decided on, some name the row's id alone.

What makes the parts correct:

* escrow: a payment is booked once, on captured money, and is unwound at most
  once; a key moves its money once, unless two requests present it at a time;
  what is paid out stays within what was deposited; ledger and rows agree;
* disbursements: a milestone is paid out once; the money that left is booked
  once; a payout nobody reports on is still resolved;
* notifications: an event is neither lost nor processed by two deliveries at a
  time, and one that cannot be processed is parked;
* outbox and invoices: a committed event is published or parked; an approved
  milestone gets its copies, under one number;
* milestones: approved once per submission, paid only for work handed in, rounds
  beyond the free ones paid for, and decided even if nobody looks;
* documents: one generation at a time, no slot spent without a document or a
  claim that stands, no version past the allowance;
* lifecycle and disputes: an ended project holds no escrow, a case recorded as
  refunded was, and a split returns of no deposit more than half of what was
  deposited;
* staffing: packages agree with the seats on them, work starts staffed and
  signed, a complete team is announced once, an incomplete one is answered for.

The hazards, each at its line and with the properties aimed at it, are listed in
`PROJECT.json`.

## Modules

| Module | What it is |
|---|---|
| `PaymentRules` | pure rules: status mapping, precedence, splitting a deposit, drawing a refund, fees, payouts |
| `PaymentRulesSpec` | what these rules are to compute, as properties of a specification of one input at a time |
| `EscrowLedger` | the escrow state machine of one project (extends `PaymentRules`) |
| `EscrowPromise` | what the escrow promises, without rows, requests or notifications; `EscrowLedger` implements it |
| `Disbursement` | payout rows, execute requests, Iris, notifications, the sweep |
| `NotificationConsumer` | one stream's consumer: deliveries, the claim in Redis, heartbeats, crashes, dead letters |
| `Milestones` | one milestone: the requests of both parties, the Temporal workflow, the sweep |
| `Documents` | one BRD or PRD: claims, generations, revisions, approval, checkout, purchase |
| `Outbox` | outbox rows and the polling replicas of project-service |
| `Invoicing` | the pipeline from an outbox row to the invoice copies (extends `Outbox`) |
| `Lifecycle` | one project's status from `prd_review` on, its escrow and its disputes |
| `Staffing` | offers, seats, packages, agreements, the start of work, the escalation workflow |
| `MC...` | values for the constants |
| `...Proofs` | the theorems about the module they are named after, and their proofs; those of `PaymentRules` and `PaymentRulesSpec` are in `EscrowLedgerProofs` |

`Invoicing` composes the outbox with the consumer behind it: `Outbox` has no
specification of its own, its actions are steps of the pipeline. `Lifecycle`
composes projects, disputes and refunds; of the escrow it takes what
`EscrowPromise` promises of a key nobody else presents, a refund or release as
one step, where `EscrowLedger` has the rows and lets requests share a key.
`Milestones` likewise takes the release of a milestone's slice as one step that
may take effect unheard.

### EscrowLedger

`status` is `transactions.status` of every order, milestone (the row under the
key `release:<milestone>`) and refund key, `"absent"` while no row carries the
key. `posted[t]` is the net of the ledger entries of row `t` per account and
`balance` is `accounts.balance`: a debit raises a balance and a credit lowers
it, as `CreateLedgerEntriesTx` does. `outbox` counts the events written for a
row, `payouts` holds the milestones with a `disbursements` row. `job[h]` is what
request `h` carries from its unlocked half into its transaction. `charge` and
`sent` are the charge at Midtrans and the notifications sent about it; a
notification stays in `sent`, so it may be delivered again, late, or never.
Two variables are history, read by no guard: `shared`, the keys presented while
another request held them, and `resized`, the refund keys resumed with another
amount than their row carries. `EscrowPromise` knows the first as `contested`: a
payment that came to be contested may be made a second time.

| Action | Code |
|---|---|
| `CreateSnapToken` | mint an order id, price it, commit the pending row; the Snap call may fail |
| `Gateway` | Midtrans (external) |
| `WebhookRead`, `WebhookCommit` | `MidtransWebhook` before and inside its transaction |
| `ReleaseCreate`, `ReleaseSettle` | `ReleaseEscrow` up to the committed row; `releaseEscrowTx` |
| `RefundCreate`, `RefundSettle` | `ProcessRefund`; `processRefundTx` |
| `Retry` | a serialization conflict: the next attempt re-reads its row |
| `Abandon` | crash, timeout, refusal, replay |

A SERIALIZABLE transaction is one step: Postgres refuses every other outcome and
`RunSerializable` starts it again. Amounts asked of a release are those
`expectedFee` accepts, so the fee is a constant of the milestone. The payments a
project can receive are its escrow deposits and its document payments; talent
placement fees, rows of another kind, are not modelled, nor is the HTTP callback
`notifyProjectService`, which the code itself calls a latency optimisation over
the outbox event.

### Disbursement

`row` is the status and the Iris reference of a `disbursements` row, `booked`
the number of times its payout entries were written, `newer` the order of
`updated_at`. `exec[e]` is the next step of an execute request. `payout[d][r]`
is the payout at Iris under reference `r` for row `d`, `told` the notifications
sent. `CreatePayout` and `ApprovePayout` end as the code tells outcomes apart:
rejected, answered, or unknown, and an unknown outcome may have taken effect.
`Touch` keeps the order the sweep lists rows in; the 24 hour threshold is
abstracted away, so the sweep may look at a row at any time, which is more than
the code does and only makes the safety properties harder.

### NotificationConsumer

`msg`, `count` and `ackLeft` are JetStream's view of a message, `lease` and
`ttl` the event's key in Redis. A delivery is the pair of a message and its
number; `step` says what it does next, `on` which instance handles it. An
instance handles one delivery at a time and buffers the others, whose ack
deadlines run meanwhile. Time is counted in ticks of ten seconds: the lease is
two, the ack wait three, and a heartbeat (eight seconds) falls into every tick.

| Action | Code |
|---|---|
| `Publish` | a first publication, a republication, or an admin's replay of a dead letter (`Republish`), which keeps the event id |
| `Deliver`, `Tick` | JetStream (external) and the deadlines in both stores; `Tick` contains the heartbeats of `startHeartbeat` |
| `Claim`, `ClaimFailsOpen`, `SkipDuplicate`, `DeferToClaimHolder` | the four answers of `idem.Claim` in `handleMessage` |
| `HandlerReturns` | `processEventSafely`: everybody notified, or an error or panic part way |
| `Release`, `GiveBack`, `ParkDeadLetter` | the failed half of `handleMessage`; a deferred last delivery is parked as well |
| `Acknowledge`, `Complete` | ack first, record second |
| `Crash` | the process dies with its buffer, at any point between these |

Any ack or nak may be lost. Which other calls may fail is the constant
`Faults`: heartbeats to JetStream, calls to Redis, the insert of a dead letter.
`Prompt` states what is taken to be quick: an idle instance starts on what it
has buffered, and the few calls after a handler, which follow each other without
waiting, do not outlast the deadlines the heartbeat last extended. The finished
record's week is not counted down. The order in a buffer is left open.
Malformed messages and messages without an id are not modelled.

### Milestones

`status`, `revisionCount` are the row; `submissions` numbers what `submitted_at`
is overwritten with, and `lapsed` how many of those review windows are over.
`credits` are paid `revision_requests` nobody used. `told` is what Temporal was
sent and has not received, `timer` the open workflow. `call[c]` and `auto[r]` are
the next step of a request, and of the workflow's or the sweep's release.
`payee` says whether the milestone names a talent and an amount: one that does
not is approved without a payment (`settle-milestone.ts:108`). Settling one that
is priced above its work package is refused every time (`settle-milestone.ts:114`);
that is a settlement that fails, which every releaser may meet at any attempt.

| Action | Code |
|---|---|
| `Approve`, `Release` | the owner's half of `PATCH /milestones/:id/status`: `settleMilestoneEscrow` before the write |
| `ReadRow`, `UpdateStatus` | `updateMilestoneStatus`: the transition checked on a read, then a compare-and-swap |
| `ConsumeCredit`, `IncrementRevisionCount` | a revision: the credit in its own transaction, the count by id alone |
| `SettleRevision` | the `payment.settled` of a bought round |
| `Receive`, `Lapse`, `TimerFires` | `triggerTemporalForMilestoneStatus` and the workflow's sleep |
| `SweepFinds`, `SweepSettles`, `SweepPays` | `auto-release-sweep.ts` |
| `Flip`, `AutoSettles`, `AutoPays`, `Notify`, `AutoFails` | the activities both run, with retries |
| `CrashCall` | the process dies, or an answer is an error |

### Documents

The row is `exists`, `version`, `marker` (`generation_claimed_at`: none, recent,
older than `CLAIM_TTL_MS`), `status` and `priced`; `ordered` says that a checkout
of the document was opened, `paid` that it settled. `delivered` counts the
documents stored and `overtaken` notes that a claim advanced over another one
standing; both are history, read by no action.

| Action | Code |
|---|---|
| `AskDocument`, `AskRevision` | the gates of `generate-*` and `*/revision` |
| `ClaimGenerationReads`, `ClaimRevisionReads` | the reads of `claimGeneration`, `claimRevision` |
| `InsertClaim`, `TakeOver`, `ReclaimAbandoned`, `Advance` | the four conditional statements of `document-claim.ts` |
| `Generate`, `StoreDocument`, `AbandonStore`, `ReleaseClaim` | the model call and what follows it |
| `AskApproval`, `Approve` | approval: the check on a read row, the write by project id |
| `OpenCheckout`, `SettleDocument` | a checkout is opened of a row with a price; its settlement marks whatever row the project has by then |
| `Lapse`, `Crash` | time and death |

`Lapse` waits until nobody generates: the code sets the age of an abandoned claim
to twice the deadline of the model call, and this is what that buys. The price
of a revision, rate limits and the text are abstracted away.

### Outbox and Invoicing

`appended`, `published`, `retries` and `dead` are the `outbox_events` rows and
their dead letters, `stream` what JetStream holds (it drops a second copy by
message id), `worker[w]` what a replica is at. `FOR UPDATE SKIP LOCKED` is
`Locked`; the failure is recorded after the lock is gone, with the count the
claim read. `number[m][a]` is the recorded copy of milestone `m` for audience
`a`.

| Action | Code |
|---|---|
| `AppendEvent` | `appendOutboxEvent` in the approving transaction |
| `Claim`, `Publish`, `MarkPublished`, `RecordFailure`, `WorkerDies` | `pollPass`, `claimAndPublish`, `recordFailure` |
| `Deliver`, `HandlerFails` | the durable consumer |
| `Make`, `Count`, `Record` | `generateInvoice`, copy by copy: look the number up, count the milestones invoiced if there is none, insert |
| `Download` | the route that makes a missing copy on the spot, in the same three statements |

The lookup and the count are two queries of the pool, so other copies may be
recorded in between. `downloaded` is history: the milestones of which a download
recorded a copy.

### Lifecycle

`deposit`, `balance`, `asked` and `moved` are what payment-service shows of the
escrow: the deposits' rows, what the pools hold, the refund rows and the money
they moved, by cause (a case or the cancellation) and deposit. `unpaid` and
`unapproved` count milestones. A case may be about one package, whose refund is
then capped by what the package may still be owed, any member of `PackageShares`.
`tried` and `excused` are history, read by no action: what a case was ever tried
for (a full refund, nothing to return, a listing that found the deposits gone),
and whether a deposit settled, or a completion was asked, where no request could
see the balance. `PartlyCancelled` is
one of these cases: a cancellation refunded the rest of a deposit, died before it
wrote the status, and then another deposit settled; the retry replays the first
refund and counts it at what is held now.

| Action | Code |
|---|---|
| `AskTransition`, `Gate`, `ReadStatus`, `WriteStatus` | `POST /projects/:id/transition` and `transitionStatus`: gates, a read of its own, an unconditional write |
| `SettleEscrow`, `ApproveMilestone` | the other callers of `transitionStatus` |
| `SizeRefund`, `ListDeposits` | the two reads of a refund: the balance over HTTP, then the completed deposits |
| `RefundDeposit`, `RefundsDone` | `refundHeldEscrow` and the refunds of a resolution, deposit by deposit |
| `AskDispute`, `InsertDispute`, `AskDisputeStatus`, `WriteDisputeStatus`, `AskResolution`, `RecordResolution` | `dispute.service.ts`, `dispute.activities.ts` |
| `FundEscrow`, `PayMilestone` | payment-service, beside all of this |

### Staffing

A seat is a row of `project_assignments`, named by talent, package and which of
theirs; `package`, `agreement`, `completed` (`team_completed_at`), `announced`
(`project.team.complete` events) are the other rows. Answers, applications and
terminations lock the project row and repeat their checks under it, so each is
one action; `ConfirmReads`/`ConfirmCommits` and the four `Start...` steps are the
handlers that decide on earlier reads. `byHand` notes packages whose seat status
a caller wrote with `PATCH /work-packages/:id/status` (`UpdatePackage`).
`StartTimer`, `Sweep`, `Poll`, `FinalizeTeam`, `Escalate`, `Wait`, `Deadline` are
the team-formation workflow, its activities and the sweep behind it.

### PaymentRules

Operators for the decisions the handlers share. `DrawFromEscrow` and
`AllocateEscrowShares` are the loops of the code; `IsDraw`, used by
`EscrowLedger`, is the relation the loop computes: `PaymentRulesSpec` checks, and
`LoopIsADraw` and `OneDraw` prove, that it computes exactly that. Fees and
payouts exist twice, in Go (`pricing.go`) and in TypeScript (`packages/shared`), and are the same rules;
`PackagePayouts` exists in TypeScript only. Rounding is `Math.round` on
non-negative quotients. Amounts are 64-bit integers in Go and doubles in
TypeScript, both far from their limits in rupiah, so the models do not wrap.

## Runs

| Run | Instance | Shows |
|---|---|---|
| `escrow` | a deposit and a document, every kind of notification, two pools, one milestone, a scoped refund of the whole deposit and one resumed with another amount, two requests that may present the same key | booked once, on captured money, settled is final; releases and refunds with retries and crashes keep ledger, balances and events in agreement, move twice at most and only under a shared key, stay within the deposits and implement `EscrowPromise` |
| `escrow_shared_key` | one milestone, two callers of its key | **fails**: the milestone is released twice |
| `payment_rules` | all inputs up to the bounds in the cfg | the pure rules compute what they are to compute |
| `disbursement` | one payout, two references, three executors, a batch of one, fairness | one Iris payout, booked once, settled is final; a queued row Iris can answer for is resolved without notifications |
| `notification_once` | an event in two messages, two instances, two tries, lost acks, heartbeats and dead letters | one delivery at a time notifies, once unless it dies; no duplicate, deferral or dead claim acks an event away; the record stands |
| `notification_settled` | one message, three tries, two instances, Redis and dead letters failing too, fairness | every message ends in a notification or a dead letter unless its last delivery dies or fails to park it |
| `milestones_race` | two requests, the workflow, the sweep; two submissions, one free round, one bought, two attempts, with or without a payee | one approval per submission, pay only for work handed in, rounds paid for, automatic releases earned |
| `milestones_decided` | one request, the rest as above, fairness | the sweep alone decides what was submitted |
| `documents` | three requests, two free generations, a cap of four | one generation at a time unless a revision overtook a claim, the version counts the documents and the one claim that stands, no version past the allowance, what is approved or paid for has content |
| `invoicing` | two rows, one of them published before, two replicas, two deliveries or downloads, two audiences, two retries, two deliveries per message | no row vanishes, an acked message has its copies, deliveries share a milestone's number, gaps are left only by a download |
| `lifecycle` | two requests, a deposit of 3, one case about the project or a package owed 1, one milestone | an ended project holds nothing, a split returns at most half of each deposit, a recorded refund happened unless the deposits were gone |
| `staffing` | two talents, two packages, one request of the owner, fairness | packages match their seats, one announcement, work starts staffed and signed, offers are answered for |

The failing run checks one sentence of the code's own comments; `PROJECT.json`
quotes it under `findings`.

*Why these bounds.* Two requests in flight are what the races of the code need:
each is between one handler's unlocked read and another's commit, and handlers
share nothing but rows; the workflow and the sweep are there besides. Three
executors are there because a second payout would need a first executor that
created, a second that re-claimed and a third that acts late; three requests at
a document because a claim can be taken, lost and taken again. Prices of a few
rupiah make every guard (fund check, cap, draw over two pools, half of an odd
balance) pass in some states and fail in others. Two pools and one scoped refund
exercise the draw order; two references make a second payout expressible. An
event in two messages with two tries each is what a takeover of a claim, a
replay and a last delivery need at the same time. Two free generations and a cap
of four leave room for a revision before and after the purchase. Two submissions
are what a stale workflow needs. A row published before the run keeps numbers
apart from rows without a second pipeline. Two audiences are one copy and one to
follow; the code's third repeats the second.

Most of these are sets that are finite anyway. Bounds that stand in a guard are
named constants: `MaxSubmissions` and `MaxCredits` (how often a talent submits
and how many rounds are bought), `Rounds` (how often a talent takes up one
package; here one, so a seat given up is refilled by the other talent) and
`Written` (the statuses a caller writes by hand; here reopening a package and
starting its work). `announced` stops at two, which is one more than allowed.
Symmetry (requests, replicas, handlers, instances and messages that are alike)
is used in runs of safety properties only.

*Deadlock* is not checked where a project's work can be over (all orders
settled, nothing left to ask).

*Fairness.* Of the disbursements only the sweep is fair. `WF(SweepAsk)`: the
ticker in `reconcile.go` starts a pass every interval as long as the service
runs, and a pass asks about every row it lists. `SF(SweepSettle)`: a pass can be
cut off by its deadline or a restart after asking, but the next one asks again,
and not every pass is cut off at the same row. Nothing else is assumed: operators
may never retry, notifications may never come, Iris may never move a payout.

In the consumer, `WF(Deliver)`: some instance keeps pulling; `WF(Handling)` of
every delivery: a handler's calls end in an answer or a timeout, and a panic is
turned into an error; `WF(Tick)`: time passes. Crashes are not fair and not
bounded: a message whose last delivery dies is the excuse `EventuallySettled`
names, and JetStream drops it.

Of a milestone, time (`WF(Lapse)`) and the hourly sweep: none of its steps hangs
(`WF(Releases("sweep"))`), and it is not interrupted for ever at the same one
(`SF` of finding, settling, paying and flipping). That takes as given that
payment-service does not fail for ever, that the milestone is not one priced
above its work package, whose settlement is refused each time, and that no such
milestones crowd it out of the sweep's batch. Owner, talent and Temporal are not
fair.

Of staffing, the sweep, the deadline, and the workflow's next step: Temporal runs
an open workflow, and an activity is taken to succeed within its three attempts
(`proxyActivities`, `maximumAttempts: 3`). A run whose activity failed three times
would end unescalated, count as existing, and not be started again by the sweep.

## Proofs

All theorems hold for every value of the constants that satisfies the modules'
assumptions (amounts are positive, a fee is below its milestone's amount, the
accounts are distinct, keys of different kinds do not collide, sets are finite, a
deposit is split without loss). Every invariant and every action property the
runs check is proved; what is left to TLC is liveness.

*Sums.* The sums of the community modules are folds that take their elements out
in an order nobody knows. `SumStep` unfolds one element, and the lemmas that
follow it (remove any element, add two functions, compare, filter, change one
term) are proved by taking a smallest subset for which they fail
(`SmallestSubset`), which needs no induction theorem with an operator as its
parameter.

*Escrow.* `TypeCorrect` is inductive alone. `BookedOnce` and
`SettledStaysSettled` rest on `IInv`: keys' rows are only ever pending and
completed, a refund in flight is of an order that had settled, and the status of
an order determines its events and entries. It is needed because
`OrderBookedOnce` alone says nothing of an order marked refunded by an internal
refund, whose events remain those of a settlement. `PoolsNeverOverdrawn` adds
what each kind of step takes from a pool. `SettlesOnlyCaptured` needs another
invariant, `ClearedInv`: a notification that says the money is there is sent
only when it is, the gateway keeps money it has, and a webhook about to complete
an order carries such a notification.

*Promise.* Nothing is assumed of who presents which key. `KInv` is `IInv` and two
parts. `KeyTurns`: of the requests that hold a key only the one that inserted its
row settles without looking at the row again, and it has not done so yet; the row
of a key that is not shared is then still pending. `MovesOncePerHolder` is the
bound that follows, two moves for a shared key and one for any other: the second
is that of the inserter, after a request that resumed its row. The run
`escrow_shared_key` shows that the second move happens. `ReleasesAlwaysAddUp`
follows; `ImplementsPromise` needs in addition that a refund request asks an
amount its key may ask (`RefundAmounts`, in `CInv`).

*Ledger and cover.* `Postings` says that every step posts nothing
or one of four kinds of entries. `LedgerAlwaysAgrees`: each kind cancels out, so
the accounts do, and each balance is the sum of its entries.
`EscrowAlwaysCovers`: releases, fees included, and refunds never take more out of
the pools than settled deposits put in. That bound alone is not inductive; the
invariant `Covered` adds what the pools still hold, not counting what a
chargeback has left negative. A deposit adds to both sides; a release looks at
its pool and a refund draws only on what a pool has, so a payment moves what is
held to what is paid. The refund cap is not needed for this. A milestone released
twice is therefore paid out of the same project's deposits, never beyond them.

*Books.* `BooksAlwaysBalance` relates the ledger to the events written, an order's
and a key's, and counts a key as often as it moved. `MInv` is `IInv` with three
sums (`BooksAddUp`): all accounts, the platform's revenue, the pools. A posting
changes each by a total of its entries (`Posting`, `FundingSums`, `ReleaseSums`,
`RefundSums`), and one term on the other side changes by the same.
`PaymentsStayWithinDeposits` is the cover above with `RowsMatch`: a refund whose
key was neither shared nor resumed with another amount moves what its row says.
Of the other keys that is false (see below), and they are covered all the same.

*Rules.* For any number of packages, pools, milestones and bands, and any
amounts. `SharesConserve`: a deposit is handed out to the rupiah, the remainder
on a largest package. `LoopIsADraw` and `OneDraw`: the refund loop, over an order
sorted as the code sorts it, refuses what the pools cannot cover and otherwise
computes the one draw there is. `FeesDriftByHalves`: milestones of a package pay
out its payout within half a rupiah each. `PackagesAddUp`: packages add up to the
rupiah, always for three, under a hypothesis for more. `PayoutNeverDrops`: a
rupiah more in the price adds at most one to the talents' part and takes none,
because each band pays its own share of the part of the price inside it.
`EveryDepositIsHandedOut`, `EveryRefundIsTheDraw`, `EveryCutAddsUp` and
`EveryRupiahCounts` are the properties of the run `payment_rules`, three packages
or pools as there, for amounts of any size.

*Disbursements.* `PaidOnce`, `BookedOnceSettled` and `SettledStaysSettled` rest
on one invariant: a claimable row without a reference was never sent (`Unsent`);
at most one executor holds a row without a reference, and it is still queued
(`FreshRow`, `FreshAlone`); every other executor works on the reference its row
carries (`LinkedRow`); the sweep only acts on rows with a reference
(`SweptRow`). `OnePayout` alone is not inductive: a state in which a row was
sent, forgot its reference and went back to failed satisfies it, and its next
create violates it.

*Notifications.* `AcknowledgedIsSettled` assumes nothing of the faults:
`DoneWasSent` (an event recorded as done was notified), `SettlersSent` (a
delivery about to ack notified) and `LaterIsNone` (a delivery not yet made has
done nothing) make `AckedIsSettled` inductive. `SilencedOnlyByDeadLetters` adds
that a failed dead letter is the only way an event is acked into silence, the
exception `AckedIsSettled` names: the insert goes to the Postgres the handlers
write to, so both fail together, and the three immediate redeliveries are over
in moments. With the assumption that dead letters are
recorded, `NeverSilenced` itself is proved. `Exclusive`, `NotifiedOnce` and
`RecordStands` assume that Redis
answers, and rest on `ClaimInv`: from claim to record a delivery holds an
unexpired lease (`ActiveHolds`) and is the only one of its event to do so
(`ActiveAlone`). The step of time is where that is at stake: a beat of the
holder restores the lease, and after the handler `Prompt` leaves it time to
settle. Without Redis the code chooses to notify twice rather than not at all,
and these three do not hold.

*Milestones.* `IInv` is `Types` and five parts. `OneApprovalEach`: approvals plus a submission still
open never outnumber submissions, since the flip leaves `submitted` for good.
`Checked`: a request about to write holds a legal pair of statuses, so no write
reaches `submitted` twice without a submission. `Backed` carries "has been
submitted" from every read of a submitted row to the payment decided on it.
`Waited` does the same for the window. `RoundsCounted` counts a request about to
increment as a round already taken: that is what the bound of `RoundsArePaid`,
one fewer than there are requests, comes from, and it is attained.

*Documents.* `RequestsKnow` (what a request read bounds what it may do),
`Content` (a row past its reservation has a document, and so
has whatever has a price, an open checkout or a payment), `WithinCap` (a request
past the gate saw a version below the allowance, and the purchase only raises
it) and `HeldAlone`: a request that generates stands on a recent marker at its
version, alone. The last holds until a revision overtakes a claim it did not
see, which the code does not exclude; `overtaken` marks that, and the two
properties excuse nothing else. `OnlyClaimedSlotIsOwed` says that the version
exceeds the documents by one at most, and only while a claim stands; it does not
say that the claim is ever given back (see below).

*Invoicing.* `OutboxInv` adds to `NothingDropped` that a worker about to mark has
been heard and that a spent budget has its dead letter whatever count a slower
worker writes back. `Behind`: a delivery at its n-th copy leaves the earlier ones
recorded. `NumbersShared`: of a milestone no download made a copy of, every
number is that of the first copy, and only the delivery of that copy counts.
`NumbersFit`: a number is at most one beyond the milestones invoiced, and within
them for such a milestone; a number in hand counts its own milestone, since it is
drawn before its copy is recorded. The one beyond is what another copy recorded
between a download's two queries leaves.

*Staffing.* `OneHolder` is the partial unique index, kept by every transaction;
`Matches` needs it. `Backed` and `SignedOff` carry what a start has read across
the statements after it: until the project leaves `matching` no seat can be given
up and no signature is withdrawn. Announcing needs three parts: `Noted` (while the
project is looking, the stamp is there exactly when every package is staffed),
`Once` and `Known` (whoever holds "complete" holds it of a stamped project).

*Lifecycle.* Five invariants, each kept by every step once the earlier ones
hold. `TInv`: types, and a request is only at a step of its goal. `Backed`: the
deposits still completed cover the balance, and nothing was refunded of one that
has not settled; a balance above zero with no deposit left to refund would stay
for ever. `EInv`: a request past its sizing or its gate knows that what it left
out is gone or excused (`KnowsBalance`), and after part of a deposit was refunded
nothing is held (`PartlyCancelled`), which makes `EndedHoldsNothing` inductive.
`RInv`: a request about to record a refund has moved one, or will, or found
nothing held, or found the deposits gone because another cause refunded one in
full (`Taken`), which is `RecordedRefundHappened`. `HInv` is `SplitReturnsHalf`
with what it rests on, that a split is sized to half of what was deposited
(`SizedToHalf`); `RefundsAtMostHalf` is the theorem, for any number of deposits.
Of several deposits together a split may return more, and no property says less.

*Only model-checked.* Liveness (`QueuedIsResolved`, `EventuallySettled`,
`SubmittedIsDecided`, `OffersAnsweredFor`), which is out of the prover's reach.

## What the code does not promise

Behaviours met while modelling that no property covers: the property would be
false, or the instance leaves the case out. Those with a line are hazards in
`PROJECT.json`.

*Money.*
* The refund cap compares completed refunds with deposits still completed: of a
  project funded twice, whose first deposit was refunded in full, the second
  cannot be refunded (`payment.go:691`). The run has one deposit.
* Two overlapping calls under one key may move its money twice, the one that
  inserted the row last (`payment.go:340`): the second payment comes out of the
  project's own pools, and never takes more than its deposits.
  `Lifecycle` and `Milestones` have a call as one step and leave this to
  `EscrowLedger`.
* A refund key whose first request left a pending row keeps that request's amount;
  a later request under it, sized on the balance of its own moment, moves its own
  (`payment.go:304`, `processRefundTx`). Rows and ledger then differ by the
  difference, and the cap counts the row. `PaymentsWithinDeposits` asks nothing of
  the rows of such keys; the escrow still covers what is paid.
* A resolution reads the balance and then lists the completed deposits
  (`dispute.service.ts:167`, `:174`). Another refund may empty them in between: the
  loop visits nothing, and the case is recorded as refunded with nothing moved for
  it. `RecordedRefundHappened` names this exception.
* A retried split over two deposits sizes its refund again on what is left, and
  returns more than half (`dispute.service.ts:105`); at most half of all deposits
  from each of them is what holds.
* A cancellation that refunded what was left of a deposit and died before it wrote
  the status, and another deposit that settles before the retry: the retry is
  sized on the new balance and asks the first deposit's key, which answers with
  the old refund. The loop counts it as returned, and that much of the second
  deposit stays in the escrow of a cancelled project (`escrow-refund.ts:47`).
* Four or more packages, some of them worth a rupiah or two, may not add up to
  the talents' total: `PackagesAddUp` states how small they must be.
* An approval at Iris that took effect unheard leaves a failed row with a
  reference, which the sweep does not list (`disbursement.go:332`); and rows the
  sweep passes over keep the head of its bounded list (`disbursement.go:334`).
* A milestone priced above its work package cannot be settled
  (`settle-milestone.ts:114`): it stays submitted, and keeps its place in the
  sweep's batch.
* A milestone the workflow approved and then failed to pay in all attempts is
  terminal and unpaid: the sweep lists submitted rows
  (`milestone.activities.ts:70`). A release does not look for a dispute either.
* A deposit that settles during a cancellation stays in the escrow of a cancelled
  project; a completion asked before the review passes no balance gate
  (`project.service.ts:69`, excused by `EndedHoldsNothing`). Writes by id may
  overwrite a terminal status.

*Events.*
* A last delivery whose dead letter cannot be recorded is acknowledged all the
  same (`nats.go:374`); `payment.settled` is given up after five deliveries with
  no dead letter of its own.
* An automatic approval appends no invoice request (`milestone.repository.ts:355`).
* Two milestones numbered at the same time may share a number, and a download
  beside a delivery may split one milestone's, or skip a number when a copy is
  recorded between its two queries (`invoice.repository.ts:139`).

*Work.*
* A workflow whose terminate was lost releases after an earlier submission's
  window (`milestone-auto-release.ts:18`).
* A revision may overtake a claim it did not see (`document-claim.ts:192`).
* A generation killed at the free allowance of an unpaid document, or at the cap
  of a paid one, keeps its slot: both gates refuse the request that would reclaim
  it, although the comment at `document-claim.ts:161-164` says that the slot comes
  back (`document-claim.ts:247`). A purchase lifts the first of the two.
* A case moved by the workflow after its resolution reads unresolved again, and
  one moved to `resolved` without a resolution keeps the project disputed; two
  cases may be opened at once.
* One talent may hold two packages through an application, which repeats none of
  the checks `team-assignment.ts:34` describes for offers, and package statuses
  written by hand are not reconciled with seats (`applications.ts:408`).
* Two parties signing at the same moment may both miss that the contract is fully
  signed, and its event is not written; the signatures themselves stand.

## Plan

Done: (1) escrow, its promise and their proofs; (2) disbursements and their
proofs; (3) the notification consumer and its proofs; (4) the outbox and the
invoice pipeline with their proofs; (5) milestones and documents with their
proofs; (6) lifecycle with disputes, and staffing, with their proofs; (7) the
books, the cover of the escrow and the pure rules proved.

Left, in this order:

8. That `Lifecycle`'s escrow is what `EscrowPromise` promises, as a refinement
   rather than by construction; likewise an abstract specification of the
   consumer (an event is handled, parked or pending) with `NotificationConsumer`
   shown to implement it.
9. The scoping phase before `prd_review`, the advisory lease of the sweeps, the
   settlement consumer's own deliveries.
10. Phone verification codes, rate limits, circuit breakers.

## Not modelled

* *payment-service's outbox publisher* is the Go twin of the worker in `Outbox`:
  the same claim, count and dead letter.
* *project-service:* the scoping chat and its allowances, the ranking of
  candidates, reviews, time logs, uploads, talent profiles and their approval,
  sweeps that only remind; single rows read and written without an order that
  matters. The advisory lease is taken as given: at most one replica sweeps.
* *auth-service* is a library's sign-in with phone codes and rate limits, and
  moves neither money nor events. *admin-service* reads, and its one replay is a
  second message in `NotificationConsumer`. *ai-service* is prompting, parsing
  and retrieval: its output has no discrete contract.
* *Frontends, gateway, schema, seed data, generated routes:* no protocol. They
  are two thirds of the TypeScript lines, which is why the map covers a small
  share of those although the handlers that move state are modelled; the
  services that move money and notify are Go.
* Talent placement fees and payout account validation move no escrow. Real time
  is abstracted to order, except where a deadline is compared with another.
