---------------------------- MODULE EscrowLedger ----------------------------
(***************************************************************************)
(* The money core of payment-service for one project: checkout orders and  *)
(* the gateway webhook that settles them, milestone releases and refunds,  *)
(* over the double-entry ledger.  Handlers run concurrently; a handler's   *)
(* unlocked read, the row it commits on the pool and the database          *)
(* transaction that moves the money are separate steps, and a handler may  *)
(* be abandoned (crash, timeout, refusal) between any two of them.         *)
(* Nothing stops two requests from presenting one key at a time; which     *)
(* keys were so presented is kept as history, that no guard reads.         *)
(***************************************************************************)
EXTENDS PaymentRules

CONSTANTS
  Orders,          \* checkout orders; an order id is the row's idempotency key
  OrderKind,       \* [Orders -> OrderKinds]
  Price,           \* [Orders -> Nat \ {0}], the server-side price
  Pools,           \* escrow accounts of the project, one per work package
  PoolId,          \* [Pools -> Nat], the account id that breaks ties
  Share,           \* [Orders -> [Pools -> Nat]], a deposit's split
  Milestones,      \* milestones; "release:<milestone>" is the release key
  MilestoneAmount, \* [Milestones -> Nat \ {0}], gross
  ReleaseFee,      \* [Milestones -> Nat], re-derived by expectedFee
  PoolOf,          \* [Milestones -> Pools], resolved by escrowOwnerFor
  TalentOf,        \* [Milestones -> Talents]
  Talents,
  Payable,         \* talents with a verified payout account (disbursement on)
  RefundKeys,      \* idempotency keys of refunds
  RefundedOrder,   \* [RefundKeys -> Orders], the deposit a key refunds
  RefundScope,     \* [RefundKeys -> Pools \cup {NoScope}]
  RefundAsks,      \* [RefundKeys -> SUBSET Nat], amounts asked under a key
  NoScope,
  Owner, Platform, \* the owner's account and platform revenue
  Handlers,        \* concurrent requests
  Serves,          \* [Handlers -> SUBSET Keys], keys a request may present
  Notices,         \* notifications the gateway may send
  Sends            \* [Orders -> SUBSET SUBSET Notices], those it may send of one order

Accounts == {Owner, Platform} \cup Talents \cup Pools
Txns == Orders \cup Milestones \cup RefundKeys
Keys == Milestones \cup RefundKeys
EventKinds == {"settled", "released", "refunded", "partial_refund"}

ASSUME OrdersAssumption ==
  /\ OrderKind \in [Orders -> OrderKinds]
  /\ Price \in [Orders -> Nat \ {0}]
  /\ Share \in [Orders -> [Pools -> Nat]]
  /\ Notices \subseteq Notice
  /\ Sends \in [Orders -> SUBSET SUBSET Notices]
ASSUME MilestonesAssumption ==
  /\ MilestoneAmount \in [Milestones -> Nat \ {0}]
  /\ ReleaseFee \in [Milestones -> Nat]
  /\ \A m \in Milestones : ReleaseFee[m] < MilestoneAmount[m]
  /\ PoolOf \in [Milestones -> Pools]
  /\ TalentOf \in [Milestones -> Talents]
  /\ PoolId \in [Pools -> Nat]
ASSUME RefundsAssumption ==
  /\ RefundedOrder \in [RefundKeys -> Orders]
  /\ RefundScope \in [RefundKeys -> Pools \cup {NoScope}]
  /\ RefundAsks \in [RefundKeys -> SUBSET (Nat \ {0})]
  /\ \A k \in RefundKeys : OrderKind[RefundedOrder[k]] = "escrow_in"
  /\ Serves \in [Handlers -> SUBSET Keys]
\* What a deposit adds to the pools is the deposit: allocateEscrowShares gives
\* the remainder to the last package, or all of it to a single pool.
ASSUME SharesAssumption ==
  \A o \in Orders : OrderKind[o] = "escrow_in" => SumFunction(Share[o]) = Price[o]
ASSUME FiniteAssumption ==
  /\ IsFiniteSet(Orders) /\ IsFiniteSet(Milestones) /\ IsFiniteSet(RefundKeys)
  /\ IsFiniteSet(Talents) /\ IsFiniteSet(Pools)
ASSUME DistinctAssumption ==
  /\ Owner # Platform
  /\ Owner \notin Talents \cup Pools
  /\ Platform \notin Talents \cup Pools
  /\ Talents \cap Pools = {}
  /\ Orders \cap Milestones = {}
  /\ Orders \cap RefundKeys = {}
  /\ Milestones \cap RefundKeys = {}

VARIABLES
  status,    \* [Txns -> TxnStatus], transactions.status
  refundRow, \* [RefundKeys -> Nat], transactions.amount of a refund row
  posted,    \* [Txns -> [Accounts -> Int]], net ledger entries of a transaction
  balance,   \* [Accounts -> Int], accounts.balance
  outbox,    \* [Txns -> [EventKinds -> Nat]], outbox events written
  payouts,   \* milestones with a disbursements row
  job,       \* [Handlers -> Job], what each concurrent request is doing
  charge,    \* [Orders -> ChargeState], the charge at the gateway
  sent,      \* [Orders -> SUBSET Notices], notifications sent
  shared,    \* history: keys presented while another request held them
  resized    \* history: refund keys resumed with another amount than the row's

vars == <<status, refundRow, posted, balance, outbox, payouts, job, charge, sent,
          shared, resized>>
books == <<status, refundRow, posted, balance, outbox, payouts>>
gateway == <<charge, sent>>
history == <<shared, resized>>

ChargeState == {"none", "open", "review", "closed", "captured", "returned"}
Idle == [kind |-> "idle"]
Job == {Idle}
  \cup [kind : {"webhook"}, order : Orders, next : RowStatus, partial : BOOLEAN]
  \cup [kind : {"release"}, milestone : Milestones, recheck : BOOLEAN]
  \cup [kind : {"refund"}, key : RefundKeys, amount : Nat, full : BOOLEAN,
        recheck : BOOLEAN]

NoEntries == [a \in Accounts |-> 0]
NoEvents == [e \in EventKinds |-> 0]

Init ==
  /\ status = [t \in Txns |-> "absent"]
  /\ refundRow = [k \in RefundKeys |-> 0]
  /\ posted = [t \in Txns |-> NoEntries]
  /\ balance = NoEntries
  /\ outbox = [t \in Txns |-> NoEvents]
  /\ payouts = {}
  /\ job = [h \in Handlers |-> Idle]
  /\ charge = [o \in Orders |-> "none"]
  /\ sent = [o \in Orders |-> {}]
  /\ shared = {}
  /\ resized = {}

-----------------------------------------------------------------------------
(* Ledger entries: signed amounts per account, a debit raising a balance   *)
(* and a credit lowering it.                                               *)
PostEntries(t, e) ==
  /\ posted'  = [posted EXCEPT ![t] = [a \in Accounts |-> posted[t][a] + e[a]]]
  /\ balance' = [a \in Accounts |-> balance[a] + e[a]]

Publish(t, kind) == outbox' = [outbox EXCEPT ![t][kind] = @ + 1]

FundingEntries(o) ==
  [a \in Accounts |->
     IF a = Owner THEN -Price[o]
     ELSE IF OrderKind[o] # "escrow_in"
          THEN (IF a = Platform THEN Price[o] ELSE 0)
          ELSE IF a \in Pools THEN Share[o][a] ELSE 0]

\* MUTANT: only escrow deposits are unwound, document revenue stays booked.
ReversalOfEscrowOnly(o) ==
  [a \in Accounts |-> IF OrderKind[o] = "escrow_in" THEN -posted[o][a] ELSE 0]

(* The mirror of every entry the order's settlement wrote.                 *)
ReversalEntries(o) == [a \in Accounts |-> -posted[o][a]]

\* MUTANT: the fee is withheld from the talent and booked nowhere.
ReleaseEntriesFeeLost(m) ==
  [a \in Accounts |->
     IF a = TalentOf[m] THEN MilestoneAmount[m] - ReleaseFee[m]
     ELSE IF a = PoolOf[m] THEN -MilestoneAmount[m] ELSE 0]

ReleaseEntries(m) ==
  [a \in Accounts |->
     IF a = TalentOf[m] THEN MilestoneAmount[m] - ReleaseFee[m]
     ELSE IF a = PoolOf[m] THEN -MilestoneAmount[m]
     ELSE IF a = Platform THEN ReleaseFee[m] ELSE 0]

RefundEntries(amount, draw) ==
  [a \in Accounts |->
     IF a = Owner THEN amount ELSE IF a \in Pools THEN -draw[a] ELSE 0]

-----------------------------------------------------------------------------
(* CHECKOUT AND THE GATEWAY                                                *)

(* A checkout mints an order id, prices it and commits a pending row; the  *)
(* call to the gateway that follows may fail and leave the row behind.     *)
CreateSnapToken(o) ==
  /\ status[o] = "absent"
  /\ status' = [status EXCEPT ![o] = "pending"]
  /\ \E reached \in BOOLEAN :
       charge' = [charge EXCEPT ![o] = IF reached THEN "open" ELSE "none"]
  /\ UNCHANGED <<refundRow, posted, balance, outbox, payouts, job, sent, history>>

(* The gateway moves a charge and sends a notification of it.              *)
GatewayStep(o, from, to, n) ==
  /\ n \in Notices /\ sent[o] \cup {n} \in Sends[o]
  /\ charge[o] \in from
  /\ charge' = [charge EXCEPT ![o] = to]
  /\ sent' = [sent EXCEPT ![o] = @ \cup {n}]
  /\ UNCHANGED <<books, job, history>>

Gateway(o) ==
  \/ \E s \in {"pending", "authorize"} :
       GatewayStep(o, {"open"}, "open", [ts |-> s, fraud |-> "none"])
  \/ \E s \in {"capture", "settlement"} :
       GatewayStep(o, {"open"}, "review", [ts |-> s, fraud |-> "challenge"])
  \/ GatewayStep(o, {"open", "review", "closed"}, "captured",
                 [ts |-> "capture", fraud |-> "accept"])
  \/ \E f \in {"accept", "none"} :
       GatewayStep(o, {"open", "review", "closed", "captured"}, "captured",
                   [ts |-> "settlement", fraud |-> f])
  \/ \E s \in {"capture", "settlement", "deny"} :
       GatewayStep(o, {"open", "review"}, "closed", [ts |-> s, fraud |-> "deny"])
  \/ GatewayStep(o, {"captured"}, "captured", [ts |-> "partial_refund", fraud |-> "none"])
  \/ GatewayStep(o, {"captured"}, "returned", [ts |-> "refund", fraud |-> "none"])

-----------------------------------------------------------------------------
(* THE WEBHOOK: any notification sent, any number of times, in any order.  *)

(* The unlocked half: read the row, map the notification against the       *)
(* status read, and go on only if the result supersedes it.                *)
WebhookRead(h, o, n) ==
  /\ job[h] = Idle
  /\ n \in sent[o]
  /\ status[o] # "absent"
  /\ LET next == MapMidtransStatus(n, status[o])
     IN  /\ Supersedes(status[o], next)
         /\ job' = [job EXCEPT ![h] =
              [kind |-> "webhook", order |-> o, next |-> next,
               partial |-> n.ts = "partial_refund"]]
  /\ UNCHANGED <<books, gateway, history>>

\* MUTANT: the status read before the lock is trusted.
WebhookAppliesUnchecked(h) == job[h].kind = "webhook" /\ ~job[h].partial

(* The locked half, one transaction: the row lock and the second check,    *)
(* then status, ledger and outbox together.                                *)
WebhookApplies(h) ==
  /\ job[h].kind = "webhook"
  /\ Supersedes(status[job[h].order], job[h].next)
  /\ ~job[h].partial

WebhookEntries(o, next) ==
  IF next = "completed" THEN FundingEntries(o)
  ELSE IF next = "refunded" THEN ReversalEntries(o) ELSE NoEntries

WebhookCommit(h) ==
  /\ WebhookApplies(h)
  /\ LET o == job[h].order
         next == job[h].next
     IN  /\ status' = [status EXCEPT ![o] = next]
         /\ PostEntries(o, WebhookEntries(o, next))
         /\ CASE next = "completed" -> Publish(o, "settled")
              [] next = "refunded"  -> Publish(o, "refunded")
              [] OTHER              -> UNCHANGED outbox
  /\ job' = [job EXCEPT ![h] = Idle]
  /\ UNCHANGED <<refundRow, payouts, gateway, history>>

-----------------------------------------------------------------------------
(* RELEASE                                                                 *)

(* The request h is working under key k.                                   *)
Holds(h, k) ==
  \/ job[h].kind = "release" /\ job[h].milestone = k
  \/ job[h].kind = "refund" /\ job[h].key = k

(* History of a request presenting key k: another one held it, and, for a  *)
(* refund, the row it finds was created for another amount.                *)
NoteShared(k) ==
  shared' = IF \E g \in Handlers : Holds(g, k) THEN shared \cup {k} ELSE shared
NoteResized(k, amount) ==
  resized' = IF status[k] # "absent" /\ amount # refundRow[k] THEN resized \cup {k} ELSE resized

\* MUTANT: a row found under the key is run as if it were new.
ReleaseCreateAsNew(h, m) ==
  /\ job[h] = Idle
  /\ m \in Serves[h]
  /\ status' = [status EXCEPT ![m] = IF @ = "absent" THEN "pending" ELSE @]
  /\ job' = [job EXCEPT ![h] = [kind |-> "release", milestone |-> m, recheck |-> FALSE]]
  /\ NoteShared(m)
  /\ UNCHANGED <<refundRow, posted, balance, outbox, payouts, gateway, resized>>

(* Find the row of this key or insert a pending one.  A settled row is a   *)
(* replay and changes nothing; an unsettled one is resumed.                *)
ReleaseCreate(h, m) ==
  /\ job[h] = Idle
  /\ m \in Serves[h]
  /\ status[m] \notin Settled
  /\ status' = [status EXCEPT ![m] = IF @ = "absent" THEN "pending" ELSE @]
  /\ job' = [job EXCEPT ![h] =
       [kind |-> "release", milestone |-> m, recheck |-> status[m] # "absent"]]
  /\ NoteShared(m)
  /\ UNCHANGED <<refundRow, posted, balance, outbox, payouts, gateway, resized>>

ReleaseFunded(m) == balance[PoolOf[m]] >= MilestoneAmount[m]

(* The row is read again under its lock only by a resumed or retried run.  *)
ReleaseRuns(h) ==
  /\ job[h].kind = "release"
  /\ ~(job[h].recheck /\ status[job[h].milestone] \in Settled)

ReleaseSettle(h) ==
  /\ ReleaseRuns(h)
  /\ LET m == job[h].milestone
     IN  /\ ReleaseFunded(m)
         /\ PostEntries(m, ReleaseEntries(m))
         /\ status' = [status EXCEPT ![m] = "completed"]
         /\ Publish(m, "released")
         /\ payouts' = IF TalentOf[m] \in Payable THEN payouts \cup {m} ELSE payouts
  /\ job' = [job EXCEPT ![h] = Idle]
  /\ UNCHANGED <<refundRow, gateway, history>>

-----------------------------------------------------------------------------
(* REFUND                                                                  *)

\* MUTANT: a row found under the key is run as if it were new.
RefundCreateAsNew(h, k, amount) ==
  /\ job[h] = Idle
  /\ k \in Serves[h]
  /\ amount \in RefundAsks[k]
  /\ status[RefundedOrder[k]] = "completed"
  /\ amount <= Price[RefundedOrder[k]]
  /\ status' = [status EXCEPT ![k] = IF @ = "absent" THEN "pending" ELSE @]
  /\ refundRow' = [refundRow EXCEPT ![k] = IF status[k] = "absent" THEN amount ELSE @]
  /\ job' = [job EXCEPT ![h] =
       [kind |-> "refund", key |-> k, amount |-> amount,
        full |-> amount = Price[RefundedOrder[k]], recheck |-> FALSE]]
  /\ NoteShared(k) /\ NoteResized(k, amount)
  /\ UNCHANGED <<posted, balance, outbox, payouts, gateway>>

(* project-service asks for a refund of a completed deposit: it lists them *)
(* by that status, and ProcessRefund refuses one that has since become     *)
(* refunded, all that a completed row can become.  The row, its amount and *)
(* its type are what the first request under the key said.                 *)
RefundCreate(h, k, amount) ==
  /\ job[h] = Idle
  /\ k \in Serves[h]
  /\ amount \in RefundAsks[k]
  /\ status[RefundedOrder[k]] = "completed"
  /\ amount <= Price[RefundedOrder[k]]
  /\ status[k] \notin Settled
  /\ status' = [status EXCEPT ![k] = IF @ = "absent" THEN "pending" ELSE @]
  /\ refundRow' = [refundRow EXCEPT ![k] = IF status[k] = "absent" THEN amount ELSE @]
  /\ job' = [job EXCEPT ![h] =
       [kind |-> "refund", key |-> k, amount |-> amount,
        full |-> amount = Price[RefundedOrder[k]],
        recheck |-> status[k] # "absent"]]
  /\ NoteShared(k) /\ NoteResized(k, amount)
  /\ UNCHANGED <<posted, balance, outbox, payouts, gateway>>

(* The project-wide cap: completed refund rows other than this one, against *)
(* deposits whose row is completed now.                                     *)
TotalRefunded(k) ==
  SumFunctionOnSet(refundRow, {r \in RefundKeys \ {k} : status[r] = "completed"})
TotalFunded ==
  SumFunctionOnSet(Price, {o \in Orders : OrderKind[o] = "escrow_in" /\ status[o] = "completed"})
CapAdmits(k, amount) == TotalRefunded(k) + amount <= TotalFunded

RefundRuns(h) ==
  /\ job[h].kind = "refund"
  /\ ~(job[h].recheck /\ status[job[h].key] \in Settled)

(* One transaction: the cap, the draw, the entries, this row completed,    *)
(* and the original marked refunded when all of it was asked back.         *)
RefundSettle(h) ==
  /\ RefundRuns(h)
  /\ LET k == job[h].key
         o == RefundedOrder[k]
         amount == job[h].amount
     IN  /\ CapAdmits(k, amount)
         /\ \E draw \in [Pools -> 0..amount] :
              /\ IsDraw(draw, Pools, amount, balance, PoolId, RefundScope[k])
              /\ PostEntries(k, RefundEntries(amount, draw))
         /\ status' = [t \in Txns |->
              IF t = k THEN "completed"
              ELSE IF t = o /\ job[h].full THEN "refunded" ELSE status[t]]
         /\ Publish(k, IF job[h].full THEN "refunded" ELSE "partial_refund")
  /\ job' = [job EXCEPT ![h] = Idle]
  /\ UNCHANGED <<refundRow, payouts, gateway, history>>

-----------------------------------------------------------------------------
(* A serialization conflict rolls an attempt back; the next one re-reads   *)
(* the row under its lock.                                                 *)
Retry(h) ==
  /\ job[h].kind \in {"release", "refund"}
  /\ ~job[h].recheck
  /\ job' = [job EXCEPT ![h].recheck = TRUE]
  /\ UNCHANGED <<books, gateway, history>>

(* The request ends without a commit: a refusal (funds, cap, stale or      *)
(* partial notification), a replay found under the lock, an error, a crash.*)
Abandon(h) ==
  /\ job[h] # Idle
  /\ job' = [job EXCEPT ![h] = Idle]
  /\ UNCHANGED <<books, gateway, history>>

Next ==
  \/ \E o \in Orders : CreateSnapToken(o) \/ Gateway(o)
  \/ \E h \in Handlers :
       \/ \E o \in Orders, n \in Notices : WebhookRead(h, o, n)
       \/ WebhookCommit(h)
       \/ \E m \in Milestones : ReleaseCreate(h, m)
       \/ ReleaseSettle(h)
       \/ \E k \in RefundKeys : \E amount \in RefundAsks[k] : RefundCreate(h, k, amount)
       \/ RefundSettle(h)
       \/ Retry(h)
       \/ Abandon(h)

Spec == Init /\ [][Next]_vars

-----------------------------------------------------------------------------
(* PROPERTIES                                                              *)

(* Every variable has its type: statuses and jobs of the enumerated kinds, *)
(* integer entries and balances, counted outbox events.                    *)
TypeOK ==
  /\ status \in [Txns -> TxnStatus]
  /\ refundRow \in [RefundKeys -> Nat]
  /\ posted \in [Txns -> [Accounts -> Int]]
  /\ balance \in [Accounts -> Int]
  /\ outbox \in [Txns -> [EventKinds -> Nat]]
  /\ payouts \subseteq Milestones
  /\ job \in [Handlers -> Job]
  /\ charge \in [Orders -> ChargeState]
  /\ sent \in [Orders -> SUBSET Notices]
  /\ shared \subseteq Keys
  /\ resized \subseteq RefundKeys

(* However often and in whatever order notifications arrive, and however   *)
(* deliveries of one order overlap, an order is booked at most once, its   *)
(* booking is undone at most once, and each of the two is announced by     *)
(* exactly one outbox event committed with it.                             *)
OrderBookedOnce ==
  \A o \in Orders :
    LET settled  == outbox[o]["settled"]
        reversed == outbox[o]["refunded"]
    IN  /\ settled <= 1 /\ reversed <= 1
        /\ status[o] = "completed" => settled = 1 /\ reversed = 0
        /\ posted[o] = IF settled > reversed THEN FundingEntries(o) ELSE NoEntries

(* No order is settled on the strength of a charge the gateway holds for   *)
(* review, denied or never captured.                                       *)
SettledOnlyIfCaptured ==
  \A o \in Orders : outbox[o]["settled"] > 0 => charge[o] \in {"captured", "returned"}

(* A milestone's key moves its money exactly once: the entries of one      *)
(* release, one payment.released, and a payout row beside them for a       *)
(* talent with a verified account; none of the three without the others.   *)
ReleasedOnce ==
  \A m \in Milestones :
    LET done == status[m] = "completed"
    IN  /\ posted[m] = IF done THEN ReleaseEntries(m) ELSE NoEntries
        /\ outbox[m]["released"] = IF done THEN 1 ELSE 0
        /\ m \in payouts <=> done /\ TalentOf[m] \in Payable

(* How often a key has moved its money: every move announces itself once.  *)
Moves(k) ==
  IF k \in Milestones THEN outbox[k]["released"]
  ELSE outbox[k]["refunded"] + outbox[k]["partial_refund"]

(* Whoever presents a key and however often, it moves its money once; only *)
(* a key presented to a second request while the first held it can move it *)
(* twice, and none moves it three times.                                   *)
MovesOncePerHolder ==
  \A k \in Keys :
    /\ Moves(k) > 0 <=> status[k] = "completed"
    /\ Moves(k) <= IF k \in shared THEN 2 ELSE 1

(* The entries, the payment.released and the payout row of a release are   *)
(* committed together, and together twice when the key is settled twice.   *)
ReleaseIsWhole ==
  \A m \in Milestones :
    /\ posted[m] = [a \in Accounts |-> Moves(m) * ReleaseEntries(m)[a]]
    /\ m \in payouts <=> Moves(m) > 0 /\ TalentOf[m] \in Payable

(* What the code promises of a release, whoever asks for it.               *)
ReleasesAddUp == MovesOncePerHolder /\ ReleaseIsWhole

(* Releases and refunds never take out of a pool more than it holds: only  *)
(* a reversal forced by the gateway can make a pool negative.              *)
PoolsCovered ==
  (\A o \in Orders : outbox[o]["refunded"] = 0) => \A p \in Pools : balance[p] >= 0

(* accounts.balance is what ledger_entries say: every account holds the    *)
(* sum of its entries, and all accounts cancel out.                        *)
LedgerAgrees ==
  /\ SumFunction(balance) = 0
  /\ \A a \in Accounts :
       balance[a] = SumFunctionOnSet([t \in Txns |-> posted[t][a]], Txns)

(* The ledger and the events announced with it tell one story: the         *)
(* balances are the entries, the platform has earned the price of every    *)
(* settled document and a fee for every release, and the pools hold what   *)
(* was deposited less what was released, given back and taken back.        *)
BooksBalance ==
  LET Booked(o) == outbox[o]["settled"] > outbox[o]["refunded"]
      Escrow    == {o \in Orders : OrderKind[o] = "escrow_in" /\ Booked(o)}
      Documents == {o \in Orders : OrderKind[o] # "escrow_in" /\ Booked(o)}
      Earned    == [m \in Milestones |-> Moves(m) * ReleaseFee[m]]
      Released  == [m \in Milestones |-> Moves(m) * MilestoneAmount[m]]
      GivenBack == [k \in RefundKeys |-> posted[k][Owner]]
  IN  /\ LedgerAgrees
      /\ balance[Platform] = SumFunctionOnSet(Price, Documents) + SumFunction(Earned)
      /\ SumFunctionOnSet(balance, Pools) =
           SumFunctionOnSet(Price, Escrow) - SumFunction(Released) - SumFunction(GivenBack)

(* A settled row is final: completed may only become refunded, refunded    *)
(* never changes, whatever a handler read before it was settled.           *)
SettledIsFinal ==
  [][\A t \in Txns :
       /\ status[t] = "refunded"  => status'[t] = "refunded"
       /\ status[t] = "completed" => status'[t] \in Settled]_vars

(* Releases, fees included, and refunds together never take more out of    *)
(* the pools than settled deposits ever put in.                            *)
EscrowCoversPayments ==
  SumFunction([t \in Milestones \cup RefundKeys |-> -SumFunctionOnSet(posted[t], Pools)])
    <= SumFunction([o \in Orders |->
         IF OrderKind[o] = "escrow_in" THEN outbox[o]["settled"] * Price[o] ELSE 0])

(* Nor does a refund key give back anything but what its row says, unless  *)
(* two requests shared it or it was resumed for another amount; what it    *)
(* gives back then is still announced by as many events.                   *)
PaymentsWithinDeposits ==
  /\ EscrowCoversPayments
  /\ \A k \in RefundKeys :
       /\ posted[k][Owner] > 0 <=> Moves(k) > 0
       /\ k \notin shared \cup resized =>
            posted[k][Owner] = IF status[k] = "completed" THEN refundRow[k] ELSE 0

-----------------------------------------------------------------------------
(* The promise this module implements.  An order is booked once announced  *)
(* as settled and undone once announced as refunded; a key has moved its   *)
(* money as often as that was announced, and is contested once two         *)
(* requests have held it.                                                  *)
OrderState ==
  [o \in Orders |-> IF outbox[o]["refunded"] > 0 THEN "undone"
                    ELSE IF outbox[o]["settled"] > 0 THEN "booked" ELSE "open"]
DrawTotal(draw) == SumFunctionOnSet(draw, Pools)
Promise ==
  INSTANCE EscrowPromise WITH
    Refunds <- RefundKeys, Amount <- MilestoneAmount, Fee <- ReleaseFee, Asked <- RefundAsks, Sum <- DrawTotal,
    Booking <- [o \in Orders |-> FundingEntries(o)],
    order <- OrderState,
    moved <- [k \in Keys |-> Moves(k)],
    contested <- shared

(* Every behaviour keeps the promise: whatever requests, retries, crashes  *)
(* and notifications do, money moves only as EscrowPromise says.           *)
KeepsPromise == Promise!Spec
=============================================================================
