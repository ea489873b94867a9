---------------------------- MODULE PaymentRules ----------------------------
(***************************************************************************)
(* The pure rules of payment-service: how a gateway notification maps to a *)
(* transaction status, which status may replace which, how a deposit is    *)
(* split over the escrow pools and how a refund draws them down.  They are *)
(* operators without state, shared by the state machines of this project.  *)
(***************************************************************************)
EXTENDS Integers, Sequences, FiniteSets, Functions

TxnStatus == {"absent", "pending", "processing", "completed", "failed", "refunded"}
\* Statuses a stored row can have; "absent" is a key no row carries yet.
RowStatus == TxnStatus \ {"absent"}
\* A release or refund in one of these is a replay, never run again.
Settled == {"completed", "refunded"}

DocumentKinds == {"brd_payment", "prd_payment", "revision_fee"}
OrderKinds == {"escrow_in"} \cup DocumentKinds

(* A notification of the gateway: its transaction_status and fraud_status. *)
Notice == [ts : {"capture", "settlement", "pending", "deny", "refund",
                 "partial_refund", "authorize"},
           fraud : {"accept", "challenge", "deny", "none"}]

\* MUTANT: fraud_status is not looked at.
MapIgnoringFraud(n, current) ==
  CASE n.ts \in {"capture", "settlement"} -> "completed"
    [] n.ts = "pending" -> "processing"
    [] n.ts = "deny"    -> "failed"
    [] n.ts \in {"refund", "partial_refund"} -> "refunded"
    [] OTHER -> current

(* The internal status a notification asks for.  "deny" stands for deny,   *)
(* cancel and expire, which the code maps alike; "authorize" for every     *)
(* transaction_status the switch does not name.                            *)
MapMidtransStatus(n, current) ==
  CASE n.ts = "capture" ->
         (CASE n.fraud = "accept" -> "completed"
            [] n.fraud = "deny"   -> "failed"
            [] OTHER              -> "processing")
    [] n.ts = "settlement" ->
         (CASE n.fraud = "challenge" -> "processing"
            [] n.fraud = "deny"      -> "failed"
            [] OTHER                 -> "completed")
    [] n.ts = "pending" -> "processing"
    [] n.ts = "deny"    -> "failed"
    [] n.ts \in {"refund", "partial_refund"} -> "refunded"
    [] OTHER -> current

\* MUTANT: any change is taken, so a stale notification undoes a settlement.
SupersedesAnyChange(current, next) == current # next

(* Whether status next may replace status current.                         *)
Supersedes(current, next) ==
  CASE current = "refunded"  -> FALSE
    [] current = "completed" -> next = "refunded"
    [] OTHER                 -> current # next

-----------------------------------------------------------------------------
NonNeg(x) == IF x > 0 THEN x ELSE 0

(* The package a deposit's rounding remainder lands on: the first of the   *)
(* largest, in the order work_packages are listed.                         *)
LargestPackage(weight) ==
  CHOOSE i \in DOMAIN weight :
    /\ \A j \in DOMAIN weight : weight[j] <= weight[i]
    /\ \A j \in DOMAIN weight : weight[j] = weight[i] => i <= j

\* MUTANT: the remainder is dropped instead of landing on a package.
FloorShares(deposit, weight) ==
  LET total == SumFunction([i \in DOMAIN weight |-> NonNeg(weight[i])])
  IN  IF deposit <= 0 \/ total <= 0 THEN <<>>
      ELSE [i \in DOMAIN weight |-> (deposit * NonNeg(weight[i])) \div total]

(* A deposit split over the packages in proportion to their amounts, the   *)
(* remainder on the largest.  The empty function is the signal to fund one *)
(* project level pool instead.                                             *)
AllocateEscrowShares(deposit, weight) ==
  LET total   == SumFunction([i \in DOMAIN weight |-> NonNeg(weight[i])])
      floor   == [i \in DOMAIN weight |-> (deposit * NonNeg(weight[i])) \div total]
  IN  IF deposit <= 0 \/ total <= 0
      THEN <<>>
      ELSE [floor EXCEPT ![LargestPackage(weight)] =
              @ + deposit - SumFunction(floor)]

-----------------------------------------------------------------------------
(* Pool p is drawn before pool q by a refund: the scoped package first,    *)
(* then the fullest, ties by account id.                                   *)
DrawnBefore(p, q, bal, id, scope) ==
  IF p = scope \/ q = scope
  THEN p = scope /\ q # scope
  ELSE bal[p] > bal[q] \/ (bal[p] = bal[q] /\ id[p] < id[q])

(* draw takes exactly amount out of the pools S, never more than a pool    *)
(* holds, and touches a pool only when every pool before it is empty.      *)
IsDraw(draw, S, amount, bal, id, scope) ==
  /\ \A p \in S : draw[p] <= NonNeg(bal[p])
  /\ SumFunctionOnSet(draw, S) = amount
  /\ \A p, q \in S :
       DrawnBefore(p, q, bal, id, scope) /\ draw[q] > 0 => draw[p] = NonNeg(bal[p])

\* MUTANT: every pool gives its whole balance.
DrawWholePools(order, amount, bal) ==
  [refused |-> SumFunction([i \in DOMAIN order |-> NonNeg(bal[order[i]])]) < amount,
   draw    |-> [p \in Range(order) |-> NonNeg(bal[p])]]

(* drawFromEscrow as the loop it is: pools in the order given, each giving *)
(* min(balance, remaining).  Checked against IsDraw in PaymentRulesSpec.  *)
DrawFromEscrow(order, amount, bal) ==
  LET left[i \in 0..Len(order)] ==
        IF i = 0 THEN amount
        ELSE left[i - 1] - (IF NonNeg(bal[order[i]]) < left[i - 1]
                            THEN NonNeg(bal[order[i]]) ELSE left[i - 1])
  IN  [refused |-> left[Len(order)] > 0,
       draw    |-> [p \in Range(order) |->
                      LET i == CHOOSE j \in 1..Len(order) : order[j] = p
                      IN  left[i - 1] - left[i]]]

-----------------------------------------------------------------------------
(* Rounding to the nearest rupiah, halves up: Math.round on a non-negative *)
(* quotient num / den.                                                     *)
RoundDiv(num, den) == (2 * num + den) \div (2 * den)

\* MUTANT: the talent's slice is cut to whole rupiah instead of rounded.
MilestoneFeeFloor(amount, gross, payout) ==
  IF amount <= 0 \/ gross <= 0 \/ payout < 0 THEN -1
  ELSE amount - (amount * payout) \div gross

(* The platform's slice of a milestone, -1 when the pricing is unusable.   *)
MilestoneFee(amount, gross, payout) ==
  LET fee == amount - RoundDiv(amount * payout, gross)
  IN  IF amount <= 0 \/ gross <= 0 \/ payout < 0 THEN -1
      ELSE IF fee < 0 \/ fee >= amount THEN -1 ELSE fee

\* MUTANT: the whole price is paid at the share of the band it falls in.
FlatTalentPayout(price, maxFee, share) ==
  LET band == CHOOSE b \in DOMAIN share :
                /\ b > Len(maxFee) \/ price <= maxFee[b]
                /\ \A c \in 1..(b - 1) : price > maxFee[c]
  IN  RoundDiv(price * share[band], 100)

(* The talents' total for a project price, each band paid at its own       *)
(* share.  Band b covers prices up to maxFee[b]; share is in percent and   *)
(* the last band has no upper end.                                         *)
ProjectTalentPayout(price, maxFee, share) ==
  LET Band(b) == LET lower == IF b = 1 THEN 0 ELSE maxFee[b - 1]
                     upper == IF b > Len(maxFee) \/ price < maxFee[b] THEN price ELSE maxFee[b]
                 IN  NonNeg(upper - lower) * share[b]
  IN  IF price <= 0 THEN 0
      ELSE RoundDiv(SumFunction([b \in DOMAIN share |-> Band(b)]), 100)

\* MUTANT: nobody takes the remainder of the rounding.
RoundedPayouts(amount, payout) ==
  LET price == SumFunction([i \in DOMAIN amount |-> NonNeg(amount[i])])
  IN  [i \in DOMAIN amount |->
         IF price <= 0 THEN 0 ELSE RoundDiv(NonNeg(amount[i]) * payout, price)]

(* The talents' total spread over the packages pro rata; the last priced   *)
(* package absorbs what the rounding left, within what it is worth.        *)
PackagePayouts(amount, payout) ==
  LET worth == [i \in DOMAIN amount |-> NonNeg(amount[i])]
      price == SumFunction(worth)
      each  == [i \in DOMAIN amount |-> RoundDiv(worth[i] * payout, price)]
      last  == CHOOSE i \in DOMAIN amount :
                 worth[i] > 0 /\ \A j \in DOMAIN amount : worth[j] > 0 => j <= i
      left  == NonNeg(each[last] + payout - SumFunction(each))
  IN  IF price <= 0 THEN [i \in DOMAIN amount |-> 0]
      ELSE [each EXCEPT ![last] = IF left < worth[last] THEN left ELSE worth[last]]
=============================================================================
