-------------------------- MODULE MCEscrowLedger --------------------------
(***************************************************************************)
(* Values for the constants of EscrowLedger, for TLC.  Amounts are a few   *)
(* rupiah: what matters is which guards they make pass and fail.           *)
(***************************************************************************)
EXTENDS EscrowLedger, TLC

CONSTANTS dep, doc, p1, p2, m1, m2, t1, t2, r1, r2, h1, h2

\* Two packages of 1 and 2; a deposit of 5 is split 1 and 4 by the code's rule.
McShare == [o \in Orders |->
  LET s == AllocateEscrowShares(Price[o], <<1, 2>>)
  IN  [p \in Pools |-> IF p = p1 THEN s[1] ELSE s[2]]]
McPoolId == [p \in Pools |-> IF p = p1 THEN 1 ELSE 2]
McKind == [o \in Orders |-> IF o = doc THEN "brd_payment" ELSE "escrow_in"]
McPrice == [o \in Orders |-> IF o = doc THEN 1 ELSE 5]
McTalentOf == [m \in Milestones |-> IF m = m1 THEN t1 ELSE t2]
McPoolOf == [m \in Milestones |-> IF m = m1 THEN p2 ELSE p1]
McAmount == [m \in Milestones |-> IF m = m1 THEN 2 ELSE 1]
McFee == [m \in Milestones |-> MilestoneFee(McAmount[m], 2, 1)]
McRefunded == [k \in RefundKeys |-> dep]
McScope == [k \in RefundKeys |-> IF k = r2 THEN p1 ELSE NoScope]

\* Any request may present any key, at the same time as another.
AnyCaller == [h \in Handlers |-> Keys]
McHandlersAlike == Permutations(Handlers)

Settlement == [ts |-> "settlement", fraud |-> "none"]
Challenge == [ts |-> "capture", fraud |-> "challenge"]
GatewayRefund == [ts |-> "refund", fraud |-> "none"]
SettleOnly == {Settlement}
Authorized == [ts |-> "authorize", fraud |-> "none"]
Accepted == [ts |-> "capture", fraud |-> "accept"]
Denied == [ts |-> "deny", fraud |-> "deny"]
PartlyRefunded == [ts |-> "partial_refund", fraud |-> "none"]
\* One notification for each thing the gateway can do to a charge; the
\* deposit sees a challenge and a reversal, the document a reversal, or one
\* of the rest beside its capture.
OneOfEach ==
  {Settlement, Challenge, GatewayRefund, Authorized, Accepted, Denied, PartlyRefunded}
McSends == [o \in Orders |->
  {s \in IF o = dep THEN SUBSET {Settlement, Challenge, GatewayRefund}
         ELSE UNION {SUBSET {Accepted, n} : n \in OneOfEach \ {Settlement, Challenge}} :
     s \subseteq Notices}]

AskFull == [k \in RefundKeys |-> {Price[McRefunded[k]]}]
\* One key asks for the whole deposit, the other for a part and then for all.
AskPart == [k \in RefundKeys |-> IF k = r1 THEN {5} ELSE {2, 5}]
===========================================================================
