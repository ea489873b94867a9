-------------------------- MODULE PaymentRulesSpec --------------------------
(***************************************************************************)
(* What the pure rules are supposed to compute, as properties of behaviors *)
(* that hold one input each and never change it.                           *)
(***************************************************************************)
EXTENDS PaymentRules

CONSTANTS
  MaxDeposit, MaxWeight,  \* deposits and package amounts to split
  MaxBalance,             \* pool balances a refund draws on, down to -1
  MaxGross,               \* package prices split into milestones
  MaxAmount,              \* packages a project is priced from
  MaxPrice                \* project prices, in millions of rupiah times ten

VARIABLE input

RulesInputs ==
       [rule : {"shares"}, deposit : 0..MaxDeposit, weight : [1..3 -> 0..MaxWeight]]
  \cup [rule : {"draw"}, amount : 1..(3 * MaxBalance + 1),
        bal : [1..3 -> (-1)..MaxBalance], scope : 0..3]
  \cup {i \in [rule : {"fee"}, gross : 1..MaxGross, payout : 1..MaxGross,
               parts : [1..3 -> 1..MaxGross]] :
          i.payout < i.gross /\ SumFunction(i.parts) = i.gross}
  \cup [rule : {"packages"}, amount : [1..3 -> 0..MaxAmount]]
  \cup [rule : {"payout"}, price : 0..MaxPrice]

RulesInit == input \in RulesInputs
RulesNext == UNCHANGED input
RulesSpec == RulesInit /\ [][RulesNext]_input

\* The first bands of the published table.
MaxFee == <<30, 50, 100>>
TalentShare == <<92, 89, 86, 83>>

(* A deposit is handed out to the rupiah, nobody gets less than the floor  *)
(* of a proportional share, and only the largest package gets more.        *)
SharesConserveDeposit ==
  input.rule = "shares" =>
    LET w     == input.weight
        total == SumFunction(w)
        s     == AllocateEscrowShares(input.deposit, w)
    IN  IF input.deposit = 0 \/ total = 0 THEN s = <<>>
        ELSE /\ SumFunction(s) = input.deposit
             /\ \A i \in DOMAIN w :
                  /\ s[i] * total >= input.deposit * w[i] - total + 1
                  /\ (s[i] * total > input.deposit * w[i] =>
                        \A j \in DOMAIN w : w[j] <= w[i])

\* The order processRefundTx visits the pools in.
Visited ==
  CHOOSE o \in [1..3 -> 1..3] :
    /\ Range(o) = 1..3
    /\ \A i, j \in 1..3 :
         i < j => DrawnBefore(o[i], o[j], input.bal, [p \in 1..3 |-> p], input.scope)

(* The loop over the pools refuses exactly the refunds the pools together  *)
(* cannot cover, and otherwise computes the one draw IsDraw describes.     *)
DrawIsTheDraw ==
  input.rule = "draw" =>
    LET id     == [p \in 1..3 |-> p]
        result == DrawFromEscrow(Visited, input.amount, input.bal)
    IN  IF SumFunction([p \in 1..3 |-> NonNeg(input.bal[p])]) < input.amount
        THEN result.refused
        ELSE /\ ~result.refused
             /\ {d \in [1..3 -> 0..MaxBalance] :
                   IsDraw(d, 1..3, input.amount, input.bal, id, input.scope)} = {result.draw}

(* However a project is cut into packages, the packages' payouts add up to *)
(* the talents' total to the rupiah and none exceeds its package; and      *)
(* however a package is cut into milestones, their payouts add up to its   *)
(* own within half a rupiah a milestone.                                   *)
FeesAddUp ==
  /\ input.rule = "packages" =>
       LET amount == input.amount
           total  == ProjectTalentPayout(SumFunction(amount), MaxFee, TalentShare)
           payout == PackagePayouts(amount, total)
       IN  /\ SumFunction(payout) = total
           /\ \A i \in 1..3 : payout[i] \in 0..amount[i]
  /\ input.rule = "fee" =>
       LET fee == [i \in 1..3 |-> MilestoneFee(input.parts[i], input.gross, input.payout)]
           drift == SumFunction([i \in 1..3 |-> input.parts[i] - fee[i]]) - input.payout
       IN  (\A i \in 1..3 : fee[i] >= 0) => 2 * drift <= 3 /\ 2 * drift >= -3

(* A larger project never pays its talents less, and the platform's part   *)
(* of the price never shrinks either.                                      *)
PayoutMonotone ==
  input.rule = "payout" =>
    LET step == ProjectTalentPayout(input.price + 1, MaxFee, TalentShare)
                  - ProjectTalentPayout(input.price, MaxFee, TalentShare)
    IN  step \in 0..1
=============================================================================
