--------------------------- MODULE EscrowPromise ---------------------------
(***************************************************************************)
(* What payment-service promises about a project's money, with no request, *)
(* row or notification in sight: an order is booked once and undone once,  *)
(* a milestone is paid once out of a pool that covers it, a refund gives   *)
(* back once what the pools hold, and nothing else moves a balance.  A     *)
(* payment that came to be contested before it was made may be made a      *)
(* second time, under the same conditions.  EscrowLedger implements it.    *)
(***************************************************************************)
EXTENDS Integers

CONSTANTS
  Orders, Milestones, Refunds, Pools, Talents,
  Owner, Platform,
  Booking,   \* [Orders -> [accounts -> Int]], what settling an order moves
  Amount,    \* [Milestones -> Nat], gross
  Fee,       \* [Milestones -> Nat], the platform's part of it
  PoolOf,    \* [Milestones -> Pools]
  TalentOf,  \* [Milestones -> Talents]
  Sum(_),    \* what a draw takes from all pools together
  Asked      \* [Refunds -> SUBSET Nat], amounts a refund may ask for

VARIABLES
  order,     \* [Orders -> {"open", "booked", "undone"}]
  moved,     \* [Milestones \cup Refunds -> 0..2], times paid or given back
  contested, \* payments that more than one party may make
  balance    \* the account balances

vars == <<order, moved, contested, balance>>
Accounts == {Owner, Platform} \cup Talents \cup Pools
Payments == Milestones \cup Refunds

Init ==
  /\ order = [o \in Orders |-> "open"]
  /\ moved = [k \in Payments |-> 0]
  /\ contested = {}
  /\ balance = [a \in Accounts |-> 0]

Move(e) == balance' = [a \in Accounts |-> balance[a] + e[a]]

Book(o) ==
  /\ order[o] = "open"
  /\ order' = [order EXCEPT ![o] = "booked"]
  /\ Move(Booking[o])
  /\ UNCHANGED <<moved, contested>>

(* The gateway takes an order back: what its booking moved moves back, and *)
(* an order never booked can no longer be.                                 *)
Undo(o) ==
  /\ order[o] # "undone"
  /\ order' = [order EXCEPT ![o] = "undone"]
  /\ IF order[o] = "booked"
     THEN Move([a \in Accounts |-> -Booking[o][a]])
     ELSE UNCHANGED balance
  /\ UNCHANGED <<moved, contested>>

(* A second party comes to a payment still to be made.                     *)
Contest(k) ==
  /\ moved[k] = 0
  /\ contested' = contested \cup {k}
  /\ UNCHANGED <<order, moved, balance>>

(* A payment is made once, or once more by the other party to it.          *)
Count(k) ==
  /\ moved[k] = 0 \/ (moved[k] = 1 /\ k \in contested)
  /\ moved' = [moved EXCEPT ![k] = @ + 1]

Pay(m) ==
  /\ Count(m)
  /\ balance[PoolOf[m]] >= Amount[m]
  /\ Move([a \in Accounts |->
       IF a = TalentOf[m] THEN Amount[m] - Fee[m]
       ELSE IF a = PoolOf[m] THEN -Amount[m]
       ELSE IF a = Platform THEN Fee[m] ELSE 0])
  /\ UNCHANGED <<order, contested>>

GiveBack(k) ==
  /\ Count(k)
  /\ \E amount \in Asked[k] : \E draw \in [Pools -> 0..amount] :
       /\ Sum(draw) = amount
       /\ \A p \in Pools : draw[p] > 0 => draw[p] <= balance[p]
       /\ Move([a \in Accounts |->
            IF a = Owner THEN amount ELSE IF a \in Pools THEN -draw[a] ELSE 0])
  /\ UNCHANGED <<order, contested>>

Next ==
  \/ \E o \in Orders : Book(o) \/ Undo(o)
  \/ \E k \in Payments : Contest(k)
  \/ \E m \in Milestones : Pay(m)
  \/ \E k \in Refunds : GiveBack(k)

Spec == Init /\ [][Next]_vars
=============================================================================
