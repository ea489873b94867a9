--------------------------- MODULE LifecycleProofs ---------------------------
(***************************************************************************)
(* Theorems about Lifecycle for any number of requests, deposits, disputes *)
(* and milestones, and every amount.  After the sums over deposits, five   *)
(* invariants, each kept by every step once the earlier ones hold: types   *)
(* (TInv), the deposits behind the balance (Backed), what a request knows  *)
(* of the balance (EInv), what a resolution has refunded (RInv) and how    *)
(* much of a deposit a split returns (HInv).                               *)
(***************************************************************************)
EXTENDS Lifecycle, FiniteSetTheorems, WellFoundedInduction, TLAPS

-----------------------------------------------------------------------------
(* Sums over finite sets, by induction over the subsets.                   *)

(* A non-empty family of subsets of a finite set has a smallest member.    *)
LEMMA SmallestSubset ==
  ASSUME NEW S, IsFiniteSet(S), NEW Bad, Bad \subseteq SUBSET S, Bad # {}
  PROVE  \E T \in Bad : \A U \in Bad : U \subseteq T => U = T
<1>1. IsWellFoundedOn(StrictSubsetOrdering(S), SUBSET S)
  BY FS_StrictSubsetOrderingWellFounded, FS_FiniteSubsetsOfFinite
<1>2. PICK T \in Bad : \A U \in Bad : <<U, T>> \notin StrictSubsetOrdering(S)
  BY <1>1, WFMin
<1> QED BY <1>2 DEF StrictSubsetOrdering

(* The element a fold takes out first, and the function it folds with.     *)
AnyOf(s) == CHOOSE x \in s : TRUE
IsSum(g, f, S) ==
  g = [s \in SUBSET S |-> IF s = {} THEN 0 ELSE f[AnyOf(s)] + g[s \ {AnyOf(s)}]]

(* A sum is the value at its set of the recursive function it folds with.  *)
LEMMA SumUnfold ==
  ASSUME NEW f, NEW S
  PROVE SumFunctionOnSet(f, S) = (CHOOSE g : IsSum(g, f, S))[S]
BY DEF SumFunctionOnSet, FoldFunctionOnSet, MapThenFoldSet, IsSum, AnyOf

(* A sum takes out the element the fold chooses and adds the rest.         *)
LEMMA SumStep ==
  ASSUME NEW f, NEW S, IsFiniteSet(S)
  PROVE  SumFunctionOnSet(f, S) =
           IF S = {} THEN 0 ELSE f[AnyOf(S)] + SumFunctionOnSet(f, S \ {AnyOf(S)})
<1> DEFINE V(s) == SumFunctionOnSet(f, s)
           Val(s) == IF s = {} THEN 0 ELSE f[AnyOf(s)] + V(s \ {AnyOf(s)})
           Bad == {s \in SUBSET S : V(s) # Val(s)}
<1> HIDE DEF V
<1>p. \A s : s # {} => AnyOf(s) \in s
  BY DEF AnyOf
<1>1. SUFFICES ASSUME Bad # {} PROVE FALSE
  BY DEF V
<1>2. PICK T \in Bad : \A U \in Bad : U \subseteq T => U = T
  <2>1. Bad \subseteq SUBSET S
    OBVIOUS
  <2> HIDE DEF Bad
  <2> QED BY <1>1, <2>1, SmallestSubset
<1>3. \A s \in SUBSET T : s # T => V(s) = Val(s)
  BY <1>2
<1> DEFINE g == CHOOSE g : IsSum(g, f, T)
<1>4. IsSum(g, f, T)
  <2> DEFINE h == [s \in SUBSET T |-> Val(s)]
  <2>1. \A s \in SUBSET T : s # {} => s \ {AnyOf(s)} \in SUBSET T /\ s \ {AnyOf(s)} # T
    BY <1>p
  <2>2. \A s \in SUBSET T : s # {} => h[s \ {AnyOf(s)}] = V(s \ {AnyOf(s)})
    BY <1>3, <2>1
  <2>3. IsSum(h, f, T)
    BY <2>2 DEF IsSum
  <2> QED BY <2>3
<1>5. \A s \in SUBSET T : g[s] = IF s = {} THEN 0 ELSE f[AnyOf(s)] + g[s \ {AnyOf(s)}]
  BY <1>4 DEF IsSum
<1> HIDE DEF g
<1>6. \A s \in SUBSET T : s # T => g[s] = V(s)
  <2> DEFINE Off == {s \in SUBSET T : s # T /\ g[s] # V(s)}
  <2>1. SUFFICES ASSUME Off # {} PROVE FALSE
    OBVIOUS
  <2>f. IsFiniteSet(T)
    BY FS_Subset
  <2>2. PICK s \in Off : \A U \in Off : U \subseteq s => U = s
    <3>1. Off \subseteq SUBSET T
      OBVIOUS
    <3> HIDE DEF Off
    <3> QED BY <2>1, <2>f, <3>1, SmallestSubset
  <2>3. CASE s = {}
    BY <2>2, <2>3, <1>3, <1>5
  <2>4. CASE s # {}
    <3>1. s \ {AnyOf(s)} \in SUBSET T /\ s \ {AnyOf(s)} # s /\ s \ {AnyOf(s)} # T
      BY <2>4, <1>p
    <3>2. g[s \ {AnyOf(s)}] = V(s \ {AnyOf(s)})
      BY <3>1, <2>2
    <3> QED BY <2>4, <3>2, <1>3, <1>5
  <2> QED BY <2>3, <2>4
<1>7. V(T) = g[T]
  BY SumUnfold DEF V, g
<1>8. T # {} => T \ {AnyOf(T)} \in SUBSET T /\ T \ {AnyOf(T)} # T
  BY <1>p
<1>9. V(T) = Val(T)
  BY <1>5, <1>6, <1>7, <1>8
<1> QED BY <1>9

(* Nothing adds up to zero.                                                *)
LEMMA SumEmpty == \A f : SumFunctionOnSet(f, {}) = 0
BY SumStep, FS_EmptySet

(* A sum of numbers is a number, and any element can be taken out of it.   *)
LEMMA SumRemove ==
  ASSUME NEW f, NEW S, IsFiniteSet(S), \A x \in S : f[x] \in Nat
  PROVE  /\ SumFunctionOnSet(f, S) \in Nat
         /\ \A e \in S : SumFunctionOnSet(f, S) = f[e] + SumFunctionOnSet(f, S \ {e})
<1> DEFINE V(s) == SumFunctionOnSet(f, s)
           Good(s) == V(s) \in Nat /\ \A e \in s : V(s) = f[e] + V(s \ {e})
           Bad == {s \in SUBSET S : ~Good(s)}
<1> HIDE DEF V
<1>1. SUFFICES ASSUME Bad # {} PROVE FALSE
  BY DEF V
<1>2. PICK T \in Bad : \A U \in Bad : U \subseteq T => U = T
  <2>1. Bad \subseteq SUBSET S
    OBVIOUS
  <2> HIDE DEF Bad
  <2> QED BY <1>1, <2>1, SmallestSubset
<1>3. \A s \in SUBSET T : s # T => Good(s)
  BY <1>2
<1>4. IsFiniteSet(T)
  BY FS_Subset
<1>5. \A s \in SUBSET T : V(s) = IF s = {} THEN 0 ELSE f[AnyOf(s)] + V(s \ {AnyOf(s)})
  <2> TAKE s \in SUBSET T
  <2>1. IsFiniteSet(s)
    BY <1>4, FS_Subset
  <2> QED BY <2>1, SumStep DEF V
<1>6. CASE T = {}
  <2>1. V(T) = 0
    BY <1>5, <1>6
  <2>2. Good(T)
    BY <2>1, <1>6
  <2> QED BY <1>2, <2>2
<1>7. CASE T # {}
  <2> DEFINE p == AnyOf(T)
  <2>1. p \in T
    BY <1>7 DEF AnyOf
  <2>2. V(T) = f[p] + V(T \ {p})
    BY <1>5, <1>7
  <2> HIDE DEF p
  <2>3. Good(T \ {p})
    BY <1>3, <2>1
  <2>4. V(T) \in Nat
    BY <2>1, <2>2, <2>3
  <2>5. ASSUME NEW e \in T PROVE V(T) = f[e] + V(T \ {e})
    <3>1. CASE e = p
      BY <3>1, <2>2
    <3>2. CASE e # p
      <4>1. V(T \ {p}) = f[e] + V((T \ {p}) \ {e})
        BY <2>3, <3>2
      <4>2. Good(T \ {e})
        BY <1>3
      <4>3. V(T \ {e}) = f[p] + V((T \ {e}) \ {p})
        BY <2>1, <4>2, <3>2
      <4> DEFINE rest == V((T \ {p}) \ {e})
      <4>4. V(T \ {p}) = f[e] + rest /\ rest \in Nat
        BY <4>1, <4>2, <1>3, <2>1
      <4>5. (T \ {p}) \ {e} = (T \ {e}) \ {p}
        OBVIOUS
      <4>6. V(T \ {e}) = f[p] + rest
        BY <4>3, <4>5
      <4>7. f[e] \in Nat /\ f[p] \in Nat
        BY <2>1
      <4> HIDE DEF rest
      <4> QED BY <2>2, <4>4, <4>6, <4>7
    <3> QED BY <3>1, <3>2
  <2> QED BY <1>2, <2>4, <2>5
<1> QED BY <1>6, <1>7

(* A new element adds its term.                                            *)
LEMMA SumAdd ==
  ASSUME NEW S, IsFiniteSet(S), NEW e, e \notin S, NEW f, \A x \in S \cup {e} : f[x] \in Nat
  PROVE  SumFunctionOnSet(f, S \cup {e}) = SumFunctionOnSet(f, S) + f[e]
<1>1. IsFiniteSet(S \cup {e}) /\ e \in S \cup {e} /\ (S \cup {e}) \ {e} = S
  BY FS_AddElement
<1>2. SumFunctionOnSet(f, S \cup {e}) = f[e] + SumFunctionOnSet(f, S)
  BY <1>1, SumRemove
<1>3. f[e] \in Nat /\ SumFunctionOnSet(f, S) \in Nat
  BY SumRemove
<1> QED BY <1>2, <1>3

-----------------------------------------------------------------------------
(* Types, and what a request is about.                                     *)

(* The smaller of two numbers.                                             *)
LEMMA MinOfTwo ==
  ASSUME NEW a \in Int, NEW b \in Int
  PROVE  Min({a, b}) = IF a <= b THEN a ELSE b
BY DEF Min

Request == [at : Steps, cause : Causes, goal : Goals, sawReview : BOOLEAN,
            left : SUBSET Deposits, remaining : Nat]

(* What a request is at determines what it is about.                       *)
AboutItsStep(r) ==
  /\ r.at \in {"gate", "read", "write"} => r.cause = Cancel /\ r.goal \in Later
  /\ r.at = "gate" => r.goal \in Ended
  /\ r.at \in {"size", "list", "refund"} =>
       \/ r.cause = Cancel /\ r.goal = "cancelled"
       \/ r.cause \in Disputes /\ r.goal \in {"funds_to_owner", "split"}
  /\ r.at = "record" => r.cause \in Disputes /\ r.goal \in Outcomes
  /\ r.at = "insert" => r.cause \in Disputes
  /\ r.at = "move" => r.cause \in Disputes /\ r.goal \in DisputeStatuses

Requests == \A c \in Callers : AboutItsStep(call[c])
Completed == {d \in Deposits : deposit[d] = "completed"}
TInv == TypeOK /\ Requests

(* Numbers and sets of the constants.                                      *)
LEMMA ConstantsFacts ==
  /\ \A d \in Deposits : Amounts[d] \in Nat /\ Amounts[d] > 0
  /\ Deposits \subseteq Nat /\ IsFiniteSet(Deposits)
  /\ Cancel \notin Disputes /\ Milestones \in Nat
<1>1. Amounts \in [1..Len(Amounts) -> Nat \ {0}] /\ Len(Amounts) \in Nat
  BY ConstantsAssumption
<1>2. Deposits = 1..Len(Amounts)
  BY <1>1 DEF Deposits
<1>3. IsFiniteSet(1..Len(Amounts))
  BY <1>1, FS_Interval
<1> QED BY <1>1, <1>2, <1>3, ConstantsAssumption

(* The idle request is a request, and fits its step.                       *)
LEMMA IdleFits == Idle \in Request /\ AboutItsStep(Idle)
BY DEF Idle, Request, Steps, Goals, Causes, AboutItsStep

(* A step that changes the request of one caller to a fitting one.         *)
LEMMA RequestStep ==
  ASSUME TInv, NEW c \in Callers, NEW r \in Request, AboutItsStep(r),
         call' = [call EXCEPT ![c] = r]
  PROVE  call' \in [Callers -> Request] /\ Requests'
<1>1. call \in [Callers -> Request]
  BY DEF TInv, TypeOK, Request
<1>2. \A b \in Callers : call'[b] = IF b = c THEN r ELSE call[b]
  BY <1>1
<1> QED BY <1>1, <1>2 DEF TInv, Requests

(* The initial state is typed.                                             *)
LEMMA InitTInv == Init => TInv
<1> SUFFICES ASSUME Init PROVE TInv
  OBVIOUS
<1> USE ConstantsFacts
<1>1. call \in [Callers -> Request] /\ status \in Statuses
  BY IdleFits DEF Init, Statuses, Before
<1>2. /\ dispute \in [Disputes -> [status : DisputeStatuses, resolvedAt : BOOLEAN,
                                  outcome : Outcomes \cup {"none"}, scoped : BOOLEAN]]
      /\ unpaid \in 0..Milestones /\ unapproved \in 0..Milestones
  BY DEF Init, Absent, DisputeStatuses
<1>3. TypeOK
  BY <1>1, <1>2 DEF Init, TypeOK, Request
<1>4. Requests
  BY IdleFits DEF Init, Requests
<1> QED BY <1>3, <1>4 DEF TInv

(* The request a handler answers becomes idle.                             *)
LEMMA AnswerFits ==
  ASSUME TInv, NEW c \in Callers, Answer(c)
  PROVE  call' \in [Callers -> Request] /\ Requests'
BY IdleFits, RequestStep DEF Answer

(* A request that moves on to a step its cause and goal fit.               *)
LEMMA GoesFits ==
  ASSUME TInv, NEW c \in Callers, NEW step \in Steps, GoesTo(c, step),
         AboutItsStep([call[c] EXCEPT !.at = step])
  PROVE  call' \in [Callers -> Request] /\ Requests'
<1> DEFINE r == [call[c] EXCEPT !.at = step]
<1>1. call[c] \in Request
  BY DEF TInv, TypeOK, Request
<1>2. r \in Request /\ call' = [call EXCEPT ![c] = r]
  BY <1>1 DEF GoesTo, Request
<1> HIDE DEF r
<1>3. AboutItsStep(r)
  BY DEF r
<1> QED BY <1>2, <1>3, RequestStep

(* What a sizing found: no more than is held, half of that for a split,    *)
(* all of it for a cancellation.                                           *)
LEMMA SizedRequest ==
  ASSUME TypeOK, Requests, NEW c \in Callers, SizeRefund(c)
  PROVE  \E size \in Nat :
           /\ size <= balance
           /\ call[c].goal = "split" => 2 * size <= balance
           /\ call[c].cause = Cancel => size = balance
           /\ call' = [call EXCEPT ![c].remaining = size,
                                   ![c].at = IF size = 0 THEN "refund" ELSE "list"]
           /\ tried' = IF call[c].cause = Cancel THEN tried
                       ELSE [tried EXCEPT ![call[c].cause] =
                               @ \cup (IF size = 0 THEN {"nothing"} ELSE {})
                                 \cup ({call[c].goal} \ {"split"})]
<1>1. PICK claim \in Claims(c) :
        LET size == RefundSize(call[c].goal, claim)
        IN  /\ call' = [call EXCEPT ![c].remaining = size,
                                    ![c].at = IF size = 0 THEN "refund" ELSE "list"]
            /\ tried' = IF call[c].cause = Cancel THEN tried
                        ELSE [tried EXCEPT ![call[c].cause] =
                                @ \cup (IF size = 0 THEN {"nothing"} ELSE {})
                                  \cup ({call[c].goal} \ {"split"})]
  BY DEF SizeRefund
<1>b. balance \in Nat
  BY DEF TypeOK
<1>2. claim \in Nat /\ claim <= balance
  <2>1. CASE claim = balance
    BY <1>b, <2>1
  <2>2. CASE claim # balance
    <3>1. PICK share \in PackageShares : claim = Min({share, balance})
      BY <2>2 DEF Claims
    <3>2. share \in Nat
      BY ConstantsAssumption
    <3>3. claim = IF share <= balance THEN share ELSE balance
      BY <1>b, <3>1, <3>2, MinOfTwo
    <3> QED BY <1>b, <3>2, <3>3
  <2> QED BY <2>1, <2>2
<1>3. call[c].cause = Cancel => claim = balance /\ call[c].goal = "cancelled"
  BY ConstantsAssumption DEF Claims, Requests, AboutItsStep, SizeRefund
<1> DEFINE size == RefundSize(call[c].goal, claim)
<1>4. /\ size \in Nat /\ size <= balance
      /\ call[c].goal = "split" => 2 * size <= balance
      /\ call[c].cause = Cancel => size = balance
  BY <1>b, <1>2, <1>3 DEF RefundSize
<1> HIDE DEF size
<1>5. /\ call' = [call EXCEPT ![c].remaining = size,
                              ![c].at = IF size = 0 THEN "refund" ELSE "list"]
      /\ tried' = IF call[c].cause = Cancel THEN tried
                  ELSE [tried EXCEPT ![call[c].cause] =
                          @ \cup (IF size = 0 THEN {"nothing"} ELSE {})
                            \cup ({call[c].goal} \ {"split"})]
  BY <1>1 DEF size
<1> QED BY <1>4, <1>5

(* Every step keeps the types and what a request is about.                 *)
LEMMA NextTInv == TInv /\ [Next]_vars => TInv'
<1> SUFFICES ASSUME TInv, [Next]_vars PROVE TInv'
  OBVIOUS
<1> USE ConstantsFacts
<1>t. TypeOK /\ Requests /\ call \in [Callers -> Request]
  BY DEF TInv, TypeOK, Request
<1>r. \A c \in Callers : call[c] \in Request /\ AboutItsStep(call[c])
  BY <1>t DEF Requests
<1>s. Statuses = Later \cup {"draft", "scoping", "brd_review", "prd_review"}
  BY DEF Statuses, Later, Before, DISPUTABLE_STATUSES, Ended
<1>a. ASSUME UNCHANGED <<status, escrow, work, dispute, history>>,
             call' \in [Callers -> Request], Requests'
      PROVE  TInv'
  BY <1>t, <1>a DEF TInv, TypeOK, escrow, work, history, Request
<1>1. ASSUME NEW d \in Deposits, FundEscrow(d) PROVE TInv'
  <2>1. balance + Amounts[d] \in Nat
    BY <1>t DEF TypeOK
  <2> QED BY <1>1, <1>t, <2>1 DEF FundEscrow, TypeOK, TInv, Requests, work, history
<1>2. ASSUME PayMilestone PROVE TInv'
  BY <1>2, <1>t DEF PayMilestone, TypeOK, TInv, Requests, work, history
<1>3. ASSUME NEW c \in Callers, NEW target \in Later, AskTransition(c, target) PROVE TInv'
  <2> DEFINE r == [Idle EXCEPT !.at = IF target \in Ended THEN "gate" ELSE "read", !.goal = target,
                    !.sawReview = target = "completed" /\ status = "final_review"]
  <2>1. r \in Request /\ AboutItsStep(r)
    BY <1>3, IdleFits DEF Request, Idle, AboutItsStep, Steps, Goals
  <2>2. call' = [call EXCEPT ![c] = r]
    BY <1>3 DEF AskTransition
  <2> HIDE DEF r
  <2> QED BY <1>3, <1>a, <2>1, <2>2, RequestStep DEF AskTransition
<1>4. ASSUME NEW c \in Callers, Gate(c) PROVE TInv'
  <2>1. \/ GoesTo(c, "read") /\ AboutItsStep([call[c] EXCEPT !.at = "read"])
        \/ GoesTo(c, "size") /\ AboutItsStep([call[c] EXCEPT !.at = "size"])
    BY <1>4, <1>r DEF Gate, Request, AboutItsStep
  <2>2. call' \in [Callers -> Request] /\ Requests'
    BY <2>1, GoesFits DEF Steps
  <2> QED BY <1>4, <1>a, <2>2 DEF Gate
<1>5. ASSUME NEW c \in Callers, ReadStatus(c) PROVE TInv'
  <2>1. \/ Answer(c)
        \/ GoesTo(c, "write") /\ AboutItsStep([call[c] EXCEPT !.at = "write"])
    BY <1>5, <1>r DEF ReadStatus, Request, AboutItsStep
  <2>2. call' \in [Callers -> Request] /\ Requests'
    BY <2>1, GoesFits, AnswerFits DEF Steps
  <2> QED BY <1>5, <1>a, <2>2 DEF ReadStatus
<1>6. ASSUME NEW c \in Callers, WriteStatus(c) PROVE TInv'
  <2>1. call' \in [Callers -> Request] /\ Requests'
    BY <1>6, AnswerFits DEF WriteStatus
  <2>2. status' \in Statuses
    BY <1>6, <1>r, <1>s DEF WriteStatus, AboutItsStep
  <2> QED BY <1>6, <1>t, <2>1, <2>2 DEF WriteStatus, TypeOK, TInv, Request, escrow, work
<1>7. ASSUME NEW c \in Callers, NEW d \in Deposits, SettleEscrow(c, d) PROVE TInv'
  <2> DEFINE r == [Idle EXCEPT !.at = "read", !.goal = "matching"]
  <2>1. r \in Request /\ AboutItsStep(r)
    BY IdleFits DEF Request, Idle, AboutItsStep, Steps, Goals, Later
  <2>2. call' = [call EXCEPT ![c] = r]
    BY <1>7 DEF SettleEscrow
  <2> HIDE DEF r
  <2> QED BY <1>7, <1>a, <2>1, <2>2, RequestStep DEF SettleEscrow
<1>8. ASSUME NEW c \in Callers, ApproveMilestone(c) PROVE TInv'
  <2> DEFINE r == [Idle EXCEPT !.at = "read", !.goal = "final_review"]
  <2>1. r \in Request /\ AboutItsStep(r)
    BY IdleFits DEF Request, Idle, AboutItsStep, Steps, Goals, Later, DISPUTABLE_STATUSES
  <2>2. call' = [call EXCEPT ![c] = r] \/ call' = call
    BY <1>8 DEF ApproveMilestone
  <2> HIDE DEF r
  <2>3. call' \in [Callers -> Request] /\ Requests'
    BY <1>t, <2>1, <2>2, RequestStep DEF Requests
  <2>4. unapproved' \in 0..Milestones
    BY <1>8, <1>t DEF ApproveMilestone, TypeOK
  <2> QED BY <1>8, <1>t, <2>3, <2>4 DEF ApproveMilestone, TypeOK, TInv, Request, escrow, history
<1>9. ASSUME NEW c \in Callers, SizeRefund(c) PROVE TInv'
  <2>1. PICK size \in Nat :
          /\ call' = [call EXCEPT ![c].remaining = size,
                                  ![c].at = IF size = 0 THEN "refund" ELSE "list"]
          /\ tried' = IF call[c].cause = Cancel THEN tried
                      ELSE [tried EXCEPT ![call[c].cause] =
                              @ \cup (IF size = 0 THEN {"nothing"} ELSE {})
                                \cup ({call[c].goal} \ {"split"})]
    BY <1>9, <1>t, SizedRequest
  <2> DEFINE r == [call[c] EXCEPT !.at = IF size = 0 THEN "refund" ELSE "list",
                                  !.remaining = size]
  <2>2. r \in Request /\ AboutItsStep(r)
    BY <1>9, <1>r DEF SizeRefund, Request, AboutItsStep, Steps
  <2>3. call' = [call EXCEPT ![c] = r]
    BY <1>r, <1>t, <2>1 DEF Request
  <2>4. tried' \in [Disputes -> SUBSET {"funds_to_owner", "nothing", "gone"}]
    <3>1. call[c].cause = Cancel \/ call[c].goal \in {"funds_to_owner", "split"}
      BY <1>9, <1>r DEF SizeRefund, AboutItsStep
    <3> QED BY <1>t, <1>r, <2>1, <3>1 DEF TypeOK
  <2>5. call' \in [Callers -> Request] /\ Requests'
    <3> HIDE DEF r
    <3> QED BY <2>2, <2>3, RequestStep
  <2> QED BY <1>9, <1>t, <2>4, <2>5 DEF SizeRefund, TypeOK, TInv, Request, escrow, work
<1>l. ASSUME NEW c \in Callers, ListDeposits(c) PROVE TInv'
  <2> DEFINE r == [call[c] EXCEPT !.at = "refund", !.left = Completed]
  <2>1. r \in Request /\ AboutItsStep(r)
    BY <1>l, <1>r DEF ListDeposits, Request, AboutItsStep, Steps, Completed
  <2>2. call' = [call EXCEPT ![c] = r]
    BY <1>l, <1>r, <1>t DEF ListDeposits, Request, Completed
  <2>3. call' \in [Callers -> Request] /\ Requests'
    <3> HIDE DEF r
    <3> QED BY <2>1, <2>2, RequestStep
  <2>4. tried' \in [Disputes -> SUBSET {"funds_to_owner", "nothing", "gone"}]
    BY <1>l, <1>t DEF ListDeposits, TypeOK
  <2> QED BY <1>l, <1>t, <2>3, <2>4 DEF ListDeposits, TypeOK, TInv, Request, escrow, work
<1>10. ASSUME NEW c \in Callers, NEW d \in Deposits, RefundDeposit(c, d) PROVE TInv'
  <2> DEFINE k == call[c].cause
             amount == Min({call[c].remaining, Amounts[d]})
             r == [call[c] EXCEPT !.left = @ \ {d}, !.remaining = @ - amount]
  <2>1. amount \in Nat /\ amount <= call[c].remaining /\ k \in Causes
    <3>1. call[c].remaining \in Nat /\ Amounts[d] \in Nat /\ k \in Causes
      BY <1>r DEF Request
    <3>2. amount = IF call[c].remaining <= Amounts[d] THEN call[c].remaining ELSE Amounts[d]
      BY <3>1, MinOfTwo
    <3> QED BY <3>1, <3>2
  <2>2. r \in Request /\ AboutItsStep(r)
    <3>1. call[c] \in Request /\ AboutItsStep(call[c])
      BY <1>r
    <3>2. call[c].remaining - amount \in Nat
      <4> HIDE DEF amount
      <4> QED BY <2>1, <3>1 DEF Request
    <3> HIDE DEF amount
    <3>3. r \in Request /\ r.at = call[c].at /\ r.cause = call[c].cause /\ r.goal = call[c].goal
      BY <3>1, <3>2 DEF Request
    <3> HIDE DEF r
    <3> QED BY <3>1, <3>3 DEF AboutItsStep
  <2>3. Answer(c) \/ call' = [call EXCEPT ![c] = r]
    BY <1>10, <1>r, <1>t DEF RefundDeposit, Request
  <2>4. call' \in [Callers -> Request] /\ Requests'
    <3> HIDE DEF r
    <3> QED BY <2>2, <2>3, RequestStep, AnswerFits
  <2>5. /\ asked' \in [Causes -> [Deposits -> Nat]]
        /\ moved' \in [Causes -> [Deposits -> Nat]]
        /\ balance' \in Nat
        /\ deposit' \in [Deposits -> {"pending", "completed", "refunded"}]
    <3>1. CASE RefundMoves(k, d, amount)
      <4> HIDE DEF amount, k
      <4> QED BY <1>t, <2>1, <3>1 DEF RefundMoves, RefundRow, TypeOK
    <3>2. CASE UNCHANGED <<deposit, balance, asked, moved>>
      BY <1>t, <3>2 DEF TypeOK
    <3>3. CASE RefundRow(k, d, amount) /\ UNCHANGED <<deposit, balance, moved>>
      <4> HIDE DEF amount, k
      <4> QED BY <1>t, <2>1, <3>3 DEF RefundRow, TypeOK
    <3> QED BY <1>10, <3>1, <3>2, <3>3 DEF RefundDeposit
  <2> QED BY <1>10, <1>t, <2>4, <2>5 DEF RefundDeposit, TypeOK, TInv, Request, work, history
<1>11. ASSUME NEW c \in Callers, RefundsDone(c) PROVE TInv'
  <2> DEFINE r == [call[c] EXCEPT !.at = IF call[c].cause = Cancel THEN "read" ELSE "record",
                                  !.left = {}, !.remaining = 0]
  <2>1. r \in Request /\ AboutItsStep(r)
    BY <1>11, <1>r DEF RefundsDone, Request, AboutItsStep, Steps, Later, Ended, Outcomes
  <2>2. call' = [call EXCEPT ![c] = r]
    BY <1>11 DEF RefundsDone
  <2> HIDE DEF r
  <2> QED BY <1>11, <1>a, <2>1, <2>2, RequestStep DEF RefundsDone
<1>12. ASSUME NEW c \in Callers, NEW k \in Disputes, AskDispute(c, k) PROVE TInv'
  <2> DEFINE r == [Idle EXCEPT !.at = "insert", !.cause = k]
  <2>1. r \in Request /\ AboutItsStep(r)
    BY IdleFits DEF Request, Idle, AboutItsStep, Steps, Causes
  <2>2. call' = [call EXCEPT ![c] = r]
    BY <1>12 DEF AskDispute
  <2> HIDE DEF r
  <2> QED BY <1>12, <1>a, <2>1, <2>2, RequestStep DEF AskDispute
<1>13. ASSUME NEW c \in Callers, InsertDispute(c) PROVE TInv'
  <2>1. call' \in [Callers -> Request] /\ Requests'
    BY <1>13, AnswerFits DEF InsertDispute
  <2>2. call[c].cause \in Disputes
    BY <1>13, <1>r DEF InsertDispute, AboutItsStep
  <2>3. PICK scoped \in BOOLEAN :
          dispute' = [dispute EXCEPT ![call[c].cause] =
                        [Absent EXCEPT !.status = "unresolved", !.scoped = scoped]]
    BY <1>13 DEF InsertDispute
  <2>4. [Absent EXCEPT !.status = "unresolved", !.scoped = scoped]
          \in [status : DisputeStatuses, resolvedAt : BOOLEAN,
               outcome : Outcomes \cup {"none"}, scoped : BOOLEAN]
    BY DEF Absent, DisputeStatuses
  <2>5. dispute' \in [Disputes -> [status : DisputeStatuses, resolvedAt : BOOLEAN,
                                   outcome : Outcomes \cup {"none"}, scoped : BOOLEAN]]
    BY <1>t, <2>2, <2>3, <2>4 DEF TypeOK
  <2> QED BY <1>13, <1>t, <2>1, <2>5
          DEF InsertDispute, TypeOK, TInv, Request, escrow, work, history
<1>14. ASSUME NEW c \in Callers, NEW k \in Disputes, NEW s \in DisputeStatuses,
              AskDisputeStatus(c, k, s)
       PROVE  TInv'
  <2> DEFINE r == [Idle EXCEPT !.at = "move", !.cause = k, !.goal = s]
  <2>1. r \in Request /\ AboutItsStep(r)
    BY IdleFits DEF Request, Idle, AboutItsStep, Steps, Causes, Goals
  <2>2. call' = [call EXCEPT ![c] = r]
    BY <1>14 DEF AskDisputeStatus
  <2> HIDE DEF r
  <2> QED BY <1>14, <1>a, <2>1, <2>2, RequestStep DEF AskDisputeStatus
<1>15. ASSUME NEW c \in Callers, WriteDisputeStatus(c) PROVE TInv'
  <2>1. call' \in [Callers -> Request] /\ Requests'
    BY <1>15, AnswerFits DEF WriteDisputeStatus
  <2>2. call[c].cause \in Disputes /\ call[c].goal \in DisputeStatuses
    BY <1>15, <1>r DEF WriteDisputeStatus, AboutItsStep
  <2> QED BY <1>15, <1>t, <2>1, <2>2, ZenonT(40)
          DEF WriteDisputeStatus, TypeOK, TInv, Request, escrow, work, history
<1>16. ASSUME NEW c \in Callers, NEW k \in Disputes, NEW outcome \in Outcomes,
              AskResolution(c, k, outcome)
       PROVE  TInv'
  <2> DEFINE r == [Idle EXCEPT !.at = FirstStep(outcome), !.cause = k, !.goal = outcome]
  <2>1. r \in Request /\ AboutItsStep(r)
    BY IdleFits DEF Request, Idle, AboutItsStep, Steps, Causes, Goals, FirstStep, Outcomes
  <2>2. call' = [call EXCEPT ![c] = r]
    BY <1>16 DEF AskResolution
  <2> HIDE DEF r
  <2> QED BY <1>16, <1>a, <2>1, <2>2, RequestStep DEF AskResolution
<1>17. ASSUME NEW c \in Callers, RecordResolution(c) PROVE TInv'
  <2>1. call' \in [Callers -> Request] /\ Requests'
    BY <1>17, AnswerFits DEF RecordResolution
  <2>2. call[c].cause \in Disputes /\ call[c].goal \in Outcomes
    BY <1>17, <1>r DEF RecordResolution, AboutItsStep
  <2>3. dispute' = [dispute EXCEPT ![call[c].cause] =
                      [@ EXCEPT !.status = "resolved", !.resolvedAt = TRUE,
                                !.outcome = call[c].goal]]
    BY <1>17 DEF RecordResolution
  <2>4. [dispute[call[c].cause] EXCEPT !.status = "resolved", !.resolvedAt = TRUE,
                                       !.outcome = call[c].goal]
          \in [status : DisputeStatuses, resolvedAt : BOOLEAN,
               outcome : Outcomes \cup {"none"}, scoped : BOOLEAN]
    <3>1. dispute[call[c].cause] \in [status : DisputeStatuses, resolvedAt : BOOLEAN,
                                       outcome : Outcomes \cup {"none"}, scoped : BOOLEAN]
      BY <1>t, <2>2 DEF TypeOK
    <3>2. "resolved" \in DisputeStatuses /\ call[c].goal \in Outcomes \cup {"none"}
      BY <2>2 DEF DisputeStatuses
    <3> QED BY <3>1, <3>2
  <2>5. dispute' \in [Disputes -> [status : DisputeStatuses, resolvedAt : BOOLEAN,
                                   outcome : Outcomes \cup {"none"}, scoped : BOOLEAN]]
    BY <1>t, <2>2, <2>3, <2>4 DEF TypeOK
  <2> QED BY <1>17, <1>t, <2>1, <2>5
          DEF RecordResolution, TypeOK, TInv, Request, escrow, work, history
<1>18. ASSUME NEW c \in Callers, Crash(c) PROVE TInv'
  BY <1>18, <1>a, AnswerFits DEF Crash
<1>19. CASE UNCHANGED vars
  BY <1>19, <1>a, <1>t DEF vars, escrow, work, history, Requests
<1> QED BY <1>1, <1>2, <1>3, <1>4, <1>5, <1>6, <1>7, <1>8, <1>9, <1>l, <1>10, <1>11, <1>12,
           <1>13, <1>14, <1>15, <1>16, <1>17, <1>18, <1>19
        DEF Next, Transition, Refund, Case

-----------------------------------------------------------------------------
(* The money behind the balance.                                           *)

Settled == {d \in Deposits : deposit[d] # "pending"}
Held == SumFunctionOnSet(Amounts, Completed)

(* The deposits a refund can still take from cover the balance, no refund  *)
(* is of a deposit that has not settled, and a deposit marked refunded was *)
(* refunded for some cause.                                                *)
Backed ==
  /\ balance <= Held /\ balance <= Funded
  /\ \A k \in Causes, d \in Deposits : deposit[d] = "pending" => moved[k][d] = 0
  /\ \A d \in Deposits : deposit[d] = "refunded" => \E k \in Causes : moved[k][d] > 0

(* Any set of deposits has a total.                                        *)
LEMMA DepositSums ==
  ASSUME NEW S, S \subseteq Deposits
  PROVE  /\ SumFunctionOnSet(Amounts, S) \in Nat
         /\ \A d \in S : SumFunctionOnSet(Amounts, S) = Amounts[d] + SumFunctionOnSet(Amounts, S \ {d})
         /\ \A d \in Deposits \ S :
              SumFunctionOnSet(Amounts, S \cup {d}) = SumFunctionOnSet(Amounts, S) + Amounts[d]
<1>1. IsFiniteSet(S) /\ \A d \in Deposits : Amounts[d] \in Nat
  BY ConstantsFacts, FS_Subset
<1>2. \A d \in S : Amounts[d] \in Nat
  BY <1>1
<1>3. ASSUME NEW d \in Deposits \ S
      PROVE  SumFunctionOnSet(Amounts, S \cup {d}) = SumFunctionOnSet(Amounts, S) + Amounts[d]
  BY <1>1, SumAdd
<1> QED BY <1>1, <1>2, <1>3, SumRemove

(* What one refund moves and what a request asks of one deposit.           *)
LEMMA RefundAmount ==
  ASSUME TInv, NEW c \in Callers, NEW d \in Deposits
  PROVE  LET amount == Min({call[c].remaining, Amounts[d]})
         IN  /\ amount \in Nat /\ amount <= call[c].remaining /\ amount <= Amounts[d]
             /\ call[c].remaining > 0 => amount > 0
             /\ amount # Amounts[d] => amount = call[c].remaining
             /\ call[c].remaining \in Nat /\ Amounts[d] \in Nat
             /\ call[c].cause \in Causes
<1>1. call[c].remaining \in Nat /\ Amounts[d] \in Nat /\ Amounts[d] > 0 /\ call[c].cause \in Causes
  BY ConstantsFacts DEF TInv, TypeOK
<1>2. Min({call[c].remaining, Amounts[d]})
        = IF call[c].remaining <= Amounts[d] THEN call[c].remaining ELSE Amounts[d]
  BY <1>1, MinOfTwo
<1> QED BY <1>1, <1>2

(* Only a settlement, a release and a refund touch the money.              *)
LEMMA MoneySteps ==
  ASSUME [Next]_vars
  PROVE  \/ \E d \in Deposits : FundEscrow(d)
         \/ PayMilestone
         \/ \E c \in Callers, d \in Deposits : RefundDeposit(c, d)
         \/ UNCHANGED escrow
BY ZenonT(40) DEF Next, vars, Transition, Refund, Case, AskTransition, Gate, ReadStatus, WriteStatus,
       SettleEscrow, ApproveMilestone, SizeRefund, ListDeposits, RefundsDone, AskDispute, InsertDispute,
       AskDisputeStatus, WriteDisputeStatus, AskResolution, RecordResolution, Crash, escrow

(* A settlement adds its deposit to the balance and to what covers it; a   *)
(* refund takes from both, or marks nothing.                               *)
LEMMA NextBacked ==
  ASSUME TInv, TInv', Backed, [Next]_vars
  PROVE  Backed'
<1>t. TypeOK /\ TypeOK'
  BY DEF TInv
<1>s. /\ Completed \subseteq Deposits /\ Settled \subseteq Deposits
      /\ Completed' \subseteq Deposits /\ Settled' \subseteq Deposits
  BY DEF Completed, Settled
<1>n. Held \in Nat /\ Funded \in Nat /\ balance \in Nat /\ balance' \in Nat
  BY <1>t, <1>s, DepositSums DEF Held, Funded, Settled, TypeOK
<1>f. Funded = SumFunctionOnSet(Amounts, Settled) /\ Funded' = SumFunctionOnSet(Amounts, Settled')
  BY DEF Funded, Settled
<1>1. ASSUME NEW d \in Deposits, FundEscrow(d) PROVE Backed'
  <2>1. deposit' = [deposit EXCEPT ![d] = "completed"] /\ deposit[d] = "pending"
        /\ balance' = balance + Amounts[d] /\ moved' = moved /\ Amounts[d] \in Nat
    BY <1>1, ConstantsFacts DEF FundEscrow, escrow
  <2>2. d \notin Completed /\ Completed' = Completed \cup {d}
        /\ d \notin Settled /\ Settled' = Settled \cup {d}
    BY <1>t, <2>1 DEF Completed, Settled, TypeOK
  <2>3. Held' = Held + Amounts[d] /\ Funded' = Funded + Amounts[d]
    BY <1>s, <1>f, <2>2, DepositSums DEF Held
  <2>4. /\ \A k \in Causes, e \in Deposits : deposit'[e] = "pending" => moved'[k][e] = 0
        /\ \A e \in Deposits : deposit'[e] = "refunded" => \E k \in Causes : moved'[k][e] > 0
    BY <1>t, <2>1 DEF Backed, TypeOK
  <2> QED BY <1>n, <2>1, <2>3, <2>4 DEF Backed
<1>2. ASSUME PayMilestone PROVE Backed'
  <2>1. UNCHANGED <<deposit, moved>> /\ balance' = balance - 1
    BY <1>2 DEF PayMilestone
  <2>2. Held' = Held /\ Funded' = Funded
    BY <2>1 DEF Held, Completed, Funded
  <2> QED BY <1>n, <2>1, <2>2 DEF Backed
<1>3. ASSUME NEW c \in Callers, NEW d \in Deposits, RefundDeposit(c, d) PROVE Backed'
  <2> DEFINE amount == Min({call[c].remaining, Amounts[d]})
             k == call[c].cause
  <2>1. deposit[d] = "completed" /\ amount \in Nat /\ amount <= Amounts[d] /\ k \in Causes
        /\ Amounts[d] \in Nat /\ Amounts[d] > 0
    BY <1>3, RefundAmount, ConstantsFacts DEF RefundDeposit
  <2>2. RefundMoves(k, d, amount) \/ UNCHANGED <<deposit, balance, moved>>
    BY <1>3 DEF RefundDeposit
  <2> HIDE DEF amount, k
  <2>3. CASE RefundMoves(k, d, amount)
    <3>1. /\ deposit' = [deposit EXCEPT ![d] = IF amount = Amounts[d] THEN "refunded" ELSE @]
          /\ balance' = balance - amount /\ moved' = [moved EXCEPT ![k][d] = @ + amount]
      BY <2>3 DEF RefundMoves
    <3>2. Settled' = Settled
      BY <1>t, <2>1, <3>1 DEF Settled, TypeOK
    <3>3. \A e \in Deposits, x \in Causes : deposit'[e] = "pending" => moved'[x][e] = 0
      BY <1>t, <2>1, <3>1 DEF Backed, TypeOK
    <3>4. balance' <= Held'
      <4>1. CASE amount = Amounts[d]
        <5>1. d \in Completed /\ Completed' = Completed \ {d}
          BY <1>t, <2>1, <3>1, <4>1 DEF Completed, TypeOK
        <5>2. Held = Amounts[d] + SumFunctionOnSet(Amounts, Completed \ {d})
              /\ SumFunctionOnSet(Amounts, Completed \ {d}) \in Nat
          BY <1>s, <5>1, DepositSums DEF Held
        <5>3. Held' = SumFunctionOnSet(Amounts, Completed \ {d})
          BY <5>1 DEF Held
        <5> QED BY <1>n, <2>1, <3>1, <4>1, <5>2, <5>3 DEF Backed
      <4>2. CASE amount # Amounts[d]
        <5>1. Completed' = Completed
          BY <1>t, <2>1, <3>1, <4>2 DEF Completed, TypeOK
        <5>2. Held' = Held
          BY <5>1 DEF Held
        <5> QED BY <1>n, <2>1, <3>1, <5>2 DEF Backed
      <4> QED BY <4>1, <4>2
    <3>5. Funded' = Funded
      BY <1>f, <3>2
    <3>6. ASSUME NEW e \in Deposits, deposit'[e] = "refunded"
          PROVE  \E x \in Causes : moved'[x][e] > 0
      <4>1. \A x \in Causes : moved[x][e] \in Nat
        BY <1>t DEF TypeOK
      <4>2. CASE deposit[e] = "refunded"
        <5>1. PICK x \in Causes : moved[x][e] > 0
          BY <4>2 DEF Backed
        <5>2. moved'[x][e] = moved[x][e] \/ moved'[x][e] = moved[x][e] + amount
          BY <1>t, <3>1 DEF TypeOK
        <5> QED BY <2>1, <4>1, <5>1, <5>2
      <4>3. CASE deposit[e] # "refunded"
        <5>1. e = d /\ amount = Amounts[d]
          BY <1>t, <3>1, <3>6, <4>3 DEF TypeOK
        <5>2. moved'[k][d] = moved[k][d] + amount
          BY <1>t, <2>1, <3>1 DEF TypeOK
        <5> QED BY <2>1, <4>1, <5>1, <5>2
      <4> QED BY <4>2, <4>3
    <3> QED BY <1>n, <2>1, <3>1, <3>3, <3>4, <3>5, <3>6 DEF Backed
  <2>4. CASE UNCHANGED <<deposit, balance, moved>>
    BY <2>4 DEF Backed, Held, Completed, Funded
  <2> QED BY <2>2, <2>3, <2>4
<1>4. CASE UNCHANGED escrow
  BY <1>4 DEF Backed, Held, Completed, Funded, escrow
<1> QED BY <1>1, <1>2, <1>3, <1>4, MoneySteps

-----------------------------------------------------------------------------
(* A request at work: what the steps do to one request.                    *)

(* A request that has refunded nothing and decided nothing yet.            *)
Fresh(r) ==
  /\ r.at \notin {"list", "refund"}
  /\ r.at \in {"read", "write"} => r.goal \notin Ended
  /\ r.at = "record" => r.goal = "funds_to_talent"

(* A step leaves a request alone, starts or ends it, or is one of the six  *)
(* steps that carry it on.                                                 *)
LEMMA RequestMoves ==
  ASSUME TInv, [Next]_vars, NEW b \in Callers
  PROVE  \/ call'[b] = call[b]
         \/ Fresh(call'[b])
         \/ Gate(b) \/ ReadStatus(b) \/ SizeRefund(b) \/ ListDeposits(b) \/ RefundsDone(b)
         \/ \E d \in Deposits : RefundDeposit(b, d)
<1> DEFINE Goal == call'[b] = call[b] \/ Fresh(call'[b])
<1>c. call \in [Callers -> Request]
  BY DEF TInv, TypeOK, Request
<1>1. ASSUME NEW c \in Callers, NEW r, call' = [call EXCEPT ![c] = r], Fresh(r) PROVE Goal
  BY <1>1, <1>c
<1>2. ASSUME NEW c \in Callers, NEW r, call' = [call EXCEPT ![c] = r], b # c
      PROVE  call'[b] = call[b]
  BY <1>2, <1>c
<1>i. Fresh(Idle)
  BY DEF Fresh, Idle
<1>3. ASSUME NEW c \in Callers, Answer(c) PROVE Goal
  BY <1>3, <1>1, <1>i DEF Answer
<1>4. ASSUME UNCHANGED call PROVE Goal
  BY <1>4
<1>5. ASSUME NEW d \in Deposits, FundEscrow(d) PROVE Goal
  BY <1>5, <1>4 DEF FundEscrow
<1>6. ASSUME PayMilestone PROVE Goal
  BY <1>6, <1>4 DEF PayMilestone
<1>7. ASSUME NEW c \in Callers, NEW target \in Later, AskTransition(c, target) PROVE Goal
  <2> DEFINE r == [Idle EXCEPT !.at = IF target \in Ended THEN "gate" ELSE "read", !.goal = target,
                    !.sawReview = target = "completed" /\ status = "final_review"]
  <2>1. call' = [call EXCEPT ![c] = r]
    BY <1>7 DEF AskTransition
  <2>2. Fresh(r)
    BY DEF Fresh, Idle
  <2> HIDE DEF r
  <2> QED BY <1>1, <2>1, <2>2
<1>8. ASSUME NEW c \in Callers, NEW step, GoesTo(c, step), b # c PROVE call'[b] = call[b]
  BY <1>8, <1>c DEF GoesTo
<1>9. ASSUME NEW c \in Callers, Gate(c), b # c PROVE Goal
  BY <1>9, <1>8 DEF Gate
<1>10. ASSUME NEW c \in Callers, ReadStatus(c), b # c PROVE Goal
  BY <1>10, <1>8, <1>3 DEF ReadStatus
<1>11. ASSUME NEW c \in Callers, WriteStatus(c) PROVE Goal
  BY <1>11, <1>3 DEF WriteStatus
<1>12. ASSUME NEW c \in Callers, NEW d \in Deposits, SettleEscrow(c, d) PROVE Goal
  <2> DEFINE r == [Idle EXCEPT !.at = "read", !.goal = "matching"]
  <2>1. call' = [call EXCEPT ![c] = r]
    BY <1>12 DEF SettleEscrow
  <2>2. Fresh(r)
    BY DEF Fresh, Idle, Ended
  <2> HIDE DEF r
  <2> QED BY <1>1, <2>1, <2>2
<1>13. ASSUME NEW c \in Callers, ApproveMilestone(c) PROVE Goal
  <2> DEFINE r == [Idle EXCEPT !.at = "read", !.goal = "final_review"]
  <2>1. call' = [call EXCEPT ![c] = r] \/ UNCHANGED call
    BY <1>13 DEF ApproveMilestone
  <2>2. Fresh(r)
    BY DEF Fresh, Idle, Ended
  <2> HIDE DEF r
  <2> QED BY <1>1, <1>4, <2>1, <2>2
<1>14. ASSUME NEW c \in Callers, SizeRefund(c), b # c PROVE Goal
  <2>1. call'[b] = call[b]
    BY <1>14, <1>c DEF SizeRefund
  <2> QED BY <2>1
<1>l. ASSUME NEW c \in Callers, ListDeposits(c), b # c PROVE Goal
  <2>1. call'[b] = call[b]
    BY <1>l, <1>c DEF ListDeposits
  <2> QED BY <2>1
<1>15. ASSUME NEW c \in Callers, NEW d \in Deposits, RefundDeposit(c, d), b # c PROVE Goal
  <2> DEFINE amount == Min({call[c].remaining, Amounts[d]})
  <2>1. Answer(c) \/ call' = [call EXCEPT ![c].left = @ \ {d}, ![c].remaining = @ - amount]
    BY <1>15 DEF RefundDeposit
  <2> HIDE DEF amount
  <2>2. Answer(c) \/ call'[b] = call[b]
    BY <1>15, <1>c, <2>1
  <2> QED BY <1>3, <2>2
<1>16. ASSUME NEW c \in Callers, RefundsDone(c), b # c PROVE Goal
  <2>1. call'[b] = call[b]
    BY <1>16, <1>c DEF RefundsDone
  <2> QED BY <2>1
<1>17. ASSUME NEW c \in Callers, NEW k \in Disputes, AskDispute(c, k) PROVE Goal
  <2> DEFINE r == [Idle EXCEPT !.at = "insert", !.cause = k]
  <2>1. call' = [call EXCEPT ![c] = r]
    BY <1>17 DEF AskDispute
  <2>2. Fresh(r)
    BY DEF Fresh, Idle
  <2> HIDE DEF r
  <2> QED BY <1>1, <2>1, <2>2
<1>18. ASSUME NEW c \in Callers, InsertDispute(c) PROVE Goal
  BY <1>18, <1>3 DEF InsertDispute
<1>19. ASSUME NEW c \in Callers, NEW k \in Disputes, NEW s \in DisputeStatuses,
              AskDisputeStatus(c, k, s)
       PROVE  Goal
  <2> DEFINE r == [Idle EXCEPT !.at = "move", !.cause = k, !.goal = s]
  <2>1. call' = [call EXCEPT ![c] = r]
    BY <1>19 DEF AskDisputeStatus
  <2>2. Fresh(r)
    BY DEF Fresh, Idle
  <2> HIDE DEF r
  <2> QED BY <1>1, <2>1, <2>2
<1>20. ASSUME NEW c \in Callers, WriteDisputeStatus(c) PROVE Goal
  BY <1>20, <1>3 DEF WriteDisputeStatus
<1>21. ASSUME NEW c \in Callers, NEW k \in Disputes, NEW outcome \in Outcomes,
              AskResolution(c, k, outcome)
       PROVE  Goal
  <2> DEFINE r == [Idle EXCEPT !.at = FirstStep(outcome), !.cause = k, !.goal = outcome]
  <2>1. call' = [call EXCEPT ![c] = r]
    BY <1>21 DEF AskResolution
  <2>2. Fresh(r)
    BY DEF Fresh, Idle, FirstStep
  <2> HIDE DEF r
  <2> QED BY <1>1, <2>1, <2>2
<1>22. ASSUME NEW c \in Callers, RecordResolution(c) PROVE Goal
  BY <1>22, <1>3 DEF RecordResolution
<1>23. ASSUME NEW c \in Callers, Crash(c) PROVE Goal
  BY <1>23, <1>3 DEF Crash
<1>24. ASSUME UNCHANGED vars PROVE Goal
  BY <1>24, <1>4 DEF vars
<1> HIDE DEF Goal
<1> DEFINE CarriedOn == \/ Gate(b) \/ ReadStatus(b) \/ SizeRefund(b) \/ ListDeposits(b)
                        \/ RefundsDone(b)
                        \/ \E d \in Deposits : RefundDeposit(b, d)
<1>25. ASSUME NEW c \in Callers, Transition(c) PROVE Goal \/ CarriedOn
  BY <1>7, <1>9, <1>10, <1>11, <1>12, <1>13, <1>25 DEF Transition
<1>26. ASSUME NEW c \in Callers, Refund(c) PROVE Goal \/ CarriedOn
  BY <1>14, <1>l, <1>15, <1>16, <1>26 DEF Refund
<1>27. ASSUME NEW c \in Callers, Case(c) PROVE Goal
  BY <1>17, <1>18, <1>19, <1>20, <1>21, <1>22, <1>27 DEF Case
<1>28. Goal \/ CarriedOn
  <2> HIDE DEF CarriedOn
  <2> QED BY <1>5, <1>6, <1>23, <1>24, <1>25, <1>26, <1>27 DEF Next
<1> QED BY <1>28 DEF Goal

(* The request a refund of a deposit leaves behind.                        *)
LEMMA RefundRequest ==
  ASSUME TInv, NEW c \in Callers, NEW d \in Deposits, RefundDeposit(c, d)
  PROVE  LET amount == Min({call[c].remaining, Amounts[d]})
             k == call[c].cause
         IN  /\ call[c].at = "refund" /\ call[c].remaining > 0 /\ call[c].left # {}
             /\ deposit[d] = "completed"
             /\ \/ call'[c] = Idle
                \/ /\ RefundMoves(k, d, amount) \/ Replays(k, d)
                   /\ call'[c] = [call[c] EXCEPT !.left = @ \ {d}, !.remaining = @ - amount]
             /\ RefundMoves(k, d, amount) \/ UNCHANGED <<deposit, balance, moved>>
<1> DEFINE amount == Min({call[c].remaining, Amounts[d]})
           k == call[c].cause
<1>c. call \in [Callers -> Request]
  BY DEF TInv, TypeOK, Request
<1>1. \/ Answer(c)
      \/ /\ RefundMoves(k, d, amount) \/ Replays(k, d)
         /\ call' = [call EXCEPT ![c].left = @ \ {d}, ![c].remaining = @ - amount]
  BY DEF RefundDeposit
<1>2. RefundMoves(k, d, amount) \/ UNCHANGED <<deposit, balance, moved>>
  BY DEF RefundDeposit
<1>3. call[c].at = "refund" /\ call[c].remaining > 0 /\ call[c].left # {} /\ deposit[d] = "completed"
  BY DEF RefundDeposit, Spread
<1> HIDE DEF amount, k
<1>4. \/ call'[c] = Idle
      \/ /\ RefundMoves(k, d, amount) \/ Replays(k, d)
         /\ call'[c] = [call[c] EXCEPT !.left = @ \ {d}, !.remaining = @ - amount]
  BY <1>1, <1>c DEF Answer, Request
<1> QED BY <1>2, <1>3, <1>4 DEF amount, k

-----------------------------------------------------------------------------
(* A project that has ended holds no escrow.                               *)

Quiet == balance = 0 \/ excused

(* What keeps a request's knowledge of the balance true: a cancellation    *)
(* that has sized its refund still has all that is held to return, from    *)
(* the deposits it has yet to list or visit; a request past its gate found or left nothing.        *)
KnowsBalance(r) ==
  /\ r.at \in {"list", "refund"} /\ r.cause = Cancel =>
       Quiet \/ (r.remaining >= balance /\ (r.at = "refund" => Completed \subseteq r.left))
  /\ r.at \in {"read", "write"} /\ r.goal \in Ended =>
       Quiet \/ (r.goal = "completed" /\ ~r.sawReview)

EInv ==
  /\ \A c \in Callers : KnowsBalance(call[c])
  /\ PartlyCancelled => Quiet
  /\ EndedHoldsNothing

(* While nothing new settles, what was known stays true: money only leaves *)
(* and deposits are only refunded.                                         *)
LEMMA KnowledgeKept ==
  ASSUME TInv, TInv', NEW r \in Request, KnowsBalance(r),
         balance' <= balance, excused => excused', Completed' \subseteq Completed
  PROVE  KnowsBalance(r)' /\ (Quiet => Quiet')
<1>1. balance \in Nat /\ balance' \in Nat /\ excused \in BOOLEAN /\ excused' \in BOOLEAN
  BY DEF TInv, TypeOK
<1>2. Quiet => Quiet'
  BY <1>1 DEF Quiet
<1>3. r.remaining >= balance => r.remaining >= balance'
  BY <1>1 DEF Request
<1> QED BY <1>2, <1>3 DEF KnowsBalance

(* A settlement excuses whoever could not see it.                          *)
LEMMA FundKnown ==
  ASSUME TInv, TInv', Backed, EInv, NEW d \in Deposits, FundEscrow(d)
  PROVE  EInv'
<1>t. TypeOK /\ TypeOK' /\ Requests
  BY DEF TInv
<1>1. /\ UNCHANGED <<status, call, moved>> /\ deposit[d] = "pending"
      /\ deposit' = [deposit EXCEPT ![d] = "completed"]
      /\ excused' \in BOOLEAN
      /\ excused' <=> (\/ excused \/ status \in Ended \/ PartlyCancelled
                       \/ \E c \in Callers : Sized(c))
  BY <1>t DEF FundEscrow, TypeOK
<1>2. CASE excused'
  BY <1>2 DEF EInv, KnowsBalance, Quiet, EndedHoldsNothing
<1>3. CASE ~excused'
  <2>1. /\ ~excused /\ status \notin Ended /\ ~PartlyCancelled
        /\ \A c \in Callers : ~Sized(c)
    BY <1>1, <1>3
  <2>2. moved[Cancel][d] = 0
    BY <1>1 DEF Backed, Causes
  <2>3. ~PartlyCancelled'
    BY <1>1, <1>t, <2>1, <2>2 DEF PartlyCancelled, TypeOK
  <2>4. ASSUME NEW c \in Callers PROVE KnowsBalance(call[c])'
    <3>1. call[c].at \in {"list", "refund"} /\ call[c].cause = Cancel => call[c].goal \in Ended
      BY <1>t, ConstantsFacts DEF Requests, AboutItsStep, Ended
    <3>2. call'[c] = call[c]
      BY <1>1
    <3> QED BY <2>1, <3>1, <3>2 DEF Sized, KnowsBalance
  <2> QED BY <1>1, <2>1, <2>3, <2>4 DEF EInv, EndedHoldsNothing
<1> QED BY <1>2, <1>3

(* A refund returns what its request knows is held, or replays one that    *)
(* left nothing.                                                           *)
LEMMA RefundKnown ==
  ASSUME TInv, TInv', EInv, NEW c \in Callers, NEW d \in Deposits, RefundDeposit(c, d)
  PROVE  /\ balance' <= balance /\ Completed' \subseteq Completed
         /\ PartlyCancelled' => Quiet'
         /\ KnowsBalance(call[c])'
<1> DEFINE amount == Min({call[c].remaining, Amounts[d]})
           k == call[c].cause
<1>t. TypeOK /\ TypeOK' /\ balance \in Nat /\ balance' \in Nat /\ call[c] \in Request
  BY DEF TInv, TypeOK, Request
<1>1. /\ amount \in Nat /\ amount <= call[c].remaining /\ k \in Causes /\ call[c].remaining \in Nat
      /\ amount # Amounts[d] => amount = call[c].remaining
      /\ call[c].remaining > 0 => amount > 0
  BY RefundAmount
<1>r. PICK r \in Request :
        /\ r = [call[c] EXCEPT !.left = @ \ {d}, !.remaining = @ - amount]
        /\ r.at = call[c].at /\ r.cause = k /\ r.left = call[c].left \ {d}
        /\ r.remaining = call[c].remaining - amount /\ r.goal = call[c].goal
  <2>1. call[c].remaining - amount \in Nat
    <3> HIDE DEF amount
    <3> QED BY <1>1
  <2> DEFINE s == [call[c] EXCEPT !.left = @ \ {d}, !.remaining = @ - amount]
  <2>2. s \in Request /\ s.at = call[c].at /\ s.cause = k /\ s.left = call[c].left \ {d}
        /\ s.remaining = call[c].remaining - amount /\ s.goal = call[c].goal
    <3> HIDE DEF amount
    <3> QED BY <1>t, <2>1 DEF Request
  <2> HIDE DEF s, amount, k
  <2>3. s = [call[c] EXCEPT !.left = @ \ {d}, !.remaining = @ - amount]
    BY DEF s
  <2> QED BY <2>2, <2>3
<1>2. /\ deposit[d] = "completed" /\ call[c].at = "refund" /\ call[c].remaining > 0
      /\ \/ call'[c] = Idle
         \/ (RefundMoves(k, d, amount) \/ Replays(k, d)) /\ call'[c] = r
      /\ RefundMoves(k, d, amount) \/ UNCHANGED <<deposit, balance, moved>>
  BY <1>r, RefundRequest
<1>3. excused' = excused /\ KnowsBalance(call[c])
  BY DEF RefundDeposit, history, EInv
<1> HIDE DEF amount, k
<1>i. ASSUME KnowsBalance(r)' \/ call'[c] # r PROVE KnowsBalance(call[c])'
  BY <1>2, <1>i DEF KnowsBalance, Idle
<1>4. CASE RefundMoves(k, d, amount)
  <2>1. /\ deposit' = [deposit EXCEPT ![d] = IF amount = Amounts[d] THEN "refunded" ELSE @]
        /\ balance' = balance - amount /\ moved' = [moved EXCEPT ![k][d] = @ + amount]
        /\ amount <= balance
    BY <1>4 DEF RefundMoves
  <2>2. balance' <= balance
    BY <1>1, <1>t, <2>1
  <2>3. Completed' = IF amount = Amounts[d] THEN Completed \ {d} ELSE Completed
    BY <1>t, <1>2, <2>1 DEF Completed, TypeOK
  <2>5. k = Cancel => Quiet \/ (call[c].remaining >= balance /\ Completed \subseteq call[c].left)
    BY <1>2, <1>3 DEF KnowsBalance, k
  <2>6. Quiet => Quiet'
    BY <1>3, <1>t, <2>2 DEF Quiet
  <2>7. k = Cancel /\ amount # Amounts[d] => Quiet'
    BY <1>1, <1>t, <2>1, <2>5, <2>6 DEF Quiet
  <2>8. PartlyCancelled' => Quiet'
    <3>1. CASE k = Cancel /\ amount = Amounts[d]
      <4>1. PartlyCancelled' => PartlyCancelled
        BY <1>t, <2>1, <3>1 DEF PartlyCancelled, TypeOK
      <4> QED BY <2>6, <4>1 DEF EInv
    <3>2. CASE k # Cancel
      <4>1. PartlyCancelled' => PartlyCancelled
        BY <1>t, <1>2, <2>1, <3>2 DEF PartlyCancelled, TypeOK, Causes
      <4> QED BY <2>6, <4>1 DEF EInv
    <3> QED BY <2>7, <3>1, <3>2
  <2>9. KnowsBalance(r)'
    <3>1. k = Cancel => Quiet' \/ (r.remaining >= balance' /\ Completed' \subseteq r.left)
      <4>1. CASE Quiet
        BY <2>6, <4>1
      <4>2. CASE amount = Amounts[d] /\ ~Quiet
        BY <1>1, <1>r, <1>t, <2>1, <2>3, <2>5, <4>2
      <4> QED BY <2>7, <4>1, <4>2
    <3> QED BY <1>2, <1>r, <3>1 DEF KnowsBalance
  <2>10. Completed' \subseteq Completed
    BY <2>3
  <2> QED BY <1>i, <2>2, <2>8, <2>9, <2>10
<1>5. CASE UNCHANGED <<deposit, balance, moved>>
  <2>1. Completed' = Completed /\ balance' = balance /\ (PartlyCancelled' <=> PartlyCancelled)
        /\ (Quiet' <=> Quiet) /\ balance' <= balance
    BY <1>t, <1>5, <1>3 DEF Completed, PartlyCancelled, Quiet
  <2>2. k = Cancel /\ Replays(k, d) => Quiet
    BY <1>2 DEF Replays, PartlyCancelled, EInv
  <2>3. RefundMoves(k, d, amount) => FALSE
    <3>1. RefundMoves(k, d, amount) => balance' = balance - amount
      BY DEF RefundMoves
    <3> QED BY <1>1, <1>2, <1>t, <1>5, <3>1
  <2>4. call'[c] = r => KnowsBalance(r)'
    <3>1. r.at = "refund" /\ r # Idle /\ r.cause = k
      BY <1>2, <1>r DEF Idle
    <3>2. call'[c] = r => Replays(k, d)
      BY <1>2, <2>3, <3>1
    <3>3. call'[c] = r /\ k = Cancel => Quiet'
      BY <2>1, <2>2, <3>2
    <3> QED BY <3>1, <3>3 DEF KnowsBalance
  <2> QED BY <1>i, <2>1, <2>4 DEF EInv
<1> QED BY <1>2, <1>4, <1>5

(* What settles and returns a refund changes the money; nothing else does. *)
LEMMA NextEInv ==
  ASSUME TInv, TInv', Backed, EInv, [Next]_vars
  PROVE  EInv'
<1>t. TypeOK /\ TypeOK' /\ Requests
  BY DEF TInv
<1>n. balance \in Nat /\ balance' \in Nat /\ \A c \in Callers : call[c] \in Request /\ call'[c] \in Request
  BY <1>t DEF TypeOK, Request
<1>1. ASSUME NEW d \in Deposits, FundEscrow(d) PROVE EInv'
  BY <1>1, FundKnown
<1>2. CASE \A d \in Deposits : ~FundEscrow(d)
  <2> DEFINE MoneyLeaves == /\ balance' <= balance /\ Completed' \subseteq Completed
                            /\ excused => excused'
                            /\ PartlyCancelled' => Quiet'
  <2>1. MoneyLeaves
    <3>1. ASSUME PayMilestone PROVE MoneyLeaves
      BY <3>1, <1>n DEF PayMilestone, Completed, PartlyCancelled, Quiet, EInv, history
    <3>2. ASSUME NEW c \in Callers, NEW d \in Deposits, RefundDeposit(c, d) PROVE MoneyLeaves
      BY <3>2, RefundKnown DEF RefundDeposit, history
    <3>3. ASSUME UNCHANGED escrow PROVE MoneyLeaves
      <4>1. excused => excused'
        BY <1>2, ZenonT(40) DEF Next, vars, PayMilestone, Transition, Refund, Case, AskTransition, Gate,
             ReadStatus, WriteStatus, SettleEscrow, ApproveMilestone, SizeRefund, ListDeposits, RefundsDone,
             AskDispute, InsertDispute, AskDisputeStatus, WriteDisputeStatus, AskResolution,
             RecordResolution, Crash, RefundDeposit, history
      <4> QED BY <3>3, <4>1, <1>n DEF escrow, Completed, PartlyCancelled, Quiet, EInv
    <3> QED BY <1>2, <3>1, <3>2, <3>3, MoneySteps
  <2>2. \A r \in Request : KnowsBalance(r) => KnowsBalance(r)'
    BY <2>1, KnowledgeKept
  <2>q. Quiet => Quiet'
    BY <2>1, <1>n DEF Quiet
  <2>3. ASSUME NEW b \in Callers PROVE KnowsBalance(call[b])'
    <3>k. KnowsBalance(call[b])
      BY DEF EInv
    <3>1. CASE call'[b] = call[b]
      <4>1. PICK r \in Request : r = call[b]
        BY <1>n
      <4> QED BY <2>2, <3>1, <3>k, <4>1
    <3>2. CASE Fresh(call'[b])
      BY <3>2 DEF Fresh, KnowsBalance
    <3>3. CASE Gate(b)
      <4>1. CASE call[b].goal = "completed" /\ (call[b].sawReview => balance = 0) /\ GoesTo(b, "read")
        <5>1. /\ call'[b].at = "read" /\ call'[b].goal = "completed"
              /\ call'[b].sawReview = call[b].sawReview
          BY <1>t, <4>1 DEF GoesTo, TypeOK
        <5>2. call'[b].sawReview => Quiet'
          BY <2>q, <4>1, <5>1 DEF Quiet
        <5> QED BY <5>1, <5>2 DEF KnowsBalance
      <4>2. CASE GoesTo(b, "size")
        <5>1. call'[b].at = "size"
          BY <1>t, <4>2 DEF GoesTo, TypeOK
        <5> QED BY <5>1 DEF KnowsBalance
      <4> QED BY <3>3, <4>1, <4>2 DEF Gate, NothingOutstanding
    <3>4. CASE ReadStatus(b)
      <4>1. CASE Answer(b)
        <5>1. call'[b] = Idle
          BY <1>t, <4>1 DEF Answer, TypeOK
        <5> QED BY <5>1 DEF KnowsBalance, Idle
      <4>2. CASE GoesTo(b, "write")
        <5>1. /\ call'[b].at = "write" /\ call'[b].goal = call[b].goal
              /\ call'[b].sawReview = call[b].sawReview /\ call[b].at = "read"
          BY <1>t, <3>4, <4>2 DEF ReadStatus, GoesTo, TypeOK
        <5> QED BY <2>q, <3>k, <5>1 DEF KnowsBalance
      <4> QED BY <3>4, <4>1, <4>2 DEF ReadStatus
    <3>5. CASE SizeRefund(b)
      <4>1. PICK size \in Nat :
              /\ call[b].cause = Cancel => size = balance
              /\ call' = [call EXCEPT ![b].remaining = size,
                                      ![b].at = IF size = 0 THEN "refund" ELSE "list"]
        BY <1>t, <3>5, SizedRequest
      <4>2. /\ call'[b].at = IF size = 0 THEN "refund" ELSE "list"
            /\ call'[b].cause = call[b].cause /\ call'[b].remaining = size
        BY <1>t, <4>1 DEF TypeOK
      <4>3. balance' = balance
        BY <3>5 DEF SizeRefund, escrow
      <4>4. call[b].cause = Cancel /\ size = 0 => Quiet'
        BY <4>1, <4>3 DEF Quiet
      <4>5. call[b].cause = Cancel => size >= balance'
        BY <1>n, <4>1, <4>3
      <4> QED BY <4>2, <4>4, <4>5 DEF KnowsBalance
    <3>l. CASE ListDeposits(b)
      <4>1. /\ call'[b].at = "refund" /\ call'[b].cause = call[b].cause
            /\ call'[b].remaining = call[b].remaining /\ call'[b].left = Completed
            /\ call[b].at = "list"
        BY <1>t, <3>l DEF ListDeposits, TypeOK, Completed
      <4>2. balance' = balance /\ Completed' = Completed /\ (Quiet <=> Quiet')
        BY <3>l DEF ListDeposits, escrow, Completed, Quiet
      <4> QED BY <3>k, <4>1, <4>2 DEF KnowsBalance
    <3>6. CASE RefundsDone(b)
      <4>1. /\ call[b].at = "refund" /\ ~Spread(b)
            /\ call'[b].at = IF call[b].cause = Cancel THEN "read" ELSE "record"
        BY <1>t, <3>6 DEF RefundsDone, TypeOK
      <4>2. call[b].cause = Cancel => Quiet
        <5>1. SUFFICES ASSUME call[b].cause = Cancel, ~Quiet PROVE FALSE
          OBVIOUS
        <5>2. call[b].remaining >= balance /\ Completed \subseteq call[b].left
          BY <3>k, <4>1, <5>1 DEF KnowsBalance
        <5>3. call[b].left = {} \/ call[b].remaining = 0
          BY <1>n, <4>1 DEF Spread, Request
        <5>4. CASE call[b].left = {}
          <6>1. Completed = {}
            BY <5>2, <5>4
          <6>2. Held = 0
            BY <6>1, SumEmpty DEF Held
          <6> QED BY <1>n, <5>1, <6>2 DEF Backed, Quiet
        <5>5. CASE call[b].remaining = 0
          BY <1>n, <5>1, <5>2, <5>5 DEF Quiet
        <5> QED BY <5>3, <5>4, <5>5
      <4> QED BY <2>q, <4>1, <4>2 DEF KnowsBalance
    <3>7. ASSUME NEW d \in Deposits, RefundDeposit(b, d) PROVE KnowsBalance(call[b])'
      BY <3>7, RefundKnown
    <3> QED BY <3>1, <3>2, <3>3, <3>4, <3>5, <3>l, <3>6, <3>7, RequestMoves
  <2>4. EndedHoldsNothing'
    <3>1. ASSUME NEW c \in Callers, WriteStatus(c) PROVE EndedHoldsNothing'
      <4>1. /\ call[c].at = "write" /\ status' = call[c].goal /\ balance' = balance
            /\ excused' = (excused \/ (call[c].goal = "completed" /\ ~call[c].sawReview))
        BY <3>1 DEF WriteStatus, escrow
      <4>2. call[c].goal \in Ended =>
              Quiet \/ (call[c].goal = "completed" /\ ~call[c].sawReview)
        BY <4>1 DEF EInv, KnowsBalance
      <4> QED BY <4>1, <4>2 DEF EndedHoldsNothing, Quiet
    <3>2. ASSUME \A c \in Callers : ~WriteStatus(c) PROVE EndedHoldsNothing'
      <4>1. status' = status
        BY <1>2, <3>2, ZenonT(40) DEF Next, vars, PayMilestone, Transition, Refund, Case, AskTransition, Gate,
             ReadStatus, SettleEscrow, ApproveMilestone, SizeRefund, ListDeposits, RefundsDone, RefundDeposit,
             AskDispute, InsertDispute, AskDisputeStatus, WriteDisputeStatus, AskResolution,
             RecordResolution, Crash
      <4> QED BY <2>q, <4>1 DEF EInv, EndedHoldsNothing, Quiet
    <3> QED BY <3>1, <3>2
  <2> QED BY <2>1, <2>3, <2>4 DEF EInv
<1> QED BY <1>1, <1>2

-----------------------------------------------------------------------------
(* What was moved is never taken back, and what was deposited only grows.  *)
LEMMA Grows ==
  ASSUME TInv, TInv', [Next]_vars
  PROVE  /\ \A k \in Causes, d \in Deposits : moved[k][d] <= moved'[k][d]
         /\ \A k \in Disputes : tried[k] \subseteq tried'[k]
         /\ Funded <= Funded'
         /\ Settled \subseteq Settled'
         /\ \A d \in Deposits : deposit[d] = "refunded" => deposit'[d] = "refunded"
<1> DEFINE MoneyGrows == /\ \A k \in Causes, d \in Deposits : moved[k][d] <= moved'[k][d]
                         /\ Funded <= Funded'
                         /\ Settled \subseteq Settled'
                         /\ \A d \in Deposits : deposit[d] = "refunded" => deposit'[d] = "refunded"
<1>t. TypeOK /\ TypeOK'
  BY DEF TInv
<1>n. \A k \in Causes, d \in Deposits : moved[k][d] \in Nat /\ moved'[k][d] \in Nat
  BY <1>t DEF TypeOK
<1>f. /\ Funded = SumFunctionOnSet(Amounts, Settled)
      /\ Funded' = SumFunctionOnSet(Amounts, Settled')
      /\ Settled \subseteq Deposits /\ Funded \in Nat
  BY DepositSums DEF Funded, Settled
<1>1. ASSUME NEW d \in Deposits, FundEscrow(d) PROVE MoneyGrows
  <2>1. moved' = moved /\ deposit[d] = "pending" /\ deposit' = [deposit EXCEPT ![d] = "completed"]
    BY <1>1 DEF FundEscrow
  <2>2. d \notin Settled /\ Settled' = Settled \cup {d}
    BY <1>t, <2>1 DEF Settled, TypeOK
  <2>3. Funded' = Funded + Amounts[d] /\ Amounts[d] \in Nat
    BY <1>f, <2>2, DepositSums, ConstantsFacts
  <2>4. \A e \in Deposits : deposit[e] = "refunded" => deposit'[e] = "refunded"
    BY <1>t, <2>1 DEF TypeOK
  <2> QED BY <1>n, <1>f, <2>1, <2>2, <2>3, <2>4
<1>2. ASSUME UNCHANGED <<deposit, moved>> PROVE MoneyGrows
  <2>1. Funded' = Funded /\ Settled' = Settled
    BY <1>2 DEF Funded, Settled
  <2> QED BY <1>2, <1>n, <1>f, <2>1
<1>3. ASSUME NEW c \in Callers, NEW d \in Deposits, RefundDeposit(c, d) PROVE MoneyGrows
  <2> DEFINE amount == Min({call[c].remaining, Amounts[d]})
             k == call[c].cause
  <2>1. amount \in Nat /\ k \in Causes /\ deposit[d] = "completed"
        /\ (RefundMoves(k, d, amount) \/ UNCHANGED <<deposit, balance, moved>>)
    BY <1>3, RefundAmount, RefundRequest
  <2> HIDE DEF amount, k
  <2>2. CASE RefundMoves(k, d, amount)
    <3>1. /\ deposit' = [deposit EXCEPT ![d] = IF amount = Amounts[d] THEN "refunded" ELSE @]
          /\ moved' = [moved EXCEPT ![k][d] = @ + amount]
      BY <2>2 DEF RefundMoves
    <3>2. Settled' = Settled
      BY <1>t, <2>1, <3>1 DEF Settled, TypeOK
    <3>3. ASSUME NEW x \in Causes, NEW e \in Deposits PROVE moved[x][e] <= moved'[x][e]
      <4>1. moved'[x][e] = IF x = k /\ e = d THEN moved[x][e] + amount ELSE moved[x][e]
        BY <1>t, <3>1 DEF TypeOK
      <4> QED BY <1>n, <2>1, <4>1
    <3>4. Funded' = Funded
      BY <1>f, <3>2
    <3>5. \A e \in Deposits : deposit[e] = "refunded" => deposit'[e] = "refunded"
      BY <1>t, <2>1, <3>1 DEF TypeOK
    <3> QED BY <1>f, <3>2, <3>3, <3>4, <3>5
  <2> QED BY <1>2, <2>1, <2>2
<1>4. MoneyGrows
  <2> HIDE DEF MoneyGrows
  <2>1. ASSUME PayMilestone \/ UNCHANGED escrow PROVE MoneyGrows
    BY <2>1, <1>2 DEF PayMilestone, escrow
  <2> QED BY <1>1, <1>3, <2>1, MoneySteps
<1>5. ASSUME NEW c \in Callers, SizeRefund(c) \/ ListDeposits(c), NEW k \in Disputes
      PROVE  tried[k] \subseteq tried'[k]
  <2>1. CASE SizeRefund(c)
    <3>1. PICK size \in Nat :
            tried' = IF call[c].cause = Cancel THEN tried
                     ELSE [tried EXCEPT ![call[c].cause] =
                             @ \cup (IF size = 0 THEN {"nothing"} ELSE {})
                               \cup ({call[c].goal} \ {"split"})]
      BY <2>1, SizedRequest DEF TInv
    <3> QED BY <1>t, <3>1 DEF TypeOK
  <2>2. CASE ListDeposits(c)
    BY <1>t, <2>2 DEF ListDeposits, TypeOK
  <2> QED BY <1>5, <2>1, <2>2
<1>6. ASSUME \A c \in Callers : ~SizeRefund(c) /\ ~ListDeposits(c) PROVE tried' = tried
  BY <1>6, ZenonT(40) DEF Next, vars, FundEscrow, PayMilestone, Transition, Refund, Case, AskTransition, Gate,
       ReadStatus, WriteStatus, SettleEscrow, ApproveMilestone, RefundsDone, RefundDeposit,
       AskDispute, InsertDispute, AskDisputeStatus, WriteDisputeStatus, AskResolution,
       RecordResolution, Crash, history
<1> QED BY <1>4, <1>5, <1>6

-----------------------------------------------------------------------------
(* A case recorded in the owner's favour has refunded.                     *)

\* Some deposit was refunded in full.
Taken == \E d \in Deposits, x \in Causes : deposit[d] = "refunded" /\ moved[x][d] > 0
HasRefunded(k) ==
  \/ \E d \in Deposits : moved[k][d] > 0
  \/ "nothing" \in tried[k]
  \/ "gone" \in tried[k] /\ Taken

(* A resolution is at its refunds with something left to return, or has    *)
(* returned something or found nothing to; it records only then.  It looks *)
(* for deposits only where something was held, so one had settled.         *)
WillRefund(r) ==
  r.cause \in Disputes =>
    /\ r.at = "list" => Settled # {} /\ r.remaining > 0
    /\ r.at = "refund" => HasRefunded(r.cause) \/ (r.left # {} /\ r.remaining > 0)
    /\ r.at = "record" => r.goal = "funds_to_talent" \/ HasRefunded(r.cause)

RInv ==
  /\ \A c \in Callers : WillRefund(call[c])
  /\ \A k \in Disputes : dispute[k].outcome \in {"funds_to_owner", "split"} => HasRefunded(k)

(* Every step keeps it: money once refunded for a case is never taken back. *)
LEMMA NextRInv ==
  ASSUME TInv, TInv', Backed, RInv, [Next]_vars
  PROVE  RInv'
<1>t. TypeOK /\ TypeOK' /\ Requests
  BY DEF TInv
<1>n. /\ \A c \in Callers : call[c] \in Request /\ call'[c] \in Request
      /\ \A k \in Causes, d \in Deposits : moved[k][d] \in Nat /\ moved'[k][d] \in Nat
      /\ Disputes \subseteq Causes
  BY <1>t DEF TypeOK, Request, Causes
<1>g. \A k \in Disputes : HasRefunded(k) => HasRefunded(k)'
  <2>1. Taken => Taken'
    BY <1>n, Grows DEF Taken
  <2> QED BY <1>n, <2>1, Grows DEF HasRefunded
<1>h. Settled # {} => Settled' # {}
  BY Grows
<1>1. ASSUME NEW b \in Callers PROVE WillRefund(call[b])'
  <2>k. WillRefund(call[b])
    BY DEF RInv
  <2>1. CASE call'[b] = call[b]
    BY <1>g, <1>h, <2>1, <2>k DEF WillRefund
  <2>2. CASE Fresh(call'[b])
    BY <2>2 DEF Fresh, WillRefund
  <2>3. CASE Gate(b)
    <3>1. call'[b].at \in {"read", "size"}
      BY <1>t, <2>3 DEF Gate, GoesTo, TypeOK
    <3> QED BY <3>1 DEF WillRefund
  <2>4. CASE ReadStatus(b)
    <3>1. call'[b].at \in {"write", "idle"}
      BY <1>t, <2>4 DEF ReadStatus, GoesTo, Answer, Idle, TypeOK
    <3> QED BY <3>1 DEF WillRefund
  <2>5. CASE SizeRefund(b)
    <3>1. PICK size \in Nat :
            /\ size <= balance
            /\ call' = [call EXCEPT ![b].remaining = size,
                                    ![b].at = IF size = 0 THEN "refund" ELSE "list"]
            /\ tried' = IF call[b].cause = Cancel THEN tried
                        ELSE [tried EXCEPT ![call[b].cause] =
                                @ \cup (IF size = 0 THEN {"nothing"} ELSE {})
                                  \cup ({call[b].goal} \ {"split"})]
      BY <1>t, <2>5, SizedRequest
    <3>2. /\ call'[b].at = IF size = 0 THEN "refund" ELSE "list"
          /\ call'[b].cause = call[b].cause /\ call'[b].remaining = size
      BY <1>t, <3>1 DEF TypeOK
    <3>3. CASE size = 0
      <4>1. call[b].cause \in Disputes => "nothing" \in tried'[call[b].cause]
        BY <1>t, <3>1, <3>3, ConstantsFacts DEF TypeOK
      <4> QED BY <3>2, <3>3, <4>1 DEF WillRefund, HasRefunded
    <3>4. CASE size # 0
      <4>1. Completed # {}
        <5>1. SUFFICES ASSUME Completed = {} PROVE FALSE
          OBVIOUS
        <5>2. Held = 0
          BY <5>1, SumEmpty DEF Held
        <5> QED BY <1>t, <3>1, <3>4, <5>2 DEF Backed, TypeOK
      <4>2. Settled # {}
        BY <4>1 DEF Completed, Settled
      <4> QED BY <1>h, <3>2, <3>4, <4>2 DEF WillRefund
    <3> QED BY <3>3, <3>4
  <2>l. CASE ListDeposits(b)
    <3>1. /\ call[b].at = "list" /\ call'[b].at = "refund"
          /\ call'[b].cause = call[b].cause
          /\ call'[b].remaining = call[b].remaining /\ call'[b].left = Completed
          /\ deposit' = deposit /\ moved' = moved
      BY <1>t, <2>l DEF ListDeposits, TypeOK, Completed, escrow
    <3>2. CASE Completed # {}
      <4>1. call[b].cause \in Disputes => call[b].remaining > 0
        BY <2>k, <3>1 DEF WillRefund
      <4> QED BY <3>1, <3>2, <4>1 DEF WillRefund
    <3>3. CASE Completed = {} /\ call[b].cause \in Disputes
      <4>1. PICK d \in Deposits : deposit[d] # "pending"
        BY <2>k, <3>1, <3>3 DEF WillRefund, Settled
      <4>2. deposit[d] = "refunded"
        BY <1>t, <3>3, <4>1 DEF Completed, TypeOK
      <4>3. Taken'
        BY <3>1, <4>2 DEF Backed, Taken
      <4>4. "gone" \in tried'[call[b].cause]
        BY <1>t, <2>l, <3>3 DEF ListDeposits, Completed, TypeOK
      <4> QED BY <3>1, <4>3, <4>4 DEF WillRefund, HasRefunded
    <3> QED BY <3>1, <3>2, <3>3 DEF WillRefund
  <2>6. CASE RefundsDone(b)
    <3>1. /\ call[b].at = "refund" /\ ~Spread(b) /\ call'[b].cause = call[b].cause
          /\ call'[b].at \in {"read", "record"}
      BY <1>t, <2>6 DEF RefundsDone, TypeOK
    <3>2. call[b].cause \in Disputes => HasRefunded(call[b].cause)
      BY <2>k, <3>1 DEF WillRefund, Spread
    <3> QED BY <1>g, <3>1, <3>2 DEF WillRefund
  <2>7. ASSUME NEW d \in Deposits, RefundDeposit(b, d) PROVE WillRefund(call[b])'
    <3> DEFINE amount == Min({call[b].remaining, Amounts[d]})
    <3>c. PICK k \in Causes : k = call[b].cause
      BY <1>n DEF Request
    <3>1. /\ amount \in Nat /\ amount > 0
          /\ \/ call'[b] = Idle
             \/ /\ RefundMoves(k, d, amount) \/ Replays(k, d)
                /\ call'[b].cause = k /\ call'[b].at = "refund"
      <4>1. call[b].remaining > 0 /\ call[b].at = "refund"
        BY <2>7, RefundRequest
      <4>2. amount \in Nat /\ amount > 0
        BY <4>1, RefundAmount
      <4>3. \/ call'[b] = Idle
            \/ /\ RefundMoves(k, d, amount) \/ Replays(k, d)
               /\ call'[b] = [call[b] EXCEPT !.left = @ \ {d}, !.remaining = @ - amount]
        BY <2>7, <3>c, RefundRequest
      <4> HIDE DEF amount
      <4>4. /\ [call[b] EXCEPT !.left = @ \ {d}, !.remaining = @ - amount].cause = k
            /\ [call[b] EXCEPT !.left = @ \ {d}, !.remaining = @ - amount].at = "refund"
        BY <1>n, <3>c, <4>1 DEF Request
      <4> QED BY <4>2, <4>3, <4>4
    <3> HIDE DEF amount
    <3>2. CASE RefundMoves(k, d, amount)
      <4>1. moved'[k][d] = moved[k][d] + amount
        BY <1>t, <3>1, <3>2 DEF RefundMoves, TypeOK
      <4>2. moved'[k][d] > 0
        BY <1>n, <3>1, <4>1
      <4> QED BY <3>1, <4>2 DEF WillRefund, HasRefunded, Idle
    <3>3. CASE Replays(k, d) /\ call'[b].cause = k /\ call'[b].at = "refund"
      <4>1. k \in Disputes => HasRefunded(k)'
        BY <1>g, <3>3 DEF Replays, HasRefunded
      <4> QED BY <3>3, <4>1 DEF WillRefund
    <3>4. CASE call'[b] = Idle
      BY <3>4 DEF WillRefund, Idle
    <3> QED BY <3>1, <3>2, <3>3, <3>4
  <2> QED BY <2>1, <2>2, <2>3, <2>4, <2>5, <2>l, <2>6, <2>7, RequestMoves
<1>2. ASSUME NEW k \in Disputes, dispute'[k].outcome \in {"funds_to_owner", "split"}
      PROVE  HasRefunded(k)'
  <2>1. ASSUME NEW c \in Callers, RecordResolution(c) PROVE HasRefunded(k)'
    <3>1. /\ call[c].at = "record"
          /\ dispute'[k] = IF k = call[c].cause
                           THEN [dispute[k] EXCEPT !.status = "resolved", !.resolvedAt = TRUE,
                                                   !.outcome = call[c].goal]
                           ELSE dispute[k]
      BY <1>t, <2>1 DEF RecordResolution, TypeOK
    <3>2. CASE k = call[c].cause
      <4>1. HasRefunded(k)
        BY <1>2, <3>1, <3>2 DEF RInv, WillRefund
      <4> QED BY <1>g, <4>1
    <3>3. CASE k # call[c].cause
      BY <1>2, <1>g, <3>1, <3>3 DEF RInv
    <3> QED BY <3>2, <3>3
  <2>2. ASSUME dispute'[k].outcome = dispute[k].outcome PROVE HasRefunded(k)'
    BY <1>2, <1>g, <2>2 DEF RInv
  <2>3. ASSUME NEW c \in Callers, WriteDisputeStatus(c)
        PROVE  dispute'[k].outcome = dispute[k].outcome
    <3>1. PICK k0, s : dispute' = [dispute EXCEPT ![k0].status = s]
      BY <2>3 DEF WriteDisputeStatus
    <3> QED BY <1>t, <3>1 DEF TypeOK
  <2>5. ASSUME NEW c \in Callers, InsertDispute(c) PROVE HasRefunded(k)'
    <3>1. PICK scoped \in BOOLEAN :
            dispute' = [dispute EXCEPT ![call[c].cause] =
                          [Absent EXCEPT !.status = "unresolved", !.scoped = scoped]]
      BY <2>5 DEF InsertDispute
    <3>2. k # call[c].cause
      BY <1>2, <1>t, <3>1 DEF Absent, TypeOK
    <3>3. dispute'[k] = dispute[k]
      BY <1>t, <3>1, <3>2 DEF TypeOK
    <3> QED BY <2>2, <3>3
  <2>4. ASSUME \A c \in Callers : ~RecordResolution(c) /\ ~InsertDispute(c) /\ ~WriteDisputeStatus(c)
        PROVE  dispute' = dispute
    BY <2>4, ZenonT(40) DEF Next, vars, FundEscrow, PayMilestone, Transition, Refund, Case, AskTransition, Gate,
         ReadStatus, WriteStatus, SettleEscrow, ApproveMilestone, SizeRefund, ListDeposits, RefundsDone,
         RefundDeposit, AskDispute, AskDisputeStatus, AskResolution, Crash
  <2> QED BY <2>1, <2>2, <2>3, <2>4, <2>5
<1> QED BY <1>1, <1>2 DEF RInv

-----------------------------------------------------------------------------
(* A case that was only ever split.                                        *)

(* A split at its refunds was sized to half, and a full refund is known.   *)
SizedToHalf(r) ==
  r.cause \in Disputes /\ r.at \in {"list", "refund"} =>
    /\ r.goal = "split" => 2 * r.remaining <= Funded
    /\ r.goal = "funds_to_owner" => "funds_to_owner" \in tried[r.cause]

HInv == SplitReturnsHalf /\ \A c \in Callers : SizedToHalf(call[c])

(* Every step keeps it: a deposit is refunded once under a case's key, by at *)
(* most what the request was sized to.                                     *)
LEMMA NextHInv ==
  ASSUME TInv, TInv', Backed, HInv, [Next]_vars
  PROVE  HInv'
<1>t. TypeOK /\ TypeOK' /\ Requests
  BY DEF TInv
<1>n. /\ \A c \in Callers : call[c] \in Request /\ call'[c] \in Request
      /\ \A k \in Causes, d \in Deposits : moved[k][d] \in Nat /\ moved'[k][d] \in Nat
      /\ Disputes \subseteq Causes /\ balance \in Nat
  BY <1>t DEF TypeOK, Request, Causes
<1>f. Funded \in Nat /\ Funded' \in Nat
  BY DepositSums DEF Funded
<1>g. Funded <= Funded' /\ \A k \in Disputes : tried[k] \subseteq tried'[k]
  BY Grows
<1>k. ASSUME NEW n \in Nat, 2 * n <= Funded PROVE 2 * n <= Funded'
  BY <1>k, <1>f, <1>g
<1>1. ASSUME NEW b \in Callers PROVE SizedToHalf(call[b])'
  <2>1. CASE call'[b] = call[b]
    <3>1. call[b].remaining \in Nat
      BY <1>n DEF Request
    <3> QED BY <1>g, <1>k, <2>1, <3>1 DEF HInv, SizedToHalf
  <2>2. CASE Fresh(call'[b])
    BY <2>2 DEF Fresh, SizedToHalf
  <2>3. CASE Gate(b)
    <3>1. call'[b].at \in {"read", "size"}
      BY <1>t, <2>3 DEF Gate, GoesTo, TypeOK
    <3> QED BY <3>1 DEF SizedToHalf
  <2>4. CASE ReadStatus(b)
    <3>1. call'[b].at \in {"write", "idle"}
      BY <1>t, <2>4 DEF ReadStatus, GoesTo, Answer, Idle, TypeOK
    <3> QED BY <3>1 DEF SizedToHalf
  <2>5. CASE SizeRefund(b)
    <3>1. PICK size \in Nat :
            /\ size <= balance /\ (call[b].goal = "split" => 2 * size <= balance)
            /\ call' = [call EXCEPT ![b].remaining = size,
                                    ![b].at = IF size = 0 THEN "refund" ELSE "list"]
            /\ tried' = IF call[b].cause = Cancel THEN tried
                        ELSE [tried EXCEPT ![call[b].cause] =
                                @ \cup (IF size = 0 THEN {"nothing"} ELSE {})
                                  \cup ({call[b].goal} \ {"split"})]
      BY <1>t, <2>5, SizedRequest
    <3>2. /\ call'[b].cause = call[b].cause /\ call'[b].goal = call[b].goal
          /\ call'[b].remaining = size
      BY <1>t, <3>1 DEF TypeOK
    <3>3. balance <= Funded
      BY DEF Backed
    <3>4. call[b].goal = "split" => 2 * size <= Funded'
      BY <1>n, <1>f, <1>g, <3>1, <3>3
    <3>5. call[b].cause \in Disputes /\ call[b].goal = "funds_to_owner" =>
            "funds_to_owner" \in tried'[call[b].cause]
      BY <1>t, <3>1, ConstantsFacts DEF TypeOK
    <3> QED BY <3>2, <3>4, <3>5 DEF SizedToHalf
  <2>l. CASE ListDeposits(b)
    <3>1. /\ call'[b].cause = call[b].cause /\ call'[b].goal = call[b].goal
          /\ call'[b].remaining = call[b].remaining /\ call[b].at = "list"
          /\ call[b].remaining \in Nat
      BY <1>t, <2>l DEF ListDeposits, TypeOK
    <3>2. SizedToHalf(call[b])
      BY DEF HInv
    <3> QED BY <1>g, <1>k, <3>1, <3>2 DEF SizedToHalf
  <2>6. CASE RefundsDone(b)
    <3>1. call'[b].at \in {"read", "record"}
      BY <1>t, <2>6 DEF RefundsDone, TypeOK
    <3> QED BY <3>1 DEF SizedToHalf
  <2>7. ASSUME NEW d \in Deposits, RefundDeposit(b, d) PROVE SizedToHalf(call[b])'
    <3> DEFINE amount == Min({call[b].remaining, Amounts[d]})
    <3>1. amount \in Nat /\ amount <= call[b].remaining /\ call[b].remaining \in Nat
      BY RefundAmount
    <3>2. \/ call'[b] = Idle
          \/ call'[b] = [call[b] EXCEPT !.left = @ \ {d}, !.remaining = @ - amount]
      BY <2>7, RefundRequest
    <3> HIDE DEF amount
    <3>3. \/ call'[b] = Idle
          \/ /\ call'[b].cause = call[b].cause /\ call'[b].goal = call[b].goal
             /\ call'[b].remaining = call[b].remaining - amount
             /\ call[b].at = "refund"
      BY <1>n, <2>7, <3>2 DEF Request, RefundDeposit
    <3>4. 2 * call[b].remaining <= Funded => 2 * (call[b].remaining - amount) <= Funded'
      BY <1>f, <1>g, <3>1
    <3>5. SizedToHalf(call[b])
      BY DEF HInv
    <3> QED BY <1>g, <3>3, <3>4, <3>5 DEF SizedToHalf, Idle
  <2> QED BY <2>1, <2>2, <2>3, <2>4, <2>5, <2>l, <2>6, <2>7, RequestMoves
<1>2. SplitReturnsHalf'
  <2>1. SUFFICES ASSUME NEW k \in Disputes, NEW d \in Deposits, "funds_to_owner" \notin tried'[k]
                 PROVE  2 * moved'[k][d] <= Funded'
    BY DEF SplitReturnsHalf
  <2>2. "funds_to_owner" \notin tried[k] /\ 2 * moved[k][d] <= Funded
    BY <1>g, <2>1 DEF HInv, SplitReturnsHalf
  <2>3. ASSUME moved'[k][d] = moved[k][d] PROVE 2 * moved'[k][d] <= Funded'
    BY <1>k, <1>n, <2>2, <2>3
  <2>4. ASSUME NEW c \in Callers, NEW e \in Deposits, RefundDeposit(c, e)
        PROVE  2 * moved'[k][d] <= Funded'
    <3> DEFINE amount == Min({call[c].remaining, Amounts[e]})
    <3>1. /\ amount \in Nat /\ amount <= call[c].remaining /\ call[c].remaining \in Nat
          /\ call[c].cause \in Causes
      BY RefundAmount
    <3>2. /\ call[c].at = "refund"
          /\ RefundMoves(call[c].cause, e, amount) \/ UNCHANGED <<deposit, balance, moved>>
      BY <2>4, RefundRequest
    <3> HIDE DEF amount
    <3>3. CASE UNCHANGED <<deposit, balance, moved>>
      BY <2>3, <3>3
    <3>4. CASE RefundMoves(call[c].cause, e, amount) /\ call[c].cause = k /\ e = d
      <4>1. moved[k][d] = 0 /\ moved'[k][d] = amount
        BY <1>t, <1>n, <3>1, <3>4 DEF RefundMoves, Replays, TypeOK
      <4>2. call[c].goal = "split"
        BY <1>t, <2>2, <3>2, <3>4, ConstantsFacts
           DEF Requests, AboutItsStep, HInv, SizedToHalf
      <4>3. 2 * call[c].remaining <= Funded
        BY <3>2, <3>4, <4>2 DEF HInv, SizedToHalf
      <4> QED BY <1>f, <1>g, <3>1, <4>1, <4>3
    <3>5. CASE RefundMoves(call[c].cause, e, amount) /\ (call[c].cause # k \/ e # d)
      <4>1. moved'[k][d] = moved[k][d]
        BY <1>t, <1>n, <3>1, <3>5 DEF RefundMoves, TypeOK
      <4> QED BY <2>3, <4>1
    <3> QED BY <3>2, <3>3, <3>4, <3>5
  <2>5. ASSUME UNCHANGED moved PROVE 2 * moved'[k][d] <= Funded'
    BY <2>3, <2>5
  <2>6. ASSUME NEW e \in Deposits, FundEscrow(e) PROVE UNCHANGED moved
    BY <2>6 DEF FundEscrow
  <2>7. ASSUME PayMilestone \/ UNCHANGED escrow PROVE UNCHANGED moved
    BY <2>7 DEF PayMilestone, escrow
  <2> QED BY <2>4, <2>5, <2>6, <2>7, MoneySteps
<1> QED BY <1>1, <1>2 DEF HInv

-----------------------------------------------------------------------------
(* The invariant and what it implies.                                      *)

IInv == TInv /\ Backed /\ EInv /\ RInv /\ HInv

(* The initial state satisfies the invariant.                              *)
LEMMA InitIInv == Init => IInv
<1> SUFFICES ASSUME Init PROVE IInv
  OBVIOUS
<1>1. TInv
  BY InitTInv
<1>2. Completed = {} /\ {d \in Deposits : deposit[d] # "pending"} = {}
  BY DEF Init, Completed
<1>3. Held = 0 /\ Funded = 0
  BY <1>2, SumEmpty DEF Held, Funded
<1>4. \A k \in Causes, d \in Deposits : moved[k][d] = 0
  BY DEF Init
<1>5. Backed
  BY <1>3, <1>4 DEF Init, Backed
<1>6. \A c \in Callers : call[c] = Idle
  BY DEF Init
<1>7. EInv
  BY <1>6 DEF Init, EInv, KnowsBalance, Quiet, EndedHoldsNothing, Idle
<1>8. RInv
  BY <1>6 DEF Init, RInv, WillRefund, Idle, Absent
<1>9. HInv
  <2>1. SplitReturnsHalf
    BY <1>3, <1>4 DEF SplitReturnsHalf, Causes
  <2> QED BY <1>6, <2>1 DEF HInv, SizedToHalf, Idle
<1> QED BY <1>1, <1>5, <1>7, <1>8, <1>9 DEF IInv

(* The invariant holds in every state, whatever handlers interleave, crash *)
(* and retry between their reads, refunds and writes.                      *)
THEOREM InvHolds == Spec => []IInv
<1>1. Init => IInv
  BY InitIInv
<1>2. IInv /\ [Next]_vars => IInv'
  <2> SUFFICES ASSUME IInv, [Next]_vars PROVE IInv'
    OBVIOUS
  <2>1. TInv'
    BY NextTInv DEF IInv
  <2> QED BY <2>1, NextBacked, NextEInv, NextRInv, NextHInv DEF IInv
<1> QED BY <1>1, <1>2, PTL DEF Spec

(* Every variable has its type; escrow and refunds are never negative.     *)
THEOREM TypeCorrect == Spec => []TypeOK
<1>1. IInv => TypeOK
  BY DEF IInv, TInv
<1> QED BY <1>1, InvHolds, PTL

(* EndedHoldsNothing: completion gates, cancellations with any number of   *)
(* deposits, partial refunds, replays, crashes and concurrent resolutions. *)
THEOREM EndsHoldNothing == Spec => []EndedHoldsNothing
<1>1. IInv => EndedHoldsNothing
  BY DEF IInv, EInv
<1> QED BY <1>1, InvHolds, PTL

(* What a cause moved in all is at least what it moved of one deposit.     *)
LEMMA MovedForAll ==
  ASSUME TypeOK, NEW k \in Causes, NEW d \in Deposits
  PROVE  MovedFor(k) \in Nat /\ moved[k][d] \in Nat /\ moved[k][d] <= MovedFor(k)
<1>1. /\ MovedFor(k) = SumFunctionOnSet(moved[k], Deposits)
      /\ IsFiniteSet(Deposits) /\ \A e \in Deposits : moved[k][e] \in Nat
  BY ConstantsFacts DEF TypeOK, MovedFor, SumFunction
<1>2. MovedFor(k) \in Nat /\ MovedFor(k) = moved[k][d] + SumFunctionOnSet(moved[k], Deposits \ {d})
  BY <1>1, SumRemove
<1>3. IsFiniteSet(Deposits \ {d}) /\ \A e \in Deposits \ {d} : moved[k][e] \in Nat
  BY <1>1, FS_Subset
<1>4. SumFunctionOnSet(moved[k], Deposits \ {d}) \in Nat
  BY <1>3, SumRemove
<1> QED BY <1>1, <1>2, <1>4

(* RecordedRefundHappened: a resolution in the owner's favour is recorded  *)
(* only after its refund moved, when nothing was held, or when another     *)
(* refund took a deposit in full while it was between its two reads.       *)
THEOREM RecordedRefundsHappened == Spec => []RecordedRefundHappened
<1>1. IInv => RecordedRefundHappened
  <2> SUFFICES ASSUME IInv, NEW k \in Disputes,
                      dispute[k].outcome \in {"funds_to_owner", "split"},
                      "nothing" \notin tried[k]
               PROVE  MovedFor(k) > 0 \/ ("gone" \in tried[k] /\ TakenByAnother(k))
    BY DEF RecordedRefundHappened
  <2>1. k \in Causes /\ TypeOK
    BY DEF Causes, IInv, TInv
  <2>2. ASSUME NEW d \in Deposits, moved[k][d] > 0 PROVE MovedFor(k) > 0
    BY <2>1, <2>2, MovedForAll
  <2>3. ASSUME "gone" \in tried[k], Taken, \A d \in Deposits : ~(moved[k][d] > 0)
        PROVE  TakenByAnother(k)
    BY <2>3 DEF Taken, TakenByAnother
  <2>4. HasRefunded(k)
    BY DEF IInv, RInv
  <2> QED BY <2>2, <2>3, <2>4 DEF HasRefunded
<1> QED BY <1>1, InvHolds, PTL

(* SplitReturnsHalf, with any number of deposits and cases: of each        *)
(* deposit, a case only ever split returns at most half of all deposited.  *)
THEOREM RefundsAtMostHalf == Spec => []SplitReturnsHalf
<1>1. IInv => SplitReturnsHalf
  BY DEF IInv, HInv
<1> QED BY <1>1, InvHolds, PTL
=============================================================================
