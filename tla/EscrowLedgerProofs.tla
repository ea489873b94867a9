------------------------- MODULE EscrowLedgerProofs -------------------------
(***************************************************************************)
(* Theorems about EscrowLedger, and the rules it shares with others, for   *)
(* every set of orders, milestones, refund keys, pools, handlers and every *)
(* amount, whoever presents the keys.  Parts: sums over finite sets; the   *)
(* invariant of one transaction's row, events and entries; who holds a key *)
(* and how often it moves its money (once, or twice if two requests held   *)
(* it at a time), and from that the promise; the books; the ledger and the *)
(* cover of the escrow; what refunds move; and the pure rules of           *)
(* PaymentRules, with what PaymentRulesSpec asks of them.                  *)
(***************************************************************************)
EXTENDS EscrowLedger, PaymentRulesSpec, FiniteSetTheorems, WellFoundedInduction, TLAPS

-----------------------------------------------------------------------------
(* Sums over finite sets, by induction over the subsets.                   *)

(* A non-empty family of subsets of a finite set has a smallest member: the *)
(* induction over finite sets that the sums below need.                    *)
LEMMA SmallestSubset ==
  ASSUME NEW S, IsFiniteSet(S), NEW Bad, Bad \subseteq SUBSET S, Bad # {}
  PROVE  \E T \in Bad : \A U \in Bad : U \subseteq T => U = T
<1>1. IsWellFoundedOn(StrictSubsetOrdering(S), SUBSET S)
  BY FS_StrictSubsetOrderingWellFounded, FS_FiniteSubsetsOfFinite
<1>2. PICK T \in Bad : \A U \in Bad : <<U, T>> \notin StrictSubsetOrdering(S)
  BY <1>1, WFMin
<1> QED BY <1>2 DEF StrictSubsetOrdering

(* The element a fold takes out first, and the function it folds with.     *)
AnyOf(s) == CHOOSE x \in s : TRUE
IsSum(g, f, S) ==
  g = [s \in SUBSET S |-> IF s = {} THEN 0 ELSE f[AnyOf(s)] + g[s \ {AnyOf(s)}]]

(* A sum is the value at its set of the recursive function it folds with.  *)
LEMMA SumUnfold ==
  ASSUME NEW f, NEW S
  PROVE SumFunctionOnSet(f, S) = (CHOOSE g : IsSum(g, f, S))[S]
BY DEF SumFunctionOnSet, FoldFunctionOnSet, MapThenFoldSet, IsSum, AnyOf

(* A sum takes out the element the fold chooses and adds the rest.         *)
LEMMA SumStep ==
  ASSUME NEW f, NEW S, IsFiniteSet(S)
  PROVE  SumFunctionOnSet(f, S) =
           IF S = {} THEN 0 ELSE f[AnyOf(S)] + SumFunctionOnSet(f, S \ {AnyOf(S)})
<1> DEFINE V(s) == SumFunctionOnSet(f, s)
           Val(s) == IF s = {} THEN 0 ELSE f[AnyOf(s)] + V(s \ {AnyOf(s)})
           Bad == {s \in SUBSET S : V(s) # Val(s)}
<1> HIDE DEF V
<1>p. \A s : s # {} => AnyOf(s) \in s
  BY DEF AnyOf
<1>1. SUFFICES ASSUME Bad # {} PROVE FALSE
  BY DEF V
<1>2. PICK T \in Bad : \A U \in Bad : U \subseteq T => U = T
  <2>1. Bad \subseteq SUBSET S
    OBVIOUS
  <2> HIDE DEF Bad
  <2> QED BY <1>1, <2>1, SmallestSubset
<1>3. \A s \in SUBSET T : s # T => V(s) = Val(s)
  BY <1>2
<1> DEFINE g == CHOOSE g : IsSum(g, f, T)
<1>4. IsSum(g, f, T)
  <2> DEFINE h == [s \in SUBSET T |-> Val(s)]
  <2>1. \A s \in SUBSET T : s # {} => s \ {AnyOf(s)} \in SUBSET T /\ s \ {AnyOf(s)} # T
    BY <1>p
  <2>2. \A s \in SUBSET T : s # {} => h[s \ {AnyOf(s)}] = V(s \ {AnyOf(s)})
    BY <1>3, <2>1
  <2>3. IsSum(h, f, T)
    BY <2>2 DEF IsSum
  <2> QED BY <2>3
<1>5. \A s \in SUBSET T : g[s] = IF s = {} THEN 0 ELSE f[AnyOf(s)] + g[s \ {AnyOf(s)}]
  BY <1>4 DEF IsSum
<1> HIDE DEF g
<1>6. \A s \in SUBSET T : s # T => g[s] = V(s)
  <2> DEFINE Off == {s \in SUBSET T : s # T /\ g[s] # V(s)}
  <2>1. SUFFICES ASSUME Off # {} PROVE FALSE
    OBVIOUS
  <2>f. IsFiniteSet(T)
    BY FS_Subset
  <2>2. PICK s \in Off : \A U \in Off : U \subseteq s => U = s
    <3>1. Off \subseteq SUBSET T
      OBVIOUS
    <3> HIDE DEF Off
    <3> QED BY <2>1, <2>f, <3>1, SmallestSubset
  <2>3. CASE s = {}
    BY <2>2, <2>3, <1>3, <1>5
  <2>4. CASE s # {}
    <3>1. s \ {AnyOf(s)} \in SUBSET T /\ s \ {AnyOf(s)} # s /\ s \ {AnyOf(s)} # T
      BY <2>4, <1>p
    <3>2. g[s \ {AnyOf(s)}] = V(s \ {AnyOf(s)})
      BY <3>1, <2>2
    <3> QED BY <2>4, <3>2, <1>3, <1>5
  <2> QED BY <2>3, <2>4
<1>7. V(T) = g[T]
  BY SumUnfold DEF V, g
<1>8. T # {} => T \ {AnyOf(T)} \in SUBSET T /\ T \ {AnyOf(T)} # T
  BY <1>p
<1>9. V(T) = Val(T)
  BY <1>5, <1>6, <1>7, <1>8
<1> QED BY <1>9

(* Nothing adds up to zero.                                                *)
LEMMA SumEmpty == \A f : SumFunctionOnSet(f, {}) = 0
BY SumStep, FS_EmptySet

(* A sum of integers is an integer, and any element can be taken out of it. *)
LEMMA SumRemove ==
  ASSUME NEW f, NEW S, IsFiniteSet(S), \A x \in S : f[x] \in Int
  PROVE  /\ SumFunctionOnSet(f, S) \in Int
         /\ \A e \in S : SumFunctionOnSet(f, S) = f[e] + SumFunctionOnSet(f, S \ {e})
<1> DEFINE V(s) == SumFunctionOnSet(f, s)
           Good(s) == V(s) \in Int /\ \A e \in s : V(s) = f[e] + V(s \ {e})
           Bad == {s \in SUBSET S : ~Good(s)}
<1> HIDE DEF V
<1>1. SUFFICES ASSUME Bad # {} PROVE FALSE
  BY DEF V
<1>2. PICK T \in Bad : \A U \in Bad : U \subseteq T => U = T
  <2>1. Bad \subseteq SUBSET S
    OBVIOUS
  <2> HIDE DEF Bad
  <2> QED BY <1>1, <2>1, SmallestSubset
<1>3. \A s \in SUBSET T : s # T => Good(s)
  BY <1>2
<1>4. IsFiniteSet(T)
  BY FS_Subset
<1>5. \A s \in SUBSET T : V(s) = IF s = {} THEN 0 ELSE f[AnyOf(s)] + V(s \ {AnyOf(s)})
  <2> TAKE s \in SUBSET T
  <2>1. IsFiniteSet(s)
    BY <1>4, FS_Subset
  <2> QED BY <2>1, SumStep DEF V
<1>6. CASE T = {}
  <2>1. V(T) = 0
    BY <1>5, <1>6
  <2>2. Good(T)
    BY <2>1, <1>6
  <2> QED BY <1>2, <2>2
<1>7. CASE T # {}
  <2> DEFINE p == AnyOf(T)
  <2>1. p \in T
    BY <1>7 DEF AnyOf
  <2>2. V(T) = f[p] + V(T \ {p})
    BY <1>5, <1>7
  <2> HIDE DEF p
  <2>3. Good(T \ {p})
    BY <1>3, <2>1
  <2>4. V(T) \in Int
    BY <2>1, <2>2, <2>3
  <2>5. ASSUME NEW e \in T PROVE V(T) = f[e] + V(T \ {e})
    <3>1. CASE e = p
      BY <3>1, <2>2
    <3>2. CASE e # p
      <4>1. V(T \ {p}) = f[e] + V((T \ {p}) \ {e})
        BY <2>3, <3>2
      <4>2. Good(T \ {e})
        BY <1>3
      <4>3. V(T \ {e}) = f[p] + V((T \ {e}) \ {p})
        BY <2>1, <4>2, <3>2
      <4> DEFINE rest == V((T \ {p}) \ {e})
      <4>4. V(T \ {p}) = f[e] + rest /\ rest \in Int
        BY <4>1, <4>2, <1>3, <2>1
      <4>5. (T \ {p}) \ {e} = (T \ {e}) \ {p}
        OBVIOUS
      <4>6. V(T \ {e}) = f[p] + rest
        BY <4>3, <4>5
      <4>7. f[e] \in Int /\ f[p] \in Int
        BY <2>1
      <4> HIDE DEF rest
      <4> QED BY <2>2, <4>4, <4>6, <4>7
    <3> QED BY <3>1, <3>2
  <2> QED BY <1>2, <2>4, <2>5
<1> QED BY <1>6, <1>7

(* The sum of a sum of two functions.                                      *)
LEMMA SumPlus ==
  ASSUME NEW S, IsFiniteSet(S), NEW f, NEW g, NEW h,
         \A x \in S : f[x] \in Int /\ g[x] \in Int /\ h[x] = f[x] + g[x]
  PROVE  SumFunctionOnSet(h, S) = SumFunctionOnSet(f, S) + SumFunctionOnSet(g, S)
<1> DEFINE Sum(x, s) == SumFunctionOnSet(x, s)
           Bad == {s \in SUBSET S : Sum(h, s) # Sum(f, s) + Sum(g, s)}
<1>1. \A s \in SUBSET S : Sum(f, s) \in Int /\ Sum(g, s) \in Int
  BY FS_Subset, SumRemove
<1>2. \A s \in SUBSET S : \A e \in s :
        /\ Sum(f, s) = f[e] + Sum(f, s \ {e})
        /\ Sum(g, s) = g[e] + Sum(g, s \ {e})
        /\ Sum(h, s) = h[e] + Sum(h, s \ {e})
  <2> SUFFICES ASSUME NEW s \in SUBSET S, NEW e \in s
               PROVE  /\ Sum(f, s) = f[e] + Sum(f, s \ {e})
                      /\ Sum(g, s) = g[e] + Sum(g, s \ {e})
                      /\ Sum(h, s) = h[e] + Sum(h, s \ {e})
    OBVIOUS
  <2>1. IsFiniteSet(s) /\ \A x \in s : f[x] \in Int /\ g[x] \in Int /\ h[x] \in Int
    BY FS_Subset
  <2> QED BY <2>1, SumRemove
<1>3. Sum(f, {}) = 0 /\ Sum(g, {}) = 0 /\ Sum(h, {}) = 0
  BY SumEmpty
<1> HIDE DEF Sum
<1>4. SUFFICES ASSUME Bad # {} PROVE FALSE
  BY DEF Sum
<1>5. PICK T \in Bad : \A U \in Bad : U \subseteq T => U = T
  <2>1. Bad \subseteq SUBSET S
    OBVIOUS
  <2> HIDE DEF Bad
  <2> QED BY <1>4, <2>1, SmallestSubset
<1>6. PICK e \in T : TRUE
  <2>1. {} \notin Bad
    BY <1>3
  <2> QED BY <2>1
<1>7. Sum(h, T \ {e}) = Sum(f, T \ {e}) + Sum(g, T \ {e})
  BY <1>5
<1>8. /\ Sum(f, T) = f[e] + Sum(f, T \ {e}) /\ Sum(g, T) = g[e] + Sum(g, T \ {e})
      /\ Sum(h, T) = h[e] + Sum(h, T \ {e})
  BY <1>2
<1>9. /\ f[e] \in Int /\ g[e] \in Int /\ h[e] = f[e] + g[e]
      /\ Sum(f, T \ {e}) \in Int /\ Sum(g, T \ {e}) \in Int
  BY <1>1
<1> QED BY <1>7, <1>8, <1>9

(* A sum grows with its terms.                                             *)
LEMMA SumMonotone ==
  ASSUME NEW S, IsFiniteSet(S), NEW f, NEW g,
         \A x \in S : f[x] \in Int /\ g[x] \in Int /\ f[x] <= g[x]
  PROVE  SumFunctionOnSet(f, S) <= SumFunctionOnSet(g, S)
<1> DEFINE Sum(x, s) == SumFunctionOnSet(x, s)
           Bad == {s \in SUBSET S : ~(Sum(f, s) <= Sum(g, s))}
<1>1. \A s \in SUBSET S : Sum(f, s) \in Int /\ Sum(g, s) \in Int
  BY FS_Subset, SumRemove
<1>2. \A s \in SUBSET S : \A e \in s :
        /\ Sum(f, s) = f[e] + Sum(f, s \ {e})
        /\ Sum(g, s) = g[e] + Sum(g, s \ {e})
  <2> SUFFICES ASSUME NEW s \in SUBSET S, NEW e \in s
               PROVE  /\ Sum(f, s) = f[e] + Sum(f, s \ {e})
                      /\ Sum(g, s) = g[e] + Sum(g, s \ {e})
    OBVIOUS
  <2>1. IsFiniteSet(s) /\ \A x \in s : f[x] \in Int /\ g[x] \in Int
    BY FS_Subset
  <2> QED BY <2>1, SumRemove
<1>3. Sum(f, {}) = 0 /\ Sum(g, {}) = 0
  BY SumEmpty
<1> HIDE DEF Sum
<1>4. SUFFICES ASSUME Bad # {} PROVE FALSE
  BY DEF Sum
<1>5. PICK T \in Bad : \A U \in Bad : U \subseteq T => U = T
  <2>1. Bad \subseteq SUBSET S
    OBVIOUS
  <2> HIDE DEF Bad
  <2> QED BY <1>4, <2>1, SmallestSubset
<1>6. PICK e \in T : TRUE
  BY <1>3
<1>7. Sum(f, T \ {e}) <= Sum(g, T \ {e})
  BY <1>5
<1>8. /\ Sum(f, T) = f[e] + Sum(f, T \ {e}) /\ Sum(g, T) = g[e] + Sum(g, T \ {e})
  BY <1>2
<1>9. /\ f[e] \in Int /\ g[e] \in Int /\ f[e] <= g[e]
      /\ Sum(f, T \ {e}) \in Int /\ Sum(g, T \ {e}) \in Int
  BY <1>1
<1> QED BY <1>7, <1>8, <1>9

(* A sum depends only on the values of its terms.                          *)
LEMMA SumSame ==
  ASSUME NEW S, IsFiniteSet(S), NEW f, NEW g, \A x \in S : f[x] \in Int /\ f[x] = g[x]
  PROVE  SumFunctionOnSet(f, S) = SumFunctionOnSet(g, S)
<1>1. SumFunctionOnSet(f, S) <= SumFunctionOnSet(g, S)
  BY SumMonotone
<1>2. SumFunctionOnSet(g, S) <= SumFunctionOnSet(f, S)
  BY SumMonotone
<1>3. SumFunctionOnSet(f, S) \in Int /\ SumFunctionOnSet(g, S) \in Int
  BY SumRemove
<1> QED BY <1>1, <1>2, <1>3

(* A sum over a subset is the sum of the terms masked to it.               *)
LEMMA SumFilter ==
  ASSUME NEW S, IsFiniteSet(S), NEW T, T \subseteq S, NEW f, \A x \in S : f[x] \in Int
  PROVE  SumFunctionOnSet(f, T) =
           SumFunctionOnSet([x \in S |-> IF x \in T THEN f[x] ELSE 0], S)
<1> DEFINE Sum(x, s) == SumFunctionOnSet(x, s)
           g == [x \in S |-> IF x \in T THEN f[x] ELSE 0]
           Bad == {s \in SUBSET S : Sum(f, s \cap T) # Sum(g, s)}
<1>g. \A x \in S : g[x] = IF x \in T THEN f[x] ELSE 0
  OBVIOUS
<1> HIDE DEF g
<1>1. \A s \in SUBSET S :
        /\ \A e \in s \cap T : Sum(f, s \cap T) = f[e] + Sum(f, (s \cap T) \ {e})
        /\ \A e \in s : Sum(g, s) = g[e] + Sum(g, s \ {e})
        /\ Sum(g, s) \in Int
  <2> TAKE s \in SUBSET S
  <2>1. IsFiniteSet(s) /\ IsFiniteSet(s \cap T)
    BY FS_Subset
  <2>2. \A x \in s : g[x] \in Int
    BY <1>g
  <2> QED BY <2>1, <2>2, SumRemove
<1>2. Sum(f, {}) = 0 /\ Sum(g, {}) = 0
  BY SumEmpty
<1> HIDE DEF Sum
<1>3. Bad = {}
  <2> SUFFICES ASSUME Bad # {} PROVE FALSE
    OBVIOUS
  <2>1. PICK U \in Bad : \A s \in Bad : s \subseteq U => s = U
    <3>1. Bad \subseteq SUBSET S
      OBVIOUS
    <3> HIDE DEF Bad
    <3> QED BY <3>1, SmallestSubset
  <2>2. PICK e \in U : TRUE
    <3>1. {} \cap T = {}
      OBVIOUS
    <3> QED BY <1>2, <3>1
  <2>3. Sum(f, (U \ {e}) \cap T) = Sum(g, U \ {e})
    BY <2>1
  <2>4. Sum(g, U) = g[e] + Sum(g, U \ {e}) /\ Sum(g, U \ {e}) \in Int
    BY <1>1
  <2>5. CASE e \in T
    <3>1. (U \cap T) \ {e} = (U \ {e}) \cap T
      OBVIOUS
    <3>2. Sum(f, U \cap T) = f[e] + Sum(f, (U \ {e}) \cap T)
      BY <1>1, <2>5, <3>1
    <3>3. g[e] = f[e]
      BY <1>g, <2>5
    <3> QED BY <2>1, <2>3, <2>4, <3>2, <3>3
  <2>6. CASE e \notin T
    <3>1. U \cap T = (U \ {e}) \cap T
      BY <2>6
    <3>2. g[e] = 0
      BY <1>g, <2>6
    <3> QED BY <2>1, <2>3, <2>4, <3>1, <3>2
  <2> QED BY <2>5, <2>6
<1>4. S \cap T = T
  OBVIOUS
<1>5. Sum(f, S \cap T) = Sum(g, S)
  BY <1>3
<1> QED BY <1>4, <1>5 DEF Sum, g

(* Zeros add up to zero.                                                   *)
LEMMA SumZero ==
  ASSUME NEW S, IsFiniteSet(S), NEW f, \A x \in S : f[x] = 0
  PROVE  SumFunctionOnSet(f, S) = 0
<1>1. SumFunctionOnSet(f, S) = SumFunctionOnSet(f, S) + SumFunctionOnSet(f, S)
  BY SumPlus
<1>2. SumFunctionOnSet(f, S) \in Int
  BY SumRemove
<1>3. \A n \in Int : n = n + n => n = 0
  OBVIOUS
<1> QED BY <1>1, <1>2, <1>3

(* Sums over disjoint sets add.                                            *)
LEMMA SumUnion ==
  ASSUME NEW S, NEW T, IsFiniteSet(S), IsFiniteSet(T), S \cap T = {},
         NEW f, \A x \in S \cup T : f[x] \in Int
  PROVE  SumFunctionOnSet(f, S \cup T) = SumFunctionOnSet(f, S) + SumFunctionOnSet(f, T)
<1> DEFINE U == S \cup T
           fs == [x \in U |-> IF x \in S THEN f[x] ELSE 0]
           ft == [x \in U |-> IF x \in T THEN f[x] ELSE 0]
<1>1. IsFiniteSet(U)
  BY FS_Union
<1>2. SumFunctionOnSet(f, S) = SumFunctionOnSet(fs, U)
  BY <1>1, SumFilter
<1>3. SumFunctionOnSet(f, T) = SumFunctionOnSet(ft, U)
  BY <1>1, SumFilter
<1>4. \A x \in U : fs[x] \in Int /\ ft[x] \in Int /\ f[x] = fs[x] + ft[x]
  OBVIOUS
<1> HIDE DEF fs, ft
<1>5. SumFunctionOnSet(f, U) = SumFunctionOnSet(fs, U) + SumFunctionOnSet(ft, U)
  BY <1>1, <1>4, SumPlus
<1> QED BY <1>2, <1>3, <1>5

(* A sum with one term that is not zero is that term.                      *)
LEMMA SumAlone ==
  ASSUME NEW S, IsFiniteSet(S), NEW e \in S, NEW f, f[e] \in Int,
         \A x \in S \ {e} : f[x] = 0
  PROVE  SumFunctionOnSet(f, S) = f[e]
<1>1. SumFunctionOnSet(f, S) = f[e] + SumFunctionOnSet(f, S \ {e})
  BY SumRemove
<1>2. SumFunctionOnSet(f, S \ {e}) = 0
  BY FS_Subset, SumZero
<1> QED BY <1>1, <1>2

(* The sum of the opposites is the opposite of the sum.                    *)
LEMMA SumMinus ==
  ASSUME NEW S, IsFiniteSet(S), NEW f, NEW g, \A x \in S : f[x] \in Int /\ g[x] = -f[x]
  PROVE  SumFunctionOnSet(g, S) = 0 - SumFunctionOnSet(f, S)
<1> DEFINE z == [x \in S |-> 0]
<1>1. SumFunctionOnSet(z, S) = SumFunctionOnSet(f, S) + SumFunctionOnSet(g, S)
  BY SumPlus
<1>2. SumFunctionOnSet(z, S) = 0
  BY SumZero
<1>3. SumFunctionOnSet(f, S) \in Int /\ SumFunctionOnSet(g, S) \in Int
  BY SumRemove
<1> QED BY <1>1, <1>2, <1>3

(* A new element adds its term.                                            *)
LEMMA SumAdd ==
  ASSUME NEW S, IsFiniteSet(S), NEW e, e \notin S, NEW f, \A x \in S \cup {e} : f[x] \in Int
  PROVE  /\ SumFunctionOnSet(f, S \cup {e}) = SumFunctionOnSet(f, S) + f[e]
         /\ SumFunctionOnSet(f, S) \in Int
<1>1. IsFiniteSet(S \cup {e}) /\ e \in S \cup {e} /\ (S \cup {e}) \ {e} = S
  BY FS_AddElement
<1>2. SumFunctionOnSet(f, S \cup {e}) = f[e] + SumFunctionOnSet(f, S)
  BY <1>1, SumRemove
<1>3. f[e] \in Int /\ SumFunctionOnSet(f, S) \in Int
  BY SumRemove
<1> QED BY <1>2, <1>3

(* Changing one term changes the sum by the difference.                    *)
LEMMA SumChange ==
  ASSUME NEW S, IsFiniteSet(S), NEW e \in S, NEW f, NEW g,
         \A x \in S : f[x] \in Int /\ g[x] \in Int, \A x \in S \ {e} : f[x] = g[x]
  PROVE  SumFunctionOnSet(g, S) = SumFunctionOnSet(f, S) - f[e] + g[e]
<1>1. /\ SumFunctionOnSet(f, S) = f[e] + SumFunctionOnSet(f, S \ {e})
      /\ SumFunctionOnSet(g, S) = g[e] + SumFunctionOnSet(g, S \ {e})
  BY SumRemove
<1>2. IsFiniteSet(S \ {e})
  BY FS_Subset
<1>3. SumFunctionOnSet(f, S \ {e}) = SumFunctionOnSet(g, S \ {e})
  BY <1>2, SumSame
<1>4. SumFunctionOnSet(f, S \ {e}) \in Int
  BY <1>2, SumRemove
<1> QED BY <1>1, <1>3, <1>4

-----------------------------------------------------------------------------
(* Lemmas about the operators.                                             *)

(* A notification applied to a row yields a status a row can have.         *)
LEMMA MapType ==
  ASSUME NEW n \in Notice, NEW current \in RowStatus
  PROVE  MapMidtransStatus(n, current) \in RowStatus
BY DEF MapMidtransStatus, RowStatus, TxnStatus

(* What a handler is doing determines the fields its job carries.          *)
LEMMA JobFields ==
  ASSUME NEW j \in Job
  PROVE  /\ j.kind = "webhook" =>
              j.order \in Orders /\ j.next \in RowStatus /\ j.partial \in BOOLEAN
         /\ j.kind = "release" => j.milestone \in Milestones /\ j.recheck \in BOOLEAN
         /\ j.kind = "refund" =>
              /\ j.key \in RefundKeys /\ j.amount \in Nat
              /\ j.full \in BOOLEAN /\ j.recheck \in BOOLEAN
         /\ j = Idle <=> j.kind = "idle"
BY DEF Job, Idle

(* Every set of entries the handlers post is an integer per account.       *)
LEMMA EntriesType ==
  /\ \A o \in Orders : FundingEntries(o) \in [Accounts -> Int]
  /\ \A m \in Milestones : ReleaseEntries(m) \in [Accounts -> Int]
  /\ \A amount \in Nat : \A draw \in [Pools -> 0..amount] :
       RefundEntries(amount, draw) \in [Accounts -> Int]
  /\ TypeOK => \A o \in Orders : ReversalEntries(o) \in [Accounts -> Int]
  /\ NoEntries \in [Accounts -> Int]
<1> USE OrdersAssumption, MilestonesAssumption DEF Accounts
<1>1. \A o \in Orders : FundingEntries(o) \in [Accounts -> Int]
  BY DEF FundingEntries
<1>2. \A m \in Milestones : ReleaseEntries(m) \in [Accounts -> Int]
  BY DEF ReleaseEntries
<1>3. \A amount \in Nat : \A draw \in [Pools -> 0..amount] :
        RefundEntries(amount, draw) \in [Accounts -> Int]
  BY DEF RefundEntries
<1>4. TypeOK => \A o \in Orders : ReversalEntries(o) \in [Accounts -> Int]
  BY DEF TypeOK, ReversalEntries, Txns
<1>5. NoEntries \in [Accounts -> Int]
  BY DEF NoEntries
<1> QED BY <1>1, <1>2, <1>3, <1>4, <1>5

(* Posting integer entries keeps the ledger and the balances integers.     *)
LEMMA PostType ==
  ASSUME TypeOK, NEW t \in Txns, NEW e \in [Accounts -> Int], PostEntries(t, e)
  PROVE  posted' \in [Txns -> [Accounts -> Int]] /\ balance' \in [Accounts -> Int]
BY DEF TypeOK, PostEntries

(* Publishing keeps the counts of events counts.                           *)
LEMMA PublishType ==
  ASSUME TypeOK, NEW t \in Txns, NEW e \in EventKinds, Publish(t, e)
  PROVE  outbox' \in [Txns -> [EventKinds -> Nat]]
BY DEF TypeOK, Publish

(* Every move of the gateway changes one charge and sends one notification.*)
LEMMA GatewayMoves ==
  ASSUME NEW o \in Orders, Gateway(o)
  PROVE  \E from \in SUBSET ChargeState, to \in ChargeState, n \in Notices :
           GatewayStep(o, from, to, n)
<1>1. ASSUME NEW from \in SUBSET ChargeState, NEW to \in ChargeState, NEW n,
             GatewayStep(o, from, to, n)
      PROVE  \E f \in SUBSET ChargeState, t \in ChargeState, m \in Notices :
               GatewayStep(o, f, t, m)
  BY <1>1 DEF GatewayStep
<1>2. /\ {"open"} \in SUBSET ChargeState /\ {"captured"} \in SUBSET ChargeState
      /\ {"open", "review"} \in SUBSET ChargeState
      /\ {"open", "review", "closed"} \in SUBSET ChargeState
      /\ {"open", "review", "closed", "captured"} \in SUBSET ChargeState
      /\ "open" \in ChargeState /\ "review" \in ChargeState /\ "closed" \in ChargeState
      /\ "captured" \in ChargeState /\ "returned" \in ChargeState
  BY DEF ChargeState
<1> QED BY <1>1, <1>2, Zenon DEF Gateway

-----------------------------------------------------------------------------
(* Type correctness: every step of every handler keeps every variable in   *)
(* its type.                                                               *)
THEOREM TypeCorrect == Spec => []TypeOK
<1> USE DEF Txns
<1>1. Init => TypeOK
  BY DEF Init, TypeOK, TxnStatus, Accounts, EventKinds, NoEntries, NoEvents, Job, ChargeState
<1>2. TypeOK /\ [Next]_vars => TypeOK'
  <2> SUFFICES ASSUME TypeOK, [Next]_vars PROVE TypeOK'
    OBVIOUS
  <2>1. ASSUME NEW o \in Orders, CreateSnapToken(o) PROVE TypeOK'
    BY <2>1 DEF CreateSnapToken, TypeOK, TxnStatus, ChargeState, history
  <2>2. ASSUME NEW o \in Orders, Gateway(o) PROVE TypeOK'
    <3>1. \E from \in SUBSET ChargeState, to \in ChargeState, n \in Notices :
            GatewayStep(o, from, to, n)
      BY <2>2, GatewayMoves
    <3> QED BY <3>1 DEF GatewayStep, TypeOK, books, history
  <2>3. ASSUME NEW h \in Handlers, NEW o \in Orders, NEW n \in Notices, WebhookRead(h, o, n)
        PROVE  TypeOK'
    <3>1. n \in Notice
      BY OrdersAssumption
    <3>2. MapMidtransStatus(n, status[o]) \in RowStatus
      BY <2>3, <3>1, MapType DEF WebhookRead, TypeOK, RowStatus
    <3>3. job' \in [Handlers -> Job]
      BY <2>3, <3>2 DEF WebhookRead, TypeOK, Job
    <3> QED BY <2>3, <3>3 DEF WebhookRead, TypeOK, books, gateway, history
  <2>4. ASSUME NEW h \in Handlers, WebhookCommit(h) PROVE TypeOK'
    <3> DEFINE o == job[h].order
               next == job[h].next
    <3>1. o \in Orders /\ next \in RowStatus
      BY <2>4, JobFields DEF WebhookCommit, WebhookApplies, TypeOK
    <3>2. WebhookEntries(o, next) \in [Accounts -> Int]
      BY <3>1, EntriesType DEF WebhookEntries
    <3>3. posted' \in [Txns -> [Accounts -> Int]] /\ balance' \in [Accounts -> Int]
      BY <2>4, <3>1, <3>2, PostType DEF WebhookCommit
    <3>4. outbox' \in [Txns -> [EventKinds -> Nat]]
      BY <2>4, <3>1, PublishType DEF WebhookCommit, EventKinds, TypeOK
    <3>5. status' \in [Txns -> TxnStatus]
      BY <2>4, <3>1 DEF WebhookCommit, TypeOK, RowStatus
    <3>6. job' \in [Handlers -> Job]
      BY <2>4 DEF WebhookCommit, TypeOK, Job
    <3> QED BY <2>4, <3>3, <3>4, <3>5, <3>6 DEF WebhookCommit, TypeOK, gateway, history
  <2>5. ASSUME NEW h \in Handlers, NEW m \in Milestones, ReleaseCreate(h, m) PROVE TypeOK'
    <3>1. job' \in [Handlers -> Job]
      BY <2>5 DEF ReleaseCreate, TypeOK, Job
    <3> QED BY <2>5, <3>1 DEF ReleaseCreate, NoteShared, Keys, TypeOK, TxnStatus, gateway
  <2>6. ASSUME NEW h \in Handlers, ReleaseSettle(h) PROVE TypeOK'
    <3> DEFINE m == job[h].milestone
    <3>1. m \in Milestones
      BY <2>6, JobFields DEF ReleaseSettle, ReleaseRuns, TypeOK
    <3>2. posted' \in [Txns -> [Accounts -> Int]] /\ balance' \in [Accounts -> Int]
      BY <2>6, <3>1, EntriesType, PostType DEF ReleaseSettle
    <3>3. outbox' \in [Txns -> [EventKinds -> Nat]]
      BY <2>6, <3>1, PublishType DEF ReleaseSettle, EventKinds
    <3>4. job' \in [Handlers -> Job]
      BY <2>6 DEF ReleaseSettle, TypeOK, Job
    <3> QED BY <2>6, <3>1, <3>2, <3>3, <3>4 DEF ReleaseSettle, TypeOK, TxnStatus, gateway, history
  <2>7. ASSUME NEW h \in Handlers, NEW k \in RefundKeys, NEW amount \in RefundAsks[k],
               RefundCreate(h, k, amount)
        PROVE  TypeOK'
    <3>1. amount \in Nat
      BY RefundsAssumption
    <3>2. job' \in [Handlers -> Job]
      BY <2>7, <3>1 DEF RefundCreate, TypeOK, Job
    <3> QED BY <2>7, <3>1, <3>2
      DEF RefundCreate, NoteShared, NoteResized, Keys, TypeOK, TxnStatus, gateway
  <2>8. ASSUME NEW h \in Handlers, RefundSettle(h) PROVE TypeOK'
    <3> DEFINE k == job[h].key
               o == RefundedOrder[k]
               amount == job[h].amount
    <3>1. k \in RefundKeys /\ amount \in Nat /\ o \in Orders
      BY <2>8, JobFields, RefundsAssumption DEF RefundSettle, RefundRuns, TypeOK
    <3>2. posted' \in [Txns -> [Accounts -> Int]] /\ balance' \in [Accounts -> Int]
      <4>1. PICK draw \in [Pools -> 0..amount] : PostEntries(k, RefundEntries(amount, draw))
        BY <2>8 DEF RefundSettle
      <4>2. RefundEntries(amount, draw) \in [Accounts -> Int]
        BY <3>1, EntriesType
      <4> QED BY <3>1, <4>1, <4>2, PostType
    <3>3. outbox' \in [Txns -> [EventKinds -> Nat]]
      <4>1. PICK e \in EventKinds : Publish(k, e)
        BY <2>8 DEF RefundSettle, EventKinds
      <4> QED BY <3>1, <4>1, PublishType
    <3>4. job' \in [Handlers -> Job]
      BY <2>8 DEF RefundSettle, TypeOK, Job
    <3>5. status' \in [Txns -> TxnStatus]
      BY <2>8 DEF RefundSettle, TypeOK, TxnStatus
    <3> QED BY <2>8, <3>2, <3>3, <3>4, <3>5 DEF RefundSettle, TypeOK, gateway, history
  <2>9. ASSUME NEW h \in Handlers, Retry(h) PROVE TypeOK'
    <3> DEFINE again == [job[h] EXCEPT !.recheck = TRUE]
    <3>1. job[h] \in Job /\ job[h].kind \in {"release", "refund"}
      BY <2>9 DEF Retry, TypeOK
    <3>2. again \in Job
      <4>1. CASE job[h] \in [kind : {"release"}, milestone : Milestones, recheck : BOOLEAN]
        BY <4>1 DEF Job
      <4>2. CASE job[h] \in [kind : {"refund"}, key : RefundKeys, amount : Nat,
                             full : BOOLEAN, recheck : BOOLEAN]
        BY <4>2 DEF Job
      <4> QED BY <3>1, <4>1, <4>2 DEF Job, Idle
    <3>3. job' = [job EXCEPT ![h] = again]
      BY <2>9 DEF Retry
    <3>4. job' \in [Handlers -> Job]
      BY <3>2, <3>3 DEF TypeOK
    <3> QED BY <2>9, <3>4 DEF Retry, TypeOK, books, gateway, history
  <2>10. ASSUME NEW h \in Handlers, Abandon(h) PROVE TypeOK'
    BY <2>10 DEF Abandon, TypeOK, Job, books, gateway, history
  <2>11. CASE UNCHANGED vars
    BY <2>11 DEF vars, TypeOK
  <2> QED BY <2>1, <2>2, <2>3, <2>4, <2>5, <2>6, <2>7, <2>8, <2>9, <2>10, <2>11 DEF Next
<1> QED BY <1>1, <1>2, PTL DEF Spec

-----------------------------------------------------------------------------
(* The inductive invariant behind OrderBookedOnce and SettledIsFinal.      *)

(* A release or refund row is created pending and only ever completed.     *)
KeyStatus ==
  \A t \in Milestones \cup RefundKeys : status[t] \in {"absent", "pending", "completed"}

(* A refund under way is of an order that had settled when it was asked.   *)
RefundsSettledOrder ==
  \A h \in Handlers : job[h].kind = "refund" => status[RefundedOrder[job[h].key]] \in Settled

(* An order's status says which of its two events have been written.       *)
BookingAgrees ==
  \A o \in Orders :
    LET settled  == outbox[o]["settled"]
        reversed == outbox[o]["refunded"]
    IN  /\ status[o] \notin Settled => settled = 0 /\ reversed = 0
        /\ status[o] = "completed" => settled = 1 /\ reversed = 0
        /\ status[o] = "refunded" => settled <= 1 /\ reversed <= 1
        /\ posted[o] = IF settled > reversed THEN FundingEntries(o) ELSE NoEntries

IInv == TypeOK /\ KeyStatus /\ RefundsSettledOrder /\ BookingAgrees

(* What a committed notification can do to a row: never leave refunded,    *)
(* and leave completed only for refunded.                                  *)
LEMMA SupersedesFinal ==
  ASSUME NEW current, NEW next, Supersedes(current, next)
  PROVE  /\ current # "refunded"
         /\ current = "completed" => next = "refunded"
BY DEF Supersedes

(* An empty ledger satisfies the invariant.                                *)
LEMMA InitIInv == Init => IInv
<1> SUFFICES ASSUME Init PROVE IInv
  OBVIOUS
<1>1. TypeOK
  BY DEF Init, TypeOK, Txns, TxnStatus, Accounts, EventKinds, NoEntries, NoEvents, Job, ChargeState
<1>2. KeyStatus
  BY DEF Init, KeyStatus, Txns
<1>3. RefundsSettledOrder
  BY DEF Init, RefundsSettledOrder, Idle
<1>4. BookingAgrees
  BY DEF Init, BookingAgrees, Txns, EventKinds, NoEvents, Settled
<1> QED BY <1>1, <1>2, <1>3, <1>4 DEF IInv

(* The commit of a notification keeps the invariant: the second look at    *)
(* the row, under its lock, is what the argument rests on.                 *)
LEMMA WebhookCommitIInv ==
  ASSUME IInv, TypeOK', NEW h \in Handlers, WebhookCommit(h)
  PROVE  IInv'
<1> USE DEF IInv
<1> DEFINE o == job[h].order
           next == job[h].next
<1>1. o \in Orders /\ next \in RowStatus
  BY JobFields DEF WebhookCommit, WebhookApplies, TypeOK
<1>2. o \notin Milestones \cup RefundKeys /\ o \in Txns
  BY <1>1, DistinctAssumption DEF Txns
<1>3. /\ status' = [status EXCEPT ![o] = next]
      /\ posted' = [posted EXCEPT ![o] =
                      [a \in Accounts |-> posted[o][a] + WebhookEntries(o, next)[a]]]
      /\ job' = [job EXCEPT ![h] = Idle]
      /\ next = "completed" => outbox' = [outbox EXCEPT ![o]["settled"] = @ + 1]
      /\ next = "refunded"  => outbox' = [outbox EXCEPT ![o]["refunded"] = @ + 1]
      /\ next \notin Settled => outbox' = outbox
  BY DEF WebhookCommit, PostEntries, Publish, Settled
<1>4. /\ status[o] # "refunded"
      /\ status[o] = "completed" => next = "refunded"
  BY SupersedesFinal DEF WebhookCommit, WebhookApplies
<1>5. KeyStatus'
  BY <1>2, <1>3 DEF KeyStatus, TypeOK
<1>6. RefundsSettledOrder'
  <2> SUFFICES ASSUME NEW g \in Handlers, job'[g].kind = "refund"
               PROVE  status'[RefundedOrder[job'[g].key]] \in Settled
    BY DEF RefundsSettledOrder
  <2>1. job'[g] = job[g] /\ job[g].kind = "refund"
    BY <1>3 DEF TypeOK, Idle
  <2>2. RefundedOrder[job[g].key] \in Orders
    BY <2>1, JobFields, RefundsAssumption DEF TypeOK
  <2>3. status[RefundedOrder[job[g].key]] \in Settled
    BY <2>1 DEF RefundsSettledOrder
  <2> QED BY <1>3, <1>4, <2>1, <2>2, <2>3 DEF TypeOK, Txns, Settled
<1>7. BookingAgrees'
  <2>1. ASSUME NEW q \in Orders, q # o
        PROVE  status'[q] = status[q] /\ posted'[q] = posted[q] /\ outbox'[q] = outbox[q]
    BY <1>2, <1>3, <2>1 DEF TypeOK, Txns, Settled
  <2>2. FundingEntries(o) \in [Accounts -> Int] /\ NoEntries \in [Accounts -> Int]
        /\ ReversalEntries(o) \in [Accounts -> Int] /\ posted[o] \in [Accounts -> Int]
    BY <1>1, <1>2, EntriesType DEF TypeOK
  <2>3. outbox[o] \in [EventKinds -> Nat]
    BY <1>2 DEF TypeOK
  <2>4. posted'[o] = [a \in Accounts |-> posted[o][a] + WebhookEntries(o, next)[a]]
    BY <1>2, <1>3 DEF TypeOK
  <2>5. CASE next = "completed"
    <3>1. status[o] \notin Settled
      BY <1>4, <2>5 DEF Settled
    <3>2. posted[o] = NoEntries /\ outbox[o]["settled"] = 0 /\ outbox[o]["refunded"] = 0
      BY <1>1, <3>1 DEF BookingAgrees
    <3>3. posted'[o] = FundingEntries(o)
      BY <2>2, <2>4, <2>5, <3>2 DEF WebhookEntries, NoEntries
    <3>4. outbox'[o]["settled"] = 1 /\ outbox'[o]["refunded"] = 0
      <4>1. outbox'[o] = [outbox[o] EXCEPT !["settled"] = @ + 1]
        BY <1>2, <1>3, <2>5 DEF TypeOK
      <4> QED BY <2>3, <3>2, <4>1 DEF EventKinds
    <3>5. status'[o] = "completed"
      BY <1>2, <1>3, <2>5 DEF TypeOK
    <3> QED BY <2>1, <3>3, <3>4, <3>5 DEF BookingAgrees, Settled
  <2>6. CASE next = "refunded"
    <3>1. /\ outbox[o]["settled"] <= 1 /\ outbox[o]["refunded"] = 0
      BY <1>1, <1>4, <2>3 DEF BookingAgrees, EventKinds, Settled
    <3>2. posted'[o] = NoEntries
      BY <2>2, <2>4, <2>6 DEF WebhookEntries, NoEntries, ReversalEntries
    <3>3. outbox'[o]["settled"] = outbox[o]["settled"] /\ outbox'[o]["refunded"] = 1
      <4>1. outbox'[o] = [outbox[o] EXCEPT !["refunded"] = @ + 1]
        BY <1>2, <1>3, <2>6 DEF TypeOK
      <4> QED BY <2>3, <3>1, <4>1 DEF EventKinds
    <3>4. status'[o] = "refunded"
      BY <1>2, <1>3, <2>6 DEF TypeOK
    <3>5. ~(outbox'[o]["settled"] > outbox'[o]["refunded"])
      BY <2>3, <3>1, <3>3 DEF EventKinds
    <3> QED BY <2>1, <3>1, <3>2, <3>3, <3>4, <3>5 DEF BookingAgrees, Settled
  <2>7. CASE next \notin Settled
    <3>1. status[o] \notin Settled
      BY <1>4, <2>7 DEF Settled
    <3>2. posted[o] = NoEntries /\ outbox[o]["settled"] = 0 /\ outbox[o]["refunded"] = 0
      BY <1>1, <3>1 DEF BookingAgrees
    <3>3. posted'[o] = NoEntries
      BY <2>2, <2>4, <2>7, <3>2 DEF WebhookEntries, NoEntries, Settled
    <3>4. status'[o] = next /\ outbox'[o] = outbox[o]
      BY <1>2, <1>3, <2>7 DEF TypeOK
    <3> QED BY <2>1, <2>7, <3>2, <3>3, <3>4 DEF BookingAgrees, Settled
  <2> QED BY <2>5, <2>6, <2>7 DEF Settled
<1> QED BY <1>5, <1>6, <1>7

(* A completed refund leaves every order's booking as it was: it writes    *)
(* entries and events of its own row, and at most marks an order that had  *)
(* settled refunded.                                                       *)
LEMMA RefundSettleIInv ==
  ASSUME IInv, TypeOK', NEW h \in Handlers, RefundSettle(h)
  PROVE  IInv'
<1> USE DEF IInv
<1> DEFINE k == job[h].key
           o == RefundedOrder[k]
<1>1. k \in RefundKeys /\ o \in Orders
  BY JobFields, RefundsAssumption DEF RefundSettle, RefundRuns, TypeOK
<1>2. /\ k \notin Orders /\ k \notin Milestones
      /\ o \notin RefundKeys /\ o \notin Milestones
  BY <1>1, DistinctAssumption
<1>3. status[o] \in Settled
  BY DEF RefundsSettledOrder, RefundSettle, RefundRuns
<1>4. /\ status' = [t \in Txns |->
             IF t = k THEN "completed"
             ELSE IF t = o /\ job[h].full THEN "refunded" ELSE status[t]]
      /\ job' = [job EXCEPT ![h] = Idle]
      /\ \A q \in Orders : posted'[q] = posted[q] /\ outbox'[q] = outbox[q]
  BY <1>1, <1>2 DEF RefundSettle, PostEntries, Publish, TypeOK, Txns
<1>5. \A q \in Orders : status'[q] = status[q] \/ (q = o /\ status'[q] = "refunded")
  BY <1>2, <1>4 DEF TypeOK, Txns
<1>6. KeyStatus'
  BY <1>2, <1>4 DEF KeyStatus, Txns
<1>7. RefundsSettledOrder'
  <2> SUFFICES ASSUME NEW g \in Handlers, job'[g].kind = "refund"
               PROVE  status'[RefundedOrder[job'[g].key]] \in Settled
    BY DEF RefundsSettledOrder
  <2>1. job'[g] = job[g]
    BY <1>4 DEF TypeOK, Idle
  <2>2. RefundedOrder[job[g].key] \in Orders
    BY <2>1, JobFields, RefundsAssumption DEF TypeOK
  <2> QED BY <1>5, <2>1, <2>2 DEF RefundsSettledOrder, Settled
<1>8. BookingAgrees'
  <2> SUFFICES ASSUME NEW q \in Orders
               PROVE  LET settled  == outbox'[q]["settled"]
                          reversed == outbox'[q]["refunded"]
                      IN  /\ status'[q] \notin Settled => settled = 0 /\ reversed = 0
                          /\ status'[q] = "completed" => settled = 1 /\ reversed = 0
                          /\ status'[q] = "refunded" => settled <= 1 /\ reversed <= 1
                          /\ posted'[q] = IF settled > reversed
                                          THEN FundingEntries(q) ELSE NoEntries
    BY DEF BookingAgrees
  <2>1. CASE status'[q] = status[q]
    BY <1>4, <2>1 DEF BookingAgrees
  <2>2. CASE q = o /\ status'[q] = "refunded"
    <3>1. outbox[q]["settled"] <= 1 /\ outbox[q]["refunded"] <= 1
      BY <1>3, <2>2 DEF BookingAgrees, Settled
    <3> QED BY <1>4, <2>2, <3>1 DEF BookingAgrees, Settled
  <2> QED BY <1>5, <2>1, <2>2
<1> QED BY <1>6, <1>7, <1>8

(* Every other step leaves settled rows, bookings and events of orders     *)
(* alone.                                                                  *)
LEMMA NextIInv == IInv /\ TypeOK' /\ [Next]_vars => IInv'
<1> SUFFICES ASSUME IInv, TypeOK', [Next]_vars PROVE IInv'
  OBVIOUS
<1> USE DEF IInv
<1>1. ASSUME NEW o \in Orders, CreateSnapToken(o) PROVE IInv'
  <2>1. /\ status[o] = "absent" /\ status' = [status EXCEPT ![o] = "pending"]
        /\ posted' = posted /\ outbox' = outbox /\ job' = job
    BY <1>1 DEF CreateSnapToken
  <2>2. KeyStatus'
    BY <2>1, DistinctAssumption DEF KeyStatus, TypeOK, Txns
  <2>3. RefundsSettledOrder'
    BY <2>1, JobFields, RefundsAssumption DEF RefundsSettledOrder, Settled, TypeOK, Txns
  <2>4. BookingAgrees'
    BY <2>1 DEF BookingAgrees, Settled, TypeOK, Txns
  <2> QED BY <2>2, <2>3, <2>4
<1>2. ASSUME NEW o \in Orders, Gateway(o) PROVE IInv'
  <2>1. UNCHANGED <<books, job>>
    BY <1>2, GatewayMoves DEF GatewayStep
  <2> QED BY <2>1 DEF books, KeyStatus, RefundsSettledOrder, BookingAgrees
<1>3. ASSUME NEW h \in Handlers, NEW o \in Orders, NEW n \in Notices, WebhookRead(h, o, n)
      PROVE  IInv'
  BY <1>3 DEF WebhookRead, books, KeyStatus, RefundsSettledOrder, BookingAgrees, TypeOK
<1>4. ASSUME NEW h \in Handlers, WebhookCommit(h) PROVE IInv'
  BY <1>4, WebhookCommitIInv
<1>5. ASSUME NEW h \in Handlers, NEW m \in Milestones, ReleaseCreate(h, m) PROVE IInv'
  <2>1. /\ m \notin Orders /\ m \in Txns
        /\ status' = [status EXCEPT ![m] = IF @ = "absent" THEN "pending" ELSE @]
        /\ posted' = posted /\ outbox' = outbox
        /\ job' = [job EXCEPT ![h] = [kind |-> "release", milestone |-> m,
                                      recheck |-> status[m] # "absent"]]
    BY <1>5, DistinctAssumption DEF ReleaseCreate, Txns
  <2>2. \A o \in Orders : status'[o] = status[o]
    BY <2>1 DEF TypeOK, Txns
  <2>3. KeyStatus'
    BY <2>1 DEF KeyStatus, TypeOK, Txns
  <2>4. RefundsSettledOrder'
    <3> SUFFICES ASSUME NEW g \in Handlers, job'[g].kind = "refund"
                 PROVE  status'[RefundedOrder[job'[g].key]] \in Settled
      BY DEF RefundsSettledOrder
    <3>1. job'[g] = job[g]
      BY <2>1 DEF TypeOK
    <3>2. RefundedOrder[job[g].key] \in Orders
      BY <3>1, JobFields, RefundsAssumption DEF TypeOK
    <3> QED BY <2>2, <3>1, <3>2 DEF RefundsSettledOrder
  <2>5. BookingAgrees'
    BY <2>1, <2>2 DEF BookingAgrees
  <2> QED BY <2>3, <2>4, <2>5
<1>6. ASSUME NEW h \in Handlers, ReleaseSettle(h) PROVE IInv'
  <2> DEFINE m == job[h].milestone
  <2>1. m \in Milestones /\ m \notin Orders
    BY <1>6, JobFields, DistinctAssumption DEF ReleaseSettle, ReleaseRuns, TypeOK
  <2>2. /\ status' = [status EXCEPT ![m] = "completed"]
        /\ job' = [job EXCEPT ![h] = Idle]
        /\ \A q \in Orders : posted'[q] = posted[q] /\ outbox'[q] = outbox[q]
    BY <1>6, <2>1 DEF ReleaseSettle, PostEntries, Publish, TypeOK, Txns
  <2>3. \A o \in Orders : status'[o] = status[o]
    BY <2>1, <2>2 DEF TypeOK, Txns
  <2>4. KeyStatus'
    BY <2>1, <2>2 DEF KeyStatus, TypeOK, Txns
  <2>5. RefundsSettledOrder'
    <3> SUFFICES ASSUME NEW g \in Handlers, job'[g].kind = "refund"
                 PROVE  status'[RefundedOrder[job'[g].key]] \in Settled
      BY DEF RefundsSettledOrder
    <3>1. job'[g] = job[g]
      BY <2>2 DEF TypeOK, Idle
    <3>2. RefundedOrder[job[g].key] \in Orders
      BY <3>1, JobFields, RefundsAssumption DEF TypeOK
    <3> QED BY <2>3, <3>1, <3>2 DEF RefundsSettledOrder
  <2>6. BookingAgrees'
    BY <2>2, <2>3 DEF BookingAgrees
  <2> QED BY <2>4, <2>5, <2>6
<1>7. ASSUME NEW h \in Handlers, NEW k \in RefundKeys, NEW amount \in RefundAsks[k],
             RefundCreate(h, k, amount)
      PROVE  IInv'
  <2> DEFINE asked == [kind |-> "refund", key |-> k, amount |-> amount,
                       full |-> amount = Price[RefundedOrder[k]],
                       recheck |-> status[k] # "absent"]
  <2>1. /\ k \notin Orders /\ k \notin Milestones /\ k \in Txns
        /\ RefundedOrder[k] \in Orders /\ status[RefundedOrder[k]] = "completed"
        /\ status' = [status EXCEPT ![k] = IF @ = "absent" THEN "pending" ELSE @]
        /\ posted' = posted /\ outbox' = outbox
        /\ job' = [job EXCEPT ![h] = asked]
    BY <1>7, DistinctAssumption, RefundsAssumption DEF RefundCreate, Txns
  <2>2. \A o \in Orders : status'[o] = status[o]
    BY <2>1 DEF TypeOK, Txns
  <2>3. KeyStatus'
    BY <2>1 DEF KeyStatus, TypeOK, Txns
  <2>4. RefundsSettledOrder'
    <3> SUFFICES ASSUME NEW g \in Handlers, job'[g].kind = "refund"
                 PROVE  status'[RefundedOrder[job'[g].key]] \in Settled
      BY DEF RefundsSettledOrder
    <3>1. CASE g = h
      <4>1. job'[g].key = k
        BY <2>1, <3>1 DEF TypeOK
      <4> QED BY <2>1, <2>2, <4>1 DEF Settled
    <3>2. CASE g # h
      <4>1. job'[g] = job[g]
        BY <2>1, <3>2 DEF TypeOK
      <4>2. RefundedOrder[job[g].key] \in Orders
        BY <4>1, JobFields, RefundsAssumption DEF TypeOK
      <4> QED BY <2>2, <4>1, <4>2 DEF RefundsSettledOrder
    <3> QED BY <3>1, <3>2
  <2>5. BookingAgrees'
    BY <2>1, <2>2 DEF BookingAgrees
  <2> QED BY <2>3, <2>4, <2>5
<1>8. ASSUME NEW h \in Handlers, RefundSettle(h) PROVE IInv'
  BY <1>8, RefundSettleIInv
<1>9. ASSUME NEW h \in Handlers, Retry(h) PROVE IInv'
  <2>1. \A g \in Handlers : job'[g].kind = job[g].kind
        /\ (job[g].kind = "refund" => job'[g].key = job[g].key)
    BY <1>9, JobFields DEF Retry, TypeOK
  <2> QED BY <1>9, <2>1 DEF Retry, books, KeyStatus, RefundsSettledOrder, BookingAgrees
<1>10. ASSUME NEW h \in Handlers, Abandon(h) PROVE IInv'
  BY <1>10 DEF Abandon, books, KeyStatus, RefundsSettledOrder, BookingAgrees, TypeOK, Idle
<1>11. CASE UNCHANGED vars
  BY <1>11 DEF vars, KeyStatus, RefundsSettledOrder, BookingAgrees
<1> QED BY <1>1, <1>2, <1>3, <1>4, <1>5, <1>6, <1>7, <1>8, <1>9, <1>10, <1>11 DEF Next

(* The inductive invariant: rows of keys are never refunded, a refund in   *)
(* progress is of an order that settled, and an order's entries and events *)
(* are those its row's status calls for.                                   *)
THEOREM InvHolds == Spec => []IInv
BY InitIInv, NextIInv, TypeCorrect, PTL DEF Spec

(* Overlapping, repeated and reordered notifications book an order once.   *)
THEOREM BookedOnce == Spec => []OrderBookedOnce
<1>1. IInv => OrderBookedOnce
  BY DEF IInv, BookingAgrees, OrderBookedOnce, TypeOK, Txns, EventKinds, Settled
<1> QED BY <1>1, InvHolds, PTL

(* A settled row is final: the guards that read it again before writing.   *)
LEMMA FinalStep ==
  ASSUME IInv, [Next]_vars, NEW t \in Txns
  PROVE  /\ status[t] = "refunded"  => status'[t] = "refunded"
         /\ status[t] = "completed" => status'[t] \in Settled
<1> USE DEF IInv
<1>1. ASSUME NEW o \in Orders, CreateSnapToken(o) \/ Gateway(o)
      PROVE  status[t] \in Settled => status'[t] = status[t]
  BY <1>1, GatewayMoves DEF CreateSnapToken, GatewayStep, books, TypeOK, Settled
<1>2. ASSUME NEW h \in Handlers, WebhookCommit(h)
      PROVE  /\ status[t] = "refunded"  => status'[t] = "refunded"
             /\ status[t] = "completed" => status'[t] \in Settled
  <2>1. /\ status' = [status EXCEPT ![job[h].order] = job[h].next]
        /\ Supersedes(status[job[h].order], job[h].next)
    BY <1>2 DEF WebhookCommit, WebhookApplies
  <2> QED BY <2>1, SupersedesFinal DEF TypeOK, Settled
<1>3. ASSUME NEW h \in Handlers, NEW m \in Milestones, ReleaseCreate(h, m)
      PROVE  status[t] \in Settled => status'[t] = status[t]
  BY <1>3 DEF ReleaseCreate, TypeOK, Settled
<1>4. ASSUME NEW h \in Handlers, ReleaseSettle(h)
      PROVE  /\ status[t] = "refunded"  => status'[t] = "refunded"
             /\ status[t] = "completed" => status'[t] \in Settled
  <2> DEFINE m == job[h].milestone
  <2>1. m \in Milestones /\ status[m] # "refunded"
    BY <1>4, JobFields DEF ReleaseSettle, ReleaseRuns, TypeOK, KeyStatus
  <2>2. status' = [status EXCEPT ![m] = "completed"]
    BY <1>4 DEF ReleaseSettle
  <2> QED BY <2>1, <2>2 DEF TypeOK, Settled
<1>5. ASSUME NEW h \in Handlers, NEW k \in RefundKeys, NEW amount \in RefundAsks[k],
             RefundCreate(h, k, amount)
      PROVE  status[t] \in Settled => status'[t] = status[t]
  BY <1>5 DEF RefundCreate, TypeOK, Settled
<1>6. ASSUME NEW h \in Handlers, RefundSettle(h)
      PROVE  /\ status[t] = "refunded"  => status'[t] = "refunded"
             /\ status[t] = "completed" => status'[t] \in Settled
  <2> DEFINE k == job[h].key
  <2>1. k \in RefundKeys /\ status[k] # "refunded"
    BY <1>6, JobFields DEF RefundSettle, RefundRuns, TypeOK, KeyStatus
  <2>2. status' = [u \in Txns |->
          IF u = k THEN "completed"
          ELSE IF u = RefundedOrder[k] /\ job[h].full THEN "refunded" ELSE status[u]]
    BY <1>6 DEF RefundSettle
  <2> QED BY <2>1, <2>2 DEF Settled
<1>7. ASSUME UNCHANGED status
      PROVE  status[t] \in Settled => status'[t] = status[t]
  BY <1>7
<1>8. ASSUME NEW h \in Handlers, NEW o \in Orders, NEW n \in Notices, WebhookRead(h, o, n)
      PROVE  UNCHANGED status
  BY <1>8 DEF WebhookRead, books
<1>9. ASSUME NEW h \in Handlers, Retry(h) \/ Abandon(h)
      PROVE  UNCHANGED status
  BY <1>9 DEF Retry, Abandon, books
<1>10. ASSUME UNCHANGED vars PROVE UNCHANGED status
  BY <1>10 DEF vars
<1>11. CASE Next
  BY <1>11, <1>1, <1>2, <1>3, <1>4, <1>5, <1>6, <1>7, <1>8, <1>9 DEF Next, Settled
<1> QED BY <1>7, <1>10, <1>11 DEF Settled

(* Whatever a handler read before a row was settled, no step of any        *)
(* handler moves the row out of its settled status, but for completed to   *)
(* refunded.                                                               *)
THEOREM SettledStaysSettled == Spec => SettledIsFinal
<1>1. IInv /\ [Next]_vars =>
        [\A t \in Txns :
           /\ status[t] = "refunded"  => status'[t] = "refunded"
           /\ status[t] = "completed" => status'[t] \in Settled]_vars
  BY FinalStep
<1> QED BY <1>1, InvHolds, PTL DEF Spec, SettledIsFinal

-----------------------------------------------------------------------------
(* Only a gateway reversal can overdraw a pool.                            *)
LEMMA FundingFillsPools ==
  ASSUME NEW o \in Orders, NEW p \in Pools
  PROVE  FundingEntries(o)[p] \in Nat
BY OrdersAssumption, DistinctAssumption DEF FundingEntries, Accounts

(* What a step adds to a pool, by the kind of step.                        *)
LEMMA PoolsStep ==
  ASSUME TypeOK, TypeOK', [Next]_vars, PoolsCovered
  PROVE  PoolsCovered'
<1> SUFFICES ASSUME \A o \in Orders : outbox'[o]["refunded"] = 0, NEW p \in Pools
             PROVE  balance'[p] >= 0
  BY DEF PoolsCovered
<1> DEFINE Covered == (\A o \in Orders : outbox[o]["refunded"] = 0) => balance[p] >= 0
<1>1. Covered /\ p \in Accounts
  BY DEF PoolsCovered, Accounts
<1>2. ASSUME UNCHANGED <<outbox, balance>> PROVE balance'[p] >= 0
  BY <1>1, <1>2
<1>3. ASSUME NEW h \in Handlers, WebhookCommit(h) PROVE balance'[p] >= 0
  <2> DEFINE o == job[h].order
             next == job[h].next
  <2>1. o \in Orders /\ o \in Txns
    BY <1>3, JobFields DEF WebhookCommit, WebhookApplies, TypeOK, Txns
  <2>2. balance'[p] = balance[p] + WebhookEntries(o, next)[p]
    BY <1>1, <1>3 DEF WebhookCommit, PostEntries
  <2>3. CASE next = "completed"
    <3>1. \A q \in Orders : outbox[q]["refunded"] = outbox'[q]["refunded"]
      <4>1. outbox' = [outbox EXCEPT ![o]["settled"] = @ + 1]
        BY <1>3, <2>3 DEF WebhookCommit, Publish
      <4> QED BY <2>1, <4>1 DEF TypeOK, Txns, EventKinds
    <3>2. WebhookEntries(o, next)[p] \in Nat
      BY <2>1, <2>3, FundingFillsPools DEF WebhookEntries
    <3> QED BY <1>1, <2>2, <3>1, <3>2 DEF TypeOK
  <2>4. CASE next = "refunded"
    <3>1. outbox'[o]["refunded"] = outbox[o]["refunded"] + 1
      BY <1>3, <2>1, <2>4 DEF WebhookCommit, Publish, TypeOK, EventKinds
    <3>2. outbox[o]["refunded"] \in Nat
      BY <2>1 DEF TypeOK, EventKinds
    <3> QED BY <2>1, <3>1, <3>2
  <2>5. CASE next \notin Settled
    <3>1. outbox' = outbox /\ WebhookEntries(o, next) = NoEntries
      BY <1>3, <2>5 DEF WebhookCommit, WebhookEntries, Settled
    <3> QED BY <1>1, <2>2, <3>1 DEF NoEntries, TypeOK
  <2> QED BY <2>3, <2>4, <2>5 DEF Settled
<1>4. ASSUME NEW h \in Handlers, ReleaseSettle(h) PROVE balance'[p] >= 0
  <2> DEFINE m == job[h].milestone
  <2>1. m \in Milestones /\ m \notin Orders /\ m \in Txns
    BY <1>4, JobFields, DistinctAssumption DEF ReleaseSettle, ReleaseRuns, TypeOK, Txns
  <2>2. balance[p] >= 0
    BY <1>1, <1>4, <2>1 DEF ReleaseSettle, Publish, TypeOK, Txns
  <2>3. balance'[p] = balance[p] + ReleaseEntries(m)[p] /\ balance[PoolOf[m]] >= MilestoneAmount[m]
    BY <1>1, <1>4 DEF ReleaseSettle, PostEntries, ReleaseFunded
  <2>4. ReleaseEntries(m)[p] = IF p = PoolOf[m] THEN -MilestoneAmount[m] ELSE 0
    BY <1>1, <2>1, MilestonesAssumption, DistinctAssumption DEF ReleaseEntries
  <2> QED BY <1>1, <2>1, <2>2, <2>3, <2>4, MilestonesAssumption DEF TypeOK
<1>5. ASSUME NEW h \in Handlers, RefundSettle(h) PROVE balance'[p] >= 0
  <2> DEFINE k == job[h].key
             amount == job[h].amount
  <2>1. k \in RefundKeys /\ amount \in Nat /\ k \notin Orders /\ k \in Txns
    BY <1>5, JobFields, DistinctAssumption DEF RefundSettle, RefundRuns, TypeOK, Txns
  <2>2. balance[p] >= 0
    BY <1>1, <1>5, <2>1 DEF RefundSettle, Publish, TypeOK, Txns
  <2>3. PICK draw \in [Pools -> 0..amount] :
          /\ IsDraw(draw, Pools, amount, balance, PoolId, RefundScope[k])
          /\ PostEntries(k, RefundEntries(amount, draw))
    BY <1>5 DEF RefundSettle
  <2>4. draw[p] <= balance[p]
    BY <2>2, <2>3, <1>1 DEF IsDraw, NonNeg, TypeOK
  <2>5. balance'[p] = balance[p] - draw[p]
    BY <1>1, <2>1, <2>3, DistinctAssumption DEF PostEntries, RefundEntries, TypeOK
  <2> QED BY <1>1, <2>1, <2>4, <2>5 DEF TypeOK
<1>6. ASSUME NEW o \in Orders, CreateSnapToken(o) \/ Gateway(o) PROVE balance'[p] >= 0
  BY <1>2, <1>6, GatewayMoves DEF CreateSnapToken, GatewayStep, books
<1>7. ASSUME NEW h \in Handlers,
             \/ \E o \in Orders, n \in Notices : WebhookRead(h, o, n)
             \/ \E m \in Milestones : ReleaseCreate(h, m)
             \/ \E k \in RefundKeys : \E amount \in RefundAsks[k] : RefundCreate(h, k, amount)
             \/ Retry(h)
             \/ Abandon(h)
      PROVE  balance'[p] >= 0
  BY <1>2, <1>7 DEF WebhookRead, ReleaseCreate, RefundCreate, Retry, Abandon, books
<1>8. CASE UNCHANGED vars
  BY <1>2, <1>8 DEF vars
<1> QED BY <1>3, <1>4, <1>5, <1>6, <1>7, <1>8 DEF Next

(* As long as the gateway has reversed nothing, every pool holds at least  *)
(* zero: releases check the pool they draw on and refunds draw at most what*)
(* each pool has.                                                          *)
THEOREM PoolsNeverOverdrawn == Spec => []PoolsCovered
<1>1. Init => PoolsCovered
  BY DEF Init, PoolsCovered, NoEntries, Accounts
<1>2. TypeOK /\ TypeOK' /\ PoolsCovered /\ [Next]_vars => PoolsCovered'
  BY PoolsStep
<1> QED BY <1>1, <1>2, TypeCorrect, PTL DEF Spec

-----------------------------------------------------------------------------
(* Settlement only on cleared money.                                       *)
Money == {"captured", "returned"}

(* The notifications that say the money is there.                          *)
Clears(n) ==
  \/ n.ts = "capture" /\ n.fraud = "accept"
  \/ n.ts = "settlement" /\ n.fraud \in {"accept", "none"}

ClearedInv ==
  /\ \A o \in Orders : \A n \in sent[o] : Clears(n) => charge[o] \in Money
  /\ \A h \in Handlers :
       job[h].kind = "webhook" /\ job[h].next = "completed" => charge[job[h].order] \in Money
  /\ \A o \in Orders : status[o] = "absent" => charge[o] = "none" /\ sent[o] = {}
  /\ \A h \in Handlers : job[h].kind = "webhook" => status[job[h].order] # "absent"
  /\ SettledOnlyIfCaptured

(* Only a clearing notification asks for completed and is let through.     *)
LEMMA CompletesOnlyIfClears ==
  ASSUME NEW n \in Notice, NEW current, Supersedes(current, MapMidtransStatus(n, current)),
         MapMidtransStatus(n, current) = "completed"
  PROVE  Clears(n)
<1>1. current # "completed"
  BY DEF Supersedes
<1>2. n.ts \in {"capture", "settlement"}
  BY <1>1 DEF MapMidtransStatus
<1>3. n.fraud \in {"accept", "challenge", "deny", "none"}
  BY DEF Notice
<1>4. CASE n.ts = "capture"
  <2>1. MapMidtransStatus(n, current) =
          CASE n.fraud = "accept" -> "completed"
            [] n.fraud = "deny"   -> "failed"
            [] OTHER              -> "processing"
    BY <1>4 DEF MapMidtransStatus
  <2>2. n.fraud = "accept"
    BY <2>1
  <2> QED BY <1>4, <2>2 DEF Clears
<1>5. CASE n.ts = "settlement"
  <2>1. MapMidtransStatus(n, current) =
          CASE n.fraud = "challenge" -> "processing"
            [] n.fraud = "deny"      -> "failed"
            [] OTHER                 -> "completed"
    BY <1>5 DEF MapMidtransStatus
  <2>2. n.fraud \notin {"challenge", "deny"}
    BY <2>1
  <2> QED BY <1>3, <1>5, <2>2 DEF Clears
<1> QED BY <1>2, <1>4, <1>5

(* Once the money is there it is never again merely open, held or closed,  *)
(* and a clearing notification is sent only as it arrives.                 *)
LEMMA GatewayKeepsMoney ==
  ASSUME TypeOK, NEW o \in Orders, Gateway(o)
  PROVE  /\ charge[o] \in Money => charge'[o] \in Money
         /\ \A q \in Orders : q # o => charge'[q] = charge[q] /\ sent'[q] = sent[q]
         /\ \A n \in sent'[o] : Clears(n) => n \in sent[o] \/ charge'[o] \in Money
         /\ charge[o] # "none"
<1>1. ASSUME NEW from, NEW to, NEW n, GatewayStep(o, from, to, n), "none" \notin from,
             from \cap Money = {} \/ to \in Money, Clears(n) => to \in Money
      PROVE  /\ charge[o] \in Money => charge'[o] \in Money
             /\ \A q \in Orders : q # o => charge'[q] = charge[q] /\ sent'[q] = sent[q]
             /\ \A m \in sent'[o] : Clears(m) => m \in sent[o] \/ charge'[o] \in Money
             /\ charge[o] # "none"
  BY <1>1 DEF GatewayStep, TypeOK
<1>2. ASSUME NEW s \in {"pending", "authorize"},
             GatewayStep(o, {"open"}, "open", [ts |-> s, fraud |-> "none"])
      PROVE  ~Clears([ts |-> s, fraud |-> "none"])
  BY DEF Clears
<1>3. ASSUME NEW s \in {"capture", "settlement", "deny"}
      PROVE  /\ ~Clears([ts |-> s, fraud |-> "challenge"])
             /\ ~Clears([ts |-> s, fraud |-> "deny"])
  BY DEF Clears
<1>4. /\ {"open"} \cap Money = {} /\ {"open", "review"} \cap Money = {}
      /\ "captured" \in Money /\ "returned" \in Money
      /\ "none" \notin {"open"} /\ "none" \notin {"captured"}
      /\ "none" \notin {"open", "review"} /\ "none" \notin {"open", "review", "closed"}
      /\ "none" \notin {"open", "review", "closed", "captured"}
  BY DEF Money
<1> QED BY <1>1, <1>2, <1>3, <1>4, Zenon DEF Gateway

(* Every step keeps what is in flight clear: a job about to complete an    *)
(* order stands on a clearing notification, and so on captured money.      *)
LEMMA NextCleared ==
  ASSUME IInv, IInv', ClearedInv, [Next]_vars
  PROVE  ClearedInv'
<1>t. TypeOK /\ TypeOK' /\ BookingAgrees /\ BookingAgrees'
  BY DEF IInv
<1>1. ASSUME UNCHANGED <<charge, sent>>,
             \A o \in Orders : /\ outbox'[o] = outbox[o]
                               /\ status[o] # "absent" => status'[o] # "absent"
                               /\ status[o] = "absent" => status'[o] = "absent",
             \A h \in Handlers : job'[h] = job[h] \/ job'[h].kind # "webhook"
      PROVE  ClearedInv'
  <2>1. \A h \in Handlers : job'[h].kind = "webhook" =>
          job'[h] = job[h] /\ job[h].order \in Orders
    BY <1>1, <1>t, JobFields DEF TypeOK
  <2> QED BY <1>1, <2>1 DEF ClearedInv, SettledOnlyIfCaptured
<1>2. ASSUME NEW o \in Orders, CreateSnapToken(o) PROVE ClearedInv'
  <2>1. /\ status[o] = "absent" /\ status' = [status EXCEPT ![o] = "pending"]
        /\ UNCHANGED <<outbox, job, sent>>
        /\ \E c \in {"open", "none"} : charge' = [charge EXCEPT ![o] = c]
    BY <1>2 DEF CreateSnapToken
  <2>2. sent[o] = {} /\ outbox[o]["settled"] = 0
    BY <1>t, <2>1 DEF ClearedInv, BookingAgrees, Settled
  <2>3. \A h \in Handlers : job[h].kind = "webhook" => job[h].order \in Orders \ {o}
    BY <1>t, <2>1, JobFields DEF ClearedInv, TypeOK
  <2>4. \A q \in Orders : q # o => charge'[q] = charge[q] /\ status'[q] = status[q]
    BY <1>t, <2>1 DEF TypeOK, Txns
  <2>5. status'[o] = "pending"
    BY <1>t, <2>1 DEF TypeOK, Txns
  <2> QED BY <2>1, <2>2, <2>3, <2>4, <2>5 DEF ClearedInv, SettledOnlyIfCaptured
<1>3. ASSUME NEW o \in Orders, Gateway(o) PROVE ClearedInv'
  <2>1. UNCHANGED <<books, job>>
    BY <1>3, GatewayMoves DEF GatewayStep
  <2>2. /\ charge[o] \in Money => charge'[o] \in Money
        /\ \A q \in Orders : q # o => charge'[q] = charge[q] /\ sent'[q] = sent[q]
        /\ \A n \in sent'[o] : Clears(n) => n \in sent[o] \/ charge'[o] \in Money
        /\ charge[o] # "none"
    BY <1>3, <1>t, GatewayKeepsMoney
  <2>3. \A h \in Handlers : job[h].kind = "webhook" => job[h].order \in Orders
    BY <1>t, JobFields DEF TypeOK
  <2>4. /\ \A q \in Orders : charge[q] \in Money => charge'[q] \in Money
        /\ status[o] # "absent"
    BY <2>2 DEF ClearedInv
  <2>5. \A q \in Orders : \A n \in sent'[q] : Clears(n) => charge'[q] \in Money
    BY <2>2, <2>4 DEF ClearedInv
  <2>6. SettledOnlyIfCaptured'
    BY <2>1, <2>4 DEF ClearedInv, SettledOnlyIfCaptured, books, Money
  <2> QED BY <2>1, <2>2, <2>3, <2>4, <2>5, <2>6 DEF ClearedInv, books
<1>4. ASSUME NEW h \in Handlers, NEW o \in Orders, NEW n \in Notices, WebhookRead(h, o, n)
      PROVE  ClearedInv'
  <2> DEFINE next == MapMidtransStatus(n, status[o])
  <2>1. /\ n \in Notice /\ n \in sent[o] /\ status[o] # "absent" /\ Supersedes(status[o], next)
        /\ job' = [job EXCEPT ![h] = [kind |-> "webhook", order |-> o, next |-> next,
                                      partial |-> n.ts = "partial_refund"]]
        /\ UNCHANGED <<status, outbox, charge, sent>>
    BY <1>4, OrdersAssumption DEF WebhookRead, books, gateway
  <2>2. next = "completed" => charge[o] \in Money
    BY <2>1, CompletesOnlyIfClears DEF ClearedInv
  <2> QED BY <1>t, <2>1, <2>2 DEF ClearedInv, SettledOnlyIfCaptured, TypeOK
<1>5. ASSUME NEW h \in Handlers, WebhookCommit(h) PROVE ClearedInv'
  <2> DEFINE o == job[h].order
             next == job[h].next
  <2>1. o \in Orders /\ o \in Txns /\ next \in RowStatus /\ job[h].kind = "webhook"
    BY <1>5, <1>t, JobFields DEF WebhookCommit, WebhookApplies, TypeOK, Txns
  <2>2. /\ UNCHANGED <<charge, sent>> /\ job' = [job EXCEPT ![h] = Idle]
        /\ status' = [status EXCEPT ![o] = next]
        /\ next = "completed" => outbox' = [outbox EXCEPT ![o]["settled"] = @ + 1]
        /\ next = "refunded"  => outbox' = [outbox EXCEPT ![o]["refunded"] = @ + 1]
        /\ next \notin Settled => outbox' = outbox
    BY <1>5 DEF WebhookCommit, Publish, gateway, Settled
  <2>3. \A q \in Orders : q # o => outbox'[q] = outbox[q]
    BY <1>t, <2>1, <2>2 DEF TypeOK, Txns, Settled
  <2>4. next # "completed" => outbox'[o]["settled"] = outbox[o]["settled"]
    <3>1. CASE next = "refunded"
      <4>1. outbox' = [outbox EXCEPT ![o]["refunded"] = @ + 1]
        BY <2>2, <3>1
      <4> QED BY <1>t, <2>1, <4>1 DEF TypeOK, EventKinds
    <3>2. CASE next \notin Settled
      BY <2>2, <3>2
    <3> QED BY <3>1, <3>2 DEF Settled
  <2>5. next = "completed" => charge[o] \in Money
    BY <2>1 DEF ClearedInv
  <2>6. SettledOnlyIfCaptured'
    BY <2>2, <2>3, <2>4, <2>5 DEF ClearedInv, SettledOnlyIfCaptured, Money
  <2>7. \A q \in Orders : status[q] # "absent" => status'[q] # "absent"
    BY <1>t, <2>1, <2>2 DEF TypeOK, Txns, RowStatus
  <2>8. \A q \in Orders : status'[q] = "absent" => status[q] = "absent"
    BY <2>7
  <2>9. \A g \in Handlers : job'[g].kind = "webhook" => job'[g] = job[g] /\ job[g].order \in Orders
    BY <1>t, <2>2, JobFields DEF TypeOK, Idle
  <2> QED BY <2>2, <2>6, <2>7, <2>8, <2>9 DEF ClearedInv
<1>6. ASSUME NEW h \in Handlers, NEW m \in Milestones, ReleaseCreate(h, m) PROVE ClearedInv'
  BY <1>1, <1>6, <1>t, DistinctAssumption DEF ReleaseCreate, gateway, TypeOK, Txns
<1>7. ASSUME NEW h \in Handlers, ReleaseSettle(h) PROVE ClearedInv'
  <2> DEFINE m == job[h].milestone
  <2>1. m \in Milestones /\ m \notin Orders
    BY <1>7, <1>t, JobFields, DistinctAssumption DEF ReleaseSettle, ReleaseRuns, TypeOK
  <2> QED BY <1>1, <1>7, <1>t, <2>1 DEF ReleaseSettle, Publish, gateway, TypeOK, Txns, Idle
<1>8. ASSUME NEW h \in Handlers, NEW k \in RefundKeys, NEW amount \in RefundAsks[k],
             RefundCreate(h, k, amount)
      PROVE  ClearedInv'
  BY <1>1, <1>8, <1>t, DistinctAssumption DEF RefundCreate, gateway, TypeOK, Txns
<1>9. ASSUME NEW h \in Handlers, RefundSettle(h) PROVE ClearedInv'
  <2> DEFINE k == job[h].key
             o == RefundedOrder[k]
  <2>1. k \in RefundKeys /\ k \notin Orders /\ o \in Orders /\ status[o] \in Settled
    BY <1>9, <1>t, JobFields, DistinctAssumption, RefundsAssumption
    DEF RefundSettle, RefundRuns, TypeOK, IInv, RefundsSettledOrder
  <2>2. \A q \in Orders : outbox'[q] = outbox[q]
    BY <1>9, <1>t, <2>1 DEF RefundSettle, Publish, TypeOK, Txns
  <2>3. \A q \in Orders : status'[q] = status[q] \/ (q = o /\ status'[q] = "refunded")
    BY <1>9, <1>t, <2>1 DEF RefundSettle, Txns
  <2>4. \A g \in Handlers : job'[g] = job[g] \/ job'[g].kind # "webhook"
    BY <1>9, <1>t DEF RefundSettle, TypeOK, Idle
  <2> QED BY <1>1, <1>9, <2>1, <2>2, <2>3, <2>4 DEF RefundSettle, gateway, Settled
<1>10. ASSUME NEW h \in Handlers, Retry(h) PROVE ClearedInv'
  <2>1. \A g \in Handlers : job'[g] = job[g] \/ job'[g].kind # "webhook"
    BY <1>10, <1>t, JobFields DEF Retry, TypeOK
  <2> QED BY <1>1, <1>10, <2>1 DEF Retry, books, gateway
<1>11. ASSUME NEW h \in Handlers, Abandon(h) PROVE ClearedInv'
  BY <1>1, <1>11, <1>t DEF Abandon, books, gateway, TypeOK, Idle
<1>12. CASE UNCHANGED vars
  BY <1>1, <1>12 DEF vars
<1> QED BY <1>2, <1>3, <1>4, <1>5, <1>6, <1>7, <1>8, <1>9, <1>10, <1>11, <1>12 DEF Next

(* No webhook settles an order whose charge is under review, denied or     *)
(* never captured, however deliveries are repeated, delayed and reordered. *)
THEOREM SettlesOnlyCaptured == Spec => []SettledOnlyIfCaptured
<1>1. Init => ClearedInv
  BY DEF Init, ClearedInv, SettledOnlyIfCaptured, Idle, Txns, EventKinds, NoEvents
<1>2. IInv /\ IInv' /\ ClearedInv /\ [Next]_vars => ClearedInv'
  BY NextCleared
<1>3. ClearedInv => SettledOnlyIfCaptured
  BY DEF ClearedInv
<1> QED BY <1>1, <1>2, <1>3, InvHolds, PTL DEF Spec

-----------------------------------------------------------------------------
(* Keys.  Any number of requests may present one at a time, and a key they *)
(* share may move its money twice.  What keeps it from a third time is     *)
(* that only the request that inserts the row settles without a second     *)
(* look at it.                                                             *)

(* A key counts its moves.                                                 *)
LEMMA MovesType == TypeOK => \A k \in Keys : Moves(k) \in Nat
BY DEF TypeOK, Moves, Keys, Txns, EventKinds

(* A step that touches no key: rows, entries, events and histories stay,   *)
(* and no request comes to hold a key or forgets to look at its row again. *)
Untouched ==
  /\ UNCHANGED <<refundRow, payouts, shared, resized>>
  /\ \A k \in Keys : status'[k] = status[k] /\ outbox'[k] = outbox[k] /\ posted'[k] = posted[k]
  /\ \A g \in Handlers :
       /\ job'[g].kind = "release" =>
            /\ job[g].kind = "release" /\ job'[g].milestone = job[g].milestone
            /\ ~job'[g].recheck => ~job[g].recheck
       /\ job'[g].kind = "refund" =>
            /\ job[g].kind = "refund" /\ job'[g].key = job[g].key
            /\ job'[g].amount = job[g].amount
            /\ ~job'[g].recheck => ~job[g].recheck

(* Only creating and settling a release or a refund touch a key.           *)
LEMMA KeySteps ==
  ASSUME TypeOK, [Next]_vars
  PROVE  \/ Untouched
         \/ \E h \in Handlers, m \in Milestones : ReleaseCreate(h, m)
         \/ \E h \in Handlers : ReleaseSettle(h)
         \/ \E h \in Handlers, k \in RefundKeys : \E amount \in RefundAsks[k] : RefundCreate(h, k, amount)
         \/ \E h \in Handlers : RefundSettle(h)
<1>d. \A o \in Orders : o \in Txns /\ o \notin Keys
  BY DistinctAssumption DEF Txns, Keys
<1>j. \A g \in Handlers : job[g] \in Job
  BY DEF TypeOK
<1>1. ASSUME NEW o \in Orders, CreateSnapToken(o) PROVE Untouched
  BY <1>1, <1>d DEF CreateSnapToken, TypeOK, Untouched, history
<1>2. ASSUME NEW o \in Orders, Gateway(o) PROVE Untouched
  <2>1. UNCHANGED <<books, job, history>>
    BY <1>2, GatewayMoves DEF GatewayStep
  <2> QED BY <2>1 DEF Untouched, books, history
<1>3. ASSUME NEW h \in Handlers, NEW o \in Orders, NEW n \in Notices, WebhookRead(h, o, n)
      PROVE  Untouched
  BY <1>3 DEF WebhookRead, TypeOK, Untouched, books, history
<1>4. ASSUME NEW h \in Handlers, WebhookCommit(h) PROVE Untouched
  <2> DEFINE o == job[h].order
  <2>1. o \in Orders
    BY <1>4, <1>j, JobFields DEF WebhookCommit, WebhookApplies
  <2>2. \A k \in Keys : status'[k] = status[k] /\ posted'[k] = posted[k] /\ outbox'[k] = outbox[k]
    <3>1. \A k \in Keys : status'[k] = status[k] /\ posted'[k] = posted[k]
      BY <1>4, <1>d, <2>1 DEF WebhookCommit, PostEntries, TypeOK, Txns, Keys
    <3>2. \A k \in Keys : outbox'[k] = outbox[k]
      BY <1>4, <1>d, <2>1 DEF WebhookCommit, Publish, TypeOK, Txns, Keys
    <3> QED BY <3>1, <3>2
  <2>3. \A g \in Handlers : job'[g] = job[g] \/ job'[g] = Idle
    BY <1>4 DEF WebhookCommit, TypeOK
  <2> QED BY <1>4, <2>2, <2>3 DEF WebhookCommit, Untouched, history, Idle
<1>5. ASSUME NEW h \in Handlers, Retry(h) PROVE Untouched
  <2>1. \A g \in Handlers \ {h} : job'[g] = job[g]
    BY <1>5 DEF Retry, TypeOK
  <2>2. job'[h] = [job[h] EXCEPT !.recheck = TRUE] /\ job[h].kind \in {"release", "refund"}
    BY <1>5 DEF Retry, TypeOK
  <2>3. /\ job'[h].kind = job[h].kind
        /\ job[h].kind = "release" => job'[h].milestone = job[h].milestone /\ job'[h].recheck
        /\ job[h].kind = "refund" =>
             job'[h].key = job[h].key /\ job'[h].amount = job[h].amount /\ job'[h].recheck
    BY <1>j, <2>2 DEF Job, Idle
  <2> QED BY <1>5, <2>1, <2>3 DEF Retry, Untouched, books, history
<1>6. ASSUME NEW h \in Handlers, Abandon(h) PROVE Untouched
  BY <1>6 DEF Abandon, TypeOK, Untouched, books, history, Idle
<1>7. CASE UNCHANGED vars
  BY <1>7 DEF vars, Untouched
<1> QED BY <1>1, <1>2, <1>3, <1>4, <1>5, <1>6, <1>7 DEF Next

(* Who holds a key: its row exists; a key not shared has one holder; only  *)
(* one holder, the one that inserted the row, may settle without looking   *)
(* at it again, it has not done so yet, and if the key is its own the row  *)
(* is still pending.                                                       *)
KeyTurns ==
  \A h \in Handlers, k \in Keys : Holds(h, k) =>
    /\ status[k] # "absent"
    /\ k \notin shared => \A g \in Handlers : Holds(g, k) => g = h
    /\ ~job[h].recheck =>
         /\ \A g \in Handlers : Holds(g, k) /\ ~job[g].recheck => g = h
         /\ Moves(k) <= 1
         /\ k \notin shared => status[k] = "pending"

KInv == IInv /\ KeyTurns /\ MovesOncePerHolder

(* A step that touches no key leaves its holders and its moves as found.   *)
LEMMA KeysKept ==
  ASSUME KeyTurns, MovesOncePerHolder, Untouched
  PROVE  KeyTurns' /\ MovesOncePerHolder'
<1>1. \A k \in Keys : status'[k] = status[k] /\ Moves(k)' = Moves(k)
  BY DEF Untouched, Moves
<1>2. \A g \in Handlers, k \in Keys :
        Holds(g, k)' => Holds(g, k) /\ (~job'[g].recheck => ~job[g].recheck)
  BY DEF Untouched, Holds
<1>3. shared' = shared
  BY DEF Untouched
<1>4. KeyTurns'
  BY <1>1, <1>2, <1>3 DEF KeyTurns
<1>5. MovesOncePerHolder'
  BY <1>1, <1>3 DEF MovesOncePerHolder
<1> QED BY <1>4, <1>5

(* A request that presents a key inserts its row, or finds it pending and  *)
(* will look at it again; if the key was held it is shared from now on.    *)
LEMMA KeyPresented ==
  ASSUME TypeOK, KeyTurns, MovesOncePerHolder, NEW h \in Handlers, NEW k \in Keys,
         status[k] \in {"absent", "pending"},
         status'[k] = "pending",
         \A q \in Keys \ {k} : status'[q] = status[q],
         \A q \in Keys : Moves(q)' = Moves(q),
         \A g \in Handlers \ {h} : job'[g] = job[g],
         \A q \in Keys : Holds(h, q)' => q = k,
         job'[h].recheck = (status[k] # "absent"),
         NoteShared(k)
  PROVE  KeyTurns' /\ MovesOncePerHolder'
<1>1. \A g \in Handlers \ {h}, q \in Keys : Holds(g, q)' <=> Holds(g, q)
  BY DEF Holds
<1>2. status[k] = "absent" => \A g \in Handlers : ~Holds(g, k)
  BY DEF KeyTurns
<1>3. /\ shared \subseteq shared' /\ \A q \in Keys \ {k} : q \in shared' => q \in shared
      /\ (\E g \in Handlers : Holds(g, k)) => k \in shared'
      /\ (\A g \in Handlers : ~Holds(g, k)) => shared' = shared
  BY DEF NoteShared
<1>4. ~(Moves(k) > 0)
  BY DEF MovesOncePerHolder
<1>5. MovesOncePerHolder'
  <2>1. ASSUME NEW q \in Keys \ {k}
        PROVE  /\ Moves(q)' > 0 <=> status'[q] = "completed"
               /\ Moves(q)' <= IF q \in shared' THEN 2 ELSE 1
    <3>1. Moves(q)' = Moves(q) /\ status'[q] = status[q] /\ (q \in shared' <=> q \in shared)
      BY <1>3
    <3>2. /\ Moves(q) > 0 <=> status[q] = "completed"
          /\ Moves(q) <= IF q \in shared THEN 2 ELSE 1
      BY DEF MovesOncePerHolder
    <3> QED BY <3>1, <3>2
  <2>2. /\ Moves(k)' > 0 <=> status'[k] = "completed"
        /\ Moves(k)' <= IF k \in shared' THEN 2 ELSE 1
    <3>1. Moves(k)' = Moves(k) /\ (k \in shared => k \in shared')
      BY <1>3
    <3>2. Moves(k) <= IF k \in shared THEN 2 ELSE 1
      BY DEF MovesOncePerHolder
    <3>3. Moves(k) <= IF k \in shared' THEN 2 ELSE 1
      <4>1. CASE k \in shared
        BY <3>1, <3>2, <4>1
      <4>2. CASE k \notin shared
        <5>1. Moves(k) \in Nat
          BY MovesType
        <5> QED BY <3>2, <4>2, <5>1
      <4> QED BY <4>1, <4>2
    <3> QED BY <1>4, <3>1, <3>3
  <2> QED BY <2>1, <2>2 DEF MovesOncePerHolder
<1>6. ASSUME NEW q \in Keys \ {k}, NEW g \in Handlers, Holds(g, q)'
      PROVE  /\ status'[q] # "absent"
             /\ q \notin shared' => \A f \in Handlers : Holds(f, q)' => f = g
             /\ ~job'[g].recheck =>
                  /\ \A f \in Handlers : Holds(f, q)' /\ ~job'[f].recheck => f = g
                  /\ Moves(q)' <= 1
                  /\ q \notin shared' => status'[q] = "pending"
  <2>1. g # h /\ \A f \in Handlers : Holds(f, q)' => f # h /\ Holds(f, q) /\ job'[f] = job[f]
    BY <1>1, <1>6
  <2>2. Holds(g, q) /\ job'[g] = job[g] /\ (q \notin shared' => q \notin shared)
    BY <1>3, <1>6, <2>1
  <2> QED BY <2>1, <2>2 DEF KeyTurns
<1>7. ASSUME NEW g \in Handlers, Holds(g, k)'
      PROVE  /\ k \notin shared' => \A f \in Handlers : Holds(f, k)' => f = g
             /\ ~job'[g].recheck =>
                  /\ \A f \in Handlers : Holds(f, k)' /\ ~job'[f].recheck => f = g
                  /\ Moves(k)' <= 1
  <2>1. CASE status[k] = "absent"
    <3>1. \A f \in Handlers : Holds(f, k)' => f = h
      BY <1>1, <1>2, <2>1
    <3>2. Moves(k)' = Moves(k) /\ Moves(k) \in Nat
      BY MovesType
    <3> QED BY <1>4, <1>7, <3>1, <3>2
  <2>2. CASE status[k] # "absent"
    <3>1. job'[h].recheck
      BY <2>2
    <3>2. k \notin shared' => \A f \in Handlers : Holds(f, k)' => f = h
      BY <1>1, <1>3
    <3>3. ASSUME ~job'[g].recheck
          PROVE  /\ \A f \in Handlers : Holds(f, k)' /\ ~job'[f].recheck => f = g
                 /\ Moves(k)' <= 1
      <4>1. g # h /\ Holds(g, k) /\ ~job[g].recheck
        BY <1>1, <1>7, <3>1, <3>3
      <4>2. \A f \in Handlers : Holds(f, k)' /\ ~job'[f].recheck => Holds(f, k) /\ ~job[f].recheck
        BY <1>1, <3>1
      <4> QED BY <4>1, <4>2 DEF KeyTurns
    <3> QED BY <1>7, <3>2, <3>3
  <2> QED BY <2>1, <2>2
<1>8. KeyTurns'
  BY <1>6, <1>7 DEF KeyTurns
<1> QED BY <1>5, <1>8

(* A request that settles a key moves its money once more: for the first   *)
(* time, or as the inserter of a row that another holder has settled.      *)
LEMMA KeySettled ==
  ASSUME TypeOK, KeyStatus, KeyTurns, MovesOncePerHolder,
         NEW h \in Handlers, NEW k \in Keys, Holds(h, k),
         ~(job[h].recheck /\ status[k] \in Settled),
         status'[k] = "completed", Moves(k)' = Moves(k) + 1,
         \A q \in Keys \ {k} : status'[q] = status[q] /\ Moves(q)' = Moves(q),
         \A g \in Handlers \ {h} : job'[g] = job[g], job'[h] = Idle, shared' = shared
  PROVE  KeyTurns' /\ MovesOncePerHolder'
<1>1. /\ \A g \in Handlers \ {h}, q \in Keys : Holds(g, q)' <=> Holds(g, q)
      /\ \A q \in Keys : ~Holds(h, q)'
  BY DEF Holds, Idle
<1>2. status[k] \in {"pending", "completed"} /\ Moves(k) \in Nat
  BY MovesType DEF KeyStatus, KeyTurns, Keys
<1>3. job[h].recheck => Moves(k) = 0
  BY <1>2 DEF MovesOncePerHolder, Settled
<1>4. /\ Moves(k) <= 1
      /\ k \notin shared => Moves(k) = 0
  <2>1. CASE job[h].recheck
    BY <1>3, <2>1
  <2>2. CASE ~job[h].recheck
    <3>1. Moves(k) <= 1 /\ (k \notin shared => status[k] = "pending")
      BY <2>2 DEF KeyTurns
    <3> QED BY <1>2, <3>1 DEF MovesOncePerHolder
  <2> QED BY <2>1, <2>2
<1>5. Moves(k)' > 0 /\ Moves(k)' <= 2 /\ (k \notin shared => Moves(k)' <= 1)
  BY <1>2, <1>4
<1>6. MovesOncePerHolder'
  BY <1>5 DEF MovesOncePerHolder
<1>7. ASSUME NEW g \in Handlers, NEW q \in Keys, Holds(g, q)'
      PROVE  /\ status'[q] # "absent"
             /\ q \notin shared' => \A f \in Handlers : Holds(f, q)' => f = g
             /\ ~job'[g].recheck =>
                  /\ \A f \in Handlers : Holds(f, q)' /\ ~job'[f].recheck => f = g
                  /\ Moves(q)' <= 1
                  /\ q \notin shared' => status'[q] = "pending"
  <2>1. g # h /\ Holds(g, q) /\ job'[g] = job[g]
        /\ \A f \in Handlers : Holds(f, q)' => f # h /\ Holds(f, q) /\ job'[f] = job[f]
    BY <1>1, <1>7
  <2>2. CASE q # k
    BY <2>1, <2>2 DEF KeyTurns
  <2>3. CASE q = k
    <3>1. k \in shared
      BY <2>1, <2>3 DEF KeyTurns
    <3>2. ~job[g].recheck => job[h].recheck
      BY <2>1, <2>3 DEF KeyTurns
    <3>3. ~job[g].recheck => Moves(k)' <= 1
      BY <1>2, <1>3, <3>2
    <3> QED BY <2>1, <2>3, <3>1, <3>3 DEF KeyTurns
  <2> QED BY <2>2, <2>3
<1>8. KeyTurns'
  BY <1>7 DEF KeyTurns
<1> QED BY <1>6, <1>8

(* The rows of releases and refunds, as each of the four steps that touch  *)
(* a key changes them.                                                     *)
LEMMA ReleaseCreated ==
  ASSUME TypeOK, KeyStatus, NEW h \in Handlers, NEW m \in Milestones, ReleaseCreate(h, m)
  PROVE  /\ m \in Keys /\ job[h] = Idle /\ status[m] \in {"absent", "pending"}
         /\ status' = [status EXCEPT ![m] = "pending"]
         /\ \A q \in Keys : status'[q] = IF q = m THEN "pending" ELSE status[q]
         /\ job'[h] = [kind |-> "release", milestone |-> m, recheck |-> status[m] # "absent"]
         /\ \A g \in Handlers \ {h} : job'[g] = job[g]
         /\ UNCHANGED <<refundRow, posted, balance, outbox, payouts, resized>>
         /\ NoteShared(m)
<1>1. m \in Keys /\ m \in Txns /\ status[m] \in {"absent", "pending"}
  BY DEF ReleaseCreate, KeyStatus, Settled, Txns, Keys
<1> QED BY <1>1 DEF ReleaseCreate, TypeOK, Txns, Keys

LEMMA ReleaseSettled ==
  ASSUME TypeOK, NEW h \in Handlers, ReleaseSettle(h)
  PROVE  \E m \in Milestones :
           /\ m = job[h].milestone /\ m \in Keys /\ m \in Txns
           /\ m \notin RefundKeys /\ m \notin Orders
           /\ Holds(h, m) /\ ~(job[h].recheck /\ status[m] \in Settled)
           /\ ReleaseFunded(m) /\ PostEntries(m, ReleaseEntries(m))
           /\ posted'[m] = [a \in Accounts |-> posted[m][a] + ReleaseEntries(m)[a]]
           /\ \A t \in Txns \ {m} :
                /\ status'[t] = status[t] /\ posted'[t] = posted[t] /\ outbox'[t] = outbox[t]
           /\ status'[m] = "completed" /\ Moves(m)' = Moves(m) + 1
           /\ payouts' = IF TalentOf[m] \in Payable THEN payouts \cup {m} ELSE payouts
           /\ job'[h] = Idle /\ \A g \in Handlers \ {h} : job'[g] = job[g]
           /\ UNCHANGED <<refundRow, shared, resized>>
<1>0. job[h].milestone \in Milestones
  BY JobFields DEF ReleaseSettle, ReleaseRuns, TypeOK
<1> PICK m \in Milestones : m = job[h].milestone
  BY <1>0
<1>1. m \in Keys /\ m \in Txns /\ m \notin RefundKeys /\ m \notin Orders
  BY DistinctAssumption DEF Txns, Keys
<1>2. Holds(h, m) /\ ~(job[h].recheck /\ status[m] \in Settled)
  BY DEF ReleaseSettle, ReleaseRuns, Holds
<1>3. /\ ReleaseFunded(m) /\ PostEntries(m, ReleaseEntries(m))
      /\ status' = [status EXCEPT ![m] = "completed"]
      /\ outbox' = [outbox EXCEPT ![m]["released"] = @ + 1]
      /\ payouts' = IF TalentOf[m] \in Payable THEN payouts \cup {m} ELSE payouts
      /\ job' = [job EXCEPT ![h] = Idle]
      /\ UNCHANGED <<refundRow, shared, resized>>
  BY DEF ReleaseSettle, Publish, history
<1>4. /\ \A t \in Txns \ {m} :
           status'[t] = status[t] /\ posted'[t] = posted[t] /\ outbox'[t] = outbox[t]
      /\ status'[m] = "completed"
      /\ posted'[m] = [a \in Accounts |-> posted[m][a] + ReleaseEntries(m)[a]]
      /\ job'[h] = Idle /\ \A g \in Handlers \ {h} : job'[g] = job[g]
  BY <1>1, <1>3 DEF TypeOK, PostEntries
<1>5. Moves(m)' = Moves(m) + 1
  <2>1. outbox[m] \in [EventKinds -> Nat]
    BY <1>1 DEF TypeOK
  <2>2. outbox'[m]["released"] = outbox[m]["released"] + 1
    BY <1>1, <1>3, <2>1 DEF TypeOK, EventKinds
  <2> QED BY <2>2 DEF Moves
<1> QED BY <1>1, <1>2, <1>3, <1>4, <1>5

LEMMA RefundCreated ==
  ASSUME TypeOK, KeyStatus, NEW h \in Handlers, NEW k \in RefundKeys, NEW amount \in RefundAsks[k],
         RefundCreate(h, k, amount)
  PROVE  /\ k \in Keys /\ job[h] = Idle /\ status[k] \in {"absent", "pending"}
         /\ status' = [status EXCEPT ![k] = "pending"]
         /\ \A q \in Keys : status'[q] = IF q = k THEN "pending" ELSE status[q]
         /\ refundRow' = [refundRow EXCEPT ![k] = IF status[k] = "absent" THEN amount ELSE @]
         /\ job'[h] = [kind |-> "refund", key |-> k, amount |-> amount,
                       full |-> amount = Price[RefundedOrder[k]],
                       recheck |-> status[k] # "absent"]
         /\ \A g \in Handlers \ {h} : job'[g] = job[g]
         /\ UNCHANGED <<posted, balance, outbox, payouts>>
         /\ NoteShared(k) /\ NoteResized(k, amount)
<1>1. k \in Keys /\ k \in Txns /\ status[k] \in {"absent", "pending"}
  BY DEF RefundCreate, KeyStatus, Settled, Txns, Keys
<1> QED BY <1>1 DEF RefundCreate, TypeOK, Txns, Keys

LEMMA RefundSettledKey ==
  ASSUME TypeOK, NEW h \in Handlers, RefundSettle(h)
  PROVE  \E k \in RefundKeys, amount \in Nat, draw \in [Pools -> Nat] :
           /\ k = job[h].key /\ amount = job[h].amount /\ job[h].kind = "refund"
           /\ k \in Keys /\ k \in Txns /\ k \notin Milestones /\ k \notin Orders
           /\ Holds(h, k) /\ ~(job[h].recheck /\ status[k] \in Settled)
           /\ draw \in [Pools -> 0..amount]
           /\ IsDraw(draw, Pools, amount, balance, PoolId, RefundScope[k])
           /\ PostEntries(k, RefundEntries(amount, draw))
           /\ posted'[k][Owner] = posted[k][Owner] + amount
           /\ \A q \in Keys \ {k} : status'[q] = status[q]
           /\ \A t \in Txns \ {k} : posted'[t] = posted[t] /\ outbox'[t] = outbox[t]
           /\ status'[k] = "completed" /\ Moves(k)' = Moves(k) + 1
           /\ job'[h] = Idle /\ \A g \in Handlers \ {h} : job'[g] = job[g]
           /\ UNCHANGED <<refundRow, payouts, shared, resized>>
<1>0. /\ job[h].key \in RefundKeys /\ job[h].amount \in Nat /\ job[h].kind = "refund"
      /\ RefundedOrder[job[h].key] \in Orders
  BY JobFields, RefundsAssumption DEF RefundSettle, RefundRuns, TypeOK
<1> PICK k \in RefundKeys, amount \in Nat : k = job[h].key /\ amount = job[h].amount
  BY <1>0
<1> DEFINE o == RefundedOrder[k]
<1>1. /\ k \in Keys /\ k \in Txns /\ k \notin Milestones /\ k \notin Orders
      /\ o \in Orders /\ o \notin Keys
  BY <1>0, DistinctAssumption DEF Txns, Keys
<1>2. Holds(h, k) /\ ~(job[h].recheck /\ status[k] \in Settled)
  BY DEF RefundSettle, RefundRuns, Holds
<1>3. PICK draw \in [Pools -> 0..amount] :
        /\ IsDraw(draw, Pools, amount, balance, PoolId, RefundScope[k])
        /\ PostEntries(k, RefundEntries(amount, draw))
  BY DEF RefundSettle
<1>4. draw \in [Pools -> Nat]
  BY <1>3
<1>5. PICK kind \in {"refunded", "partial_refund"} : Publish(k, kind)
  BY DEF RefundSettle
<1>6. /\ \A t \in Txns : status'[t] = IF t = k THEN "completed"
                           ELSE IF t = o /\ job[h].full THEN "refunded" ELSE status[t]
      /\ job' = [job EXCEPT ![h] = Idle]
      /\ UNCHANGED <<refundRow, payouts, shared, resized>>
  BY DEF RefundSettle, history
<1>7. /\ \A q \in Keys \ {k} : status'[q] = status[q]
      /\ status'[k] = "completed"
      /\ job'[h] = Idle /\ \A g \in Handlers \ {h} : job'[g] = job[g]
  BY <1>1, <1>6 DEF TypeOK, Keys, Txns
<1>8. \A t \in Txns \ {k} : posted'[t] = posted[t] /\ outbox'[t] = outbox[t]
  BY <1>1, <1>3, <1>5 DEF TypeOK, PostEntries, Publish
<1>9. posted'[k][Owner] = posted[k][Owner] + amount
  <2>1. Owner \in Accounts /\ RefundEntries(amount, draw)[Owner] = amount
    BY DEF RefundEntries, Accounts
  <2> QED BY <1>1, <1>3, <2>1 DEF PostEntries, TypeOK
<1>10. Moves(k)' = Moves(k) + 1
  <2>1. outbox[k] \in [EventKinds -> Nat] /\ kind \in EventKinds
    BY <1>1 DEF TypeOK, EventKinds
  <2>2. outbox'[k] = [outbox[k] EXCEPT ![kind] = @ + 1]
    BY <1>1, <1>5 DEF TypeOK, Publish
  <2>3. \/ /\ outbox'[k]["refunded"] = outbox[k]["refunded"] + 1
           /\ outbox'[k]["partial_refund"] = outbox[k]["partial_refund"]
        \/ /\ outbox'[k]["partial_refund"] = outbox[k]["partial_refund"] + 1
           /\ outbox'[k]["refunded"] = outbox[k]["refunded"]
    BY <2>1, <2>2 DEF EventKinds
  <2>4. outbox[k]["refunded"] \in Nat /\ outbox[k]["partial_refund"] \in Nat
    BY <2>1 DEF EventKinds
  <2> QED BY <1>1, <2>3, <2>4 DEF Moves
<1> QED BY <1>0, <1>1, <1>2, <1>3, <1>4, <1>7, <1>6, <1>8, <1>9, <1>10

(* Nobody holds a key in the initial state.                                *)
LEMMA InitKInv == Init => KInv
<1> SUFFICES ASSUME Init PROVE KInv
  OBVIOUS
<1>1. KeyTurns
  BY DEF Init, KeyTurns, Holds, Idle
<1>2. MovesOncePerHolder
  BY DEF Init, MovesOncePerHolder, Moves, Txns, Keys, EventKinds, NoEvents
<1> QED BY <1>1, <1>2, InitIInv DEF KInv

(* Every step keeps the holders' invariant.                                *)
LEMMA NextKInv ==
  ASSUME KInv, IInv', [Next]_vars
  PROVE  KInv'
<1> USE DEF KInv
<1>t. TypeOK /\ KeyStatus
  BY DEF IInv
<1>1. CASE Untouched
  BY <1>1, KeysKept
<1>2. ASSUME NEW h \in Handlers, NEW m \in Milestones, ReleaseCreate(h, m) PROVE KInv'
  <2>1. /\ m \in Keys /\ status[m] \in {"absent", "pending"}
        /\ \A q \in Keys : status'[q] = IF q = m THEN "pending" ELSE status[q]
        /\ job'[h] = [kind |-> "release", milestone |-> m, recheck |-> status[m] # "absent"]
        /\ \A g \in Handlers \ {h} : job'[g] = job[g]
        /\ outbox' = outbox /\ NoteShared(m)
    BY <1>t, <1>2, ReleaseCreated
  <2>2. /\ \A q \in Keys : Moves(q)' = Moves(q)
        /\ \A q \in Keys : Holds(h, q)' => q = m
        /\ job'[h].recheck = (status[m] # "absent")
    BY <2>1 DEF Moves, Holds
  <2> QED BY <1>t, <2>1, <2>2, KeyPresented
<1>3. ASSUME NEW h \in Handlers, ReleaseSettle(h) PROVE KInv'
  <2>1. PICK m \in Milestones :
          /\ m \in Keys /\ Holds(h, m) /\ ~(job[h].recheck /\ status[m] \in Settled)
          /\ \A t \in Txns \ {m} : status'[t] = status[t] /\ outbox'[t] = outbox[t]
          /\ status'[m] = "completed" /\ Moves(m)' = Moves(m) + 1
          /\ job'[h] = Idle /\ \A g \in Handlers \ {h} : job'[g] = job[g]
          /\ shared' = shared
    BY <1>t, <1>3, ReleaseSettled
  <2>2. \A q \in Keys \ {m} : status'[q] = status[q] /\ Moves(q)' = Moves(q)
    BY <2>1 DEF Moves, Keys, Txns
  <2> QED BY <1>t, <2>1, <2>2, KeySettled
<1>4. ASSUME NEW h \in Handlers, NEW k \in RefundKeys, NEW amount \in RefundAsks[k],
             RefundCreate(h, k, amount)
      PROVE  KInv'
  <2>1. /\ k \in Keys /\ status[k] \in {"absent", "pending"}
        /\ \A q \in Keys : status'[q] = IF q = k THEN "pending" ELSE status[q]
        /\ job'[h] = [kind |-> "refund", key |-> k, amount |-> amount,
                      full |-> amount = Price[RefundedOrder[k]],
                      recheck |-> status[k] # "absent"]
        /\ \A g \in Handlers \ {h} : job'[g] = job[g]
        /\ outbox' = outbox /\ NoteShared(k)
    BY <1>t, <1>4, RefundCreated
  <2>2. /\ \A q \in Keys : Moves(q)' = Moves(q)
        /\ \A q \in Keys : Holds(h, q)' => q = k
        /\ job'[h].recheck = (status[k] # "absent")
    BY <2>1 DEF Moves, Holds
  <2> QED BY <1>t, <2>1, <2>2, KeyPresented
<1>5. ASSUME NEW h \in Handlers, RefundSettle(h) PROVE KInv'
  <2>1. PICK k \in RefundKeys :
          /\ k \in Keys /\ Holds(h, k) /\ ~(job[h].recheck /\ status[k] \in Settled)
          /\ \A q \in Keys \ {k} : status'[q] = status[q]
          /\ \A t \in Txns \ {k} : outbox'[t] = outbox[t]
          /\ status'[k] = "completed" /\ Moves(k)' = Moves(k) + 1
          /\ job'[h] = Idle /\ \A g \in Handlers \ {h} : job'[g] = job[g]
          /\ shared' = shared
    BY <1>t, <1>5, RefundSettledKey
  <2>2. \A q \in Keys \ {k} : status'[q] = status[q] /\ Moves(q)' = Moves(q)
    BY <2>1 DEF Moves, Keys, Txns
  <2> QED BY <1>t, <2>1, <2>2, KeySettled
<1> QED BY <1>t, <1>1, <1>2, <1>3, <1>4, <1>5, KeySteps

(* A key moves its money once, or twice when two requests held it, and     *)
(* never a third time, whoever presents it and however often.              *)
LEMMA KeysHold == Spec => []KInv
<1>1. Init => KInv
  BY InitKInv
<1>2. KInv /\ IInv' /\ [Next]_vars => KInv'
  BY NextKInv
<1> QED BY <1>1, <1>2, InvHolds, PTL DEF Spec

(* A release is whole: entries, event and payout row, as often as settled. *)
LEMMA NextWhole ==
  ASSUME KInv, ReleaseIsWhole, [Next]_vars
  PROVE  ReleaseIsWhole'
<1>t. TypeOK /\ KeyStatus
  BY DEF KInv, IInv
<1>m. \A m \in Milestones : m \in Keys /\ m \in Txns
  BY DEF Keys, Txns
<1>1. CASE Untouched
  BY <1>m, <1>1 DEF Untouched, ReleaseIsWhole, Moves
<1>2. ASSUME NEW h \in Handlers, NEW m \in Milestones, ReleaseCreate(h, m) PROVE ReleaseIsWhole'
  BY <1>t, <1>2, ReleaseCreated DEF ReleaseIsWhole, Moves
<1>3. ASSUME NEW h \in Handlers, ReleaseSettle(h) PROVE ReleaseIsWhole'
  <2>1. PICK m \in Milestones :
          /\ m \in Keys /\ m \in Txns
          /\ posted'[m] = [a \in Accounts |-> posted[m][a] + ReleaseEntries(m)[a]]
          /\ \A t \in Txns \ {m} : posted'[t] = posted[t] /\ outbox'[t] = outbox[t]
          /\ Moves(m)' = Moves(m) + 1
          /\ payouts' = IF TalentOf[m] \in Payable THEN payouts \cup {m} ELSE payouts
    BY <1>t, <1>3, ReleaseSettled
  <2>2. Moves(m) \in Nat /\ \A a \in Accounts : ReleaseEntries(m)[a] \in Int
    BY <1>t, <2>1, MovesType, EntriesType
  <2>3. posted[m] = [a \in Accounts |-> Moves(m) * ReleaseEntries(m)[a]]
    BY DEF ReleaseIsWhole
  <2>4. posted'[m] = [a \in Accounts |-> (Moves(m) + 1) * ReleaseEntries(m)[a]]
    <3>1. \A n \in Nat, x \in Int : n * x + x = (n + 1) * x
      OBVIOUS
    <3> QED BY <2>1, <2>2, <2>3, <3>1
  <2>5. Moves(m)' > 0 /\ (m \in payouts' <=> TalentOf[m] \in Payable)
    <3>1. m \in payouts => TalentOf[m] \in Payable
      BY DEF ReleaseIsWhole
    <3>2. Moves(m)' > 0
      BY <2>1, <2>2
    <3> QED BY <2>1, <3>1, <3>2
  <2>6. \A q \in Milestones \ {m} :
          /\ posted'[q] = posted[q] /\ Moves(q)' = Moves(q)
          /\ q \in payouts' <=> q \in payouts
    BY <1>m, <2>1 DEF Moves
  <2> QED BY <2>1, <2>4, <2>5, <2>6 DEF ReleaseIsWhole
<1>4. ASSUME NEW h \in Handlers, NEW k \in RefundKeys, NEW amount \in RefundAsks[k],
             RefundCreate(h, k, amount)
      PROVE  ReleaseIsWhole'
  <2>1. UNCHANGED <<posted, outbox, payouts>>
    BY <1>4 DEF RefundCreate
  <2> QED BY <2>1 DEF ReleaseIsWhole, Moves
<1>5. ASSUME NEW h \in Handlers, RefundSettle(h) PROVE ReleaseIsWhole'
  <2>1. PICK k \in RefundKeys :
          /\ k \notin Milestones
          /\ \A t \in Txns \ {k} : posted'[t] = posted[t] /\ outbox'[t] = outbox[t]
          /\ payouts' = payouts
    BY <1>t, <1>5, RefundSettledKey
  <2> QED BY <1>m, <2>1 DEF ReleaseIsWhole, Moves
<1> QED BY <1>t, <1>1, <1>2, <1>3, <1>4, <1>5, KeySteps

(* A milestone's key moves its money once, twice at most if two requests   *)
(* ever held it together, and each time the entries, the payment.released  *)
(* and the payout row are written together, whatever is retried, abandoned *)
(* or presented twice.                                                     *)
THEOREM ReleasesAlwaysAddUp == Spec => []ReleasesAddUp
<1>1. Init => ReleaseIsWhole
  <2> SUFFICES ASSUME Init, NEW m \in Milestones
               PROVE  /\ posted[m] = [a \in Accounts |-> Moves(m) * ReleaseEntries(m)[a]]
                      /\ m \in payouts <=> Moves(m) > 0 /\ TalentOf[m] \in Payable
    BY DEF ReleaseIsWhole
  <2>1. Moves(m) = 0 /\ payouts = {} /\ posted[m] = [a \in Accounts |-> 0]
    BY DEF Init, Moves, Txns, EventKinds, NoEvents, NoEntries
  <2>2. \A a \in Accounts : 0 * ReleaseEntries(m)[a] = 0
    BY EntriesType
  <2> QED BY <2>1, <2>2
<1>2. KInv /\ ReleaseIsWhole /\ [Next]_vars => ReleaseIsWhole'
  BY NextWhole
<1>3. KInv /\ ReleaseIsWhole => ReleasesAddUp
  BY DEF KInv, ReleasesAddUp
<1> QED BY <1>1, <1>2, <1>3, KeysHold, PTL DEF Spec

(* What a refund request asks under its key, and what the row says of it.  *)
RefundAmounts ==
  \A h \in Handlers : job[h].kind = "refund" =>
    /\ job[h].amount \in RefundAsks[job[h].key]
    /\ job[h].key \notin resized => job[h].amount = refundRow[job[h].key]

(* Every step keeps what the requests under way know of their rows.        *)
LEMMA NextAmounts ==
  ASSUME KInv, RefundAmounts, [Next]_vars
  PROVE  RefundAmounts'
<1>t. TypeOK /\ KeyStatus
  BY DEF KInv, IInv
<1>j. \A g \in Handlers : job[g].kind = "refund" =>
        job[g].key \in RefundKeys /\ job[g].key \in Keys /\ Holds(g, job[g].key)
  BY <1>t, JobFields DEF TypeOK, Keys, Holds
<1>1. CASE Untouched
  BY <1>1 DEF Untouched, RefundAmounts
<1>2. ASSUME NEW h \in Handlers, NEW m \in Milestones, ReleaseCreate(h, m) PROVE RefundAmounts'
  <2>1. /\ job'[h].kind = "release" /\ \A g \in Handlers \ {h} : job'[g] = job[g]
        /\ UNCHANGED <<refundRow, resized>>
    BY <1>t, <1>2 DEF ReleaseCreate, TypeOK
  <2> QED BY <2>1 DEF RefundAmounts
<1>3. ASSUME NEW h \in Handlers, ReleaseSettle(h) \/ RefundSettle(h) PROVE RefundAmounts'
  <2>1. /\ job'[h] = Idle /\ \A g \in Handlers \ {h} : job'[g] = job[g]
        /\ UNCHANGED <<refundRow, resized>>
    BY <1>t, <1>3, ReleaseSettled, RefundSettledKey
  <2> QED BY <2>1 DEF RefundAmounts, Idle
<1>4. ASSUME NEW h \in Handlers, NEW k \in RefundKeys, NEW amount \in RefundAsks[k],
             RefundCreate(h, k, amount)
      PROVE  RefundAmounts'
  <2>1. /\ k \in Keys /\ status[k] \in {"absent", "pending"}
        /\ refundRow' = [refundRow EXCEPT ![k] = IF status[k] = "absent" THEN amount ELSE @]
        /\ job'[h].kind = "refund" /\ job'[h].key = k /\ job'[h].amount = amount
        /\ \A g \in Handlers \ {h} : job'[g] = job[g]
        /\ NoteResized(k, amount)
    <3>1. /\ k \in Keys /\ status[k] \in {"absent", "pending"}
          /\ refundRow' = [refundRow EXCEPT ![k] = IF status[k] = "absent" THEN amount ELSE @]
          /\ job'[h] = [kind |-> "refund", key |-> k, amount |-> amount,
                        full |-> amount = Price[RefundedOrder[k]],
                        recheck |-> status[k] # "absent"]
          /\ \A g \in Handlers \ {h} : job'[g] = job[g]
          /\ NoteResized(k, amount)
      BY <1>t, <1>4, RefundCreated
    <3> QED BY <3>1
  <2>2. /\ \A q \in RefundKeys \ {k} :
             refundRow'[q] = refundRow[q] /\ (q \notin resized' => q \notin resized)
        /\ refundRow'[k] = IF status[k] = "absent" THEN amount ELSE refundRow[k]
        /\ k \notin resized' => k \notin resized
        /\ k \notin resized' /\ status[k] # "absent" => amount = refundRow[k]
    BY <1>t, <2>1 DEF NoteResized, TypeOK
  <2>3. status[k] = "absent" => \A g \in Handlers : ~Holds(g, k)
    BY <2>1 DEF KInv, KeyTurns
  <2>4. ASSUME NEW g \in Handlers \ {h}, job'[g].kind = "refund"
        PROVE  /\ job'[g].amount \in RefundAsks[job'[g].key]
               /\ job'[g].key \notin resized' => job'[g].amount = refundRow'[job'[g].key]
    <3>1. job[g].kind = "refund" /\ job'[g] = job[g]
      BY <2>1, <2>4
    <3>2. job[g].key \in RefundKeys /\ (job[g].key = k => status[k] # "absent")
      BY <1>j, <2>3, <3>1
    <3> QED BY <2>2, <3>1, <3>2 DEF RefundAmounts
  <2>5. /\ job'[h].amount \in RefundAsks[job'[h].key]
        /\ job'[h].key \notin resized' => job'[h].amount = refundRow'[job'[h].key]
    BY <2>1, <2>2
  <2> QED BY <2>4, <2>5 DEF RefundAmounts
<1> QED BY <1>t, <1>1, <1>2, <1>3, <1>4, KeySteps

(* The invariant of keys and amounts.                                      *)
CInv == KInv /\ RefundAmounts

LEMMA CInvHolds == Spec => []CInv
<1>1. Init => RefundAmounts
  BY DEF Init, RefundAmounts, Idle
<1>2. KInv /\ RefundAmounts /\ [Next]_vars => RefundAmounts'
  BY NextAmounts
<1> QED BY <1>1, <1>2, KeysHold, PTL DEF Spec, CInv

-----------------------------------------------------------------------------
(* The refinement.                                                         *)
(* The initial state is an initial state of the promise.                   *)
LEMMA PromiseInit == Init => Promise!Init
BY DEF Init, Promise!Init, OrderState, Moves, Keys, Txns, EventKinds, NoEvents, NoEntries,
       Accounts, Promise!Accounts, Promise!Payments

(* A step that writes no entry and no event and shares no key is invisible. *)
LEMMA PromiseStutter ==
  ASSUME UNCHANGED <<balance, outbox, shared>>
  PROVE  UNCHANGED Promise!vars
BY DEF Promise!vars, OrderState, Moves

(* A request that comes to share a key contests a payment not yet made.    *)
LEMMA PromiseContest ==
  ASSUME TypeOK, MovesOncePerHolder, NEW k \in Keys, status[k] \in {"absent", "pending"},
         NoteShared(k), UNCHANGED <<balance, outbox>>
  PROVE  [Promise!Next]_(Promise!vars)
<1>1. CASE shared' = shared
  BY <1>1, PromiseStutter
<1>2. CASE shared' = shared \cup {k}
  <2>1. Moves(k) = 0
    BY MovesType DEF MovesOncePerHolder
  <2>2. OrderState' = OrderState /\ [q \in Keys |-> Moves(q)]' = [q \in Keys |-> Moves(q)]
    BY DEF OrderState, Moves
  <2>3. Promise!Contest(k)
    BY <1>2, <2>1, <2>2 DEF Promise!Contest
  <2>4. k \in Promise!Payments
    BY DEF Promise!Payments, Keys
  <2> QED BY <2>3, <2>4 DEF Promise!Next
<1> QED BY <1>1, <1>2 DEF NoteShared

(* Every step is a step of the promise or invisible to it.                 *)
LEMMA PromiseStep ==
  ASSUME CInv, KInv', [Next]_vars
  PROVE  [Promise!Next]_(Promise!vars)
<1> USE DEF CInv, KInv
<1>t. TypeOK /\ TypeOK' /\ KeyStatus /\ BookingAgrees
  BY DEF IInv
<1>d. \A o \in Orders : o \in Txns /\ o \notin Keys
  BY DistinctAssumption DEF Txns, Keys
<1>1. ASSUME NEW o \in Orders, CreateSnapToken(o) PROVE UNCHANGED Promise!vars
  BY <1>1, PromiseStutter DEF CreateSnapToken, history
<1>2. ASSUME NEW o \in Orders, Gateway(o) PROVE UNCHANGED Promise!vars
  <2>1. UNCHANGED <<books, history>>
    BY <1>2, GatewayMoves DEF GatewayStep
  <2> QED BY <2>1, PromiseStutter DEF books, history
<1>3. ASSUME NEW h \in Handlers, NEW o \in Orders, NEW n \in Notices, WebhookRead(h, o, n)
      PROVE  UNCHANGED Promise!vars
  BY <1>3, PromiseStutter DEF WebhookRead, books, history
<1>4. ASSUME NEW h \in Handlers, WebhookCommit(h) PROVE [Promise!Next]_(Promise!vars)
  <2>0. job[h].order \in Orders
    BY <1>4, <1>t, JobFields DEF WebhookCommit, WebhookApplies, TypeOK
  <2> PICK o \in Orders : o = job[h].order
    BY <2>0
  <2> DEFINE next == job[h].next
  <2>1. o \in Orders /\ o \in Txns /\ next \in RowStatus
    BY <1>4, <1>t, JobFields DEF WebhookCommit, WebhookApplies, TypeOK, Txns
  <2>3. /\ status[o] # "refunded"
        /\ status[o] = "completed" => next = "refunded"
    BY <1>4, SupersedesFinal DEF WebhookCommit, WebhookApplies
  <2>4. /\ balance' = [a \in Accounts |-> balance[a] + WebhookEntries(o, next)[a]]
        /\ next = "completed" => outbox' = [outbox EXCEPT ![o]["settled"] = @ + 1]
        /\ next = "refunded"  => outbox' = [outbox EXCEPT ![o]["refunded"] = @ + 1]
        /\ next \notin Settled => outbox' = outbox
    BY <1>4 DEF WebhookCommit, PostEntries, Publish, Settled
  <2>5. outbox[o] \in [EventKinds -> Nat]
    BY <1>t, <2>1 DEF TypeOK
  <2>6. \A q \in Txns : q # o => outbox'[q] = outbox[q]
    BY <1>t, <2>1, <2>4 DEF TypeOK, Settled
  <2>2. shared' = shared /\ [k \in Keys |-> Moves(k)]' = [k \in Keys |-> Moves(k)]
    BY <1>4, <1>d, <2>1, <2>6 DEF WebhookCommit, history, Moves, Keys, Txns
  <2>7. CASE next = "completed"
    <3>1. outbox[o]["settled"] = 0 /\ outbox[o]["refunded"] = 0
      BY <1>t, <2>1, <2>3, <2>7 DEF BookingAgrees, Settled
    <3>2. outbox'[o]["settled"] = 1 /\ outbox'[o]["refunded"] = 0
      <4>1. outbox' = [outbox EXCEPT ![o]["settled"] = @ + 1]
        BY <2>4, <2>7
      <4> QED BY <1>t, <2>1, <2>5, <3>1, <4>1 DEF TypeOK, EventKinds
    <3>3. OrderState[o] = "open" /\ OrderState' = [OrderState EXCEPT ![o] = "booked"]
      BY <2>1, <2>6, <3>1, <3>2 DEF OrderState, Txns
    <3>4. balance' = [a \in Accounts |-> balance[a] + FundingEntries(o)[a]]
      BY <2>4, <2>7 DEF WebhookEntries
    <3>5. Promise!Book(o)
      BY <2>1, <2>2, <3>3, <3>4 DEF Promise!Book, Promise!Move, Promise!Accounts, Accounts
    <3> QED BY <2>1, <3>5 DEF Promise!Next
  <2>8. CASE next = "refunded"
    <3>1. outbox[o]["refunded"] = 0 /\ outbox[o]["settled"] \in 0..1
      BY <1>t, <2>1, <2>3, <2>5 DEF BookingAgrees, Settled, EventKinds
    <3>2. outbox'[o]["refunded"] = 1
      BY <1>t, <2>1, <2>4, <2>5, <2>8, <3>1 DEF TypeOK, EventKinds
    <3>3. /\ OrderState[o] = IF outbox[o]["settled"] > 0 THEN "booked" ELSE "open"
          /\ OrderState' = [OrderState EXCEPT ![o] = "undone"]
      BY <2>1, <2>6, <3>1, <3>2 DEF OrderState, Txns
    <3>4. balance' = [a \in Accounts |-> balance[a] + ReversalEntries(o)[a]]
      BY <2>4, <2>8 DEF WebhookEntries
    <3>5. posted[o] = IF outbox[o]["settled"] > 0 THEN FundingEntries(o) ELSE NoEntries
      BY <1>t, <2>1, <3>1 DEF BookingAgrees
    <3>6. CASE outbox[o]["settled"] > 0
      <4>1. balance' = [a \in Accounts |-> balance[a] + (-FundingEntries(o)[a])]
        BY <3>4, <3>5, <3>6 DEF ReversalEntries
      <4>2. Promise!Undo(o)
        BY <2>1, <2>2, <3>3, <3>6, <4>1
        DEF Promise!Undo, Promise!Move, Promise!Accounts, Accounts
      <4> QED BY <2>1, <4>2 DEF Promise!Next
    <3>7. CASE ~(outbox[o]["settled"] > 0)
      <4>1. balance' = balance
        BY <1>t, <3>4, <3>5, <3>7 DEF ReversalEntries, NoEntries, TypeOK
      <4>2. Promise!Undo(o)
        BY <2>1, <2>2, <3>3, <3>7, <4>1 DEF Promise!Undo
      <4> QED BY <2>1, <4>2 DEF Promise!Next
    <3> QED BY <3>6, <3>7
  <2>9. CASE next \notin Settled
    <3>1. balance' = balance
      BY <1>t, <2>4, <2>9 DEF WebhookEntries, NoEntries, TypeOK, Settled
    <3> QED BY <2>2, <2>4, <2>9, <3>1, PromiseStutter
  <2> QED BY <2>7, <2>8, <2>9 DEF Settled
<1>5. ASSUME NEW h \in Handlers, NEW m \in Milestones, ReleaseCreate(h, m)
      PROVE  [Promise!Next]_(Promise!vars)
  BY <1>5, <1>t, ReleaseCreated, PromiseContest
<1>6. ASSUME NEW h \in Handlers, ReleaseSettle(h) PROVE Promise!Next
  <2>1. PICK m \in Milestones :
          /\ m \in Keys /\ m \in Txns /\ m \notin Orders
          /\ ReleaseFunded(m) /\ PostEntries(m, ReleaseEntries(m))
          /\ \A t \in Txns \ {m} : outbox'[t] = outbox[t]
          /\ Moves(m)' = Moves(m) + 1
          /\ shared' = shared
    BY <1>t, <1>6, ReleaseSettled
  <2>2. Moves(m) \in Nat
    BY <1>t, <2>1, MovesType
  <2>3. Moves(m) = 0 \/ (Moves(m) = 1 /\ m \in shared)
    BY <2>1, <2>2 DEF MovesOncePerHolder
  <2>4. [k \in Keys |-> Moves(k)]' = [[k \in Keys |-> Moves(k)] EXCEPT ![m] = @ + 1]
    <3>1. \A k \in Keys \ {m} : Moves(k)' = Moves(k)
      BY <2>1 DEF Moves, Keys, Txns
    <3> QED BY <2>1, <3>1
  <2>5. OrderState' = OrderState
    BY <2>1 DEF OrderState, Txns
  <2>6. Promise!Count(m)
    BY <2>1, <2>3, <2>4 DEF Promise!Count
  <2>7. balance[PoolOf[m]] >= MilestoneAmount[m]
        /\ balance' = [a \in Accounts |-> balance[a] + ReleaseEntries(m)[a]]
    BY <2>1 DEF ReleaseFunded, PostEntries
  <2>8. Promise!Pay(m)
    BY <2>1, <2>5, <2>6, <2>7
    DEF Promise!Pay, Promise!Move, Promise!Accounts, Accounts, ReleaseEntries
  <2> QED BY <2>8 DEF Promise!Next
<1>7. ASSUME NEW h \in Handlers, NEW k \in RefundKeys, NEW amount \in RefundAsks[k],
             RefundCreate(h, k, amount)
      PROVE  [Promise!Next]_(Promise!vars)
  BY <1>7, <1>t, RefundCreated, PromiseContest
<1>8. ASSUME NEW h \in Handlers, RefundSettle(h) PROVE Promise!Next
  <2>1. PICK k \in RefundKeys, amount \in Nat, draw \in [Pools -> Nat] :
          /\ k = job[h].key /\ amount = job[h].amount /\ job[h].kind = "refund"
          /\ k \in Keys /\ k \in Txns /\ k \notin Orders
          /\ draw \in [Pools -> 0..amount]
          /\ IsDraw(draw, Pools, amount, balance, PoolId, RefundScope[k])
          /\ PostEntries(k, RefundEntries(amount, draw))
          /\ \A t \in Txns \ {k} : outbox'[t] = outbox[t]
          /\ Moves(k)' = Moves(k) + 1
          /\ shared' = shared
    BY <1>t, <1>8, RefundSettledKey
  <2>2. amount \in RefundAsks[k]
    BY <2>1 DEF RefundAmounts
  <2>3. Moves(k) \in Nat
    BY <1>t, <2>1, MovesType
  <2>4. Moves(k) = 0 \/ (Moves(k) = 1 /\ k \in shared)
    BY <2>1, <2>3 DEF MovesOncePerHolder
  <2>5. [q \in Keys |-> Moves(q)]' = [[q \in Keys |-> Moves(q)] EXCEPT ![k] = @ + 1]
    <3>1. \A q \in Keys \ {k} : Moves(q)' = Moves(q)
      BY <2>1 DEF Moves, Keys, Txns
    <3> QED BY <2>1, <3>1
  <2>6. Promise!Count(k)
    BY <2>1, <2>4, <2>5 DEF Promise!Count
  <2>7. DrawTotal(draw) = amount
    BY <2>1 DEF IsDraw, DrawTotal
  <2>8. \A p \in Pools : draw[p] > 0 => draw[p] <= balance[p]
    BY <1>t, <2>1 DEF IsDraw, NonNeg, TypeOK, Accounts
  <2>9. OrderState' = OrderState
    BY <2>1 DEF OrderState, Txns
  <2>10. Promise!Move([a \in Promise!Accounts |->
            IF a = Owner THEN amount ELSE IF a \in Pools THEN -draw[a] ELSE 0])
    <3>1. balance' = [a \in Promise!Accounts |-> balance[a] + RefundEntries(amount, draw)[a]]
      BY <2>1 DEF PostEntries, Promise!Accounts, Accounts
    <3> QED BY <3>1 DEF Promise!Move, RefundEntries, Promise!Accounts, Accounts
  <2>11. Promise!GiveBack(k)
    BY <2>1, <2>2, <2>6, <2>7, <2>8, <2>9, <2>10 DEF Promise!GiveBack
  <2> QED BY <2>11 DEF Promise!Next
<1>9. ASSUME NEW h \in Handlers, Retry(h) \/ Abandon(h) PROVE UNCHANGED Promise!vars
  BY <1>9, PromiseStutter DEF Retry, Abandon, books, history
<1>10. CASE UNCHANGED vars
  BY <1>10, PromiseStutter DEF vars
<1> QED BY <1>1, <1>2, <1>3, <1>4, <1>5, <1>6, <1>7, <1>8, <1>9, <1>10 DEF Next

(* Whatever is repeated, reordered, retried, abandoned or presented twice, *)
(* money moves only as the promise says.                                   *)
THEOREM ImplementsPromise == Spec => KeepsPromise
<1>1. Init => Promise!Init
  BY PromiseInit
<1>2. CInv /\ KInv' /\ [Next]_vars => [Promise!Next]_(Promise!vars)
  BY PromiseStep
<1> QED BY <1>1, <1>2, CInvHolds, KeysHold, PTL DEF Spec, KeepsPromise, Promise!Spec

-----------------------------------------------------------------------------
(* What each kind of entries adds up to.                                   *)

(* There are finitely many accounts.                                       *)
LEMMA FiniteAccounts == IsFiniteSet(Accounts)
<1>1. IsFiniteSet({Owner, Platform})
  <2>1. {Owner, Platform} = {Owner} \cup {Platform}
    OBVIOUS
  <2>2. IsFiniteSet({Owner})
    BY FS_Singleton
  <2>3. IsFiniteSet({Owner} \cup {Platform})
    BY <2>2, FS_AddElement
  <2> QED BY <2>1, <2>3
<1> QED BY <1>1, FiniteAssumption, FS_Union DEF Accounts

(* The ledger's total splits over the kinds of account.                    *)
LEMMA AccountsSum ==
  ASSUME NEW e \in [Accounts -> Int]
  PROVE  /\ SumFunctionOnSet(e, Talents) \in Int
         /\ SumFunctionOnSet(e, Pools) \in Int
         /\ SumFunctionOnSet(e, Accounts) =
              e[Owner] + e[Platform] + SumFunctionOnSet(e, Talents) + SumFunctionOnSet(e, Pools)
<1> DEFINE People == Talents \cup Pools
<1>1. /\ IsFiniteSet(Talents) /\ IsFiniteSet(Pools) /\ IsFiniteSet(People)
      /\ Talents \subseteq Accounts /\ Pools \subseteq Accounts
      /\ Owner \in Accounts /\ Platform \in Accounts
  BY FiniteAssumption, FS_Union DEF Accounts
<1>2. /\ SumFunctionOnSet(e, Talents) \in Int
      /\ SumFunctionOnSet(e, Pools) \in Int
  BY <1>1, SumRemove
<1>3. SumFunctionOnSet(e, Accounts) = e[Owner] + SumFunctionOnSet(e, Accounts \ {Owner})
  BY <1>1, FiniteAccounts, SumRemove
<1>4. SumFunctionOnSet(e, Accounts \ {Owner})
        = e[Platform] + SumFunctionOnSet(e, (Accounts \ {Owner}) \ {Platform})
  <2>1. Platform \in Accounts \ {Owner}
    BY <1>1, DistinctAssumption
  <2>2. IsFiniteSet(Accounts \ {Owner}) /\ \A x \in Accounts \ {Owner} : e[x] \in Int
    BY FiniteAccounts, FS_Subset
  <2> QED BY <2>1, <2>2, SumRemove
<1>5. (Accounts \ {Owner}) \ {Platform} = People
  BY DistinctAssumption DEF Accounts
<1>6. SumFunctionOnSet(e, People) = SumFunctionOnSet(e, Talents) + SumFunctionOnSet(e, Pools)
  <2>1. Talents \cap Pools = {} /\ \A x \in Talents \cup Pools : e[x] \in Int
    BY <1>1, DistinctAssumption
  <2> QED BY <1>1, <2>1, SumUnion
<1>7. e[Owner] \in Int /\ e[Platform] \in Int
  BY <1>1
<1>8. SumFunctionOnSet(e, Accounts \ {Owner})
        = e[Platform] + (SumFunctionOnSet(e, Talents) + SumFunctionOnSet(e, Pools))
  BY <1>4, <1>5, <1>6
<1>9. SumFunctionOnSet(e, Accounts) =
        e[Owner] + e[Platform] + SumFunctionOnSet(e, Talents) + SumFunctionOnSet(e, Pools)
  BY <1>2, <1>3, <1>7, <1>8
<1> QED BY <1>2, <1>9

(* A posting changes each total of the balances by the total of its entries. *)
LEMMA Posting ==
  ASSUME TypeOK, NEW t \in Txns, NEW e \in [Accounts -> Int], PostEntries(t, e)
  PROVE  /\ SumFunction(balance') = SumFunction(balance) + SumFunctionOnSet(e, Accounts)
         /\ SumFunctionOnSet(balance', Pools)
              = SumFunctionOnSet(balance, Pools) + SumFunctionOnSet(e, Pools)
         /\ balance'[Platform] = balance[Platform] + e[Platform]
<1>1. /\ balance \in [Accounts -> Int]
      /\ balance' = [a \in Accounts |-> balance[a] + e[a]]
  BY DEF TypeOK, PostEntries
<1>2. \A a \in Accounts : balance[a] \in Int /\ e[a] \in Int /\ balance'[a] = balance[a] + e[a]
  BY <1>1
<1>3. SumFunctionOnSet(balance', Accounts)
        = SumFunctionOnSet(balance, Accounts) + SumFunctionOnSet(e, Accounts)
  BY <1>2, FiniteAccounts, SumPlus
<1>4. Pools \subseteq Accounts /\ Platform \in Accounts
  BY DEF Accounts
<1>5. SumFunctionOnSet(balance', Pools)
        = SumFunctionOnSet(balance, Pools) + SumFunctionOnSet(e, Pools)
  BY <1>2, <1>4, FiniteAssumption, SumPlus
<1>6. DOMAIN balance = Accounts /\ DOMAIN balance' = Accounts
  BY <1>1
<1> QED BY <1>2, <1>3, <1>4, <1>5, <1>6 DEF SumFunction

(* A deposit is a balanced posting that adds its price to the pools; a     *)
(* document is one that adds it to the platform's revenue.                 *)
LEMMA FundingSums ==
  ASSUME NEW o \in Orders
  PROVE  /\ SumFunctionOnSet(FundingEntries(o), Accounts) = 0
         /\ SumFunctionOnSet(FundingEntries(o), Pools)
              = IF OrderKind[o] = "escrow_in" THEN Price[o] ELSE 0
         /\ FundingEntries(o)[Platform] = IF OrderKind[o] = "escrow_in" THEN 0 ELSE Price[o]
<1> DEFINE e == FundingEntries(o)
<1>1. e \in [Accounts -> Int]
  BY EntriesType
<1>2. /\ e[Owner] = -Price[o]
      /\ e[Platform] = IF OrderKind[o] = "escrow_in" THEN 0 ELSE Price[o]
      /\ \A t \in Talents : e[t] = 0
      /\ \A p \in Pools : e[p] = IF OrderKind[o] = "escrow_in" THEN Share[o][p] ELSE 0
  BY DistinctAssumption DEF FundingEntries, Accounts
<1>3. Share[o] \in [Pools -> Nat] /\ Price[o] \in Nat
  BY OrdersAssumption
<1> HIDE DEF e
<1>4. SumFunctionOnSet(e, Talents) = 0
  BY <1>2, FiniteAssumption, SumZero
<1>5. SumFunctionOnSet(e, Pools) = IF OrderKind[o] = "escrow_in" THEN Price[o] ELSE 0
  <2>1. CASE OrderKind[o] = "escrow_in"
    <3>1. SumFunctionOnSet(e, Pools) = SumFunctionOnSet(Share[o], Pools)
      <4>1. \A p \in Pools : Share[o][p] \in Int /\ Share[o][p] = e[p]
        BY <1>2, <1>3, <2>1
      <4>2. SumFunctionOnSet(Share[o], Pools) = SumFunctionOnSet(e, Pools)
        BY <4>1, FiniteAssumption, SumSame
      <4> QED BY <4>2
    <3>2. DOMAIN Share[o] = Pools
      BY <1>3
    <3>3. SumFunctionOnSet(Share[o], Pools) = Price[o]
      BY <2>1, <3>2, SharesAssumption DEF SumFunction
    <3> QED BY <2>1, <3>1, <3>3
  <2>2. CASE OrderKind[o] # "escrow_in"
    <3>1. SumFunctionOnSet(e, Pools) = 0
      BY <1>2, <2>2, FiniteAssumption, SumZero
    <3> QED BY <2>2, <3>1
  <2> QED BY <2>1, <2>2
<1>6. SumFunctionOnSet(e, Accounts) = 0
  BY <1>1, <1>2, <1>3, <1>4, <1>5, AccountsSum
<1> QED BY <1>2, <1>5, <1>6 DEF e

(* A release is a balanced posting that takes the gross amount from the    *)
(* pools and leaves the fee with the platform.                             *)
LEMMA ReleaseSums ==
  ASSUME NEW m \in Milestones
  PROVE  /\ SumFunctionOnSet(ReleaseEntries(m), Accounts) = 0
         /\ SumFunctionOnSet(ReleaseEntries(m), Pools) = -MilestoneAmount[m]
         /\ ReleaseEntries(m)[Platform] = ReleaseFee[m]
<1> DEFINE e == ReleaseEntries(m)
           talent == TalentOf[m]
           pool == PoolOf[m]
<1>1. e \in [Accounts -> Int]
  BY EntriesType
<1>2. /\ talent \in Talents /\ pool \in Pools
      /\ MilestoneAmount[m] \in Nat /\ ReleaseFee[m] \in Nat
  BY MilestonesAssumption
<1>3. /\ e[Owner] = 0 /\ e[Platform] = ReleaseFee[m]
      /\ e[talent] = MilestoneAmount[m] - ReleaseFee[m]
      /\ \A t \in Talents \ {talent} : e[t] = 0
      /\ e[pool] = -MilestoneAmount[m]
      /\ \A p \in Pools \ {pool} : e[p] = 0
  BY <1>2, DistinctAssumption DEF ReleaseEntries, Accounts
<1> HIDE DEF e
<1>4. SumFunctionOnSet(e, Talents) = e[talent]
  BY <1>2, <1>3, FiniteAssumption, SumAlone
<1>5. SumFunctionOnSet(e, Pools) = e[pool]
  BY <1>2, <1>3, FiniteAssumption, SumAlone
<1>6. SumFunctionOnSet(e, Accounts) = 0
  BY <1>1, <1>2, <1>3, <1>4, <1>5, AccountsSum
<1> QED BY <1>3, <1>5, <1>6 DEF e

(* A refund is a balanced posting that takes its amount from the pools.    *)
LEMMA RefundSums ==
  ASSUME NEW amount \in Nat, NEW draw \in [Pools -> 0..amount],
         SumFunctionOnSet(draw, Pools) = amount
  PROVE  /\ SumFunctionOnSet(RefundEntries(amount, draw), Accounts) = 0
         /\ SumFunctionOnSet(RefundEntries(amount, draw), Pools) = -amount
         /\ RefundEntries(amount, draw)[Platform] = 0
<1> DEFINE e == RefundEntries(amount, draw)
<1>1. e \in [Accounts -> Int]
  BY EntriesType
<1>2. /\ e[Owner] = amount /\ e[Platform] = 0
      /\ \A t \in Talents : e[t] = 0
      /\ \A p \in Pools : draw[p] \in Int /\ e[p] = -draw[p]
  BY DistinctAssumption DEF RefundEntries, Accounts
<1> HIDE DEF e
<1>3. SumFunctionOnSet(e, Talents) = 0
  BY <1>2, FiniteAssumption, SumZero
<1>4. SumFunctionOnSet(e, Pools) = -amount
  BY <1>2, FiniteAssumption, SumMinus
<1>5. SumFunctionOnSet(e, Accounts) = 0
  BY <1>1, <1>2, <1>3, <1>4, AccountsSum
<1> QED BY <1>2, <1>4, <1>5 DEF e

-----------------------------------------------------------------------------
(* The books.  BooksBalance relates five totals to the balances; a posting *)
(* changes the balances by the totals of its entries, so each action needs *)
(* the totals of what it posts and what it adds to the five.               *)

BookedOrders == {o \in Orders : outbox[o]["settled"] > outbox[o]["refunded"]}
BookedDeposits == {o \in BookedOrders : OrderKind[o] = "escrow_in"}
BookedDocuments == {o \in BookedOrders : OrderKind[o] # "escrow_in"}

Deposited == SumFunctionOnSet(Price, BookedDeposits)
Revenue == SumFunctionOnSet(Price, BookedDocuments)
Earned == [m \in Milestones |-> Moves(m) * ReleaseFee[m]]
Released == [m \in Milestones |-> Moves(m) * MilestoneAmount[m]]
Returned == [k \in RefundKeys |-> posted[k][Owner]]
Fees == SumFunctionOnSet(Earned, Milestones)
Paid == SumFunctionOnSet(Released, Milestones)
GivenBack == SumFunctionOnSet(Returned, RefundKeys)

BooksAddUp ==
  /\ SumFunction(balance) = 0
  /\ balance[Platform] = Revenue + Fees
  /\ SumFunctionOnSet(balance, Pools) = Deposited - Paid - GivenBack

(* BooksBalance, in the vocabulary of the proof.                           *)
LEMMA BooksParts == BooksAddUp /\ LedgerAgrees => BooksBalance
<1>1. /\ BookedDeposits = {o \in Orders : OrderKind[o] = "escrow_in"
                                  /\ outbox[o]["settled"] > outbox[o]["refunded"]}
      /\ BookedDocuments = {o \in Orders : OrderKind[o] # "escrow_in"
                                     /\ outbox[o]["settled"] > outbox[o]["refunded"]}
  BY DEF BookedDeposits, BookedDocuments, BookedOrders
<1> QED BY <1>1 DEF BooksBalance, BooksAddUp, Deposited, Revenue, Fees, Paid, GivenBack,
                    Earned, Released, Returned, SumFunction

(* Every term of the three totals over keys is an integer.                 *)
LEMMA TermsType ==
  ASSUME TypeOK
  PROVE  /\ \A m \in Milestones : Earned[m] \in Int /\ Released[m] \in Int
         /\ \A k \in RefundKeys : Returned[k] \in Int
<1>1. \A m \in Milestones :
        Moves(m) \in Nat /\ ReleaseFee[m] \in Nat /\ MilestoneAmount[m] \in Nat
  BY MovesType, MilestonesAssumption DEF Keys
<1>2. \A k \in RefundKeys : posted[k][Owner] \in Int
  BY DEF TypeOK, Txns, Accounts
<1> QED BY <1>1, <1>2 DEF Earned, Released, Returned

(* Every total the books relate is an integer.                             *)
LEMMA SumsAreIntegers ==
  ASSUME TypeOK
  PROVE  /\ Deposited \in Int /\ Revenue \in Int /\ Fees \in Int /\ Paid \in Int
         /\ GivenBack \in Int
         /\ balance[Platform] \in Int /\ SumFunction(balance) \in Int
         /\ SumFunctionOnSet(balance, Pools) \in Int
<1>1. IsFiniteSet(BookedDeposits) /\ IsFiniteSet(BookedDocuments)
  <2>1. BookedDeposits \subseteq Orders /\ BookedDocuments \subseteq Orders
    BY DEF BookedDeposits, BookedDocuments, BookedOrders
  <2> QED BY <2>1, FiniteAssumption, FS_Subset
<1>2. /\ \A o \in BookedDeposits : Price[o] \in Int
      /\ \A o \in BookedDocuments : Price[o] \in Int
  BY OrdersAssumption DEF BookedDeposits, BookedDocuments, BookedOrders
<1>7. /\ \A m \in Milestones : Earned[m] \in Int /\ Released[m] \in Int
      /\ \A k \in RefundKeys : Returned[k] \in Int
  BY TermsType
<1>3. /\ \A a \in Accounts : balance[a] \in Int
      /\ Pools \subseteq Accounts /\ Platform \in Accounts /\ DOMAIN balance = Accounts
  BY DEF TypeOK, Accounts
<1>4. SumFunction(balance) \in Int
  BY <1>3, FiniteAccounts, SumRemove DEF SumFunction
<1>5. SumFunctionOnSet(balance, Pools) \in Int
  BY <1>3, FiniteAssumption, SumRemove
<1>6. Deposited \in Int /\ Revenue \in Int /\ Fees \in Int /\ Paid \in Int /\ GivenBack \in Int
  BY <1>1, <1>2, <1>7, FiniteAssumption, SumRemove DEF Deposited, Revenue, Fees, Paid, GivenBack
<1> QED BY <1>3, <1>4, <1>5, <1>6

(* A booking enters or leaves one of the two sums over orders.             *)
LEMMA OrderBooked ==
  ASSUME TypeOK, NEW o \in Orders, o \notin BookedOrders, BookedOrders' = BookedOrders \cup {o}
  PROVE  /\ Deposited' = Deposited + (IF OrderKind[o] = "escrow_in" THEN Price[o] ELSE 0)
         /\ Revenue' = Revenue + (IF OrderKind[o] = "escrow_in" THEN 0 ELSE Price[o])
<1>1. IsFiniteSet(BookedDeposits) /\ IsFiniteSet(BookedDocuments)
  <2>1. BookedDeposits \subseteq Orders /\ BookedDocuments \subseteq Orders
    BY DEF BookedDeposits, BookedDocuments, BookedOrders
  <2> QED BY <2>1, FiniteAssumption, FS_Subset
<1>2. \A x \in Orders : Price[x] \in Int
  BY OrdersAssumption
<1>3. BookedDeposits \subseteq Orders /\ BookedDocuments \subseteq Orders
      /\ o \notin BookedDeposits /\ o \notin BookedDocuments
  BY DEF BookedDeposits, BookedDocuments, BookedOrders
<1>4. Deposited \in Int /\ Revenue \in Int
  BY SumsAreIntegers
<1>5. CASE OrderKind[o] = "escrow_in"
  <2>1. BookedDeposits' = BookedDeposits \cup {o} /\ BookedDocuments' = BookedDocuments
    BY <1>5 DEF BookedDeposits, BookedDocuments
  <2>2. SumFunctionOnSet(Price, BookedDeposits \cup {o}) =
            SumFunctionOnSet(Price, BookedDeposits) + Price[o]
    BY <1>1, <1>2, <1>3, SumAdd
  <2> QED BY <1>4, <1>5, <2>1, <2>2 DEF Deposited, Revenue
<1>6. CASE OrderKind[o] # "escrow_in"
  <2>1. BookedDeposits' = BookedDeposits /\ BookedDocuments' = BookedDocuments \cup {o}
    BY <1>6 DEF BookedDeposits, BookedDocuments
  <2>2. SumFunctionOnSet(Price, BookedDocuments \cup {o}) =
            SumFunctionOnSet(Price, BookedDocuments) + Price[o]
    BY <1>1, <1>2, <1>3, SumAdd
  <2> QED BY <1>4, <1>6, <2>1, <2>2 DEF Deposited, Revenue
<1> QED BY <1>5, <1>6

(* The reversal of a booking takes it back out.                            *)
LEMMA OrderUnbooked ==
  ASSUME TypeOK, NEW o \in BookedOrders, BookedOrders' = BookedOrders \ {o}
  PROVE  /\ Deposited' = Deposited - (IF OrderKind[o] = "escrow_in" THEN Price[o] ELSE 0)
         /\ Revenue' = Revenue - (IF OrderKind[o] = "escrow_in" THEN 0 ELSE Price[o])
<1>1. IsFiniteSet(BookedDeposits) /\ IsFiniteSet(BookedDocuments) /\ o \in Orders
  <2>1. BookedDeposits \subseteq Orders /\ BookedDocuments \subseteq Orders /\ o \in Orders
    BY DEF BookedDeposits, BookedDocuments, BookedOrders
  <2> QED BY <2>1, FiniteAssumption, FS_Subset
<1>2. \A x \in Orders : Price[x] \in Int
  BY OrdersAssumption
<1>3. /\ \A x \in BookedDeposits : Price[x] \in Int
      /\ \A x \in BookedDocuments : Price[x] \in Int
  BY <1>2 DEF BookedDeposits, BookedDocuments, BookedOrders
<1>4. Deposited \in Int /\ Revenue \in Int
  BY SumsAreIntegers
<1>5. CASE OrderKind[o] = "escrow_in"
  <2>1. o \in BookedDeposits /\ BookedDeposits' = BookedDeposits \ {o}
        /\ BookedDocuments' = BookedDocuments
    BY <1>5 DEF BookedDeposits, BookedDocuments
  <2>2. SumFunctionOnSet(Price, BookedDeposits) =
            Price[o] + SumFunctionOnSet(Price, BookedDeposits \ {o})
    BY <1>1, <1>3, <2>1, SumRemove
  <2>3. SumFunctionOnSet(Price, BookedDeposits \ {o}) \in Int
    BY <1>1, <1>3, FS_Subset, SumRemove
  <2> QED BY <1>1, <1>2, <1>4, <1>5, <2>1, <2>2, <2>3 DEF Deposited, Revenue
<1>6. CASE OrderKind[o] # "escrow_in"
  <2>1. o \in BookedDocuments /\ BookedDeposits' = BookedDeposits
        /\ BookedDocuments' = BookedDocuments \ {o}
    BY <1>6 DEF BookedDeposits, BookedDocuments
  <2>2. SumFunctionOnSet(Price, BookedDocuments) =
            Price[o] + SumFunctionOnSet(Price, BookedDocuments \ {o})
    BY <1>1, <1>3, <2>1, SumRemove
  <2>3. SumFunctionOnSet(Price, BookedDocuments \ {o}) \in Int
    BY <1>1, <1>3, FS_Subset, SumRemove
  <2> QED BY <1>1, <1>2, <1>4, <1>6, <2>1, <2>2, <2>3 DEF Deposited, Revenue
<1> QED BY <1>5, <1>6

(* A balanced posting that moves the pools and the revenue by what the step *)
(* completes keeps the books: webhook, release and refund are instances.   *)
LEMMA BooksPosted ==
  ASSUME TypeOK, NEW t \in Txns, NEW e \in [Accounts -> Int], PostEntries(t, e), BooksAddUp,
         SumFunctionOnSet(e, Accounts) = 0,
         Revenue' + Fees' = Revenue + Fees + e[Platform],
         Deposited' - Paid' - GivenBack'
           = Deposited - Paid - GivenBack + SumFunctionOnSet(e, Pools)
  PROVE  BooksAddUp'
<1>1. /\ SumFunction(balance) = 0
      /\ balance[Platform] = Revenue + Fees
      /\ SumFunctionOnSet(balance, Pools) = Deposited - Paid - GivenBack
  BY DEF BooksAddUp
<1>2. /\ SumFunction(balance') = SumFunction(balance) + SumFunctionOnSet(e, Accounts)
      /\ SumFunctionOnSet(balance', Pools)
           = SumFunctionOnSet(balance, Pools) + SumFunctionOnSet(e, Pools)
      /\ balance'[Platform] = balance[Platform] + e[Platform]
  BY Posting
<1> QED BY <1>1, <1>2 DEF BooksAddUp

(* A step that moves no money of an order or a key keeps the books.        *)
LEMMA BooksKept ==
  ASSUME BooksAddUp, balance' = balance, BookedOrders' = BookedOrders,
         \A k \in Keys : posted'[k] = posted[k] /\ Moves(k)' = Moves(k)
  PROVE  BooksAddUp'
<1>1. Earned' = Earned /\ Released' = Released /\ Returned' = Returned
  BY DEF Earned, Released, Returned, Keys
<1>2. /\ Deposited' = Deposited /\ Revenue' = Revenue
      /\ Fees' = Fees /\ Paid' = Paid /\ GivenBack' = GivenBack
  BY <1>1 DEF Deposited, Revenue, Fees, Paid, GivenBack, BookedDeposits, BookedDocuments
<1> QED BY <1>2 DEF BooksAddUp

(* One more release earns one more fee and pays one more gross amount.     *)
LEMMA MilestoneDone ==
  ASSUME TypeOK, NEW m \in Milestones, Moves(m)' = Moves(m) + 1,
         \A q \in Milestones \ {m} : Moves(q)' = Moves(q)
  PROVE  Fees' = Fees + ReleaseFee[m] /\ Paid' = Paid + MilestoneAmount[m]
<1> DEFINE earned == [q \in Milestones |-> Moves(q)' * ReleaseFee[q]]
           released == [q \in Milestones |-> Moves(q)' * MilestoneAmount[q]]
<1>1. Fees' = SumFunctionOnSet(earned, Milestones) /\ Paid' = SumFunctionOnSet(released, Milestones)
  BY DEF Fees, Paid, Earned, Released
<1>2. \A q \in Milestones :
        Moves(q) \in Nat /\ Moves(q)' \in Nat /\ ReleaseFee[q] \in Nat /\ MilestoneAmount[q] \in Nat
  BY MovesType, MilestonesAssumption DEF Keys
<1>3. \A n \in Nat, x \in Nat : n * x \in Int /\ (n + 1) * x = n * x + x
  OBVIOUS
<1>4. /\ \A q \in Milestones : Earned[q] \in Int /\ earned[q] \in Int
      /\ \A q \in Milestones \ {m} : Earned[q] = earned[q]
      /\ earned[m] = Earned[m] + ReleaseFee[m]
  BY <1>2, <1>3 DEF Earned
<1>5. /\ \A q \in Milestones : Released[q] \in Int /\ released[q] \in Int
      /\ \A q \in Milestones \ {m} : Released[q] = released[q]
      /\ released[m] = Released[m] + MilestoneAmount[m]
  BY <1>2, <1>3 DEF Released
<1> HIDE DEF earned, released
<1>6. /\ SumFunctionOnSet(earned, Milestones) = Fees - Earned[m] + earned[m]
      /\ SumFunctionOnSet(released, Milestones) = Paid - Released[m] + released[m]
  BY <1>4, <1>5, FiniteAssumption, SumChange DEF Fees, Paid
<1> QED BY <1>1, <1>2, <1>4, <1>5, <1>6, SumsAreIntegers

(* A refund that gives the owner an amount gives that much more back.      *)
LEMMA RefundDone ==
  ASSUME TypeOK, NEW k \in RefundKeys, NEW amount \in Nat,
         posted'[k][Owner] = posted[k][Owner] + amount,
         \A q \in RefundKeys \ {k} : posted'[q] = posted[q]
  PROVE  GivenBack' = GivenBack + amount
<1> DEFINE returned == [q \in RefundKeys |-> posted'[q][Owner]]
<1>1. GivenBack' = SumFunctionOnSet(returned, RefundKeys)
  BY DEF GivenBack, Returned
<1>2. \A q \in RefundKeys : posted[q][Owner] \in Int
  BY DEF TypeOK, Txns, Accounts
<1>3. /\ \A q \in RefundKeys : Returned[q] \in Int /\ returned[q] \in Int
      /\ \A q \in RefundKeys \ {k} : Returned[q] = returned[q]
      /\ returned[k] = Returned[k] + amount
  BY <1>2 DEF Returned
<1> HIDE DEF returned
<1>4. SumFunctionOnSet(returned, RefundKeys) = GivenBack - Returned[k] + returned[k]
  BY <1>3, FiniteAssumption, SumChange DEF GivenBack
<1> QED BY <1>1, <1>3, <1>4, SumsAreIntegers

MInv == IInv /\ BooksAddUp

(* Nothing is booked in the initial state.                                 *)
LEMMA InitMInv == Init => MInv
<1> SUFFICES ASSUME Init PROVE MInv
  OBVIOUS
<1>1. IInv
  BY InitIInv
<1>2. /\ BookedOrders = {} /\ balance = NoEntries
      /\ \A m \in Milestones : Moves(m) = 0
      /\ \A k \in RefundKeys : posted[k][Owner] = 0
  BY DEF Init, BookedOrders, Moves, Txns, EventKinds, NoEvents, NoEntries, Accounts
<1>3. BookedDeposits = {} /\ BookedDocuments = {}
  BY <1>2 DEF BookedDeposits, BookedDocuments
<1>4. /\ \A m \in Milestones : Earned[m] = 0 /\ Released[m] = 0
      /\ \A k \in RefundKeys : Returned[k] = 0
  BY <1>2, MilestonesAssumption DEF Earned, Released, Returned
<1>5. Deposited = 0 /\ Revenue = 0 /\ Fees = 0 /\ Paid = 0 /\ GivenBack = 0
  BY <1>3, <1>4, FiniteAssumption, SumEmpty, SumZero DEF Deposited, Revenue, Fees, Paid, GivenBack
<1>6. /\ \A a \in Accounts : balance[a] = 0
      /\ DOMAIN balance = Accounts /\ Pools \subseteq Accounts /\ Platform \in Accounts
  BY <1>2 DEF NoEntries, Accounts
<1>7. SumFunctionOnSet(balance, Accounts) = 0 /\ SumFunctionOnSet(balance, Pools) = 0
  BY <1>6, FiniteAccounts, FiniteAssumption, SumZero
<1>8. BooksAddUp
  BY <1>5, <1>6, <1>7 DEF BooksAddUp, SumFunction
<1> QED BY <1>1, <1>8 DEF MInv

(* applyMidtransTx keeps the books: a settlement adds one booking, a full  *)
(* refund reverses the one there is, anything else posts nothing.          *)
LEMMA WebhookBooks ==
  ASSUME MInv, IInv', NEW h \in Handlers, WebhookCommit(h)
  PROVE  BooksAddUp'
<1> USE DEF MInv
<1>t. TypeOK /\ TypeOK' /\ BookingAgrees
  BY DEF IInv
<1>d. \A q \in Orders : q \in Txns /\ q \notin Keys
  BY DistinctAssumption DEF Txns, Keys
<1> DEFINE o == job[h].order
           next == job[h].next
           e == WebhookEntries(o, next)
<1>1. o \in Orders /\ o \in Txns /\ next \in RowStatus
  BY <1>t, JobFields DEF WebhookCommit, WebhookApplies, TypeOK, Txns
<1>2. /\ status[o] # "refunded"
      /\ status[o] = "completed" => next = "refunded"
  BY SupersedesFinal DEF WebhookCommit, WebhookApplies
<1>3. /\ PostEntries(o, e) /\ status' = [status EXCEPT ![o] = next] /\ refundRow' = refundRow
      /\ next = "completed" => outbox' = [outbox EXCEPT ![o]["settled"] = @ + 1]
      /\ next = "refunded"  => outbox' = [outbox EXCEPT ![o]["refunded"] = @ + 1]
      /\ next \notin Settled => outbox' = outbox
  BY DEF WebhookCommit, Publish, Settled
<1>4. \A k \in Keys : posted'[k] = posted[k] /\ Moves(k)' = Moves(k)
  <2>1. \A k \in Keys : outbox'[k] = outbox[k] /\ posted'[k] = posted[k]
    BY <1>1, <1>3, <1>t, <1>d DEF PostEntries, TypeOK, Txns, Keys, Settled
  <2> QED BY <2>1 DEF Moves
<1>5. Fees' = Fees /\ Paid' = Paid /\ GivenBack' = GivenBack
  <2>1. Earned' = Earned /\ Released' = Released /\ Returned' = Returned
    BY <1>4 DEF Earned, Released, Returned, Keys
  <2> QED BY <2>1 DEF Fees, Paid, GivenBack
<1>6. \A q \in Orders : q # o => outbox'[q] = outbox[q]
  BY <1>t, <1>1, <1>3 DEF TypeOK, Txns, Settled
<1>7. outbox[o] \in [EventKinds -> Nat]
  BY <1>t, <1>1 DEF TypeOK
<1>8. e \in [Accounts -> Int]
  BY <1>1, <1>t, EntriesType DEF WebhookEntries
<1>9. /\ Deposited \in Int /\ Revenue \in Int /\ Fees \in Int /\ Paid \in Int /\ GivenBack \in Int
  BY <1>t, SumsAreIntegers
<1>p. Price[o] \in Int
  BY <1>1, OrdersAssumption
<1>10. CASE next = "completed"
  <2>1. outbox[o]["settled"] = 0 /\ outbox[o]["refunded"] = 0
    BY <1>t, <1>1, <1>2, <1>10 DEF BookingAgrees, Settled
  <2>2. outbox'[o]["settled"] = 1 /\ outbox'[o]["refunded"] = 0
    <3>1. outbox' = [outbox EXCEPT ![o]["settled"] = @ + 1]
      BY <1>3, <1>10
    <3> QED BY <1>t, <1>1, <1>7, <2>1, <3>1 DEF TypeOK, EventKinds
  <2>3. o \notin BookedOrders /\ BookedOrders' = BookedOrders \cup {o}
    BY <1>1, <1>6, <2>1, <2>2 DEF BookedOrders
  <2>4. /\ Deposited' = Deposited + (IF OrderKind[o] = "escrow_in" THEN Price[o] ELSE 0)
        /\ Revenue' = Revenue + (IF OrderKind[o] = "escrow_in" THEN 0 ELSE Price[o])
    BY <1>t, <1>1, <2>3, OrderBooked
  <2>5. e = FundingEntries(o)
    BY <1>10 DEF WebhookEntries
  <2>6. /\ SumFunctionOnSet(e, Accounts) = 0
        /\ SumFunctionOnSet(e, Pools) = IF OrderKind[o] = "escrow_in" THEN Price[o] ELSE 0
        /\ e[Platform] = IF OrderKind[o] = "escrow_in" THEN 0 ELSE Price[o]
    BY <1>1, <2>5, FundingSums
  <2> HIDE DEF e
  <2> QED BY <1>t, <1>1, <1>3, <1>5, <1>8, <1>9, <1>p, <2>4, <2>6, BooksPosted
<1>11. CASE next = "refunded"
  <2>1. outbox[o]["refunded"] = 0 /\ outbox[o]["settled"] \in 0..1
    BY <1>t, <1>1, <1>2, <1>7 DEF BookingAgrees, Settled, EventKinds
  <2>2. outbox'[o]["refunded"] = 1 /\ outbox'[o]["settled"] = outbox[o]["settled"]
    <3>1. outbox' = [outbox EXCEPT ![o]["refunded"] = @ + 1]
      BY <1>3, <1>11
    <3> QED BY <1>t, <1>1, <1>7, <2>1, <3>1 DEF TypeOK, EventKinds
  <2>3. BookedOrders' = BookedOrders \ {o} /\ (o \in BookedOrders <=> outbox[o]["settled"] > 0)
    BY <1>1, <1>6, <2>1, <2>2 DEF BookedOrders
  <2>4. posted[o] = IF outbox[o]["settled"] > 0 THEN FundingEntries(o) ELSE NoEntries
    BY <1>t, <1>1, <2>1 DEF BookingAgrees
  <2>5. e = ReversalEntries(o)
    BY <1>11 DEF WebhookEntries
  <2>6. CASE o \in BookedOrders
    <3> DEFINE f == FundingEntries(o)
    <3>1. f \in [Accounts -> Int] /\ \A a \in Accounts : f[a] \in Int /\ e[a] = -f[a]
      BY <1>1, <2>3, <2>4, <2>5, <2>6, EntriesType DEF ReversalEntries
    <3>2. /\ SumFunctionOnSet(f, Accounts) = 0
          /\ SumFunctionOnSet(f, Pools) = IF OrderKind[o] = "escrow_in" THEN Price[o] ELSE 0
          /\ f[Platform] = IF OrderKind[o] = "escrow_in" THEN 0 ELSE Price[o]
      BY <1>1, FundingSums
    <3>3. /\ Deposited' = Deposited - (IF OrderKind[o] = "escrow_in" THEN Price[o] ELSE 0)
          /\ Revenue' = Revenue - (IF OrderKind[o] = "escrow_in" THEN 0 ELSE Price[o])
      BY <1>t, <2>3, <2>6, OrderUnbooked
    <3> HIDE DEF e, f
    <3>4. /\ SumFunctionOnSet(e, Accounts) = 0 - SumFunctionOnSet(f, Accounts)
          /\ SumFunctionOnSet(e, Pools) = 0 - SumFunctionOnSet(f, Pools)
          /\ e[Platform] = -f[Platform]
      <4>1. Pools \subseteq Accounts /\ Platform \in Accounts
        BY DEF Accounts
      <4> QED BY <3>1, <4>1, FiniteAccounts, FiniteAssumption, SumMinus
    <3>5. /\ SumFunctionOnSet(e, Accounts) = 0
          /\ Revenue' + Fees' = Revenue + Fees + e[Platform]
          /\ Deposited' - Paid' - GivenBack'
               = Deposited - Paid - GivenBack + SumFunctionOnSet(e, Pools)
      <4> DEFINE escrow == OrderKind[o] = "escrow_in"
                 toPools == IF escrow THEN Price[o] ELSE 0
                 toPlatform == IF escrow THEN 0 ELSE Price[o]
      <4>1. toPools \in Int /\ toPlatform \in Int
        BY <1>p
      <4>2. /\ SumFunctionOnSet(f, Accounts) = 0 /\ SumFunctionOnSet(f, Pools) = toPools
            /\ f[Platform] = toPlatform
            /\ Deposited' = Deposited - toPools /\ Revenue' = Revenue - toPlatform
        BY <3>2, <3>3
      <4> HIDE DEF toPools, toPlatform
      <4>3. /\ SumFunctionOnSet(e, Accounts) = 0
            /\ SumFunctionOnSet(e, Pools) = -toPools
            /\ e[Platform] = -toPlatform
        BY <3>4, <4>1, <4>2
      <4> QED BY <1>5, <1>9, <4>1, <4>2, <4>3
    <3> QED BY <1>t, <1>1, <1>3, <1>8, <3>5, BooksPosted
  <2>7. CASE o \notin BookedOrders
    <3>1. BookedOrders' = BookedOrders
      BY <2>3, <2>7
    <3>2. posted[o] = NoEntries
      BY <2>3, <2>4, <2>7
    <3>3. balance' = balance
      BY <1>3, <1>t, <2>5, <3>2 DEF PostEntries, ReversalEntries, NoEntries, TypeOK
    <3> QED BY <1>4, <3>1, <3>3, BooksKept
  <2> QED BY <2>6, <2>7
<1>12. CASE next \notin Settled
  <2>1. BookedOrders' = BookedOrders
    BY <1>3, <1>12 DEF BookedOrders
  <2>2. balance' = balance
    BY <1>3, <1>t, <1>12 DEF PostEntries, WebhookEntries, NoEntries, TypeOK, Settled
  <2> QED BY <1>4, <2>1, <2>2, BooksKept
<1> QED BY <1>10, <1>11, <1>12 DEF Settled

(* The settling transaction of a release keeps the books.                  *)
LEMMA ReleaseBooks ==
  ASSUME MInv, NEW h \in Handlers, ReleaseSettle(h)
  PROVE  BooksAddUp'
<1> USE DEF MInv
<1>t. TypeOK
  BY DEF IInv
<1> PICK m \in Milestones :
      /\ m \in Txns /\ m \notin RefundKeys /\ m \notin Orders
      /\ PostEntries(m, ReleaseEntries(m))
      /\ \A t \in Txns \ {m} : posted'[t] = posted[t] /\ outbox'[t] = outbox[t]
      /\ Moves(m)' = Moves(m) + 1
  BY <1>t, ReleaseSettled
<1> DEFINE e == ReleaseEntries(m)
<1>1. \A q \in Milestones \ {m} : Moves(q)' = Moves(q)
  BY DEF Moves, Txns
<1>2. \A k \in RefundKeys : posted'[k] = posted[k]
  BY DEF Txns
<1>3. BookedOrders' = BookedOrders
  BY DEF BookedOrders, Txns
<1>5. Fees' = Fees + ReleaseFee[m] /\ Paid' = Paid + MilestoneAmount[m]
  BY <1>t, <1>1, MilestoneDone
<1>6. Deposited' = Deposited /\ Revenue' = Revenue /\ GivenBack' = GivenBack
  <2>1. Returned' = Returned
    BY <1>2 DEF Returned
  <2> QED BY <1>3, <2>1 DEF Deposited, Revenue, GivenBack, BookedDeposits, BookedDocuments
<1>7. /\ SumFunctionOnSet(e, Accounts) = 0
      /\ SumFunctionOnSet(e, Pools) = -MilestoneAmount[m]
      /\ e[Platform] = ReleaseFee[m]
      /\ e \in [Accounts -> Int]
  BY ReleaseSums, EntriesType
<1>8. /\ Deposited \in Int /\ Revenue \in Int /\ Fees \in Int /\ Paid \in Int /\ GivenBack \in Int
      /\ MilestoneAmount[m] \in Int /\ ReleaseFee[m] \in Int
  BY <1>t, SumsAreIntegers, MilestonesAssumption
<1> HIDE DEF e
<1>9. /\ Revenue' + Fees' = Revenue + Fees + e[Platform]
      /\ Deposited' - Paid' - GivenBack'
           = Deposited - Paid - GivenBack + SumFunctionOnSet(e, Pools)
  BY <1>5, <1>6, <1>7, <1>8
<1>10. PostEntries(m, e)
  BY DEF e
<1> QED BY <1>t, <1>7, <1>9, <1>10, BooksPosted

(* The settling transaction of a refund keeps the books.                   *)
LEMMA RefundBooks ==
  ASSUME MInv, NEW h \in Handlers, RefundSettle(h)
  PROVE  BooksAddUp'
<1> USE DEF MInv
<1>t. TypeOK
  BY DEF IInv
<1> PICK k \in RefundKeys, amount \in Nat, draw \in [Pools -> Nat] :
      /\ k \in Txns /\ k \notin Milestones /\ k \notin Orders
      /\ draw \in [Pools -> 0..amount]
      /\ IsDraw(draw, Pools, amount, balance, PoolId, RefundScope[k])
      /\ PostEntries(k, RefundEntries(amount, draw))
      /\ posted'[k][Owner] = posted[k][Owner] + amount
      /\ \A t \in Txns \ {k} : posted'[t] = posted[t] /\ outbox'[t] = outbox[t]
  BY <1>t, RefundSettledKey
<1> DEFINE e == RefundEntries(amount, draw)
<1>1. \A m \in Milestones : Moves(m)' = Moves(m)
  BY DEF Moves, Txns
<1>2. \A q \in RefundKeys \ {k} : posted'[q] = posted[q]
  BY DEF Txns
<1>3. BookedOrders' = BookedOrders
  BY DEF BookedOrders, Txns
<1>7. GivenBack' = GivenBack + amount
  BY <1>t, <1>2, RefundDone
<1>8. Deposited' = Deposited /\ Revenue' = Revenue /\ Fees' = Fees /\ Paid' = Paid
  <2>1. Earned' = Earned /\ Released' = Released
    BY <1>1 DEF Earned, Released
  <2> QED BY <1>3, <2>1 DEF Deposited, Revenue, Fees, Paid, BookedDeposits, BookedDocuments
<1>9. /\ SumFunctionOnSet(e, Accounts) = 0
      /\ SumFunctionOnSet(e, Pools) = -amount
      /\ e[Platform] = 0
      /\ e \in [Accounts -> Int]
  BY RefundSums, EntriesType DEF IsDraw
<1>10. /\ Deposited \in Int /\ Revenue \in Int /\ Fees \in Int /\ Paid \in Int /\ GivenBack \in Int
  BY <1>t, SumsAreIntegers
<1> HIDE DEF e
<1>11. /\ Revenue' + Fees' = Revenue + Fees + e[Platform]
       /\ Deposited' - Paid' - GivenBack'
            = Deposited - Paid - GivenBack + SumFunctionOnSet(e, Pools)
  BY <1>7, <1>8, <1>9, <1>10
<1>12. PostEntries(k, e)
  BY DEF e
<1> QED BY <1>t, <1>9, <1>11, <1>12, BooksPosted

(* Every step keeps the invariant of the books.                            *)
LEMMA NextMInv ==
  ASSUME MInv, IInv', [Next]_vars
  PROVE  MInv'
<1> USE DEF MInv
<1>t. TypeOK
  BY DEF IInv
<1>d. \A o \in Orders : o \in Txns /\ o \notin Keys
  BY DistinctAssumption DEF Txns, Keys
<1>k. ASSUME UNCHANGED <<balance, outbox, posted>> PROVE MInv'
  <2>1. BookedOrders' = BookedOrders /\ \A k \in Keys : Moves(k)' = Moves(k)
    BY <1>k DEF BookedOrders, Moves
  <2> QED BY <1>k, <2>1, BooksKept
<1>1. ASSUME NEW o \in Orders, CreateSnapToken(o) PROVE MInv'
  BY <1>1, <1>k DEF CreateSnapToken
<1>2. ASSUME NEW o \in Orders, Gateway(o) PROVE MInv'
  BY <1>2, <1>k, GatewayMoves DEF GatewayStep, books
<1>3. ASSUME NEW h \in Handlers, NEW o \in Orders, NEW n \in Notices, WebhookRead(h, o, n)
      PROVE  MInv'
  BY <1>3, <1>k DEF WebhookRead, books
<1>4. ASSUME NEW h \in Handlers, WebhookCommit(h) PROVE MInv'
  BY <1>4, WebhookBooks
<1>5. ASSUME NEW h \in Handlers, NEW m \in Milestones, ReleaseCreate(h, m) PROVE MInv'
  BY <1>5, <1>k DEF ReleaseCreate
<1>6. ASSUME NEW h \in Handlers, ReleaseSettle(h) PROVE MInv'
  BY <1>6, ReleaseBooks
<1>7. ASSUME NEW h \in Handlers, NEW k \in RefundKeys, NEW amount \in RefundAsks[k],
             RefundCreate(h, k, amount)
      PROVE  MInv'
  BY <1>7, <1>k DEF RefundCreate
<1>8. ASSUME NEW h \in Handlers, RefundSettle(h) PROVE MInv'
  BY <1>8, RefundBooks
<1>9. ASSUME NEW h \in Handlers, Retry(h) \/ Abandon(h) PROVE MInv'
  BY <1>9, <1>k DEF Retry, Abandon, books
<1>10. CASE UNCHANGED vars
  BY <1>10, <1>k DEF vars
<1> QED BY <1>1, <1>2, <1>3, <1>4, <1>5, <1>6, <1>7, <1>8, <1>9, <1>10 DEF Next

-----------------------------------------------------------------------------
(* What holds whoever presents the keys, and however often: the ledger     *)
(* cancels out, and the escrow covers what is paid from it.                *)

SettlesNothing == \A o \in Orders : outbox'[o]["settled"] = outbox[o]["settled"]

(* Every step posts nothing, or one kind of entries under one row.         *)
LEMMA Postings ==
  ASSUME IInv, [Next]_vars
  PROVE  \/ UNCHANGED <<posted, balance>> /\ SettlesNothing
         \/ \E o \in Orders :
              /\ PostEntries(o, FundingEntries(o))
              /\ \A q \in Orders : outbox'[q]["settled"] =
                   IF q = o THEN outbox[q]["settled"] + 1 ELSE outbox[q]["settled"]
         \/ \E o \in Orders : PostEntries(o, ReversalEntries(o)) /\ SettlesNothing
         \/ \E m \in Milestones :
              PostEntries(m, ReleaseEntries(m)) /\ ReleaseFunded(m) /\ SettlesNothing
         \/ \E k \in RefundKeys, amount \in Nat : \E draw \in [Pools -> 0..amount] :
              /\ IsDraw(draw, Pools, amount, balance, PoolId, RefundScope[k])
              /\ PostEntries(k, RefundEntries(amount, draw))
              /\ SettlesNothing
<1>t. TypeOK
  BY DEF IInv
<1>d. /\ \A o \in Orders : o \in Txns /\ o \notin Milestones \cup RefundKeys
      /\ \A o \in Orders : outbox[o] \in [EventKinds -> Nat]
      /\ "settled" \in EventKinds /\ "refunded" \in EventKinds /\ "settled" # "refunded"
  BY <1>t, DistinctAssumption DEF Txns, TypeOK, EventKinds
<1>k. UNCHANGED outbox => SettlesNothing
  BY DEF SettlesNothing
<1>1. ASSUME NEW o \in Orders, CreateSnapToken(o)
      PROVE  UNCHANGED <<posted, balance>> /\ SettlesNothing
  BY <1>1, <1>k DEF CreateSnapToken
<1>2. ASSUME NEW o \in Orders, Gateway(o) PROVE UNCHANGED <<posted, balance>> /\ SettlesNothing
  BY <1>2, <1>k, GatewayMoves DEF GatewayStep, books
<1>3. ASSUME NEW h \in Handlers, NEW o \in Orders, NEW n \in Notices, WebhookRead(h, o, n)
      PROVE  UNCHANGED <<posted, balance>> /\ SettlesNothing
  BY <1>3, <1>k DEF WebhookRead, books
<1>4. ASSUME NEW h \in Handlers, WebhookCommit(h)
      PROVE  \/ UNCHANGED <<posted, balance>> /\ SettlesNothing
             \/ \E o \in Orders :
                  /\ PostEntries(o, FundingEntries(o))
                  /\ \A q \in Orders : outbox'[q]["settled"] =
                       IF q = o THEN outbox[q]["settled"] + 1 ELSE outbox[q]["settled"]
             \/ \E o \in Orders : PostEntries(o, ReversalEntries(o)) /\ SettlesNothing
  <2> DEFINE o == job[h].order
             next == job[h].next
  <2>1. o \in Orders
    BY <1>4, <1>t, JobFields DEF WebhookCommit, WebhookApplies, TypeOK
  <2>2. /\ PostEntries(o, WebhookEntries(o, next))
        /\ next = "completed" => outbox' = [outbox EXCEPT ![o]["settled"] = @ + 1]
        /\ next = "refunded"  => outbox' = [outbox EXCEPT ![o]["refunded"] = @ + 1]
        /\ next \notin Settled => outbox' = outbox
    BY <1>4 DEF WebhookCommit, Publish, Settled
  <2> HIDE DEF o
  <2>3. CASE next = "completed"
    <3>1. outbox' = [outbox EXCEPT ![o]["settled"] = @ + 1]
      BY <2>2, <2>3
    <3>2. \A q \in Orders : outbox'[q]["settled"] =
             IF q = o THEN outbox[q]["settled"] + 1 ELSE outbox[q]["settled"]
      BY <1>t, <1>d, <2>1, <3>1 DEF TypeOK
    <3>3. PostEntries(o, FundingEntries(o))
      BY <2>2, <2>3 DEF WebhookEntries
    <3> QED BY <2>1, <3>2, <3>3
  <2>4. CASE next = "refunded"
    <3>1. outbox' = [outbox EXCEPT ![o]["refunded"] = @ + 1]
      BY <2>2, <2>4
    <3>2. SettlesNothing
      BY <1>t, <1>d, <2>1, <3>1 DEF TypeOK, SettlesNothing
    <3>3. PostEntries(o, ReversalEntries(o))
      BY <2>2, <2>4 DEF WebhookEntries
    <3> QED BY <2>1, <3>2, <3>3
  <2>5. CASE next \notin Settled
    <3>1. WebhookEntries(o, next) = NoEntries
      BY <2>5 DEF WebhookEntries, Settled
    <3>2. \A a \in Accounts : posted[o][a] + NoEntries[a] = posted[o][a]
                              /\ balance[a] + NoEntries[a] = balance[a]
      BY <1>t, <1>d, <2>1 DEF TypeOK, NoEntries
    <3>3. posted \in [Txns -> [Accounts -> Int]] /\ balance \in [Accounts -> Int]
      BY <1>t DEF TypeOK
    <3>4. [a \in Accounts |-> posted[o][a] + NoEntries[a]] = posted[o]
          /\ [a \in Accounts |-> balance[a] + NoEntries[a]] = balance
      BY <1>d, <2>1, <3>2, <3>3
    <3>5. posted' = posted /\ balance' = balance
      BY <1>d, <2>1, <2>2, <3>1, <3>3, <3>4 DEF PostEntries
    <3> QED BY <2>2, <2>5, <3>5, <1>k
  <2> QED BY <2>3, <2>4, <2>5 DEF Settled
<1>5. ASSUME NEW h \in Handlers, NEW m \in Milestones, ReleaseCreate(h, m)
      PROVE  UNCHANGED <<posted, balance>> /\ SettlesNothing
  BY <1>5, <1>k DEF ReleaseCreate
<1>6. ASSUME NEW h \in Handlers, ReleaseSettle(h)
      PROVE  \E m \in Milestones :
               PostEntries(m, ReleaseEntries(m)) /\ ReleaseFunded(m) /\ SettlesNothing
  <2> DEFINE m == job[h].milestone
  <2>1. m \in Milestones /\ m \notin Orders
    BY <1>6, <1>t, <1>d, JobFields DEF ReleaseSettle, ReleaseRuns, TypeOK
  <2>2. outbox' = [outbox EXCEPT ![m]["released"] = @ + 1]
    BY <1>6 DEF ReleaseSettle, Publish
  <2>3. SettlesNothing
    BY <1>t, <1>d, <2>1, <2>2 DEF TypeOK, SettlesNothing
  <2> QED BY <1>6, <2>1, <2>3 DEF ReleaseSettle
<1>7. ASSUME NEW h \in Handlers, NEW k \in RefundKeys, NEW amount \in RefundAsks[k],
             RefundCreate(h, k, amount)
      PROVE  UNCHANGED <<posted, balance>> /\ SettlesNothing
  BY <1>7, <1>k DEF RefundCreate
<1>8. ASSUME NEW h \in Handlers, RefundSettle(h)
      PROVE  \E k \in RefundKeys, amount \in Nat : \E draw \in [Pools -> 0..amount] :
               /\ IsDraw(draw, Pools, amount, balance, PoolId, RefundScope[k])
               /\ PostEntries(k, RefundEntries(amount, draw))
               /\ SettlesNothing
  <2> DEFINE k == job[h].key
             amount == job[h].amount
  <2>1. k \in RefundKeys /\ k \notin Orders /\ amount \in Nat
    BY <1>8, <1>t, <1>d, JobFields DEF RefundSettle, RefundRuns, TypeOK
  <2>2. \A o \in Orders : outbox'[o] = outbox[o]
    BY <1>8, <1>t, <1>d, <2>1 DEF RefundSettle, Publish, TypeOK
  <2>3. SettlesNothing
    BY <2>2 DEF SettlesNothing
  <2>4. \E draw \in [Pools -> 0..amount] :
          /\ IsDraw(draw, Pools, amount, balance, PoolId, RefundScope[k])
          /\ PostEntries(k, RefundEntries(amount, draw))
    BY <1>8 DEF RefundSettle
  <2> QED BY <2>1, <2>3, <2>4
<1>9. ASSUME NEW h \in Handlers, Retry(h) \/ Abandon(h)
      PROVE  UNCHANGED <<posted, balance>> /\ SettlesNothing
  BY <1>9, <1>k DEF Retry, Abandon, books
<1>10. CASE UNCHANGED vars
  BY <1>10, <1>k DEF vars
<1> QED BY <1>1, <1>2, <1>3, <1>4, <1>5, <1>6, <1>7, <1>8, <1>9, <1>10 DEF Next

(* The entries that undo an order cancel out and take from every pool.     *)
LEMMA ReversalSums ==
  ASSUME IInv, NEW o \in Orders
  PROVE  /\ ReversalEntries(o) \in [Accounts -> Int]
         /\ SumFunctionOnSet(ReversalEntries(o), Accounts) = 0
         /\ \A p \in Pools : ReversalEntries(o)[p] <= 0
<1> DEFINE e == ReversalEntries(o)
           f == posted[o]
<1>1. f = FundingEntries(o) \/ f = NoEntries
  BY DEF IInv, BookingAgrees
<1>2. f \in [Accounts -> Int] /\ e \in [Accounts -> Int] /\ \A a \in Accounts : e[a] = -f[a]
  BY EntriesType DEF IInv, TypeOK, Txns, ReversalEntries
<1>3. SumFunctionOnSet(f, Accounts) = 0
  <2>1. CASE f = FundingEntries(o)
    BY <2>1, FundingSums
  <2>2. CASE f = NoEntries
    <3>1. \A a \in Accounts : f[a] = 0
      BY <2>2 DEF NoEntries
    <3> HIDE DEF f
    <3> QED BY <3>1, FiniteAccounts, SumZero
  <2> QED BY <1>1, <2>1, <2>2
<1>4. \A p \in Pools : f[p] >= 0
  <2>1. Share[o] \in [Pools -> Nat] /\ Price[o] \in Nat
    BY OrdersAssumption
  <2> QED BY <1>1, <2>1, DistinctAssumption DEF FundingEntries, NoEntries, Accounts
<1> HIDE DEF e, f
<1>5. SumFunctionOnSet(e, Accounts) = 0
  <2>1. \A a \in Accounts : f[a] \in Int /\ e[a] = -f[a]
    BY <1>2
  <2>2. SumFunctionOnSet(e, Accounts) = 0 - SumFunctionOnSet(f, Accounts)
    BY <2>1, FiniteAccounts, SumMinus
  <2> QED BY <1>3, <2>2
<1>6. \A p \in Pools : e[p] <= 0
  <2>1. \A p \in Pools : p \in Accounts
    BY DEF Accounts
  <2> QED BY <1>2, <1>4, <2>1
<1> QED BY <1>2, <1>5, <1>6 DEF e

(* There are finitely many rows.                                           *)
LEMMA FiniteTxns == IsFiniteSet(Txns)
BY FiniteAssumption, FS_Union DEF Txns

(* A balanced posting keeps the ledger in agreement with the balances.     *)
LEMMA LedgerPosted ==
  ASSUME TypeOK, LedgerAgrees, NEW t \in Txns, NEW e \in [Accounts -> Int], PostEntries(t, e),
         SumFunctionOnSet(e, Accounts) = 0
  PROVE  LedgerAgrees'
<1>1. SumFunction(balance') = 0
  BY Posting DEF LedgerAgrees
<1>2. ASSUME NEW a \in Accounts
      PROVE  balance'[a] = SumFunctionOnSet([x \in Txns |-> posted'[x][a]], Txns)
  <2> DEFINE f == [x \in Txns |-> posted[x][a]]
             g == [x \in Txns |-> posted'[x][a]]
  <2>1. /\ posted \in [Txns -> [Accounts -> Int]] /\ balance \in [Accounts -> Int]
        /\ posted' = [posted EXCEPT ![t] = [b \in Accounts |-> posted[t][b] + e[b]]]
        /\ balance' = [b \in Accounts |-> balance[b] + e[b]]
    BY DEF TypeOK, PostEntries
  <2>2. /\ \A x \in Txns : f[x] \in Int /\ g[x] \in Int
        /\ \A x \in Txns \ {t} : f[x] = g[x]
        /\ g[t] = f[t] + e[a] /\ e[a] \in Int
    BY <2>1
  <2>3. balance[a] = SumFunctionOnSet(f, Txns) /\ balance'[a] = balance[a] + e[a]
    BY <2>1 DEF LedgerAgrees
  <2> HIDE DEF f, g
  <2>4. SumFunctionOnSet(g, Txns) = SumFunctionOnSet(f, Txns) - f[t] + g[t]
    BY <2>2, FiniteTxns, SumChange
  <2>5. SumFunctionOnSet(f, Txns) \in Int
    BY <2>2, FiniteTxns, SumRemove
  <2>6. SumFunctionOnSet(g, Txns) = balance'[a]
    BY <2>2, <2>3, <2>4, <2>5
  <2> QED BY <2>6 DEF g
<1> QED BY <1>1, <1>2 DEF LedgerAgrees

(* Double entry: whatever callers interleave, repeat and crash, the        *)
(* accounts cancel out and each balance is the sum of its ledger entries.  *)
THEOREM LedgerAlwaysAgrees == Spec => []LedgerAgrees
<1>1. Init => LedgerAgrees
  <2> SUFFICES ASSUME Init PROVE LedgerAgrees
    OBVIOUS
  <2>1. /\ \A a \in Accounts : balance[a] = 0
        /\ DOMAIN balance = Accounts
        /\ \A x \in Txns, a \in Accounts : posted[x][a] = 0
    BY DEF Init, NoEntries
  <2>2. SumFunction(balance) = 0
    BY <2>1, FiniteAccounts, SumZero DEF SumFunction
  <2>3. ASSUME NEW a \in Accounts
        PROVE  SumFunctionOnSet([x \in Txns |-> posted[x][a]], Txns) = 0
    <3> DEFINE f == [x \in Txns |-> posted[x][a]]
    <3>1. \A x \in Txns : f[x] = 0
      BY <2>1
    <3> HIDE DEF f
    <3>2. SumFunctionOnSet(f, Txns) = 0
      BY <3>1, FiniteTxns, SumZero
    <3> QED BY <3>2 DEF f
  <2> QED BY <2>1, <2>2, <2>3 DEF LedgerAgrees
<1>2. IInv /\ LedgerAgrees /\ [Next]_vars => LedgerAgrees'
  <2> SUFFICES ASSUME IInv, LedgerAgrees, [Next]_vars PROVE LedgerAgrees'
    OBVIOUS
  <2>t. TypeOK
    BY DEF IInv
  <2>d. Orders \subseteq Txns /\ Milestones \subseteq Txns /\ RefundKeys \subseteq Txns
    BY DEF Txns
  <2>1. CASE UNCHANGED <<posted, balance>> /\ SettlesNothing
    BY <2>1 DEF LedgerAgrees
  <2>2. ASSUME NEW o \in Orders, PostEntries(o, FundingEntries(o)) PROVE LedgerAgrees'
    BY <2>2, <2>t, <2>d, EntriesType, FundingSums, LedgerPosted
  <2>3. ASSUME NEW o \in Orders, PostEntries(o, ReversalEntries(o)) PROVE LedgerAgrees'
    BY <2>3, <2>t, <2>d, ReversalSums, LedgerPosted
  <2>4. ASSUME NEW m \in Milestones, PostEntries(m, ReleaseEntries(m)) PROVE LedgerAgrees'
    BY <2>4, <2>t, <2>d, EntriesType, ReleaseSums, LedgerPosted
  <2>5. ASSUME NEW k \in RefundKeys, NEW amount \in Nat, NEW draw \in [Pools -> 0..amount],
               IsDraw(draw, Pools, amount, balance, PoolId, RefundScope[k]),
               PostEntries(k, RefundEntries(amount, draw))
        PROVE  LedgerAgrees'
    <3>1. SumFunctionOnSet(draw, Pools) = amount
      BY <2>5 DEF IsDraw
    <3>2. SumFunctionOnSet(RefundEntries(amount, draw), Accounts) = 0
      BY <3>1, RefundSums
    <3> QED BY <2>5, <2>t, <2>d, <3>2, EntriesType, LedgerPosted
  <2> QED BY <2>1, <2>2, <2>3, <2>4, <2>5, Postings
<1> QED BY <1>1, <1>2, InvHolds, PTL DEF Spec

(* The ledger sums to zero, the platform holds the documents sold and a    *)
(* fee for every release, and the pools hold the deposits less what was    *)
(* released and given back: of every state, every split, every amount and  *)
(* every interleaving of webhook, release and refund handlers, those that  *)
(* share a key or resume it with another amount included.                  *)
THEOREM BooksAlwaysBalance == Spec => []BooksBalance
<1>1. Init => MInv
  BY InitMInv
<1>2. MInv /\ IInv' /\ [Next]_vars => MInv'
  BY NextMInv
<1>3. MInv /\ LedgerAgrees => BooksBalance
  BY BooksParts DEF MInv
<1> QED BY <1>1, <1>2, <1>3, InvHolds, LedgerAlwaysAgrees, PTL DEF Spec

(* What the pools still hold, what each payment took out of them, and what *)
(* the deposits announced as settled put in.                               *)
Kept == [p \in Pools |-> NonNeg(balance[p])]
Payments == Milestones \cup RefundKeys
Outlays == [t \in Payments |-> -SumFunctionOnSet(posted[t], Pools)]
Funding ==
  [o \in Orders |-> IF OrderKind[o] = "escrow_in" THEN outbox[o]["settled"] * Price[o] ELSE 0]

(* EscrowCoversPayments is not inductive: a payment is covered because the *)
(* pools it draws on hold it.                                              *)
Covered ==
  SumFunctionOnSet(Kept, Pools) + SumFunctionOnSet(Outlays, Payments)
    <= SumFunctionOnSet(Funding, Orders)

(* The three totals are integers, and there are finitely many payments.    *)
LEMMA CoverType ==
  ASSUME TypeOK
  PROVE  /\ \A p \in Pools : Kept[p] \in Int /\ Kept[p] >= 0 /\ Kept[p] = NonNeg(balance[p])
         /\ \A t \in Payments : Outlays[t] \in Int
         /\ \A o \in Orders : Funding[o] \in Int
         /\ SumFunctionOnSet(Kept, Pools) \in Int
         /\ SumFunctionOnSet(Outlays, Payments) \in Int
         /\ SumFunctionOnSet(Funding, Orders) \in Int
         /\ IsFiniteSet(Payments)
<1>1. \A p \in Pools : Kept[p] \in Int /\ Kept[p] >= 0 /\ Kept[p] = NonNeg(balance[p])
  BY DEF TypeOK, Kept, Accounts, NonNeg
<1>2. \A t \in Payments : Outlays[t] \in Int
  <2> TAKE t \in Payments
  <2>1. \A p \in Pools : posted[t][p] \in Int
    BY DEF TypeOK, Payments, Txns, Accounts
  <2>2. SumFunctionOnSet(posted[t], Pools) \in Int
    BY <2>1, FiniteAssumption, SumRemove
  <2> QED BY <2>2 DEF Outlays
<1>3. \A o \in Orders : Funding[o] \in Int
  <2> TAKE o \in Orders
  <2>1. outbox[o]["settled"] \in Int /\ Price[o] \in Int
    BY OrdersAssumption DEF TypeOK, Txns, EventKinds
  <2>2. outbox[o]["settled"] * Price[o] \in Int
    BY <2>1
  <2> QED BY <2>2 DEF Funding
<1>4. IsFiniteSet(Payments)
  BY FiniteAssumption, FS_Union DEF Payments
<1> QED BY <1>1, <1>2, <1>3, <1>4, FiniteAssumption, SumRemove

(* So they are after the step.                                             *)
LEMMA CoverTypeNext ==
  ASSUME TypeOK'
  PROVE  /\ \A p \in Pools : Kept'[p] \in Int
         /\ \A t \in Payments : Outlays'[t] \in Int
         /\ \A o \in Orders : Funding'[o] \in Int
         /\ SumFunctionOnSet(Kept', Pools) \in Int
<1>1. \A p \in Pools : Kept'[p] \in Int
  BY DEF TypeOK, Kept, Accounts, NonNeg
<1>2. \A t \in Payments : Outlays'[t] \in Int
  <2> TAKE t \in Payments
  <2>1. \A p \in Pools : posted'[t][p] \in Int
    BY DEF TypeOK, Payments, Txns, Accounts
  <2>2. SumFunctionOnSet(posted'[t], Pools) \in Int
    BY <2>1, FiniteAssumption, SumRemove
  <2> QED BY <2>2 DEF Outlays
<1>3. \A o \in Orders : Funding'[o] \in Int
  <2> TAKE o \in Orders
  <2>1. outbox'[o]["settled"] \in Int /\ Price[o] \in Int
    BY OrdersAssumption DEF TypeOK, Txns, EventKinds
  <2>2. outbox'[o]["settled"] * Price[o] \in Int
    BY <2>1
  <2> QED BY <2>2 DEF Funding
<1> QED BY <1>1, <1>2, <1>3, FiniteAssumption, SumRemove

(* An order's posting takes nothing out of what the payments took.         *)
LEMMA OrderPaysNothing ==
  ASSUME NEW o \in Orders, NEW e, PostEntries(o, e), TypeOK
  PROVE  Outlays' = Outlays
<1>1. \A t \in Payments : posted'[t] = posted[t]
  BY DistinctAssumption DEF PostEntries, TypeOK, Txns, Payments
<1> QED BY <1>1 DEF Outlays

(* No settlement announced, nothing added to the funding.                  *)
LEMMA NothingFunded == SettlesNothing => Funding' = Funding
BY DEF SettlesNothing, Funding

(* A deposit adds to the pools no more than it announces.                  *)
LEMMA FundingKeepsCover ==
  ASSUME TypeOK, TypeOK', Covered, NEW o \in Orders, PostEntries(o, FundingEntries(o)),
         \A q \in Orders : outbox'[q]["settled"] =
           IF q = o THEN outbox[q]["settled"] + 1 ELSE outbox[q]["settled"]
  PROVE  Covered'
<1> DEFINE e == FundingEntries(o)
           gain == IF OrderKind[o] = "escrow_in" THEN Price[o] ELSE 0
           more == [p \in Pools |-> NonNeg(balance[p]) + e[p]]
<1>1. e \in [Accounts -> Int] /\ SumFunctionOnSet(e, Pools) = gain /\ gain \in Int
  BY EntriesType, FundingSums, OrdersAssumption
<1>2. \A p \in Pools : e[p] >= 0
  BY OrdersAssumption, DistinctAssumption DEF FundingEntries, Accounts
<1>3. /\ balance \in [Accounts -> Int] /\ Pools \subseteq Accounts
      /\ balance' = [a \in Accounts |-> balance[a] + e[a]]
  BY DEF TypeOK, PostEntries, Accounts
<1>4. Outlays' = Outlays
  BY OrderPaysNothing
<1>5. SumFunctionOnSet(Funding', Orders) = SumFunctionOnSet(Funding, Orders) + gain
  <2>1. /\ \A q \in Orders : Funding[q] \in Int /\ Funding'[q] \in Int
        /\ SumFunctionOnSet(Funding, Orders) \in Int
    BY CoverType, CoverTypeNext
  <2>2. outbox[o]["settled"] \in Nat /\ Price[o] \in Nat
    BY OrdersAssumption DEF TypeOK, Txns, EventKinds
  <2>3. (outbox[o]["settled"] + 1) * Price[o] = outbox[o]["settled"] * Price[o] + Price[o]
    BY <2>2
  <2>4. Funding'[o] = Funding[o] + gain
    BY <2>2, <2>3 DEF Funding
  <2>5. \A q \in Orders \ {o} : Funding[q] = Funding'[q]
    BY DEF Funding
  <2>6. SumFunctionOnSet(Funding', Orders)
          = SumFunctionOnSet(Funding, Orders) - Funding[o] + Funding'[o]
    BY <2>1, <2>5, FiniteAssumption, SumChange
  <2> HIDE DEF gain
  <2> QED BY <1>1, <2>1, <2>4, <2>6
<1> HIDE DEF e, gain
<1>6. \A p \in Pools : /\ Kept[p] \in Int /\ e[p] \in Int /\ more[p] = Kept[p] + e[p]
                       /\ Kept'[p] \in Int /\ more[p] \in Int /\ Kept'[p] <= more[p]
  BY <1>1, <1>2, <1>3 DEF Kept, NonNeg
<1> HIDE DEF more
<1>7. SumFunctionOnSet(more, Pools) = SumFunctionOnSet(Kept, Pools) + gain
  BY <1>1, <1>6, FiniteAssumption, SumPlus
<1>8. SumFunctionOnSet(Kept', Pools) <= SumFunctionOnSet(more, Pools)
  BY <1>6, FiniteAssumption, SumMonotone
<1>9. /\ SumFunctionOnSet(Kept, Pools) \in Int /\ SumFunctionOnSet(Kept', Pools) \in Int
      /\ SumFunctionOnSet(Outlays, Payments) \in Int
      /\ SumFunctionOnSet(Funding, Orders) \in Int
  BY CoverType, CoverTypeNext
<1> QED BY <1>1, <1>4, <1>5, <1>7, <1>8, <1>9 DEF Covered

(* A reversal only takes from the pools.                                   *)
LEMMA ReversalKeepsCover ==
  ASSUME IInv, TypeOK', Covered, NEW o \in Orders, PostEntries(o, ReversalEntries(o)),
         SettlesNothing
  PROVE  Covered'
<1> DEFINE e == ReversalEntries(o)
<1>t. TypeOK
  BY DEF IInv
<1>1. e \in [Accounts -> Int] /\ \A p \in Pools : e[p] <= 0
  BY ReversalSums
<1>2. /\ balance \in [Accounts -> Int] /\ Pools \subseteq Accounts
      /\ balance' = [a \in Accounts |-> balance[a] + e[a]]
  BY <1>t DEF TypeOK, PostEntries, Accounts
<1> HIDE DEF e
<1>3. \A p \in Pools : Kept'[p] \in Int /\ Kept[p] \in Int /\ Kept'[p] <= Kept[p]
  BY <1>1, <1>2 DEF Kept, NonNeg
<1>4. SumFunctionOnSet(Kept', Pools) <= SumFunctionOnSet(Kept, Pools)
  BY <1>3, FiniteAssumption, SumMonotone
<1>5. Outlays' = Outlays /\ Funding' = Funding
  BY <1>t, OrderPaysNothing, NothingFunded
<1>6. /\ SumFunctionOnSet(Kept, Pools) \in Int /\ SumFunctionOnSet(Kept', Pools) \in Int
      /\ SumFunctionOnSet(Outlays, Payments) \in Int
      /\ SumFunctionOnSet(Funding, Orders) \in Int
  BY <1>t, CoverType, CoverTypeNext
<1> QED BY <1>4, <1>5, <1>6 DEF Covered

(* A payment that takes from each pool no more than it holds moves what is *)
(* kept to what is paid.                                                   *)
LEMMA PaymentKeepsCover ==
  ASSUME TypeOK, TypeOK', Covered, NEW t \in Payments, NEW e \in [Accounts -> Int],
         PostEntries(t, e), SettlesNothing,
         \A p \in Pools : e[p] <= 0 /\ -e[p] <= NonNeg(balance[p])
  PROVE  Covered'
<1>1. /\ balance \in [Accounts -> Int] /\ Pools \subseteq Accounts /\ t \in Txns
      /\ posted \in [Txns -> [Accounts -> Int]]
      /\ posted' = [posted EXCEPT ![t] = [a \in Accounts |-> posted[t][a] + e[a]]]
      /\ balance' = [a \in Accounts |-> balance[a] + e[a]]
  BY DEF TypeOK, PostEntries, Accounts, Txns, Payments
<1>2. \A p \in Pools : Kept[p] \in Int /\ e[p] \in Int /\ Kept'[p] = Kept[p] + e[p]
  BY <1>1 DEF Kept, NonNeg
<1>3. SumFunctionOnSet(Kept', Pools) = SumFunctionOnSet(Kept, Pools) + SumFunctionOnSet(e, Pools)
  BY <1>2, FiniteAssumption, SumPlus
<1>4. Outlays'[t] = Outlays[t] - SumFunctionOnSet(e, Pools)
  <2>1. \A p \in Pools : /\ posted[t][p] \in Int /\ e[p] \in Int
                         /\ posted'[t][p] = posted[t][p] + e[p]
    BY <1>1
  <2>2. SumFunctionOnSet(posted'[t], Pools)
          = SumFunctionOnSet(posted[t], Pools) + SumFunctionOnSet(e, Pools)
    BY <2>1, FiniteAssumption, SumPlus
  <2>3. SumFunctionOnSet(posted[t], Pools) \in Int /\ SumFunctionOnSet(e, Pools) \in Int
    BY <2>1, FiniteAssumption, SumRemove
  <2> QED BY <2>2, <2>3 DEF Outlays
<1>5. \A x \in Payments \ {t} : Outlays[x] = Outlays'[x]
  BY <1>1 DEF Outlays, Payments, Txns
<1>6. /\ \A x \in Payments : Outlays[x] \in Int /\ Outlays'[x] \in Int
      /\ IsFiniteSet(Payments)
      /\ SumFunctionOnSet(Kept, Pools) \in Int /\ SumFunctionOnSet(Kept', Pools) \in Int
      /\ SumFunctionOnSet(Outlays, Payments) \in Int
      /\ SumFunctionOnSet(Funding, Orders) \in Int
  BY CoverType, CoverTypeNext
<1>7. SumFunctionOnSet(Outlays', Payments)
        = SumFunctionOnSet(Outlays, Payments) - Outlays[t] + Outlays'[t]
  BY <1>5, <1>6, SumChange
<1>8. SumFunctionOnSet(e, Pools) \in Int /\ Funding' = Funding
  BY <1>2, FiniteAssumption, SumRemove, NothingFunded
<1>9. Outlays[t] \in Int
  BY <1>6
<1> QED BY <1>3, <1>4, <1>6, <1>7, <1>8, <1>9 DEF Covered

(* Every step keeps the pools and the payments within the funding.         *)
LEMMA NextCovered ==
  ASSUME IInv, TypeOK', Covered, [Next]_vars
  PROVE  Covered'
<1>t. TypeOK
  BY DEF IInv
<1>1. CASE UNCHANGED <<posted, balance>> /\ SettlesNothing
  <2>1. Kept' = Kept /\ Outlays' = Outlays /\ Funding' = Funding
    BY <1>1, NothingFunded DEF Kept, Outlays
  <2> QED BY <2>1 DEF Covered
<1>2. ASSUME NEW o \in Orders, PostEntries(o, FundingEntries(o)),
             \A q \in Orders : outbox'[q]["settled"] =
               IF q = o THEN outbox[q]["settled"] + 1 ELSE outbox[q]["settled"]
      PROVE  Covered'
  BY <1>2, <1>t, FundingKeepsCover
<1>3. ASSUME NEW o \in Orders, PostEntries(o, ReversalEntries(o)), SettlesNothing
      PROVE  Covered'
  BY <1>3, ReversalKeepsCover
<1>4. ASSUME NEW m \in Milestones, PostEntries(m, ReleaseEntries(m)), ReleaseFunded(m),
             SettlesNothing
      PROVE  Covered'
  <2> DEFINE e == ReleaseEntries(m)
  <2>1. m \in Payments /\ e \in [Accounts -> Int]
    BY EntriesType DEF Payments
  <2>2. \A p \in Pools : balance[p] \in Int
    BY <1>t DEF TypeOK, Accounts
  <2>3. \A p \in Pools : e[p] = IF p = PoolOf[m] THEN -MilestoneAmount[m] ELSE 0
    BY MilestonesAssumption, DistinctAssumption DEF ReleaseEntries, Accounts
  <2>4. MilestoneAmount[m] \in Nat /\ balance[PoolOf[m]] >= MilestoneAmount[m]
    BY <1>4, MilestonesAssumption DEF ReleaseFunded
  <2> HIDE DEF e
  <2>5. \A p \in Pools : e[p] <= 0 /\ -e[p] <= NonNeg(balance[p])
    BY <2>2, <2>3, <2>4 DEF NonNeg
  <2> QED BY <1>4, <1>t, <2>1, <2>5, PaymentKeepsCover DEF e
<1>5. ASSUME NEW k \in RefundKeys, NEW amount \in Nat, NEW draw \in [Pools -> 0..amount],
             IsDraw(draw, Pools, amount, balance, PoolId, RefundScope[k]),
             PostEntries(k, RefundEntries(amount, draw)), SettlesNothing
      PROVE  Covered'
  <2> DEFINE e == RefundEntries(amount, draw)
  <2>1. k \in Payments /\ e \in [Accounts -> Int]
    BY EntriesType DEF Payments
  <2>2. \A p \in Pools : draw[p] \in Nat /\ e[p] = -draw[p]
    BY DistinctAssumption DEF RefundEntries, Accounts
  <2>3. \A p \in Pools : draw[p] <= NonNeg(balance[p])
    BY <1>5 DEF IsDraw
  <2> HIDE DEF e
  <2>4. \A p \in Pools : e[p] <= 0 /\ -e[p] <= NonNeg(balance[p])
    BY <2>2, <2>3
  <2> QED BY <1>5, <1>t, <2>1, <2>4, PaymentKeepsCover DEF e
<1> QED BY <1>1, <1>2, <1>3, <1>4, <1>5, Postings

(* The escrow covers what is paid from it: releases with their fees and    *)
(* refunds together never take more than the settled deposits put in,      *)
(* whoever presents the keys, with chargebacks, splits, retries and any    *)
(* amounts asked.                                                          *)
THEOREM EscrowAlwaysCovers == Spec => []EscrowCoversPayments
<1>1. Init => Covered
  <2> SUFFICES ASSUME Init PROVE Covered
    OBVIOUS
  <2>1. \A p \in Pools : Kept[p] = 0
    BY DEF Init, Kept, NoEntries, NonNeg, Accounts
  <2>2. ASSUME NEW t \in Payments PROVE Outlays[t] = 0
    <3>1. \A p \in Pools : posted[t][p] = 0
      BY DEF Init, NoEntries, Accounts, Txns, Payments
    <3>2. SumFunctionOnSet(posted[t], Pools) = 0
      BY <3>1, FiniteAssumption, SumZero
    <3> QED BY <3>2 DEF Outlays
  <2>3. \A o \in Orders : Funding[o] = 0
    BY OrdersAssumption DEF Init, Funding, Txns, EventKinds, NoEvents
  <2>4. IsFiniteSet(Payments)
    BY FiniteAssumption, FS_Union DEF Payments
  <2>5. /\ SumFunctionOnSet(Kept, Pools) = 0 /\ SumFunctionOnSet(Outlays, Payments) = 0
        /\ SumFunctionOnSet(Funding, Orders) = 0
    BY <2>1, <2>2, <2>3, <2>4, FiniteAssumption, SumZero
  <2> QED BY <2>5 DEF Covered
<1>2. IInv /\ TypeOK' /\ Covered /\ [Next]_vars => Covered'
  BY NextCovered
<1>3. TypeOK /\ Covered => EscrowCoversPayments
  <2> SUFFICES ASSUME TypeOK, Covered PROVE EscrowCoversPayments
    OBVIOUS
  <2>1. /\ \A p \in Pools : Kept[p] \in Int /\ Kept[p] >= 0
        /\ SumFunctionOnSet(Kept, Pools) \in Int
        /\ SumFunctionOnSet(Outlays, Payments) \in Int
        /\ SumFunctionOnSet(Funding, Orders) \in Int
    BY CoverType
  <2>2. SumFunctionOnSet(Kept, Pools) >= 0
    <3> DEFINE none == [p \in Pools |-> 0]
    <3>1. \A p \in Pools : none[p] = 0 /\ none[p] \in Int /\ none[p] <= Kept[p]
      BY <2>1
    <3> HIDE DEF none
    <3>2. SumFunctionOnSet(none, Pools) = 0
      BY <3>1, FiniteAssumption, SumZero
    <3>3. SumFunctionOnSet(none, Pools) <= SumFunctionOnSet(Kept, Pools)
      BY <2>1, <3>1, FiniteAssumption, SumMonotone
    <3> QED BY <2>1, <3>2, <3>3
  <2>3. SumFunctionOnSet(Outlays, Payments) <= SumFunctionOnSet(Funding, Orders)
    BY <2>1, <2>2 DEF Covered
  <2> QED BY <2>3 DEF EscrowCoversPayments, SumFunction, Outlays, Funding, Payments
<1> QED BY <1>1, <1>2, <1>3, InvHolds, TypeCorrect, PTL DEF Spec

-----------------------------------------------------------------------------
(* Refunds that move what their rows say.                                  *)
RowsMatch ==
  \A k \in RefundKeys :
    /\ posted[k][Owner] > 0 <=> Moves(k) > 0
    /\ posted[k][Owner] >= 0
    /\ k \notin shared \cup resized =>
         posted[k][Owner] = IF status[k] = "completed" THEN refundRow[k] ELSE 0

(* A step that gives nothing back keeps RowsMatch.                         *)
LEMMA RowsKept ==
  ASSUME RowsMatch, shared \subseteq shared', resized \subseteq resized',
         \A k \in RefundKeys :
           /\ posted'[k] = posted[k] /\ Moves(k)' = Moves(k)
           /\ status'[k] = "completed" <=> status[k] = "completed"
           /\ status[k] = "completed" => refundRow'[k] = refundRow[k]
  PROVE  RowsMatch'
BY DEF RowsMatch

(* A refund gives the owner the amount asked, which is what its row says   *)
(* unless the key was resumed with another amount.                         *)
LEMMA RefundSettleRows ==
  ASSUME CInv, RowsMatch, NEW h \in Handlers, RefundSettle(h)
  PROVE  RowsMatch'
<1>t. TypeOK
  BY DEF CInv, KInv, IInv
<1> PICK k \in RefundKeys, amount \in Nat, draw \in [Pools -> Nat] :
      /\ k = job[h].key /\ amount = job[h].amount /\ job[h].kind = "refund"
      /\ k \in Keys /\ Holds(h, k) /\ ~(job[h].recheck /\ status[k] \in Settled)
      /\ posted'[k][Owner] = posted[k][Owner] + amount
      /\ \A q \in Keys \ {k} : status'[q] = status[q]
      /\ \A t \in Txns \ {k} : posted'[t] = posted[t] /\ outbox'[t] = outbox[t]
      /\ status'[k] = "completed" /\ Moves(k)' = Moves(k) + 1
      /\ UNCHANGED <<refundRow, shared, resized>>
  BY <1>t, RefundSettledKey
<1>1. amount \in RefundAsks[k] /\ (k \notin resized => amount = refundRow[k])
  BY DEF CInv, RefundAmounts
<1>2. amount > 0
  BY <1>1, RefundsAssumption
<1>3. posted[k][Owner] \in Int /\ Moves(k) \in Nat
  BY <1>t, MovesType DEF TypeOK, Txns, Accounts
<1>4. k \notin shared => status[k] # "completed"
  BY DEF CInv, KInv, KeyTurns, Settled
<1>5. \A q \in RefundKeys \ {k} :
        posted'[q] = posted[q] /\ Moves(q)' = Moves(q) /\ status'[q] = status[q]
  BY DEF Keys, Txns, Moves
<1>6. posted[k][Owner] >= 0 /\ (k \notin shared \cup resized => posted[k][Owner] = 0)
  BY <1>4 DEF RowsMatch
<1> QED BY <1>1, <1>2, <1>3, <1>5, <1>6 DEF RowsMatch

(* Every step keeps RowsMatch.                                             *)
LEMMA NextRows ==
  ASSUME CInv, RowsMatch, [Next]_vars
  PROVE  RowsMatch'
<1>t. TypeOK /\ KeyStatus
  BY DEF CInv, KInv, IInv
<1>d. \A k \in RefundKeys : k \in Keys /\ k \in Txns
  BY DEF Keys, Txns
<1>1. CASE Untouched
  BY <1>d, <1>1, RowsKept DEF Untouched, Moves
<1>2. ASSUME NEW h \in Handlers, NEW m \in Milestones, ReleaseCreate(h, m) PROVE RowsMatch'
  <2>1. /\ \A q \in RefundKeys : status'[q] = "completed" <=> status[q] = "completed"
        /\ UNCHANGED <<refundRow, posted, outbox, resized>> /\ shared \subseteq shared'
    BY <1>t, <1>d, <1>2, ReleaseCreated DEF NoteShared
  <2> QED BY <2>1, RowsKept DEF Moves
<1>3. ASSUME NEW h \in Handlers, ReleaseSettle(h) PROVE RowsMatch'
  <2>1. PICK m \in Milestones :
          /\ m \notin RefundKeys
          /\ \A t \in Txns \ {m} :
               status'[t] = status[t] /\ posted'[t] = posted[t] /\ outbox'[t] = outbox[t]
          /\ UNCHANGED <<refundRow, shared, resized>>
    BY <1>t, <1>3, ReleaseSettled
  <2> QED BY <1>d, <2>1, RowsKept DEF Moves
<1>4. ASSUME NEW h \in Handlers, NEW k \in RefundKeys, NEW amount \in RefundAsks[k],
             RefundCreate(h, k, amount)
      PROVE  RowsMatch'
  <2>1. /\ status[k] \in {"absent", "pending"}
        /\ \A q \in RefundKeys : status'[q] = IF q = k THEN "pending" ELSE status[q]
        /\ refundRow' = [refundRow EXCEPT ![k] = IF status[k] = "absent" THEN amount ELSE @]
        /\ UNCHANGED <<posted, outbox>>
        /\ shared \subseteq shared' /\ resized \subseteq resized'
    <3>1. status[k] \in {"absent", "pending"} /\ status' = [status EXCEPT ![k] = "pending"]
      BY <1>t, <1>4, RefundCreated
    <3>2. \A q \in RefundKeys : status'[q] = IF q = k THEN "pending" ELSE status[q]
      BY <1>t, <1>d, <3>1 DEF TypeOK
    <3>3. refundRow' = [refundRow EXCEPT ![k] = IF status[k] = "absent" THEN amount ELSE @]
      BY <1>4 DEF RefundCreate
    <3>4. UNCHANGED <<posted, outbox>> /\ NoteShared(k) /\ NoteResized(k, amount)
      BY <1>4 DEF RefundCreate
    <3>5. shared \subseteq shared' /\ resized \subseteq resized'
      BY <3>4 DEF NoteShared, NoteResized
    <3> QED BY <3>1, <3>2, <3>4, <3>5, <3>3
  <2>2. \A q \in RefundKeys :
          /\ posted'[q] = posted[q] /\ Moves(q)' = Moves(q)
          /\ status'[q] = "completed" <=> status[q] = "completed"
          /\ status[q] = "completed" => refundRow'[q] = refundRow[q]
    BY <1>t, <2>1 DEF TypeOK, Moves
  <2> QED BY <2>1, <2>2, RowsKept
<1>5. ASSUME NEW h \in Handlers, RefundSettle(h) PROVE RowsMatch'
  BY <1>5, RefundSettleRows
<1> QED BY <1>t, <1>1, <1>2, <1>3, <1>4, <1>5, KeySteps

(* Releases and refunds never take more than was deposited, and what a     *)
(* refund moved is what its row says, in every state, unless its key was   *)
(* shared or resumed with another amount.                                  *)
THEOREM PaymentsStayWithinDeposits == Spec => []PaymentsWithinDeposits
<1>1. Init => RowsMatch
  BY DEF Init, RowsMatch, Moves, Txns, EventKinds, NoEvents, NoEntries, Accounts
<1>2. CInv /\ RowsMatch /\ [Next]_vars => RowsMatch'
  BY NextRows
<1>3. EscrowCoversPayments /\ RowsMatch => PaymentsWithinDeposits
  BY DEF PaymentsWithinDeposits, RowsMatch
<1> QED BY <1>1, <1>2, <1>3, CInvHolds, EscrowAlwaysCovers, PTL DEF Spec

-----------------------------------------------------------------------------
(* The pure rules, for any number of packages, pools, milestones and bands. *)

(* What integer division cuts off.                                        *)
LEMMA DivBounds ==
  ASSUME NEW a \in Int, NEW b \in Int, b > 0
  PROVE  /\ a \div b \in Int
         /\ b * (a \div b) <= a
         /\ a < b * (a \div b) + b
BY SMT

(* Rounding is off by at most a half.                                      *)
LEMMA RoundBounds ==
  ASSUME NEW num \in Int, NEW den \in Int, den > 0
  PROVE  /\ RoundDiv(num, den) \in Int
         /\ 2 * (den * RoundDiv(num, den)) <= 2 * num + den
         /\ 2 * num < 2 * (den * RoundDiv(num, den)) + den
<1>1. 2 * num + den \in Int /\ 2 * den \in Int /\ 2 * den > 0
  OBVIOUS
<1>2. /\ RoundDiv(num, den) \in Int
      /\ (2 * den) * RoundDiv(num, den) <= 2 * num + den
      /\ 2 * num + den < (2 * den) * RoundDiv(num, den) + 2 * den
  BY <1>1, DivBounds DEF RoundDiv
<1> DEFINE r == RoundDiv(num, den)
<1> HIDE DEF r
<1>3. (2 * den) * r = 2 * (den * r) /\ den * r \in Int
  BY <1>2 DEF r
<1> QED BY <1>2, <1>3 DEF r

(* A common factor can be taken out of a sum.                             *)
LEMMA SumScale ==
  ASSUME NEW S, IsFiniteSet(S), NEW f, NEW g, NEW c \in Int,
         \A x \in S : f[x] \in Int /\ g[x] = c * f[x]
  PROVE  SumFunctionOnSet(g, S) = c * SumFunctionOnSet(f, S)
<1> DEFINE Sum(x, s) == SumFunctionOnSet(x, s)
           Bad == {s \in SUBSET S : Sum(g, s) # c * Sum(f, s)}
<1>0. \A x \in S : g[x] \in Int
  OBVIOUS
<1>1. \A s \in SUBSET S :
        /\ Sum(f, s) \in Int
        /\ \A e \in s : Sum(f, s) = f[e] + Sum(f, s \ {e}) /\ Sum(g, s) = g[e] + Sum(g, s \ {e})
  <2> TAKE s \in SUBSET S
  <2>1. IsFiniteSet(s) /\ \A x \in s : f[x] \in Int /\ g[x] \in Int
    BY <1>0, FS_Subset
  <2> QED BY <2>1, SumRemove
<1>2. Sum(f, {}) = 0 /\ Sum(g, {}) = 0
  BY SumEmpty
<1> HIDE DEF Sum
<1>3. SUFFICES ASSUME Bad # {} PROVE FALSE
  BY DEF Sum
<1>4. PICK T \in Bad : \A U \in Bad : U \subseteq T => U = T
  <2>1. Bad \subseteq SUBSET S
    OBVIOUS
  <2> HIDE DEF Bad
  <2> QED BY <1>3, <2>1, SmallestSubset
<1>5. PICK e \in T : TRUE
  <2>1. {} \notin Bad
    BY <1>2
  <2> QED BY <2>1
<1>6. Sum(g, T \ {e}) = c * Sum(f, T \ {e})
  BY <1>4
<1>7. /\ Sum(f, T) = f[e] + Sum(f, T \ {e}) /\ Sum(g, T) = c * f[e] + Sum(g, T \ {e})
      /\ f[e] \in Int /\ Sum(f, T \ {e}) \in Int
  BY <1>1
<1> HIDE DEF Bad
<1>8. c * (f[e] + Sum(f, T \ {e})) = c * f[e] + c * Sum(f, T \ {e})
  BY <1>7
<1>9. Sum(g, T) = c * Sum(f, T)
  BY <1>6, <1>7, <1>8
<1> QED BY <1>4, <1>9 DEF Bad

(* The package the remainder lands on exists: it beats or ties every other. *)
LEMMA LargestExists ==
  ASSUME NEW I, IsFiniteSet(I), I # {}, \A i \in I : i \in Int, NEW weight \in [I -> Int]
  PROVE  /\ LargestPackage(weight) \in I
         /\ \A j \in I : weight[j] <= weight[LargestPackage(weight)]
<1> DEFINE Beats(j, i) == weight[j] > weight[i] \/ (weight[j] = weight[i] /\ j <= i)
           Above(i) == {j \in I : Beats(j, i)}
           Bad == {Above(i) : i \in I}
<1>1. PICK A \in Bad : \A U \in Bad : U \subseteq A => U = A
  <2>1. Bad \subseteq SUBSET I
    OBVIOUS
  <2>2. Bad # {}
    OBVIOUS
  <2> HIDE DEF Bad
  <2> QED BY <2>1, <2>2, SmallestSubset
<1>2. PICK i \in I : A = Above(i)
  BY <1>1
<1>3. ASSUME NEW j \in I, ~Beats(i, j) PROVE FALSE
  <2>1. \A k \in I : Beats(k, j) => Beats(k, i)
    BY <1>3
  <2>2. Beats(i, i)
    OBVIOUS
  <2>3. Above(j) \in Bad
    OBVIOUS
  <2> HIDE DEF Beats
  <2>4. Above(j) \subseteq Above(i) /\ i \in Above(i) /\ i \notin Above(j)
    BY <2>1, <2>2, <1>3
  <2> QED BY <2>3, <2>4, <1>1, <1>2
<1>4. /\ \A j \in I : weight[j] <= weight[i]
      /\ \A j \in I : weight[j] = weight[i] => i <= j
  BY <1>3
<1> QED BY <1>4 DEF LargestPackage

(* A deposit is handed out to the rupiah, whatever the packages: nobody    *)
(* gets less than the floor of a proportional share, and only a largest    *)
(* package gets more.                                                      *)
THEOREM SharesConserve ==
  ASSUME NEW I, IsFiniteSet(I), \A i \in I : i \in Int, NEW weight \in [I -> Nat],
         NEW deposit \in Nat
  PROVE  LET total == SumFunction(weight)
             s     == AllocateEscrowShares(deposit, weight)
         IN  IF deposit = 0 \/ total = 0 THEN s = <<>>
             ELSE /\ SumFunction(s) = deposit
                  /\ \A i \in I :
                       /\ s[i] * total >= deposit * weight[i] - total + 1
                       /\ (s[i] * total > deposit * weight[i] =>
                             \A j \in I : weight[j] <= weight[i])
<1> DEFINE total == SumFunction(weight)
           clip == [i \in DOMAIN weight |-> NonNeg(weight[i])]
           floor == [i \in I |-> (deposit * weight[i]) \div total]
           s == AllocateEscrowShares(deposit, weight)
           L == LargestPackage(weight)
<1>1. clip = weight
  BY DEF NonNeg
<1>2. total = SumFunctionOnSet(weight, I) /\ total \in Nat
  <2>1. total = SumFunctionOnSet(weight, I)
    BY DEF SumFunction, SumFunctionOnSet, FoldFunction
  <2>t. \A i \in I : weight[i] \in Int /\ weight[i] >= 0
    OBVIOUS
  <2>2. SumFunctionOnSet(weight, I) \in Int
    BY <2>t, SumRemove
  <2> DEFINE zero == [i \in I |-> 0]
  <2>z. \A i \in I : zero[i] = 0
    OBVIOUS
  <2> HIDE DEF zero
  <2>3. SumFunctionOnSet(zero, I) = 0
    BY <2>z, SumZero
  <2>4. SumFunctionOnSet(zero, I) <= SumFunctionOnSet(weight, I)
    <3>1. \A i \in I : zero[i] \in Int /\ weight[i] \in Int /\ zero[i] <= weight[i]
      BY <2>t, <2>z
    <3> QED BY <3>1, SumMonotone
  <2> QED BY <2>1, <2>2, <2>3, <2>4
<1>f. [i \in DOMAIN weight |-> (deposit * NonNeg(weight[i])) \div total] = floor
  <2>1. \A i \in I : NonNeg(weight[i]) = weight[i]
    BY DEF NonNeg
  <2> HIDE DEF total
  <2> QED BY <2>1
<1>3. s = IF deposit <= 0 \/ total <= 0 THEN <<>>
          ELSE [floor EXCEPT ![L] = @ + deposit - SumFunction(floor)]
  <2>1. s = LET t == SumFunction(clip)
                fl == [i \in DOMAIN weight |-> (deposit * NonNeg(weight[i])) \div t]
            IN  IF deposit <= 0 \/ t <= 0 THEN <<>>
                ELSE [fl EXCEPT ![L] = @ + deposit - SumFunction(fl)]
    BY DEF AllocateEscrowShares
  <2>2. SumFunction(clip) = total
    BY <1>1
  <2> HIDE DEF s, clip, total, floor, L
  <2> QED BY <1>f, <2>1, <2>2
<1> HIDE DEF total, s
<1>4. CASE deposit = 0 \/ total = 0
  BY <1>2, <1>3, <1>4 DEF s, total
<1>5. CASE ~(deposit = 0 \/ total = 0)
  <2>1. total > 0 /\ total \in Int /\ deposit > 0
    BY <1>2, <1>5
  <2>2. ASSUME NEW i \in I
        PROVE  /\ floor[i] \in Int
               /\ total * floor[i] <= deposit * weight[i]
               /\ deposit * weight[i] < total * floor[i] + total
    <3>1. deposit * weight[i] \in Int
      OBVIOUS
    <3> QED BY <2>1, <3>1, DivBounds
  <2>3. SumFunction(floor) = SumFunctionOnSet(floor, I)
    BY DEF SumFunction, SumFunctionOnSet, FoldFunction
  <2>4. floor \in [I -> Int]
    BY <2>2
  <2> HIDE DEF floor
  <2>5. SumFunctionOnSet(floor, I) \in Int
    BY <2>4, SumRemove
  <2>6. SumFunctionOnSet(floor, I) <= deposit
    <3> DEFINE lo == [i \in I |-> total * floor[i]]
               hi == [i \in I |-> deposit * weight[i]]
    <3>1. SumFunctionOnSet(lo, I) = total * SumFunctionOnSet(floor, I)
      <4>1. \A i \in I : floor[i] \in Int /\ lo[i] = total * floor[i]
        BY <2>4
      <4> HIDE DEF lo
      <4> QED BY <4>1, <2>1, SumScale
    <3>2. SumFunctionOnSet(hi, I) = deposit * total
      <4>1. \A i \in I : weight[i] \in Int /\ hi[i] = deposit * weight[i]
        OBVIOUS
      <4> HIDE DEF hi
      <4>2. deposit \in Int
        OBVIOUS
      <4>3. SumFunctionOnSet(hi, I) = deposit * SumFunctionOnSet(weight, I)
        BY <4>1, <4>2, SumScale
      <4> QED BY <4>3, <1>2
    <3>3. \A i \in I : lo[i] \in Int /\ hi[i] \in Int /\ lo[i] <= hi[i]
      BY <2>1, <2>2
    <3>4. SumFunctionOnSet(lo, I) <= SumFunctionOnSet(hi, I)
      BY <3>3, SumMonotone
    <3> HIDE DEF lo, hi
    <3>5. total * SumFunctionOnSet(floor, I) <= deposit * total
      BY <3>1, <3>2, <3>4
    <3> QED BY <3>5, <2>1, <2>5
  <2>7. L \in I /\ \A j \in I : weight[j] <= weight[L]
    <3>1. I # {}
      BY <1>2, <2>1, SumEmpty
    <3>2. weight \in [I -> Int]
      OBVIOUS
    <3> QED BY <3>1, <3>2, LargestExists
  <2> HIDE DEF L
  <2>8. /\ s = [floor EXCEPT ![L] = floor[L] + deposit - SumFunction(floor)]
        /\ s \in [I -> Int]
    <3>1. s = [floor EXCEPT ![L] = floor[L] + deposit - SumFunction(floor)]
      BY <1>3, <2>1
    <3>2. floor[L] + deposit - SumFunction(floor) \in Int
      BY <2>3, <2>4, <2>5, <2>7
    <3> QED BY <3>1, <3>2, <2>4
  <2>9. SumFunction(s) = deposit
    <3>1. SumFunction(s) = SumFunctionOnSet(s, I)
      BY <2>8 DEF SumFunction, SumFunctionOnSet, FoldFunction
    <3>2. SumFunctionOnSet(s, I) = SumFunctionOnSet(floor, I) - floor[L] + s[L]
      <4>1. /\ \A i \in I : floor[i] \in Int /\ s[i] \in Int
            /\ \A i \in I \ {L} : floor[i] = s[i]
        BY <2>4, <2>8
      <4> QED BY <4>1, <2>7, SumChange
    <3>3. s[L] = floor[L] + deposit - SumFunctionOnSet(floor, I) /\ floor[L] \in Int
      BY <2>3, <2>4, <2>7, <2>8
    <3> QED BY <3>1, <3>2, <3>3, <2>5
  <2>10. ASSUME NEW i \in I
         PROVE  /\ s[i] * total >= deposit * weight[i] - total + 1
                /\ (s[i] * total > deposit * weight[i] =>
                      \A j \in I : weight[j] <= weight[i])
    <3> DEFINE gain == deposit - SumFunctionOnSet(floor, I)
    <3>1. gain \in Int /\ gain >= 0
      BY <2>5, <2>6
    <3>2. floor[i] \in Int /\ s[i] \in Int
      BY <2>4, <2>8
    <3>3. IF i = L THEN s[i] = floor[i] + gain ELSE s[i] = floor[i]
      BY <2>3, <2>4, <2>5, <2>7, <2>8, <3>2
    <3> HIDE DEF gain
    <3>4. s[i] >= floor[i]
      BY <3>1, <3>2, <3>3
    <3>5. s[i] * total >= floor[i] * total /\ total * floor[i] = floor[i] * total
      BY <3>4, <3>2, <2>1
    <3>6. s[i] * total > deposit * weight[i] => i = L
      BY <2>1, <2>2, <3>2, <3>3
    <3> DEFINE dw == deposit * weight[i]
               ft == floor[i] * total
               st == s[i] * total
    <3>7. dw \in Int /\ ft \in Int /\ st \in Int
      BY <3>2, <2>1
    <3>8. dw < ft + total /\ st >= ft
      BY <2>2, <3>5
    <3>9. st >= dw - total + 1
      <4> HIDE DEF dw, ft, st
      <4> QED BY <3>7, <3>8, <2>1
    <3> QED BY <3>6, <3>9, <2>7
  <2> QED BY <2>9, <2>10, <1>5 DEF s, total
<1> QED BY <1>4, <1>5

(* The least of a set of numbers.                                          *)
LEMMA SmallestNat ==
  ASSUME NEW Bad, \A n \in Bad : n \in Nat, Bad # {}
  PROVE  \E n \in Bad : \A m \in Bad : n <= m
<1>1. PICK top \in Bad : TRUE
  OBVIOUS
<1> DEFINE Below == {0..n : n \in {m \in Bad : m <= top}}
<1>2. PICK A \in Below : \A U \in Below : U \subseteq A => U = A
  <2> DEFINE All == 0..top
  <2>1. Below \subseteq SUBSET All
    BY <1>1
  <2>2. Below # {}
    BY <1>1
  <2>3. IsFiniteSet(All)
    BY <1>1, FS_Interval
  <2> HIDE DEF Below, All
  <2> QED BY <2>1, <2>2, <2>3, SmallestSubset
<1>3. PICK n \in Bad : n <= top /\ A = 0..n
  BY <1>2
<1>4. ASSUME NEW m \in Bad, m < n PROVE FALSE
  <2>1. 0..m \in Below
    BY <1>1, <1>3, <1>4
  <2>2. 0..m \subseteq 0..n /\ n \in 0..n /\ n \notin 0..m
    BY <1>3, <1>4
  <2> QED BY <2>1, <2>2, <1>2, <1>3
<1> QED BY <1>3, <1>4

(* The loop over the pools: what is left to draw after the first i.        *)
IsLeft(l, order, amount, bal) ==
  l = [i \in 0..Len(order) |->
         IF i = 0 THEN amount
         ELSE l[i - 1] - (IF NonNeg(bal[order[i]]) < l[i - 1]
                          THEN NonNeg(bal[order[i]]) ELSE l[i - 1])]
Left(order, amount, bal) == CHOOSE l : IsLeft(l, order, amount, bal)
\* The pools the loop has visited.
Visits(order, i) == {order[j] : j \in 1..i}
Worth(S, bal) == [p \in S |-> NonNeg(bal[p])]
\* order visits each pool of S once, in the order a refund draws on them.
DrawOrder(order, S, bal, id, scope) ==
  /\ order \in Seq(S) /\ Range(order) = S
  /\ \A i, j \in 1..Len(order) : i < j => DrawnBefore(order[i], order[j], bal, id, scope)

(* A refund draws from a pool what the loop took there.                    *)
LEMMA DrawUnfold ==
  ASSUME NEW order, NEW amount, NEW bal
  PROVE  DrawFromEscrow(order, amount, bal) =
           [refused |-> Left(order, amount, bal)[Len(order)] > 0,
            draw    |-> [p \in Range(order) |->
                           LET i == CHOOSE j \in 1..Len(order) : order[j] = p
                           IN  Left(order, amount, bal)[i - 1] - Left(order, amount, bal)[i]]]
BY DEF DrawFromEscrow, Left, IsLeft

(* The loop ends: what is left is never negative and shrinks by what a     *)
(* pool is worth, until nothing is left.                                   *)
LEMMA LoopSteps ==
  ASSUME NEW S, NEW order \in Seq(S), NEW bal \in [S -> Int], NEW amount \in Nat
  PROVE  LET left == Left(order, amount, bal)
         IN  /\ left[0] = amount
             /\ \A i \in 0..Len(order) : left[i] \in Nat
             /\ \A i \in 1..Len(order) :
                  left[i] = left[i - 1] - (IF NonNeg(bal[order[i]]) < left[i - 1]
                                           THEN NonNeg(bal[order[i]]) ELSE left[i - 1])
<1> DEFINE N == Len(order)
           h == [j \in 1..N |-> NonNeg(bal[order[j]])]
           left == Left(order, amount, bal)
           T(i) == SumFunctionOnSet(h, 1..i)
           f == [i \in 0..N |-> NonNeg(amount - T(i))]
<1>1. N \in Nat /\ \A j \in 1..N : h[j] \in Nat /\ h[j] = NonNeg(bal[order[j]])
  BY DEF NonNeg
<1>2. T(0) = 0 /\ T(0) \in Int
  <2>1. 1..0 = {}
    OBVIOUS
  <2> QED BY <2>1, SumEmpty
<1>3. \A i \in 1..N : T(i) = T(i - 1) + h[i] /\ T(i - 1) \in Int /\ T(i) \in Int
  <2> TAKE i \in 1..N
  <2>1. 1..i = (1..(i - 1)) \cup {i} /\ i \notin 1..(i - 1)
    OBVIOUS
  <2>2. IsFiniteSet(1..(i - 1))
    BY FS_Interval
  <2>3. \A x \in (1..(i - 1)) \cup {i} : h[x] \in Int
    BY <1>1
  <2> DEFINE V == 1..(i - 1)
  <2>4. i \notin V /\ IsFiniteSet(V) /\ (\A x \in V \cup {i} : h[x] \in Int) /\ 1..i = V \cup {i}
    BY <2>1, <2>2, <2>3
  <2> HIDE DEF h, V
  <2>5. /\ SumFunctionOnSet(h, V \cup {i}) = SumFunctionOnSet(h, V) + h[i]
        /\ SumFunctionOnSet(h, V) \in Int
    BY <2>4, SumAdd
  <2>6. T(i) = T(i - 1) + h[i] /\ T(i - 1) \in Int
    BY <2>4, <2>5 DEF V
  <2>7. h[i] \in Int
    BY <2>4
  <2> HIDE DEF T
  <2> QED BY <2>6, <2>7
<1> HIDE DEF T, h
<1>4. IsLeft(f, order, amount, bal)
  <2>1. f[0] = amount
    BY <1>1, <1>2 DEF NonNeg
  <2>2. ASSUME NEW i \in 1..N
        PROVE  f[i] = f[i - 1] - (IF h[i] < f[i - 1] THEN h[i] ELSE f[i - 1])
    <3>1. f[i] = NonNeg(amount - T(i)) /\ f[i - 1] = NonNeg(amount - T(i - 1))
      BY <1>1
    <3> HIDE DEF f
    <3>2. h[i] \in Nat
      BY <1>1
    <3> QED BY <3>1, <3>2, <1>3 DEF NonNeg
  <2>3. f = [i \in 0..N |-> f[i]]
    OBVIOUS
  <2> HIDE DEF f
  <2>4. \A i \in 0..N : f[i] = IF i = 0 THEN amount
           ELSE f[i - 1] - (IF NonNeg(bal[order[i]]) < f[i - 1]
                            THEN NonNeg(bal[order[i]]) ELSE f[i - 1])
    BY <1>1, <2>1, <2>2
  <2> QED BY <2>3, <2>4 DEF IsLeft
<1>5. IsLeft(left, order, amount, bal)
  BY <1>4 DEF Left
<1> HIDE DEF left
<1>6. \A i \in 0..N : left[i] = IF i = 0 THEN amount
           ELSE left[i - 1] - (IF NonNeg(bal[order[i]]) < left[i - 1]
                               THEN NonNeg(bal[order[i]]) ELSE left[i - 1])
  BY <1>5 DEF IsLeft
<1>7. left[0] = amount
  BY <1>1, <1>6
<1>8. \A i \in 1..N : left[i] = left[i - 1] - (IF h[i] < left[i - 1] THEN h[i] ELSE left[i - 1])
  <2> TAKE i \in 1..N
  <2>1. i \in 0..N /\ i # 0
    BY <1>1
  <2> QED BY <2>1, <1>1, <1>6
<1>9. \A i \in 0..N : left[i] \in Nat
  <2> DEFINE Bad == {i \in 0..N : left[i] \notin Nat}
  <2> SUFFICES ASSUME Bad # {} PROVE FALSE
    OBVIOUS
  <2>1. PICK i \in Bad : \A j \in Bad : i <= j
    <3>1. \A n \in Bad : n \in Nat
      BY <1>1
    <3> HIDE DEF Bad
    <3> QED BY <3>1, SmallestNat
  <2>2. i # 0 /\ i \in 1..N
    BY <1>7, <1>1
  <2>3. i - 1 \in 0..N /\ i - 1 \notin Bad
    BY <2>1, <2>2, <1>1
  <2>4. left[i - 1] \in Nat /\ h[i] \in Nat
    BY <2>2, <2>3, <1>1
  <2>5. left[i] \in Nat
    BY <2>2, <2>4, <1>8
  <2> QED BY <2>1, <2>5
<1> QED BY <1>1, <1>7, <1>8, <1>9 DEF left

(* What the loop took out of the pools it visited, and what they hold.     *)
Drawn(order, bal, amount, draw) ==
  /\ \A i, j \in 1..Len(order) : order[i] = order[j] => i = j
  /\ \A i \in 1..Len(order) :
       draw[order[i]] = Left(order, amount, bal)[i - 1] - Left(order, amount, bal)[i]
Totals(S, order, bal, amount, draw) ==
  \A i \in 0..Len(order) :
    LET left == Left(order, amount, bal)[i]
    IN  /\ left = NonNeg(amount - SumFunctionOnSet(Worth(S, bal), Visits(order, i)))
        /\ SumFunctionOnSet(draw, Visits(order, i)) = amount - left

(* After each pool, what is left is what those before could not give.      *)
LEMMA LoopTotals ==
  ASSUME NEW S, IsFiniteSet(S), NEW bal \in [S -> Int], NEW amount \in Nat,
         NEW order \in Seq(S), NEW draw \in [S -> Int]
  PROVE  Drawn(order, bal, amount, draw) => Totals(S, order, bal, amount, draw)
<1> DEFINE N == Len(order)
           left == Left(order, amount, bal)
           worth == Worth(S, bal)
           W(i) == SumFunctionOnSet(worth, Visits(order, i))
           D(i) == SumFunctionOnSet(draw, Visits(order, i))
           Good(i) == left[i] = NonNeg(amount - W(i)) /\ D(i) = amount - left[i]
           Bad == {i \in 0..N : ~Good(i)}
<1>1. /\ N \in Nat /\ left[0] = amount /\ \A i \in 0..N : left[i] \in Nat
      /\ \A i \in 1..N : left[i] = left[i - 1] - (IF NonNeg(bal[order[i]]) < left[i - 1]
                                                  THEN NonNeg(bal[order[i]]) ELSE left[i - 1])
  <2>1. N \in Nat
    OBVIOUS
  <2>2. left[0] = amount
    BY LoopSteps
  <2>4. \A i \in 0..N : left[i] \in Nat
    BY LoopSteps
  <2>3. \A i \in 1..N : left[i] = left[i - 1] - (IF NonNeg(bal[order[i]]) < left[i - 1]
                                                  THEN NonNeg(bal[order[i]]) ELSE left[i - 1])
    BY LoopSteps, SMTT(30)
  <2> HIDE DEF N, left
  <2> QED BY <2>1, <2>2, <2>3, <2>4
<1> HIDE DEF left
<1> SUFFICES ASSUME \A i, j \in 1..N : order[i] = order[j] => i = j,
                    \A i \in 1..N : draw[order[i]] = left[i - 1] - left[i],
                    Bad # {}
             PROVE  FALSE
  BY DEF Drawn, Totals, W, D, left, worth
<1>2. \A i \in 1..N : draw[order[i]] = left[i - 1] - left[i]
  OBVIOUS
<1>3. \A i \in 1..N : order[i] \in S
  OBVIOUS
<1>4. \A p \in S : worth[p] = NonNeg(bal[p]) /\ worth[p] \in Nat /\ draw[p] \in Int
  BY DEF Worth, NonNeg
<1> HIDE DEF worth
<1>5. ASSUME NEW i \in 1..N
      PROVE  /\ W(i) = W(i - 1) + worth[order[i]] /\ W(i - 1) \in Int
             /\ D(i) = D(i - 1) + draw[order[i]] /\ D(i - 1) \in Int
  <2> DEFINE V == Visits(order, i - 1)
             e == order[i]
  <2>1. 1..i = (1..(i - 1)) \cup {i} /\ i \notin 1..(i - 1) /\ 1..(i - 1) \subseteq 1..N
    <3>1. N \in Nat /\ i \in 1..N
      BY <1>1
    <3> HIDE DEF N
    <3>2. 1..i = (1..(i - 1)) \cup {i}
      BY <3>1
    <3>3. i \notin 1..(i - 1)
      BY <3>1
    <3>4. 1..(i - 1) \subseteq 1..N
      BY <3>1, SMTT(30)
    <3> QED BY <3>2, <3>3, <3>4
  <2>2. Visits(order, i) = V \cup {e}
    <3>1. \A T : {order[j] : j \in T \cup {i}} = {order[j] : j \in T} \cup {order[i]}
      OBVIOUS
    <3>2. Visits(order, i) = {order[j] : j \in (1..(i - 1)) \cup {i}}
      BY <2>1 DEF Visits
    <3> QED BY <3>1, <3>2 DEF Visits
  <2>3. e \notin V
    <3> SUFFICES ASSUME NEW j \in 1..(i - 1), order[j] = order[i] PROVE FALSE
      BY DEF Visits
    <3>1. j \in 1..N
      BY <2>1
    <3>2. j = i
      BY <3>1
    <3> QED BY <3>2, <2>1
  <2>4. V \subseteq S /\ e \in S
    BY <2>1, <1>3 DEF Visits
  <2>5. IsFiniteSet(V)
    BY <2>4, FS_Subset
  <2>6. \A x \in V \cup {e} : worth[x] \in Int /\ draw[x] \in Int
    BY <2>4, <1>4
  <2> HIDE DEF V, e
  <2>7. /\ SumFunctionOnSet(worth, V \cup {e}) = SumFunctionOnSet(worth, V) + worth[e]
        /\ SumFunctionOnSet(worth, V) \in Int
    BY <2>3, <2>5, <2>6, SumAdd
  <2>8. /\ SumFunctionOnSet(draw, V \cup {e}) = SumFunctionOnSet(draw, V) + draw[e]
        /\ SumFunctionOnSet(draw, V) \in Int
    BY <2>3, <2>5, <2>6, SumAdd
  <2> QED BY <2>2, <2>7, <2>8 DEF V, e
<1>6. W(0) = 0 /\ D(0) = 0
  <2>1. Visits(order, 0) = {}
    BY DEF Visits
  <2> QED BY <2>1, SumEmpty
<1> HIDE DEF W, D
<1>7. PICK i \in Bad : \A j \in Bad : i <= j
  <2>1. \A n \in Bad : n \in Nat
    BY <1>1
  <2> HIDE DEF Bad
  <2> QED BY <2>1, SmallestNat
<1>8. i # 0
  <2>1. left[0] = NonNeg(amount - W(0)) /\ D(0) = amount - left[0]
    <3>1. NonNeg(amount - 0) = amount /\ amount - amount = 0
      BY DEF NonNeg
    <3> QED BY <1>1, <1>6, <3>1
  <2>2. Good(0)
    BY <2>1
  <2>3. 0 \notin Bad
    <3> HIDE DEF Good
    <3> QED BY <2>2
  <2> QED BY <1>7, <2>3
<1>9. i \in 1..N /\ i - 1 \in 0..N /\ i - 1 \notin Bad
  <2>1. N \in Nat /\ i \in 0..N
    BY <1>1, <1>7
  <2> HIDE DEF N, Bad
  <2>2. i \in 1..N /\ i - 1 \in 0..N /\ ~(i <= i - 1)
    BY <2>1, <1>8
  <2> QED BY <2>2, <1>7
<1>10. Good(i - 1)
  BY <1>9
<1>11. /\ left[i - 1] \in Nat /\ left[i] \in Nat /\ worth[order[i]] \in Nat
       /\ left[i] = left[i - 1] - (IF worth[order[i]] < left[i - 1]
                                   THEN worth[order[i]] ELSE left[i - 1])
  BY <1>1, <1>3, <1>4, <1>9
<1>12. W(i) = W(i - 1) + worth[order[i]] /\ W(i - 1) \in Int
  BY <1>5, <1>9
<1>13. D(i) = D(i - 1) + (left[i - 1] - left[i]) /\ D(i - 1) \in Int
  BY <1>2, <1>5, <1>9
<1>14. left[i] = NonNeg(amount - W(i))
  <2>1. left[i - 1] = NonNeg(amount - W(i - 1))
    BY <1>10
  <2> DEFINE a == left[i - 1]
             b == left[i]
             e == worth[order[i]]
             w == W(i - 1)
  <2>2. a \in Nat /\ e \in Nat /\ w \in Int /\ a = NonNeg(amount - w)
        /\ b = a - (IF e < a THEN e ELSE a)
    BY <1>11, <1>12, <2>1
  <2>3. W(i) = w + e
    BY <1>12
  <2> HIDE DEF a, b, e, w
  <2>4. b = NonNeg(amount - (w + e))
    BY <2>2 DEF NonNeg
  <2> QED BY <2>3, <2>4 DEF b
<1>15. D(i) = amount - left[i]
  BY <1>10, <1>11, <1>13
<1> QED BY <1>7, <1>14, <1>15

(* While something is left, something was left at every pool before.       *)
LEMMA LeftShrinks ==
  ASSUME NEW S, NEW order \in Seq(S), NEW bal \in [S -> Int], NEW amount \in Nat,
         NEW i \in 0..Len(order), NEW j \in 0..Len(order), i <= j
  PROVE  Left(order, amount, bal)[j] <= Left(order, amount, bal)[i]
<1> DEFINE left == Left(order, amount, bal)
           Bad == {k \in i..Len(order) : ~(left[k] <= left[i])}
<1>1. /\ Len(order) \in Nat /\ \A k \in 0..Len(order) : left[k] \in Nat
      /\ \A k \in 1..Len(order) : NonNeg(bal[order[k]]) \in Nat /\
           left[k] = left[k - 1] - (IF NonNeg(bal[order[k]]) < left[k - 1]
                                    THEN NonNeg(bal[order[k]]) ELSE left[k - 1])
  BY LoopSteps DEF NonNeg
<1> HIDE DEF left
<1> SUFFICES ASSUME Bad # {} PROVE FALSE
  BY <1>1 DEF left
<1>2. PICK k \in Bad : \A m \in Bad : k <= m
  <2>1. \A n \in Bad : n \in Nat
    OBVIOUS
  <2> HIDE DEF Bad
  <2> QED BY <2>1, SmallestNat
<1>3. k # i
  BY <1>1, <1>2
<1>4. k \in 1..Len(order) /\ k - 1 \in i..Len(order) /\ k - 1 \notin Bad
  BY <1>2, <1>3
<1>5. left[k - 1] <= left[i]
  BY <1>4
<1>6. left[k] \in Nat /\ left[k - 1] \in Nat /\ left[i] \in Nat
  <2>1. k \in 0..Len(order) /\ k - 1 \in 0..Len(order)
    BY <1>1, <1>4
  <2> QED BY <2>1, <1>1
<1>7. left[k] <= left[k - 1]
  <2> DEFINE w == NonNeg(bal[order[k]])
  <2>1. w \in Nat /\ left[k] = left[k - 1] - (IF w < left[k - 1] THEN w ELSE left[k - 1])
    BY <1>1, <1>4
  <2> HIDE DEF w
  <2> QED BY <2>1, <1>6
<1>8. ~(left[k] <= left[i])
  BY <1>2
<1> QED BY <1>5, <1>6, <1>7, <1>8

(* The loop over any number of pools refuses exactly the refunds that the  *)
(* pools together cannot cover, and otherwise computes a draw.             *)
THEOREM LoopIsADraw ==
  ASSUME NEW S, IsFiniteSet(S), NEW bal \in [S -> Int], NEW id \in [S -> Int], NEW scope,
         NEW amount \in Nat, NEW order, DrawOrder(order, S, bal, id, scope)
  PROVE  LET result == DrawFromEscrow(order, amount, bal)
         IN  /\ result.refused <=> SumFunctionOnSet(Worth(S, bal), S) < amount
             /\ ~result.refused => /\ result.draw \in [S -> Nat]
                                   /\ IsDraw(result.draw, S, amount, bal, id, scope)
<1> DEFINE N == Len(order)
           left == Left(order, amount, bal)
           index(p) == CHOOSE j \in 1..N : order[j] = p
           draw == [p \in S |-> left[index(p) - 1] - left[index(p)]]
           result == DrawFromEscrow(order, amount, bal)
<1>1. order \in Seq(S) /\ N \in Nat /\ Range(order) = S
  BY DEF DrawOrder
<1>2. result = [refused |-> left[N] > 0, draw |-> draw]
  BY <1>1, DrawUnfold
<1> HIDE DEF result
<1>3. \A p, q \in S : DrawnBefore(p, q, bal, id, scope) =>
        p # q /\ ~DrawnBefore(q, p, bal, id, scope)
  BY DEF DrawnBefore
<1>4. \A i \in 1..N : order[i] \in S
  BY <1>1
<1>5. \A i, j \in 1..N : order[i] = order[j] => i = j
  <2> SUFFICES ASSUME NEW i \in 1..N, NEW j \in 1..N, order[i] = order[j], i < j PROVE FALSE
    BY <1>1
  <2> QED BY <1>3, <1>4 DEF DrawOrder
<1>6. \A i \in 1..N : index(order[i]) = i
  BY <1>5
<1>7. \A p \in S : \E i \in 1..N : order[i] = p
  BY <1>1 DEF Range
<1>8. /\ left[0] = amount /\ \A i \in 0..N : left[i] \in Nat
      /\ \A i \in 1..N : left[i] = left[i - 1] - (IF NonNeg(bal[order[i]]) < left[i - 1]
                                                  THEN NonNeg(bal[order[i]]) ELSE left[i - 1])
  <2>1. left[0] = amount
    BY <1>1, LoopSteps
  <2>2. \A i \in 0..N : left[i] \in Nat
    BY <1>1, LoopSteps
  <2>3. \A i \in 1..N : left[i] = left[i - 1] - (IF NonNeg(bal[order[i]]) < left[i - 1]
                                                  THEN NonNeg(bal[order[i]]) ELSE left[i - 1])
    BY <1>1, LoopSteps, SMTT(30)
  <2> HIDE DEF left, N
  <2> QED BY <2>1, <2>2, <2>3
<1>9. \A i \in 1..N : draw[order[i]] = left[i - 1] - left[i]
  BY <1>4, <1>6
<1>10. \A i, j \in 0..N : i <= j => left[j] <= left[i]
  BY <1>1, LeftShrinks
<1> HIDE DEF index
<1>11. draw \in [S -> Nat]
  <2>1. \A p \in S : draw[p] \in Nat
    <3> TAKE p \in S
    <3>1. PICK i \in 1..N : order[i] = p
      BY <1>7
    <3>2. i - 1 \in 0..N /\ left[i - 1] \in Nat /\ NonNeg(bal[order[i]]) \in Nat
      BY <1>1, <1>4, <1>8 DEF NonNeg
    <3>3. left[i] = left[i - 1] - (IF NonNeg(bal[order[i]]) < left[i - 1]
                                   THEN NonNeg(bal[order[i]]) ELSE left[i - 1])
      BY <1>8
    <3>4. draw[p] = left[i - 1] - left[i]
      BY <1>9, <3>1
    <3> HIDE DEF draw, left
    <3> QED BY <3>2, <3>3, <3>4
  <2>2. draw = [p \in S |-> draw[p]]
    OBVIOUS
  <2> HIDE DEF draw
  <2> QED BY <2>1, <2>2
<1> HIDE DEF draw
<1>12. Visits(order, N) = S
  BY <1>4, <1>7 DEF Visits
<1>13. /\ left[N] = NonNeg(amount - SumFunctionOnSet(Worth(S, bal), S))
       /\ SumFunctionOnSet(draw, S) = amount - left[N]
  <2>1. N \in 0..N /\ draw \in [S -> Int]
    BY <1>1, <1>11
  <2>2. \A i \in 1..Len(order) : draw[order[i]] =
          Left(order, amount, bal)[i - 1] - Left(order, amount, bal)[i]
    BY <1>9
  <2>3. Drawn(order, bal, amount, draw)
    BY <2>2, <1>5 DEF Drawn
  <2>4. Totals(S, order, bal, amount, draw)
    BY <2>1, <2>3, <1>1, LoopTotals
  <2> QED BY <2>1, <2>4, <1>12 DEF Totals
<1>14. SumFunctionOnSet(Worth(S, bal), S) \in Int
  <2>1. \A p \in S : Worth(S, bal)[p] \in Int
    BY DEF Worth, NonNeg
  <2> QED BY <2>1, SumRemove
<1>15. result.refused <=> SumFunctionOnSet(Worth(S, bal), S) < amount
  <2>1. result.refused = (left[N] > 0)
    BY <1>2
  <2> DEFINE w == SumFunctionOnSet(Worth(S, bal), S)
  <2>2. left[N] = NonNeg(amount - w) /\ w \in Int
    BY <1>13, <1>14
  <2> HIDE DEF w
  <2>3. left[N] > 0 <=> w < amount
    BY <2>2 DEF NonNeg
  <2> QED BY <2>1, <2>3 DEF w
<1> HIDE DEF left
<1>16. ASSUME ~result.refused PROVE IsDraw(draw, S, amount, bal, id, scope)
  <2>1. left[N] = 0
    <3>1. N \in 0..N /\ left[N] \in Nat
      BY <1>1, <1>8
    <3>2. ~(left[N] > 0)
      BY <1>2, <1>16
    <3> QED BY <3>1, <3>2
  <2>2. \A p \in S : draw[p] <= NonNeg(bal[p])
    <3> TAKE p \in S
    <3>1. PICK i \in 1..N : order[i] = p
      BY <1>7
    <3>2. i - 1 \in 0..N /\ left[i - 1] \in Nat /\ NonNeg(bal[p]) \in Int
      BY <1>1, <1>8 DEF NonNeg
    <3> QED BY <1>8, <1>9, <3>1, <3>2
  <2>3. SumFunctionOnSet(draw, S) = amount
    BY <1>13, <2>1
  <2>4. ASSUME NEW p \in S, NEW q \in S, DrawnBefore(p, q, bal, id, scope), draw[q] > 0
        PROVE  draw[p] = NonNeg(bal[p])
    <3>1. PICK i \in 1..N : order[i] = p
      BY <1>7
    <3>2. PICK j \in 1..N : order[j] = q
      BY <1>7
    <3>3. i < j
      <4>1. CASE j < i
        BY <4>1, <3>1, <3>2, <2>4, <1>3 DEF DrawOrder
      <4>2. CASE i = j
        BY <4>2, <3>1, <3>2, <2>4, <1>3
      <4> QED BY <4>1, <4>2, <1>1
    <3>4. /\ i \in 0..N /\ i - 1 \in 0..N /\ j \in 0..N /\ j - 1 \in 0..N /\ i <= j - 1
          /\ left[i] \in Nat /\ left[i - 1] \in Nat /\ left[j - 1] \in Nat /\ left[j] \in Nat
      <4>1. i \in 0..N /\ i - 1 \in 0..N /\ j \in 0..N /\ j - 1 \in 0..N /\ i <= j - 1
        BY <3>3, <1>1
      <4> QED BY <4>1, <1>8
    <3>5. left[j - 1] > 0
      <4>1. draw[q] = left[j - 1] - left[j]
        BY <3>2, <1>9
      <4> QED BY <4>1, <3>4, <2>4
    <3>6. left[i] > 0
      <4>1. left[j - 1] <= left[i]
        BY <3>4, <1>10
      <4> QED BY <4>1, <3>4, <3>5
    <3> DEFINE w == NonNeg(bal[p])
    <3>7. w \in Int
      BY DEF NonNeg
    <3>8. /\ draw[p] = left[i - 1] - left[i]
          /\ left[i] = left[i - 1] - (IF w < left[i - 1] THEN w ELSE left[i - 1])
      BY <3>1, <1>8, <1>9
    <3> HIDE DEF w
    <3>9. draw[p] = w
      BY <3>4, <3>6, <3>7, <3>8
    <3> QED BY <3>9 DEF w
  <2> QED BY <2>2, <2>3, <2>4 DEF IsDraw
<1> QED BY <1>2, <1>11, <1>15, <1>16 DEF result

(* At most one draw answers a refund, so the loop computes the draw.       *)
THEOREM OneDraw ==
  ASSUME NEW S, IsFiniteSet(S), NEW bal \in [S -> Int], NEW id \in [S -> Int], NEW scope,
         NEW amount \in Nat, \A p, q \in S : id[p] = id[q] => p = q,
         NEW d \in [S -> Nat], IsDraw(d, S, amount, bal, id, scope),
         NEW e \in [S -> Nat], IsDraw(e, S, amount, bal, id, scope)
  PROVE  d = e
<1>1. ASSUME NEW f \in [S -> Nat], IsDraw(f, S, amount, bal, id, scope),
             NEW g \in [S -> Nat], IsDraw(g, S, amount, bal, id, scope),
             NEW q \in S, f[q] > g[q]
      PROVE  FALSE
  <2>1. PICK p \in S : f[p] < g[p]
    <3> SUFFICES ASSUME \A p \in S : g[p] <= f[p] PROVE FALSE
      OBVIOUS
    <3>1. IsFiniteSet(S \ {q})
      BY FS_Subset
    <3>2. SumFunctionOnSet(g, S \ {q}) <= SumFunctionOnSet(f, S \ {q})
      BY <3>1, SumMonotone
    <3>3. /\ SumFunctionOnSet(f, S) = f[q] + SumFunctionOnSet(f, S \ {q})
          /\ SumFunctionOnSet(g, S) = g[q] + SumFunctionOnSet(g, S \ {q})
          /\ SumFunctionOnSet(f, S \ {q}) \in Int /\ SumFunctionOnSet(g, S \ {q}) \in Int
      BY <3>1, SumRemove
    <3>4. SumFunctionOnSet(f, S) = amount /\ SumFunctionOnSet(g, S) = amount
      BY <1>1 DEF IsDraw
    <3> QED BY <3>2, <3>3, <3>4, <1>1
  <2>2. DrawnBefore(p, q, bal, id, scope) \/ DrawnBefore(q, p, bal, id, scope)
    BY <1>1, <2>1 DEF DrawnBefore
  <2>3. CASE DrawnBefore(p, q, bal, id, scope)
    <3>1. f[p] = NonNeg(bal[p]) /\ g[p] <= NonNeg(bal[p])
      BY <1>1, <2>3 DEF IsDraw
    <3> QED BY <3>1, <2>1
  <2>4. CASE DrawnBefore(q, p, bal, id, scope)
    <3>1. g[q] = NonNeg(bal[q]) /\ f[q] <= NonNeg(bal[q])
      BY <1>1, <2>1, <2>4 DEF IsDraw
    <3> QED BY <3>1, <1>1
  <2> QED BY <2>2, <2>3, <2>4
<1>2. \A q \in S : d[q] = e[q]
  <2> TAKE q \in S
  <2> QED BY <1>1
<1> QED BY <1>2

(* A sum of ones counts.                                                   *)
LEMMA SumOnes ==
  ASSUME NEW S, IsFiniteSet(S), NEW one, \A x \in S : one[x] = 1
  PROVE  SumFunctionOnSet(one, S) = Cardinality(S) /\ Cardinality(S) \in Nat
<1> DEFINE Sum(s) == SumFunctionOnSet(one, s)
           Bad == {s \in SUBSET S : Sum(s) # Cardinality(s)}
<1>1. \A s \in SUBSET S : \A e \in s :
        /\ Sum(s) = 1 + Sum(s \ {e})
        /\ Cardinality(s) = Cardinality(s \ {e}) + 1 /\ Cardinality(s \ {e}) \in Nat
  <2> SUFFICES ASSUME NEW s \in SUBSET S, NEW e \in s
               PROVE  /\ Sum(s) = 1 + Sum(s \ {e})
                      /\ Cardinality(s) = Cardinality(s \ {e}) + 1
                      /\ Cardinality(s \ {e}) \in Nat
    OBVIOUS
  <2>1. IsFiniteSet(s) /\ \A x \in s : one[x] \in Int /\ one[x] = 1
    BY FS_Subset
  <2>2. Sum(s) = 1 + Sum(s \ {e})
    BY <2>1, SumRemove
  <2>3. Cardinality(s \ {e}) = Cardinality(s) - 1 /\ Cardinality(s) \in Nat
    BY <2>1, FS_RemoveElement, FS_CardinalityType
  <2>4. IsFiniteSet(s \ {e})
    BY <2>1, FS_RemoveElement
  <2>5. Cardinality(s \ {e}) \in Nat
    BY <2>4, FS_CardinalityType
  <2> QED BY <2>2, <2>3, <2>5
<1>2. Sum({}) = 0 /\ Cardinality({}) = 0
  BY SumEmpty, FS_EmptySet
<1> HIDE DEF Sum
<1>3. Bad = {}
  <2> SUFFICES ASSUME Bad # {} PROVE FALSE
    OBVIOUS
  <2>1. PICK T \in Bad : \A U \in Bad : U \subseteq T => U = T
    <3>1. Bad \subseteq SUBSET S
      OBVIOUS
    <3> HIDE DEF Bad
    <3> QED BY <3>1, SmallestSubset
  <2>2. PICK e \in T : TRUE
    BY <1>2
  <2>3. Sum(T \ {e}) = Cardinality(T \ {e})
    BY <2>1
  <2>4. /\ Sum(T) = 1 + Sum(T \ {e})
        /\ Cardinality(T) = Cardinality(T \ {e}) + 1 /\ Cardinality(T \ {e}) \in Nat
    BY <1>1
  <2> QED BY <2>1, <2>3, <2>4
<1> QED BY <1>3, FS_CardinalityType DEF Sum

(* However many milestones a package is cut into, what they pay their      *)
(* talents adds up to the package's payout within half a rupiah each.      *)
THEOREM FeesDriftByHalves ==
  ASSUME NEW I, IsFiniteSet(I), NEW parts \in [I -> Int], NEW gross \in Int, NEW payout \in Int,
         gross > 0, SumFunctionOnSet(parts, I) = gross,
         \A i \in I : MilestoneFee(parts[i], gross, payout) >= 0
  PROVE  LET drift == SumFunctionOnSet([i \in I |->
                        parts[i] - MilestoneFee(parts[i], gross, payout)], I) - payout
         IN  2 * drift <= Cardinality(I) /\ 2 * drift >= -Cardinality(I)
<1> DEFINE paid == [i \in I |-> parts[i] - MilestoneFee(parts[i], gross, payout)]
           twice == [i \in I |-> (2 * gross) * paid[i]]
           exact == [i \in I |-> (2 * payout) * parts[i]]
           half == [i \in I |-> gross]
           more == [i \in I |-> exact[i] + half[i]]
           one == [i \in I |-> 1]
           n == Cardinality(I)
           total == SumFunctionOnSet(paid, I)
<1>1. ASSUME NEW i \in I
      PROVE  /\ paid[i] \in Int
             /\ twice[i] <= exact[i] + gross
             /\ exact[i] <= twice[i] + gross
  <2> DEFINE r == RoundDiv(parts[i] * payout, gross)
  <2>1. /\ r \in Int
        /\ 2 * (gross * r) <= 2 * (parts[i] * payout) + gross
        /\ 2 * (parts[i] * payout) < 2 * (gross * r) + gross
    <3>1. parts[i] * payout \in Int
      OBVIOUS
    <3> QED BY <3>1, RoundBounds
  <2> HIDE DEF r
  <2>2. MilestoneFee(parts[i], gross, payout) = parts[i] - r
    BY <2>1 DEF MilestoneFee, r
  <2>3. paid[i] = r
    BY <2>1, <2>2
  <2>4. (2 * gross) * r = 2 * (gross * r) /\ (2 * payout) * parts[i] = 2 * (parts[i] * payout)
    BY <2>1
  <2>5. 2 * (gross * r) \in Int /\ 2 * (parts[i] * payout) \in Int
    BY <2>1
  <2>6. twice[i] = 2 * (gross * r) /\ exact[i] = 2 * (parts[i] * payout)
    BY <2>3, <2>4
  <2> HIDE DEF twice, exact
  <2> QED BY <2>1, <2>3, <2>5, <2>6
<1>2. total \in Int
  BY <1>1, SumRemove
<1>3. SumFunctionOnSet(twice, I) = (2 * gross) * total
  <2>1. \A i \in I : paid[i] \in Int /\ twice[i] = (2 * gross) * paid[i]
    BY <1>1
  <2> HIDE DEF paid, twice
  <2> QED BY <2>1, SumScale
<1>4. SumFunctionOnSet(exact, I) = (2 * payout) * gross
  <2>1. \A i \in I : parts[i] \in Int /\ exact[i] = (2 * payout) * parts[i]
    OBVIOUS
  <2> HIDE DEF exact
  <2> QED BY <2>1, SumScale
<1>5. SumFunctionOnSet(half, I) = gross * n /\ n \in Nat
  <2>1. \A i \in I : one[i] \in Int /\ one[i] = 1 /\ half[i] = gross * one[i]
    OBVIOUS
  <2> HIDE DEF one, half
  <2> QED BY <2>1, SumOnes, SumScale
<1>6. \A i \in I : twice[i] \in Int /\ exact[i] \in Int /\ half[i] = gross
  BY <1>1
<1>7. SumFunctionOnSet(twice, I) <= SumFunctionOnSet(exact, I) + SumFunctionOnSet(half, I)
  <2> DEFINE up == [i \in I |-> exact[i] + half[i]]
  <2>1. \A i \in I : up[i] = exact[i] + half[i] /\ twice[i] <= up[i] /\ up[i] \in Int
    BY <1>1, <1>6
  <2> HIDE DEF twice, exact, half, up
  <2>2. SumFunctionOnSet(twice, I) <= SumFunctionOnSet(up, I)
    BY <1>6, <2>1, SumMonotone
  <2>3. SumFunctionOnSet(up, I) = SumFunctionOnSet(exact, I) + SumFunctionOnSet(half, I)
    BY <1>6, <2>1, SumPlus
  <2> QED BY <2>2, <2>3
<1>8. SumFunctionOnSet(exact, I) <= SumFunctionOnSet(twice, I) + SumFunctionOnSet(half, I)
  <2> DEFINE up == [i \in I |-> twice[i] + half[i]]
  <2>1. \A i \in I : up[i] = twice[i] + half[i] /\ exact[i] <= up[i] /\ up[i] \in Int
    BY <1>1, <1>6
  <2> HIDE DEF twice, exact, half, up
  <2>2. SumFunctionOnSet(exact, I) <= SumFunctionOnSet(up, I)
    BY <1>6, <2>1, SumMonotone
  <2>3. SumFunctionOnSet(up, I) = SumFunctionOnSet(twice, I) + SumFunctionOnSet(half, I)
    BY <1>6, <2>1, SumPlus
  <2> QED BY <2>2, <2>3
<1> HIDE DEF total, n, twice, exact, half
<1>9. (2 * gross) * total <= (2 * payout) * gross + gross * n
  BY <1>3, <1>4, <1>5, <1>7
<1>10. (2 * payout) * gross <= (2 * gross) * total + gross * n
  BY <1>3, <1>4, <1>5, <1>8
<1>11. gross * (2 * total - 2 * payout - n) <= 0
  BY <1>2, <1>5, <1>9
<1>12. gross * (2 * payout - 2 * total - n) <= 0
  BY <1>2, <1>5, <1>10
<1>13. \A x \in Int : gross * x <= 0 => x <= 0
  OBVIOUS
<1>14. 2 * total - 2 * payout - n <= 0 /\ 2 * payout - 2 * total - n <= 0
  BY <1>2, <1>5, <1>11, <1>12, <1>13
<1>15. 2 * (total - payout) <= n /\ 2 * (total - payout) >= -n
  BY <1>2, <1>5, <1>14
<1> QED BY <1>15 DEF total, n

(* A rupiah more in the price adds at most one to what the talents get,    *)
(* and takes nothing from it, whatever the table of bands: at the end of a *)
(* band neither side loses.                                                *)
THEOREM PayoutNeverDrops ==
  ASSUME NEW maxFee \in Seq(Nat), \A a, b \in 1..Len(maxFee) : a < b => maxFee[a] <= maxFee[b],
         NEW share \in [1..(Len(maxFee) + 1) -> 0..100], NEW price \in Nat
  PROVE  ProjectTalentPayout(price + 1, maxFee, share)
           - ProjectTalentPayout(price, maxFee, share) \in 0..1
<1> DEFINE N == Len(maxFee)
           Lower(b) == IF b = 1 THEN 0 ELSE maxFee[b - 1]
           Upper(x, b) == IF b > N \/ x < maxFee[b] THEN x ELSE maxFee[b]
           f == [b \in 1..(N + 1) |-> NonNeg(Upper(price, b) - Lower(b)) * share[b]]
           g == [b \in 1..(N + 1) |-> NonNeg(Upper(price + 1, b) - Lower(b)) * share[b]]
           Ends == {b \in 1..(N + 1) : b > N \/ price < maxFee[b]}
<1>1. N \in Nat /\ DOMAIN share = 1..(N + 1) /\ IsFiniteSet(1..(N + 1))
  BY FS_Interval
<1>2. \A b \in 1..(N + 1) : /\ Lower(b) \in Nat /\ Upper(price, b) \in Nat
                            /\ Upper(price + 1, b) \in Nat /\ share[b] \in Nat /\ share[b] <= 100
  <2> TAKE b \in 1..(N + 1)
  <2>1. \A a \in 1..N : maxFee[a] \in Nat
    OBVIOUS
  <2>2. Lower(b) \in Nat
    <3>1. b = 1 \/ b - 1 \in 1..N
      BY <1>1
    <3> QED BY <2>1, <3>1
  <2>3. b > N \/ b \in 1..N
    BY <1>1
  <2>4. Upper(price, b) \in Nat
    BY <2>1, <2>3
  <2>5. Upper(price + 1, b) \in Nat
    BY <2>1, <2>3
  <2>6. share[b] \in Nat /\ share[b] <= 100
    <3>1. \A x \in 0..100 : x \in Nat /\ x <= 100
      OBVIOUS
    <3>2. share[b] \in 0..100
      BY <1>1
    <3> QED BY <3>1, <3>2
  <2> QED BY <2>2, <2>4, <2>5, <2>6
<1>3. PICK k \in Ends : \A b \in Ends : k <= b
  <2>1. (\A n \in Ends : n \in Nat) /\ N + 1 \in Ends
    BY <1>1
  <2> HIDE DEF Ends
  <2> QED BY <2>1, SmallestNat
<1>4. Lower(k) <= price
  <2>1. CASE k = 1
    BY <2>1
  <2>2. CASE k # 1
    <3>1. k - 1 \in 1..N /\ k - 1 \in 1..(N + 1) /\ k - 1 \notin Ends
      BY <1>1, <1>3, <2>2
    <3> QED BY <3>1, <2>2
  <2> QED BY <2>1, <2>2
<1>5. Upper(price, k) = price /\ Upper(price + 1, k) = price + 1
  BY <1>1, <1>3
<1>6. ASSUME NEW b \in 1..(N + 1), b # k PROVE f[b] = g[b]
  <2>1. CASE b < k
    <3>1. b \in 1..N /\ b \notin Ends
      BY <1>1, <1>3, <2>1
    <3>2. Upper(price, b) = maxFee[b] /\ Upper(price + 1, b) = maxFee[b]
      BY <3>1
    <3> QED BY <3>2
  <2>2. CASE b > k
    <3>1. k \in 1..N /\ b - 1 \in 1..N /\ k <= b - 1 /\ b # 1
      BY <1>1, <1>3, <2>2
    <3>2. price < maxFee[k] /\ maxFee[k] <= maxFee[b - 1] /\ maxFee[b - 1] \in Nat
      BY <1>3, <3>1
    <3>3. price + 1 <= Lower(b)
      BY <3>1, <3>2
    <3>4. Upper(price, b) <= price /\ Upper(price + 1, b) <= price + 1
      BY <1>1
    <3> HIDE DEF Lower, Upper
    <3>5. /\ Lower(b) \in Nat /\ Upper(price, b) \in Nat /\ Upper(price + 1, b) \in Nat
      BY <1>2
    <3>6. \A x, y \in Nat : x <= y => NonNeg(x - y) = 0
      BY DEF NonNeg
    <3>7. Upper(price, b) <= Lower(b) /\ Upper(price + 1, b) <= Lower(b)
      BY <3>3, <3>4, <3>5
    <3>8. NonNeg(Upper(price, b) - Lower(b)) = 0 /\ NonNeg(Upper(price + 1, b) - Lower(b)) = 0
      BY <3>5, <3>6, <3>7
    <3> QED BY <3>8
  <2>3. k \in 1..(N + 1)
    BY <1>3
  <2>4. b < k \/ b > k
    BY <2>3, <1>1, <1>6
  <2> QED BY <2>1, <2>2, <2>4
<1>7. g[k] = f[k] + share[k] /\ f[k] \in Int /\ share[k] \in Nat /\ share[k] <= 100
  <2>1. k \in 1..(N + 1)
    BY <1>3
  <2> DEFINE w == price - Lower(k)
  <2>2. w \in Nat
    BY <1>2, <1>4, <2>1
  <2>3. NonNeg(Upper(price, k) - Lower(k)) = w /\ NonNeg(Upper(price + 1, k) - Lower(k)) = w + 1
    <3>1. Lower(k) \in Nat
      BY <1>2, <2>1
    <3> HIDE DEF Lower, Upper
    <3> QED BY <1>4, <1>5, <3>1 DEF NonNeg
  <2>4. f[k] = w * share[k] /\ g[k] = (w + 1) * share[k]
    BY <2>1, <2>3
  <2>5. \A x, y \in Nat : (x + 1) * y = x * y + y /\ x * y \in Nat
    OBVIOUS
  <2>6. share[k] \in Nat /\ share[k] <= 100
    BY <1>2, <2>1
  <2> DEFINE y == share[k]
  <2> HIDE DEF w, f, g, y
  <2>7. (w + 1) * y = w * y + y /\ w * y \in Nat
    BY <2>2, <2>5, <2>6 DEF y
  <2> QED BY <2>4, <2>6, <2>7 DEF y
<1>8. \A b \in 1..(N + 1) : f[b] \in Nat /\ g[b] \in Nat
  <2> TAKE b \in 1..(N + 1)
  <2>1. /\ NonNeg(Upper(price, b) - Lower(b)) \in Nat
        /\ NonNeg(Upper(price + 1, b) - Lower(b)) \in Nat /\ share[b] \in Nat
    <3> HIDE DEF Upper, Lower
    <3>1. /\ Lower(b) \in Nat /\ Upper(price, b) \in Nat
          /\ Upper(price + 1, b) \in Nat /\ share[b] \in Nat
      BY <1>2
    <3> QED BY <3>1 DEF NonNeg
  <2>2. \A x, y \in Nat : x * y \in Nat
    OBVIOUS
  <2> HIDE DEF Upper, Lower
  <2> QED BY <2>1, <2>2
<1> DEFINE s == SumFunctionOnSet(f, 1..(N + 1))
           c == share[k]
<1>9. /\ ProjectTalentPayout(price + 1, maxFee, share)
           = RoundDiv(SumFunctionOnSet(g, 1..(N + 1)), 100)
      /\ price > 0 => ProjectTalentPayout(price, maxFee, share) = RoundDiv(s, 100)
      /\ price = 0 => ProjectTalentPayout(price, maxFee, share) = 0
  <2> DEFINE Bands(x) ==
               [b \in DOMAIN share |->
                  NonNeg((IF b > Len(maxFee) \/ x < maxFee[b] THEN x ELSE maxFee[b])
                           - (IF b = 1 THEN 0 ELSE maxFee[b - 1])) * share[b]]
  <2>1. \A x \in Nat : ProjectTalentPayout(x, maxFee, share) =
          IF x <= 0 THEN 0 ELSE RoundDiv(SumFunction(Bands(x)), 100)
    BY DEF ProjectTalentPayout
  <2>2. Bands(price) = f /\ Bands(price + 1) = g
    BY <1>1
  <2>3. SumFunction(f) = s /\ SumFunction(g) = SumFunctionOnSet(g, 1..(N + 1))
    BY DEF SumFunction, SumFunctionOnSet, FoldFunction
  <2>4. price + 1 \in Nat /\ price + 1 > 0
    OBVIOUS
  <2> HIDE DEF Bands, f, g, s
  <2> QED BY <2>1, <2>2, <2>3, <2>4
<1>10. price = 0 => s = 0
  <2> SUFFICES ASSUME price = 0 PROVE s = 0
    OBVIOUS
  <2>1. \A b \in 1..(N + 1) : f[b] = 0
    <3> TAKE b \in 1..(N + 1)
    <3>1. Upper(price, b) <= 0
      BY <1>1
    <3>2. NonNeg(Upper(price, b) - Lower(b)) = 0
      <4>1. Upper(price, b) \in Nat /\ Lower(b) \in Nat
        BY <1>2
      <4> HIDE DEF Upper, Lower
      <4> QED BY <3>1, <4>1 DEF NonNeg
    <3>3. \A y \in Nat : 0 * y = 0
      OBVIOUS
    <3>4. share[b] \in Nat
      BY <1>2
    <3> HIDE DEF Upper, Lower
    <3>5. f[b] = NonNeg(Upper(price, b) - Lower(b)) * share[b]
      OBVIOUS
    <3> HIDE DEF f
    <3> QED BY <3>2, <3>3, <3>4, <3>5
  <2> HIDE DEF f
  <2> QED BY <2>1, <1>1, SumZero
<1> HIDE DEF f, g
<1>11. SumFunctionOnSet(g, 1..(N + 1)) = s + c /\ s \in Int /\ c \in Nat /\ c <= 100
  <2>1. k \in 1..(N + 1)
    BY <1>3
  <2> DEFINE I == 1..(N + 1)
  <2>2. /\ IsFiniteSet(I) /\ k \in I
        /\ \A b \in I : f[b] \in Int /\ g[b] \in Int
        /\ \A b \in I \ {k} : f[b] = g[b]
    <3>1. \A b \in I : f[b] \in Nat /\ g[b] \in Nat
      BY <1>8
    <3>2. \A b \in I \ {k} : f[b] = g[b]
      <4> TAKE b \in I \ {k}
      <4> QED BY <1>6
    <3>3. IsFiniteSet(I) /\ k \in I
      BY <1>1, <2>1
    <3>4. \A n \in Nat : n \in Int
      OBVIOUS
    <3> HIDE DEF I
    <3> QED BY <3>1, <3>2, <3>3, <3>4
  <2> HIDE DEF I
  <2>3. SumFunctionOnSet(g, I) = SumFunctionOnSet(f, I) - f[k] + g[k]
    BY <2>2, SumChange, ZenonT(40)
  <2>4. SumFunctionOnSet(f, I) \in Int
    BY <2>2, SumRemove
  <2>5. s = SumFunctionOnSet(f, I)
    BY DEF I
  <2> HIDE DEF s
  <2>6. SumFunctionOnSet(g, I) = s + share[k]
    BY <2>3, <2>4, <2>5, <1>7
  <2> QED BY <2>4, <2>5, <2>6, <1>7 DEF I
<1> HIDE DEF s, c
<1>12. RoundDiv(s + c, 100) - RoundDiv(s, 100) \in 0..1
  BY <1>11 DEF RoundDiv
<1>13. s = 0 => RoundDiv(s, 100) = 0
  BY DEF RoundDiv
<1> QED BY <1>9, <1>10, <1>11, <1>12, <1>13

(* A sum whose terms stay within two others' stays within theirs.           *)
LEMMA SumWithin ==
  ASSUME NEW S, IsFiniteSet(S), NEW f, NEW g, NEW h,
         \A x \in S : f[x] \in Int /\ g[x] \in Int /\ h[x] \in Int /\ f[x] <= g[x] + h[x]
  PROVE  SumFunctionOnSet(f, S) <= SumFunctionOnSet(g, S) + SumFunctionOnSet(h, S)
<1> DEFINE up == [x \in S |-> g[x] + h[x]]
<1>1. \A x \in S : up[x] \in Int /\ up[x] = g[x] + h[x] /\ f[x] <= up[x]
  OBVIOUS
<1> HIDE DEF up
<1>2. SumFunctionOnSet(f, S) <= SumFunctionOnSet(up, S)
  BY <1>1, SumMonotone
<1>3. SumFunctionOnSet(up, S) = SumFunctionOnSet(g, S) + SumFunctionOnSet(h, S)
  BY <1>1, SumPlus
<1> QED BY <1>2, <1>3

(* A finite set of integers has a greatest.                                *)
LEMMA LastExists ==
  ASSUME NEW P, IsFiniteSet(P), P # {}, \A i \in P : i \in Int
  PROVE  \E i \in P : \A j \in P : j <= i
<1> DEFINE weight == [i \in P |-> i]
<1>1. weight \in [P -> Int]
  OBVIOUS
<1>2. LargestPackage(weight) \in P /\ \A j \in P : weight[j] <= weight[LargestPackage(weight)]
  <2> HIDE DEF weight
  <2> QED BY <1>1, LargestExists
<1>3. \A j \in P : weight[j] = j
  OBVIOUS
<1> HIDE DEF weight
<1> QED BY <1>2, <1>3

(* A package's rounded slice of a payout that is at most the price is      *)
(* within the package, exact at both ends, and nothing of nothing.         *)
LEMMA SliceBounds ==
  ASSUME NEW price \in Nat, price > 0, NEW payout \in 0..price, NEW w \in Nat
  PROVE  LET each == RoundDiv(w * payout, price)
         IN  /\ each \in 0..w
             /\ (2 * price) * each <= (2 * payout) * w + price
             /\ (2 * payout) * w <= (2 * price) * each + price
             /\ w = 0 \/ payout = 0 => each = 0
             /\ payout = price => each = w
<1> DEFINE each == RoundDiv(w * payout, price)
           x == w * payout
<1>0. payout \in Nat /\ payout <= price
  OBVIOUS
<1>1. x \in Nat /\ (w = 0 \/ payout = 0 => x = 0)
  <2>1. \A a, b \in Nat : a * b \in Nat /\ (a = 0 \/ b = 0 => a * b = 0)
    OBVIOUS
  <2> QED BY <2>1, <1>0
<1>2. x <= price * w
  <2>1. \A a, b, c \in Nat : b <= c => a * b <= c * a
    <3> TAKE a, b, c \in Nat
    <3>1. b <= c => a * (c - b) >= 0
      OBVIOUS
    <3> QED BY <3>1
  <2> QED BY <2>1, <1>0
<1>3. (2 * payout) * w = 2 * x
  BY <1>0
<1> HIDE DEF x
<1>4. /\ each \in Int
      /\ 2 * (price * each) <= 2 * x + price
      /\ 2 * x < 2 * (price * each) + price
  BY <1>1, RoundBounds DEF x
<1> HIDE DEF each
<1>5. price * each \in Int /\ price * w \in Int /\ (2 * price) * each = 2 * (price * each)
  BY <1>4
<1>6. \A a, b \in Int : price * a >= price * b + price => a >= b + 1
  <2> TAKE a, b \in Int
  <2>1. \A c \in Int : price * c >= 0 => c >= 0
    OBVIOUS
  <2>2. price * (a - b - 1) = price * a - price * b - price
    OBVIOUS
  <2>3. price * a \in Int /\ price * b \in Int
    OBVIOUS
  <2> QED BY <2>1, <2>2, <2>3
<1>7. \A a, b \in Int : a >= b + 1 => price * a >= price * b + price
  <2> TAKE a, b \in Int
  <2>1. a >= b + 1 => price * (a - b - 1) >= 0
    OBVIOUS
  <2>2. price * (a - b - 1) = price * a - price * b - price
    OBVIOUS
  <2>3. price * a \in Int /\ price * b \in Int
    OBVIOUS
  <2> QED BY <2>1, <2>2, <2>3
<1>8. each >= 0
  <2> SUFFICES ASSUME 0 >= each + 1 PROVE FALSE
    BY <1>4
  <2>1. price * 0 >= price * each + price
    BY <1>4, <1>7
  <2> QED BY <2>1, <1>1, <1>4, <1>5
<1>9. each <= w
  <2> SUFFICES ASSUME each >= w + 1 PROVE FALSE
    BY <1>4
  <2>1. price * each >= price * w + price
    BY <1>4, <1>7
  <2> QED BY <2>1, <1>1, <1>2, <1>4, <1>5
<1>10. x = 0 => each = 0
  <2> SUFFICES ASSUME x = 0, each >= 0 + 1 PROVE FALSE
    BY <1>4, <1>8
  <2>1. price * each >= price * 0 + price
    BY <1>4, <1>7
  <2> QED BY <2>1, <1>4, <1>5
<1>11. payout = price => each = w
  <2> SUFFICES ASSUME payout = price, w >= each + 1 PROVE FALSE
    BY <1>4, <1>9
  <2>1. x = price * w
    BY DEF x
  <2>2. price * w >= price * each + price
    BY <1>4, <1>7
  <2> QED BY <2>1, <2>2, <1>4, <1>5
<1>12. each \in 0..w
  BY <1>4, <1>8, <1>9
<1> QED BY <1>1, <1>3, <1>4, <1>5, <1>10, <1>11, <1>12 DEF each

(* The packages' payouts add up to the talents' total to the rupiah and    *)
(* none exceeds its package: for up to three priced packages always, for   *)
(* more of them as long as the talents' and the platform's part of each    *)
(* package is worth half a rupiah for every package beyond three.          *)
THEOREM PackagesAddUp ==
  ASSUME NEW I, IsFiniteSet(I), \A i \in I : i \in Int, NEW worth \in [I -> Nat],
         NEW payout \in Nat, NEW price, price = SumFunctionOnSet(worth, I), payout <= price,
         NEW n, n = Cardinality({i \in I : worth[i] > 0}),
         \/ n <= 3
         \/ \A i \in I : worth[i] > 0 => /\ (n - 3) * price < (2 * payout) * worth[i]
                                         /\ (n - 3) * price < (2 * (price - payout)) * worth[i]
  PROVE  LET paid == PackagePayouts(worth, payout)
         IN  /\ SumFunctionOnSet(paid, I) = payout
             /\ \A i \in I : paid[i] \in 0..worth[i]
<1> DEFINE each == [i \in I |-> RoundDiv(worth[i] * payout, price)]
           P == {i \in I : worth[i] > 0}
           last == CHOOSE i \in I : worth[i] > 0 /\ \A j \in I : worth[j] > 0 => j <= i
           w == worth[last]
           Others == I \ {last}
           E == SumFunctionOnSet(each, Others)
           left == NonNeg(each[last] + payout - SumFunctionOnSet(each, I))
           paid == PackagePayouts(worth, payout)
<1>0. \A i \in I : worth[i] \in Int /\ worth[i] \in Nat
  OBVIOUS
<1>1. price \in Int
  BY <1>0, SumRemove
<1>2. paid = IF price <= 0 THEN [i \in I |-> 0]
             ELSE [each EXCEPT ![last] = IF left < w THEN left ELSE w]
  <2> DEFINE Body(v, D, p) ==
               LET e == [i \in D |-> RoundDiv(v[i] * payout, p)]
                   l == CHOOSE i \in D : v[i] > 0 /\ \A j \in D : v[j] > 0 => j <= i
                   f == NonNeg(e[l] + payout - SumFunction(e))
               IN  IF p <= 0 THEN [i \in D |-> 0]
                   ELSE [e EXCEPT ![l] = IF f < v[l] THEN f ELSE v[l]]
             plus == [i \in DOMAIN worth |-> NonNeg(worth[i])]
  <2>1. paid = Body(plus, DOMAIN worth, SumFunction(plus))
    BY DEF PackagePayouts
  <2>2. plus = worth
    BY <1>0 DEF NonNeg
  <2>3. DOMAIN worth = I
    OBVIOUS
  <2>4. SumFunction(worth) = price
    BY <2>3 DEF SumFunction
  <2>5. paid = Body(worth, I, price)
    <3> HIDE DEF Body, paid, plus
    <3> QED BY <2>1, <2>2, <2>3, <2>4
  <2>6. DOMAIN each = I
    OBVIOUS
  <2>7. SumFunction(each) = SumFunctionOnSet(each, I)
    <3> HIDE DEF each
    <3> QED BY <2>6 DEF SumFunction
  <2>8. Body(worth, I, price) =
          IF price <= 0 THEN [i \in I |-> 0]
          ELSE [each EXCEPT ![last] =
                  IF NonNeg(each[last] + payout - SumFunction(each)) < w
                  THEN NonNeg(each[last] + payout - SumFunction(each)) ELSE w]
    OBVIOUS
  <2> HIDE DEF Body, each, last, w, paid
  <2> QED BY <2>5, <2>7, <2>8
<1>3. CASE price <= 0
  <2>1. paid = [i \in I |-> 0] /\ payout = 0
    BY <1>1, <1>2, <1>3
  <2>2. \A i \in I : paid[i] = 0
    BY <2>1
  <2> HIDE DEF paid
  <2>3. SumFunctionOnSet(paid, I) = 0
    BY <2>2, SumZero
  <2>4. \A i \in I : paid[i] \in 0..worth[i]
    BY <2>2, <1>0
  <2> QED BY <2>1, <2>3, <2>4 DEF paid
<1>4. CASE price > 0
  <2>1. last \in I /\ w > 0 /\ w \in Nat
    <3>1. P # {}
      <4> SUFFICES ASSUME P = {} PROVE FALSE
        OBVIOUS
      <4>1. \A i \in I : worth[i] = 0
        BY <1>0
      <4> QED BY <4>1, <1>4, SumZero
    <3>2. IsFiniteSet(P) /\ \A i \in P : i \in Int
      BY FS_Subset
    <3>3. \E i \in P : \A j \in P : j <= i
      <4> HIDE DEF P
      <4> QED BY <3>1, <3>2, LastExists
    <3>4. \E i \in I : worth[i] > 0 /\ \A j \in I : worth[j] > 0 => j <= i
      BY <3>3
    <3>5. last \in I /\ worth[last] > 0
      BY <3>4
    <3> QED BY <3>5, <1>0
  <2>2. \A i \in I : /\ each[i] \in 0..worth[i]
                     /\ (2 * price) * each[i] <= (2 * payout) * worth[i] + price
                     /\ (2 * payout) * worth[i] <= (2 * price) * each[i] + price
                     /\ worth[i] = 0 \/ payout = 0 => each[i] = 0
                     /\ payout = price => each[i] = worth[i]
    <3> TAKE i \in I
    <3>1. price \in Nat /\ payout \in 0..price /\ worth[i] \in Nat
      BY <1>0, <1>1, <1>4
    <3>2. each[i] = RoundDiv(worth[i] * payout, price)
      OBVIOUS
    <3>3. price > 0
      BY <1>4
    <3>4. \A v \in Nat : LET e == RoundDiv(v * payout, price)
                         IN  /\ e \in 0..v
                             /\ (2 * price) * e <= (2 * payout) * v + price
                             /\ (2 * payout) * v <= (2 * price) * e + price
                             /\ v = 0 \/ payout = 0 => e = 0
                             /\ payout = price => e = v
      BY <3>1, <3>3, SliceBounds
    <3> HIDE DEF each
    <3> QED BY <3>1, <3>2, <3>4
  <2>3. \A i \in I : each[i] \in Int /\ each[i] \in Nat /\ each[i] <= worth[i]
    <3>1. \A a \in Nat : \A b \in 0..a : b \in Int /\ b \in Nat /\ b <= a
      OBVIOUS
    <3> QED BY <3>1, <2>2, <1>0
  <2> HIDE DEF each, last, P
  <2>4. Others \subseteq I /\ IsFiniteSet(Others)
    BY FS_Subset
  <2>5. /\ SumFunctionOnSet(each, I) = each[last] + E /\ E \in Int
        /\ price = w + SumFunctionOnSet(worth, Others)
        /\ SumFunctionOnSet(worth, Others) \in Int
    <3>1. \A i \in Others : each[i] \in Int /\ worth[i] \in Int
      BY <1>0, <2>3, <2>4
    <3>2. SumFunctionOnSet(each, I) = each[last] + SumFunctionOnSet(each, I \ {last})
      BY <2>1, <2>3, SumRemove
    <3>3. SumFunctionOnSet(worth, I) = worth[last] + SumFunctionOnSet(worth, I \ {last})
      BY <2>1, <1>0, SumRemove
    <3>4. SumFunctionOnSet(each, Others) \in Int /\ SumFunctionOnSet(worth, Others) \in Int
      BY <2>4, <3>1, SumRemove
    <3> QED BY <3>2, <3>3, <3>4
  <2>6. n \in Nat /\ n >= 1
        /\ (2 * price) * E <= (2 * payout) * (price - w) + price * (n - 1)
        /\ (2 * payout) * (price - w) <= (2 * price) * E + price * (n - 1)
    <3> DEFINE Q == P \ {last}
               twice == [i \in I |-> (2 * price) * each[i]]
               exact == [i \in I |-> (2 * payout) * worth[i]]
               one == [i \in I |-> 1]
               here == [i \in I |-> IF i \in Q THEN 1 ELSE 0]
               half == [i \in I |-> price * here[i]]
               T == SumFunctionOnSet(twice, Others)
               X == SumFunctionOnSet(exact, Others)
               H == SumFunctionOnSet(half, Others)
    <3>1. \A i \in I : /\ twice[i] \in Int /\ exact[i] \in Int /\ half[i] \in Int
                       /\ here[i] \in Int /\ one[i] = 1 /\ one[i] \in Int
      BY <1>0, <1>1, <2>3
    <3>2. T = (2 * price) * E
      <4>1. \A i \in Others : each[i] \in Int /\ twice[i] = (2 * price) * each[i]
        BY <2>3
      <4>2. 2 * price \in Int
        BY <1>1
      <4> HIDE DEF twice, Others
      <4> QED BY <4>1, <4>2, <2>4, SumScale
    <3>3. X = (2 * payout) * (price - w)
      <4>1. \A i \in Others : worth[i] \in Int /\ exact[i] = (2 * payout) * worth[i]
        BY <1>0
      <4>2. 2 * payout \in Int /\ SumFunctionOnSet(worth, Others) = price - w
        BY <2>1, <2>5
      <4> HIDE DEF exact, Others
      <4>3. X = (2 * payout) * SumFunctionOnSet(worth, Others)
        BY <4>1, <4>2, <2>4, SumScale
      <4> QED BY <4>2, <4>3
    <3>4. Q \subseteq Others /\ IsFiniteSet(P) /\ last \in P /\ Q \subseteq I
      BY <2>1, FS_Subset DEF P
    <3>5. n \in Nat /\ Cardinality(Q) = n - 1 /\ Cardinality(Q) \in Nat /\ IsFiniteSet(Q)
      <4>1. n = Cardinality(P)
        BY DEF P
      <4>2. IsFiniteSet(Q) /\ Cardinality(Q) = n - 1 /\ n \in Nat
        BY <4>1, <3>4, FS_RemoveElement, FS_CardinalityType
      <4> HIDE DEF Q
      <4> QED BY <4>2, FS_CardinalityType
    <3>6. SumFunctionOnSet(here, Others) = n - 1
      <4> DEFINE mask == [x \in Others |-> IF x \in Q THEN one[x] ELSE 0]
      <4>1. SumFunctionOnSet(one, Q) = Cardinality(Q)
        <5>1. \A i \in Q : one[i] = 1
          BY <3>4
        <5> HIDE DEF one, Q
        <5> QED BY <5>1, <3>5, SumOnes
      <4>2. SumFunctionOnSet(one, Q) = SumFunctionOnSet(mask, Others)
        <5>1. \A i \in Others : one[i] \in Int
          BY <3>1
        <5> HIDE DEF one, Q, Others
        <5> QED BY <5>1, <2>4, <3>4, SumFilter
      <4>3. \A i \in Others : mask[i] \in Int /\ mask[i] = here[i]
        OBVIOUS
      <4>4. SumFunctionOnSet(mask, Others) = SumFunctionOnSet(here, Others)
        <5> HIDE DEF mask, here, Others
        <5> QED BY <4>3, <2>4, SumSame
      <4> QED BY <4>1, <4>2, <4>4, <3>5
    <3>7. H = price * (n - 1)
      <4>1. \A i \in Others : here[i] \in Int /\ half[i] = price * here[i]
        OBVIOUS
      <4> HIDE DEF half, here, Others
      <4>2. H = price * SumFunctionOnSet(here, Others)
        BY <4>1, <2>4, <1>1, SumScale
      <4> QED BY <4>2, <3>6
    <3>8. \A i \in Others : /\ twice[i] \in Int /\ exact[i] \in Int /\ half[i] \in Int
                            /\ twice[i] <= exact[i] + half[i]
                            /\ exact[i] <= twice[i] + half[i]
      <4> TAKE i \in Others
      <4>1. i \in I /\ i # last
        OBVIOUS
      <4>2. CASE i \in P
        <5>1. half[i] = price
          BY <4>1, <4>2, <1>1
        <5> QED BY <5>1, <4>1, <3>1, <2>2
      <4>3. CASE i \notin P
        <5>1. worth[i] = 0
          BY <4>1, <4>3, <1>0 DEF P
        <5>2. each[i] = 0
          BY <4>1, <5>1, <2>2
        <5>3. half[i] = 0
          BY <4>1, <4>3, <1>1
        <5>4. twice[i] = 0 /\ exact[i] = 0
          BY <4>1, <5>1, <5>2, <1>1
        <5> QED BY <5>3, <5>4
      <4> QED BY <4>2, <4>3
    <3> HIDE DEF twice, exact, half, Others
    <3>9. T <= X + H
      BY <3>8, <2>4, SumWithin
    <3>10. X <= T + H
      BY <3>8, <2>4, SumWithin
    <3>11. n >= 1
      BY <3>5
    <3> QED BY <3>2, <3>3, <3>5, <3>7, <3>9, <3>10, <3>11
  <2>7. E <= payout /\ payout - E <= w
    <3>1. CASE payout = 0
      <4>1. \A i \in Others : each[i] = 0
        BY <2>2, <3>1
      <4>2. E = 0
        BY <4>1, <2>4, SumZero
      <4> QED BY <4>2, <3>1, <2>1
    <3>2. CASE payout = price
      <4>1. \A i \in Others : each[i] \in Int /\ each[i] = worth[i]
        BY <2>2, <2>3, <3>2
      <4>2. E = SumFunctionOnSet(worth, Others)
        BY <4>1, <2>4, SumSame
      <4> QED BY <4>2, <3>2, <2>1, <2>5
    <3>3. CASE payout # 0 /\ payout # price
      <4> DEFINE talents == payout * w
                 whole == price * w
      <4>1. /\ price \in Nat /\ payout > 0 /\ payout < price /\ w \in Nat /\ w > 0
            /\ E \in Int /\ n \in Nat
        BY <1>1, <1>4, <2>1, <2>5, <2>6, <3>3
      <4>2. talents \in Int /\ whole \in Int /\ talents > 0 /\ talents < whole
        <5>1. \A a, b \in Nat : a > 0 /\ b > 0 => a * b > 0
          OBVIOUS
        <5>2. talents > 0 /\ (price - payout) * w > 0
          BY <4>1, <5>1
        <5>3. (price - payout) * w = whole - talents /\ talents \in Int /\ whole \in Int
          BY <4>1
        <5> HIDE DEF talents, whole
        <5> QED BY <5>2, <5>3
      <4>3. (n - 3) * price < 2 * talents /\ (n - 3) * price < 2 * (whole - talents)
        <5>1. (2 * payout) * w = 2 * talents
              /\ (2 * (price - payout)) * w = 2 * (whole - talents)
          BY <4>1
        <5>2. CASE n <= 3
          <6>1. (3 - n) * price >= 0
            BY <4>1, <5>2
          <6>2. (n - 3) * price = 0 - (3 - n) * price /\ (3 - n) * price \in Int
            BY <4>1
          <6> HIDE DEF talents, whole
          <6> QED BY <6>1, <6>2, <4>2
        <5>3. CASE \A i \in I : worth[i] > 0 =>
                     /\ (n - 3) * price < (2 * payout) * worth[i]
                     /\ (n - 3) * price < (2 * (price - payout)) * worth[i]
          BY <5>1, <5>3, <2>1
        <5> QED BY <5>2, <5>3
      <4>4. /\ (2 * payout) * (price - w) = 2 * (price * payout) - 2 * talents
            /\ (2 * price) * E = 2 * (price * E)
            /\ price * (n - 1) = (n - 3) * price + 2 * price
            /\ price * payout \in Int /\ price * E \in Int /\ (n - 3) * price \in Int
        BY <4>1
      <4>5. price * payout - price * E + price > 0
        <5> HIDE DEF talents, whole
        <5> QED BY <2>6, <4>1, <4>2, <4>3, <4>4
      <4>6. price * payout - price * E < whole + price
        <5> HIDE DEF talents, whole
        <5> QED BY <2>6, <4>1, <4>2, <4>3, <4>4
      <4>7. \A a \in Int : price * a > 0 => a > 0
        BY <4>1
      <4>8. price * (payout - E + 1) = price * payout - price * E + price
            /\ price * (w + 1 - payout + E) = whole + price - price * payout + price * E
        BY <4>1
      <4>9. payout - E + 1 > 0 /\ w + 1 - payout + E > 0
        <5>1. price * (payout - E + 1) > 0 /\ price * (w + 1 - payout + E) > 0
          <6> HIDE DEF whole
          <6> QED BY <4>2, <4>4, <4>5, <4>6, <4>8, <4>1
        <5> QED BY <5>1, <4>1, <4>7
      <4> QED BY <4>1, <4>9
    <3> QED BY <3>1, <3>2, <3>3
  <2>8. paid = [each EXCEPT ![last] = payout - E]
    <3>1. left = payout - E
      BY <2>1, <2>3, <2>5, <2>7 DEF NonNeg
    <3>2. (IF left < w THEN left ELSE w) = payout - E
      BY <2>1, <2>5, <2>7, <3>1
    <3>3. ~(price <= 0)
      BY <1>1, <1>4
    <3>4. paid = [each EXCEPT ![last] = IF left < w THEN left ELSE w]
      <4> HIDE DEF left, w, paid
      <4> QED BY <1>2, <3>3
    <3> HIDE DEF left, w, E, paid
    <3> QED BY <3>2, <3>4
  <2>9. \A i \in I : paid[i] = IF i = last THEN payout - E ELSE each[i]
    <3>1. DOMAIN each = I
      BY DEF each
    <3> HIDE DEF paid, E
    <3> QED BY <2>8, <3>1
  <2> HIDE DEF paid, E, w, Others
  <2>10. \A i \in I : paid[i] \in 0..worth[i]
    <3> TAKE i \in I
    <3>1. CASE i = last
      BY <2>1, <2>5, <2>7, <2>9, <3>1 DEF w
    <3>2. CASE i # last
      BY <2>2, <2>9, <3>2
    <3> QED BY <3>1, <3>2
  <2>11. SumFunctionOnSet(paid, I) = (payout - E) + SumFunctionOnSet(paid, Others)
    <3>1. \A i \in I : paid[i] \in Int
      BY <2>3, <2>5, <2>9
    <3>2. paid[last] = payout - E
      BY <2>1, <2>9
    <3> QED BY <3>1, <3>2, <2>1, SumRemove DEF Others
  <2>12. SumFunctionOnSet(paid, Others) = E
    <3>1. \A i \in Others : paid[i] \in Int /\ paid[i] = each[i]
      BY <2>3, <2>5, <2>9 DEF Others
    <3> QED BY <3>1, <2>4, SumSame DEF E
  <2> QED BY <2>5, <2>10, <2>11, <2>12 DEF paid
<1> QED BY <1>1, <1>3, <1>4

(* The talents' total is a whole number of rupiah within the price: the    *)
(* smallest price it were not would be one above one where it is.          *)
LEMMA PayoutWithinPrice ==
  ASSUME NEW maxFee \in Seq(Nat), \A a, b \in 1..Len(maxFee) : a < b => maxFee[a] <= maxFee[b],
         NEW share \in [1..(Len(maxFee) + 1) -> 0..100], NEW price \in Nat
  PROVE  ProjectTalentPayout(price, maxFee, share) \in 0..price
<1> DEFINE Out(x) == ProjectTalentPayout(x, maxFee, share)
           Bad == {x \in Nat : Out(x) \notin 0..x}
<1>0. \A a \in 1..Len(maxFee) : maxFee[a] \in Nat
  OBVIOUS
<1>1. \A x \in Nat : Out(x + 1) - Out(x) \in 0..1
  BY PayoutNeverDrops
<1>2. Out(0) = 0
  BY DEF ProjectTalentPayout
<1>3. \A x \in Nat : Out(x) \in Int
  <2> SUFFICES ASSUME NEW x \in Nat PROVE Out(x) \in Int
    OBVIOUS
  <2> DEFINE D == 1..(Len(maxFee) + 1)
             upper(b) == IF b > Len(maxFee) \/ x < maxFee[b] THEN x ELSE maxFee[b]
             lower(b) == IF b = 1 THEN 0 ELSE maxFee[b - 1]
             f == [b \in D |-> NonNeg(upper(b) - lower(b)) * share[b]]
  <2>1. Len(maxFee) \in Nat /\ DOMAIN share = D /\ IsFiniteSet(D)
    BY FS_Interval
  <2>2. \A b \in D : f[b] \in Int
    <3> TAKE b \in D
    <3>1. \A a \in 1..Len(maxFee) : maxFee[a] \in Nat
      BY <1>0
    <3>2. upper(b) \in Int
      <4>1. b > Len(maxFee) \/ b \in 1..Len(maxFee)
        BY <2>1
      <4> QED BY <3>1, <4>1
    <3>3. lower(b) \in Int
      <4>1. b = 1 \/ b - 1 \in 1..Len(maxFee)
        BY <2>1
      <4> QED BY <3>1, <4>1
    <3>4. share[b] \in Int
      <4>1. \A n \in 0..100 : n \in Int
        OBVIOUS
      <4>2. share \in [D -> 0..100] /\ b \in D
        OBVIOUS
      <4> HIDE DEF D
      <4>3. share[b] \in 0..100
        BY <4>2
      <4> QED BY <4>1, <4>3
    <3>5. NonNeg(upper(b) - lower(b)) \in Int
      <4> HIDE DEF upper, lower
      <4> QED BY <3>2, <3>3 DEF NonNeg
    <3>6. \A a, c \in Int : a * c \in Int
      OBVIOUS
    <3> HIDE DEF upper, lower
    <3> QED BY <3>4, <3>5, <3>6
  <2>3. DOMAIN f = D
    OBVIOUS
  <2>4. Out(x) = IF x <= 0 THEN 0 ELSE RoundDiv(SumFunction(f), 100)
    BY <2>1 DEF ProjectTalentPayout
  <2> HIDE DEF f, D, Out
  <2>5. SumFunction(f) \in Int
    BY <2>1, <2>2, <2>3, SumRemove DEF SumFunction
  <2>6. RoundDiv(SumFunction(f), 100) \in Int
    BY <2>5, RoundBounds
  <2> QED BY <2>4, <2>6
<1> HIDE DEF Out
<1>4. Bad = {}
  <2> SUFFICES ASSUME Bad # {} PROVE FALSE
    OBVIOUS
  <2>1. PICK k \in Bad : \A x \in Bad : k <= x
    <3>1. \A x \in Bad : x \in Nat
      OBVIOUS
    <3> HIDE DEF Bad
    <3> QED BY <3>1, SmallestNat
  <2>2. k \in Nat /\ Out(k) \notin 0..k
    OBVIOUS
  <2>3. k # 0
    BY <1>2, <2>2
  <2>4. k - 1 \in Nat /\ Out(k - 1) \in 0..(k - 1)
    <3>1. k - 1 \in Nat /\ ~(k <= k - 1)
      BY <2>2, <2>3
    <3> QED BY <3>1, <2>1
  <2>5. Out((k - 1) + 1) - Out(k - 1) \in 0..1
    BY <1>1, <2>4
  <2>6. (k - 1) + 1 = k
    BY <2>2
  <2>7. Out(k) \in Int
    BY <1>3, <2>2
  <2>8. Out(k) \in 0..k
    BY <2>2, <2>4, <2>5, <2>6, <2>7
  <2> QED BY <2>2, <2>8
<1> QED BY <1>4 DEF Out

-----------------------------------------------------------------------------
(* What the run payment_rules asks of these rules, for every bound.        *)

(* The packages and the pools of the run.                                  *)
LEMMA Three == IsFiniteSet(1..3)
<1>1. 1..3 = ({} \cup {1}) \cup {2} \cup {3}
  OBVIOUS
<1>2. \A S, x : IsFiniteSet(S) => IsFiniteSet(S \cup {x})
  BY FS_AddElement
<1>3. IsFiniteSet({})
  BY FS_EmptySet
<1>4. \A x, y, z : IsFiniteSet(({} \cup {x}) \cup {y} \cup {z})
  BY <1>2, <1>3
<1>5. IsFiniteSet(({} \cup {1}) \cup {2} \cup {3})
  BY <1>4
<1> QED BY <1>1, <1>5

(* TLC enumerates the inputs as states that never change.                  *)
LEMMA InputsOnly == RulesSpec => [](input \in RulesInputs)
<1>1. RulesInit => input \in RulesInputs
  BY DEF RulesInit
<1>2. input \in RulesInputs /\ [RulesNext]_input => (input \in RulesInputs)'
  BY DEF RulesNext, RulesInputs
<1> QED BY <1>1, <1>2, PTL DEF RulesSpec

(* SharesConserveDeposit for deposits and packages of any amount.          *)
THEOREM EveryDepositIsHandedOut ==
  ASSUME MaxDeposit \in Nat, MaxWeight \in Nat
  PROVE  RulesSpec => []SharesConserveDeposit
<1>1. ASSUME input \in RulesInputs, input.rule = "shares"
      PROVE  input.deposit \in Nat /\ input.weight \in [1..3 -> Nat]
  <2>1. input \in [rule : {"shares"}, deposit : 0..MaxDeposit, weight : [1..3 -> 0..MaxWeight]]
    BY <1>1 DEF RulesInputs
  <2>2. \A x \in 0..MaxDeposit : x \in Nat
    OBVIOUS
  <2>3. \A x \in 0..MaxWeight : x \in Nat
    OBVIOUS
  <2>4. \A w \in [1..3 -> 0..MaxWeight] : w \in [1..3 -> Nat]
    BY <2>3
  <2> QED BY <2>1, <2>2, <2>4
<1>2. ASSUME NEW d \in Nat, NEW w \in [1..3 -> Nat]
      PROVE  LET total == SumFunction(w)
                 s     == AllocateEscrowShares(d, w)
             IN  IF d = 0 \/ total = 0 THEN s = <<>>
                 ELSE /\ SumFunction(s) = d
                      /\ \A i \in 1..3 :
                           /\ s[i] * total >= d * w[i] - total + 1
                           /\ (s[i] * total > d * w[i] => \A j \in 1..3 : w[j] <= w[i])
  <2> DEFINE I == 1..3
  <2>1. IsFiniteSet(I)
    BY Three
  <2>3. \A i \in I : i \in Int
    OBVIOUS
  <2>2. w \in [I -> Nat]
    OBVIOUS
  <2> HIDE DEF I
  <2>4. LET total == SumFunction(w)
            s     == AllocateEscrowShares(d, w)
        IN  IF d = 0 \/ total = 0 THEN s = <<>>
            ELSE /\ SumFunction(s) = d
                 /\ \A i \in I :
                      /\ s[i] * total >= d * w[i] - total + 1
                      /\ (s[i] * total > d * w[i] => \A j \in I : w[j] <= w[i])
    BY <2>1, <2>2, <2>3, SharesConserve
  <2> QED BY <2>4 DEF I
<1>3. input \in RulesInputs => SharesConserveDeposit
  BY <1>1, <1>2 DEF SharesConserveDeposit
<1> QED BY <1>3, InputsOnly, PTL

(* The first bands of the published table are such a table.                *)
LEMMA PublishedBands ==
  LET m == MaxFee
      t == TalentShare
  IN  /\ m \in Seq(Nat) /\ Len(m) = 3 /\ \A a, b \in 1..Len(m) : a < b => m[a] <= m[b]
      /\ t \in [1..(Len(m) + 1) -> 0..100]
<1> DEFINE m == MaxFee
           t == TalentShare
<1>1. m \in Seq(Nat) /\ Len(m) = 3 /\ m[1] = 30 /\ m[2] = 50 /\ m[3] = 100
  BY DEF MaxFee
<1>2. t \in [1..4 -> 0..100]
  <2>1. DOMAIN t = 1..4 /\ t[1] = 92 /\ t[2] = 89 /\ t[3] = 86 /\ t[4] = 83
    BY DEF TalentShare
  <2>2. \A i \in 1..4 : t[i] \in 0..100
    BY <2>1
  <2>3. t = [i \in 1..4 |-> t[i]]
    BY DEF TalentShare
  <2> HIDE DEF t
  <2> QED BY <2>2, <2>3
<1> HIDE DEF m, t
<1>3. \A a, b \in 1..Len(m) : a < b => m[a] <= m[b]
  BY <1>1
<1>4. 1..4 = 1..(Len(m) + 1)
  BY <1>1
<1>5. t \in [1..(Len(m) + 1) -> 0..100]
  BY <1>2, <1>4
<1> QED BY <1>1, <1>3, <1>5 DEF m, t

(* PayoutMonotone for every price.                                         *)
THEOREM EveryRupiahCounts ==
  ASSUME MaxPrice \in Nat
  PROVE  RulesSpec => []PayoutMonotone
<1>1. ASSUME input \in RulesInputs, input.rule = "payout"
      PROVE  input.price \in Nat
  <2>1. input \in [rule : {"payout"}, price : 0..MaxPrice]
    BY <1>1 DEF RulesInputs
  <2>2. \A x \in 0..MaxPrice : x \in Nat
    OBVIOUS
  <2> QED BY <2>1, <2>2
<1>2. ASSUME NEW price \in Nat
      PROVE  ProjectTalentPayout(price + 1, MaxFee, TalentShare)
               - ProjectTalentPayout(price, MaxFee, TalentShare) \in 0..1
  <2> DEFINE m == MaxFee
             t == TalentShare
  <2>1. /\ m \in Seq(Nat) /\ \A a, b \in 1..Len(m) : a < b => m[a] <= m[b]
        /\ t \in [1..(Len(m) + 1) -> 0..100]
    BY PublishedBands
  <2> HIDE DEF m, t
  <2>2. ProjectTalentPayout(price + 1, m, t) - ProjectTalentPayout(price, m, t) \in 0..1
    BY <2>1, PayoutNeverDrops
  <2> QED BY <2>2 DEF m, t
<1>3. input \in RulesInputs => PayoutMonotone
  BY <1>1, <1>2 DEF PayoutMonotone
<1> QED BY <1>3, InputsOnly, PTL

(* Three pools can be put in the order a refund draws on them.             *)
LEMMA OrderExists ==
  ASSUME NEW bal \in [1..3 -> Int], NEW scope
  PROVE  \E o \in [1..3 -> 1..3] :
           /\ Range(o) = 1..3
           /\ \A i, j \in 1..3 :
                i < j => DrawnBefore(o[i], o[j], bal, [p \in 1..3 |-> p], scope)
<1> DEFINE id == [p \in 1..3 |-> p]
           B(p, q) == DrawnBefore(p, q, bal, id, scope)
<1>1. \A p, q \in 1..3 : p # q => B(p, q) \/ B(q, p)
  BY DEF DrawnBefore
<1>2. \A p, q, r \in 1..3 : B(p, q) /\ B(q, r) => B(p, r)
  BY DEF DrawnBefore
<1> HIDE DEF B
<1>3. \E a, b, c \in 1..3 : {a, b, c} = 1..3 /\ B(a, b) /\ B(b, c) /\ B(a, c)
  <2>1. 1..3 = {1, 2, 3}
    OBVIOUS
  <2>0. /\ B(1, 2) \/ B(2, 1)
        /\ B(1, 3) \/ B(3, 1)
        /\ B(2, 3) \/ B(3, 2)
    BY <1>1
  <2>2. CASE B(1, 2) /\ B(2, 3)
    BY <2>1, <2>2, <1>2
  <2>3. CASE B(1, 3) /\ B(3, 2)
    BY <2>1, <2>3, <1>2
  <2>4. CASE B(2, 1) /\ B(1, 3)
    BY <2>1, <2>4, <1>2
  <2>5. CASE B(2, 3) /\ B(3, 1)
    BY <2>1, <2>5, <1>2
  <2>6. CASE B(3, 1) /\ B(1, 2)
    BY <2>1, <2>6, <1>2
  <2>7. CASE B(3, 2) /\ B(2, 1)
    BY <2>1, <2>7, <1>2
  <2> QED BY <2>0, <2>2, <2>3, <2>4, <2>5, <2>6, <2>7
<1>4. PICK a \in 1..3, b \in 1..3, c \in 1..3 :
        {a, b, c} = 1..3 /\ B(a, b) /\ B(b, c) /\ B(a, c)
  BY <1>3
<1> DEFINE o == [i \in 1..3 |-> IF i = 1 THEN a ELSE IF i = 2 THEN b ELSE c]
<1>5. o \in [1..3 -> 1..3] /\ o[1] = a /\ o[2] = b /\ o[3] = c
  OBVIOUS
<1> HIDE DEF o
<1>6. Range(o) = 1..3
  <2>1. DOMAIN o = {1, 2, 3}
    BY <1>5
  <2>2. {o[x] : x \in DOMAIN o} = {a, b, c}
    BY <2>1, <1>5
  <2> QED BY <2>2, <1>4 DEF Range
<1>7. \A i, j \in 1..3 : i < j => B(o[i], o[j])
  <2> SUFFICES ASSUME NEW i \in 1..3, NEW j \in 1..3, i < j PROVE B(o[i], o[j])
    OBVIOUS
  <2>1. (i = 1 /\ j = 2) \/ (i = 1 /\ j = 3) \/ (i = 2 /\ j = 3)
    OBVIOUS
  <2> QED BY <2>1, <1>4, <1>5
<1> QED BY <1>5, <1>6, <1>7 DEF B

(* DrawIsTheDraw for pools of any balance and refunds of any amount.       *)
THEOREM EveryRefundIsTheDraw ==
  ASSUME MaxBalance \in Nat
  PROVE  RulesSpec => []DrawIsTheDraw
<1> DEFINE S == 1..3
           id == [p \in S |-> p]
           bal == input.bal
           amount == input.amount
           scope == input.scope
           order == Visited
           result == DrawFromEscrow(order, amount, bal)
           Draws == {d \in [S -> 0..MaxBalance] : IsDraw(d, S, amount, bal, id, scope)}
           Total == SumFunctionOnSet(Worth(S, bal), S)
<1>1. ASSUME input \in RulesInputs, input.rule = "draw"
      PROVE  /\ IF Total < amount THEN result.refused
                ELSE ~result.refused /\ Draws = {result.draw}
  <2>1. /\ amount \in Nat /\ bal \in [S -> Int]
        /\ \A p \in S : bal[p] <= MaxBalance
    <3>1. input \in [rule : {"draw"}, amount : 1..(3 * MaxBalance + 1),
                     bal : [S -> (-1)..MaxBalance], scope : 0..3]
      BY <1>1 DEF RulesInputs
    <3>2. \A x \in 1..(3 * MaxBalance + 1) : x \in Nat
      OBVIOUS
    <3>3. \A x \in (-1)..MaxBalance : x \in Int /\ x <= MaxBalance
      OBVIOUS
    <3>4. amount \in 1..(3 * MaxBalance + 1) /\ bal \in [S -> (-1)..MaxBalance]
      BY <3>1
    <3>5. \A p \in S : bal[p] \in Int /\ bal[p] <= MaxBalance
      BY <3>3, <3>4
    <3> HIDE DEF bal, amount
    <3>6. bal \in [S -> Int]
      BY <3>4, <3>5
    <3> QED BY <3>2, <3>4, <3>5, <3>6
  <2>2. order \in [S -> S] /\ Range(order) = S /\
        \A i, j \in S : i < j => DrawnBefore(order[i], order[j], bal, id, scope)
    <3>1. \E o \in [S -> S] :
            /\ Range(o) = S
            /\ \A i, j \in S : i < j => DrawnBefore(o[i], o[j], bal, id, scope)
      BY <2>1, OrderExists
    <3>2. order = CHOOSE o \in [S -> S] :
            /\ Range(o) = S
            /\ \A i, j \in S : i < j => DrawnBefore(o[i], o[j], bal, id, scope)
      BY DEF Visited
    <3> DEFINE Fits(o) == /\ Range(o) = S
                          /\ \A i, j \in S : i < j => DrawnBefore(o[i], o[j], bal, id, scope)
    <3>3. (\E o \in [S -> S] : Fits(o)) /\ order = CHOOSE o \in [S -> S] : Fits(o)
      BY <3>1, <3>2
    <3> HIDE DEF Fits, order
    <3>4. order \in [S -> S] /\ Fits(order)
      BY <3>3
    <3> QED BY <3>4 DEF Fits
  <2>3. IsFiniteSet(S)
    BY Three
  <2>4. id \in [S -> Int] /\ \A p, q \in S : id[p] = id[q] => p = q
    OBVIOUS
  <2>5. order \in Seq(S) /\ Len(order) = 3
    <3>1. order \in [S -> S] /\ S = 1..3
      BY <2>2
    <3> HIDE DEF order, S
    <3>2. order = <<order[1], order[2], order[3]>> /\ order[1] \in S /\ order[2] \in S
          /\ order[3] \in S
      BY <3>1
    <3>3. \A a, b, c \in S : <<a, b, c>> \in Seq(S) /\ Len(<<a, b, c>>) = 3
      OBVIOUS
    <3> QED BY <3>2, <3>3
  <2> HIDE DEF bal, amount, scope, order, id
  <2>6. DrawOrder(order, S, bal, id, scope)
    BY <2>2, <2>5 DEF DrawOrder
  <2> HIDE DEF S
  <2>7. /\ result.refused <=> Total < amount
        /\ ~result.refused => /\ result.draw \in [S -> Nat]
                              /\ IsDraw(result.draw, S, amount, bal, id, scope)
    BY <2>1, <2>3, <2>4, <2>6, LoopIsADraw
  <2>8. ASSUME ~result.refused PROVE Draws = {result.draw}
    <3> DEFINE d == result.draw
    <3>1. d \in [S -> Nat] /\ IsDraw(d, S, amount, bal, id, scope)
      BY <2>7, <2>8
    <3> HIDE DEF d, result
    <3>2. d \in Draws
      <4>1. \A p \in S : d[p] \in 0..MaxBalance
        <5> TAKE p \in S
        <5>1. d[p] \in Nat /\ d[p] <= NonNeg(bal[p]) /\ bal[p] <= MaxBalance /\ bal[p] \in Int
          BY <2>1, <3>1 DEF IsDraw
        <5> QED BY <5>1 DEF NonNeg
      <4>2. d \in [S -> 0..MaxBalance]
        BY <3>1, <4>1
      <4> QED BY <3>1, <4>2
    <3>3. ASSUME NEW e \in Draws PROVE e = d
      <4>1. e \in [S -> 0..MaxBalance] /\ IsDraw(e, S, amount, bal, id, scope)
        OBVIOUS
      <4>2. \A x \in 0..MaxBalance : x \in Nat
        OBVIOUS
      <4>3. e \in [S -> Nat]
        BY <4>1, <4>2
      <4> QED BY <4>1, <4>3, <3>1, <2>1, <2>3, <2>4, OneDraw
    <3> QED BY <3>2, <3>3 DEF d
  <2> QED BY <2>7, <2>8
<1>2. ASSUME input \in RulesInputs, input.rule = "draw" PROVE DrawIsTheDraw
  <2>1. SumFunction([p \in S |-> NonNeg(bal[p])]) = Total
    BY DEF Worth, SumFunction
  <2>2. DrawIsTheDraw <=>
          IF SumFunction([p \in S |-> NonNeg(bal[p])]) < amount
          THEN result.refused
          ELSE ~result.refused /\ Draws = {result.draw}
    BY <1>2 DEF DrawIsTheDraw
  <2> HIDE DEF S, bal, amount, result, Draws, Total
  <2> QED BY <1>1, <1>2, <2>1, <2>2
<1>3. input \in RulesInputs => DrawIsTheDraw
  BY <1>2 DEF DrawIsTheDraw
<1> QED BY <1>3, InputsOnly, PTL

(* FeesAddUp for packages and milestones of any price.                     *)
THEOREM EveryCutAddsUp ==
  ASSUME MaxGross \in Nat, MaxAmount \in Nat
  PROVE  RulesSpec => []FeesAddUp
<1> DEFINE S == 1..3
           m == MaxFee
           t == TalentShare
<1>n. IsFiniteSet(S) /\ Cardinality(S) = 3 /\ \A i \in S : i \in Int
  <2>1. Cardinality(1..3) = 3
    <3>1. \A a, b \in Int : Cardinality(a..b) = IF a > b THEN 0 ELSE b - a + 1
      BY FS_Interval
    <3>2. 1 \in Int /\ 3 \in Int /\ ~(1 > 3) /\ 3 - 1 + 1 = 3
      OBVIOUS
    <3> QED BY <3>1, <3>2
  <2>2. \A i \in S : i \in Int
    OBVIOUS
  <2> QED BY <2>1, <2>2, Three
<1>1. ASSUME NEW amount \in [S -> Nat]
      PROVE  LET total == ProjectTalentPayout(SumFunction(amount), m, t)
                 paid  == PackagePayouts(amount, total)
             IN  SumFunction(paid) = total /\ \A i \in S : paid[i] \in 0..amount[i]
  <2> DEFINE price == SumFunctionOnSet(amount, S)
             total == ProjectTalentPayout(price, m, t)
             paid == PackagePayouts(amount, total)
             P == {i \in S : amount[i] > 0}
  <2>1. price \in Nat
    <3> DEFINE zero == [i \in S |-> 0]
    <3>1. \A i \in S : zero[i] = 0 /\ zero[i] \in Int /\ amount[i] \in Int /\ zero[i] <= amount[i]
      OBVIOUS
    <3> HIDE DEF zero, S
    <3>2. SumFunctionOnSet(zero, S) = 0 /\ SumFunctionOnSet(zero, S) <= price
      BY <3>1, <1>n, SumZero, SumMonotone
    <3>3. price \in Int
      BY <3>1, <1>n, SumRemove
    <3> QED BY <3>2, <3>3
  <2>2. total \in 0..price
    <3>1. /\ m \in Seq(Nat) /\ \A a, b \in 1..Len(m) : a < b => m[a] <= m[b]
          /\ t \in [1..(Len(m) + 1) -> 0..100]
      BY PublishedBands
    <3> HIDE DEF m, t, price
    <3> QED BY <2>1, <3>1, PayoutWithinPrice
  <2>3. IsFiniteSet(P) /\ Cardinality(P) <= 3
    <3>1. P \subseteq S
      OBVIOUS
    <3> HIDE DEF P, S
    <3> QED BY <1>n, <3>1, FS_Subset
  <2>4. SumFunctionOnSet(paid, S) = total /\ \A i \in S : paid[i] \in 0..amount[i]
    <3>1. total \in Nat /\ total <= price
      BY <2>1, <2>2
    <3>2. Cardinality(P) = Cardinality({i \in S : amount[i] > 0})
      OBVIOUS
    <3> HIDE DEF S, total, P
    <3> QED BY <1>n, <2>3, <3>1, <3>2, PackagesAddUp
  <2>5. DOMAIN amount = S /\ DOMAIN paid = S
    BY DEF PackagePayouts
  <2>6. SumFunction(amount) = price
    BY <2>5 DEF SumFunction
  <2>7. SumFunction(paid) = SumFunctionOnSet(paid, S)
    <3> HIDE DEF paid, S
    <3> QED BY <2>5 DEF SumFunction
  <2> HIDE DEF S, m, t, price
  <2> QED BY <2>4, <2>6, <2>7
<1>2. ASSUME NEW gross \in Nat, gross > 0, NEW payout \in Nat, NEW parts \in [S -> Nat],
             SumFunction(parts) = gross,
             \A i \in S : MilestoneFee(parts[i], gross, payout) >= 0
      PROVE  LET drift == SumFunction([i \in S |->
                            parts[i] - MilestoneFee(parts[i], gross, payout)]) - payout
             IN  2 * drift <= 3 /\ 2 * drift >= -3
  <2> DEFINE paid == [i \in S |-> parts[i] - MilestoneFee(parts[i], gross, payout)]
  <2>1. DOMAIN parts = S /\ DOMAIN paid = S
    OBVIOUS
  <2>2. gross \in Int /\ payout \in Int /\ parts \in [S -> Int]
    OBVIOUS
  <2>3. SumFunctionOnSet(parts, S) = gross
    BY <1>2, <2>1 DEF SumFunction
  <2>4. SumFunction(paid) = SumFunctionOnSet(paid, S)
    <3> HIDE DEF paid, S
    <3> QED BY <2>1 DEF SumFunction
  <2>5. LET drift == SumFunctionOnSet([i \in S |->
                       parts[i] - MilestoneFee(parts[i], gross, payout)], S) - payout
        IN  2 * drift <= Cardinality(S) /\ 2 * drift >= -Cardinality(S)
    <3> HIDE DEF S
    <3> QED BY <1>2, <1>n, <2>2, <2>3, FeesDriftByHalves
  <2>6. LET drift == SumFunctionOnSet(paid, S) - payout
        IN  2 * drift <= 3 /\ 2 * drift >= -3
    <3> HIDE DEF S
    <3> QED BY <2>5, <1>n
  <2> QED BY <2>4, <2>6
<1>3. ASSUME input \in RulesInputs, input.rule = "packages"
      PROVE  input.amount \in [S -> Nat]
  <2>1. input \in [rule : {"packages"}, amount : [S -> 0..MaxAmount]]
    BY <1>3 DEF RulesInputs
  <2>2. \A x \in 0..MaxAmount : x \in Nat
    OBVIOUS
  <2> QED BY <2>1, <2>2
<1>4. ASSUME input \in RulesInputs, input.rule = "fee"
      PROVE  /\ input.gross \in Nat /\ input.gross > 0 /\ input.payout \in Nat
             /\ input.parts \in [S -> Nat] /\ SumFunction(input.parts) = input.gross
  <2>1. /\ input \in [rule : {"fee"}, gross : 1..MaxGross, payout : 1..MaxGross,
                      parts : [S -> 1..MaxGross]]
        /\ SumFunction(input.parts) = input.gross
    BY <1>4 DEF RulesInputs
  <2>2. \A x \in 1..MaxGross : x \in Nat /\ x > 0
    OBVIOUS
  <2> QED BY <2>1, <2>2
<1>5. ASSUME input \in RulesInputs, input.rule = "packages" PROVE FeesAddUp
  <2> DEFINE total == ProjectTalentPayout(SumFunction(input.amount), m, t)
             paid == PackagePayouts(input.amount, total)
  <2>1. SumFunction(paid) = total /\ \A i \in S : paid[i] \in 0..input.amount[i]
    BY <1>1, <1>3, <1>5
  <2>2. FeesAddUp <=> SumFunction(paid) = total /\ \A i \in S : paid[i] \in 0..input.amount[i]
    BY <1>5 DEF FeesAddUp
  <2> HIDE DEF S, total, paid
  <2> QED BY <2>1, <2>2
<1>6. ASSUME input \in RulesInputs, input.rule = "fee" PROVE FeesAddUp
  <2> DEFINE fee == [i \in S |-> MilestoneFee(input.parts[i], input.gross, input.payout)]
             kept == [i \in S |-> input.parts[i] - fee[i]]
  <2>1. (\A i \in S : fee[i] >= 0) =>
          LET drift == SumFunction(kept) - input.payout
          IN  2 * drift <= 3 /\ 2 * drift >= -3
    BY <1>2, <1>4, <1>6
  <2>2. FeesAddUp <=>
          ((\A i \in S : fee[i] >= 0) =>
             LET drift == SumFunction(kept) - input.payout
             IN  2 * drift <= 3 /\ 2 * drift >= -3)
    BY <1>6 DEF FeesAddUp
  <2> HIDE DEF S, fee, kept
  <2> QED BY <2>1, <2>2
<1>7. input \in RulesInputs => FeesAddUp
  BY <1>5, <1>6 DEF FeesAddUp
<1> QED BY <1>7, InputsOnly, PTL
=============================================================================
