--------------------------- MODULE FormulaProofs ---------------------------
(***************************************************************************)
(* Facts about the formulas the modes share.  For every word size, search  *)
(* bound, cost and budget: integers stay in the word, and on the inputs    *)
(* the arithmetic is exact for, DeriveCeiling and Require are the two      *)
(* sides of one inequality.  For every scheme of the table: what the       *)
(* measured sizes and their breakdown add up to.                           *)
(*                                                                         *)
(* Loops are recursive functions here.  That one exists and is unique is   *)
(* shown from the well-foundedness of the numbers (RecursionExists), and   *)
(* with it that the closed form of varintLen is the loop of the code.      *)
(***************************************************************************)
EXTENDS Ceiling, Measure, FiniteSetTheorems, WellFoundedInduction, TLAPS

(* What the prover needs to know of \div and %.                            *)
LEMMA DivBounds ==
  ASSUME NEW a \in Int, NEW d \in Nat \ {0}
  PROVE  /\ a \div d \in Int
         /\ (a \div d) * d <= a
         /\ a < (a \div d) * d + d
  BY SMT

LEMMA ModBounds ==
  ASSUME NEW a \in Int, NEW d \in Nat \ {0}
  PROVE  a % d \in 0 .. d - 1
  BY SMT

LEMMA ModSmall ==
  ASSUME NEW d \in Nat \ {0}, NEW a \in 0 .. d - 1
  PROVE  a % d = a
  BY SMT

LEMMA ProductMonotone ==
  ASSUME NEW m \in Int, NEW n \in Int, NEW d \in Nat, m <= n
  PROVE  m * d <= n * d
  BY SMT

(* Integer division is the right adjoint of multiplication: the one fact   *)
(* that lets the ceiling model be inverted without a remainder of doubt.   *)
LEMMA DivisionInverts ==
  ASSUME NEW a \in Int, NEW d \in Nat \ {0}, NEW n \in Int
  PROVE  n <= a \div d <=> n * d <= a
<1> DEFINE q == a \div d
<1>1. q \in Int /\ q * d <= a /\ a < q * d + d
  BY DivBounds
<1>2. ASSUME n <= q PROVE n * d <= a
  <2>1. n * d <= q * d
    BY <1>1, <1>2, ProductMonotone
  <2> QED BY <1>1, <2>1
<1>3. ASSUME q < n PROVE n * d > a
  <2>1. (q + 1) * d <= n * d
    BY <1>1, <1>3, ProductMonotone
  <2>2. (q + 1) * d = q * d + d
    BY <1>1
  <2> QED BY <1>1, <2>1, <2>2
<1> QED BY <1>1, <1>2, <1>3

-----------------------------------------------------------------------------
(* An int64 operation always yields an int64, and the exact result when    *)
(* that is one.                                                            *)
LEMMA WrapInWord == \A x \in Int : Wrap(x) \in Int64
  BY MaxIntAssumption, ModBounds DEF Wrap, Int64, MinInt

LEMMA WrapIdentity == \A x \in Int64 : Wrap(x) = x
  BY MaxIntAssumption, ModSmall DEF Wrap, Int64, MinInt

LEMMA QuoOfNaturals ==
  ASSUME NEW a \in Nat, NEW d \in Nat \ {0}
  PROVE  Quo(a, d) = a \div d
  BY DEF Quo, AbsVal

LEMMA QuoInteger ==
  ASSUME NEW a \in Int, NEW d \in Int \ {0}
  PROVE  Quo(a, d) \in Int
<1> DEFINE q == AbsVal(a) \div AbsVal(d)
<1>1. AbsVal(a) \in Nat /\ AbsVal(d) \in Nat \ {0}
  BY DEF AbsVal
<1>2. q \in Int
  BY <1>1, DivBounds
<1> QED BY <1>2 DEF Quo

(* Truncating division by a positive number moves toward zero.             *)
LEMMA QuoTowardZero ==
  ASSUME NEW a \in Int, NEW d \in Nat \ {0}
  PROVE  /\ a >= 0 => Quo(a, d) \in 0 .. a /\ Quo(a, d) * d <= a
         /\ a < 0 => Quo(a, d) \in a .. 0
<1>1. CASE a >= 0
  <2>1. Quo(a, d) = a \div d
    BY <1>1, QuoOfNaturals
  <2>2. 0 <= a \div d /\ a \div d \in Int
    BY <1>1, DivisionInverts, DivBounds
  <2>3. (a \div d) * d <= a
    BY DivBounds
  <2>4. (a \div d) <= (a \div d) * d
    BY <2>2
  <2> QED BY <1>1, <2>1, <2>2, <2>3, <2>4
<1>2. CASE a < 0
  <2> DEFINE q == (-a) \div d
  <2>1. Quo(a, d) = -q
    BY <1>2 DEF Quo, AbsVal
  <2>2. q \in Int /\ 0 <= q /\ q * d <= -a
    BY <1>2, DivisionInverts, DivBounds
  <2>3. q <= q * d
    BY <2>2
  <2> QED BY <1>2, <2>1, <2>2, <2>3
<1> QED BY <1>1, <1>2

(* Whatever the float64 is, its conversion is an int64.                    *)
LEMMA FloatToIntInWord ==
  ASSUME NEW arch, NEW x \in Int, NEW y \in Int
  PROVE  FloatToInt(arch, <<x, y>>) \in Int64
  BY MaxIntAssumption DEF FloatToInt, OutOfRange, NaNToInt, Int64, MinInt

-----------------------------------------------------------------------------
LEMMA BudgetShape ==
  ASSUME NEW b \in Budgets
  PROVE  /\ b.link \in Int
         /\ b.round \in Nat \X Nat
         /\ b.round[1] \in Nat
         /\ b.round[2] \in Nat
         /\ b.peers \in Nat \ {0}
         /\ b.peers <= MaxInt
  BY MaxIntAssumption DEF Budgets, Rounds, Int64, MinInt

LEMMA BudgetBytesInWord ==
  ASSUME NEW arch, NEW b \in Budgets
  PROVE  BudgetBytes(arch, b) \in Int64
<1>1. b.link * b.round[1] \in Int /\ 8 * b.round[2] \in Int
  BY BudgetShape
<1> QED BY <1>1, FloatToIntInWord DEF BudgetBytes

(* The whole bytes of an exact budget.                                     *)
WholeBytes(b) == (b.link * b.round[1]) \div (8 * b.round[2])

LEMMA ExactBudgetBytes ==
  ASSUME NEW arch, NEW b \in Budgets, ExactBudget(b)
  PROVE  /\ BudgetBytes(arch, b) = WholeBytes(b)
         /\ WholeBytes(b) \in 0 .. MaxInt
<1> DEFINE a == b.link * b.round[1]
           d == 8 * b.round[2]
<1>1. b.link \in Nat /\ b.round[1] \in Nat /\ b.round[2] \in Nat \ {0}
  BY BudgetShape DEF ExactBudget, Finite
<1>2. a \in Nat /\ d \in Nat \ {0}
  BY <1>1
<1>3. a < (MaxInt + 1) * d
  BY <1>1, MaxIntAssumption DEF ExactBudget
<1>4. a \div d \in Int /\ 0 <= a \div d /\ ~(MaxInt + 1 <= a \div d)
  <2> HIDE DEF a, d
  <2> QED BY <1>2, <1>3, DivisionInverts, DivBounds, MaxIntAssumption
<1>5. a \div d \in 0 .. MaxInt
  <2> HIDE DEF a, d
  <2> QED BY <1>4, MaxIntAssumption
<1>6. Quo(a, d) = a \div d
  <2> HIDE DEF a, d
  <2> QED BY <1>2, QuoOfNaturals
<1>7. FloatToInt(arch, <<a, d>>) = a \div d
  <2> HIDE DEF a, d
  <2> QED BY <1>2, <1>5, <1>6, MaxIntAssumption DEF FloatToInt, Int64, MinInt
<1> QED BY <1>5, <1>7 DEF BudgetBytes, WholeBytes

-----------------------------------------------------------------------------
LEMMA ExactDivisor ==
  ASSUME NEW b \in Budgets, NEW k \in Nat \ {0}, k * b.peers <= MaxInt
  PROVE  /\ Wrap(k * b.peers) = k * b.peers
         /\ k * b.peers \in Nat \ {0}
<1>1. b.peers \in Nat \ {0}
  BY BudgetShape
<1>2. k * b.peers \in Nat \ {0}
  BY <1>1
<1>3. k * b.peers \in Int64
  BY <1>2, MaxIntAssumption DEF Int64, MinInt
<1> QED BY <1>2, <1>3, WrapIdentity

(***************************************************************************)
(* On exact inputs a set of n validators fits the round exactly when n is  *)
(* at most the quotient DeriveCeiling computes.                            *)
(***************************************************************************)
LEMMA QuotientIsCapacity ==
  ASSUME NEW arch, NEW b \in Budgets, NEW cost \in Nat \ {0}, ExactCeiling(cost, b)
  PROVE  /\ perValidator(cost, b) > 0
         /\ Quotient(arch, cost, b) \in Nat
         /\ \A n \in Nat : FitsInRound(cost, n, b) <=> n <= Quotient(arch, cost, b)
<1> DEFINE d == cost * b.peers
           w == WholeBytes(b)
<1>1. perValidator(cost, b) = d /\ d \in Nat \ {0}
  BY ExactDivisor DEF ExactCeiling, perValidator
<1>2. BudgetBytes(arch, b) = w /\ w \in Nat
  BY ExactBudgetBytes, MaxIntAssumption DEF ExactCeiling
<1>3. Quotient(arch, cost, b) = w \div d
  <2> HIDE DEF d, w
  <2> QED BY <1>1, <1>2, QuoOfNaturals DEF Quotient
<1>4. w \div d \in Nat
  <2> HIDE DEF d, w
  <2>1. w \div d \in Int /\ 0 <= w \div d
    BY <1>1, <1>2, DivBounds, DivisionInverts
  <2> QED BY <2>1
<1>5. ASSUME NEW n \in Nat PROVE FitsInRound(cost, n, b) <=> n <= w \div d
  <2>1. FitsInRound(cost, n, b) <=> n * cost * b.peers <= w
    BY DEF FitsInRound, WholeBytes, ExactCeiling, ExactBudget
  <2>2. n * cost * b.peers = n * d
    BY BudgetShape
  <2>3. n <= w \div d <=> n * d <= w
    <3> HIDE DEF d, w
    <3> QED BY <1>1, <1>2, DivisionInverts
  <2> QED BY <2>1, <2>2, <2>3
<1> HIDE DEF d, w
<1> QED BY <1>1, <1>3, <1>4, <1>5

(***************************************************************************)
(* DeriveCeiling returns the largest set that fits (ceiling.go, 28-43): up *)
(* to the search bound, the sets that fit are those up to the ceiling, and *)
(* the ceiling is flagged exactly when the bound cuts it short.            *)
(***************************************************************************)
THEOREM CeilingIsCapacity ==
  ASSUME NEW arch, NEW b \in Budgets, NEW cost \in Nat \ {0}, ExactCeiling(cost, b)
  PROVE  LET c == DeriveCeiling(arch, cost, b)
         IN  /\ c.maxValidators \in 0 .. searchMax
             /\ \A n \in 0 .. searchMax : FitsInRound(cost, n, b) <=> n <= c.maxValidators
             /\ c.limitedBySearch <=> FitsInRound(cost, searchMax + 1, b)
<1> DEFINE q == Quotient(arch, cost, b)
           c == DeriveCeiling(arch, cost, b)
<1>1. q \in Nat /\ perValidator(cost, b) > 0
  BY QuotientIsCapacity
<1>2. \A n \in Nat : FitsInRound(cost, n, b) <=> n <= q
  BY QuotientIsCapacity
<1>3. c.maxValidators = ClampToSearch(q) /\ (c.limitedBySearch <=> BeyondSearch(q))
  BY <1>1 DEF DeriveCeiling
<1>4. searchMax \in Nat
  BY searchMaxAssumption, MaxIntAssumption
<1> HIDE DEF q, c
<1>5. ClampToSearch(q) \in 0 .. searchMax
  BY <1>1, <1>4 DEF ClampToSearch, BeyondSearch
<1>6. ASSUME NEW n \in 0 .. searchMax PROVE n <= ClampToSearch(q) <=> n <= q
  BY <1>1, <1>4 DEF ClampToSearch, BeyondSearch
<1>7. BeyondSearch(q) <=> searchMax + 1 <= q
  BY <1>1, <1>4 DEF BeyondSearch
<1>8. \A n \in 0 .. searchMax : FitsInRound(cost, n, b) <=> n <= c.maxValidators
  BY <1>2, <1>3, <1>4, <1>6
<1>9. c.limitedBySearch <=> FitsInRound(cost, searchMax + 1, b)
  BY <1>2, <1>3, <1>4, <1>7
<1> QED BY <1>3, <1>5, <1>8, <1>9 DEF c

(***************************************************************************)
(* Require is the inverse (solve.go, 8-13): a cost meets the requirement   *)
(* of n validators exactly when n validators of that cost fit the round.   *)
(***************************************************************************)
THEOREM RequirementIsInverse ==
  ASSUME NEW arch, NEW b \in Budgets, NEW cost \in Nat \ {0}, NEW n \in Nat \ {0},
         ExactRequirement(n, b)
  PROVE  /\ ~RequirePanics(n, b)
         /\ Assess(arch, cost, n, b).feasible <=> FitsInRound(cost, n, b)
<1> DEFINE d == n * b.peers
           w == WholeBytes(b)
           m == MaxCostPerRound(arch, n, b)
<1>1. Divisor(n, b) = d /\ d \in Nat \ {0}
  BY ExactDivisor DEF ExactRequirement, Divisor
<1>2. BudgetBytes(arch, b) = w /\ w \in 0 .. MaxInt
  BY ExactBudgetBytes DEF ExactRequirement
<1>3. m = w \div d
  <2> HIDE DEF d, w
  <2>0. w \in Nat /\ w \in Int /\ w >= 0
    BY <1>2, MaxIntAssumption
  <2>1. Quo(w, d) = w \div d /\ Quo(w, d) \in 0 .. w
    BY <1>1, <2>0, QuoOfNaturals, QuoTowardZero
  <2>2. Quo(w, d) \in Int64
    BY <1>2, <2>1, MaxIntAssumption DEF Int64, MinInt
  <2> QED BY <1>1, <1>2, <2>1, <2>2, WrapIdentity DEF MaxCostPerRound
<1>4. cost <= m <=> FitsInRound(cost, n, b)
  <2>1. FitsInRound(cost, n, b) <=> n * cost * b.peers <= w
    BY DEF FitsInRound, WholeBytes, ExactRequirement, ExactBudget
  <2>2. n * cost * b.peers = cost * d
    BY BudgetShape
  <2>3. cost <= w \div d <=> cost * d <= w
    <3> HIDE DEF d, w
    <3> QED BY <1>1, <1>2, DivisionInverts
  <2> QED BY <1>3, <2>1, <2>2, <2>3
<1>5. m \in Int
  <2> HIDE DEF d, w
  <2> QED BY <1>1, <1>2, <1>3, DivBounds
<1>6. Assess(arch, cost, n, b).feasible <=> cost <= m
  <2> HIDE DEF m
  <2>1. Assess(arch, cost, n, b).feasible <=> Affordable(cost, MaxCostPerRound(arch, n, b))
    BY DEF Assess
  <2> QED BY <1>5, <2>1 DEF Affordable, m
<1>7. ~RequirePanics(n, b)
  BY <1>1 DEF RequirePanics
<1> QED BY <1>4, <1>6, <1>7

(***************************************************************************)
(* Without any condition on the input: the ceiling is in range, and its    *)
(* bytes are at most the budget's (ceiling.go, 51-65).                     *)
(***************************************************************************)
THEOREM UseIsWithinBudget ==
  ASSUME NEW arch, NEW b \in Budgets, NEW cost \in Int
  PROVE  LET c == DeriveCeiling(arch, cost, b)
         IN  /\ c.maxValidators \in 0 .. searchMax
             /\ c.bytesAtMax \in Nat /\ c.bytesAtMax \in Int64
             /\ c.budgetBytes \in Int64
             /\ c.maxValidators > 0 => c.bytesAtMax <= c.budgetBytes
             /\ c.utilization \in Int \X Int
             /\ c.utilization[1] <= c.utilization[2]
<1> DEFINE p == perValidator(cost, b)
           w == BudgetBytes(arch, b)
           q == Quotient(arch, cost, b)
           m == ClampToSearch(q)
           c == DeriveCeiling(arch, cost, b)
<1>1. w \in Int64 /\ w \in Int
  BY BudgetBytesInWord, MaxIntAssumption DEF Int64, MinInt
<1>2. cost * b.peers \in Int
  BY BudgetShape
<1>3. p \in Int
  BY <1>2, WrapInWord, MaxIntAssumption DEF perValidator, Int64, MinInt
<1>4. searchMax \in Nat
  BY searchMaxAssumption, MaxIntAssumption
<1>5. CASE ~(p > 0)
  <2>1. c.maxValidators = 0 /\ c.bytesAtMax = 0 /\ c.budgetBytes = w
        /\ c.utilization = <<0, 1>>
    BY <1>5 DEF DeriveCeiling
  <2>2. 0 \in Int64
    BY MaxIntAssumption DEF Int64, MinInt
  <2> QED BY <1>1, <1>4, <2>1, <2>2
<1>6. CASE p > 0
  <2>1. p \in Nat \ {0} /\ q = Quo(w, p)
    BY <1>3, <1>6 DEF Quotient
  <2>2. q \in Int /\ (w >= 0 => q \in Nat /\ q * p <= w) /\ (w < 0 => q <= 0)
    <3> HIDE DEF p, w, q
    <3> QED BY <1>1, <2>1, QuoTowardZero
  <2>3. m \in 0 .. searchMax /\ (w >= 0 => m <= q) /\ (w < 0 => m = 0)
    <3> HIDE DEF q, w
    <3> QED BY <1>4, <2>2, <1>1 DEF ClampToSearch, BeyondSearch
  <2>4. m * p \in Nat /\ (w >= 0 => m * p <= w) /\ (w < 0 => m * p = 0)
    <3> HIDE DEF p, w, q, m
    <3>1. CASE w >= 0
      <4>1. m * p <= q * p
        BY <2>1, <2>2, <2>3, <1>4, <3>1, ProductMonotone
      <4> QED BY <1>1, <1>4, <2>1, <2>2, <2>3, <3>1, <4>1
    <3>2. CASE w < 0
      BY <1>1, <2>1, <2>3, <3>2
    <3> QED BY <1>1, <3>1, <3>2
  <2>5. m * p \in Int64
    <3> HIDE DEF p, w, q, m
    <3> QED BY <1>1, <2>4, MaxIntAssumption DEF Int64, MinInt
  <2>6. Wrap(m * p) = m * p
    BY <2>5, WrapIdentity
  <2>7. c.maxValidators = m /\ c.bytesAtMax = m * p /\ c.budgetBytes = w
        /\ c.utilization = IF w > 0 THEN <<m * p, w>> ELSE <<0, 1>>
    BY <1>6, <2>6 DEF DeriveCeiling
  <2> HIDE DEF p, w, q, m, c
  <2>8. c.maxValidators > 0 => c.bytesAtMax <= c.budgetBytes
    BY <1>1, <2>3, <2>4, <2>7
  <2>9. c.utilization \in Int \X Int /\ c.utilization[1] <= c.utilization[2]
    <3>1. CASE w > 0
      BY <1>1, <2>4, <2>7, <3>1
    <3>2. CASE ~(w > 0)
      BY <2>7, <3>2
    <3> QED BY <3>1, <3>2
  <2> QED BY <1>1, <2>3, <2>4, <2>5, <2>7, <2>8, <2>9 DEF c
<1> QED BY <1>3, <1>5, <1>6

-----------------------------------------------------------------------------
(* Induction over the natural numbers, and the recursive definitions that  *)
(* rest on it.                                                             *)

(* A set of natural numbers that is not empty has a least one.             *)
LEMMA LeastNumber ==
  ASSUME NEW T \in SUBSET Nat, T # {}
  PROVE  \E least \in T : \A n \in T : least <= n
<1> DEFINE Less == {pair \in Nat \X Nat : pair[1] < pair[2]}
<1>1. IsWellFoundedOn(Less, Nat)
  BY NatLessThanWellFounded DEF OpToRel
<1> HIDE DEF Less
<1>2. PICK least \in T : \A n \in T : <<n, least>> \notin Less
  BY <1>1, WFMin
<1>3. ASSUME NEW n \in T PROVE least <= n
  <2>1. n \in Nat /\ least \in Nat /\ <<n, least>> \notin Less
    BY <1>2
  <2>2. ~(n < least)
    BY <2>1 DEF Less
  <2> QED BY <2>1, <2>2
<1> QED BY <1>3

(* What is true of a number if it is of all smaller ones is always true.   *)
LEMMA Induction ==
  ASSUME NEW T, \A n \in Nat : (\A k \in 0 .. n - 1 : k \in T) => n \in T
  PROVE  Nat \subseteq T
<1> DEFINE U == Nat \ T
<1> SUFFICES ASSUME U # {} PROVE FALSE
  OBVIOUS
<1>1. PICK n \in U : \A m \in U : n <= m
  BY LeastNumber
<1>2. ASSUME NEW k \in 0 .. n - 1 PROVE k \in T
  <2>1. k \in Nat /\ k < n /\ n \in Nat
    BY <1>1
  <2>2. k \notin U
    BY <1>1, <2>1
  <2> QED BY <2>1, <2>2
<1> QED BY <1>1, <1>2

(* What a recursive function f has to satisfy at n: its value is given, or *)
(* made of the value at a smaller number; and so at all numbers up to n.   *)
Recurs(f, n, B, b, d, s) == f[n] = IF n \in B THEN b[n] ELSE s[<<n, f[d[n]]>>]
RecursUpto(f, n, B, b, d, s) == \A k \in 0 .. n : Recurs(f, k, B, b, d, s)

(* Two functions that do so agree as far as both of them do.               *)
LEMMA RecursionAgrees ==
  ASSUME NEW B, NEW b, NEW s, NEW d \in [Nat -> Nat], \A k \in Nat \ B : d[k] < k,
         NEW n \in Nat, NEW m \in Nat, n <= m, NEW f, NEW g,
         RecursUpto(f, n, B, b, d, s), RecursUpto(g, m, B, b, d, s)
  PROVE  \A k \in 0 .. n : f[k] = g[k]
<1> DEFINE T == {k \in Nat : k <= n => f[k] = g[k]}
<1>1. ASSUME NEW k \in Nat, \A j \in 0 .. k - 1 : j \in T, k <= n PROVE f[k] = g[k]
  <2>1. Recurs(f, k, B, b, d, s) /\ Recurs(g, k, B, b, d, s)
    BY <1>1 DEF RecursUpto
  <2>2. CASE k \in B
    BY <2>1, <2>2 DEF Recurs
  <2>3. CASE k \notin B
    <3>1. d[k] \in 0 .. k - 1 /\ d[k] <= n
      BY <1>1, <2>3
    <3>2. f[d[k]] = g[d[k]]
      BY <1>1, <3>1
    <3> QED BY <2>1, <2>3, <3>2 DEF Recurs
  <2> QED BY <2>2, <2>3
<1>2. \A k \in Nat : (\A j \in 0 .. k - 1 : j \in T) => k \in T
  BY <1>1
<1> HIDE DEF T
<1>3. Nat \subseteq T
  BY <1>2, Induction
<1> QED BY <1>3 DEF T

(* There is one that does so everywhere.                                   *)
LEMMA RecursionExists ==
  ASSUME NEW S, NEW B, NEW b \in [Nat -> S], NEW s \in [Nat \X S -> S],
         NEW d \in [Nat -> Nat], \A k \in Nat \ B : d[k] < k
  PROVE  \E f \in [Nat -> S] : \A n \in Nat : Recurs(f, n, B, b, d, s)
<1> DEFINE Upto(n, f) == f \in [0 .. n -> S] /\ \A k \in 0 .. n : Recurs(f, k, B, b, d, s)
           T == {n \in Nat : \E f : Upto(n, f)}
<1>1. ASSUME NEW n \in Nat, \A k \in 0 .. n - 1 : k \in T PROVE \E f : Upto(n, f)
  <2>1. PICK h : h \in [0 .. n - 1 -> S] /\ \A k \in 0 .. n - 1 : Recurs(h, k, B, b, d, s)
    <3>1. CASE n = 0
      <4>1. 0 .. n - 1 = {}
        BY <3>1
      <4> WITNESS [k \in {} |-> 0]
      <4> QED BY <4>1
    <3>2. CASE n # 0
      <4>1. n - 1 \in 0 .. n - 1
        BY <3>2
      <4>2. n - 1 \in T
        BY <1>1, <4>1
      <4> QED BY <4>2
    <3> QED BY <3>1, <3>2
  <2> DEFINE top == IF n \in B THEN b[n] ELSE s[<<n, h[d[n]]>>]
             f == [k \in 0 .. n |-> IF k < n THEN h[k] ELSE top]
  <2>2. n \notin B => d[n] \in 0 .. n - 1
    OBVIOUS
  <2>3. top \in S
    BY <2>1, <2>2
  <2>4. \A k \in 0 .. n - 1 : f[k] = h[k] /\ h[k] \in S
    BY <2>1
  <2>5. f[n] = top
    OBVIOUS
  <2>6. \A k \in 0 .. n : k = n \/ k \in 0 .. n - 1
    OBVIOUS
  <2> HIDE DEF top
  <2>7. f \in [0 .. n -> S]
    BY <2>3, <2>4, <2>5, <2>6
  <2> HIDE DEF f
  <2>8. ASSUME NEW k \in 0 .. n PROVE Recurs(f, k, B, b, d, s)
    <3>1. CASE k = n
      <4>1. n \notin B => f[d[n]] = h[d[n]]
        BY <2>2, <2>4
      <4> QED BY <2>5, <3>1, <4>1 DEF Recurs, top
    <3>2. CASE k \in 0 .. n - 1
      <4>1. k \notin B => d[k] \in 0 .. n - 1
        BY <3>2
      <4>2. k \notin B => f[d[k]] = h[d[k]]
        BY <2>4, <4>1
      <4> QED BY <2>1, <2>4, <3>2, <4>2 DEF Recurs
    <3> QED BY <2>6, <3>1, <3>2
  <2> QED BY <2>7, <2>8
<1>2. Nat \subseteq T
  <2>1. \A n \in Nat : (\A k \in 0 .. n - 1 : k \in T) => n \in T
    BY <1>1
  <2> HIDE DEF T
  <2> QED BY <2>1, Induction
<1> DEFINE H(n) == CHOOSE f : Upto(n, f)
           g == [n \in Nat |-> H(n)[n]]
<1>3. \A n \in Nat : Upto(n, H(n))
  BY <1>2
<1> HIDE DEF H
<1>4. \A n \in Nat : g[n] = H(n)[n] /\ H(n)[n] \in S
  BY <1>3
<1>5. ASSUME NEW n \in Nat PROVE Recurs(g, n, B, b, d, s)
  <2>1. Recurs(H(n), n, B, b, d, s)
    BY <1>3
  <2>2. ASSUME n \notin B PROVE H(n)[d[n]] = H(d[n])[d[n]]
    <3>1. d[n] \in Nat /\ d[n] <= n /\ d[n] \in 0 .. d[n]
      BY <2>2
    <3>2. RecursUpto(H(d[n]), d[n], B, b, d, s) /\ RecursUpto(H(n), n, B, b, d, s)
      BY <1>3, <3>1 DEF RecursUpto
    <3> DEFINE m == d[n]  low == H(d[n])  high == H(n)
    <3>3. m \in Nat /\ m <= n /\ RecursUpto(low, m, B, b, d, s) /\ RecursUpto(high, n, B, b, d, s)
      BY <3>1, <3>2
    <3> HIDE DEF m, low, high
    <3>4. \A k \in 0 .. m : low[k] = high[k]
      BY <3>3, RecursionAgrees
    <3> QED BY <3>1, <3>4 DEF m, low, high
  <2>3. n \notin B => g[d[n]] = H(n)[d[n]]
    BY <1>4, <2>2
  <2> HIDE DEF g
  <2> QED BY <1>4, <2>1, <2>3 DEF Recurs, g
<1>6. g \in [Nat -> S]
  BY <1>4
<1> QED BY <1>5, <1>6

-----------------------------------------------------------------------------
(* The numbers at which a varint grows to its third, fourth and fifth byte. *)
twoTo14 == 128 * 128
twoTo21 == 128 * twoTo14
twoTo28 == 128 * twoTo21

(* Adding what is not there makes a set larger by one.                     *)
LEMMA NextPiece ==
  ASSUME NEW small, NEW x, IsFiniteSet(small), x \notin small
  PROVE  IsFiniteSet(small \cup {x}) /\ Cardinality(small \cup {x}) = Cardinality(small) + 1
BY FS_AddElement

(* The bytes of a varint, by the limits its number lies between.           *)
LEMMA VarintPieces ==
  ASSUME NEW n \in Int
  PROVE  varintLen(n) = IF n < 128 THEN 1 ELSE IF n < twoTo14 THEN 2 ELSE IF n < twoTo21 THEN 3
                        ELSE IF n < twoTo28 THEN 4 ELSE 5
<1> DEFINE reached == {s \in varintSteps : n >= s}
<1>1. /\ twoTo14 \in Nat /\ twoTo21 \in Nat /\ twoTo28 \in Nat
      /\ 128 < twoTo14 /\ twoTo14 < twoTo21 /\ twoTo21 < twoTo28
  BY SMT DEF twoTo14, twoTo21, twoTo28
<1>2. varintSteps = {128, twoTo14, twoTo21, twoTo28}
  <2>1. twoTo21 = 128*128*128 /\ twoTo28 = 128*128*128*128
    BY SMT DEF twoTo14, twoTo21, twoTo28
  <2> QED BY <2>1 DEF varintSteps, twoTo14
<1>3. varintLen(n) = 1 + Cardinality(reached)
  BY DEF varintLen
<1>4. /\ IsFiniteSet({128}) /\ Cardinality({128}) = 1
      /\ IsFiniteSet({128, twoTo14}) /\ Cardinality({128, twoTo14}) = 2
      /\ IsFiniteSet({128, twoTo14, twoTo21}) /\ Cardinality({128, twoTo14, twoTo21}) = 3
      /\ IsFiniteSet({128, twoTo14, twoTo21, twoTo28}) /\ Cardinality({128, twoTo14, twoTo21, twoTo28}) = 4
  <2> DEFINE s1 == {128}
             s2 == {128, twoTo14}
             s3 == {128, twoTo14, twoTo21}
             s4 == {128, twoTo14, twoTo21, twoTo28}
  <2>1. IsFiniteSet(s1) /\ Cardinality(s1) = 1
    BY FS_Singleton
  <2>2. twoTo14 \notin s1 /\ twoTo21 \notin s2 /\ twoTo28 \notin s3
    BY <1>1
  <2>3. s2 = s1 \cup {twoTo14} /\ s3 = s2 \cup {twoTo21} /\ s4 = s3 \cup {twoTo28}
    OBVIOUS
  <2> HIDE DEF s1, s2, s3, s4
  <2>4. IsFiniteSet(s2) /\ Cardinality(s2) = 2
    BY <2>1, <2>2, <2>3, NextPiece
  <2>5. IsFiniteSet(s3) /\ Cardinality(s3) = 3
    BY <2>2, <2>3, <2>4, NextPiece
  <2>6. IsFiniteSet(s4) /\ Cardinality(s4) = 4
    BY <2>2, <2>3, <2>5, NextPiece
  <2> QED BY <2>1, <2>4, <2>5, <2>6 DEF s1, s2, s3, s4
<1>5. CASE n < 128
  <2>1. reached = {}
    BY <1>1, <1>2, <1>5
  <2> QED BY <1>3, <1>5, <2>1, FS_EmptySet
<1>6. CASE n >= 128 /\ n < twoTo14
  <2>1. reached = {128}
    BY <1>1, <1>2, <1>6
  <2> QED BY <1>1, <1>3, <1>4, <1>6, <2>1
<1>7. CASE n >= twoTo14 /\ n < twoTo21
  <2>1. reached = {128, twoTo14}
    BY <1>1, <1>2, <1>7
  <2> QED BY <1>1, <1>3, <1>4, <1>7, <2>1
<1>8. CASE n >= twoTo21 /\ n < twoTo28
  <2>1. reached = {128, twoTo14, twoTo21}
    BY <1>1, <1>2, <1>8
  <2> QED BY <1>1, <1>3, <1>4, <1>8, <2>1
<1>9. CASE n >= twoTo28
  <2>1. reached = {128, twoTo14, twoTo21, twoTo28}
    BY <1>1, <1>2, <1>9
  <2> QED BY <1>1, <1>3, <1>4, <1>9, <2>1
<1> QED BY <1>1, <1>5, <1>6, <1>7, <1>8, <1>9

(* The loop of varintLen in handshake.go is a function that satisfies its  *)
(* definition.                                                             *)
LEMMA ShiftLoopStep ==
  \A n \in Nat : shiftLoop[n] = IF n < 128 THEN 1 ELSE 1 + shiftLoop[n \div 128]
<1> DEFINE B == 0 .. 127
           b == [k \in Nat |-> 1]
           s == [pair \in Nat \X Nat |-> 1 + pair[2]]
           d == [k \in Nat |-> k \div 128]
           Loop(f) == f = [n \in Nat |-> IF n < 128 THEN 1 ELSE 1 + f[n \div 128]]
<1>1. b \in [Nat -> Nat] /\ s \in [Nat \X Nat -> Nat]
  OBVIOUS
<1>2. d \in [Nat -> Nat] /\ \A k \in Nat : d[k] = k \div 128
  <2>1. \A k \in Nat : k \div 128 \in Nat
    BY SMT
  <2> QED BY <2>1
<1>3. \A k \in Nat \ B : d[k] < k
  <2>1. \A k \in Nat \ B : k \div 128 < k
    BY SMT
  <2> QED BY <1>2, <2>1
<1> HIDE DEF B, b, s, d
<1>4. PICK f \in [Nat -> Nat] : \A n \in Nat : Recurs(f, n, B, b, d, s)
  BY <1>1, <1>2, <1>3, RecursionExists
<1>5. ASSUME NEW n \in Nat PROVE f[n] = IF n < 128 THEN 1 ELSE 1 + f[n \div 128]
  <2>1. b[n] = 1 /\ (n \in B <=> n < 128)
    BY DEF b, B
  <2>2. d[n] = n \div 128 /\ d[n] \in Nat
    BY <1>2
  <2>3. s[<<n, f[d[n]]>>] = 1 + f[d[n]]
    BY <2>2 DEF s
  <2> QED BY <1>4, <2>1, <2>2, <2>3 DEF Recurs
<1>6. Loop(f)
  BY <1>5
<1>7. Loop(shiftLoop)
  BY <1>6 DEF shiftLoop
<1> QED BY <1>7

(* It counts at least one byte.                                            *)
LEMMA ShiftLoopType == \A n \in Nat : shiftLoop[n] \in Nat \ {0}
<1> DEFINE T == {n \in Nat : shiftLoop[n] \in Nat \ {0}}
<1>1. ASSUME NEW n \in Nat, \A k \in 0 .. n - 1 : k \in T PROVE n \in T
  <2>1. n >= 128 => n \div 128 \in 0 .. n - 1
    BY SMT
  <2> QED BY <1>1, <2>1, ShiftLoopStep
<1> HIDE DEF T
<1>2. Nat \subseteq T
  BY <1>1, Induction
<1> QED BY <1>2 DEF T

(* The closed form of the model is what the loop of the code computes.     *)
LEMMA VarintIsShiftLoop ==
  \A n \in Nat : n < 128 * twoTo28 => varintLen(n) = shiftLoop[n]
<1>1. /\ twoTo14 = 128 * 128 /\ twoTo21 = 128 * twoTo14 /\ twoTo28 = 128 * twoTo21
      /\ twoTo14 \in Nat /\ twoTo21 \in Nat /\ twoTo28 \in Nat
  BY SMT DEF twoTo14, twoTo21, twoTo28
<1> HIDE DEF twoTo14, twoTo21, twoTo28
<1>2. \A n, p \in Nat : n \div 128 \in Nat /\ (n < 128 * p <=> n \div 128 < p)
  BY SMT
<1>3. \A n \in Nat : n < 128 => shiftLoop[n] = 1
  BY ShiftLoopStep
<1>4. \A n \in Nat : n >= 128 /\ n < twoTo14 => shiftLoop[n] = 2
  <2> SUFFICES ASSUME NEW n \in Nat, n >= 128, n < twoTo14 PROVE shiftLoop[n] = 2
    OBVIOUS
  <2>1. n \div 128 \in Nat /\ n \div 128 < 128
    BY <1>1, <1>2
  <2> QED BY <1>3, <2>1, ShiftLoopStep
<1>5. \A n \in Nat : n >= twoTo14 /\ n < twoTo21 => shiftLoop[n] = 3
  <2> SUFFICES ASSUME NEW n \in Nat, n >= twoTo14, n < twoTo21 PROVE shiftLoop[n] = 3
    OBVIOUS
  <2>1. n \div 128 \in Nat /\ n \div 128 >= 128 /\ n \div 128 < twoTo14 /\ n >= 128
    BY <1>1, <1>2
  <2> QED BY <1>4, <2>1, ShiftLoopStep
<1>6. \A n \in Nat : n >= twoTo21 /\ n < twoTo28 => shiftLoop[n] = 4
  <2> SUFFICES ASSUME NEW n \in Nat, n >= twoTo21, n < twoTo28 PROVE shiftLoop[n] = 4
    OBVIOUS
  <2>1. n \div 128 \in Nat /\ n \div 128 >= twoTo14 /\ n \div 128 < twoTo21 /\ n >= 128
    BY <1>1, <1>2
  <2> QED BY <1>5, <2>1, ShiftLoopStep
<1>7. \A n \in Nat : n >= twoTo28 /\ n < 128 * twoTo28 => shiftLoop[n] = 5
  <2> SUFFICES ASSUME NEW n \in Nat, n >= twoTo28, n < 128 * twoTo28 PROVE shiftLoop[n] = 5
    OBVIOUS
  <2>1. n \div 128 \in Nat /\ n \div 128 >= twoTo21 /\ n \div 128 < twoTo28 /\ n >= 128
    BY <1>1, <1>2
  <2> QED BY <1>6, <2>1, ShiftLoopStep
<1>8. 128 < twoTo14 /\ twoTo14 < twoTo21 /\ twoTo21 < twoTo28
  BY <1>1
<1> QED BY <1>1, <1>3, <1>4, <1>5, <1>6, <1>7, <1>8, VarintPieces

(* A varint takes one to five bytes, and at most three below 2^21.         *)
LEMMA VarintLenType ==
  \A n \in Int : /\ varintLen(n) \in 1 .. 5
                 /\ n < 128*128*128 => varintLen(n) \in 1 .. 3
<1>1. /\ twoTo14 \in Nat /\ twoTo21 = 128*128*128
      /\ 128 < twoTo14 /\ twoTo14 < twoTo21 /\ twoTo21 < twoTo28
  BY SMT DEF twoTo14, twoTo21, twoTo28
<1> HIDE DEF twoTo14, twoTo21, twoTo28
<1> QED BY <1>1, VarintPieces, SMT

LEMMA FieldTypes ==
  \A n \in Nat : /\ VarintField(n) \in Nat
                 /\ BytesField(n) \in Nat /\ BytesField(n) >= n
                 /\ MessageField(n) \in Nat /\ MessageField(n) > n
<1> TAKE n \in Nat
<1>1. varintLen(n) \in Nat \ {0}
  BY VarintLenType
<1> QED BY <1>1 DEF VarintField, BytesField, MessageField

(* The lookup returns a row of the table.                                  *)
LEMMA LookupType ==
  ASSUME NEW name \in SchemeNames
  PROVE  /\ lookupScheme(name).name = name
         /\ lookupScheme(name).sigBytes \in Nat \ {0}
         /\ lookupScheme(name).sigBytes <= 20000
         /\ lookupScheme(name).sigBytesMax \in Nat
<1> DEFINE k == CHOOSE i \in DOMAIN schemes : schemes[i].name = name
<1>1. \E i \in DOMAIN schemes : schemes[i].name = name
  BY DEF SchemeNames
<1>2. k \in DOMAIN schemes /\ schemes[k].name = name
  BY <1>1
<1>3. DOMAIN schemes = 1 .. 10
  BY DEF schemes
<1>4. \A i \in 1 .. 10 : schemes[i].sigBytes \in Nat \ {0} /\ schemes[i].sigBytesMax \in Nat
  BY DEF schemes, Scheme
<1>5. \A i \in 1 .. 10 : schemes[i].sigBytes <= 20000
  BY SMT DEF schemes, Scheme
<1>6. lookupScheme(name) = schemes[k]
  BY DEF lookupScheme
<1> HIDE DEF k
<1> QED BY <1>2, <1>3, <1>4, <1>5, <1>6

(* Large numerals go to SMT alone.                                         *)
LEMMA HeightType == Height \in Nat
  BY SMT DEF Height

LEMMA TimestampType == fixedTimestamp \in Nat
<1>1. VarintField(1788350400) \in Nat /\ VarintField(123456789) \in Nat
  BY FieldTypes, SMT
<1> QED BY <1>1, SMT DEF fixedTimestamp

(* Both block IDs a vote may carry have a size.                            *)
LEMMA BlockIDTypes == sampleBlockID \in Nat /\ emptyBlockID \in Nat
<1>1. PartSetHeader(1, DigestBytes) \in Nat /\ PartSetHeader(0, 0) \in Nat
  BY FieldTypes DEF PartSetHeader, DigestBytes
<1> QED BY <1>1, FieldTypes DEF sampleBlockID, emptyBlockID, BlockID, DigestBytes

LEMMA VoteType ==
  ASSUME NEW type \in Nat, NEW blockID \in Nat, NEW address \in Nat, NEW sig \in Nat
  PROVE  /\ Vote(type, blockID, address, sig) \in Nat
         /\ Vote(type, blockID, address, sig) >= sig
<1>1. fixedTimestamp \in Nat /\ Height \in Nat
  BY TimestampType, HeightType
<1>2. /\ VarintField(type) \in Nat /\ VarintField(Height) \in Nat
      /\ MessageField(blockID) \in Nat /\ MessageField(fixedTimestamp) \in Nat
      /\ BytesField(address) \in Nat /\ BytesField(sig) \in Nat /\ BytesField(sig) >= sig
  BY <1>1, FieldTypes
<1> QED BY <1>2 DEF Vote

LEMMA VoteBytesType ==
  ASSUME NEW type \in {PrevoteType, PrecommitType}, NEW withBlock, NEW sig \in Nat
  PROVE  voteBytes(type, withBlock, sig) \in Nat /\ voteBytes(type, withBlock, sig) >= sig
<1>2. sampleBlockID \in Nat /\ emptyBlockID \in Nat
  BY BlockIDTypes
<1>3. type \in Nat /\ AddressWidth \in Nat
  BY DEF PrevoteType, PrecommitType, AddressWidth
<1>4. (IF withBlock THEN sampleBlockID ELSE emptyBlockID) \in Nat
  BY <1>2
<1> QED BY <1>3, <1>4, VoteType DEF voteBytes

LEMMA CommitBytesType ==
  ASSUME NEW n \in Nat, NEW sig \in Nat
  PROVE  commitBytes(n, sig) \in Nat
<1>2. sampleBlockID \in Nat /\ fixedTimestamp \in Nat
  BY BlockIDTypes, TimestampType
<1>3. CommitSig(sig) \in Nat
  BY <1>2, FieldTypes DEF CommitSig, AddressWidth
<1>4. MessageField(CommitSig(sig)) \in Nat /\ MessageField(sampleBlockID) \in Nat
      /\ VarintField(Height) \in Nat
  BY <1>2, <1>3, FieldTypes, HeightType
<1> QED BY <1>4 DEF commitBytes

(***************************************************************************)
(* The round cost depends on the scheme and not on the validator counts    *)
(* measured beside it, and it is positive (measure.go, 36-38).             *)
(***************************************************************************)
Cost(name) == RoundTripBytes(MeasureSizes(lookupScheme(name), <<>>))

LEMMA CostOfMeasure ==
  ASSUME NEW name \in SchemeNames, NEW counts
  PROVE  /\ RoundTripBytes(MeasureSizes(lookupScheme(name), counts)) = Cost(name)
         /\ Cost(name) \in Nat \ {0}
<1> DEFINE sig == lookupScheme(name).sigBytes
<1>1. sig \in Nat \ {0}
  BY LookupType
<1> DEFINE prevote   == voteBytes(PrevoteType, TRUE, sig)
           precommit == voteBytes(PrecommitType, TRUE, sig)
<1>2. \A ns : RoundTripBytes(MeasureSizes(lookupScheme(name), ns)) = prevote + precommit
  BY DEF RoundTripBytes, MeasureSizes
<1>3. prevote \in Nat /\ prevote >= sig /\ precommit \in Nat
  <2> HIDE DEF sig
  <2> QED BY <1>1, VoteBytesType
<1> HIDE DEF sig, prevote, precommit
<1>4. Cost(name) = prevote + precommit
  BY <1>2 DEF Cost
<1> QED BY <1>1, <1>2, <1>3, <1>4

(***************************************************************************)
(* The parts Breakdown attributes (breakdown.go, 46-78) add up to the      *)
(* precommit of the vote table, and each covers the bytes it is named for. *)
(***************************************************************************)
LEMMA BreakdownParts ==
  ASSUME NEW name \in SchemeNames, NEW counts
  PROVE  LET s     == lookupScheme(name)
             parts == Breakdown(s)
             votes == MeasureSizes(s, counts)
         IN  /\ parts.total = votes.precommitBlock
             /\ parts.signature + parts.blockID + parts.address + parts.rest = parts.total
             /\ parts.signature - s.sigBytes \in 1 .. 5
             /\ parts.blockID = votes.precommitBlock - votes.precommitNil
             /\ parts.address > AddressWidth
             /\ parts.rest > 0
<1> DEFINE s     == lookupScheme(name)
           sig   == s.sigBytes
           b     == Breakdown(s)
           votes == MeasureSizes(s, counts)
           head  == VarintField(PrecommitType) + VarintField(Height) + MessageField(fixedTimestamp)
           block == MessageField(sampleBlockID)
           nil   == MessageField(emptyBlockID)
           adr   == BytesField(AddressWidth)
           sgn   == BytesField(sig)
           full  == head + block + adr + sgn
<1>1. sig \in Nat \ {0} /\ sig <= 20000
  BY LookupType
<1>2. sgn - sig \in 2 .. 4 /\ sgn \in Nat
  <2>1. sig \in Int /\ sig < 128*128*128 /\ sig # 0
    <3> HIDE DEF sig
    <3> QED BY <1>1, SMT
  <2>2. varintLen(sig) \in 1 .. 3
    <3> HIDE DEF sig
    <3> QED BY <2>1, VarintLenType
  <2>3. sgn = 1 + varintLen(sig) + sig
    BY <2>1 DEF BytesField
  <2> DEFINE len == varintLen(sig)
  <2> HIDE DEF sgn, sig, len
  <2>4. len \in 1 .. 3 /\ sgn = 1 + len + sig /\ sig \in Nat
    BY <1>1, <2>2, <2>3 DEF len
  <2> QED BY <2>4
<1>3. adr \in Nat /\ adr > AddressWidth /\ BytesField(0) = 0
  <2>1. AddressWidth = 20 /\ AddressWidth \in Nat /\ AddressWidth # 0
    BY DEF AddressWidth
  <2>2. varintLen(AddressWidth) \in 1 .. 5
    BY <2>1, VarintLenType
  <2>3. adr = 1 + varintLen(AddressWidth) + AddressWidth /\ BytesField(0) = 0
    BY <2>1 DEF BytesField
  <2> HIDE DEF adr
  <2> QED BY <2>1, <2>2, <2>3
<1>4. block \in Nat /\ nil \in Nat /\ nil > 0 /\ head \in Nat
  <2>1. sampleBlockID \in Nat /\ emptyBlockID \in Nat
    BY BlockIDTypes
  <2>2. VarintField(PrecommitType) \in Nat /\ VarintField(Height) \in Nat
        /\ MessageField(fixedTimestamp) \in Nat
    <3>1. PrecommitType \in Nat
      BY DEF PrecommitType
    <3> QED BY <3>1, HeightType, TimestampType, FieldTypes
  <2> QED BY <2>1, <2>2, FieldTypes
<1>5. \A id, a, g : Build(g, id, a) = VarintField(PrecommitType) + VarintField(Height)
                      + MessageField(id) + MessageField(fixedTimestamp)
                      + BytesField(a) + BytesField(g)
  BY DEF Build, Vote
<1>6. /\ votes.precommitBlock = Build(sig, sampleBlockID, AddressWidth)
      /\ votes.precommitNil = Build(sig, emptyBlockID, AddressWidth)
  BY DEF MeasureSizes, voteBytes, Build
<1>7. /\ b.total = Build(sig, sampleBlockID, AddressWidth)
      /\ b.signature = b.total - Build(0, sampleBlockID, AddressWidth)
      /\ b.blockID = b.total - Build(sig, emptyBlockID, AddressWidth)
      /\ b.address = b.total - Build(sig, sampleBlockID, 0)
      /\ b.rest = b.total - b.signature - b.blockID - b.address
  BY DEF Breakdown
<1> HIDE DEF s, b, votes
<1>8. /\ Build(sig, sampleBlockID, AddressWidth) = full
      /\ Build(0, sampleBlockID, AddressWidth) = full - sgn
      /\ Build(sig, emptyBlockID, AddressWidth) = full - block + nil
      /\ Build(sig, sampleBlockID, 0) = full - adr
  <2> DEFINE v == VarintField(PrecommitType)  h == VarintField(Height)
             ts == MessageField(fixedTimestamp)
  <2>1. v \in Nat /\ h \in Nat /\ ts \in Nat /\ head = v + h + ts
    <3>1. PrecommitType \in Nat
      BY DEF PrecommitType
    <3> QED BY <3>1, HeightType, TimestampType, FieldTypes
  <2>2. /\ Build(sig, sampleBlockID, AddressWidth) = v + h + block + ts + adr + sgn
        /\ Build(0, sampleBlockID, AddressWidth) = v + h + block + ts + adr + 0
        /\ Build(sig, emptyBlockID, AddressWidth) = v + h + nil + ts + adr + sgn
        /\ Build(sig, sampleBlockID, 0) = v + h + block + ts + 0 + sgn
    BY <1>3, <1>5
  <2>3. full = head + block + adr + sgn
    OBVIOUS
  <2> HIDE DEF v, h, ts, head, block, nil, adr, sgn, full
  <2> QED BY <1>2, <1>3, <1>4, <2>1, <2>2, <2>3
<1>9. full = head + block + adr + sgn
  OBVIOUS
<1> HIDE DEF head, block, nil, adr, sgn, full
<1>10. full \in Nat /\ sig \in Nat
  <2> HIDE DEF sig
  <2> QED BY <1>1, <1>2, <1>3, <1>4, <1>9
<1>11. /\ b.total = full /\ b.signature = sgn /\ b.blockID = block - nil /\ b.address = adr
       /\ b.rest = head + nil
  BY <1>2, <1>3, <1>4, <1>7, <1>8, <1>9, <1>10
<1>12. /\ votes.precommitBlock = full
       /\ votes.precommitBlock - votes.precommitNil = block - nil
  BY <1>4, <1>6, <1>8, <1>10
<1>13. /\ sgn + (block - nil) + adr + (head + nil) = full
       /\ head + nil > 0
  BY <1>2, <1>3, <1>4, <1>9
<1>14. sgn - sig \in 1 .. 5
  BY <1>2
<1>15. /\ b.total = votes.precommitBlock
       /\ b.signature + b.blockID + b.address + b.rest = b.total
       /\ b.signature - sig \in 1 .. 5
       /\ b.blockID = votes.precommitBlock - votes.precommitNil
       /\ b.address > AddressWidth
       /\ b.rest > 0
  BY <1>3, <1>11, <1>12, <1>13, <1>14
<1> QED BY <1>15 DEF s, sig, b, votes

(***************************************************************************)
(* A commit of n signatures (measure.go, 92-118) is what every commit has, *)
(* and n times a signature with its framing.                               *)
(***************************************************************************)
LEMMA CommitIsProportional ==
  ASSUME NEW n \in Nat, NEW sig \in Nat
  PROVE  LET shared == commitBytes(0, sig)
             each   == MessageField(CommitSig(sig))
         IN  /\ shared \in Nat /\ each \in Nat /\ each > sig
             /\ commitBytes(n, sig) = shared + n * each
             /\ commitBytes(n, sig) > n * sig
<1> DEFINE shared == VarintField(Height) + MessageField(sampleBlockID)
           each   == MessageField(CommitSig(sig))
<1>1. fixedTimestamp \in Nat /\ sampleBlockID \in Nat /\ Height \in Nat
  BY BlockIDTypes, TimestampType, HeightType
<1>2. shared \in Nat /\ shared > 0
  BY <1>1, FieldTypes
<1>3. CommitSig(sig) \in Nat /\ CommitSig(sig) >= sig
  BY <1>1, FieldTypes DEF CommitSig, AddressWidth
<1>4. each \in Nat /\ each > sig
  <2>1. each \in Nat /\ each > CommitSig(sig)
    BY <1>3, FieldTypes
  <2> HIDE DEF each
  <2> QED BY <1>3, <2>1
<1>5. \A m : commitBytes(m, sig) = shared + m * each
  BY DEF commitBytes
<1> HIDE DEF shared, each
<1>6. commitBytes(0, sig) = shared
  BY <1>2, <1>4, <1>5
<1>7. n * each \in Nat /\ n * sig \in Nat /\ n * sig <= n * each
  <2>1. sig * n <= each * n
    BY <1>4, SMT
  <2> QED BY <1>4, <2>1
<1>8. commitBytes(n, sig) = shared + n * each
  BY <1>5
<1>9. shared + n * each > n * sig
  BY <1>2, <1>7
<1> QED BY <1>2, <1>4, <1>6, <1>8, <1>9 DEF each
=============================================================================
