------------------------ MODULE CeilingSearchProofs ------------------------
(***************************************************************************)
(* The closed forms agree with the search, for every word size, search     *)
(* bound, and set of costs and budgets.                                    *)
(***************************************************************************)
EXTENDS CeilingSearch, FormulaProofs

(* Every size the search has reached fits the round.                       *)
ReachedSizesFit == n > 0 => FitsInRound(cost, n, budget)

IInv == TypeOK /\ ReachedSizesFit

LEMMA CostIsPositive == TypeOK => cost \in Nat \ {0} /\ budget \in Budgets
  BY SearchAssumption, MaxIntAssumption DEF TypeOK

LEMMA InitInv == Init => IInv
<1> SUFFICES ASSUME Init PROVE IInv
  OBVIOUS
<1>1. 0 \in 0 .. searchMax
  BY searchMaxAssumption, MaxIntAssumption
<1> QED BY <1>1 DEF Init, IInv, TypeOK, ReachedSizesFit

LEMMA NextInv == IInv /\ [Next]_vars => IInv'
<1> SUFFICES ASSUME IInv, [Next]_vars PROVE IInv'
  OBVIOUS
<1>1. CASE Admit
  <2>1. TypeOK'
    BY <1>1, searchMaxAssumption, MaxIntAssumption DEF IInv, TypeOK, Admit, CanAdmit
  <2>2. ReachedSizesFit'
    BY <1>1 DEF Admit, CanAdmit, ReachedSizesFit
  <2> QED BY <2>1, <2>2 DEF IInv
<1>2. CASE UNCHANGED vars
  BY <1>2 DEF vars, IInv, TypeOK, ReachedSizesFit
<1> QED BY <1>1, <1>2 DEF Next

THEOREM SearchInvariant == Spec => []IInv
  BY InitInv, NextInv, PTL DEF Spec

(* What UseIsBounded needs of the state: a cost and a budget.              *)
LEMMA SearchTypes == Spec => []TypeOK
<1>1. IInv => TypeOK
  BY DEF IInv
<1> QED BY <1>1, SearchInvariant, PTL

(* DeriveCeiling is where the search stops (ceiling.go, 28-43).            *)
THEOREM CeilingIsCorrect == Spec => []CeilingIsTheLargestFit
<1>1. IInv => CeilingIsTheLargestFit
  <2> SUFFICES ASSUME IInv, ExactCeiling(cost, budget)
      PROVE  /\ ~CanAdmit <=> n = ceiling.maxValidators
             /\ ceiling.limitedBySearch <=> FitsInRound(cost, searchMax + 1, budget)
    BY DEF CeilingIsTheLargestFit
  <2> DEFINE max == ceiling.maxValidators
  <2>1. /\ max \in 0 .. searchMax
        /\ \A k \in 0 .. searchMax : FitsInRound(cost, k, budget) <=> k <= max
        /\ ceiling.limitedBySearch <=> FitsInRound(cost, searchMax + 1, budget)
    BY CeilingIsCapacity, CostIsPositive DEF IInv, ceiling
  <2>2. n \in 0 .. searchMax /\ searchMax \in Nat
    BY searchMaxAssumption, MaxIntAssumption DEF IInv, TypeOK
  <2> HIDE DEF max
  <2>3. n <= max
    BY <2>1, <2>2 DEF IInv, ReachedSizesFit
  <2>4. CanAdmit <=> n < searchMax /\ n + 1 <= max
    BY <2>1, <2>2 DEF CanAdmit
  <2> QED BY <2>1, <2>2, <2>3, <2>4 DEF max
<1> QED BY <1>1, SearchInvariant, PTL

(* --solve and the default mode agree at every size (solve.go, 8-13).      *)
THEOREM ModesAgree == Spec => []RequirementInverts
<1>1. IInv => RequirementInverts
  <2> SUFFICES ASSUME IInv, NEW m \in {n, n + 1} \cap 1 .. searchMax,
                      ExactCeiling(cost, budget), ExactRequirement(m, budget)
      PROVE  Assess(arch, cost, m, budget).feasible <=> m <= ceiling.maxValidators
    BY DEF RequirementInverts
  <2>1. cost \in Nat \ {0} /\ budget \in Budgets
    BY CostIsPositive DEF IInv
  <2>2. m \in Nat \ {0} /\ m \in 0 .. searchMax
    BY searchMaxAssumption, MaxIntAssumption DEF IInv, TypeOK
  <2>3. Assess(arch, cost, m, budget).feasible <=> FitsInRound(cost, m, budget)
    BY <2>1, <2>2, RequirementIsInverse
  <2>4. FitsInRound(cost, m, budget) <=> m <= ceiling.maxValidators
    BY <2>1, <2>2, CeilingIsCapacity DEF ceiling
  <2> QED BY <2>3, <2>4
<1> QED BY <1>1, SearchInvariant, PTL

(* No overflow makes a ceiling exceed the budget printed beside it         *)
(* (ceiling.go, 51-65).                                                    *)
THEOREM UseIsBounded == Spec => []UseStaysWithinBudget
<1>1. TypeOK => UseStaysWithinBudget
  <2> SUFFICES ASSUME TypeOK PROVE UseStaysWithinBudget
    OBVIOUS
  <2>1. cost \in Int /\ budget \in Budgets
    BY CostIsPositive
  <2> QED BY <2>1, UseIsWithinBudget DEF UseStaysWithinBudget, ceiling
<1> QED BY <1>1, SearchTypes, PTL
=============================================================================
