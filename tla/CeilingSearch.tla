--------------------------- MODULE CeilingSearch ---------------------------
(***************************************************************************)
(* A reference for the ceiling formula, and not a translation of it: the   *)
(* code divides, and has no loop like the one below.  A validator set      *)
(* grows by one for as long as the round's bytes fit the budget, in exact  *)
(* arithmetic; the closed forms of DeriveCeiling and Require have to agree *)
(* with it at every size it visits.                                        *)
(***************************************************************************)
EXTENDS Ceiling

CONSTANTS
  Costs,         (* bytes per validator per round, prevote and precommit *)
  SearchBudgets  (* the budgets searched *)

ASSUME SearchAssumption == Costs \subseteq 1 .. MaxInt /\ SearchBudgets \subseteq Budgets

VARIABLES
  arch,    (* the platform the tool was built for *)
  cost,
  budget,
  n        (* the validators admitted so far *)

vars == <<arch, cost, budget, n>>

-----------------------------------------------------------------------------
Init ==
  /\ arch \in Archs
  /\ cost \in Costs
  /\ budget \in SearchBudgets
  /\ n = 0

CanAdmit == n < searchMax /\ FitsInRound(cost, n + 1, budget)

Admit ==
  /\ CanAdmit
  /\ n' = n + 1
  /\ UNCHANGED <<arch, cost, budget>>

Next == Admit

Spec == Init /\ [][Next]_vars

-----------------------------------------------------------------------------
TypeOK ==
  /\ arch \in Archs
  /\ cost \in Costs
  /\ budget \in SearchBudgets
  /\ n \in 0 .. searchMax

ceiling == DeriveCeiling(arch, cost, budget)

(***************************************************************************)
(* DeriveCeiling returns the largest set whose bytes fit: the search stops *)
(* at the ceiling and nowhere else, and the ceiling is flagged as limited  *)
(* by the search exactly when one validator more than searchMax would      *)
(* still have fitted - not when the true ceiling happens to be searchMax.  *)
(***************************************************************************)
CeilingIsTheLargestFit ==
  ExactCeiling(cost, budget) =>
    /\ ~CanAdmit <=> n = ceiling.maxValidators
    /\ ceiling.limitedBySearch <=> FitsInRound(cost, searchMax + 1, budget)

(***************************************************************************)
(* "The ceiling model inverts": at the size reached and at the next one,   *)
(* the cost meets the requirement of --solve exactly when the ceiling of   *)
(* the default mode admits that many validators.  The two modes can never  *)
(* contradict each other below searchMax.                                  *)
(***************************************************************************)
RequirementInverts ==
  \A m \in {n, n + 1} \cap 1 .. searchMax :
    ExactCeiling(cost, budget) /\ ExactRequirement(m, budget) =>
      (Assess(arch, cost, m, budget).feasible <=> m <= ceiling.maxValidators)

(***************************************************************************)
(* Whatever overflows, saturates or is not a number on the way: the bytes  *)
(* a ceiling is said to use never exceed the budget printed beside it, and *)
(* the ceiling stays within 0 .. searchMax, so the utilization is a        *)
(* fraction of one.                                                        *)
(***************************************************************************)
UseStaysWithinBudget ==
  /\ ceiling.maxValidators \in 0 .. searchMax
  /\ ceiling.bytesAtMax \in Nat
  /\ ceiling.maxValidators > 0 => ceiling.bytesAtMax <= ceiling.budgetBytes
  /\ ceiling.utilization[1] <= ceiling.utilization[2]
=============================================================================
