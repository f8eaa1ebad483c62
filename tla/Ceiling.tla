------------------------------ MODULE Ceiling ------------------------------
(***************************************************************************)
(* The ceiling model and its inverse.  DeriveCeiling takes the bytes a     *)
(* validator costs per round to the largest validator set a budget admits; *)
(* Require takes a validator count to the largest cost per validator.      *)
(* A budget is a link in bits per second, a round time (a rational, an     *)
(* infinity or NaN: the flag parser lets all three through) and a number   *)
(* of peers.                                                               *)
(***************************************************************************)
EXTENDS GoArith

CONSTANTS
  searchMax   (* the largest validator set a ceiling reports *)

ASSUME searchMaxAssumption == searchMax \in 1 .. MaxInt

Rounds  == {r \in Nat \X Nat : r[2] = 0 => r[1] \in {0, 1}} \ {<<0, 1>>}
Budgets == [link : Int64, round : Rounds, peers : 1 .. MaxInt]

(* int64(float64(link) / 8.0 * round)                                      *)
BudgetBytes(arch, b) == FloatToInt(arch, <<b.link * b.round[1], 8 * b.round[2]>>)

(* Mutant: a vote goes to one peer only.                                   *)
perValidatorOnePeer(cost, b) == Wrap(cost)

perValidator(cost, b) == Wrap(cost * b.peers)

(***************************************************************************)
(* How far the division of the budget reaches before it is clamped to      *)
(* 0 .. searchMax.                                                         *)
(***************************************************************************)
Quotient(arch, cost, b) == Quo(BudgetBytes(arch, b), perValidator(cost, b))

(* Mutants: the clamp of the quotient to 0 .. searchMax.                   *)
AtOrBeyondSearch(n) == n >= searchMax

CapToSearch(n) == IF n > searchMax THEN searchMax ELSE n

BeyondSearch(n) == n > searchMax

ClampToSearch(n) ==
  IF BeyondSearch(n) THEN searchMax ELSE IF n < 0 THEN 0 ELSE n

DeriveCeiling(arch, cost, b) ==
  LET admits == perValidator(cost, b) > 0
      budget == BudgetBytes(arch, b)
      reach  == Quotient(arch, cost, b)
      maxN   == IF admits THEN ClampToSearch(reach) ELSE 0
      atMax  == IF admits THEN Wrap(maxN * perValidator(cost, b)) ELSE 0
  IN  [budget          |-> b,
       maxValidators   |-> maxN,
       bytesAtMax      |-> atMax,
       budgetBytes     |-> budget,
       utilization     |-> IF admits /\ budget > 0 THEN <<atMax, budget>> ELSE <<0, 1>>,
       limitedBySearch |-> admits /\ BeyondSearch(reach)]

(***************************************************************************)
(* The inverse.  The divisor is a product of two int64 and may wrap: to 0, *)
(* which panics, or to a negative number.                                  *)
(***************************************************************************)
(* Mutant: the requirement of a validator set with one peer.               *)
DivisorOnePeer(validators, b) == Wrap(validators)

Divisor(validators, b) == Wrap(validators * b.peers)

RequirePanics(validators, b) == Divisor(validators, b) = 0

MaxCostPerRound(arch, validators, b) ==
  Wrap(Quo(BudgetBytes(arch, b), Divisor(validators, b)))

(* Mutants: a cost that just meets the requirement fails it, and a cost    *)
(* meets the requirement when the requirement is the smaller.              *)
AffordableStrictly(cost, maxCost) == maxCost > 0 /\ cost < maxCost
AffordableReversed(cost, maxCost) == maxCost > 0 /\ cost >= maxCost

Affordable(cost, maxCost) == maxCost > 0 /\ cost <= maxCost

(* Mutant: the factor is computed whatever the requirement.                *)
AssessUnguarded(arch, cost, validators, b) ==
  LET maxCost == MaxCostPerRound(arch, validators, b)
  IN  [feasible |-> Affordable(cost, maxCost), reduction |-> <<cost, maxCost>>]

(* How a cost fares against the requirement.  The reduction is a rational, *)
(* and <<0, 1>> when the requirement leaves nothing to reduce to.          *)
Assess(arch, cost, validators, b) ==
  LET maxCost == MaxCostPerRound(arch, validators, b)
  IN  [feasible  |-> Affordable(cost, maxCost),
       reduction |-> IF maxCost > 0 THEN <<cost, maxCost>> ELSE <<0, 1>>]

Finite(b) == b.round[2] > 0

(***************************************************************************)
(* The model both directions state in their comments, in exact arithmetic: *)
(* n validators fit when n x cost x peers bytes are at most link x round.  *)
(***************************************************************************)
FitsInRound(cost, n, b) ==
  Finite(b) /\ n * cost * b.peers <= (b.link * b.round[1]) \div (8 * b.round[2])

(* The inputs on which neither float64 nor int64 leaves its range: the     *)
(* budget is a whole number of bytes in the word, and so is the divisor of *)
(* DeriveCeiling; Require's divisor is n x peers.                          *)
ExactBudget(b) ==
  /\ Finite(b)
  /\ b.link >= 0
  /\ b.link * b.round[1] < 8 * b.round[2] * (MaxInt + 1)

ExactCeiling(cost, b)    == ExactBudget(b) /\ cost * b.peers <= MaxInt
ExactRequirement(n, b)   == ExactBudget(b) /\ n * b.peers <= MaxInt
=============================================================================
