SPECIFICATION Spec
CONSTANTS
  MaxInt = 32767
  searchMax = 40
  Costs <- mcCosts
  SearchBudgets <- mcBudgets
INVARIANTS
  CeilingIsTheLargestFit
  RequirementInverts
  UseStaysWithinBudget
CHECK_DEADLOCK FALSE
