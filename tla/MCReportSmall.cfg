SPECIFICATION Spec
CONSTANTS
  MaxInt = 32767
  searchMax = 10
  YearSeconds = 3600
  Flags <- mcSmallFlags
INVARIANTS
  TypeOK
  BindingAdmitsFewest
  BindingFitsEveryBudget
  FiguresOfOwnScheme
  CommitTableGrowsWithTheSet
  BreakdownMatchesVoteTable
  StorageMatchesCommitTable
  WholeReportsUpToFailure
PROPERTIES
  ImplementsReports
  EndsAsPromised
CHECK_DEADLOCK FALSE
