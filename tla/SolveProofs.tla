---------------------------- MODULE SolveProofs ----------------------------
(***************************************************************************)
(* The --solve mode, for every command line, word size and search bound.   *)
(***************************************************************************)
EXTENDS Solve, FormulaProofs, SequenceTheorems

Targets == Len(DefaultTargets)

(* The row is this name's, and each of its cells the verdict on its target. *)
RowIsRight(k) ==
  /\ rows[k].name = flags.schemes[k]
  /\ rows[k].name \in SchemeNames
  /\ rows[k].cost = CostOf(rows[k].name)
  /\ Len(rows[k].cells) <= Targets
  /\ k < turn => Len(rows[k].cells) = Targets
  /\ \A j \in DOMAIN rows[k].cells :
       rows[k].cells[j] = Assess(flags.arch, rows[k].cost, DefaultTargets[j], budget)

RowsAreRight == \A k \in DOMAIN rows : RowIsRight(k)

(* No target whose requirement has been computed has the divisor 0.        *)
DemandsDivide == \A j \in DOMAIN demands : ~RequirePanics(DefaultTargets[j], budget)

(* How far the two tables are at each step.                                *)
TablesGrow ==
  /\ pc = "require" => rows = <<>> /\ turn = 1 /\ Len(demands) = target - 1
  /\ pc \in {"lookup", "assess", "exit 0"} => Len(demands) = Targets
  /\ pc \in {"lookup", "exit 0"} => Len(rows) = turn - 1
  /\ pc = "assess" =>
       /\ turn <= Len(flags.schemes) /\ flags.schemes[turn] \in SchemeNames
       /\ Len(rows) = turn /\ Len(rows[turn].cells) = target - 1

OnlyWholeReports ==
  /\ pc # "exit 0" => stdout = <<>>
  /\ pc = "exit 0" => stdout = <<demands, rows>> /\ turn = Len(flags.schemes) + 1
  /\ pc = "panic" => \E m \in Range(DefaultTargets) : m * budget.peers > MaxInt

IInv == TypeOK /\ RowsAreRight /\ DemandsDivide /\ TablesGrow /\ OnlyWholeReports

-----------------------------------------------------------------------------
(* What the parsers guarantee: one budget, and names to go through.        *)
LEMMA SolveFlags ==
  ASSUME flags \in Flags
  PROVE  /\ budget \in Budgets
         /\ flags.schemes \in Seq(STRING) /\ Len(flags.schemes) \in Nat \ {0}
<1>1. flags \in FlagSet /\ <<>> \notin {flags.schemes, flags.links, flags.rounds, flags.peers}
  BY FlagsAssumption
<1>2. /\ flags.schemes \in Seq(STRING) /\ Len(flags.schemes) \in Nat \ {0}
      /\ flags.links \in Seq(Int64)     /\ Len(flags.links) \in Nat \ {0}
      /\ flags.rounds \in Seq(Rounds)   /\ Len(flags.rounds) \in Nat \ {0}
      /\ flags.peers \in Seq(1 .. MaxInt) /\ Len(flags.peers) \in Nat \ {0}
  BY <1>1, EmptySeq DEF FlagSet
<1>3. flags.links[1] \in Int64 /\ flags.rounds[1] \in Rounds /\ flags.peers[1] \in 1 .. MaxInt
  <2>1. /\ 1 \in 1 .. Len(flags.links) /\ 1 \in 1 .. Len(flags.rounds)
        /\ 1 \in 1 .. Len(flags.peers)
    BY <1>2
  <2> QED BY <1>2, <2>1, ElementOfSeq
<1> QED BY <1>2, <1>3 DEF budget, Budgets

(* The targets are positive and in ascending order.                        *)
LEMMA TargetTypes ==
  /\ Targets = 6 /\ DOMAIN DefaultTargets = 1 .. Targets
  /\ \A k \in 1 .. Targets : DefaultTargets[k] \in Nat \ {0}
  /\ \A k, l \in 1 .. Targets : k <= l => DefaultTargets[k] <= DefaultTargets[l]
  /\ \A k \in 1 .. Targets : DefaultTargets[k] \in Range(DefaultTargets)
<1>1. Targets = 6 /\ DOMAIN DefaultTargets = 1 .. 6
  BY DEF Targets, DefaultTargets
<1>2. /\ DefaultTargets[1] = 4    /\ DefaultTargets[2] = 64   /\ DefaultTargets[3] = 100
      /\ DefaultTargets[4] = 180  /\ DefaultTargets[5] = 1000 /\ DefaultTargets[6] = 10000
  BY DEF DefaultTargets
<1>3. \A k \in 1 .. 6 : k = 1 \/ k = 2 \/ k = 3 \/ k = 4 \/ k = 5 \/ k = 6
  OBVIOUS
<1>4. \A k \in 1 .. 6 : DefaultTargets[k] \in Nat \ {0}
  BY <1>2, <1>3
<1>5. \A k, l \in 1 .. 6 : k <= l => DefaultTargets[k] <= DefaultTargets[l]
  BY <1>2, <1>3
<1>6. \A k \in 1 .. 6 : DefaultTargets[k] \in Range(DefaultTargets)
  BY <1>1 DEF Range
<1> QED BY <1>1, <1>4, <1>5, <1>6

(* The cost is the one the default mode computes.                          *)
LEMMA CostOfName ==
  ASSUME NEW name \in SchemeNames
  PROVE  CostOf(name) = Cost(name) /\ CostOf(name) \in Nat \ {0}
BY CostOfMeasure DEF CostOf

(* A requirement that does not panic is an integer of the word.            *)
LEMMA DemandType ==
  ASSUME NEW arch, NEW b \in Budgets, NEW n \in Nat \ {0}, ~RequirePanics(n, b)
  PROVE  MaxCostPerRound(arch, n, b) \in Int64
<1>1. b.peers \in Nat \ {0} /\ n * b.peers \in Int
  BY BudgetShape
<1>2. Divisor(n, b) \in Int64 /\ Divisor(n, b) # 0
  BY <1>1, WrapInWord DEF Divisor, RequirePanics
<1>3. Int64 \subseteq Int
  BY MaxIntAssumption DEF Int64, MinInt
<1>4. BudgetBytes(arch, b) \in Int /\ Divisor(n, b) \in Int \ {0}
  BY <1>2, <1>3, BudgetBytesInWord
<1>5. Quo(BudgetBytes(arch, b), Divisor(n, b)) \in Int
  BY <1>4, QuoInteger
<1> QED BY <1>5, WrapInWord DEF MaxCostPerRound

(* A verdict: a boolean, and a factor with a positive denominator.         *)
CellSet == [feasible : BOOLEAN, reduction : Nat \X (Nat \ {0})]

(* Assess returns one, whatever the cost.                                  *)
LEMMA VerdictType ==
  ASSUME NEW arch, NEW b \in Budgets, NEW n \in Nat \ {0}, ~RequirePanics(n, b),
         NEW cost \in Nat
  PROVE  Assess(arch, cost, n, b) \in CellSet
<1> DEFINE m == MaxCostPerRound(arch, n, b)
           r == IF m > 0 THEN <<cost, m>> ELSE <<0, 1>>
           f == Affordable(cost, m)
<1>1. m \in Int
  BY DemandType, MaxIntAssumption DEF Int64, MinInt
<1> HIDE DEF m
<1>2. r \in Nat \X (Nat \ {0})
  BY <1>1
<1>3. f \in BOOLEAN
  BY DEF Affordable
<1>4. Assess(arch, cost, n, b) = [feasible |-> f, reduction |-> r]
  BY DEF Assess, m
<1> HIDE DEF r, f
<1> QED BY <1>2, <1>3, <1>4 DEF CellSet

(* Only a product that leaves the word panics.                             *)
LEMMA PanicOverflows ==
  ASSUME NEW b \in Budgets, NEW n \in Nat \ {0}, RequirePanics(n, b)
  PROVE  n * b.peers > MaxInt
<1>1. n * b.peers \in Int
  BY BudgetShape
<1>2. ASSUME n * b.peers <= MaxInt PROVE FALSE
  <2>1. Wrap(n * b.peers) = n * b.peers /\ n * b.peers \in Nat \ {0}
    BY <1>2, ExactDivisor
  <2> QED BY <2>1 DEF RequirePanics, Divisor
<1> QED BY <1>1, <1>2, MaxIntAssumption

-----------------------------------------------------------------------------
(* The state the steps below start from.                                   *)
LEMMA SolveShape ==
  ASSUME TypeOK
  PROVE  /\ budget \in Budgets /\ Len(flags.schemes) \in Nat \ {0}
         /\ target \in Nat \ {0} /\ target <= Targets + 1
         /\ turn \in Nat \ {0} /\ turn <= Len(flags.schemes) + 1
         /\ Len(demands) \in Nat /\ DOMAIN demands = 1 .. Len(demands)
         /\ Len(rows) \in Nat /\ DOMAIN rows = 1 .. Len(rows)
         /\ demands \in Seq(Nat \X Int64) /\ rows \in Seq(RowSet)
<1>1. budget \in Budgets /\ Len(flags.schemes) \in Nat \ {0}
  BY SolveFlags DEF TypeOK
<1>2. demands \in Seq(Nat \X Int64) /\ rows \in Seq(RowSet)
  BY DEF TypeOK
<1>3. Len(demands) \in Nat /\ DOMAIN demands = 1 .. Len(demands)
      /\ Len(rows) \in Nat /\ DOMAIN rows = 1 .. Len(rows)
  BY <1>2, LenProperties
<1>4. target \in 1 .. Targets + 1 /\ turn \in 1 .. Len(flags.schemes) + 1
  BY DEF TypeOK, Targets
<1>5. target \in Nat \ {0} /\ target <= Targets + 1
  BY <1>4, TargetTypes
<1>6. turn \in Nat \ {0} /\ turn <= Len(flags.schemes) + 1
  BY <1>1, <1>4
<1> QED BY <1>1, <1>2, <1>3, <1>5, <1>6

(* Nothing is built or printed when SolveReport starts.                    *)
LEMMA SolveInit == Init => IInv
<1> SUFFICES ASSUME Init PROVE IInv
  OBVIOUS
<1>1. /\ flags \in Flags /\ pc = "require" /\ target = 1 /\ turn = 1
      /\ demands = <<>> /\ rows = <<>> /\ stdout = <<>>
  BY DEF Init
<1>2. Len(flags.schemes) \in Nat \ {0} /\ Len(DefaultTargets) = 6
  BY <1>1, SolveFlags, TargetTypes DEF Targets
<1>3. demands \in Seq(Nat \X Int64) /\ rows \in Seq(RowSet) /\ Len(demands) = 0
      /\ DOMAIN rows = {} /\ DOMAIN demands = {}
  BY <1>1, EmptySeq
<1>4. TypeOK
  BY <1>1, <1>2, <1>3 DEF TypeOK
<1>5. RowsAreRight /\ DemandsDivide
  BY <1>3 DEF RowsAreRight, DemandsDivide
<1>6. TablesGrow
  BY <1>1, <1>3 DEF TablesGrow
<1>7. OnlyWholeReports
  BY <1>1 DEF OnlyWholeReports
<1> QED BY <1>4, <1>5, <1>6, <1>7 DEF IInv

(* The requirement table grows by a row or the program panics.             *)
LEMMA RequireStep ==
  ASSUME IInv, RequireTarget
  PROVE  IInv'
<1>1. /\ pc = "require" /\ target \in 1 .. Targets
      /\ UNCHANGED <<flags, turn, rows, stdout>>
      /\ rows = <<>> /\ turn = 1 /\ Len(demands) = target - 1 /\ stdout = <<>>
  BY SolveShape DEF RequireTarget, IInv, TablesGrow, OnlyWholeReports, Targets
<1>2. budget' = budget /\ budget \in Budgets /\ TypeOK
  BY <1>1, SolveShape DEF IInv, budget
<1>3. DefaultTargets[target] \in Nat \ {0}
  BY <1>1, TargetTypes
<1>4. RowsAreRight'
  <2>1. DOMAIN rows' = {}
    BY <1>1
  <2> QED BY <2>1 DEF RowsAreRight
<1>5. CASE RequirePanics(DefaultTargets[target], budget)
  <2>1. pc' = "panic" /\ UNCHANGED <<target, demands>>
    BY <1>5 DEF RequireTarget, Goto
  <2>2. TypeOK'
    BY <1>1, <1>2, <2>1 DEF TypeOK
  <2>3. DemandsDivide' /\ TablesGrow'
    BY <1>2, <2>1 DEF IInv, DemandsDivide, TablesGrow
  <2>4. DefaultTargets[target] * budget.peers > MaxInt
    BY <1>2, <1>3, <1>5, PanicOverflows
  <2>5. OnlyWholeReports'
    BY <1>1, <1>2, <2>1, <2>4, TargetTypes DEF OnlyWholeReports
  <2> QED BY <1>4, <2>2, <2>3, <2>5 DEF IInv
<1>6. CASE ~RequirePanics(DefaultTargets[target], budget)
  <2> DEFINE d == Demand(DefaultTargets[target])
  <2>1. pc' = "require" /\ demands' = Append(demands, d) /\ target' = target + 1
    BY <1>1, <1>6 DEF RequireTarget
  <2>2. d \in Nat \X Int64
    BY <1>2, <1>3, <1>6, DemandType DEF Demand
  <2> HIDE DEF d
  <2>3. demands \in Seq(Nat \X Int64) /\ Len(demands) \in Nat
    BY <1>2, SolveShape
  <2>4. demands' \in Seq(Nat \X Int64) /\ Len(demands') = Len(demands) + 1
        /\ DOMAIN demands' = 1 .. Len(demands) + 1
    BY <2>1, <2>2, <2>3
  <2>5. target' \in 1 .. Len(DefaultTargets) + 1
    BY <1>1, <2>1, TargetTypes DEF Targets
  <2>6. TypeOK'
    BY <1>1, <1>2, <2>1, <2>4, <2>5 DEF TypeOK
  <2>7. DemandsDivide'
    <3>1. \A j \in 1 .. Len(demands) + 1 : j \in 1 .. Len(demands) \/ j = target
      BY <1>1, <2>3
    <3>2. DOMAIN demands = 1 .. Len(demands)
      BY <2>3, LenProperties
    <3> QED BY <1>2, <1>6, <2>4, <3>1, <3>2 DEF IInv, DemandsDivide
  <2>8. TablesGrow'
    <3>1. Len(demands') = target' - 1
      BY <1>1, <2>1, <2>4
    <3> QED BY <1>1, <2>1, <3>1 DEF TablesGrow
  <2>9. OnlyWholeReports'
    BY <1>1, <2>1 DEF OnlyWholeReports
  <2> QED BY <1>4, <2>6, <2>7, <2>8, <2>9 DEF IInv
<1> QED BY <1>5, <1>6

(* The names come next.                                                    *)
LEMMA RequirementsDoneStep ==
  ASSUME IInv, RequirementsDone
  PROVE  IInv'
<1>1. /\ pc = "require" /\ pc' = "lookup" /\ target > Targets
      /\ UNCHANGED <<flags, target, turn, demands, rows, stdout>>
  BY DEF RequirementsDone, Goto, Targets
<1>2. /\ TypeOK /\ rows = <<>> /\ turn = 1 /\ Len(demands) = target - 1 /\ stdout = <<>>
      /\ Len(demands) = Targets /\ budget' = budget
  <2>1. TypeOK /\ rows = <<>> /\ turn = 1 /\ Len(demands) = target - 1 /\ stdout = <<>>
    BY <1>1 DEF IInv, TablesGrow, OnlyWholeReports
  <2>2. target \in Nat \ {0} /\ target <= Targets + 1 /\ Targets = 6
    BY <2>1, SolveShape, TargetTypes
  <2>3. Len(demands) = Targets
    BY <1>1, <2>1, <2>2
  <2> QED BY <1>1, <2>1, <2>3 DEF budget
<1>3. TypeOK'
  BY <1>1, <1>2 DEF TypeOK
<1>4. RowsAreRight' /\ DemandsDivide'
  BY <1>1, <1>2 DEF IInv, RowsAreRight, RowIsRight, DemandsDivide
<1>5. Len(rows') = turn' - 1
  BY <1>1, <1>2, EmptySeq
<1>6. TablesGrow'
  BY <1>1, <1>2, <1>5 DEF TablesGrow
<1>7. OnlyWholeReports'
  BY <1>1, <1>2 DEF OnlyWholeReports
<1> QED BY <1>3, <1>4, <1>6, <1>7 DEF IInv

(* A failure leaves nothing printed, at whichever step it occurs.          *)
LEMMA FailureStep ==
  ASSUME IInv, pc \in {"lookup", "assess"}, pc' = "exit 1",
         UNCHANGED <<flags, target, turn, demands, rows, stdout>>
  PROVE  IInv'
<1>1. budget' = budget /\ stdout' = <<>>
  BY DEF IInv, OnlyWholeReports, budget
<1>2. TypeOK'
  BY <1>1 DEF IInv, TypeOK
<1>3. RowsAreRight' /\ DemandsDivide'
  BY <1>1 DEF IInv, RowsAreRight, RowIsRight, DemandsDivide
<1>4. TablesGrow' /\ OnlyWholeReports'
  BY <1>1 DEF TablesGrow, OnlyWholeReports
<1> QED BY <1>2, <1>3, <1>4 DEF IInv

(* A known name begins its row, with its own cost and no cell.             *)
LEMMA StartSchemeStep ==
  ASSUME IInv, StartScheme
  PROVE  IInv'
<1>1. /\ pc = "lookup" /\ turn <= Len(flags.schemes)
      /\ UNCHANGED <<flags, turn, demands, stdout>>
  BY DEF StartScheme
<1>2. /\ TypeOK /\ Len(rows) = turn - 1 /\ Len(demands) = Targets /\ stdout = <<>>
      /\ budget' = budget
  BY <1>1 DEF IInv, TablesGrow, OnlyWholeReports, budget
<1>3. CASE pc' = "exit 1" /\ UNCHANGED <<target, rows>>
  BY <1>1, <1>3, FailureStep
<1>4. CASE /\ flags.schemes[turn] \in SchemeNames
           /\ rows' = Append(rows, [name |-> scheme.name, cost |-> CostOf(scheme.name),
                                    cells |-> <<>>])
           /\ target' = 1 /\ pc' = "assess"
  <2> DEFINE name == flags.schemes[turn]
             row == [name |-> name, cost |-> CostOf(name), cells |-> <<>>]
  <2>1. name \in SchemeNames /\ scheme.name = name
    BY <1>4, LookupType DEF scheme
  <2>2. rows' = Append(rows, row)
    BY <1>4, <2>1
  <2>3. row \in RowSet
    <3>1. CostOf(name) \in Nat
      BY <2>1, CostOfName
    <3>2. <<>> \in Seq(CellSet)
      BY EmptySeq
    <3> QED BY <2>1, <3>1, <3>2 DEF RowSet, CellSet
  <2>4. row.name = name /\ row.cost = CostOf(name) /\ row.cells = <<>>
    OBVIOUS
  <2> HIDE DEF name, row
  <2>5. rows \in Seq(RowSet) /\ Len(rows) \in Nat /\ DOMAIN rows = 1 .. Len(rows)
        /\ turn \in Nat \ {0}
    BY <1>2, SolveShape
  <2>6. /\ rows' \in Seq(RowSet) /\ Len(rows') = turn /\ DOMAIN rows' = 1 .. turn
        /\ rows'[turn] = row /\ \A k \in 1 .. Len(rows) : rows'[k] = rows[k]
    <3>1. /\ rows' \in Seq(RowSet) /\ Len(rows') = Len(rows) + 1
          /\ rows'[Len(rows) + 1] = row /\ \A k \in 1 .. Len(rows) : rows'[k] = rows[k]
      BY <2>2, <2>3, <2>5
    <3>2. Len(rows) + 1 = turn
      BY <1>2, <2>5
    <3> QED BY <3>1, <3>2, LenProperties
  <2>7. TypeOK'
    BY <1>1, <1>2, <1>4, <2>6 DEF TypeOK, DefaultTargets
  <2>8. RowsAreRight'
    <3> SUFFICES ASSUME NEW k \in DOMAIN rows' PROVE RowIsRight(k)'
      BY DEF RowsAreRight
    <3>1. CASE k = turn
      <4>1. Len(<<>>) = 0 /\ DOMAIN <<>> = {} /\ Targets = 6
        BY TargetTypes
      <4> QED BY <1>1, <1>2, <2>1, <2>4, <2>5, <2>6, <3>1, <4>1 DEF RowIsRight, name
    <3>2. CASE k # turn
      <4>1. k \in DOMAIN rows /\ rows'[k] = rows[k]
        BY <1>2, <2>5, <2>6, <3>2
      <4>2. RowIsRight(k)
        BY <4>1 DEF IInv, RowsAreRight
      <4> QED BY <1>1, <1>2, <4>1, <4>2 DEF RowIsRight
    <3> QED BY <3>1, <3>2
  <2>9. DemandsDivide'
    BY <1>1, <1>2 DEF IInv, DemandsDivide
  <2>10. TablesGrow'
    <3>1. Len(rows'[turn].cells) = target' - 1
      BY <1>4, <2>4, <2>6, EmptySeq
    <3> QED BY <1>1, <1>2, <1>4, <2>1, <2>6, <3>1 DEF TablesGrow, name
  <2>11. OnlyWholeReports'
    BY <1>1, <1>2, <1>4 DEF OnlyWholeReports
  <2> QED BY <2>7, <2>8, <2>9, <2>10, <2>11 DEF IInv
<1> QED BY <1>3, <1>4 DEF StartScheme, Goto

(* A verdict joins the row of the name it is about.                        *)
LEMMA AssessStep ==
  ASSUME IInv, AssessTarget
  PROVE  IInv'
<1>1. /\ pc = "assess" /\ target \in 1 .. Targets
      /\ UNCHANGED <<flags, turn, demands, stdout>>
  <2>1. target \in Nat \ {0} /\ Targets \in Nat
    BY SolveShape, TargetTypes DEF IInv
  <2>2. pc = "assess" /\ target <= Targets /\ UNCHANGED <<flags, turn, demands, stdout>>
    BY DEF AssessTarget, Targets
  <2> QED BY <2>1, <2>2
<1>2. /\ TypeOK /\ turn <= Len(flags.schemes) /\ flags.schemes[turn] \in SchemeNames
      /\ Len(rows) = turn /\ Len(rows[turn].cells) = target - 1
      /\ Len(demands) = Targets /\ stdout = <<>> /\ budget' = budget
  BY <1>1 DEF IInv, TablesGrow, OnlyWholeReports, budget
<1>3. CASE pc' = "exit 1" /\ UNCHANGED <<target, rows>>
  BY <1>1, <1>3, FailureStep
<1>4. CASE /\ rows' = [rows EXCEPT ![turn].cells = Append(@, Cell(DefaultTargets[target]))]
           /\ target' = target + 1 /\ pc' = "assess"
  <2> DEFINE cell == Cell(DefaultTargets[target])
             cells == Append(rows[turn].cells, cell)
             row == [rows[turn] EXCEPT !.cells = cells]
  <2>1. rows' = [rows EXCEPT ![turn] = row]
    BY <1>4
  <2>2. rows \in Seq(RowSet) /\ DOMAIN rows = 1 .. turn /\ turn \in Nat \ {0}
        /\ DOMAIN demands = 1 .. Targets
    BY <1>2, SolveShape
  <2>3. RowIsRight(turn) /\ rows[turn] \in RowSet
    BY <1>2, <2>2, ElementOfSeq DEF IInv, RowsAreRight
  <2>4. cell = Assess(flags.arch, rows[turn].cost, DefaultTargets[target], budget)
    <3>1. scheme.name = flags.schemes[turn]
      BY <1>2, LookupType DEF scheme
    <3> QED BY <2>3, <3>1 DEF RowIsRight, Cell
  <2>5. cell \in CellSet
    <3>1. ~RequirePanics(DefaultTargets[target], budget)
      BY <1>1, <2>2 DEF IInv, DemandsDivide
    <3>2. DefaultTargets[target] \in Nat \ {0} /\ budget \in Budgets
      BY <1>1, <1>2, TargetTypes, SolveShape
    <3>3. rows[turn].cost \in Nat
      BY <2>3 DEF RowSet
    <3> QED BY <2>4, <3>1, <3>2, <3>3, VerdictType
  <2>6. rows[turn].cells \in Seq(CellSet)
    BY <2>3 DEF RowSet, CellSet
  <2> HIDE DEF cell
  <2>7. /\ cells \in Seq(CellSet) /\ Len(cells) = target
        /\ DOMAIN cells = 1 .. target /\ DOMAIN rows[turn].cells = 1 .. target - 1
        /\ cells[target] = cell
        /\ \A j \in 1 .. target - 1 : cells[j] = rows[turn].cells[j]
    <3> DEFINE old == rows[turn].cells
    <3>1. old \in Seq(CellSet) /\ Len(old) = target - 1 /\ target \in Nat \ {0}
      BY <1>1, <1>2, <2>6, TargetTypes
    <3> HIDE DEF old
    <3>2. /\ Append(old, cell) \in Seq(CellSet) /\ Len(Append(old, cell)) = Len(old) + 1
          /\ Append(old, cell)[Len(old) + 1] = cell
          /\ \A j \in 1 .. Len(old) : Append(old, cell)[j] = old[j]
      BY <2>5, <3>1
    <3>3. Len(old) + 1 = target
      BY <3>1
    <3> QED BY <3>1, <3>2, <3>3, LenProperties DEF old
  <2> HIDE DEF cells
  <2>8. /\ row \in RowSet /\ row.cells = cells
        /\ row.name = rows[turn].name /\ row.cost = rows[turn].cost
    BY <2>3, <2>7 DEF RowSet, CellSet
  <2> HIDE DEF row
  <2>9. /\ rows' \in Seq(RowSet) /\ Len(rows') = turn /\ DOMAIN rows' = 1 .. turn
        /\ rows'[turn] = row /\ \A k \in 1 .. turn : k # turn => rows'[k] = rows[k]
    <3>1. turn \in 1 .. Len(rows) /\ Len(rows) = turn
      BY <1>2, <2>2
    <3>2. /\ rows' \in Seq(RowSet) /\ Len(rows') = Len(rows)
          /\ \A k \in 1 .. Len(rows) : rows'[k] = IF k = turn THEN row ELSE rows[k]
      BY <2>1, <2>2, <2>8, <3>1, ExceptSeq
    <3> QED BY <3>1, <3>2, LenProperties
  <2>10. target' \in 1 .. Len(DefaultTargets) + 1 /\ target' - 1 = target
    BY <1>1, <1>4, TargetTypes DEF Targets
  <2>11. TypeOK'
    BY <1>1, <1>2, <1>4, <2>9, <2>10 DEF TypeOK
  <2>12. RowsAreRight'
    <3> SUFFICES ASSUME NEW k \in DOMAIN rows' PROVE RowIsRight(k)'
      BY DEF RowsAreRight
    <3>1. CASE k = turn
      <4>1. Len(row.cells) <= Targets /\ ~(k < turn')
        BY <1>1, <2>2, <2>7, <2>8, <3>1, TargetTypes
      <4>2. \A j \in DOMAIN row.cells :
              row.cells[j] = Assess(flags.arch, row.cost, DefaultTargets[j], budget)
        <5> TAKE j \in DOMAIN row.cells
        <5>1. j \in 1 .. target
          BY <2>7, <2>8
        <5>2. CASE j = target
          BY <2>4, <2>7, <2>8, <5>2
        <5>3. CASE j # target
          <6>1. j \in 1 .. target - 1
            BY <1>1, <5>1, <5>3, TargetTypes
          <6> QED BY <2>3, <2>7, <2>8, <6>1 DEF RowIsRight
        <5> QED BY <5>2, <5>3
      <4>3. row.name = flags.schemes[k] /\ row.name \in SchemeNames /\ row.cost = CostOf(row.name)
        BY <2>3, <2>8, <3>1 DEF RowIsRight
      <4> QED BY <1>1, <1>2, <2>9, <3>1, <4>1, <4>2, <4>3 DEF RowIsRight
    <3>2. CASE k # turn
      <4>1. k \in DOMAIN rows /\ rows'[k] = rows[k]
        BY <2>2, <2>9, <3>2
      <4>2. RowIsRight(k)
        BY <4>1 DEF IInv, RowsAreRight
      <4> QED BY <1>1, <1>2, <4>1, <4>2 DEF RowIsRight
    <3> QED BY <3>1, <3>2
  <2>13. DemandsDivide'
    BY <1>1, <1>2 DEF IInv, DemandsDivide
  <2>14. TablesGrow'
    BY <1>1, <1>2, <1>4, <2>7, <2>8, <2>9, <2>10 DEF TablesGrow
  <2>15. OnlyWholeReports'
    BY <1>1, <1>2, <1>4 DEF OnlyWholeReports
  <2> QED BY <2>11, <2>12, <2>13, <2>14, <2>15 DEF IInv
<1> QED BY <1>3, <1>4 DEF AssessTarget, Goto

(* A row is left when it has a cell for every target.                      *)
LEMMA FinishSchemeStep ==
  ASSUME IInv, FinishScheme
  PROVE  IInv'
<1>1. /\ pc = "assess" /\ pc' = "lookup" /\ target > Targets /\ turn' = turn + 1
      /\ UNCHANGED <<flags, target, demands, rows, stdout>>
  BY DEF FinishScheme, Goto, Targets
<1>2. /\ TypeOK /\ turn <= Len(flags.schemes)
      /\ Len(rows) = turn /\ Len(rows[turn].cells) = target - 1
      /\ Len(demands) = Targets /\ stdout = <<>> /\ budget' = budget
  BY <1>1 DEF IInv, TablesGrow, OnlyWholeReports, budget
<1>3. /\ turn \in Nat \ {0} /\ Len(flags.schemes) \in Nat /\ DOMAIN rows = 1 .. turn
      /\ Len(rows[turn].cells) = Targets
  <2>1. target \in Nat /\ target <= Targets + 1 /\ Targets = 6
    BY <1>2, SolveShape, TargetTypes
  <2>2. target - 1 = Targets
    BY <1>1, <2>1
  <2> QED BY <1>2, <2>2, SolveShape
<1>4. TypeOK'
  <2>1. turn' \in 1 .. Len(flags.schemes) + 1
    BY <1>1, <1>2, <1>3
  <2> QED BY <1>1, <1>2, <2>1 DEF TypeOK
<1>5. RowsAreRight'
  <2> SUFFICES ASSUME NEW k \in DOMAIN rows' PROVE RowIsRight(k)'
    BY DEF RowsAreRight
  <2>1. k \in 1 .. turn /\ RowIsRight(k)
    BY <1>1, <1>3 DEF IInv, RowsAreRight
  <2>2. Len(rows[k].cells) = Targets
    <3>1. k = turn \/ k < turn
      BY <1>3, <2>1
    <3> QED BY <1>3, <2>1, <3>1 DEF RowIsRight
  <2> QED BY <1>1, <1>2, <2>1, <2>2 DEF RowIsRight
<1>6. DemandsDivide'
  BY <1>1, <1>2 DEF IInv, DemandsDivide
<1>7. TablesGrow'
  <2>1. Len(rows') = turn' - 1
    BY <1>1, <1>2, <1>3
  <2> QED BY <1>1, <1>2, <2>1 DEF TablesGrow
<1>8. OnlyWholeReports'
  BY <1>1, <1>2 DEF OnlyWholeReports
<1> QED BY <1>4, <1>5, <1>6, <1>7, <1>8 DEF IInv

(* What is printed are the two tables as they are.                         *)
LEMMA PrintReportStep ==
  ASSUME IInv, PrintReport
  PROVE  IInv'
<1>1. /\ pc = "lookup" /\ pc' = "exit 0" /\ turn > Len(flags.schemes)
      /\ stdout' = <<demands, rows>>
      /\ UNCHANGED <<flags, target, turn, demands, rows>>
  BY DEF PrintReport, Goto
<1>2. TypeOK /\ Len(rows) = turn - 1 /\ Len(demands) = Targets /\ budget' = budget
  BY <1>1 DEF IInv, TablesGrow, budget
<1>3. turn = Len(flags.schemes) + 1
  <2> DEFINE names == Len(flags.schemes)
  <2>1. turn \in Nat /\ names \in Nat /\ turn <= names + 1 /\ turn > names
    BY <1>1, <1>2, SolveShape
  <2> HIDE DEF names
  <2>2. turn = names + 1
    BY <2>1
  <2> QED BY <2>2 DEF names
<1>4. TypeOK'
  BY <1>1, <1>2 DEF TypeOK
<1>5. RowsAreRight' /\ DemandsDivide'
  BY <1>1, <1>2 DEF IInv, RowsAreRight, RowIsRight, DemandsDivide
<1>6. TablesGrow' /\ OnlyWholeReports'
  BY <1>1, <1>2, <1>3 DEF TablesGrow, OnlyWholeReports
<1> QED BY <1>4, <1>5, <1>6 DEF IInv

(* Every step keeps the invariant.                                         *)
LEMMA SolveNext == IInv /\ [Next]_vars => IInv'
<1> SUFFICES ASSUME IInv, [Next]_vars PROVE IInv'
  OBVIOUS
<1>1. CASE UNCHANGED vars
  <2>1. UNCHANGED <<flags, pc, target, turn, demands, rows, stdout>> /\ budget' = budget
    BY <1>1 DEF vars, budget
  <2> QED BY <2>1 DEF IInv, TypeOK, RowsAreRight, RowIsRight, DemandsDivide, TablesGrow,
                      OnlyWholeReports
<1> QED BY <1>1, RequireStep, RequirementsDoneStep, StartSchemeStep, AssessStep,
           FinishSchemeStep, PrintReportStep DEF Next

(* The inductive invariant of the mode.                                    *)
LEMMA SolveInvariant == Spec => []IInv
BY SolveInit, SolveNext, PTL DEF Spec

-----------------------------------------------------------------------------
(* Where Require's arithmetic is exact, a cell says what fits.             *)
LEMMA CellIsTheFit ==
  ASSUME IInv, NEW i \in DOMAIN rows, NEW k \in DOMAIN rows[i].cells
  PROVE  /\ k \in 1 .. Targets /\ DefaultTargets[k] \in Nat \ {0}
         /\ rows[i].cost \in Nat \ {0}
         /\ ExactRequirement(DefaultTargets[k], budget) =>
              (rows[i].cells[k].feasible <=> FitsInRound(rows[i].cost, DefaultTargets[k], budget))
<1>1. /\ TypeOK /\ RowIsRight(i) /\ budget \in Budgets
      /\ DOMAIN rows = 1 .. Len(rows) /\ rows \in Seq(RowSet)
  BY SolveShape DEF IInv, RowsAreRight
<1>2. rows[i] \in RowSet
  BY <1>1, ElementOfSeq
<1>3. rows[i].cost \in Nat \ {0}
  BY <1>1, CostOfName DEF RowIsRight
<1>4. k \in 1 .. Targets
  <2>1. rows[i].cells \in Seq(CellSet)
    BY <1>2 DEF RowSet, CellSet
  <2>2. k \in 1 .. Len(rows[i].cells) /\ Len(rows[i].cells) \in Nat
    BY <2>1, LenProperties
  <2>3. Len(rows[i].cells) <= Targets /\ Targets \in Nat
    BY <1>1, TargetTypes DEF RowIsRight
  <2> QED BY <2>2, <2>3
<1>5. DefaultTargets[k] \in Nat \ {0}
  BY <1>4, TargetTypes
<1>6. rows[i].cells[k] = Assess(flags.arch, rows[i].cost, DefaultTargets[k], budget)
  BY <1>1 DEF RowIsRight
<1>7. ExactRequirement(DefaultTargets[k], budget) =>
        (rows[i].cells[k].feasible <=> FitsInRound(rows[i].cost, DefaultTargets[k], budget))
  BY <1>1, <1>3, <1>5, <1>6, RequirementIsInverse
<1> QED BY <1>3, <1>4, <1>5, <1>7

(* What fits a round with more validators, at no lower a cost, fits it.    *)
LEMMA SmallerFits ==
  ASSUME NEW b \in Budgets, NEW c \in Nat, NEW d \in Nat, NEW m \in Nat, NEW n \in Nat,
         c <= d, m <= n
  PROVE  /\ FitsInRound(d, n, b) => FitsInRound(c, m, b)
         /\ ExactRequirement(n, b) => ExactRequirement(m, b)
<1>1. b.peers \in Nat
  BY BudgetShape
<1>2. m * b.peers <= n * b.peers
  BY <1>1, ProductMonotone
<1>3. m * c * b.peers <= n * d * b.peers
  <2>1. m * c <= n * c
    BY ProductMonotone
  <2>2. c * n <= d * n
    BY ProductMonotone
  <2>3. m * c \in Int /\ n * d \in Int /\ m * c <= n * d
    BY <2>1, <2>2
  <2> DEFINE p == m * c
             q == n * d
  <2> HIDE DEF p, q
  <2>4. p \in Int /\ q \in Int /\ p <= q
    BY <2>3 DEF p, q
  <2>5. p * b.peers <= q * b.peers
    BY <1>1, <2>4, ProductMonotone
  <2> QED BY <2>5 DEF p, q
<1>4. FitsInRound(d, n, b) => FitsInRound(c, m, b)
  <2> SUFFICES ASSUME FitsInRound(d, n, b) PROVE FitsInRound(c, m, b)
    OBVIOUS
  <2>1. WholeBytes(b) \in Int
    <3>1. b.link * b.round[1] \in Int /\ 8 * b.round[2] \in Nat \ {0}
      BY BudgetShape DEF FitsInRound, Finite
    <3> QED BY <3>1, DivBounds DEF WholeBytes
  <2>2. n * d * b.peers \in Int /\ m * c * b.peers \in Int
    BY <1>1
  <2> DEFINE x == m * c * b.peers
             y == n * d * b.peers
  <2>3. y <= WholeBytes(b)
    BY DEF FitsInRound, WholeBytes
  <2> HIDE DEF x, y
  <2>4. x <= WholeBytes(b)
    BY <1>3, <2>1, <2>2, <2>3 DEF x, y
  <2> QED BY <2>4 DEF FitsInRound, WholeBytes, x
<1>5. ExactRequirement(n, b) => ExactRequirement(m, b)
  <2> DEFINE x == m * b.peers
             y == n * b.peers
  <2>1. x \in Int /\ y \in Int /\ x <= y /\ MaxInt \in Int
    BY <1>1, <1>2, MaxIntAssumption
  <2> HIDE DEF x, y
  <2>2. y <= MaxInt => x <= MaxInt
    BY <2>1
  <2> QED BY <2>2 DEF ExactRequirement, x, y
<1> QED BY <1>4, <1>5

(***************************************************************************)
(* The program's state stays well typed (SolveReport, solve.go).           *)
(***************************************************************************)
THEOREM SolveTypeCorrect == Spec => []TypeOK
BY SolveInvariant, PTL DEF IInv

(***************************************************************************)
(* The two modes never disagree (Assess, solve.go, against DeriveCeiling,  *)
(* ceiling.go): whatever the word size, the search bound and the command   *)
(* line, a cell says "fits" exactly when the round's bytes fit the budget, *)
(* and that is when the ceiling admits the target.                         *)
(***************************************************************************)
THEOREM CellsAgreeWithCeilings == Spec => []CellsMatchTheCeiling
<1>1. IInv => CellsMatchTheCeiling
  <2> SUFFICES ASSUME IInv, NEW i \in DOMAIN rows, NEW k \in DOMAIN rows[i].cells,
                      Exact(rows[i].cost, DefaultTargets[k])
               PROVE  LET m == DefaultTargets[k]
                          fits == rows[i].cells[k].feasible
                      IN  /\ fits <=> FitsInRound(rows[i].cost, m, budget)
                          /\ m <= searchMax =>
                               (fits <=> m <= DeriveCeiling(flags.arch, rows[i].cost, budget)
                                                .maxValidators)
    BY DEF CellsMatchTheCeiling, Range
  <2> DEFINE m == DefaultTargets[k]
             c == DeriveCeiling(flags.arch, rows[i].cost, budget)
  <2>1. /\ m \in Nat \ {0} /\ rows[i].cost \in Nat \ {0} /\ budget \in Budgets
        /\ rows[i].cells[k].feasible <=> FitsInRound(rows[i].cost, m, budget)
    BY CellIsTheFit, SolveShape DEF IInv, Exact
  <2>2. ASSUME m <= searchMax
        PROVE  FitsInRound(rows[i].cost, m, budget) <=> m <= c.maxValidators
    <3>1. m \in 0 .. searchMax
      BY <2>1, <2>2, searchMaxAssumption, MaxIntAssumption
    <3> QED BY <2>1, <3>1, CeilingIsCapacity DEF Exact
  <2> QED BY <2>1, <2>2
<1> QED BY <1>1, SolveInvariant, PTL

(***************************************************************************)
(* The table reads in both directions (the rows and columns SolveReport    *)
(* writes, solve.go): a target met is met by every scheme that costs no    *)
(* more, and every smaller target with it.                                 *)
(***************************************************************************)
THEOREM TableReadsBothWays == Spec => []TableIsMonotone
<1>1. IInv => TableIsMonotone
  <2> SUFFICES ASSUME IInv, NEW i \in DOMAIN rows, NEW j \in DOMAIN rows,
                      NEW k \in DOMAIN rows[i].cells, NEW l \in DOMAIN rows[j].cells,
                      rows[i].cost <= rows[j].cost, k <= l,
                      Exact(rows[j].cost, DefaultTargets[l]), rows[j].cells[l].feasible
               PROVE  rows[i].cells[k].feasible
    BY DEF TableIsMonotone
  <2>1. /\ k \in 1 .. Targets /\ DefaultTargets[k] \in Nat /\ rows[i].cost \in Nat
        /\ ExactRequirement(DefaultTargets[k], budget) =>
             (rows[i].cells[k].feasible <=> FitsInRound(rows[i].cost, DefaultTargets[k], budget))
    BY CellIsTheFit
  <2>2. /\ l \in 1 .. Targets /\ DefaultTargets[l] \in Nat /\ rows[j].cost \in Nat
        /\ FitsInRound(rows[j].cost, DefaultTargets[l], budget)
    BY CellIsTheFit DEF Exact
  <2>3. DefaultTargets[k] <= DefaultTargets[l] /\ budget \in Budgets
    BY <2>1, <2>2, TargetTypes, SolveShape DEF IInv
  <2> QED BY <2>1, <2>2, <2>3, SmallerFits DEF Exact
<1> QED BY <1>1, SolveInvariant, PTL

(* A report is printed once, whole.                                       *)
LEMMA SolveWholes == IInv => ReportIsWholeOrAbsent
<1> SUFFICES ASSUME IInv PROVE ReportIsWholeOrAbsent
  OBVIOUS
<1>1. ASSUME pc = "exit 0"
      PROVE  /\ Len(stdout[1]) = Targets /\ Len(stdout[2]) = Len(flags.schemes)
             /\ \A k \in DOMAIN stdout[2] :
                  /\ stdout[2][k].name = flags.schemes[k]
                  /\ stdout[2][k].cost = CostOf(flags.schemes[k])
                  /\ Len(stdout[2][k].cells) = Targets
  <2>1. stdout[1] = demands /\ stdout[2] = rows /\ turn = Len(flags.schemes) + 1
        /\ Len(demands) = Targets /\ Len(rows) = turn - 1
    <3>1. stdout = <<demands, rows>> /\ turn = Len(flags.schemes) + 1
      BY <1>1 DEF IInv, OnlyWholeReports
    <3>2. Len(demands) = Targets /\ Len(rows) = turn - 1
      BY <1>1 DEF IInv, TablesGrow
    <3> QED BY <3>1, <3>2
  <2>2. turn \in Nat /\ Len(flags.schemes) \in Nat /\ DOMAIN rows = 1 .. Len(rows)
    BY SolveShape DEF IInv
  <2>3. Len(rows) = Len(flags.schemes)
    BY <2>1, <2>2
  <2>4. ASSUME NEW k \in DOMAIN rows PROVE k < turn /\ RowIsRight(k)
    BY <2>1, <2>2, <2>3 DEF IInv, RowsAreRight
  <2> QED BY <2>1, <2>3, <2>4 DEF RowIsRight
<1>2. pc # "exit 0" => stdout = <<>>
  BY DEF IInv, OnlyWholeReports
<1>3. pc = "panic" => \E m \in Range(DefaultTargets) : m * budget.peers > MaxInt
  BY DEF IInv, OnlyWholeReports
<1> QED BY <1>1, <1>2, <1>3 DEF ReportIsWholeOrAbsent, Targets

(***************************************************************************)
(* The report is all or nothing (SolveReport returns its string at the end *)
(* and main prints it, solve.go and main.go), and only a product of target *)
(* and peers that leaves the word panics.                                  *)
(***************************************************************************)
THEOREM SolveReportIsWhole == Spec => []ReportIsWholeOrAbsent
BY SolveWholes, SolveInvariant, PTL
=============================================================================
