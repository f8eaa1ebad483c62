------------------------------- MODULE Solve -------------------------------
(***************************************************************************)
(* The --solve mode: SolveReport inverts the ceiling model for a list of   *)
(* target validator counts and holds every scheme against each of them.    *)
(* The report is a string that is returned whole or not at all; main       *)
(* prints it, and the approach table after it, once it has it.             *)
(*                                                                         *)
(* An action is one round of one of the loops of SolveReport.  The text of *)
(* the approach table is not modelled.                                     *)
(***************************************************************************)
EXTENDS Ceiling, Measure

CONSTANTS
  Flags   (* the parsed command lines a behaviour may start from *)

FlagSet ==
  [schemes : Seq(STRING), links : Seq(Int64), rounds : Seq(Rounds),
   peers : Seq(1 .. MaxInt), arch : Archs]

ASSUME FlagsAssumption ==
  /\ Flags \subseteq FlagSet
  /\ \A f \in Flags : <<>> \notin {f.schemes, f.links, f.rounds, f.peers}

VARIABLES
  flags,    (* the command line: never changes *)
  pc,       (* what SolveReport does next, or how the program ended *)
  target,   (* index into the targets *)
  turn,     (* index into the scheme names *)
  demands,  (* the requirement table built so far *)
  rows,     (* the scheme table built so far *)
  stdout

vars == <<flags, pc, target, turn, demands, rows, stdout>>

DefaultTargets == <<4, 64, 100, 180, 1000, 10000>>

(* Only the first link, round and peer count of the lists are used.        *)
budget == [link |-> flags.links[1], round |-> flags.rounds[1], peers |-> flags.peers[1]]

(* Mutant: the first name is looked up for every row.                      *)
firstScheme == lookupScheme(flags.schemes[1])

scheme == lookupScheme(flags.schemes[turn])

CostOf(name) == RoundTripBytes(MeasureSizes(lookupScheme(name), <<100>>))

Goto(label) == pc' = label

-----------------------------------------------------------------------------
Init ==
  /\ flags \in Flags
  /\ pc = "require"
  /\ target = 1
  /\ turn = 1
  /\ demands = <<>>
  /\ rows = <<>>
  /\ stdout = <<>>

Demand(validators) == <<validators, MaxCostPerRound(flags.arch, validators, budget)>>

(* A row of the requirement table; the division may panic.                 *)
RequireTarget ==
  /\ pc = "require"
  /\ target <= Len(DefaultTargets)
  /\ IF RequirePanics(DefaultTargets[target], budget)
     THEN Goto("panic") /\ UNCHANGED <<target, demands>>
     ELSE /\ demands' = Append(demands, Demand(DefaultTargets[target]))
          /\ target' = target + 1
          /\ UNCHANGED pc
  /\ UNCHANGED <<flags, turn, rows, stdout>>

RequirementsDone ==
  /\ pc = "require"
  /\ target > Len(DefaultTargets)
  /\ Goto("lookup")
  /\ UNCHANGED <<flags, target, turn, demands, rows, stdout>>

(* The lookup and the measurement at 100 validators; either may fail.      *)
StartScheme ==
  /\ pc = "lookup"
  /\ turn <= Len(flags.schemes)
  /\ \/ /\ flags.schemes[turn] \in SchemeNames
        /\ rows' = Append(rows,
             [name |-> scheme.name, cost |-> CostOf(scheme.name), cells |-> <<>>])
        /\ target' = 1
        /\ Goto("assess")
     \/ /\ Goto("exit 1")
        /\ UNCHANGED <<target, rows>>
  /\ UNCHANGED <<flags, turn, demands, stdout>>

(* Assess measures the scheme again, at the target's count.                *)
Cell(validators) == Assess(flags.arch, CostOf(scheme.name), validators, budget)

AssessTarget ==
  /\ pc = "assess"
  /\ target <= Len(DefaultTargets)
  /\ \/ /\ rows' = [rows EXCEPT ![turn].cells = Append(@, Cell(DefaultTargets[target]))]
        /\ target' = target + 1
        /\ UNCHANGED pc
     \/ /\ Goto("exit 1")
        /\ UNCHANGED <<target, rows>>
  /\ UNCHANGED <<flags, turn, demands, stdout>>

(* Mutant: the loop over the targets does not come to its end.             *)
FinishSchemeLate ==
  /\ pc = "assess"
  /\ target > Len(DefaultTargets) + 1
  /\ turn' = turn + 1
  /\ Goto("lookup")
  /\ UNCHANGED <<flags, target, demands, rows, stdout>>

FinishScheme ==
  /\ pc = "assess"
  /\ target > Len(DefaultTargets)
  /\ turn' = turn + 1
  /\ Goto("lookup")
  /\ UNCHANGED <<flags, target, demands, rows, stdout>>

(* The report is returned, and printed with the approach table.            *)
PrintReport ==
  /\ pc = "lookup"
  /\ turn > Len(flags.schemes)
  /\ stdout' = <<demands, rows>>
  /\ Goto("exit 0")
  /\ UNCHANGED <<flags, target, turn, demands, rows>>

Next ==
  \/ RequireTarget
  \/ RequirementsDone
  \/ StartScheme
  \/ AssessTarget
  \/ FinishScheme
  \/ PrintReport

(* One thread runs the program, and nothing in it waits.                   *)
Spec == Init /\ [][Next]_vars /\ WF_vars(Next)

-----------------------------------------------------------------------------
RowSet ==
  [name : SchemeNames, cost : Nat,
   cells : Seq([feasible : BOOLEAN, reduction : Nat \X (Nat \ {0})])]

TypeOK ==
  /\ flags \in Flags
  /\ pc \in {"require", "lookup", "assess", "exit 0", "exit 1", "panic"}
  /\ target \in 1 .. Len(DefaultTargets) + 1
  /\ turn \in 1 .. Len(flags.schemes) + 1
  /\ demands \in Seq(Nat \X Int64)
  /\ rows \in Seq(RowSet)
  /\ stdout \in {<<>>, <<demands, rows>>}

Ended == pc \in {"exit 0", "exit 1", "panic"}

Exact(cost, validators) ==
  ExactCeiling(cost, budget) /\ ExactRequirement(validators, budget)

(***************************************************************************)
(* A cell says "fits" exactly when the round's bytes fit the budget, and   *)
(* that is when the default mode's ceiling for the same scheme and budget  *)
(* admits the target (as far as ceilings go): the two modes compute it by  *)
(* two different truncating divisions and must not disagree at a boundary. *)
(***************************************************************************)
CellsMatchTheCeiling ==
  \A r \in Range(rows) : \A k \in DOMAIN r.cells :
    LET m == DefaultTargets[k]
        fits == r.cells[k].feasible
    IN  Exact(r.cost, m) =>
          /\ fits <=> FitsInRound(r.cost, m, budget)
          /\ m <= searchMax =>
               (fits <=> m <= DeriveCeiling(flags.arch, r.cost, budget).maxValidators)

(***************************************************************************)
(* The table can be read in both directions: a scheme that misses a target *)
(* misses every larger one, and a target met by a scheme is met by every   *)
(* scheme that costs no more, also with several names and repeated names.  *)
(***************************************************************************)
TableIsMonotone ==
  \A i, j \in DOMAIN rows :
    \A k \in DOMAIN rows[i].cells : \A l \in DOMAIN rows[j].cells :
      /\ rows[i].cost <= rows[j].cost
      /\ k <= l
      /\ Exact(rows[j].cost, DefaultTargets[l])
      /\ rows[j].cells[l].feasible
      => rows[i].cells[k].feasible

(***************************************************************************)
(* The report is all or nothing.  What is printed has a requirement per    *)
(* target and, for every name given and in that order, a row with its own  *)
(* cost and a cell per target; a run that fails, at whichever name or      *)
(* target, or panics, has printed nothing, and only overflowing products   *)
(* panic.                                                                  *)
(***************************************************************************)
ReportIsWholeOrAbsent ==
  /\ pc # "exit 0" => stdout = <<>>
  /\ pc = "exit 0" =>
       LET printed == stdout[2]
       IN  /\ Len(stdout[1]) = Len(DefaultTargets)
           /\ Len(printed) = Len(flags.schemes)
           /\ \A k \in DOMAIN printed :
                /\ printed[k].name = flags.schemes[k]
                /\ printed[k].cost = CostOf(flags.schemes[k])
                /\ Len(printed[k].cells) = Len(DefaultTargets)
  /\ pc = "panic" => \E m \in Range(DefaultTargets) : m * budget.peers > MaxInt

(* The tool always comes to an end.                                        *)
Terminates == <>Ended

(***************************************************************************)
(* "A number is the factor by which the per-validator round cost must fall *)
(* for that target to fit": a number therefore exceeds one.  Refuted where *)
(* the requirement is rounded down to nothing: see the README.             *)
(***************************************************************************)
NumbersAreReductions ==
  \A r \in Range(rows) : \A k \in DOMAIN r.cells :
    ~r.cells[k].feasible => r.cells[k].reduction[1] > r.cells[k].reduction[2]
=============================================================================
