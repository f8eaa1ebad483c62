------------------------------ MODULE Reports ------------------------------
(***************************************************************************)
(* What the default mode promises, without its loops, its shared slice and *)
(* its scans: for the names of the command line, in order, a whole report  *)
(* each, or the reports up to some name and a failure.  What a report says *)
(* is a function of the command line and the name alone, in particular not *)
(* of the reports before it.                                               *)
(***************************************************************************)
EXTENDS Ceiling, Measure, FiniteSets

CONSTANTS
  YearSeconds   (* the seconds storage is projected over *)

VARIABLES
  flags,    (* the command line *)
  reports,  (* the reports delivered *)
  status    (* "running", or the exit code *)

-----------------------------------------------------------------------------
(* The k-th smallest value of s.                                           *)
Ranked(s, k) ==
  CHOOSE n \in Range(s) :
    /\ Cardinality({j \in DOMAIN s : s[j] < n}) < k
    /\ k <= Cardinality({j \in DOMAIN s : s[j] <= n})

CommitTable(s) ==
  [k \in DOMAIN flags.counts |->
     LET n == Ranked(flags.counts, k) IN <<n, commitBytes(n, s.sigBytes)>>]

StorageLines(s) ==
  LET blocks == FloatToInt(flags.arch, <<YearSeconds * flags.blockSecs[2], flags.blockSecs[1]>>)
      val    == flags.storageVals
  IN  IF val \in Range(flags.counts)
      THEN {<<val, Wrap(blocks * commitBytes(val, s.sigBytes))>>}
      ELSE {}

(* The k-th budget of the grid: peers vary fastest, links slowest.         *)
BudgetOfRow(k) ==
  LET p == Len(flags.peers)
      r == Len(flags.rounds)
  IN  [link  |-> flags.links[(k - 1) \div (r * p) + 1],
       round |-> flags.rounds[(((k - 1) \div p) % r) + 1],
       peers |-> flags.peers[((k - 1) % p) + 1]]

CeilingTable(s) ==
  [k \in 1 .. Len(flags.links) * Len(flags.rounds) * Len(flags.peers) |->
     DeriveCeiling(flags.arch, RoundTripBytes(MeasureSizes(s, <<>>)), BudgetOfRow(k))]

(* The place of the first of the rows that admit the fewest validators.    *)
Binding(table) ==
  LET Fewest(k) == \A j \in DOMAIN table : table[k].maxValidators <= table[j].maxValidators
  IN  CHOOSE k \in DOMAIN table : Fewest(k) /\ \A j \in 1 .. k - 1 : ~Fewest(j)

Report(s, table) ==
  [votes     |-> {MeasureSizes(s, flags.counts)},
   commits   |-> {CommitTable(s)},
   breakdown |-> {Breakdown(s)},
   storage   |-> StorageLines(s),
   ceilings  |-> {table},
   binding   |-> {table[Binding(table)]},
   cost      |-> {RoundTripBytes(MeasureSizes(s, <<>>))}]

-----------------------------------------------------------------------------
Init ==
  /\ reports = <<>>
  /\ status = "running"

(* The next name's report, and the end of the program after the last.      *)
Deliver ==
  LET name == flags.schemes[Len(reports) + 1]
  IN  /\ status = "running"
      /\ name \in SchemeNames
      /\ Len(reports') = Len(reports) + 1
      /\ \E table \in {CeilingTable(lookupScheme(name))} :
           reports' = Append(reports, Report(lookupScheme(name), table))
      /\ status' = IF Len(reports') = Len(flags.schemes) THEN "exit 0" ELSE "running"
      /\ UNCHANGED flags

(* A name that is unknown or something that cannot be marshaled.           *)
Refuse ==
  /\ status = "running"
  /\ status' = "exit 1"
  /\ UNCHANGED <<flags, reports>>

Safety == Init /\ [][Deliver \/ Refuse]_<<flags, reports, status>>
Ends   == <>(status # "running")

Spec == Safety /\ Ends
=============================================================================
