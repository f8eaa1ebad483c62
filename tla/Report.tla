------------------------------- MODULE Report -------------------------------
(***************************************************************************)
(* The default mode: main's loop over the scheme names and report, the     *)
(* body it calls for each.  A name is looked up only when the loop reaches *)
(* it, and each section is on standard output before the next is computed, *)
(* so a failure leaves behind what was printed so far.  The slice of       *)
(* validator counts is shared by all the calls, and report sorts it in     *)
(* place.                                                                  *)
(*                                                                         *)
(* An action is a stretch of report that computes and prints; the loops    *)
(* over the budget grid and over the ceilings take one action per round.   *)
(* Shares of a block and the fixed sentences are not modelled.             *)
(***************************************************************************)
EXTENDS Ceiling, Measure

CONSTANTS
  Flags,         (* the parsed command lines a behaviour may start from *)
  YearSeconds    (* the seconds storage is projected over: 31536000 *)

FlagSet ==
  [schemes     : Seq(STRING),      (* --schemes, split at the commas *)
   counts      : Seq(Nat \ {0}),   (* --validators *)
   links       : Seq(Int64),       (* --links, in bits per second *)
   rounds      : Seq(Rounds),      (* --rounds *)
   peers       : Seq(1 .. MaxInt), (* --peers *)
   storageVals : Int64,            (* --storage-validators *)
   blockSecs   : Int \X Nat,       (* --block-seconds, which is not validated *)
   arch        : Archs]

(* The parsers refuse an empty list; strings.Split never returns one.      *)
ASSUME FlagsAssumption ==
  /\ Flags \subseteq FlagSet
  /\ \A f \in Flags :
       <<>> \notin {f.schemes, f.counts, f.links, f.rounds, f.peers}

ASSUME YearSecondsAssumption == YearSeconds \in Nat \ {0}

VARIABLES
  flags,     (* the command line: never changes *)
  counts,    (* main's slice of validator counts *)
  turn,      (* the scheme name main's loop has reached *)
  pc,        (* what report does next, or how the program ended *)
  sizes,     (* report's Sizes *)
  cell,      (* the indices of report's loops over links, rounds and peers *)
  ceilings,  (* the ceilings derived so far *)
  scan,      (* the ceiling Tightest compares next *)
  best,      (* Tightest's best so far *)
  stdout     (* the sections printed *)

vars == <<flags, counts, turn, pc, sizes, cell, ceilings, scan, best, stdout>>

scheme == lookupScheme(flags.schemes[turn])

(* Mutant: loops that count from 0.                                        *)
CellZero == <<0, 0, 0>>

FirstCell == <<1, 1, 1>>

(* sort.Ints: the ascending rearrangement of s.                            *)
Rearrangements(s) ==
  {[k \in DOMAIN s |-> s[p[k]]] : p \in {q \in [DOMAIN s -> DOMAIN s] : IsInjective(q)}}

Ascending(s) == \A j, k \in DOMAIN s : j <= k => s[j] <= s[k]

(* A section is known by its kind, the report it belongs to and its data.  *)
Section(kind, data) == [kind |-> kind, turn |-> turn, data |-> data]
Emit(kind, data)    == stdout' = Append(stdout, Section(kind, data))

Goto(label) == pc' = label

-----------------------------------------------------------------------------
(* Mutant: an error that does not show in the exit code.                   *)
Ignore == Goto("exit 0")

(* The result of marshaling, Breakdown and the lookup can be an error.     *)
Fail == Goto("exit 1")

Init ==
  /\ flags \in Flags
  /\ counts = flags.counts
  /\ turn = 1
  /\ pc = "lookup"
  /\ sizes = <<>>
  /\ cell = FirstCell
  /\ ceilings = <<>>
  /\ scan = 1
  /\ best = <<>>
  /\ stdout = <<>>

Lookup ==
  /\ pc = "lookup"
  /\ IF flags.schemes[turn] \in SchemeNames THEN Goto("measure") ELSE Fail
  /\ UNCHANGED <<flags, counts, turn, sizes, cell, ceilings, scan, best, stdout>>

(* Mutant: the ceilings of the previous scheme are still in the slice.     *)
MeasureKeepingCeilings ==
  /\ pc = "measure"
  /\ \/ sizes' = MeasureSizes(scheme, counts) /\ Goto("header")
     \/ sizes' = <<>> /\ Fail
  /\ cell' = FirstCell
  /\ UNCHANGED <<flags, counts, turn, ceilings, scan, best, stdout>>

(* report starts with its local variables fresh.                           *)
MeasureScheme ==
  /\ pc = "measure"
  /\ \/ /\ sizes' = MeasureSizes(scheme, counts)
        /\ Goto("header")
     \/ /\ sizes' = <<>>
        /\ Fail
  /\ cell' = FirstCell
  /\ ceilings' = <<>>
  /\ UNCHANGED <<flags, counts, turn, scan, best, stdout>>

(***************************************************************************)
(* The header, the vote table and the commit table.  A scheme of variable  *)
(* length gets a note on its longest signature: the two sizes in it are    *)
(* measured again, the note is left out when the first of these fails and  *)
(* says 0 when the second does.                                            *)
(***************************************************************************)
WorstPrecommit == voteBytes(PrecommitType, TRUE, scheme.sigBytesMax)

WorstNotes ==
  IF scheme.sigBytesMax = 0
  THEN {<<>>}
  ELSE {<<>>} \cup {<<WorstPrecommit, p>> : p \in {0, sizes.precommitBlock}}

(* Mutant: the rows keep the sizes of the order on the command line.       *)
CommitRowsUnsorted(ns) ==
  [k \in DOMAIN ns |-> <<ns[k], sizes.commits[flags.counts[k]]>>]

CommitRows(ns) == [k \in DOMAIN ns |-> <<ns[k], sizes.commits[ns[k]]>>]

PrintSizes ==
  /\ pc = "header"
  /\ counts' \in Rearrangements(counts)
  /\ Ascending(counts')
  /\ \E note \in WorstNotes :
       stdout' = stdout \o
         << Section("header", <<scheme.name, note>>),
            Section("votes", sizes),
            Section("commits", CommitRows(counts')) >>
  /\ Goto("breakdown")
  /\ UNCHANGED <<flags, turn, sizes, cell, ceilings, scan, best>>

PrintBreakdown ==
  /\ pc = "breakdown"
  /\ \/ Emit("breakdown", Breakdown(scheme)) /\ Goto("storage")
     \/ Fail /\ UNCHANGED stdout
  /\ UNCHANGED <<flags, counts, turn, sizes, cell, ceilings, scan, best>>

(* int64(YearSeconds / blockSeconds) blocks of one commit each, if the     *)
(* projected count is among the measured ones.                             *)
BytesPerYear(commit) ==
  Wrap(FloatToInt(flags.arch, <<YearSeconds * flags.blockSecs[2], flags.blockSecs[1]>>) * commit)

(* Mutant: the largest set is not looked up.                               *)
HasProjectionButLast ==
  flags.storageVals \in Range(SubSeq(counts, 1, Len(counts) - 1))

HasProjection == flags.storageVals \in DOMAIN sizes.commits

PrintStorage ==
  /\ pc = "storage"
  /\ IF HasProjection
     THEN Emit("storage",
            <<flags.storageVals, BytesPerYear(sizes.commits[flags.storageVals])>>)
     ELSE UNCHANGED stdout
  /\ Goto("derive")
  /\ UNCHANGED <<flags, counts, turn, sizes, cell, ceilings, scan, best>>

(***************************************************************************)
(* The nested loops over links, rounds and peers, innermost last.          *)
(***************************************************************************)
BudgetAt(c) ==
  [link |-> flags.links[c[1]], round |-> flags.rounds[c[2]], peers |-> flags.peers[c[3]]]

(* Mutant: the loop over the links is the innermost.                       *)
NextCellByLink(c) ==
  IF c[1] < Len(flags.links) THEN <<c[1] + 1, c[2], c[3]>>
  ELSE IF c[3] < Len(flags.peers) THEN <<1, c[2], c[3] + 1>>
  ELSE IF c[2] < Len(flags.rounds) THEN <<1, c[2] + 1, 1>>
  ELSE <<Len(flags.links) + 1, 1, 1>>

NextCell(c) ==
  IF c[3] < Len(flags.peers) THEN <<c[1], c[2], c[3] + 1>>
  ELSE IF c[2] < Len(flags.rounds) THEN <<c[1], c[2] + 1, 1>>
  ELSE <<c[1] + 1, 1, 1>>

DeriveCell ==
  /\ pc = "derive"
  /\ cell[1] <= Len(flags.links)
  /\ ceilings' =
       Append(ceilings, DeriveCeiling(flags.arch, RoundTripBytes(sizes), BudgetAt(cell)))
  /\ cell' = NextCell(cell)
  /\ UNCHANGED <<flags, counts, turn, pc, sizes, scan, best, stdout>>

PrintCeilings ==
  /\ pc = "derive"
  /\ cell[1] > Len(flags.links)
  /\ Emit("ceilings", ceilings)
  /\ best' = ceilings[1]
  /\ scan' = 2
  /\ Goto("tightest")
  /\ UNCHANGED <<flags, counts, turn, sizes, cell, ceilings>>

(* Mutant: the loosest ceiling wins.                                       *)
Looser(c, than) == c.maxValidators > than.maxValidators

(* The loop of Tightest: a later ceiling wins only if it admits fewer.     *)
Tighter(c, than) == c.maxValidators < than.maxValidators

(* Mutant: only a ceiling that wins takes the scan further.                *)
CompareOnWins ==
  /\ pc = "tightest"
  /\ scan <= Len(ceilings)
  /\ Tighter(ceilings[scan], best)
  /\ best' = ceilings[scan]
  /\ scan' = scan + 1
  /\ UNCHANGED <<flags, counts, turn, pc, sizes, cell, ceilings, stdout>>

Compare ==
  /\ pc = "tightest"
  /\ scan <= Len(ceilings)
  /\ best' = IF Tighter(ceilings[scan], best) THEN ceilings[scan] ELSE best
  /\ scan' = scan + 1
  /\ UNCHANGED <<flags, counts, turn, pc, sizes, cell, ceilings, stdout>>

(* The closing lines, and main's loop goes on to the next scheme.          *)
PrintBinding ==
  /\ pc = "tightest"
  /\ scan > Len(ceilings)
  /\ stdout' = stdout \o
       <<Section("binding", best), Section("cost", RoundTripBytes(sizes))>>
  /\ IF turn < Len(flags.schemes)
     THEN turn' = turn + 1 /\ Goto("lookup")
     ELSE turn' = turn /\ Goto("exit 0")
  /\ UNCHANGED <<flags, counts, sizes, cell, ceilings, scan, best>>

Next ==
  \/ Lookup
  \/ MeasureScheme
  \/ PrintSizes
  \/ PrintBreakdown
  \/ PrintStorage
  \/ DeriveCell
  \/ PrintCeilings
  \/ Compare
  \/ PrintBinding

(* One thread runs the program, and nothing in it waits.                   *)
Spec == Init /\ [][Next]_vars /\ WF_vars(Next)

-----------------------------------------------------------------------------
Kinds == {"header", "votes", "commits", "breakdown", "storage",
          "ceilings", "binding", "cost"}

Labels == {"lookup", "measure", "header", "breakdown", "storage", "derive",
           "tightest", "exit 0", "exit 1"}

CeilingSet ==
  [budget          : Budgets,
   maxValidators   : 0 .. searchMax,
   bytesAtMax      : Int64,
   budgetBytes     : Int64,
   utilization     : Int \X Int,
   limitedBySearch : BOOLEAN]

SizesOK ==
  /\ sizes.prevoteBlock \in Nat /\ sizes.precommitBlock \in Nat
  /\ sizes.prevoteNil \in Nat   /\ sizes.precommitNil \in Nat
  /\ sizes.commits \in [DOMAIN sizes.commits -> Nat]

(* What is being reported on, from the measurement to the closing lines.   *)
Reporting == pc \in Labels \ {"lookup", "measure", "exit 0", "exit 1"}

TypeOK ==
  /\ flags \in Flags
  /\ counts \in Seq(Nat \ {0})
  /\ turn \in 1 .. Len(flags.schemes)
  /\ pc \in Labels
  /\ Reporting => flags.schemes[turn] \in SchemeNames /\ SizesOK
  /\ cell \in (1 .. Len(flags.links) + 1) \X (1 .. Len(flags.rounds)) \X (1 .. Len(flags.peers))
  /\ ceilings \in Seq(CeilingSet)
  /\ pc = "tightest" => best \in CeilingSet /\ scan \in 2 .. Len(ceilings) + 1
  /\ stdout \in Seq(Range(stdout))
  /\ \A s \in Range(stdout) : s.kind \in Kinds /\ s.turn \in 1 .. turn

-----------------------------------------------------------------------------
Ended == pc \in {"exit 0", "exit 1"}

(* What the report of the t-th name printed under a kind; {} if nothing.   *)
Printed(kind, t) ==
  {s.data : s \in {x \in Range(stdout) : x.kind = kind /\ x.turn = t}}

Turns == DOMAIN flags.schemes

SchemeOf(t) == lookupScheme(flags.schemes[t])

Cells == (DOMAIN flags.links) \X (DOMAIN flags.rounds) \X (DOMAIN flags.peers)

(* A cell's place in the printed grid.                                     *)
Row(c) == ((c[1] - 1) * Len(flags.rounds) + c[2] - 1) * Len(flags.peers) + c[3]

(***************************************************************************)
(* The binding line is one of the rows of its own report's ceiling table,  *)
(* and no row of that table admits fewer validators: the scan starts at    *)
(* the second row, keeps the first of equals, and neither skips the last   *)
(* row nor carries the winner of an earlier scheme over.                   *)
(***************************************************************************)
BindingAdmitsFewest ==
  \A t \in Turns : \A bound \in Printed("binding", t) :
    \E rows \in Printed("ceilings", t) :
      /\ bound \in Range(rows)
      /\ \A k \in DOMAIN rows : bound.maxValidators <= rows[k].maxValidators

(***************************************************************************)
(* What an operator reads off the binding line: that many validators fit   *)
(* under every combination of link, round and peers given, and, unless the *)
(* number is the search bound, one more does not fit under all of them.    *)
(***************************************************************************)
BindingFitsEveryBudget ==
  \A t \in Turns : \A bound \in Printed("binding", t) :
    LET cost == RoundTripBytes(MeasureSizes(SchemeOf(t), <<>>))
        max  == bound.maxValidators
        Fits(m) == \A c \in Cells : FitsInRound(cost, m, BudgetAt(c))
    IN  (\A c \in Cells : ExactCeiling(cost, BudgetAt(c))) =>
          Fits(max) /\ (max < searchMax => ~Fits(max + 1))

(***************************************************************************)
(* Every figure belongs to the scheme whose report it is printed in, also  *)
(* for the second and third name of the list: the ceiling table has one    *)
(* row per combination, in the order of the flags, each derived from this  *)
(* scheme's own vote sizes, and the closing line repeats their sum.        *)
(***************************************************************************)
FiguresOfOwnScheme ==
  \A t \in Turns :
    LET cost == RoundTripBytes(MeasureSizes(SchemeOf(t), <<>>))
    IN  /\ \A s \in Printed("cost", t) : s = cost
        /\ \A rows \in Printed("ceilings", t) :
             /\ Len(rows) = Cardinality(Cells)
             /\ \A c \in Cells :
                  rows[Row(c)] = DeriveCeiling(flags.arch, cost, BudgetAt(c))

(***************************************************************************)
(* The commit table has one row per value of --validators, in ascending    *)
(* order whatever the order given and whatever an earlier report did to    *)
(* the shared slice.  Beyond the part every commit has, a row's size is    *)
(* proportional to its validators, at more than a signature each: no row   *)
(* takes the size of another count, or the 0 of a missing map entry.       *)
(***************************************************************************)
CommitTableGrowsWithTheSet ==
  \A t \in Turns : \A rows \in Printed("commits", t) :
    LET shared == commitBytes(0, SchemeOf(t).sigBytes)
        Occurrences(n, s) == Cardinality({k \in DOMAIN s : s[k] = n})
        column == [k \in DOMAIN rows |-> rows[k][1]]
    IN  /\ Ascending(column)
        /\ Len(rows) = Len(flags.counts)
        /\ \A n \in Range(flags.counts) : Occurrences(n, column) = Occurrences(n, flags.counts)
        /\ \A j, k \in DOMAIN rows :
             /\ (rows[j][2] - shared) * rows[k][1] = (rows[k][2] - shared) * rows[j][1]
             /\ rows[k][2] > rows[k][1] * SchemeOf(t).sigBytes

(***************************************************************************)
(* The breakdown accounts for every byte of the precommit of the vote      *)
(* table once: the parts add up to it, no part is negative, the signature  *)
(* part holds the whole signature and at most five bytes of tag and        *)
(* length, and the BlockID part is the gap between the two columns of the  *)
(* vote table.                                                             *)
(***************************************************************************)
BreakdownMatchesVoteTable ==
  \A t \in Turns : \A parts \in Printed("breakdown", t) : \A votes \in Printed("votes", t) :
    /\ parts.total = votes.precommitBlock
    /\ parts.signature + parts.blockID + parts.address + parts.rest = parts.total
    /\ parts.signature - SchemeOf(t).sigBytes \in 1 .. 5
    /\ parts.blockID = votes.precommitBlock - votes.precommitNil
    /\ parts.address > AddressWidth
    /\ parts.rest > 0

(***************************************************************************)
(* The storage line is about a commit the same report printed: it is there *)
(* in a finished report exactly when --storage-validators is one of        *)
(* --validators, and its bytes are whole blocks of that row's commit.      *)
(***************************************************************************)
StorageMatchesCommitTable ==
  \A t \in Turns : \A rows \in Printed("commits", t) :
    /\ \A line \in Printed("storage", t) :
         \E k \in DOMAIN rows : line = <<rows[k][1], BytesPerYear(rows[k][2])>>
    /\ Printed("ceilings", t) # {} =>
         (Printed("storage", t) # {} <=> \E k \in DOMAIN rows : rows[k][1] = flags.storageVals)

(***************************************************************************)
(* How a run that ends early looks: every scheme before the failing name   *)
(* has its whole report, the failing name has not, and a name that is not  *)
(* known fails before a line of its own is printed.  A run that ends well  *)
(* has a whole report for every name.                                      *)
(***************************************************************************)
WholeReport(t) ==
  \A kind \in Kinds \ {"storage"} : Cardinality(Printed(kind, t)) = 1

WholeReportsUpToFailure ==
  Ended =>
    /\ \A t \in 1 .. turn - 1 : WholeReport(t)
    /\ pc = "exit 0" => turn = Len(flags.schemes) /\ WholeReport(turn)
    /\ pc = "exit 1" =>
         /\ ~WholeReport(turn)
         /\ flags.schemes[turn] \notin SchemeNames => \A kind \in Kinds : Printed(kind, turn) = {}

(***************************************************************************)
(* "The ceiling that admits the fewest validators, which is the constraint *)
(* that actually binds a deployment" (ceiling.go:77-78): no other          *)
(* combination runs out of budget at a size at which the one printed does  *)
(* not.  Refuted when the search bound cuts several rows to the same       *)
(* number: see the README.                                                 *)
(***************************************************************************)
BindingBudgetBindsFirst ==
  \A t \in Turns : \A bound \in Printed("binding", t) :
    LET cost == RoundTripBytes(MeasureSizes(SchemeOf(t), <<>>))
    IN  \A c \in Cells : \A m \in 1 .. MaxInt \div cost :
          FitsInRound(cost, m, bound.budget) => FitsInRound(cost, m, BudgetAt(c))
=============================================================================
