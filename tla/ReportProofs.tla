---------------------------- MODULE ReportProofs ----------------------------
(***************************************************************************)
(* The default mode, for every command line, word size and search bound:   *)
(* its types, what the ceiling table and the binding line say, what the    *)
(* other sections say and which of them a run has printed, and that the    *)
(* whole is an implementation of Reports.                                  *)
(*                                                                         *)
(* The inductive invariant of the binding line follows the data through a  *)
(* report: the sizes are the scheme's own, every combination the loops     *)
(* have passed has its row, Tightest's best is the smallest of the rows it *)
(* has compared, and what was printed stays printed.                       *)
(***************************************************************************)
EXTENDS ReportRefinement, FormulaProofs, SequenceTheorems, FunctionTheorems

(***************************************************************************)
(* Sequences known only by their elements.                                 *)
(***************************************************************************)
LEMMA AppendRange ==
  ASSUME NEW s, s \in Seq(Range(s)), NEW e
  PROVE  /\ Append(s, e) \in Seq(Range(Append(s, e)))
         /\ Range(Append(s, e)) = Range(s) \cup {e}
<1> DEFINE t == Append(s, e)
<1>1. t \in Seq(Range(s) \cup {e}) /\ Len(t) = Len(s) + 1 /\ Len(s) \in Nat
      /\ DOMAIN s = 1 .. Len(s) /\ DOMAIN t = 1 .. Len(s) + 1
  OBVIOUS
<1>2. t[Len(s) + 1] = e /\ \A k \in 1 .. Len(s) : t[k] = s[k]
  OBVIOUS
<1> HIDE DEF t
<1>3. Range(t) = Range(s) \cup {e}
  <2>1. Range(t) = {t[k] : k \in 1 .. Len(s) + 1} /\ Range(s) = {s[k] : k \in 1 .. Len(s)}
    BY <1>1 DEF Range
  <2>2. ASSUME NEW x \in Range(s) \cup {e} PROVE x \in Range(t)
    BY <1>1, <1>2, <2>1
  <2>3. ASSUME NEW x \in Range(t) PROVE x \in Range(s) \cup {e}
    BY <1>1, <1>2, <2>1
  <2> QED BY <2>2, <2>3
<1> QED BY <1>1, <1>3 DEF t

LEMMA ConcatRange ==
  ASSUME NEW s, s \in Seq(Range(s)), NEW r, r \in Seq(Range(r))
  PROVE  /\ s \o r \in Seq(Range(s \o r))
         /\ Range(s \o r) = Range(s) \cup Range(r)
<1> DEFINE t == s \o r
           S == Range(s) \cup Range(r)
<1>1. s \in Seq(S) /\ r \in Seq(S)
  BY SeqMonotonic
<1>2. /\ t \in Seq(S) /\ Len(t) = Len(s) + Len(r)
      /\ \A k \in 1 .. Len(s) + Len(r) : t[k] = IF k <= Len(s) THEN s[k] ELSE r[k - Len(s)]
  <2> HIDE DEF S
  <2> QED BY <1>1, ConcatProperties
<1>3. /\ Len(s) \in Nat /\ DOMAIN s = 1 .. Len(s)
      /\ Len(r) \in Nat /\ DOMAIN r = 1 .. Len(r)
      /\ DOMAIN t = 1 .. Len(s) + Len(r)
  <2> HIDE DEF t, S
  <2> QED BY <1>1, <1>2, LenProperties
<1> HIDE DEF t
<1>4. \A x \in Range(t) : x \in S
  <2> TAKE x \in Range(t)
  <2>1. PICK k \in 1 .. Len(s) + Len(r) : x = t[k]
    BY <1>3 DEF Range
  <2>2. CASE k <= Len(s)
    BY <1>2, <1>3, <2>1, <2>2 DEF Range
  <2>3. CASE ~(k <= Len(s))
    <3>1. k - Len(s) \in 1 .. Len(r)
      BY <1>3, <2>3
    <3> QED BY <1>2, <1>3, <2>1, <2>3, <3>1 DEF Range
  <2> QED BY <2>2, <2>3
<1>5. \A x \in Range(s) : x \in Range(t)
  <2> TAKE x \in Range(s)
  <2>1. PICK k \in 1 .. Len(s) : x = s[k]
    BY <1>3 DEF Range
  <2>2. k \in 1 .. Len(s) + Len(r) /\ t[k] = x
    BY <1>2, <1>3, <2>1
  <2> QED BY <1>3, <2>2 DEF Range
<1>6. \A x \in Range(r) : x \in Range(t)
  <2> TAKE x \in Range(r)
  <2>1. PICK k \in 1 .. Len(r) : x = r[k]
    BY <1>3 DEF Range
  <2>2. Len(s) + k \in 1 .. Len(s) + Len(r) /\ t[Len(s) + k] = x
    BY <1>2, <1>3, <2>1
  <2> QED BY <1>3, <2>2 DEF Range
<1>7. Range(t) = S
  BY <1>4, <1>5, <1>6
<1> QED BY <1>2, <1>7 DEF t

LEMMA TupleRanges ==
  ASSUME NEW a, NEW b, NEW c
  PROVE  /\ <<a, b>> \in Seq(Range(<<a, b>>))       /\ Range(<<a, b>>) = {a, b}
         /\ <<a, b, c>> \in Seq(Range(<<a, b, c>>)) /\ Range(<<a, b, c>>) = {a, b, c}
<1>1. Range(<<a, b>>) = {a, b}
  BY DEF Range
<1>2. Range(<<a, b, c>>) = {a, b, c}
  BY DEF Range
<1> QED BY <1>1, <1>2

-----------------------------------------------------------------------------
(* What the parsers guarantee of a command line.                           *)
LEMMA FlagsShape ==
  ASSUME flags \in Flags
  PROVE  /\ flags.schemes \in Seq(STRING)  /\ Len(flags.schemes) \in Nat \ {0}
         /\ flags.counts \in Seq(Nat \ {0})
         /\ flags.links \in Seq(Int64)     /\ Len(flags.links) \in Nat \ {0}
         /\ flags.rounds \in Seq(Rounds)   /\ Len(flags.rounds) \in Nat \ {0}
         /\ flags.peers \in Seq(1 .. MaxInt) /\ Len(flags.peers) \in Nat \ {0}
         /\ flags.arch \in Archs
<1>1. flags \in FlagSet /\ <<>> \notin {flags.schemes, flags.links, flags.rounds, flags.peers}
  BY FlagsAssumption
<1>2. /\ flags.schemes \in Seq(STRING) /\ flags.schemes # <<>>
      /\ flags.counts \in Seq(Nat \ {0})
      /\ flags.links \in Seq(Int64) /\ flags.links # <<>>
      /\ flags.rounds \in Seq(Rounds) /\ flags.rounds # <<>>
      /\ flags.peers \in Seq(1 .. MaxInt) /\ flags.peers # <<>>
      /\ flags.arch \in Archs
  BY <1>1 DEF FlagSet
<1> QED BY <1>2, EmptySeq

(* Every combination of the flags is a budget.                             *)
LEMMA CellBudget ==
  ASSUME flags \in Flags, NEW c \in Cells
  PROVE  BudgetAt(c) \in Budgets
<1>1. /\ c[1] \in 1 .. Len(flags.links) /\ c[2] \in 1 .. Len(flags.rounds)
      /\ c[3] \in 1 .. Len(flags.peers)
  BY FlagsShape, LenProperties DEF Cells
<1>2. /\ flags.links[c[1]] \in Int64 /\ flags.rounds[c[2]] \in Rounds
      /\ flags.peers[c[3]] \in 1 .. MaxInt
  BY <1>1, FlagsShape, ElementOfSeq
<1> QED BY <1>2 DEF BudgetAt, Budgets

LEMMA CeilingType ==
  ASSUME NEW arch, NEW b \in Budgets, NEW cost \in Int
  PROVE  DeriveCeiling(arch, cost, b) \in CeilingSet
<1> DEFINE c == DeriveCeiling(arch, cost, b)
<1>1. /\ c.maxValidators \in 0 .. searchMax /\ c.bytesAtMax \in Int64
      /\ c.budgetBytes \in Int64 /\ c.utilization \in Int \X Int
  BY UseIsWithinBudget
<1>2. c.budget = b /\ c.limitedBySearch \in BOOLEAN
  BY DEF DeriveCeiling
<1>3. c = [budget |-> c.budget, maxValidators |-> c.maxValidators, bytesAtMax |-> c.bytesAtMax,
           budgetBytes |-> c.budgetBytes, utilization |-> c.utilization,
           limitedBySearch |-> c.limitedBySearch]
  BY DEF DeriveCeiling
<1> HIDE DEF c
<1>4. c \in CeilingSet
  BY <1>1, <1>2, <1>3 DEF CeilingSet
<1> QED BY <1>4 DEF c

(* The loops stay inside the flags' lists and leave the grid at its end.   *)
CellSpace ==
  (1 .. Len(flags.links) + 1) \X (1 .. Len(flags.rounds)) \X (1 .. Len(flags.peers))

LEMMA FirstCellType == flags \in Flags => FirstCell \in CellSpace
  BY FlagsShape DEF FirstCell, CellSpace

LEMMA CellType ==
  ASSUME flags \in Flags, NEW c \in CellSpace, c[1] <= Len(flags.links)
  PROVE  c \in Cells /\ NextCell(c) \in CellSpace
<1> DEFINE L == Len(flags.links)  R == Len(flags.rounds)  P == Len(flags.peers)
<1>1. L \in Nat \ {0} /\ R \in Nat \ {0} /\ P \in Nat \ {0}
      /\ DOMAIN flags.links = 1 .. L /\ DOMAIN flags.rounds = 1 .. R
      /\ DOMAIN flags.peers = 1 .. P
  BY FlagsShape, LenProperties
<1>2. c[1] \in 1 .. L /\ c[2] \in 1 .. R /\ c[3] \in 1 .. P /\ c = <<c[1], c[2], c[3]>>
  BY <1>1 DEF CellSpace
<1>3. c \in Cells
  BY <1>1, <1>2 DEF Cells
<1>4. NextCell(c) \in (1 .. L + 1) \X (1 .. R) \X (1 .. P)
  <2> HIDE DEF L, R, P
  <2>1. NextCell(c) = IF c[3] < P THEN <<c[1], c[2], c[3] + 1>>
                      ELSE IF c[2] < R THEN <<c[1], c[2] + 1, 1>> ELSE <<c[1] + 1, 1, 1>>
    BY DEF NextCell, L, R, P
  <2> QED BY <1>1, <1>2, <2>1, SMTT(30)
<1> QED BY <1>3, <1>4 DEF CellSpace

(* What Measure returns for the sizes report goes on to print.             *)
LEMMA MeasuredType ==
  ASSUME NEW name \in SchemeNames, NEW ns \in Seq(Nat \ {0})
  PROVE  LET m == MeasureSizes(lookupScheme(name), ns)
         IN  /\ m.prevoteBlock \in Nat /\ m.precommitBlock \in Nat
             /\ m.prevoteNil \in Nat   /\ m.precommitNil \in Nat
             /\ m.commits \in [DOMAIN m.commits -> Nat]
<1> DEFINE sig == lookupScheme(name).sigBytes
           m == MeasureSizes(lookupScheme(name), ns)
<1>1. sig \in Nat
  BY LookupType
<1>2. \A n \in Range(ns) : n \in Nat
  BY DEF Range
<1>3. /\ m.prevoteBlock = voteBytes(PrevoteType, TRUE, sig)
      /\ m.precommitBlock = voteBytes(PrecommitType, TRUE, sig)
      /\ m.prevoteNil = voteBytes(PrevoteType, FALSE, sig)
      /\ m.precommitNil = voteBytes(PrecommitType, FALSE, sig)
      /\ m.commits = [n \in Range(ns) |-> commitBytes(n, sig)]
  BY DEF MeasureSizes
<1> HIDE DEF sig, m
<1>4. \A n \in Range(ns) : commitBytes(n, sig) \in Nat
  BY <1>1, <1>2, CommitBytesType
<1>5. m.commits \in [DOMAIN m.commits -> Nat]
  BY <1>3, <1>4
<1>6. /\ m.prevoteBlock \in Nat /\ m.precommitBlock \in Nat
      /\ m.prevoteNil \in Nat /\ m.precommitNil \in Nat
  BY <1>1, <1>3, VoteBytesType, ZenonT(30)
<1> QED BY <1>5, <1>6 DEF m

(* Sorting leaves positive counts positive.                                *)
LEMMA RearrangedCounts ==
  ASSUME NEW s \in Seq(Nat \ {0}), NEW r \in Rearrangements(s)
  PROVE  r \in Seq(Nat \ {0})
<1>1. PICK p \in [DOMAIN s -> DOMAIN s] : r = [k \in DOMAIN s |-> s[p[k]]]
  BY DEF Rearrangements
<1>2. DOMAIN s = 1 .. Len(s) /\ Len(s) \in Nat
  BY LenProperties
<1>3. \A k \in 1 .. Len(s) : s[p[k]] \in Nat \ {0}
  BY <1>1, <1>2, ElementOfSeq
<1> QED BY <1>1, <1>2, <1>3

-----------------------------------------------------------------------------
(* The parts of TypeOK that most actions leave alone.                      *)
StdoutOK ==
  /\ stdout \in Seq(Range(stdout))
  /\ \A s \in Range(stdout) : s.kind \in Kinds /\ s.turn \in 1 .. turn

(* report has derived a ceiling as soon as its loops have moved.           *)
GridStarted == cell # FirstCell => ceilings # <<>>

(* The lookup has succeeded by the time Measure is called.                 *)
NameKnown == pc = "measure" => flags.schemes[turn] \in SchemeNames

IInv == TypeOK /\ GridStarted /\ NameKnown

(* Printing sections of known kinds under the current name.                *)
LEMMA EmitOne ==
  ASSUME StdoutOK, turn \in Nat \ {0}, turn' = turn,
         NEW kind \in Kinds, NEW data, Emit(kind, data)
  PROVE  /\ StdoutOK'
         /\ Range(stdout') = Range(stdout) \cup {Section(kind, data)}
<1>1. /\ stdout' \in Seq(Range(stdout'))
      /\ Range(stdout') = Range(stdout) \cup {Section(kind, data)}
  BY AppendRange DEF StdoutOK, Emit
<1>2. Section(kind, data).kind \in Kinds /\ Section(kind, data).turn \in 1 .. turn
  BY DEF Section
<1> QED BY <1>1, <1>2 DEF StdoutOK

LEMMA EmitTwo ==
  ASSUME StdoutOK, turn \in Nat \ {0}, turn' \in Nat, turn <= turn',
         NEW k1 \in Kinds, NEW d1, NEW k2 \in Kinds, NEW d2,
         stdout' = stdout \o <<Section(k1, d1), Section(k2, d2)>>
  PROVE  /\ StdoutOK'
         /\ Range(stdout') = Range(stdout) \cup {Section(k1, d1), Section(k2, d2)}
<1> DEFINE a == Section(k1, d1)
           b == Section(k2, d2)
           ab == <<a, b>>
<1>1. \A x \in {a, b} : x.kind \in Kinds /\ x.turn \in 1 .. turn
  BY DEF Section
<1>2. stdout' = stdout \o ab /\ stdout \in Seq(Range(stdout))
  BY DEF StdoutOK
<1> HIDE DEF a, b
<1>3. ab \in Seq(Range(ab)) /\ Range(ab) = {a, b}
  BY TupleRanges
<1>4. stdout' \in Seq(Range(stdout')) /\ Range(stdout') = Range(stdout) \cup {a, b}
  <2> HIDE DEF ab
  <2>1. stdout \o ab \in Seq(Range(stdout \o ab))
        /\ Range(stdout \o ab) = Range(stdout) \cup Range(ab)
    BY <1>2, <1>3, ConcatRange
  <2> QED BY <1>2, <1>3, <2>1
<1>5. \A k \in 1 .. turn : k \in 1 .. turn'
  OBVIOUS
<1> QED BY <1>1, <1>4, <1>5 DEF StdoutOK, a, b

LEMMA EmitThree ==
  ASSUME StdoutOK, turn \in Nat \ {0}, turn' = turn,
         NEW k1 \in Kinds, NEW d1, NEW k2 \in Kinds, NEW d2, NEW k3 \in Kinds, NEW d3,
         stdout' = stdout \o <<Section(k1, d1), Section(k2, d2), Section(k3, d3)>>
  PROVE  /\ StdoutOK'
         /\ Range(stdout') =
              Range(stdout) \cup {Section(k1, d1), Section(k2, d2), Section(k3, d3)}
<1> DEFINE a == Section(k1, d1)
           b == Section(k2, d2)
           c == Section(k3, d3)
           abc == <<a, b, c>>
<1>1. \A x \in {a, b, c} : x.kind \in Kinds /\ x.turn \in 1 .. turn
  BY DEF Section
<1>2. stdout' = stdout \o abc /\ stdout \in Seq(Range(stdout))
  BY DEF StdoutOK
<1> HIDE DEF a, b, c
<1>3. abc \in Seq(Range(abc)) /\ Range(abc) = {a, b, c}
  BY TupleRanges
<1>4. stdout' \in Seq(Range(stdout')) /\ Range(stdout') = Range(stdout) \cup {a, b, c}
  <2> HIDE DEF abc
  <2>1. stdout \o abc \in Seq(Range(stdout \o abc))
        /\ Range(stdout \o abc) = Range(stdout) \cup Range(abc)
    BY <1>2, <1>3, ConcatRange
  <2> QED BY <1>2, <1>3, <2>1
<1> QED BY <1>1, <1>4 DEF StdoutOK, a, b, c

LEMMA InitInv == Init => IInv
<1> SUFFICES ASSUME Init PROVE IInv
  OBVIOUS
<1>1. flags \in Flags
  BY DEF Init
<1>2. 1 \in 1 .. Len(flags.schemes)
  BY <1>1, FlagsShape
<1>3. FirstCell \in CellSpace
  BY <1>1, FirstCellType
<1>4. counts \in Seq(Nat \ {0}) /\ turn \in 1 .. Len(flags.schemes) /\ pc = "lookup"
      /\ cell = FirstCell /\ ceilings = <<>> /\ stdout = <<>>
  BY <1>1, <1>2, FlagsShape DEF Init
<1>5. stdout \in Seq(Range(stdout)) /\ Range(stdout) = {}
  BY <1>4 DEF Range
<1>6. TypeOK
  BY <1>1, <1>3, <1>4, <1>5 DEF TypeOK, Labels, Reporting, CellSpace
<1> QED BY <1>4, <1>6 DEF IInv, GridStarted, NameKnown

LEMMA NextInv == IInv /\ [Next]_vars => IInv'
<1> SUFFICES ASSUME IInv, [Next]_vars PROVE IInv'
  OBVIOUS
<1>0. /\ TypeOK /\ GridStarted /\ NameKnown /\ StdoutOK /\ flags \in Flags
      /\ turn \in 1 .. Len(flags.schemes) /\ turn \in Nat \ {0}
      /\ cell \in CellSpace /\ counts \in Seq(Nat \ {0}) /\ ceilings \in Seq(CeilingSet)
      /\ Reporting => flags.schemes[turn] \in SchemeNames /\ SizesOK
      /\ pc = "tightest" => best \in CeilingSet /\ scan \in 2 .. Len(ceilings) + 1
  <2>1. TypeOK /\ GridStarted /\ NameKnown /\ flags \in Flags /\ turn \in 1 .. Len(flags.schemes)
    BY DEF IInv, TypeOK
  <2>2. turn \in Nat \ {0}
    BY <2>1, FlagsShape
  <2> QED BY <2>1, <2>2 DEF TypeOK, StdoutOK, CellSpace
(* It is enough to re-establish the conjuncts an action can disturb.       *)
<1>a. ASSUME flags' = flags, counts' \in Seq(Nat \ {0}),
             turn' \in 1 .. Len(flags.schemes), pc' \in Labels,
             Reporting' => flags.schemes[turn'] \in SchemeNames /\ SizesOK',
             cell' \in CellSpace, ceilings' \in Seq(CeilingSet),
             pc' = "tightest" => best' \in CeilingSet /\ scan' \in 2 .. Len(ceilings') + 1,
             StdoutOK', GridStarted', NameKnown'
      PROVE  IInv'
  BY <1>0, <1>a DEF IInv, TypeOK, CellSpace, StdoutOK
<1>1. CASE Lookup
  <2>1. /\ UNCHANGED <<flags, counts, turn, sizes, cell, ceilings, scan, best, stdout>>
        /\ (pc' = "measure" /\ flags.schemes[turn] \in SchemeNames) \/ pc' = "exit 1"
    BY <1>1 DEF Lookup, Goto, Fail
  <2>2. StdoutOK' /\ GridStarted' /\ NameKnown'
    BY <1>0, <2>1 DEF StdoutOK, GridStarted, NameKnown
  <2> QED BY <1>0, <1>a, <2>1, <2>2 DEF Reporting, Labels
<1>2. CASE MeasureScheme
  <2>1. /\ pc = "measure"
        /\ UNCHANGED <<flags, counts, turn, stdout>> /\ cell' = FirstCell /\ ceilings' = <<>>
        /\ (pc' = "header" /\ sizes' = MeasureSizes(scheme, counts)) \/ pc' = "exit 1"
    BY <1>2 DEF MeasureScheme, Goto, Fail
  <2>2. StdoutOK' /\ GridStarted' /\ NameKnown'
    BY <1>0, <2>1 DEF StdoutOK, GridStarted, NameKnown
  <2>3. FirstCell \in CellSpace /\ <<>> \in Seq(CeilingSet)
    BY <1>0, FirstCellType, EmptySeq
  <2>4. Reporting' => flags.schemes[turn'] \in SchemeNames /\ SizesOK'
    <3> SUFFICES ASSUME Reporting' PROVE flags.schemes[turn'] \in SchemeNames /\ SizesOK'
      OBVIOUS
    <3>1. sizes' = MeasureSizes(lookupScheme(flags.schemes[turn]), counts)
      BY <2>1 DEF Reporting, scheme
    <3>2. flags.schemes[turn] \in SchemeNames
      BY <1>0, <2>1 DEF NameKnown
    <3> QED BY <1>0, <2>1, <3>1, <3>2, MeasuredType DEF SizesOK
  <2>5. pc' \in Labels /\ pc' # "tightest" /\ ceilings' \in Seq(CeilingSet)
    BY <2>1, <2>3 DEF Labels
  <2> QED BY <1>0, <1>a, <2>1, <2>2, <2>3, <2>4, <2>5
<1>3. CASE PrintSizes
  <2>1. /\ pc = "header" /\ pc' = "breakdown" /\ counts' \in Rearrangements(counts)
        /\ UNCHANGED <<flags, turn, sizes, cell, ceilings, scan, best>>
    BY <1>3 DEF PrintSizes, Goto
  <2>2. PICK note : stdout' = stdout \o
           << Section("header", <<scheme.name, note>>), Section("votes", sizes),
              Section("commits", CommitRows(counts')) >>
    BY <1>3 DEF PrintSizes
  <2>3. "header" \in Kinds /\ "votes" \in Kinds /\ "commits" \in Kinds
    BY DEF Kinds
  <2>4. StdoutOK'
    BY <1>0, <2>1, <2>2, <2>3, EmitThree
  <2>5. StdoutOK' /\ GridStarted' /\ NameKnown'
    BY <1>0, <2>1, <2>4 DEF GridStarted, NameKnown
  <2>6. counts' \in Seq(Nat \ {0})
    BY <1>0, <2>1, RearrangedCounts
  <2>7. Reporting /\ (SizesOK => SizesOK')
    BY <2>1 DEF Reporting, Labels, SizesOK
  <2> QED BY <1>0, <1>a, <2>1, <2>5, <2>6, <2>7 DEF Labels
<1>4. CASE PrintBreakdown
  <2>1. /\ pc = "breakdown" /\ UNCHANGED <<flags, counts, turn, sizes, cell, ceilings, scan, best>>
        /\ \/ Emit("breakdown", Breakdown(scheme)) /\ pc' = "storage"
           \/ pc' = "exit 1" /\ UNCHANGED stdout
    BY <1>4 DEF PrintBreakdown, Goto, Fail
  <2>2. StdoutOK'
    <3>1. CASE Emit("breakdown", Breakdown(scheme))
      BY <1>0, <2>1, <3>1, EmitOne DEF Kinds
    <3>2. CASE UNCHANGED stdout
      BY <1>0, <2>1, <3>2 DEF StdoutOK
    <3> QED BY <2>1, <3>1, <3>2
  <2>3. GridStarted' /\ NameKnown'
    BY <1>0, <2>1 DEF GridStarted, NameKnown
  <2>4. Reporting /\ (SizesOK => SizesOK')
    BY <2>1 DEF Reporting, Labels, SizesOK
  <2> QED BY <1>0, <1>a, <2>1, <2>2, <2>3, <2>4 DEF Labels
<1>5. CASE PrintStorage
  <2>1. /\ pc = "storage" /\ UNCHANGED <<flags, counts, turn, sizes, cell, ceilings, scan, best>>
        /\ pc' = "derive"
        /\ (\E data : Emit("storage", data)) \/ UNCHANGED stdout
    BY <1>5 DEF PrintStorage, Goto
  <2>2. StdoutOK'
    <3>1. CASE UNCHANGED stdout
      BY <1>0, <2>1, <3>1 DEF StdoutOK
    <3>2. ASSUME NEW data, Emit("storage", data) PROVE StdoutOK'
      BY <1>0, <2>1, <3>2, EmitOne DEF Kinds
    <3> QED BY <2>1, <3>1, <3>2
  <2>3. GridStarted' /\ NameKnown'
    BY <1>0, <2>1 DEF GridStarted, NameKnown
  <2>4. Reporting /\ (SizesOK => SizesOK')
    BY <2>1 DEF Reporting, Labels, SizesOK
  <2> QED BY <1>0, <1>a, <2>1, <2>2, <2>3, <2>4 DEF Labels
<1>6. CASE DeriveCell
  <2> DEFINE row == DeriveCeiling(flags.arch, RoundTripBytes(sizes), BudgetAt(cell))
  <2>1. /\ pc = "derive" /\ cell[1] <= Len(flags.links)
        /\ UNCHANGED <<flags, counts, turn, pc, sizes, scan, best, stdout>>
        /\ ceilings' = Append(ceilings, row) /\ cell' = NextCell(cell)
    BY <1>6 DEF DeriveCell
  <2>2. cell \in Cells /\ cell' \in CellSpace
    BY <1>0, <2>1, CellType
  <2>3. Reporting /\ SizesOK /\ SizesOK'
    BY <1>0, <2>1 DEF Reporting, Labels, SizesOK
  <2>4. RoundTripBytes(sizes) \in Int
    BY <2>3 DEF SizesOK, RoundTripBytes
  <2>5. row \in CeilingSet
    BY <1>0, <2>2, <2>4, CellBudget, CeilingType
  <2> HIDE DEF row
  <2>6. ceilings' \in Seq(CeilingSet) /\ ceilings' # <<>>
    BY <1>0, <2>1, <2>5
  <2>7. StdoutOK' /\ GridStarted' /\ NameKnown'
    BY <1>0, <2>1, <2>6 DEF StdoutOK, GridStarted, NameKnown
  <2> QED BY <1>0, <1>a, <2>1, <2>2, <2>3, <2>6, <2>7 DEF Labels
<1>7. CASE PrintCeilings
  <2>1. /\ pc = "derive" /\ cell[1] > Len(flags.links) /\ pc' = "tightest"
        /\ UNCHANGED <<flags, counts, turn, sizes, cell, ceilings>>
        /\ Emit("ceilings", ceilings) /\ best' = ceilings[1] /\ scan' = 2
    BY <1>7 DEF PrintCeilings, Goto
  <2>2. StdoutOK'
    BY <1>0, <2>1, EmitOne DEF Kinds
  <2>3. ceilings # <<>>
    BY <1>0, <2>1, FlagsShape DEF GridStarted, FirstCell
  <2>4. Len(ceilings) \in Nat \ {0} /\ ceilings[1] \in CeilingSet
    <3>1. Len(ceilings) \in Nat \ {0}
      BY <1>0, <2>3, EmptySeq
    <3> QED BY <1>0, <3>1, ElementOfSeq
  <2>5. best' \in CeilingSet /\ scan' \in 2 .. Len(ceilings') + 1
    BY <2>1, <2>4
  <2>6. Reporting /\ (SizesOK => SizesOK')
    BY <2>1 DEF Reporting, Labels, SizesOK
  <2>7. GridStarted' /\ NameKnown'
    BY <1>0, <2>1 DEF GridStarted, NameKnown
  <2> QED BY <1>0, <1>a, <2>1, <2>2, <2>5, <2>6, <2>7 DEF Labels
<1>8. CASE Compare
  <2>1. /\ pc = "tightest" /\ scan <= Len(ceilings) /\ scan' = scan + 1
        /\ best' = ceilings[scan] \/ best' = best
        /\ UNCHANGED <<flags, counts, turn, pc, sizes, cell, ceilings, stdout>>
    BY <1>8 DEF Compare
  <2>2. scan \in 2 .. Len(ceilings) + 1 /\ best \in CeilingSet /\ Len(ceilings) \in Nat
    BY <1>0, <2>1, LenProperties
  <2>3. scan \in 1 .. Len(ceilings) /\ scan' \in 2 .. Len(ceilings') + 1
    BY <2>1, <2>2
  <2>4. best' \in CeilingSet
    BY <1>0, <2>1, <2>2, <2>3, ElementOfSeq
  <2>5. StdoutOK' /\ GridStarted' /\ NameKnown'
    BY <1>0, <2>1 DEF StdoutOK, GridStarted, NameKnown
  <2>6. Reporting /\ (SizesOK => SizesOK')
    BY <2>1 DEF Reporting, Labels, SizesOK
  <2> QED BY <1>0, <1>a, <2>1, <2>3, <2>4, <2>5, <2>6 DEF Labels
<1>9. CASE PrintBinding
  <2>1. /\ stdout' = stdout \o <<Section("binding", best), Section("cost", RoundTripBytes(sizes))>>
        /\ UNCHANGED <<flags, counts, sizes, cell, ceilings, scan, best>>
        /\ \/ turn < Len(flags.schemes) /\ turn' = turn + 1 /\ pc' = "lookup"
           \/ turn' = turn /\ pc' = "exit 0"
    BY <1>9 DEF PrintBinding, Goto
  <2>2. turn' \in 1 .. Len(flags.schemes) /\ turn' \in Nat /\ turn <= turn'
    <3>1. turn \in 1 .. Len(flags.schemes) /\ Len(flags.schemes) \in Nat
      BY <1>0, FlagsShape
    <3>2. turn' = turn \/ (turn < Len(flags.schemes) /\ turn' = turn + 1)
      BY <1>9 DEF PrintBinding
    <3> QED BY <3>1, <3>2
  <2>5. StdoutOK'
    BY <1>0, <2>1, <2>2, EmitTwo DEF Kinds
  <2>6. GridStarted' /\ NameKnown'
    BY <1>0, <2>1 DEF GridStarted, NameKnown
  <2> QED BY <1>0, <1>a, <2>1, <2>2, <2>5, <2>6 DEF Labels, Reporting
<1>10. CASE UNCHANGED vars
  BY <1>0, <1>10 DEF vars, IInv, TypeOK, Reporting, SizesOK, GridStarted, NameKnown
<1> QED
  BY <1>1, <1>2, <1>3, <1>4, <1>5, <1>6, <1>7, <1>8, <1>9, <1>10 DEF Next

THEOREM ReportInvariant == Spec => []IInv
  BY InitInv, NextInv, PTL DEF Spec

(* The state is well typed in every run of the default mode.               *)
THEOREM TypeCorrect == Spec => []TypeOK
<1>1. IInv => TypeOK
  BY DEF IInv
<1> QED BY <1>1, ReportInvariant, PTL

-----------------------------------------------------------------------------
(* The row of the ceiling table a combination of the flags gets in the     *)
(* report of the t-th name.                                                *)
RowOf(t, c) == DeriveCeiling(flags.arch, Cost(flags.schemes[t]), BudgetAt(c))

(* The rows are those of the combinations, and none is missing.            *)
RowsOf(t, rows)  == \A k \in DOMAIN rows : \E c \in Cells : rows[k] = RowOf(t, c)
HasRow(t, rows, c) == \E k \in DOMAIN rows : rows[k] = RowOf(t, c)

(* The nested loops have been through the combination c.                   *)
Passed(c, at) ==
  \/ c[1] < at[1]
  \/ c[1] = at[1] /\ c[2] < at[2]
  \/ c[1] = at[1] /\ c[2] = at[2] /\ c[3] < at[3]

OwnCost == Reporting => RoundTripBytes(sizes) = Cost(flags.schemes[turn])

GridDerived ==
  Reporting => /\ RowsOf(turn, ceilings)
               /\ \A c \in Cells : Passed(c, cell) => HasRow(turn, ceilings, c)

(* Of the rows compared, those before the best one admit more.             *)
BestIsFirst ==
  \E k \in 1 .. scan - 1 :
    /\ ceilings[k] = best
    /\ \A j \in 1 .. k - 1 : ceilings[j].maxValidators > best.maxValidators

BestSoFar ==
  pc = "tightest" =>
    /\ ceilings \in Printed("ceilings", turn)
    /\ best \in Range(ceilings)
    /\ \A k \in 1 .. scan - 1 : best.maxValidators <= ceilings[k].maxValidators
    /\ BestIsFirst

TablesPrinted ==
  \A t \in Turns : \A rows \in Printed("ceilings", t) :
    /\ flags.schemes[t] \in SchemeNames
    /\ RowsOf(t, rows)
    /\ \A c \in Cells : HasRow(t, rows, c)

BindingInv ==
  OwnCost /\ GridDerived /\ BestSoFar /\ TablesPrinted /\ BindingAdmitsFewest

-----------------------------------------------------------------------------
(* Printing adds sections, and a section shows up under its kind alone.    *)
LEMMA PrintedAfter ==
  ASSUME NEW S, Range(stdout') = Range(stdout) \cup S, NEW kind, NEW t
  PROVE  /\ Printed(kind, t) \subseteq Printed(kind, t)'
         /\ \A d \in Printed(kind, t)' :
              \/ d \in Printed(kind, t)
              \/ \E s \in S : s.kind = kind /\ s.turn = t /\ s.data = d
         /\ (\A s \in S : s.kind # kind) => Printed(kind, t)' = Printed(kind, t)
<1>1. \A d : d \in Printed(kind, t)' <=>
        \E s \in Range(stdout') : s.kind = kind /\ s.turn = t /\ s.data = d
  BY DEF Printed
<1>2. \A d : d \in Printed(kind, t) <=>
        \E s \in Range(stdout) : s.kind = kind /\ s.turn = t /\ s.data = d
  BY DEF Printed
<1> DEFINE now  == Printed(kind, t)
           next == Printed(kind, t)'
<1> HIDE DEF now, next
<1>3. \A d \in now : d \in next
  BY <1>1, <1>2 DEF now, next
<1>4. \A d \in next : \/ d \in now
                       \/ \E s \in S : s.kind = kind /\ s.turn = t /\ s.data = d
  BY <1>1, <1>2 DEF now, next
<1>5. ASSUME \A s \in S : s.kind # kind PROVE next = now
  BY <1>3, <1>4, <1>5
<1> QED BY <1>3, <1>4, <1>5 DEF now, next

LEMMA PrintedSame ==
  ASSUME stdout' = stdout, NEW kind, NEW t
  PROVE  Printed(kind, t)' = Printed(kind, t)
  BY DEF Printed

(* A step that ends one combination has passed it and those before it.     *)
LEMMA PassedNext ==
  ASSUME flags \in Flags, NEW at \in Cells, NEW c \in Cells, Passed(c, NextCell(at))
  PROVE  Passed(c, at) \/ c = at
<1> DEFINE L == Len(flags.links)  R == Len(flags.rounds)  P == Len(flags.peers)
<1>1. L \in Nat /\ R \in Nat /\ P \in Nat
      /\ DOMAIN flags.links = 1 .. L /\ DOMAIN flags.rounds = 1 .. R
      /\ DOMAIN flags.peers = 1 .. P
  BY FlagsShape, LenProperties
<1>2. c[1] \in 1 .. L /\ c[2] \in 1 .. R /\ c[3] \in 1 .. P /\ c = <<c[1], c[2], c[3]>>
  BY <1>1 DEF Cells
<1>3. at[1] \in 1 .. L /\ at[2] \in 1 .. R /\ at[3] \in 1 .. P /\ at = <<at[1], at[2], at[3]>>
  BY <1>1 DEF Cells
<1>4. NextCell(at) = IF at[3] < P THEN <<at[1], at[2], at[3] + 1>>
                     ELSE IF at[2] < R THEN <<at[1], at[2] + 1, 1>> ELSE <<at[1] + 1, 1, 1>>
  BY DEF NextCell
<1> HIDE DEF L, R, P
<1> DEFINE next == NextCell(at)
<1>5. \/ next[1] = at[1] /\ next[2] = at[2] /\ next[3] = at[3] + 1
      \/ at[3] >= P /\ next[1] = at[1] /\ next[2] = at[2] + 1 /\ next[3] = 1
      \/ at[3] >= P /\ at[2] >= R /\ next[1] = at[1] + 1 /\ next[2] = 1 /\ next[3] = 1
  BY <1>1, <1>3, <1>4
<1>6. Passed(c, next)
  OBVIOUS
<1> HIDE DEF next
<1>7. Passed(c, at) \/ (c[1] = at[1] /\ c[2] = at[2] /\ c[3] = at[3])
  BY <1>1, <1>2, <1>3, <1>5, <1>6 DEF Passed
<1> QED BY <1>2, <1>3, <1>7

(* At the end of the loops every combination has been passed.              *)
LEMMA AllPassed ==
  ASSUME flags \in Flags, NEW at \in CellSpace, at[1] > Len(flags.links), NEW c \in Cells
  PROVE  Passed(c, at)
<1>1. Len(flags.links) \in Nat /\ DOMAIN flags.links = 1 .. Len(flags.links)
  BY FlagsShape, LenProperties
<1>2. c[1] \in 1 .. Len(flags.links)
  BY <1>1 DEF Cells
<1>3. at[1] \in 1 .. Len(flags.links) + 1
  BY DEF CellSpace
<1> QED BY <1>1, <1>2, <1>3 DEF Passed

(* And none at their start.                                                *)
LEMMA NonePassed == \A c \in Cells : flags \in Flags => ~Passed(c, FirstCell)
<1> SUFFICES ASSUME NEW c \in Cells, flags \in Flags PROVE ~Passed(c, FirstCell)
  OBVIOUS
<1>1. /\ DOMAIN flags.links = 1 .. Len(flags.links)
      /\ DOMAIN flags.rounds = 1 .. Len(flags.rounds)
      /\ DOMAIN flags.peers = 1 .. Len(flags.peers)
  BY FlagsShape, LenProperties
<1>2. /\ c[1] \in 1 .. Len(flags.links) /\ c[2] \in 1 .. Len(flags.rounds)
      /\ c[3] \in 1 .. Len(flags.peers)
  BY <1>1 DEF Cells
<1> QED BY <1>2, FlagsShape DEF Passed, FirstCell

-----------------------------------------------------------------------------
(* What depends on the command line alone does not change.                 *)
LEMMA FixedFlags ==
  ASSUME flags' = flags
  PROVE  /\ Cells' = Cells /\ Turns' = Turns
         /\ \A t, c : RowOf(t, c)' = RowOf(t, c)
         /\ \A t, rows : RowsOf(t, rows)' <=> RowsOf(t, rows)
         /\ \A t, rows, c : HasRow(t, rows, c)' <=> HasRow(t, rows, c)
<1>1. Cells' = Cells /\ Turns' = Turns
  BY DEF Cells, Turns
<1>2. \A t, c : RowOf(t, c)' = RowOf(t, c)
  BY DEF RowOf, BudgetAt, Cost
<1> QED BY <1>1, <1>2 DEF RowsOf, HasRow

(* The parts about what is printed hold on where nothing of it is added.   *)
SamePrinted ==
  \A t : Printed("ceilings", t)' = Printed("ceilings", t)
         /\ Printed("binding", t)' = Printed("binding", t)

LEMMA TablesKept ==
  ASSUME flags' = flags, SamePrinted, TablesPrinted, BindingAdmitsFewest
  PROVE  TablesPrinted' /\ BindingAdmitsFewest'
<1>1. TablesPrinted'
  BY FixedFlags DEF SamePrinted, TablesPrinted
<1>2. BindingAdmitsFewest'
  BY FixedFlags DEF SamePrinted, BindingAdmitsFewest
<1> QED BY <1>1, <1>2

(* The parts about the report under way hold on where it only prints.      *)
LEMMA ReportKept ==
  ASSUME flags' = flags, turn' = turn, sizes' = sizes, cell' = cell, ceilings' = ceilings,
         Reporting, OwnCost, GridDerived
  PROVE  OwnCost' /\ GridDerived'
<1>1. OwnCost'
  BY DEF OwnCost
<1>2. GridDerived'
  <2>1. RowsOf(turn, ceilings) /\ \A c \in Cells : Passed(c, cell) => HasRow(turn, ceilings, c)
    BY DEF GridDerived
  <2> QED BY <2>1, FixedFlags DEF GridDerived
<1> QED BY <1>1, <1>2

(* Only PrintCeilings and PrintBinding print what the invariant is about.  *)
LEMMA QuietSteps ==
  ASSUME IInv,
         \/ Lookup \/ MeasureScheme \/ PrintSizes \/ PrintBreakdown \/ PrintStorage
         \/ DeriveCell \/ Compare \/ UNCHANGED vars
  PROVE  SamePrinted
<1>0. StdoutOK /\ turn \in Nat \ {0}
  BY FlagsShape DEF IInv, TypeOK, StdoutOK
<1>1. CASE PrintSizes
  <2>1. PICK top, rows : stdout' = stdout \o
           << Section("header", top), Section("votes", sizes), Section("commits", rows) >>
    BY <1>1 DEF PrintSizes
  <2>2. turn' = turn
    BY <1>1 DEF PrintSizes
  <2>3. "header" \in Kinds /\ "votes" \in Kinds /\ "commits" \in Kinds
    BY DEF Kinds
  <2>4. Range(stdout') = Range(stdout) \cup
           {Section("header", top), Section("votes", sizes), Section("commits", rows)}
    BY <1>0, <2>1, <2>2, <2>3, EmitThree, ZenonT(30)
  <2> DEFINE new == {Section("header", top), Section("votes", sizes), Section("commits", rows)}
  <2>5. Range(stdout') = Range(stdout) \cup new
    BY <2>4
  <2>6. \A s \in new : s.kind # "ceilings" /\ s.kind # "binding"
    BY DEF Section
  <2> HIDE DEF new
  <2>7. PICK S : /\ Range(stdout') = Range(stdout) \cup S
                 /\ \A s \in S : s.kind # "ceilings" /\ s.kind # "binding"
    BY <2>5, <2>6
  <2> QED BY <2>7, PrintedAfter DEF SamePrinted
<1>2. ASSUME NEW kind \in Kinds \ {"ceilings", "binding"}, NEW data, Emit(kind, data), turn' = turn
      PROVE  SamePrinted
  <2> DEFINE S == {Section(kind, data)}
  <2>1. Range(stdout') = Range(stdout) \cup S
    BY <1>0, <1>2, EmitOne
  <2>2. \A s \in S : s.kind # "ceilings" /\ s.kind # "binding"
    BY DEF Section
  <2> HIDE DEF S
  <2> QED BY <2>1, <2>2, PrintedAfter DEF SamePrinted
<1>3. CASE UNCHANGED stdout
  BY <1>3, PrintedSame DEF SamePrinted
<1>4. CASE PrintBreakdown
  <2>1. turn' = turn /\ (Emit("breakdown", Breakdown(scheme)) \/ UNCHANGED stdout)
    BY <1>4 DEF PrintBreakdown
  <2>2. "breakdown" \in Kinds \ {"ceilings", "binding"}
    BY DEF Kinds
  <2> QED BY <1>2, <1>3, <2>1, <2>2
<1>5. CASE PrintStorage
  <2>1. turn' = turn /\ ((\E data : Emit("storage", data)) \/ UNCHANGED stdout)
    BY <1>5 DEF PrintStorage
  <2>2. "storage" \in Kinds \ {"ceilings", "binding"}
    BY DEF Kinds
  <2> QED BY <1>2, <1>3, <2>1, <2>2
<1>6. CASE Lookup \/ MeasureScheme \/ DeriveCell \/ Compare \/ UNCHANGED vars
  BY <1>3, <1>6 DEF Lookup, MeasureScheme, DeriveCell, Compare, vars
<1> QED BY <1>1, <1>4, <1>5, <1>6

LEMMA BindingInit == Init => BindingInv
<1> SUFFICES ASSUME Init PROVE BindingInv
  OBVIOUS
<1>1. pc = "lookup" /\ stdout = <<>>
  BY DEF Init
<1>2. \A kind, t : Printed(kind, t) = {}
  BY <1>1 DEF Printed, Range
<1>3. ~Reporting /\ pc # "tightest"
  BY <1>1 DEF Reporting
<1> QED
  BY <1>2, <1>3 DEF BindingInv, OwnCost, GridDerived, BestSoFar, TablesPrinted, BindingAdmitsFewest

LEMMA DeriveStep == IInv /\ BindingInv /\ DeriveCell => BindingInv'
<1> SUFFICES ASSUME IInv, BindingInv, DeriveCell PROVE BindingInv'
  OBVIOUS
<1>1. /\ pc = "derive" /\ cell[1] <= Len(flags.links)
      /\ UNCHANGED <<flags, counts, turn, pc, sizes, scan, best, stdout>>
      /\ cell' = NextCell(cell)
      /\ ceilings' = Append(ceilings, DeriveCeiling(flags.arch, RoundTripBytes(sizes), BudgetAt(cell)))
  BY DEF DeriveCell
<1>2. Reporting /\ flags \in Flags /\ cell \in CellSpace /\ ceilings \in Seq(CeilingSet)
  BY <1>1 DEF Reporting, Labels, IInv, TypeOK, CellSpace
<1>3. cell \in Cells
  BY <1>1, <1>2, CellType
<1>4. ceilings' = Append(ceilings, RowOf(turn, cell))
  BY <1>1, <1>2 DEF BindingInv, OwnCost, RowOf
<1> DEFINE row == RowOf(turn, cell)
           n   == Len(ceilings) + 1
<1>5. /\ Len(ceilings) \in Nat /\ DOMAIN ceilings = 1 .. Len(ceilings)
      /\ DOMAIN ceilings' = 1 .. n /\ ceilings'[n] = row
      /\ \A k \in 1 .. Len(ceilings) : ceilings'[k] = ceilings[k]
  <2> DEFINE S == CeilingSet \cup {row}
  <2>1. ceilings \in Seq(S) /\ row \in S
    BY <1>2, SeqMonotonic
  <2> HIDE DEF row, S
  <2>2. ceilings' = Append(ceilings, row)
    BY <1>4 DEF row
  <2> QED BY <2>1, <2>2, LenProperties, AppendProperties
<1> HIDE DEF row
<1>6. /\ RowsOf(turn, ceilings)
      /\ \A c \in Cells : Passed(c, cell) => HasRow(turn, ceilings, c)
  BY <1>2 DEF BindingInv, GridDerived
<1>7. RowsOf(turn, ceilings')
  <2> SUFFICES ASSUME NEW k \in 1 .. n PROVE \E c \in Cells : ceilings'[k] = RowOf(turn, c)
    BY <1>5 DEF RowsOf
  <2>1. CASE k = n
    BY <1>3, <1>5, <2>1 DEF row
  <2>2. CASE k # n
    <3>1. k \in 1 .. Len(ceilings)
      BY <1>5, <2>2
    <3> QED BY <1>5, <1>6, <3>1 DEF RowsOf
  <2> QED BY <2>1, <2>2
<1>8. ASSUME NEW c \in Cells, Passed(c, cell') PROVE HasRow(turn, ceilings', c)
  <2>1. CASE c = cell
    <3>1. n \in 1 .. n
      BY <1>5
    <3> QED BY <1>5, <2>1, <3>1 DEF HasRow, row
  <2>2. CASE Passed(c, cell)
    <3>1. PICK k \in 1 .. Len(ceilings) : ceilings[k] = RowOf(turn, c)
      BY <1>5, <1>6, <2>2 DEF HasRow
    <3>2. k \in 1 .. n /\ ceilings'[k] = RowOf(turn, c)
      BY <1>5, <3>1
    <3> QED BY <1>5, <3>2 DEF HasRow
  <2> QED BY <1>1, <1>2, <1>3, <1>8, <2>1, <2>2, PassedNext
<1>9. GridDerived'
  BY <1>1, <1>7, <1>8, FixedFlags DEF GridDerived
<1>10. OwnCost'
  BY <1>1, <1>2 DEF BindingInv, OwnCost
<1>11. TablesPrinted' /\ BindingAdmitsFewest'
  BY <1>1, QuietSteps, TablesKept DEF BindingInv
<1>12. BestSoFar'
  BY <1>1 DEF BestSoFar
<1> QED BY <1>9, <1>10, <1>11, <1>12 DEF BindingInv

LEMMA PrintCeilingsStep == IInv /\ BindingInv /\ PrintCeilings => BindingInv'
<1> SUFFICES ASSUME IInv, BindingInv, PrintCeilings PROVE BindingInv'
  OBVIOUS
<1>1. /\ pc = "derive" /\ cell[1] > Len(flags.links) /\ pc' = "tightest"
      /\ UNCHANGED <<flags, counts, turn, sizes, cell, ceilings>>
      /\ Emit("ceilings", ceilings) /\ best' = ceilings[1] /\ scan' = 2
  BY DEF PrintCeilings, Goto
<1>2. /\ Reporting /\ flags \in Flags /\ cell \in CellSpace /\ ceilings \in Seq(CeilingSet)
      /\ StdoutOK /\ turn \in Nat \ {0} /\ turn \in Turns
      /\ flags.schemes[turn] \in SchemeNames
  BY <1>1, FlagsShape, LenProperties, SMTT(30)
    DEF Reporting, Labels, IInv, TypeOK, CellSpace, StdoutOK, Turns
<1>3. PICK S : /\ Range(stdout') = Range(stdout) \cup S
               /\ S = {Section("ceilings", ceilings)}
  BY <1>1, <1>2, EmitOne DEF Kinds
<1>4. \A t : Printed("binding", t)' = Printed("binding", t)
  BY <1>3, PrintedAfter DEF Section
<1>5. \A t : /\ Printed("ceilings", t) \subseteq Printed("ceilings", t)'
             /\ \A d \in Printed("ceilings", t)' :
                  d \in Printed("ceilings", t) \/ (t = turn /\ d = ceilings)
  BY <1>3, PrintedAfter DEF Section
<1>6. ceilings \in Printed("ceilings", turn)'
  <2> DEFINE s == Section("ceilings", ceilings)
  <2>1. s.kind = "ceilings" /\ s.turn = turn /\ s.data = ceilings
    BY DEF Section
  <2>2. s \in Range(stdout')
    BY <1>3
  <2> HIDE DEF s
  <2>3. turn' = turn
    BY <1>1
  <2> QED BY <2>1, <2>2, <2>3 DEF Printed
<1>7. OwnCost' /\ GridDerived'
  BY <1>1, <1>2, ReportKept DEF BindingInv
<1>8. ceilings # <<>>
  BY <1>1, <1>2, FlagsShape DEF IInv, GridStarted, FirstCell
<1>9. /\ 1 \in DOMAIN ceilings /\ ceilings[1] \in CeilingSet
      /\ ceilings[1] \in Range(ceilings)
  <2>1. Len(ceilings) \in Nat \ {0} /\ DOMAIN ceilings = 1 .. Len(ceilings)
    BY <1>2, <1>8, EmptySeq, LenProperties
  <2> QED BY <1>2, <2>1, ElementOfSeq DEF Range
<1>10. BestSoFar'
  <2>1. ceilings[1].maxValidators \in Nat
    BY <1>9, searchMaxAssumption, MaxIntAssumption DEF CeilingSet
  <2>2. \A k \in 1 .. scan' - 1 : k = 1
    BY <1>1
  <2>3. BestIsFirst'
    <3>1. 1 \in 1 .. scan' - 1 /\ ceilings'[1] = best' /\ 1 .. 1 - 1 = {}
      BY <1>1
    <3> QED BY <3>1 DEF BestIsFirst
  <2> QED BY <1>1, <1>6, <1>9, <2>1, <2>2, <2>3 DEF BestSoFar
<1>11. TablesPrinted'
  <2>1. RowsOf(turn, ceilings) /\ \A c \in Cells : HasRow(turn, ceilings, c)
    BY <1>1, <1>2, AllPassed DEF BindingInv, GridDerived
  <2>2. ASSUME NEW t \in Turns, NEW rows \in Printed("ceilings", t)'
        PROVE  /\ flags.schemes[t] \in SchemeNames
               /\ RowsOf(t, rows)
               /\ \A c \in Cells : HasRow(t, rows, c)
    <3>1. CASE rows \in Printed("ceilings", t)
      BY <3>1 DEF BindingInv, TablesPrinted
    <3>2. CASE t = turn /\ rows = ceilings
      BY <1>2, <2>1, <3>2
    <3> QED BY <1>5, <3>1, <3>2
  <2> QED BY <1>1, <2>2, FixedFlags DEF TablesPrinted
<1>12. BindingAdmitsFewest'
  BY <1>1, <1>4, <1>5, FixedFlags DEF BindingInv, BindingAdmitsFewest
<1> QED BY <1>7, <1>10, <1>11, <1>12 DEF BindingInv

LEMMA CompareStep == IInv /\ BindingInv /\ Compare => BindingInv'
<1> SUFFICES ASSUME IInv, BindingInv, Compare PROVE BindingInv'
  OBVIOUS
<1>1. /\ pc = "tightest" /\ scan <= Len(ceilings) /\ scan' = scan + 1
      /\ best' = IF Tighter(ceilings[scan], best) THEN ceilings[scan] ELSE best
      /\ UNCHANGED <<flags, counts, turn, pc, sizes, cell, ceilings, stdout>>
  BY DEF Compare
<1>2. /\ Reporting /\ ceilings \in Seq(CeilingSet)
      /\ best \in CeilingSet /\ scan \in 2 .. Len(ceilings) + 1
  BY <1>1 DEF Reporting, Labels, IInv, TypeOK
<1>3. /\ Len(ceilings) \in Nat /\ DOMAIN ceilings = 1 .. Len(ceilings)
      /\ scan \in 1 .. Len(ceilings)
  BY <1>1, <1>2, LenProperties
<1>4. SamePrinted
  BY QuietSteps
<1>5. OwnCost' /\ GridDerived' /\ TablesPrinted' /\ BindingAdmitsFewest'
  BY <1>1, <1>2, <1>4, ReportKept, TablesKept DEF BindingInv
<1>6. /\ ceilings \in Printed("ceilings", turn) /\ best \in Range(ceilings)
      /\ \A k \in 1 .. scan - 1 : best.maxValidators <= ceilings[k].maxValidators
  BY <1>1 DEF BindingInv, BestSoFar
<1>7. \A k \in 1 .. Len(ceilings) : ceilings[k].maxValidators \in Nat
  <2>1. \A c \in CeilingSet : c.maxValidators \in Nat
    BY searchMaxAssumption, MaxIntAssumption DEF CeilingSet
  <2> QED BY <1>2, <2>1, ElementOfSeq
<1>8. best.maxValidators \in Nat
  BY <1>2, searchMaxAssumption, MaxIntAssumption DEF CeilingSet
<1>9. best' \in Range(ceilings)
  BY <1>1, <1>3, <1>6 DEF Range
<1>10. ASSUME NEW k \in 1 .. scan PROVE best'.maxValidators <= ceilings[k].maxValidators
  <2>1. k \in 1 .. Len(ceilings) /\ (k \in 1 .. scan - 1 \/ k = scan)
    BY <1>3
  <2>2. k \in 1 .. scan - 1 => best.maxValidators <= ceilings[k].maxValidators
    BY <1>6
  <2> DEFINE a == ceilings[scan].maxValidators
             b == best.maxValidators
             c == ceilings[k].maxValidators
  <2>3. a \in Nat /\ b \in Nat /\ c \in Nat
    BY <1>3, <1>7, <1>8, <2>1
  <2>4. best'.maxValidators = IF a < b THEN a ELSE b
    BY <1>1 DEF Tighter
  <2>5. b <= c \/ c = a
    BY <2>1, <2>2
  <2> HIDE DEF a, b, c
  <2>6. (IF a < b THEN a ELSE b) <= c
    BY <2>3, <2>5
  <2> QED BY <2>4, <2>6 DEF c
<1>11. BestSoFar'
  <2>1. scan' - 1 = scan
    BY <1>1, <1>3
  <2>2. ceilings \in Printed("ceilings", turn)'
    BY <1>1, <1>4, <1>6 DEF SamePrinted
  <2>3. BestIsFirst'
    <3>1. PICK k \in 1 .. scan - 1 :
            ceilings[k] = best /\ \A j \in 1 .. k - 1 : ceilings[j].maxValidators > best.maxValidators
      BY <1>1 DEF BindingInv, BestSoFar, BestIsFirst
    <3>2. CASE Tighter(ceilings[scan], best)
      <4>1. best' = ceilings[scan] /\ ceilings[scan].maxValidators < best.maxValidators
        BY <1>1, <3>2 DEF Tighter
      <4>2. ASSUME NEW j \in 1 .. scan - 1
            PROVE  ceilings[j].maxValidators > ceilings[scan].maxValidators
        <5>1. j \in 1 .. Len(ceilings)
          BY <1>3
        <5>2. best.maxValidators <= ceilings[j].maxValidators
          BY <1>6
        <5>3. ceilings[j].maxValidators \in Nat /\ ceilings[scan].maxValidators \in Nat
          BY <1>3, <1>7, <5>1
        <5> QED BY <1>8, <4>1, <5>2, <5>3
      <4>3. scan \in 1 .. scan' - 1
        BY <1>3, <2>1
      <4>4. ceilings' = ceilings
        BY <1>1
      <4> QED BY <4>1, <4>2, <4>3, <4>4 DEF BestIsFirst
    <3>3. CASE ~Tighter(ceilings[scan], best)
      <4>1. best' = best /\ ceilings' = ceilings
        BY <1>1, <3>3
      <4>2. k \in 1 .. scan' - 1
        BY <1>3, <2>1
      <4> QED BY <3>1, <4>1, <4>2 DEF BestIsFirst
    <3> QED BY <3>2, <3>3
  <2> QED BY <1>1, <1>9, <1>10, <2>1, <2>2, <2>3 DEF BestSoFar
<1> QED BY <1>5, <1>11 DEF BindingInv

LEMMA PrintBindingStep == IInv /\ BindingInv /\ PrintBinding => BindingInv'
<1> SUFFICES ASSUME IInv, BindingInv, PrintBinding PROVE BindingInv'
  OBVIOUS
<1>1. /\ pc = "tightest" /\ scan > Len(ceilings) /\ flags' = flags
      /\ stdout' = stdout \o <<Section("binding", best), Section("cost", RoundTripBytes(sizes))>>
      /\ pc' = "lookup" \/ pc' = "exit 0"
  BY DEF PrintBinding, Goto
<1>2. /\ StdoutOK /\ turn \in 1 .. Len(flags.schemes) /\ flags \in Flags
      /\ ceilings \in Seq(CeilingSet) /\ scan \in 2 .. Len(ceilings) + 1
  BY <1>1 DEF IInv, TypeOK, StdoutOK
<1>3. turn \in Nat \ {0} /\ turn' \in Nat /\ turn <= turn'
  <2>1. turn' = turn \/ turn' = turn + 1
    BY DEF PrintBinding
  <2> QED BY <1>2, <2>1, FlagsShape
<1>4. PICK S : /\ Range(stdout') = Range(stdout) \cup S
               /\ \A s \in S : /\ s.kind \in {"binding", "cost"} /\ s.turn = turn
                               /\ s.kind = "binding" => s.data = best
  <2> DEFINE new == {Section("binding", best), Section("cost", RoundTripBytes(sizes))}
  <2>1. {"binding", "cost"} \subseteq Kinds
    BY DEF Kinds
  <2>2. Range(stdout') = Range(stdout) \cup new
    BY <1>1, <1>2, <1>3, <2>1, EmitTwo
  <2>3. \A s \in new : /\ s.kind \in {"binding", "cost"} /\ s.turn = turn
                       /\ s.kind = "binding" => s.data = best
    BY DEF Section
  <2> HIDE DEF new
  <2> QED BY <2>2, <2>3
<1>5. \A t : Printed("ceilings", t)' = Printed("ceilings", t)
  <2>1. \A s \in S : s.kind # "ceilings"
    BY <1>4
  <2> QED BY <1>4, <2>1, PrintedAfter
<1>6. \A t : \A d \in Printed("binding", t)' :
        d \in Printed("binding", t) \/ (t = turn /\ d = best)
  <2> SUFFICES ASSUME NEW t, NEW d \in Printed("binding", t)', d \notin Printed("binding", t)
      PROVE  t = turn /\ d = best
    OBVIOUS
  <2>1. PICK s \in Range(stdout') : s.kind = "binding" /\ s.turn = t /\ s.data = d
    BY DEF Printed
  <2>2. s \notin Range(stdout)
    BY <2>1 DEF Printed
  <2> QED BY <1>4, <2>1, <2>2
<1>7. TablesPrinted'
  BY <1>1, <1>5, FixedFlags DEF BindingInv, TablesPrinted
<1>8. /\ ceilings \in Printed("ceilings", turn) /\ best \in Range(ceilings)
      /\ \A k \in 1 .. scan - 1 : best.maxValidators <= ceilings[k].maxValidators
  BY <1>1 DEF BindingInv, BestSoFar
<1>9. \A k \in DOMAIN ceilings : best.maxValidators <= ceilings[k].maxValidators
  <2>1. Len(ceilings) \in Nat /\ DOMAIN ceilings = 1 .. Len(ceilings)
    BY <1>2, LenProperties
  <2>2. scan - 1 = Len(ceilings)
    <3>1. scan > Len(ceilings) /\ scan \in 2 .. Len(ceilings) + 1
      BY <1>1, <1>2
    <3> QED BY <2>1, <3>1
  <2> QED BY <1>8, <2>1, <2>2
<1>10. BindingAdmitsFewest'
  <2>1. ASSUME NEW t \in Turns, NEW bound \in Printed("binding", t)'
        PROVE  \E rows \in Printed("ceilings", t) :
                 /\ bound \in Range(rows)
                 /\ \A k \in DOMAIN rows : bound.maxValidators <= rows[k].maxValidators
    <3>1. CASE bound \in Printed("binding", t)
      BY <3>1 DEF BindingInv, BindingAdmitsFewest
    <3>2. CASE t = turn /\ bound = best
      BY <1>8, <1>9, <3>2
    <3> QED BY <1>6, <3>1, <3>2
  <2> QED BY <1>1, <1>5, <2>1, FixedFlags DEF BindingAdmitsFewest
<1>11. OwnCost' /\ GridDerived' /\ BestSoFar'
  BY <1>1 DEF Reporting, OwnCost, GridDerived, BestSoFar
<1> QED BY <1>7, <1>10, <1>11 DEF BindingInv

LEMMA BindingNext == IInv /\ BindingInv /\ [Next]_vars => BindingInv'
<1> SUFFICES ASSUME IInv, BindingInv, [Next]_vars PROVE BindingInv'
  OBVIOUS
<1>1. CASE Lookup
  <2>1. flags' = flags /\ (pc' = "measure" \/ pc' = "exit 1")
    BY <1>1 DEF Lookup, Goto, Fail
  <2>2. TablesPrinted' /\ BindingAdmitsFewest'
    BY <1>1, <2>1, QuietSteps, TablesKept DEF BindingInv
  <2>3. OwnCost' /\ GridDerived' /\ BestSoFar'
    BY <2>1 DEF Reporting, OwnCost, GridDerived, BestSoFar
  <2> QED BY <2>2, <2>3 DEF BindingInv
<1>2. CASE MeasureScheme
  <2>1. /\ pc = "measure" /\ UNCHANGED <<flags, turn>> /\ cell' = FirstCell /\ ceilings' = <<>>
        /\ (pc' = "header" /\ sizes' = MeasureSizes(scheme, counts)) \/ pc' = "exit 1"
    BY <1>2 DEF MeasureScheme, Goto, Fail
  <2>2. TablesPrinted' /\ BindingAdmitsFewest'
    BY <1>2, <2>1, QuietSteps, TablesKept DEF BindingInv
  <2>3. OwnCost'
    <3> SUFFICES ASSUME Reporting' PROVE RoundTripBytes(sizes') = Cost(flags.schemes[turn])
      BY <2>1 DEF OwnCost
    <3>1. sizes' = MeasureSizes(lookupScheme(flags.schemes[turn]), counts)
      BY <2>1 DEF Reporting, scheme
    <3>2. flags.schemes[turn] \in SchemeNames
      BY <2>1 DEF IInv, NameKnown
    <3> QED BY <3>1, <3>2, CostOfMeasure
  <2>4. GridDerived'
    <3>0. ceilings' = <<>>
      BY <2>1
    <3>1. DOMAIN ceilings' = {}
      BY <3>0
    <3>2. \A c \in Cells : ~Passed(c, cell')
      BY <2>1, NonePassed DEF IInv, TypeOK
    <3>3. RowsOf(turn, ceilings')
      BY <3>1 DEF RowsOf
    <3> QED BY <2>1, <3>2, <3>3, FixedFlags DEF GridDerived
  <2>5. BestSoFar'
    BY <2>1 DEF BestSoFar
  <2> QED BY <2>2, <2>3, <2>4, <2>5 DEF BindingInv
<1>3. ASSUME SamePrinted, Reporting, UNCHANGED <<flags, turn, sizes, cell, ceilings>>,
             pc' # "tightest"
      PROVE  BindingInv'
  <2>1. TablesPrinted' /\ BindingAdmitsFewest'
    BY <1>3, TablesKept DEF BindingInv
  <2>2. OwnCost' /\ GridDerived'
    BY <1>3, ReportKept DEF BindingInv
  <2>3. BestSoFar'
    BY <1>3 DEF BestSoFar
  <2> QED BY <2>1, <2>2, <2>3 DEF BindingInv
<1>4. CASE PrintSizes
  BY <1>3, <1>4, QuietSteps DEF PrintSizes, Goto, Reporting, Labels
<1>5. CASE PrintBreakdown
  BY <1>3, <1>5, QuietSteps DEF PrintBreakdown, Goto, Fail, Reporting, Labels
<1>6. CASE PrintStorage
  BY <1>3, <1>6, QuietSteps DEF PrintStorage, Goto, Reporting, Labels
<1>7. CASE DeriveCell
  BY <1>7, DeriveStep
<1>8. CASE PrintCeilings
  BY <1>8, PrintCeilingsStep
<1>9. CASE Compare
  BY <1>9, CompareStep
<1>10. CASE PrintBinding
  BY <1>10, PrintBindingStep
<1>11. CASE UNCHANGED vars
  <2>1. UNCHANGED <<flags, turn, pc, sizes, cell, ceilings, scan, best, stdout>>
    BY <1>11 DEF vars
  <2>2. SamePrinted
    BY <1>11, QuietSteps
  <2>3. TablesPrinted' /\ BindingAdmitsFewest'
    BY <2>1, <2>2, TablesKept DEF BindingInv
  <2>4. OwnCost' /\ GridDerived'
    BY <2>1, FixedFlags DEF BindingInv, OwnCost, GridDerived, Reporting
  <2>5. BestSoFar'
    BY <2>1, <2>2 DEF BindingInv, BestSoFar, BestIsFirst, SamePrinted
  <2> QED BY <2>3, <2>4, <2>5 DEF BindingInv
<1> QED
  BY <1>1, <1>2, <1>4, <1>5, <1>6, <1>7, <1>8, <1>9, <1>10, <1>11 DEF Next

-----------------------------------------------------------------------------
THEOREM BindingInvariant == Spec => []BindingInv
  BY BindingInit, BindingNext, ReportInvariant, PTL DEF Spec

(***************************************************************************)
(* The binding line is the smallest row of its own table (ceiling.go,      *)
(* 77-90), in the report of every name.                                    *)
(***************************************************************************)
THEOREM BindingIsMinimal == Spec => []BindingAdmitsFewest
<1>1. BindingInv => BindingAdmitsFewest
  BY DEF BindingInv
<1> QED BY <1>1, BindingInvariant, PTL

(***************************************************************************)
(* The validators of the binding line fit under every combination of the   *)
(* flags, and no larger set below the search bound does, as far as no      *)
(* product overflows (ceiling.go, 28-90, through main.go, 184-214).        *)
(***************************************************************************)
THEOREM BindingIsTheCapacity == Spec => []BindingFitsEveryBudget
<1>1. TypeOK /\ BindingInv => BindingFitsEveryBudget
  <2> SUFFICES ASSUME TypeOK, BindingInv, NEW t \in Turns, NEW bound \in Printed("binding", t)
      PROVE  LET cost == RoundTripBytes(MeasureSizes(SchemeOf(t), <<>>))
                 max  == bound.maxValidators
                 Fits(m) == \A c \in Cells : FitsInRound(cost, m, BudgetAt(c))
             IN  (\A c \in Cells : ExactCeiling(cost, BudgetAt(c))) =>
                   Fits(max) /\ (max < searchMax => ~Fits(max + 1))
    BY DEF BindingFitsEveryBudget
  <2>1. PICK rows \in Printed("ceilings", t) :
          /\ bound \in Range(rows)
          /\ \A k \in DOMAIN rows : bound.maxValidators <= rows[k].maxValidators
    BY DEF BindingInv, BindingAdmitsFewest
  <2>2. /\ flags.schemes[t] \in SchemeNames /\ RowsOf(t, rows)
        /\ \A c \in Cells : HasRow(t, rows, c)
    BY DEF BindingInv, TablesPrinted
  <2>3. PICK best0 \in Cells : bound = RowOf(t, best0)
    BY <2>1, <2>2 DEF Range, RowsOf
  <2> DEFINE cost == Cost(flags.schemes[t])
             Row0(c) == RowOf(t, c).maxValidators
             max == bound.maxValidators
  <2>4. cost \in Nat \ {0} /\ flags \in Flags
    BY <2>2, CostOfMeasure DEF TypeOK
  <2>5. RoundTripBytes(MeasureSizes(SchemeOf(t), <<>>)) = cost
    BY DEF Cost, SchemeOf
  <2>6. ASSUME NEW c \in Cells PROVE max <= Row0(c)
    BY <2>1, <2>2 DEF HasRow
  <2>7. ASSUME \A c \in Cells : ExactCeiling(cost, BudgetAt(c)), NEW c \in Cells
        PROVE  /\ Row0(c) \in 0 .. searchMax
               /\ \A n \in 0 .. searchMax : FitsInRound(cost, n, BudgetAt(c)) <=> n <= Row0(c)
    <3> HIDE DEF cost
    <3>1. BudgetAt(c) \in Budgets
      BY <2>4, CellBudget
    <3>2. RowOf(t, c) = DeriveCeiling(flags.arch, cost, BudgetAt(c))
      BY DEF RowOf, cost
    <3> QED BY <2>4, <2>7, <3>1, <3>2, CeilingIsCapacity
  <2>8. max = Row0(best0)
    BY <2>3
  <2>9. searchMax \in Nat
    BY searchMaxAssumption, MaxIntAssumption
  <2> HIDE DEF cost, Row0, max
  <2>10. ASSUME \A c \in Cells : ExactCeiling(cost, BudgetAt(c))
         PROVE  /\ \A c \in Cells : FitsInRound(cost, max, BudgetAt(c))
                /\ max < searchMax => ~FitsInRound(cost, max + 1, BudgetAt(best0))
    <3>1. max \in 0 .. searchMax
      BY <2>7, <2>8, <2>10
    <3>2. \A c \in Cells : FitsInRound(cost, max, BudgetAt(c))
      BY <2>6, <2>7, <2>10, <3>1
    <3>3. ASSUME max < searchMax PROVE ~FitsInRound(cost, max + 1, BudgetAt(best0))
      <4>1. max + 1 \in 0 .. searchMax /\ ~(max + 1 <= max)
        BY <2>9, <3>1, <3>3
      <4> QED BY <2>7, <2>8, <2>10, <4>1
    <3> QED BY <3>2, <3>3
  <2> QED BY <2>5, <2>10 DEF max
<1> QED BY <1>1, TypeCorrect, BindingInvariant, PTL
-----------------------------------------------------------------------------
(***************************************************************************)
(* What the sections of the default mode say, and which of them a run has  *)
(* printed, for every command line, word size and search bound.            *)
(*                                                                         *)
(* The inductive invariant has two halves.  Every section on standard      *)
(* output is right for the name it was printed under, which no later step  *)
(* can undo; and how many of each kind there are follows from the place    *)
(* the program has reached.  The data on its way to a section is the       *)
(* current name's own, and the shared slice of counts always holds the     *)
(* counts of the command line.                                             *)
(*                                                                         *)
(* From the two halves follows what the reports delivered are, and from    *)
(* that, that the default mode implements Reports.                         *)
(***************************************************************************)

(* How often the values of a set occur in a sequence.                      *)
Count(T, s) == Cardinality({k \in DOMAIN s : s[k] \in T})

(* The counts of the command line, in whatever order.                      *)
SameCounts(ns) ==
  /\ ns \in Seq(Nat \ {0}) /\ Len(ns) = Len(flags.counts)
  /\ Range(ns) = Range(flags.counts)
  /\ \A T : Count(T, ns) = Count(T, flags.counts)

SigOf(t) == SchemeOf(t).sigBytes

(* The commit table of the t-th name.                                      *)
CommitsOf(t, rows) ==
  LET column == [k \in DOMAIN rows |-> rows[k][1]]
  IN  /\ SameCounts(column) /\ Ascending(column)
      /\ rows = [k \in DOMAIN column |-> <<column[k], commitBytes(column[k], SigOf(t))>>]

(* The ceiling table of the t-th name.                                     *)
GridOf(t, rows) ==
  /\ rows \in Seq(CeilingSet)
  /\ Len(rows) = Cardinality(Cells)
  /\ \A c \in Cells : rows[Row(c)] = RowOf(t, c)

(* The first of the rows that admit the fewest validators.                 *)
FirstOfFewest(rows, bound) ==
  \E k \in DOMAIN rows :
    /\ rows[k] = bound
    /\ \A j \in DOMAIN rows : bound.maxValidators <= rows[j].maxValidators
    /\ \A j \in 1 .. k - 1 : rows[j].maxValidators > bound.maxValidators

Projected == flags.storageVals \in Range(flags.counts)

(* A section of the t-th name's report is right.                           *)
Right(kind, t, data) ==
  /\ flags.schemes[t] \in SchemeNames
  /\ kind = "votes" => data = MeasureSizes(SchemeOf(t), flags.counts)
  /\ kind = "commits" => CommitsOf(t, data)
  /\ kind = "breakdown" => data = Breakdown(SchemeOf(t))
  /\ kind = "storage" =>
       /\ Projected
       /\ data = <<flags.storageVals, BytesPerYear(commitBytes(flags.storageVals, SigOf(t)))>>
  /\ kind = "ceilings" => GridOf(t, data)
  /\ kind = "binding" => \E rows : GridOf(t, rows) /\ FirstOfFewest(rows, data)
  /\ kind = "cost" => data = Cost(flags.schemes[t])

SectionsRight == \A s \in Range(stdout) : Right(s.kind, s.turn, s.data)

(* The kinds every report has.                                             *)
Fixed == Kinds \ {"storage"}

(* Of these, the t-th name's report has one of each of some kinds so far.  *)
Single(kind, t) == \E d \in Printed(kind, t) : Printed(kind, t) = {d}

HasExactly(t, kinds) ==
  \A kind \in Fixed : IF kind \in kinds THEN Single(kind, t) ELSE Printed(kind, t) = {}

(* The kinds the report under way has printed.                             *)
Tables == {"header", "votes", "commits"}

SoFar(label) ==
  IF label = "breakdown" THEN Tables
  ELSE IF label \in {"storage", "derive"} THEN Tables \cup {"breakdown"}
  ELSE IF label = "tightest" THEN Tables \cup {"breakdown", "ceilings"}
  ELSE {}

Progress ==
  /\ \A t \in 1 .. turn - 1 : HasExactly(t, Fixed)
  /\ ~Ended => HasExactly(turn, SoFar(pc))
  /\ pc = "exit 0" => turn = Len(flags.schemes) /\ HasExactly(turn, Fixed)
  /\ pc = "exit 1" =>
       /\ Printed("cost", turn) = {}
       /\ flags.schemes[turn] \notin SchemeNames => \A kind \in Kinds : Printed(kind, turn) = {}

(* Whether a report has a storage line is settled before its ceilings.     *)
StorageSettled ==
  /\ pc \in {"lookup", "measure", "header", "breakdown", "storage"} => Printed("storage", turn) = {}
  /\ pc \in {"derive", "tightest"} => (Printed("storage", turn) # {} <=> Projected)
  /\ \A t \in Turns :
       Printed("ceilings", t) # {} => (Printed("storage", t) # {} <=> Projected)

(* The sizes the report under way prints are its own name's.               *)
OwnSizes == Reporting => sizes = MeasureSizes(scheme, flags.counts)

(* The ceilings derived so far are in the order of the grid.               *)
GridInOrder ==
  Reporting =>
    /\ Len(ceilings) = Row(cell) - 1
    /\ \A c \in Cells : Passed(c, cell) => ceilings[Row(c)] = RowOf(turn, c)
    /\ cell[1] > Len(flags.links) => cell[2] = 1 /\ cell[3] = 1

SectionInv ==
  SameCounts(counts) /\ OwnSizes /\ GridInOrder /\ SectionsRight /\ Progress /\ StorageSettled

-----------------------------------------------------------------------------
(* The places of a sequence are finite in number.                          *)
LEMMA PlacesFinite ==
  ASSUME NEW S, NEW s \in Seq(S), NEW T \in SUBSET DOMAIN s
  PROVE  IsFiniteSet(T) /\ Cardinality(T) \in Nat
<1>1. DOMAIN s = 1 .. Len(s) /\ Len(s) \in Int
  BY LenProperties
<1>2. IsFiniteSet(1 .. Len(s))
  BY <1>1, FS_Interval
<1> QED BY <1>1, <1>2, FS_Subset, FS_CardinalityType

(* Sorting moves every value to some place and loses none.                 *)
LEMMA RearrangedValues ==
  ASSUME NEW S, NEW s \in Seq(S), NEW r \in Rearrangements(s)
  PROVE  /\ r \in Seq(S) /\ Len(r) = Len(s) /\ Range(r) = Range(s)
         /\ \A T : Count(T, r) = Count(T, s)
<1> DEFINE D == DOMAIN s
<1>1. D = 1 .. Len(s) /\ Len(s) \in Nat /\ IsFiniteSet(D)
  BY LenProperties, PlacesFinite
<1>2. PICK p \in [D -> D] : IsInjective(p) /\ r = [k \in D |-> s[p[k]]]
  BY DEF Rearrangements
<1>3. p \in Bijection(D, D)
  <2>1. p \in Injection(D, D)
    BY <1>2 DEF Injection
  <2>2. p \in Surjection(D, D)
    <3>1. Cardinality(D) = Cardinality(D) <=> p \in Surjection(D, D)
      BY <1>1, <2>1, FS_Injection
    <3> QED BY <3>1
  <2> QED BY <2>1, <2>2 DEF Bijection
<1>4. /\ \A a, b \in D : p[a] = p[b] => a = b
      /\ \A t \in D : \E k \in D : p[k] = t
      /\ DOMAIN r = D /\ \A k \in D : p[k] \in D /\ r[k] = s[p[k]]
  BY <1>2, <1>3, Fun_BijectionProperties
<1>5. r \in Seq(S) /\ Len(r) = Len(s)
  <2>1. \A k \in 1 .. Len(s) : r[k] \in S
    BY <1>1, <1>4, ElementOfSeq
  <2>2. r = [k \in 1 .. Len(s) |-> r[k]]
    BY <1>1, <1>2
  <2> HIDE DEF D
  <2>3. [k \in 1 .. Len(s) |-> r[k]] \in Seq(S) /\ Len([k \in 1 .. Len(s) |-> r[k]]) = Len(s)
    BY <1>1, <2>1
  <2> QED BY <2>2, <2>3
<1>6. Range(r) = Range(s)
  <2> HIDE DEF D
  <2>1. \A x \in Range(r) : x \in Range(s)
    BY <1>4 DEF Range, D
  <2>2. \A x \in Range(s) : x \in Range(r)
    BY <1>4 DEF Range, D
  <2> QED BY <2>1, <2>2
<1>7. ASSUME NEW T PROVE Count(T, r) = Count(T, s)
  <2> DEFINE A == {k \in D : r[k] \in T}
             B == {k \in D : s[k] \in T}
             f == [k \in A |-> p[k]]
  <2>1. f \in [A -> B] /\ \A a, b \in A : f[a] = f[b] => a = b
    BY <1>4
  <2>2. \A t \in B : \E k \in A : f[k] = t
    <3> TAKE t \in B
    <3>1. PICK k \in D : p[k] = t
      BY <1>4
    <3>2. k \in A
      BY <1>4, <3>1
    <3> QED BY <3>1, <3>2
  <2> HIDE DEF f
  <2>3. f \in Bijection(A, B)
    <3> HIDE DEF A, B
    <3> QED BY <2>1, <2>2, Fun_IsBij
  <2>4. IsFiniteSet(A)
    <3>1. A \in SUBSET D
      OBVIOUS
    <3> HIDE DEF A, D
    <3> QED BY <1>1, <3>1, FS_Subset
  <2>5. Cardinality(A) = Cardinality(B)
    <3> HIDE DEF A, B
    <3> QED BY <2>3, <2>4, FS_Bijection DEF ExistsBijection
  <2>6. Count(T, r) = Cardinality(A) /\ Count(T, s) = Cardinality(B)
    BY <1>4 DEF Count
  <2> QED BY <2>5, <2>6
<1> QED BY <1>5, <1>6, <1>7

(* The slice holds the counts of the command line after every sort.        *)
LEMMA SortKeepsCounts ==
  ASSUME NEW s, SameCounts(s), NEW r \in Rearrangements(s)
  PROVE  SameCounts(r)
BY RearrangedValues DEF SameCounts

(* Sizes measured for the same set of counts are the same.                 *)
LEMMA SizesOfCounts ==
  ASSUME NEW s, NEW a, NEW b, Range(a) = Range(b)
  PROVE  MeasureSizes(s, a) = MeasureSizes(s, b)
BY DEF MeasureSizes

-----------------------------------------------------------------------------
(* One digit further up outweighs everything below it.                     *)
LEMMA LexStep ==
  ASSUME NEW B \in Nat, NEW m \in Int, NEW n \in Int, NEW x \in Int, NEW y \in Int,
         m < n, x <= B, 1 <= y
  PROVE  m * B + x < n * B + y
<1>1. (m + 1) * B <= n * B
  BY ProductMonotone
<1>2. (m + 1) * B = m * B + B
  OBVIOUS
<1>3. m * B \in Int /\ n * B \in Int
  OBVIOUS
<1> QED BY <1>1, <1>2, <1>3

(* The lengths of the flags' lists, and the indices into them.             *)
LEMMA GridShape ==
  ASSUME flags \in Flags
  PROVE  /\ Len(flags.links) \in Nat \ {0} /\ Len(flags.rounds) \in Nat \ {0}
         /\ Len(flags.peers) \in Nat \ {0}
         /\ Cells = (1 .. Len(flags.links)) \X (1 .. Len(flags.rounds)) \X (1 .. Len(flags.peers))
         /\ Cells \subseteq CellSpace
         /\ \A c \in CellSpace :
              /\ c[1] \in 1 .. Len(flags.links) + 1 /\ c[2] \in 1 .. Len(flags.rounds)
              /\ c[3] \in 1 .. Len(flags.peers)
<1>1. /\ Len(flags.links) \in Nat \ {0} /\ Len(flags.rounds) \in Nat \ {0}
      /\ Len(flags.peers) \in Nat \ {0}
      /\ DOMAIN flags.links = 1 .. Len(flags.links)
      /\ DOMAIN flags.rounds = 1 .. Len(flags.rounds)
      /\ DOMAIN flags.peers = 1 .. Len(flags.peers)
  BY FlagsShape, LenProperties
<1>2. Cells = (1 .. Len(flags.links)) \X (1 .. Len(flags.rounds)) \X (1 .. Len(flags.peers))
  BY <1>1 DEF Cells
<1>3. Cells \subseteq CellSpace
  <2>1. 1 .. Len(flags.links) \subseteq 1 .. Len(flags.links) + 1
    BY <1>1
  <2> QED BY <1>2, <2>1 DEF CellSpace
<1> QED BY <1>1, <1>2, <1>3 DEF CellSpace

(* The rows of combinations the loops have passed come before.             *)
LEMMA RowsPassed ==
  ASSUME flags \in Flags, NEW c \in Cells, NEW at \in CellSpace, Passed(c, at)
  PROVE  Row(c) \in Nat \ {0} /\ Row(at) \in Int /\ Row(c) < Row(at)
<1> DEFINE R == Len(flags.rounds)
           P == Len(flags.peers)
           a == c[1]  b == c[2]  d == c[3]
           x == at[1] y == at[2] z == at[3]
           u == (a - 1) * R + b - 1
           v == (x - 1) * R + y - 1
<1>1. /\ a \in Nat \ {0} /\ b \in 1 .. R /\ d \in 1 .. P
      /\ x \in Nat \ {0} /\ y \in 1 .. R /\ z \in 1 .. P
      /\ R \in Nat \ {0} /\ P \in Nat \ {0}
  BY GridShape
<1>2. a < x \/ (a = x /\ b < y) \/ (a = x /\ b = y /\ d < z)
  BY DEF Passed
<1>3. Row(c) = u * P + d /\ Row(at) = v * P + z
  BY DEF Row
<1> HIDE DEF R, P, a, b, d, x, y, z
<1>4. (a - 1) * R \in Nat /\ (x - 1) * R \in Nat
  <2>1. a - 1 \in Nat /\ x - 1 \in Nat
    BY <1>1
  <2> QED BY <1>1, <2>1
<1>5. u \in Nat /\ v \in Nat /\ (u < v \/ (u = v /\ d < z))
  <2>1. u \in Nat /\ v \in Nat
    BY <1>1, <1>4
  <2>2. CASE a < x
    <3>1. (a - 1) * R + b < (x - 1) * R + y
      BY <1>1, <2>2, LexStep
    <3> QED BY <1>1, <1>4, <2>1, <3>1
  <2>3. CASE a = x
    BY <1>1, <1>2, <1>4, <2>1, <2>3
  <2> QED BY <1>2, <2>2, <2>3
<1> HIDE DEF u, v
<1>6. u * P \in Nat /\ v * P \in Nat
  BY <1>1, <1>5
<1>7. u * P + d < v * P + z
  <2>1. CASE u < v
    BY <1>1, <1>5, <2>1, LexStep
  <2>2. CASE u = v /\ d < z
    BY <1>1, <1>6, <2>2
  <2> QED BY <1>5, <2>1, <2>2
<1> QED BY <1>1, <1>3, <1>6, <1>7

(* The loops go through the rows one by one, from the first to the last.   *)
LEMMA RowsInOrder ==
  ASSUME flags \in Flags
  PROVE  /\ Row(FirstCell) = 1
         /\ \A at \in Cells :
              /\ Row(NextCell(at)) = Row(at) + 1 /\ Row(at) \in Nat \ {0}
              /\ LET next == NextCell(at)
                 IN  next[1] > Len(flags.links) => next[2] = 1 /\ next[3] = 1
<1> DEFINE L == Len(flags.links)  R == Len(flags.rounds)  P == Len(flags.peers)
<1>1. L \in Nat \ {0} /\ R \in Nat \ {0} /\ P \in Nat \ {0}
  BY GridShape
<1>2. Row(FirstCell) = 1
  <2>1. Row(FirstCell) = ((1 - 1) * R + 1 - 1) * P + 1
    BY DEF Row, FirstCell
  <2> HIDE DEF R, P
  <2> QED BY <1>1, <2>1
<1>3. ASSUME NEW at \in Cells
      PROVE  /\ Row(NextCell(at)) = Row(at) + 1 /\ Row(at) \in Nat \ {0}
             /\ LET next == NextCell(at)
                IN  next[1] > L => next[2] = 1 /\ next[3] = 1
  <2> DEFINE x == at[1]  y == at[2]  z == at[3]
             next == NextCell(at)
  <2>1. x \in 1 .. L /\ y \in 1 .. R /\ z \in 1 .. P
    BY <1>1, GridShape
  <2>2. next = IF z < P THEN <<x, y, z + 1>>
               ELSE IF y < R THEN <<x, y + 1, 1>> ELSE <<x + 1, 1, 1>>
    BY DEF NextCell
  <2>3. /\ Row(at) = ((x - 1) * R + y - 1) * P + z
        /\ Row(next) = ((next[1] - 1) * R + next[2] - 1) * P + next[3]
    BY DEF Row
  <2> HIDE DEF L, R, P, x, y, z, next
  <2> DEFINE w == (x - 1) * R
             u == w + y - 1
  <2>4. w \in Nat /\ x * R = w + R
    <3>1. x - 1 \in Nat /\ x \in Int
      BY <1>1, <2>1
    <3>2. x * R = (x - 1) * R + R
      BY <1>1, <3>1
    <3> QED BY <1>1, <3>1, <3>2
  <2> HIDE DEF w
  <2>5. u \in Nat /\ u * P \in Nat /\ (u + 1) * P = u * P + P
    <3>1. u \in Nat
      BY <1>1, <2>1, <2>4
    <3> HIDE DEF u
    <3> QED BY <1>1, <3>1
  <2>6. Row(at) = u * P + z
    BY <2>3 DEF w
  <2>7. CASE z < P
    <3>1. next[1] = x /\ next[2] = y /\ next[3] = z + 1
      BY <2>2, <2>7
    <3>2. Row(next) = u * P + (z + 1)
      BY <2>3, <3>1 DEF w
    <3> HIDE DEF u
    <3>3. Row(next) = Row(at) + 1 /\ Row(at) \in Nat \ {0} /\ ~(x > L)
      BY <1>1, <2>1, <2>5, <2>6, <3>2
    <3> QED BY <3>1, <3>3 DEF next
  <2>8. CASE ~(z < P) /\ y < R
    <3>1. next[1] = x /\ next[2] = y + 1 /\ next[3] = 1 /\ z = P
      BY <1>1, <2>1, <2>2, <2>8
    <3>2. Row(next) = (u + 1) * P + 1
      <4>1. w + (y + 1) - 1 = u + 1
        BY <2>1, <2>4
      <4> QED BY <2>3, <3>1, <4>1 DEF w
    <3> HIDE DEF u
    <3>3. Row(next) = Row(at) + 1 /\ Row(at) \in Nat \ {0} /\ ~(x > L)
      BY <1>1, <2>1, <2>5, <2>6, <3>1, <3>2
    <3> QED BY <3>1, <3>3 DEF next
  <2>9. CASE ~(z < P) /\ ~(y < R)
    <3>1. next[1] = x + 1 /\ next[2] = 1 /\ next[3] = 1 /\ z = P /\ y = R
      BY <1>1, <2>1, <2>2, <2>9
    <3>2. Row(next) = (u + 1) * P + 1
      <4>1. (x + 1 - 1) * R + 1 - 1 = u + 1
        <5>1. x + 1 - 1 = x
          BY <2>1
        <5> QED BY <1>1, <2>1, <2>4, <3>1, <5>1
      <4> HIDE DEF u
      <4>2. Row(next) = ((x + 1 - 1) * R + 1 - 1) * P + 1
        BY <1>1, <2>1, <2>3, <3>1
      <4> QED BY <4>1, <4>2
    <3> HIDE DEF u
    <3>3. Row(next) = Row(at) + 1 /\ Row(at) \in Nat \ {0}
      BY <1>1, <2>1, <2>5, <2>6, <3>1, <3>2
    <3> QED BY <3>1, <3>3 DEF next
  <2> QED BY <2>7, <2>8, <2>9
<1> QED BY <1>2, <1>3

(* How many combinations of link, round and peers there are.               *)
LEMMA GridCardinality ==
  ASSUME flags \in Flags
  PROVE  Cardinality(Cells) = Len(flags.links) * Len(flags.rounds) * Len(flags.peers)
<1> DEFINE L == Len(flags.links)  R == Len(flags.rounds)  P == Len(flags.peers)
           A == 1 .. L  B == 1 .. R  C == 1 .. P
           pairs == (A \X B) \X C
           f == [q \in pairs |-> <<q[1][1], q[1][2], q[2]>>]
<1>1. /\ L \in Nat \ {0} /\ R \in Nat \ {0} /\ P \in Nat \ {0}
      /\ Cells = A \X B \X C
  BY GridShape
<1>2. /\ IsFiniteSet(A) /\ Cardinality(A) = L /\ IsFiniteSet(B) /\ Cardinality(B) = R
      /\ IsFiniteSet(C) /\ Cardinality(C) = P
  <2> HIDE DEF L, R, P
  <2>1. ASSUME NEW n \in Nat \ {0} PROVE IsFiniteSet(1 .. n) /\ Cardinality(1 .. n) = n
    <3>1. IsFiniteSet(1 .. n) /\ Cardinality(1 .. n) = IF 1 > n THEN 0 ELSE n - 1 + 1
      BY FS_Interval
    <3> QED BY <3>1
  <2> QED BY <1>1, <2>1
<1> HIDE DEF L, R, P
<1>3. IsFiniteSet(pairs) /\ Cardinality(pairs) = L * R * P
  <2> HIDE DEF A, B, C
  <2>1. IsFiniteSet(A \X B) /\ Cardinality(A \X B) = L * R
    BY <1>2, FS_Product
  <2> DEFINE AB == A \X B
  <2> HIDE DEF AB
  <2>2. IsFiniteSet(AB \X C) /\ Cardinality(AB \X C) = Cardinality(AB) * P
    BY <1>2, <2>1, FS_Product DEF AB
  <2> QED BY <2>1, <2>2 DEF AB
<1>4. f \in Bijection(pairs, Cells)
  <2> HIDE DEF A, B, C
  <2>1. f \in [pairs -> Cells]
    BY <1>1
  <2>2. \A p, q \in pairs : f[p] = f[q] => p = q
    <3> SUFFICES ASSUME NEW p \in pairs, NEW q \in pairs, f[p] = f[q] PROVE p = q
      OBVIOUS
    <3>1. p[1][1] = q[1][1] /\ p[1][2] = q[1][2] /\ p[2] = q[2]
      OBVIOUS
    <3>2. p = <<<<p[1][1], p[1][2]>>, p[2]>> /\ q = <<<<q[1][1], q[1][2]>>, q[2]>>
      OBVIOUS
    <3> QED BY <3>1, <3>2
  <2>3. \A t \in Cells : \E q \in pairs : f[q] = t
    <3> TAKE t \in Cells
    <3>1. <<<<t[1], t[2]>>, t[3]>> \in pairs /\ t = <<t[1], t[2], t[3]>>
      BY <1>1
    <3>2. f[<<<<t[1], t[2]>>, t[3]>>] = t
      BY <3>1
    <3> QED BY <3>1, <3>2
  <2> HIDE DEF f, pairs
  <2> QED BY <2>1, <2>2, <2>3, Fun_IsBij
<1> HIDE DEF f, pairs, A, B, C
<1>5. Cardinality(Cells) = L * R * P
  <2>1. ExistsBijection(pairs, Cells)
    BY <1>4 DEF ExistsBijection
  <2> QED BY <1>3, <2>1, FS_Bijection
<1> QED BY <1>5 DEF L, R, P

(* There are as many combinations as rows when the loops end.              *)
LEMMA GridSize ==
  ASSUME flags \in Flags, NEW at \in CellSpace, at[1] > Len(flags.links), at[2] = 1, at[3] = 1
  PROVE  Row(at) - 1 = Cardinality(Cells)
<1> DEFINE L == Len(flags.links)  R == Len(flags.rounds)  P == Len(flags.peers)
<1>1. L \in Nat \ {0} /\ R \in Nat \ {0} /\ P \in Nat \ {0} /\ at[1] \in 1 .. L + 1
  BY GridShape
<1>2. at[1] = L + 1
  BY <1>1
<1>3. Cardinality(Cells) = (L * R) * P
  BY GridCardinality
<1>4. Row(at) = ((at[1] - 1) * R + 1 - 1) * P + 1
  BY DEF Row
<1> HIDE DEF L, R, P
<1>5. (at[1] - 1) * R + 1 - 1 = L * R
  BY <1>1, <1>2
<1>6. (L * R) * P \in Nat
  BY <1>1
<1> QED BY <1>3, <1>4, <1>5, <1>6

-----------------------------------------------------------------------------
(* What a section should say depends on the command line alone.            *)
LEMMA RightFixed ==
  ASSUME flags' = flags
  PROVE  /\ \A kind, t, data : Right(kind, t, data)' <=> Right(kind, t, data)
         /\ \A ns : SameCounts(ns)' <=> SameCounts(ns)
         /\ Projected' <=> Projected
         /\ \A c : Row(c)' = Row(c)
<1>1. \A ns : SameCounts(ns)' <=> SameCounts(ns)
  BY DEF SameCounts
<1>2. \A t : SchemeOf(t)' = SchemeOf(t) /\ SigOf(t)' = SigOf(t)
  BY DEF SchemeOf, SigOf
<1>3. \A t, rows : CommitsOf(t, rows)' <=> CommitsOf(t, rows)
  <2> SUFFICES ASSUME NEW t, NEW rows PROVE CommitsOf(t, rows)' <=> CommitsOf(t, rows)
    OBVIOUS
  <2>1. SigOf(t)' = SigOf(t)
    BY <1>2
  <2> QED BY <1>1, <2>1 DEF CommitsOf
<1>4. \A c : Row(c)' = Row(c)
  BY DEF Row
<1>5. \A t, rows : GridOf(t, rows)' <=> GridOf(t, rows)
  <2> SUFFICES ASSUME NEW t, NEW rows PROVE GridOf(t, rows)' <=> GridOf(t, rows)
    OBVIOUS
  <2>1. Cells' = Cells /\ \A c : RowOf(t, c)' = RowOf(t, c)
    BY FixedFlags
  <2>2. CeilingSet' = CeilingSet
    BY DEF CeilingSet
  <2> QED BY <1>4, <2>1, <2>2 DEF GridOf
<1>6. Projected' <=> Projected
  BY DEF Projected
<1>7. \A n : BytesPerYear(n)' = BytesPerYear(n)
  BY DEF BytesPerYear
<1>8. \A t : Cost(flags.schemes[t])' = Cost(flags.schemes[t])
  BY DEF Cost
<1>9. ASSUME NEW kind, NEW t, NEW data PROVE Right(kind, t, data)' <=> Right(kind, t, data)
  <2>1. flags'.schemes[t] = flags.schemes[t] /\ flags'.counts = flags.counts
        /\ flags'.storageVals = flags.storageVals
    OBVIOUS
  <2>2. /\ CommitsOf(t, data)' <=> CommitsOf(t, data)
        /\ GridOf(t, data)' <=> GridOf(t, data)
        /\ (\E rows : GridOf(t, rows) /\ FirstOfFewest(rows, data))'
             <=> (\E rows : GridOf(t, rows) /\ FirstOfFewest(rows, data))
        /\ SchemeOf(t)' = SchemeOf(t)
        /\ BytesPerYear(commitBytes(flags.storageVals, SigOf(t)))'
             = BytesPerYear(commitBytes(flags.storageVals, SigOf(t)))
    <3>1. \A rows : FirstOfFewest(rows, data)' <=> FirstOfFewest(rows, data)
      BY DEF FirstOfFewest
    <3>2. (\E rows : GridOf(t, rows) /\ FirstOfFewest(rows, data))'
            <=> (\E rows : GridOf(t, rows) /\ FirstOfFewest(rows, data))
      BY <1>5, <3>1
    <3> QED BY <1>2, <1>3, <1>5, <3>2 DEF BytesPerYear
  <2> QED BY <1>6, <1>8, <2>1, <2>2 DEF Right
<1> QED BY <1>1, <1>4, <1>6, <1>9

(* Sections that are right keep what is printed right.                     *)
LEMMA RightAfter ==
  ASSUME flags' = flags, SectionsRight, NEW new, Range(stdout') = Range(stdout) \cup new,
         \A s \in new : Right(s.kind, s.turn, s.data)
  PROVE  SectionsRight'
<1>1. \A s \in Range(stdout') : Right(s.kind, s.turn, s.data)
  BY DEF SectionsRight
<1>2. \A s \in Range(stdout') : Right(s.kind, s.turn, s.data)'
  BY <1>1, RightFixed
<1> QED BY <1>2 DEF SectionsRight

(* Sections of the t-th name's report, one of each of some kinds.          *)
OneOfEach(N, new, t) ==
  /\ \A s \in new : s.turn = t /\ s.kind \in N
  /\ \A kind \in N : \E s \in new : s.kind = kind /\ \A r \in new : r.kind = kind => r = s

(* A report gains a section of each of the kinds it prints.                *)
LEMMA Advance ==
  ASSUME NEW t, NEW K, NEW N, NEW new, HasExactly(t, K),
         Range(stdout') = Range(stdout) \cup new, OneOfEach(N, new, t), N \cap K = {}
  PROVE  HasExactly(t, K \cup N)'
<1>0. /\ \A s \in new : s.turn = t /\ s.kind \in N
      /\ \A kind \in N : \E s \in new : s.kind = kind /\ \A r \in new : r.kind = kind => r = s
  BY DEF OneOfEach
<1> SUFFICES ASSUME NEW kind \in Fixed
             PROVE  IF kind \in K \cup N THEN Single(kind, t)' ELSE Printed(kind, t)' = {}
  BY DEF HasExactly
<1>1. IF kind \in K THEN Single(kind, t) ELSE Printed(kind, t) = {}
  BY DEF HasExactly
<1>2. /\ Printed(kind, t) \subseteq Printed(kind, t)'
      /\ \A d \in Printed(kind, t)' :
           \/ d \in Printed(kind, t)
           \/ \E s \in new : s.kind = kind /\ s.turn = t /\ s.data = d
      /\ (\A s \in new : s.kind # kind) => Printed(kind, t)' = Printed(kind, t)
  BY PrintedAfter
<1>3. CASE kind \in N
  <2>1. PICK s \in new : s.kind = kind /\ \A r \in new : r.kind = kind => r = s
    BY <1>0, <1>3
  <2>2. Printed(kind, t) = {}
    BY <1>1, <1>3
  <2>3. s.data \in Printed(kind, t)'
    <3>1. s \in Range(stdout') /\ s.kind = kind /\ s.turn = t
      BY <1>0, <2>1
    <3> QED BY <3>1 DEF Printed
  <2>4. Printed(kind, t)' = {s.data}
    BY <1>2, <2>1, <2>2, <2>3
  <2>5. Single(kind, t)'
    BY <2>4 DEF Single
  <2> QED BY <1>3, <2>5
<1>4. CASE kind \notin N
  <2>1. Printed(kind, t)' = Printed(kind, t)
    BY <1>0, <1>2, <1>4
  <2> QED BY <1>1, <1>4, <2>1 DEF Single
<1> QED BY <1>3, <1>4

(* A report that nothing is printed under stays as it is.                  *)
LEMMA HasKept ==
  ASSUME NEW t, NEW K, \A kind : Printed(kind, t)' = Printed(kind, t), HasExactly(t, K)
  PROVE  HasExactly(t, K)'
BY DEF HasExactly, Single

(* Only the current name's report grows.                                   *)
LEMMA OtherReports ==
  ASSUME NEW new, Range(stdout') = Range(stdout) \cup new, \A s \in new : s.turn = turn,
         NEW t, t # turn, NEW kind
  PROVE  Printed(kind, t)' = Printed(kind, t)
<1>1. /\ Printed(kind, t) \subseteq Printed(kind, t)'
      /\ \A d \in Printed(kind, t)' :
           \/ d \in Printed(kind, t)
           \/ \E s \in new : s.kind = kind /\ s.turn = t /\ s.data = d
  BY PrintedAfter
<1> DEFINE now  == Printed(kind, t)
           next == Printed(kind, t)'
<1>2. \A d \in now : d \in next
  BY <1>1
<1>3. \A d \in next : d \in now
  BY <1>1
<1> HIDE DEF now, next
<1>4. next = now
  BY <1>2, <1>3
<1> QED BY <1>4 DEF now, next

(* No name has been reported on before its turn.                           *)
LEMMA NothingAhead ==
  ASSUME IInv, NEW t \in Nat, t > turn, NEW kind
  PROVE  Printed(kind, t) = {}
<1>1. turn \in Nat /\ \A s \in Range(stdout) : s.turn \in 1 .. turn
  BY FlagsShape DEF IInv, TypeOK
<1> QED BY <1>1 DEF Printed

(* The state the steps start from.                                         *)
LEMMA SectionState ==
  ASSUME IInv
  PROVE  /\ flags \in Flags /\ StdoutOK /\ turn \in Nat \ {0} /\ turn \in 1 .. Len(flags.schemes)
         /\ turn \in Turns /\ cell \in CellSpace /\ ceilings \in Seq(CeilingSet)
         /\ Reporting => flags.schemes[turn] \in SchemeNames
         /\ pc = "measure" => flags.schemes[turn] \in SchemeNames
         /\ pc \in Labels
<1>1. flags \in Flags /\ turn \in 1 .. Len(flags.schemes) /\ StdoutOK
  BY DEF IInv, TypeOK, StdoutOK
<1>2. turn \in Nat \ {0} /\ turn \in Turns
  BY <1>1, FlagsShape, LenProperties DEF Turns
<1> QED BY <1>1, <1>2 DEF IInv, TypeOK, CellSpace, NameKnown

-----------------------------------------------------------------------------
(* At the start nothing is printed, and the slice is the command line's.   *)
LEMMA SectionInit == Init => SectionInv
<1> SUFFICES ASSUME Init PROVE SectionInv
  OBVIOUS
<1>1. flags \in Flags /\ counts = flags.counts /\ turn = 1 /\ pc = "lookup" /\ stdout = <<>>
  BY DEF Init
<1>2. \A kind, t : Printed(kind, t) = {}
  BY <1>1 DEF Printed, Range
<1>3. SameCounts(counts)
  BY <1>1, FlagsShape DEF SameCounts
<1>4. ~Reporting /\ ~Ended /\ SoFar(pc) = {} /\ 1 .. turn - 1 = {}
  BY <1>1 DEF Reporting, Ended, SoFar
<1>5. OwnSizes /\ GridInOrder
  BY <1>4 DEF OwnSizes, GridInOrder
<1>6. SectionsRight
  BY <1>1 DEF SectionsRight, Range
<1>7. Progress
  BY <1>1, <1>2, <1>4 DEF Progress, HasExactly
<1>8. StorageSettled
  BY <1>1, <1>2 DEF StorageSettled
<1> QED BY <1>3, <1>5, <1>6, <1>7, <1>8 DEF SectionInv

(* A step that prints nothing and stays with the name keeps what is out.   *)
LEMMA SilentStep ==
  ASSUME SectionInv, UNCHANGED <<flags, turn, stdout>>,
         ~Ended, ~Ended' => SoFar(pc') = SoFar(pc), pc' # "exit 0"
  PROVE  /\ SectionsRight'
         /\ \A kind, t : Printed(kind, t)' = Printed(kind, t)
         /\ \A t \in 1 .. turn' - 1 : HasExactly(t, Fixed)'
         /\ ~Ended' => HasExactly(turn, SoFar(pc))'
<1>1. SectionsRight'
  <2>0. PICK none : none = {}
    OBVIOUS
  <2>1. Range(stdout') = Range(stdout) \cup none
    BY <2>0
  <2>2. flags' = flags /\ SectionsRight
    BY DEF SectionInv
  <2>3. \A s \in none : Right(s.kind, s.turn, s.data)
    BY <2>0
  <2> QED BY <2>1, <2>2, <2>3, RightAfter
<1>2. \A kind, t : Printed(kind, t)' = Printed(kind, t)
  BY PrintedSame
<1>3. \A t \in 1 .. turn - 1 : HasExactly(t, Fixed)'
  BY <1>2, HasKept DEF SectionInv, Progress
<1>4. ASSUME ~Ended' PROVE HasExactly(turn, SoFar(pc))'
  <2>1. HasExactly(turn, SoFar(pc))
    BY DEF SectionInv, Progress
  <2>2. PICK t : t = turn
    OBVIOUS
  <2>3. PICK K : K = SoFar(pc)
    OBVIOUS
  <2>4. \A kind \in Fixed : IF kind \in K THEN Single(kind, t)' ELSE Printed(kind, t)' = {}
    BY <1>2, <2>1, <2>2, <2>3, HasKept DEF HasExactly
  <2>5. turn' = t /\ SoFar(pc)' = K
    BY <1>4, <2>2, <2>3
  <2>6. \A kind : Printed(kind, turn)' = Printed(kind, t)' /\ (Single(kind, turn)' <=> Single(kind, t)')
    BY <2>5 DEF Single, Printed
  <2> QED BY <2>4, <2>5, <2>6 DEF HasExactly
<1> QED BY <1>1, <1>2, <1>3, <1>4

(* A section shows up under no other kind.                                 *)
LEMMA OtherKinds ==
  ASSUME NEW new, Range(stdout') = Range(stdout) \cup new, NEW kind, NEW t,
         \A s \in new : s.kind # kind
  PROVE  Printed(kind, t)' = Printed(kind, t)
<1>1. (\A s \in new : s.kind # kind) => Printed(kind, t)' = Printed(kind, t)
  BY PrintedAfter
<1> QED BY <1>1

(* These sections, and right ones.                                         *)
RightOfEach(N, new, t) ==
  OneOfEach(N, new, t) /\ \A s \in new : Right(s.kind, s.turn, s.data)

(* A step that prints sections of new kinds under the current name.        *)
LEMMA PrintingStep ==
  ASSUME SectionInv, ~Ended, flags' = flags, NEW N, NEW new, NEW t, t = turn,
         Range(stdout') = Range(stdout) \cup new, RightOfEach(N, new, t),
         NEW K, K = SoFar(pc), N \cap K = {}
  PROVE  /\ SectionsRight'
         /\ \A u \in 1 .. t - 1 : HasExactly(u, Fixed)'
         /\ HasExactly(t, K \cup N)'
         /\ \A kind, u : u # t \/ kind \notin N => Printed(kind, u)' = Printed(kind, u)
<1>1. SectionsRight /\ HasExactly(t, K) /\ \A u \in 1 .. t - 1 : HasExactly(u, Fixed)
  BY DEF SectionInv, Progress
<1>0. /\ OneOfEach(N, new, t)
      /\ \A s \in new : s.turn = t /\ s.kind \in N /\ Right(s.kind, s.turn, s.data)
  BY DEF RightOfEach, OneOfEach
<1>2. SectionsRight'
  BY <1>0, <1>1, RightAfter
<1>3. HasExactly(t, K \cup N)'
  BY <1>0, <1>1, Advance
<1>4. ASSUME NEW kind, NEW u, u # t \/ kind \notin N
      PROVE  Printed(kind, u)' = Printed(kind, u)
  <2>1. CASE u # t
    BY <1>0, <2>1, OtherReports
  <2>2. CASE kind \notin N
    <3>1. \A s \in new : s.kind # kind
      BY <1>0, <2>2
    <3> QED BY <3>1, OtherKinds
  <2> QED BY <1>4, <2>1, <2>2
<1>5. ASSUME NEW u \in 1 .. t - 1, u # t PROVE HasExactly(u, Fixed)'
  BY <1>1, <1>4, <1>5, HasKept
<1>6. ASSUME NEW u \in 1 .. t - 1 PROVE u # t
  <2>1. u \in Int /\ u <= t - 1
    OBVIOUS
  <2> QED BY <2>1
<1> QED BY <1>2, <1>3, <1>4, <1>5, <1>6

(* How the program's place follows the sections.                           *)
LEMMA ProgressAt ==
  ASSUME NEW t, turn' = t, NEW K, SoFar(pc') = K, HasExactly(t, K)',
         \A u \in 1 .. t - 1 : HasExactly(u, Fixed)', pc' \notin {"exit 0", "exit 1"}
  PROVE  Progress'
<1>1. \A kind : Printed(kind, turn)' = Printed(kind, t)' /\ (Single(kind, turn)' <=> Single(kind, t)')
  BY DEF Printed, Single
<1>2. HasExactly(turn, SoFar(pc))'
  BY <1>1 DEF HasExactly
<1>3. \A u \in 1 .. turn' - 1 : HasExactly(u, Fixed)'
  OBVIOUS
<1> QED BY <1>2, <1>3 DEF Progress

(* What a failure leaves: no closing line, and nothing of an unknown name. *)
LEMMA ProgressFails ==
  ASSUME UNCHANGED <<flags, turn, stdout>>, Progress, ~Ended, pc' = "exit 1",
         flags.schemes[turn] \notin SchemeNames =>
           SoFar(pc) = {} /\ Printed("storage", turn) = {}
  PROVE  Progress'
<1>1. \A kind, t : Printed(kind, t)' = Printed(kind, t)
  BY PrintedSame
<1>2. \A u \in 1 .. turn' - 1 : HasExactly(u, Fixed)'
  BY <1>1, HasKept DEF Progress
<1>3. HasExactly(turn, SoFar(pc))
  BY DEF Progress
<1>4. "cost" \in Fixed /\ "cost" \notin SoFar(pc)
  BY DEF Fixed, Kinds, SoFar, Tables
<1>5. Printed("cost", turn) = {}
  BY <1>3, <1>4 DEF HasExactly
<1>6. flags.schemes[turn] \notin SchemeNames => \A kind \in Kinds : Printed(kind, turn) = {}
  BY <1>3 DEF HasExactly, Fixed
<1>7. \A kind : Printed(kind, turn)' = Printed(kind, turn)
  BY DEF Printed
<1> QED BY <1>2, <1>5, <1>6, <1>7 DEF Progress, Ended

(* The storage line is settled on by steps that print neither it nor the   *)
(* ceilings.                                                               *)
Early == {"lookup", "measure", "header", "breakdown", "storage"}
Late  == {"derive", "tightest"}

LEMMA StorageKept ==
  ASSUME StorageSettled, flags' = flags, turn' = turn,
         \A t : Printed("storage", t)' = Printed("storage", t)
                /\ Printed("ceilings", t)' = Printed("ceilings", t),
         pc' \in Early => pc \in Early, pc' \in Late => pc \in Late
  PROVE  StorageSettled'
<1>1. (Projected' <=> Projected) /\ Turns' = Turns
  BY RightFixed, FixedFlags
<1>2. Printed("storage", turn)' = Printed("storage", turn)
  BY DEF Printed
<1>3. pc' \in Early => Printed("storage", turn)' = {}
  BY <1>2 DEF StorageSettled, Early
<1>4. pc' \in Late => (Printed("storage", turn)' # {} <=> Projected')
  BY <1>1, <1>2 DEF StorageSettled, Late
<1>5. \A t \in Turns' : Printed("ceilings", t)' # {} => (Printed("storage", t)' # {} <=> Projected')
  BY <1>1 DEF StorageSettled
<1> QED BY <1>3, <1>4, <1>5 DEF StorageSettled, Early, Late

(* The data of the report under way is carried along.                      *)
LEMMA DataKept ==
  ASSUME UNCHANGED <<flags, turn, sizes, cell, ceilings>>, SectionInv, Reporting
  PROVE  OwnSizes' /\ GridInOrder'
<1>1. scheme' = scheme
  BY DEF scheme
<1>2. OwnSizes'
  BY <1>1 DEF SectionInv, OwnSizes
<1>3. /\ Len(ceilings) = Row(cell) - 1
      /\ \A c \in Cells : Passed(c, cell) => ceilings[Row(c)] = RowOf(turn, c)
      /\ cell[1] > Len(flags.links) => cell[2] = 1 /\ cell[3] = 1
  BY DEF SectionInv, GridInOrder
<1>4. flags' = flags /\ turn' = turn /\ cell' = cell /\ ceilings' = ceilings
  OBVIOUS
<1>5. /\ Cells' = Cells /\ Row(cell)' = Row(cell) /\ \A c : Row(c)' = Row(c)
      /\ \A c : RowOf(turn, c)' = RowOf(turn, c)
      /\ \A c : Passed(c, cell)' <=> Passed(c, cell)
  BY <1>4 DEF Cells, Row, RowOf, BudgetAt, Cost, Passed
<1>6. Len(ceilings)' = Row(cell)' - 1
  BY <1>3, <1>4, <1>5
<1>7. \A c \in Cells' : Passed(c, cell)' => (ceilings[Row(c)])' = RowOf(turn, c)'
  BY <1>3, <1>4, <1>5
<1>8. (cell[1] > Len(flags.links))' => (cell[2] = 1 /\ cell[3] = 1)'
  BY <1>3, <1>4
<1>9. GridInOrder'
  BY <1>6, <1>7, <1>8 DEF GridInOrder
<1> QED BY <1>2, <1>9

-----------------------------------------------------------------------------
(* A step that prints nothing and stays in the same part of the report.    *)
LEMMA QuietStep ==
  ASSUME SectionInv, UNCHANGED <<flags, counts, turn, stdout>>,
         ~Ended, ~Ended', SoFar(pc') = SoFar(pc),
         pc' \in Early => pc \in Early, pc' \in Late => pc \in Late
  PROVE  SameCounts(counts)' /\ SectionsRight' /\ Progress' /\ StorageSettled'
<1>1. SameCounts(counts)'
  BY RightFixed DEF SectionInv
<1>2. /\ SectionsRight'
      /\ \A kind, t : Printed(kind, t)' = Printed(kind, t)
      /\ \A t \in 1 .. turn' - 1 : HasExactly(t, Fixed)'
      /\ HasExactly(turn, SoFar(pc))'
  BY SilentStep DEF Ended
<1>3. Progress'
  BY <1>2 DEF Progress, Ended
<1>4. StorageSettled'
  BY <1>2, StorageKept DEF SectionInv
<1> QED BY <1>1, <1>2, <1>3, <1>4

(* A failure leaves the sections there are.                                *)
LEMMA FailStep ==
  ASSUME SectionInv, UNCHANGED <<flags, counts, turn, stdout>>, ~Ended, pc' = "exit 1",
         flags.schemes[turn] \notin SchemeNames => pc = "lookup"
  PROVE  SectionInv'
<1>1. SameCounts(counts)'
  BY RightFixed DEF SectionInv
<1>2. SectionsRight' /\ \A kind, t : Printed(kind, t)' = Printed(kind, t)
  BY SilentStep DEF Ended
<1>3. pc = "lookup" => SoFar(pc) = {} /\ Printed("storage", turn) = {}
  BY DEF SoFar, SectionInv, StorageSettled
<1>4. Progress'
  BY <1>3, ProgressFails DEF SectionInv
<1>5. StorageSettled'
  BY <1>2, StorageKept DEF SectionInv, Early, Late
<1>6. ~Reporting'
  BY DEF Reporting
<1> QED BY <1>1, <1>2, <1>4, <1>5, <1>6 DEF SectionInv, OwnSizes, GridInOrder

LEMMA LookupStep == IInv /\ SectionInv /\ Lookup => SectionInv'
<1> SUFFICES ASSUME IInv, SectionInv, Lookup PROVE SectionInv'
  OBVIOUS
<1>1. /\ pc = "lookup" /\ UNCHANGED <<flags, counts, turn, stdout>>
      /\ pc' = "measure" \/ pc' = "exit 1"
  BY DEF Lookup, Goto, Fail
<1>2. ~Ended
  BY <1>1 DEF Ended
<1>3. CASE pc' = "exit 1"
  BY <1>1, <1>2, <1>3, FailStep
<1>4. CASE pc' = "measure"
  <2>1. ~Ended' /\ ~Reporting' /\ SoFar(pc') = SoFar(pc)
    BY <1>1, <1>4 DEF Ended, Reporting, SoFar
  <2>2. SameCounts(counts)' /\ SectionsRight' /\ Progress' /\ StorageSettled'
    BY <1>1, <1>2, <1>4, <2>1, QuietStep DEF Early, Late
  <2> QED BY <2>1, <2>2 DEF SectionInv, OwnSizes, GridInOrder
<1> QED BY <1>1, <1>3, <1>4

(* The measurement takes the shared slice, whatever its order by now, and  *)
(* the loops over the budgets start over.                                  *)
LEMMA MeasureStep == IInv /\ SectionInv /\ MeasureScheme => SectionInv'
<1> SUFFICES ASSUME IInv, SectionInv, MeasureScheme PROVE SectionInv'
  OBVIOUS
<1>1. /\ pc = "measure" /\ UNCHANGED <<flags, counts, turn, stdout>>
      /\ cell' = FirstCell /\ ceilings' = <<>>
      /\ \/ sizes' = MeasureSizes(scheme, counts) /\ pc' = "header"
         \/ pc' = "exit 1"
  BY DEF MeasureScheme, Goto, Fail
<1>2. ~Ended /\ flags \in Flags /\ flags.schemes[turn] \in SchemeNames
  BY <1>1, SectionState DEF Ended
<1>3. CASE pc' = "exit 1"
  BY <1>1, <1>2, <1>3, FailStep
<1>4. CASE sizes' = MeasureSizes(scheme, counts) /\ pc' = "header"
  <2>1. ~Ended' /\ SoFar(pc') = SoFar(pc)
    BY <1>1, <1>4 DEF Ended, SoFar
  <2>2. SameCounts(counts)' /\ SectionsRight' /\ Progress' /\ StorageSettled'
    BY <1>1, <1>2, <1>4, <2>1, QuietStep DEF Early, Late
  <2>3. OwnSizes'
    <3>1. MeasureSizes(scheme, counts) = MeasureSizes(scheme, flags.counts)
      BY SizesOfCounts DEF SectionInv, SameCounts
    <3>2. scheme' = scheme /\ flags' = flags
      BY <1>1 DEF scheme
    <3>3. sizes' = MeasureSizes(scheme', flags'.counts)
      BY <1>4, <3>1, <3>2
    <3> QED BY <3>3 DEF OwnSizes
  <2>4. GridInOrder'
    <3>1. flags' = flags /\ flags' \in Flags
      BY <1>1, <1>2
    <3>2. \A c \in Cells' : ~Passed(c, FirstCell)
      BY <1>2, <3>1, NonePassed, FixedFlags
    <3>3. Row(FirstCell) = 1 /\ Row(FirstCell)' = Row(FirstCell)
      BY <1>2, <3>1, RowsInOrder, RightFixed
    <3>4. FirstCell[1] = 1 /\ FirstCell[2] = 1 /\ FirstCell[3] = 1 /\ Len(<<>>) = 0
      BY DEF FirstCell
    <3>5. Len(ceilings') = 0 /\ Row(cell)' = 1
      BY <1>1, <3>3, <3>4 DEF Row
    <3>6. \A c \in Cells' : ~Passed(c, cell)'
      BY <1>1, <3>2 DEF Passed
    <3>7. cell'[2] = 1 /\ cell'[3] = 1
      BY <1>1, <3>4
    <3> QED BY <3>5, <3>6, <3>7 DEF GridInOrder
  <2> QED BY <2>2, <2>3, <2>4 DEF SectionInv
<1> QED BY <1>1, <1>3, <1>4

(* The commit table: the counts ascending, each beside its own commit.     *)
LEMMA TableRight ==
  ASSUME flags \in Flags, flags.schemes[turn] \in SchemeNames,
         sizes = MeasureSizes(scheme, flags.counts),
         NEW ns, SameCounts(ns), Ascending(ns)
  PROVE  CommitsOf(turn, CommitRows(ns))
<1> DEFINE rows   == CommitRows(ns)
           column == [k \in DOMAIN rows |-> rows[k][1]]
<1>1. /\ ns \in Seq(Nat \ {0}) /\ Range(ns) = Range(flags.counts)
      /\ DOMAIN ns = 1 .. Len(ns) /\ Len(ns) \in Nat
  BY LenProperties DEF SameCounts
<1>2. ns = [k \in DOMAIN ns |-> ns[k]]
  BY <1>1
<1>3. column = ns
  <2>1. DOMAIN rows = DOMAIN ns /\ \A k \in DOMAIN ns : rows[k][1] = ns[k]
    BY DEF CommitRows
  <2>2. column = [k \in DOMAIN ns |-> ns[k]]
    BY <2>1
  <2> QED BY <1>2, <2>2
<1>4. \A k \in DOMAIN ns : sizes.commits[ns[k]] = commitBytes(ns[k], SigOf(turn))
  <2>1. \A k \in DOMAIN ns : ns[k] \in Range(flags.counts)
    BY <1>1 DEF Range
  <2>2. \A n \in Range(flags.counts) : sizes.commits[n] = commitBytes(n, scheme.sigBytes)
    BY DEF MeasureSizes
  <2>3. scheme.sigBytes = SigOf(turn)
    BY DEF SigOf, SchemeOf, scheme
  <2> QED BY <2>1, <2>2, <2>3
<1>5. rows = [k \in DOMAIN ns |-> <<ns[k], commitBytes(ns[k], SigOf(turn))>>]
  BY <1>4 DEF CommitRows
<1> HIDE DEF rows
<1>6. SameCounts(column) /\ Ascending(column)
      /\ rows = [k \in DOMAIN column |-> <<column[k], commitBytes(column[k], SigOf(turn))>>]
  BY <1>3, <1>5
<1> QED BY <1>6 DEF CommitsOf, rows

LEMMA SizesStep == IInv /\ SectionInv /\ PrintSizes => SectionInv'
<1> SUFFICES ASSUME IInv, SectionInv, PrintSizes PROVE SectionInv'
  OBVIOUS
<1>1. /\ pc = "header" /\ pc' = "breakdown" /\ counts' \in Rearrangements(counts)
      /\ Ascending(counts') /\ UNCHANGED <<flags, turn, sizes, cell, ceilings>>
  BY DEF PrintSizes, Goto
<1>2. /\ Reporting /\ ~Ended /\ flags \in Flags /\ StdoutOK /\ turn \in Nat \ {0}
      /\ flags.schemes[turn] \in SchemeNames
  <2>1. Reporting /\ ~Ended
    BY <1>1 DEF Reporting, Labels, Ended
  <2> QED BY <2>1, SectionState
<1>3. PICK top : stdout' = stdout \o
         << Section("header", top), Section("votes", sizes), Section("commits", CommitRows(counts')) >>
  BY DEF PrintSizes
<1>4. "header" \in Kinds /\ "votes" \in Kinds /\ "commits" \in Kinds
  BY DEF Kinds
<1> DEFINE rows == CommitRows(counts')
           a == Section("header", top)
           b == Section("votes", sizes)
           c == Section("commits", rows)
           new == {a, b, c}
<1>5. Range(stdout') = Range(stdout) \cup new
  <2> HIDE DEF rows
  <2>1. stdout' = stdout \o <<Section("header", top), Section("votes", sizes), Section("commits", rows)>>
    BY <1>3 DEF rows
  <2> QED BY <1>1, <1>2, <1>4, <2>1, EmitThree, ZenonT(30)
<1>6. SameCounts(counts')
  BY <1>1, SortKeepsCounts DEF SectionInv
<1>7. sizes = MeasureSizes(scheme, flags.counts)
  BY <1>2 DEF SectionInv, OwnSizes
<1>8. CommitsOf(turn, rows)
  BY <1>1, <1>2, <1>6, <1>7, TableRight
<1> HIDE DEF rows
<1>9. /\ a.kind = "header" /\ b.kind = "votes" /\ c.kind = "commits"
      /\ a.turn = turn /\ b.turn = turn /\ c.turn = turn
      /\ b.data = sizes /\ c.data = rows
  BY DEF Section
<1>10. Right("header", turn, a.data) /\ Right("votes", turn, b.data) /\ Right("commits", turn, c.data)
  <2>1. SchemeOf(turn) = scheme
    BY DEF SchemeOf, scheme
  <2> HIDE DEF a, b, c
  <2> QED BY <1>2, <1>7, <1>8, <1>9, <2>1 DEF Right
<1>11. \A s \in new : s.turn = turn /\ s.kind \in Tables /\ Right(s.kind, s.turn, s.data)
  <2> HIDE DEF a, b, c
  <2> QED BY <1>9, <1>10 DEF Tables
<1>12. \A kind \in Tables : \E s \in new : s.kind = kind /\ \A r \in new : r.kind = kind => r = s
  <2> HIDE DEF a, b, c
  <2> QED BY <1>9 DEF Tables
<1> HIDE DEF new
<1>13. PICK t, K, M : t = turn /\ K = SoFar(pc) /\ M = Tables
  OBVIOUS
<1>14. K = {} /\ SoFar(pc') = K \cup M
  BY <1>1, <1>13 DEF SoFar
<1>15. /\ SectionsRight'
       /\ \A u \in 1 .. t - 1 : HasExactly(u, Fixed)'
       /\ HasExactly(t, K \cup M)'
       /\ \A kind, u : u # t \/ kind \notin M => Printed(kind, u)' = Printed(kind, u)
  <2>1. M \cap K = {}
    BY <1>14
  <2>2. RightOfEach(M, new, t)
    BY <1>11, <1>12, <1>13 DEF RightOfEach, OneOfEach
  <2>3. flags' = flags /\ ~Ended
    BY <1>1, <1>2
  <2> QED BY <1>5, <1>13, <2>1, <2>2, <2>3, PrintingStep
<1>16. ~Ended' /\ Reporting'
  BY <1>1 DEF Ended, Reporting, Labels
<1>17. Progress'
  BY <1>1, <1>13, <1>14, <1>15, ProgressAt
<1>18. StorageSettled'
  <2>1. "storage" \notin M /\ "ceilings" \notin M
    BY <1>13 DEF Tables
  <2> QED BY <1>1, <1>15, <2>1, StorageKept DEF SectionInv, Early, Late
<1>19. OwnSizes' /\ GridInOrder'
  BY <1>1, <1>2, DataKept
<1>20. SameCounts(counts)'
  BY <1>1, <1>6, RightFixed
<1> QED BY <1>15, <1>17, <1>18, <1>19, <1>20 DEF SectionInv

LEMMA BreakdownStep == IInv /\ SectionInv /\ PrintBreakdown => SectionInv'
<1> SUFFICES ASSUME IInv, SectionInv, PrintBreakdown PROVE SectionInv'
  OBVIOUS
<1>1. /\ pc = "breakdown" /\ UNCHANGED <<flags, counts, turn, sizes, cell, ceilings>>
      /\ \/ Emit("breakdown", Breakdown(scheme)) /\ pc' = "storage"
         \/ pc' = "exit 1" /\ UNCHANGED stdout
  BY DEF PrintBreakdown, Goto, Fail
<1>2. /\ Reporting /\ ~Ended /\ flags \in Flags /\ StdoutOK /\ turn \in Nat \ {0}
      /\ flags.schemes[turn] \in SchemeNames
  <2>1. Reporting /\ ~Ended
    BY <1>1 DEF Reporting, Labels, Ended
  <2> QED BY <2>1, SectionState
<1>3. CASE pc' = "exit 1" /\ UNCHANGED stdout
  BY <1>1, <1>2, <1>3, FailStep
<1>4. CASE Emit("breakdown", Breakdown(scheme)) /\ pc' = "storage"
  <2> DEFINE a == Section("breakdown", Breakdown(scheme))
             new == {a}
  <2>1. Range(stdout') = Range(stdout) \cup new
    BY <1>1, <1>2, <1>4, EmitOne DEF Kinds
  <2>2. a.kind = "breakdown" /\ a.turn = turn /\ a.data = Breakdown(scheme)
    BY DEF Section
  <2>3. SchemeOf(turn) = scheme
    BY DEF SchemeOf, scheme
  <2> HIDE DEF a
  <2>4. Right("breakdown", turn, a.data)
    BY <1>2, <2>2, <2>3 DEF Right
  <2>5. PICK t, K, M : t = turn /\ K = SoFar(pc) /\ M = {"breakdown"}
    OBVIOUS
  <2>6. \A s \in new : s.turn = turn /\ s.kind \in M /\ Right(s.kind, s.turn, s.data)
    BY <2>2, <2>4, <2>5
  <2>7. \A kind \in M : \E s \in new : s.kind = kind /\ \A r \in new : r.kind = kind => r = s
    BY <2>2, <2>5
  <2> HIDE DEF new
  <2>8. SoFar(pc') = K \cup M /\ \A kind \in M : kind \notin SoFar(pc)
    BY <1>1, <1>4, <2>5 DEF SoFar, Tables
  <2>9. /\ SectionsRight'
        /\ \A u \in 1 .. t - 1 : HasExactly(u, Fixed)'
        /\ HasExactly(t, K \cup M)'
        /\ \A kind, u : u # t \/ kind \notin M => Printed(kind, u)' = Printed(kind, u)
    <3>1. flags' = flags /\ ~Ended
      BY <1>1, <1>2
    <3>2. M \cap K = {}
      BY <2>5, <2>8
    <3>3. RightOfEach(M, new, t)
      BY <2>5, <2>6, <2>7 DEF RightOfEach, OneOfEach
    <3> QED BY <2>1, <2>5, <3>1, <3>2, <3>3, PrintingStep
  <2>10. Progress'
    BY <1>1, <1>4, <2>5, <2>8, <2>9, ProgressAt
  <2>11. StorageSettled'
    <3>1. "storage" \notin M /\ "ceilings" \notin M
      BY <2>5
    <3> QED BY <1>1, <1>4, <2>9, <3>1, StorageKept DEF SectionInv, Early, Late
  <2>12. OwnSizes' /\ GridInOrder'
    BY <1>1, <1>2, DataKept
  <2>13. SameCounts(counts)'
    BY <1>1, RightFixed DEF SectionInv
  <2> QED BY <2>9, <2>10, <2>11, <2>12, <2>13 DEF SectionInv
<1> QED BY <1>1, <1>3, <1>4

(* The storage line is printed when its count is one of the slice.         *)
LEMMA StorageStep == IInv /\ SectionInv /\ PrintStorage => SectionInv'
<1> SUFFICES ASSUME IInv, SectionInv, PrintStorage PROVE SectionInv'
  OBVIOUS
<1> DEFINE line == <<flags.storageVals, BytesPerYear(sizes.commits[flags.storageVals])>>
<1>1. /\ pc = "storage" /\ UNCHANGED <<flags, counts, turn, sizes, cell, ceilings>>
      /\ pc' = "derive"
      /\ IF HasProjection THEN Emit("storage", line) ELSE UNCHANGED stdout
  BY DEF PrintStorage, Goto
<1>2. /\ Reporting /\ ~Ended /\ flags \in Flags /\ StdoutOK /\ turn \in Nat \ {0}
      /\ flags.schemes[turn] \in SchemeNames
  <2>1. Reporting /\ ~Ended
    BY <1>1 DEF Reporting, Labels, Ended
  <2> QED BY <2>1, SectionState
<1>3. /\ HasProjection <=> Projected
      /\ Projected => line = <<flags.storageVals, BytesPerYear(commitBytes(flags.storageVals, SigOf(turn)))>>
  <2>1. sizes = MeasureSizes(scheme, flags.counts)
    BY <1>2 DEF SectionInv, OwnSizes
  <2>2. sizes.commits = [n \in Range(flags.counts) |-> commitBytes(n, scheme.sigBytes)]
    BY <2>1 DEF MeasureSizes
  <2>3. DOMAIN sizes.commits = Range(flags.counts)
    BY <2>2
  <2>4. scheme.sigBytes = SigOf(turn)
    BY DEF SigOf, SchemeOf, scheme
  <2>5. Projected => sizes.commits[flags.storageVals] = commitBytes(flags.storageVals, SigOf(turn))
    BY <2>2, <2>4 DEF Projected
  <2> QED BY <2>3, <2>5 DEF HasProjection, Projected
<1> HIDE DEF line
<1>4. PICK t, K, M : t = turn /\ K = SoFar(pc) /\ M = {"storage"}
  OBVIOUS
<1>5. /\ K = Tables \cup {"breakdown"} /\ SoFar(pc') = K /\ ~Ended' /\ Reporting'
      /\ pc' \notin Early /\ pc' \in Late /\ pc' \notin {"exit 0", "exit 1"}
  BY <1>1, <1>4 DEF SoFar, Ended, Reporting, Labels, Early, Late
<1>6. Printed("storage", t) = {} /\ Printed("ceilings", t) = {}
  <2>1. HasExactly(t, K) /\ Printed("storage", t) = {}
    BY <1>1, <1>2, <1>4 DEF SectionInv, Progress, StorageSettled
  <2>2. "ceilings" \in Fixed /\ "ceilings" \notin K
    BY <1>5 DEF Fixed, Kinds, Tables
  <2> QED BY <2>1, <2>2 DEF HasExactly
<1>7. OwnSizes' /\ GridInOrder'
  BY <1>1, <1>2, DataKept
<1>8. SameCounts(counts)'
  BY <1>1, RightFixed DEF SectionInv
<1>9. ASSUME \A u : u # t => Printed("storage", u)' = Printed("storage", u),
             \A u : Printed("ceilings", u)' = Printed("ceilings", u),
             Printed("storage", t)' # {} <=> Projected
      PROVE  StorageSettled'
  <2>1. (Projected' <=> Projected) /\ Turns' = Turns /\ turn' = t
    BY <1>1, <1>4, RightFixed, FixedFlags
  <2>2. Printed("storage", turn)' = Printed("storage", t)'
    BY <2>1 DEF Printed
  <2>3. \A u \in Turns : Printed("ceilings", u) # {} => u # t /\ (Printed("storage", u) # {} <=> Projected)
    BY <1>6 DEF SectionInv, StorageSettled
  <2>4. \A u \in Turns' : Printed("ceilings", u)' # {} => (Printed("storage", u)' # {} <=> Projected')
    BY <1>9, <2>1, <2>3
  <2>5. Printed("storage", turn)' # {} <=> Projected'
    BY <1>9, <2>1, <2>2
  <2> QED BY <1>5, <2>4, <2>5 DEF StorageSettled, Early
<1>10. CASE ~Projected
  <2>1. UNCHANGED stdout
    BY <1>1, <1>3, <1>10
  <2>2. /\ SectionsRight'
        /\ \A kind, u : Printed(kind, u)' = Printed(kind, u)
        /\ \A u \in 1 .. turn' - 1 : HasExactly(u, Fixed)'
        /\ HasExactly(turn, SoFar(pc))'
    BY <1>1, <1>2, <1>4, <1>5, <2>1, SilentStep
  <2>3. Progress'
    BY <1>5, <2>2 DEF Progress
  <2>4. StorageSettled'
    BY <1>6, <1>9, <1>10, <2>2
  <2> QED BY <1>7, <1>8, <2>2, <2>3, <2>4 DEF SectionInv
<1>11. CASE Projected
  <2> DEFINE a == Section("storage", line)
             new == {a}
  <2>1. Emit("storage", line)
    BY <1>1, <1>3, <1>11
  <2>2. Range(stdout') = Range(stdout) \cup new
    BY <1>1, <1>2, <2>1, EmitOne DEF Kinds
  <2>3. a.kind = "storage" /\ a.turn = turn /\ a.data = line
    BY DEF Section
  <2> HIDE DEF a
  <2>4. Right("storage", turn, a.data)
    BY <1>2, <1>3, <1>11, <2>3 DEF Right
  <2>5. RightOfEach(M, new, t)
    BY <1>4, <2>3, <2>4 DEF RightOfEach, OneOfEach
  <2>6. a.data \in Printed("storage", t)'
    <3>1. a \in Range(stdout')
      BY <2>2
    <3> QED BY <1>4, <2>3, <3>1 DEF Printed
  <2> HIDE DEF new
  <2>7. M \cap K = {} /\ flags' = flags
    BY <1>1, <1>4, <1>5 DEF Tables
  <2>8. /\ SectionsRight'
        /\ \A u \in 1 .. t - 1 : HasExactly(u, Fixed)'
        /\ HasExactly(t, K \cup M)'
        /\ \A kind, u : u # t \/ kind \notin M => Printed(kind, u)' = Printed(kind, u)
    BY <1>2, <1>4, <2>2, <2>5, <2>7, PrintingStep
  <2>9. HasExactly(t, K)'
    <3>1. \A kind \in Fixed : kind \in K \cup M <=> kind \in K
      BY <1>4 DEF Fixed
    <3>2. \A kind \in Fixed : IF kind \in K \cup M THEN Single(kind, t)' ELSE Printed(kind, t)' = {}
      BY <2>8 DEF HasExactly
    <3>3. \A kind \in Fixed : IF kind \in K THEN Single(kind, t)' ELSE Printed(kind, t)' = {}
      BY <3>1, <3>2
    <3> QED BY <3>3 DEF HasExactly
  <2>10. Progress'
    BY <1>1, <1>4, <1>5, <2>8, <2>9, ProgressAt
  <2>11. StorageSettled'
    <3>1. \A u : u # t => Printed("storage", u)' = Printed("storage", u)
      BY <2>8
    <3>2. \A u : Printed("ceilings", u)' = Printed("ceilings", u)
      BY <1>4, <2>8
    <3>3. Printed("storage", t)' # {} <=> Projected
      BY <1>11, <2>6
    <3> QED BY <1>9, <3>1, <3>2, <3>3
  <2> QED BY <1>7, <1>8, <2>8, <2>10, <2>11 DEF SectionInv
<1> QED BY <1>10, <1>11

(* The loops add the row of their combination and go on to the next.       *)
LEMMA CellStep == IInv /\ BindingInv /\ SectionInv /\ DeriveCell => SectionInv'
<1> SUFFICES ASSUME IInv, BindingInv, SectionInv, DeriveCell PROVE SectionInv'
  OBVIOUS
<1>1. /\ pc = "derive" /\ cell[1] <= Len(flags.links) /\ cell' = NextCell(cell)
      /\ ceilings' = Append(ceilings, DeriveCeiling(flags.arch, RoundTripBytes(sizes), BudgetAt(cell)))
      /\ UNCHANGED <<flags, counts, turn, pc, sizes, stdout>>
  BY DEF DeriveCell
<1>2. /\ Reporting /\ ~Ended /\ flags \in Flags /\ cell \in CellSpace
      /\ ceilings \in Seq(CeilingSet)
  <2>1. Reporting /\ ~Ended
    BY <1>1 DEF Reporting, Labels, Ended
  <2> QED BY <2>1, SectionState
<1>3. cell \in Cells
  BY <1>1, <1>2, CellType
<1>4. SameCounts(counts)' /\ SectionsRight' /\ Progress' /\ StorageSettled'
  BY <1>1, <1>2, QuietStep DEF Ended
<1>5. OwnSizes'
  <2>1. scheme' = scheme
    BY <1>1 DEF scheme
  <2> QED BY <1>1, <1>2, <2>1 DEF SectionInv, OwnSizes
<1> DEFINE row == RowOf(turn, cell)
           n   == Len(ceilings) + 1
<1>6. ceilings' = Append(ceilings, row)
  BY <1>1, <1>2 DEF BindingInv, OwnCost, RowOf
<1>7. /\ Len(ceilings) \in Nat /\ Len(ceilings') = n /\ ceilings'[n] = row
      /\ \A k \in 1 .. Len(ceilings) : ceilings'[k] = ceilings[k]
  <2> DEFINE S == CeilingSet \cup {row}
  <2>1. ceilings \in Seq(S) /\ row \in S
    BY <1>2, SeqMonotonic
  <2> HIDE DEF row, S
  <2>2. ceilings' = Append(ceilings, row)
    BY <1>6
  <2> QED BY <2>1, <2>2, LenProperties, AppendProperties
<1> HIDE DEF row
<1>8. /\ Len(ceilings) = Row(cell) - 1
      /\ \A c \in Cells : Passed(c, cell) => ceilings[Row(c)] = RowOf(turn, c)
  BY <1>2 DEF SectionInv, GridInOrder
<1>9. /\ Row(cell') = Row(cell) + 1 /\ Row(cell) \in Nat \ {0}
      /\ cell'[1] > Len(flags.links) => cell'[2] = 1 /\ cell'[3] = 1
  BY <1>1, <1>2, <1>3, RowsInOrder
<1>10. Row(cell) = n
  BY <1>7, <1>8, <1>9
<1>11. ASSUME NEW c \in Cells, Passed(c, cell') PROVE ceilings'[Row(c)] = RowOf(turn, c)
  <2>1. Passed(c, cell) \/ c = cell
    BY <1>1, <1>2, <1>3, <1>11, PassedNext
  <2>2. CASE c = cell
    BY <1>7, <1>10, <2>2 DEF row
  <2>3. CASE Passed(c, cell)
    <3>1. Row(c) \in Nat \ {0} /\ Row(c) < Row(cell)
      BY <1>2, <2>3, RowsPassed
    <3>2. Row(c) \in 1 .. Len(ceilings)
      BY <1>7, <1>9, <1>10, <3>1
    <3> QED BY <1>7, <1>8, <2>3, <3>2
  <2> QED BY <2>1, <2>2, <2>3
<1>12. GridInOrder'
  <2>1. flags' = flags /\ turn' = turn
    BY <1>1
  <2>2. /\ Cells' = Cells /\ \A c : Row(c)' = Row(c)
        /\ \A c : RowOf(turn, c)' = RowOf(turn, c)
    BY <2>1 DEF Cells, Row, RowOf, BudgetAt, Cost
  <2>3. Row(cell)' = Row(cell') /\ \A c : Passed(c, cell)' <=> Passed(c, cell')
    BY <2>1 DEF Row, Passed
  <2>4. Len(ceilings)' = Row(cell)' - 1
    BY <1>7, <1>9, <1>10, <2>3
  <2>5. \A c \in Cells' : Passed(c, cell)' => (ceilings[Row(c)])' = RowOf(turn, c)'
    BY <1>11, <2>2, <2>3
  <2>6. (cell[1] > Len(flags.links))' => (cell[2] = 1 /\ cell[3] = 1)'
    BY <1>9, <2>1
  <2> QED BY <2>4, <2>5, <2>6 DEF GridInOrder
<1> QED BY <1>4, <1>5, <1>12 DEF SectionInv

(* When the loops end the table is whole, and in the order of the flags.   *)
LEMMA TableStep == IInv /\ SectionInv /\ PrintCeilings => SectionInv'
<1> SUFFICES ASSUME IInv, SectionInv, PrintCeilings PROVE SectionInv'
  OBVIOUS
<1>1. /\ pc = "derive" /\ cell[1] > Len(flags.links) /\ pc' = "tightest"
      /\ UNCHANGED <<flags, counts, turn, sizes, cell, ceilings>>
      /\ Emit("ceilings", ceilings)
  BY DEF PrintCeilings, Goto
<1>2. /\ Reporting /\ ~Ended /\ flags \in Flags /\ StdoutOK /\ turn \in Nat \ {0}
      /\ flags.schemes[turn] \in SchemeNames /\ cell \in CellSpace
  <2>1. Reporting /\ ~Ended
    BY <1>1 DEF Reporting, Labels, Ended
  <2> QED BY <2>1, SectionState
<1>3. GridOf(turn, ceilings)
  <2>1. /\ Len(ceilings) = Row(cell) - 1 /\ cell[2] = 1 /\ cell[3] = 1
        /\ \A c \in Cells : Passed(c, cell) => ceilings[Row(c)] = RowOf(turn, c)
    BY <1>1, <1>2 DEF SectionInv, GridInOrder
  <2>2. Len(ceilings) = Cardinality(Cells)
    BY <1>1, <1>2, <2>1, GridSize
  <2>3. \A c \in Cells : Passed(c, cell)
    BY <1>1, <1>2, AllPassed
  <2>4. ceilings \in Seq(CeilingSet)
    BY SectionState
  <2> QED BY <2>1, <2>2, <2>3, <2>4 DEF GridOf
<1> DEFINE a == Section("ceilings", ceilings)
           new == {a}
<1>4. Range(stdout') = Range(stdout) \cup new
  BY <1>1, <1>2, EmitOne DEF Kinds
<1>5. a.kind = "ceilings" /\ a.turn = turn /\ a.data = ceilings
  BY DEF Section
<1> HIDE DEF a
<1>6. Right("ceilings", turn, a.data)
  BY <1>2, <1>3, <1>5 DEF Right
<1>7. PICK t, K, M : t = turn /\ K = SoFar(pc) /\ M = {"ceilings"}
  OBVIOUS
<1>8. RightOfEach(M, new, t)
  BY <1>5, <1>6, <1>7 DEF RightOfEach, OneOfEach
<1> HIDE DEF new
<1>9. SoFar(pc') = K \cup M /\ M \cap K = {}
  BY <1>1, <1>7 DEF SoFar, Tables
<1>10. flags' = flags /\ turn' = t
  BY <1>1, <1>7
<1>11. /\ SectionsRight'
       /\ \A u \in 1 .. t - 1 : HasExactly(u, Fixed)'
       /\ HasExactly(t, K \cup M)'
       /\ \A kind, u : u # t \/ kind \notin M => Printed(kind, u)' = Printed(kind, u)
  BY <1>2, <1>4, <1>7, <1>8, <1>9, <1>10, PrintingStep
<1>12. Progress'
  BY <1>1, <1>9, <1>10, <1>11, ProgressAt
<1>13. StorageSettled'
  <2>1. (Projected' <=> Projected) /\ Turns' = Turns
    BY <1>10, RightFixed, FixedFlags
  <2>2. \A u : Printed("storage", u)' = Printed("storage", u)
    BY <1>7, <1>11
  <2>3. Printed("storage", t) # {} <=> Projected
    BY <1>1, <1>7 DEF SectionInv, StorageSettled
  <2>4. Printed("storage", turn)' = Printed("storage", t)'
    BY <1>10 DEF Printed
  <2>5. Printed("storage", turn)' # {} <=> Projected'
    BY <2>1, <2>2, <2>3, <2>4
  <2>6. \A u \in Turns' : Printed("ceilings", u)' # {} => (Printed("storage", u)' # {} <=> Projected')
    <3> SUFFICES ASSUME NEW u \in Turns', Printed("ceilings", u)' # {}
                 PROVE  Printed("storage", u)' # {} <=> Projected'
      OBVIOUS
    <3>1. CASE u = t
      BY <2>1, <2>2, <2>3, <3>1
    <3>2. CASE u # t
      <4>1. Printed("ceilings", u) # {}
        BY <1>11, <3>2
      <4>2. Printed("storage", u) # {} <=> Projected
        BY <2>1, <4>1 DEF SectionInv, StorageSettled
      <4> QED BY <2>1, <2>2, <4>2
    <3> QED BY <3>1, <3>2
  <2> QED BY <1>1, <2>5, <2>6 DEF StorageSettled
<1>14. OwnSizes' /\ GridInOrder'
  BY <1>1, <1>2, DataKept
<1>15. SameCounts(counts)'
  BY <1>1, RightFixed DEF SectionInv
<1> QED BY <1>11, <1>12, <1>13, <1>14, <1>15 DEF SectionInv

LEMMA ScanStep == IInv /\ SectionInv /\ Compare => SectionInv'
<1> SUFFICES ASSUME IInv, SectionInv, Compare PROVE SectionInv'
  OBVIOUS
<1>1. pc = "tightest" /\ UNCHANGED <<flags, counts, turn, pc, sizes, cell, ceilings, stdout>>
  BY DEF Compare
<1>2. Reporting /\ ~Ended
  BY <1>1 DEF Reporting, Labels, Ended
<1>3. SameCounts(counts)' /\ SectionsRight' /\ Progress' /\ StorageSettled'
  BY <1>1, <1>2, QuietStep DEF Ended
<1>4. OwnSizes' /\ GridInOrder'
  BY <1>1, <1>2, DataKept
<1> QED BY <1>3, <1>4 DEF SectionInv

(* What a report printed is right for its name.                            *)
LEMMA PrintedIsRight ==
  ASSUME SectionInv, NEW kind, NEW t, NEW d \in Printed(kind, t)
  PROVE  Right(kind, t, d)
<1>1. PICK s \in Range(stdout) : s.kind = kind /\ s.turn = t /\ s.data = d
  BY DEF Printed
<1> QED BY <1>1 DEF SectionInv, SectionsRight

(* At the end of the scan the best is the first of the least in the table. *)
LEMMA BestIsBinding ==
  ASSUME IInv, BindingInv, SectionInv, pc = "tightest", scan > Len(ceilings)
  PROVE  GridOf(turn, ceilings) /\ FirstOfFewest(ceilings, best)
<1>1. /\ ceilings \in Printed("ceilings", turn)
      /\ \A k \in 1 .. scan - 1 : best.maxValidators <= ceilings[k].maxValidators
      /\ BestIsFirst
  BY DEF BindingInv, BestSoFar
<1>2. GridOf(turn, ceilings)
  BY <1>1, PrintedIsRight DEF Right
<1>3. /\ Len(ceilings) \in Nat /\ DOMAIN ceilings = 1 .. Len(ceilings)
      /\ scan \in 2 .. Len(ceilings) + 1
  BY LenProperties DEF IInv, TypeOK
<1>4. scan - 1 = Len(ceilings)
  BY <1>3
<1>5. FirstOfFewest(ceilings, best)
  BY <1>1, <1>3, <1>4 DEF BestIsFirst, FirstOfFewest
<1> QED BY <1>2, <1>5

(* The closing lines complete a report, and the next name has none yet.    *)
LEMMA ClosingStep == IInv /\ BindingInv /\ SectionInv /\ PrintBinding => SectionInv'
<1> SUFFICES ASSUME IInv, BindingInv, SectionInv, PrintBinding PROVE SectionInv'
  OBVIOUS
<1>1. /\ pc = "tightest" /\ UNCHANGED <<flags, counts, sizes, cell, ceilings>>
      /\ scan > Len(ceilings)
      /\ stdout' = stdout \o <<Section("binding", best), Section("cost", RoundTripBytes(sizes))>>
      /\ IF turn < Len(flags.schemes)
         THEN turn' = turn + 1 /\ pc' = "lookup" ELSE turn' = turn /\ pc' = "exit 0"
  BY DEF PrintBinding, Goto
<1>2. /\ Reporting /\ ~Ended /\ flags \in Flags /\ StdoutOK /\ turn \in Nat \ {0}
      /\ flags.schemes[turn] \in SchemeNames /\ turn \in 1 .. Len(flags.schemes)
  <2>1. Reporting /\ ~Ended
    BY <1>1 DEF Reporting, Labels, Ended
  <2> QED BY <2>1, SectionState
<1> DEFINE a == Section("binding", best)
           b == Section("cost", RoundTripBytes(sizes))
           new == {a, b}
<1>3. Range(stdout') = Range(stdout) \cup new
  <2>1. "binding" \in Kinds /\ "cost" \in Kinds
    BY DEF Kinds
  <2>2. turn' \in Nat /\ turn <= turn'
    <3>1. turn' = turn + 1 \/ turn' = turn
      BY <1>1
    <3>2. turn \in Nat
      BY <1>2
    <3> QED BY <3>1, <3>2
  <2> QED BY <1>1, <1>2, <2>1, <2>2, EmitTwo
<1>4. /\ a.kind = "binding" /\ a.turn = turn /\ b.kind = "cost" /\ b.turn = turn
      /\ a.data = best /\ b.data = RoundTripBytes(sizes)
  BY DEF Section
<1> HIDE DEF a, b
<1>5. Right("binding", turn, a.data) /\ Right("cost", turn, b.data)
  <2>1. RoundTripBytes(sizes) = Cost(flags.schemes[turn])
    BY <1>2 DEF BindingInv, OwnCost
  <2>2. GridOf(turn, ceilings) /\ FirstOfFewest(ceilings, best)
    BY <1>1, BestIsBinding
  <2> QED BY <1>2, <1>4, <2>1, <2>2 DEF Right
<1>6. PICK t, K, M : t = turn /\ K = SoFar(pc) /\ M = {"binding", "cost"}
  OBVIOUS
<1>7. RightOfEach(M, new, t)
  BY <1>4, <1>5, <1>6 DEF RightOfEach, OneOfEach
<1> HIDE DEF new
<1>8. K \cup M = Fixed /\ M \cap K = {}
  BY <1>1, <1>6 DEF SoFar, Tables, Fixed, Kinds
<1>9. flags' = flags /\ t \in Nat \ {0}
  BY <1>1, <1>2, <1>6
<1>10. /\ SectionsRight'
       /\ \A u \in 1 .. t - 1 : HasExactly(u, Fixed)'
       /\ HasExactly(t, K \cup M)'
       /\ \A kind, u : u # t \/ kind \notin M => Printed(kind, u)' = Printed(kind, u)
  <2>1. ~Ended /\ flags' = flags /\ M \cap K = {}
    BY <1>2, <1>8, <1>9
  <2> QED BY <1>3, <1>6, <1>7, <2>1, PrintingStep
<1>11. HasExactly(t, Fixed)'
  <2>1. \A kind \in Fixed : IF kind \in K \cup M THEN Single(kind, t)' ELSE Printed(kind, t)' = {}
    BY <1>10 DEF HasExactly
  <2>2. \A kind \in Fixed : Single(kind, t)'
    BY <1>8, <2>1
  <2> QED BY <2>2 DEF HasExactly
<1>12. SameCounts(counts)' /\ ~Reporting'
  BY <1>1, RightFixed DEF SectionInv, Reporting
<1>13. \A u \in Turns' : Printed("ceilings", u)' # {} => (Printed("storage", u)' # {} <=> Projected')
  <2>1. (Projected' <=> Projected) /\ Turns' = Turns
    BY <1>9, RightFixed, FixedFlags
  <2>2. \A u : Printed("storage", u)' = Printed("storage", u)
               /\ Printed("ceilings", u)' = Printed("ceilings", u)
    BY <1>6, <1>10
  <2>3. \A u \in Turns : Printed("ceilings", u) # {} => (Printed("storage", u) # {} <=> Projected)
    BY DEF SectionInv, StorageSettled
  <2> QED BY <2>1, <2>2, <2>3
<1>14. CASE turn < Len(flags.schemes)
  <2>1. PICK v : v = t + 1
    OBVIOUS
  <2>2. turn' = v /\ pc' = "lookup" /\ v # t /\ v \in Nat /\ v > turn
    BY <1>1, <1>6, <1>9, <1>14, <2>1
  <2>3. \A kind : Printed(kind, v)' = {}
    <3>1. \A kind : Printed(kind, v) = {}
      BY <2>2, NothingAhead
    <3> QED BY <1>10, <2>2, <3>1
  <2>4. \A kind : Printed(kind, turn)' = {}
    BY <2>2, <2>3 DEF Printed
  <2>5. SoFar(pc') = {} /\ ~Ended'
    BY <2>2 DEF SoFar, Ended
  <2>6. HasExactly(turn, SoFar(pc))'
    BY <2>4, <2>5 DEF HasExactly
  <2>7. \A u \in 1 .. turn' - 1 : HasExactly(u, Fixed)'
    <3> SUFFICES ASSUME NEW u \in 1 .. turn' - 1 PROVE HasExactly(u, Fixed)'
      OBVIOUS
    <3>1. u = t \/ u \in 1 .. t - 1
      BY <1>9, <2>1, <2>2
    <3> QED BY <1>10, <1>11, <3>1
  <2>8. Progress'
    BY <2>2, <2>6, <2>7 DEF Progress, Ended
  <2>9. StorageSettled'
    BY <1>13, <2>2, <2>4 DEF StorageSettled
  <2> QED BY <1>10, <1>12, <2>8, <2>9 DEF SectionInv, OwnSizes, GridInOrder
<1>15. CASE ~(turn < Len(flags.schemes))
  <2>1. turn' = t /\ pc' = "exit 0" /\ turn' = Len(flags'.schemes)
    <3>1. Len(flags.schemes) \in Nat
      BY <1>2, FlagsShape
    <3>2. turn \in 1 .. Len(flags.schemes)
      BY <1>2
    <3>3. turn = Len(flags.schemes)
      BY <1>15, <3>1, <3>2
    <3> QED BY <1>1, <1>6, <1>9, <1>15, <3>3
  <2>2. HasExactly(turn, Fixed)'
    BY <1>11, <2>1 DEF HasExactly, Single, Printed
  <2>3. \A u \in 1 .. turn' - 1 : HasExactly(u, Fixed)'
    BY <1>10, <2>1
  <2>4. Progress'
    BY <2>1, <2>2, <2>3 DEF Progress, Ended
  <2>5. StorageSettled'
    BY <1>13, <2>1 DEF StorageSettled
  <2> QED BY <1>10, <1>12, <2>4, <2>5 DEF SectionInv, OwnSizes, GridInOrder
<1> QED BY <1>14, <1>15

LEMMA SectionNext == IInv /\ BindingInv /\ SectionInv /\ [Next]_vars => SectionInv'
<1> SUFFICES ASSUME IInv, BindingInv, SectionInv, [Next]_vars PROVE SectionInv'
  OBVIOUS
<1>1. CASE Lookup          BY <1>1, LookupStep
<1>2. CASE MeasureScheme   BY <1>2, MeasureStep
<1>3. CASE PrintSizes      BY <1>3, SizesStep
<1>4. CASE PrintBreakdown  BY <1>4, BreakdownStep
<1>5. CASE PrintStorage    BY <1>5, StorageStep
<1>6. CASE DeriveCell      BY <1>6, CellStep
<1>7. CASE PrintCeilings   BY <1>7, TableStep
<1>8. CASE Compare         BY <1>8, ScanStep
<1>9. CASE PrintBinding    BY <1>9, ClosingStep
<1>10. CASE UNCHANGED vars
  <2>1. UNCHANGED <<flags, counts, turn, pc, sizes, cell, ceilings, stdout>>
    BY <1>10 DEF vars
  <2>2. Ended' <=> Ended
    BY <2>1 DEF Ended
  <2>3. /\ \A kind, t : Printed(kind, t)' = Printed(kind, t)
        /\ \A kind : Printed(kind, turn)' = Printed(kind, turn)
    BY <2>1, PrintedSame DEF Printed
  <2>4. \A t : \A K : HasExactly(t, K) => HasExactly(t, K)'
    BY <2>3, HasKept
  <2>5. SectionsRight' /\ SameCounts(counts)'
    BY <2>1, RightFixed DEF SectionInv, SectionsRight
  <2>6. StorageSettled'
    <3>1. pc' = pc /\ flags' = flags /\ turn' = turn
      BY <2>1
    <3> QED BY <2>3, <3>1, StorageKept DEF SectionInv
  <2>7. OwnSizes' /\ GridInOrder'
    <3>1. CASE Reporting
      BY <2>1, <3>1, DataKept
    <3>2. CASE ~Reporting
      <4>1. ~Reporting'
        BY <2>1, <3>2 DEF Reporting
      <4> QED BY <4>1 DEF OwnSizes, GridInOrder
    <3> QED BY <3>1, <3>2
  <2>8. Progress'
    <3>1. Progress /\ turn' = turn /\ flags' = flags /\ pc' = pc
      BY <2>1 DEF SectionInv
    <3>2. \A K : HasExactly(turn, K) => HasExactly(turn, K)'
      BY <2>1, <2>3 DEF HasExactly, Single, Printed
    <3>3. \A t \in 1 .. turn' - 1 : HasExactly(t, Fixed)'
      BY <2>4, <3>1 DEF Progress
    <3>4. ~Ended' => HasExactly(turn, SoFar(pc))'
      <4>1. SoFar(pc)' = SoFar(pc)
        BY <2>1
      <4> SUFFICES ASSUME ~Ended PROVE HasExactly(turn, SoFar(pc))'
        BY <2>2
      <4>2. HasExactly(turn, SoFar(pc))
        BY <3>1 DEF Progress
      <4>3. \A kind \in Fixed :
               IF kind \in SoFar(pc)' THEN Single(kind, turn)' ELSE Printed(kind, turn)' = {}
        BY <2>3, <4>1, <4>2 DEF HasExactly, Single
      <4> QED BY <4>3 DEF HasExactly
    <3>5. pc' = "exit 0" => turn' = Len(flags'.schemes) /\ HasExactly(turn, Fixed)'
      <4>1. Fixed' = Fixed
        BY DEF Fixed
      <4> SUFFICES ASSUME pc = "exit 0"
                   PROVE  turn' = Len(flags'.schemes) /\ HasExactly(turn, Fixed)'
        BY <3>1
      <4>2. turn = Len(flags.schemes) /\ HasExactly(turn, Fixed)
        BY <3>1 DEF Progress
      <4>3. \A kind \in Fixed :
               IF kind \in Fixed THEN Single(kind, turn)' ELSE Printed(kind, turn)' = {}
        BY <2>3, <4>2 DEF HasExactly, Single
      <4> QED BY <3>1, <4>2, <4>3 DEF HasExactly
    <3>6. pc' = "exit 1" =>
            /\ Printed("cost", turn)' = {}
            /\ flags'.schemes[turn'] \notin SchemeNames => \A kind \in Kinds : Printed(kind, turn)' = {}
      BY <2>3, <3>1 DEF Progress
    <3> QED BY <3>3, <3>4, <3>5, <3>6 DEF Progress
  <2> QED BY <2>5, <2>6, <2>7, <2>8 DEF SectionInv
<1> QED BY <1>1, <1>2, <1>3, <1>4, <1>5, <1>6, <1>7, <1>8, <1>9, <1>10 DEF Next

(* Every section on standard output is right for its name, how many there  *)
(* are of each kind follows from the place the run has reached, and the    *)
(* shared slice holds the counts of the command line (main.go, 110-215).   *)
THEOREM SectionInvariant == Spec => []SectionInv
  BY SectionInit, SectionNext, ReportInvariant, BindingInvariant, PTL DEF Spec

-----------------------------------------------------------------------------
(* A whole report has one section of every kind that is always there.      *)
LEMMA ReportIsWhole ==
  ASSUME NEW t, HasExactly(t, Fixed)
  PROVE  WholeReport(t)
<1> SUFFICES ASSUME NEW kind \in Fixed PROVE Cardinality(Printed(kind, t)) = 1
  BY DEF WholeReport, Fixed
<1>1. PICK d : Printed(kind, t) = {d}
  BY DEF HasExactly, Single
<1> QED BY <1>1, FS_Singleton

(* The sections say what there is of each name.                            *)
LEMMA WholeReports == SectionInv => WholeReportsUpToFailure
<1> SUFFICES ASSUME SectionInv PROVE WholeReportsUpToFailure
  OBVIOUS
<1>1. \A t \in 1 .. turn - 1 : WholeReport(t)
  BY ReportIsWhole DEF SectionInv, Progress
<1>2. pc = "exit 0" => turn = Len(flags.schemes) /\ WholeReport(turn)
  BY ReportIsWhole DEF SectionInv, Progress
<1>3. ASSUME pc = "exit 1" PROVE ~WholeReport(turn)
  <2>1. Printed("cost", turn) = {}
    BY <1>3 DEF SectionInv, Progress
  <2>2. Cardinality(Printed("cost", turn)) = 0
    BY <2>1, FS_EmptySet
  <2>3. "cost" \in Kinds \ {"storage"}
    BY DEF Kinds
  <2> QED BY <2>2, <2>3 DEF WholeReport
<1>4. pc = "exit 1" =>
        (flags.schemes[turn] \notin SchemeNames => \A kind \in Kinds : Printed(kind, turn) = {})
  BY DEF SectionInv, Progress
<1> QED BY <1>1, <1>2, <1>3, <1>4 DEF WholeReportsUpToFailure

(***************************************************************************)
(* However the run ends, the names before the one it ended at have their   *)
(* whole reports, a failing one has not, and an unknown name has nothing   *)
(* (main.go, 110-128).                                                     *)
(***************************************************************************)
THEOREM ReportsAreWholeUpToFailure == Spec => []WholeReportsUpToFailure
BY WholeReports, SectionInvariant, PTL

(***************************************************************************)
(* Every name's ceiling table has a row per combination, in the order of   *)
(* the flags and from this name's own sizes, and the closing line adds up  *)
(* the same two (main.go, 184-214).                                        *)
(***************************************************************************)
THEOREM FiguresAreTheSchemesOwn == Spec => []FiguresOfOwnScheme
<1>1. SectionInv => FiguresOfOwnScheme
  <2> SUFFICES ASSUME SectionInv, NEW t \in Turns
               PROVE  LET cost == RoundTripBytes(MeasureSizes(SchemeOf(t), <<>>))
                      IN  /\ \A s \in Printed("cost", t) : s = cost
                          /\ \A rows \in Printed("ceilings", t) :
                               /\ Len(rows) = Cardinality(Cells)
                               /\ \A c \in Cells :
                                    rows[Row(c)] = DeriveCeiling(flags.arch, cost, BudgetAt(c))
    BY DEF FiguresOfOwnScheme
  <2>1. RoundTripBytes(MeasureSizes(SchemeOf(t), <<>>)) = Cost(flags.schemes[t])
    BY DEF Cost, SchemeOf
  <2>2. \A s \in Printed("cost", t) : s = Cost(flags.schemes[t])
    BY PrintedIsRight DEF Right
  <2>3. \A rows \in Printed("ceilings", t) : GridOf(t, rows)
    BY PrintedIsRight DEF Right
  <2> QED BY <2>1, <2>2, <2>3 DEF GridOf, RowOf
<1> QED BY <1>1, SectionInvariant, PTL

(* The rows of a commit table, one by one.                                 *)
LEMMA CommitRowsOf ==
  ASSUME NEW t, flags.schemes[t] \in SchemeNames, NEW rows, CommitsOf(t, rows)
  PROVE  LET column == [k \in DOMAIN rows |-> rows[k][1]]
         IN  /\ DOMAIN rows = DOMAIN column /\ Len(rows) = Len(column)
             /\ \A k \in DOMAIN rows :
                  /\ rows[k] = <<rows[k][1], commitBytes(rows[k][1], SigOf(t))>>
                  /\ rows[k][1] \in Nat \ {0}
             /\ \A n : n \in Range(flags.counts) <=> \E k \in DOMAIN rows : rows[k][1] = n
<1> DEFINE column == [k \in DOMAIN rows |-> rows[k][1]]
<1>1. /\ SameCounts(column)
      /\ rows = [k \in DOMAIN column |-> <<column[k], commitBytes(column[k], SigOf(t))>>]
  BY DEF CommitsOf
<1>2. DOMAIN column = DOMAIN rows /\ \A k \in DOMAIN rows : column[k] = rows[k][1]
  OBVIOUS
<1> HIDE DEF column
<1>3. /\ column \in Seq(Nat \ {0}) /\ Range(column) = Range(flags.counts)
      /\ DOMAIN column = 1 .. Len(column) /\ Len(column) \in Nat
  BY <1>1, LenProperties DEF SameCounts
<1>4. Len(rows) = Len(column)
  <2> DEFINE L == Len(column)
             row(k) == <<column[k], commitBytes(column[k], SigOf(t))>>
  <2>1. rows = [k \in 1 .. L |-> row(k)] /\ L \in Nat
    BY <1>1, <1>3
  <2> HIDE DEF L, row
  <2> QED BY <2>1 DEF L
<1>5. \A k \in DOMAIN rows : column[k] \in Nat \ {0}
  BY <1>2, <1>3, ElementOfSeq
<1>6. \A k \in DOMAIN rows : rows[k] = <<column[k], commitBytes(column[k], SigOf(t))>>
  BY <1>1, <1>2
<1>7. \A n : n \in Range(flags.counts) <=> \E k \in DOMAIN rows : column[k] = n
  BY <1>2, <1>3 DEF Range
<1>8. /\ \A k \in DOMAIN rows :
           /\ rows[k] = <<rows[k][1], commitBytes(rows[k][1], SigOf(t))>>
           /\ rows[k][1] \in Nat \ {0}
      /\ \A n : n \in Range(flags.counts) <=> \E k \in DOMAIN rows : rows[k][1] = n
  BY <1>2, <1>5, <1>6, <1>7
<1> QED BY <1>2, <1>4, <1>8 DEF column

(***************************************************************************)
(* Every commit table lists the counts of the command line in ascending    *)
(* order, whatever earlier reports did to the shared slice, and beyond the *)
(* fixed part the sizes grow in proportion (main.go, 157-164).             *)
(***************************************************************************)
THEOREM CommitTablesGrow == Spec => []CommitTableGrowsWithTheSet
<1>1. TypeOK /\ SectionInv => CommitTableGrowsWithTheSet
  <2> SUFFICES ASSUME TypeOK, SectionInv, NEW t \in Turns, NEW rows \in Printed("commits", t)
               PROVE  LET shared == commitBytes(0, SchemeOf(t).sigBytes)
                          Occurrences(n, s) == Cardinality({k \in DOMAIN s : s[k] = n})
                          column == [k \in DOMAIN rows |-> rows[k][1]]
                      IN  /\ Ascending(column)
                          /\ Len(rows) = Len(flags.counts)
                          /\ \A n \in Range(flags.counts) :
                               Occurrences(n, column) = Occurrences(n, flags.counts)
                          /\ \A j, k \in DOMAIN rows :
                               /\ (rows[j][2] - shared) * rows[k][1] = (rows[k][2] - shared) * rows[j][1]
                               /\ rows[k][2] > rows[k][1] * SchemeOf(t).sigBytes
    BY DEF CommitTableGrowsWithTheSet
  <2> DEFINE sig    == SigOf(t)
             shared == commitBytes(0, sig)
             each   == MessageField(CommitSig(sig))
             column == [k \in DOMAIN rows |-> rows[k][1]]
  <2>1. flags.schemes[t] \in SchemeNames /\ CommitsOf(t, rows)
    BY PrintedIsRight DEF Right
  <2>2. SameCounts(column) /\ Ascending(column)
    BY <2>1 DEF CommitsOf
  <2>3. /\ Len(rows) = Len(column)
        /\ \A k \in DOMAIN rows :
             /\ rows[k] = <<rows[k][1], commitBytes(rows[k][1], sig)>>
             /\ rows[k][1] \in Nat \ {0}
    BY <2>1, CommitRowsOf
  <2> HIDE DEF column
  <2>4. sig \in Nat
    BY <2>1, LookupType DEF SigOf, SchemeOf
  <2>5. /\ shared \in Nat /\ each \in Nat
        /\ \A n \in Nat : commitBytes(n, sig) = shared + n * each /\ commitBytes(n, sig) > n * sig
    <3> HIDE DEF sig
    <3> QED BY <2>4, CommitIsProportional
  <2> HIDE DEF shared, each, sig
  <2>6. ASSUME NEW j \in DOMAIN rows, NEW k \in DOMAIN rows
        PROVE  /\ (rows[j][2] - shared) * rows[k][1] = (rows[k][2] - shared) * rows[j][1]
               /\ rows[k][2] > rows[k][1] * sig
    <3>1. PICK m \in Nat, n \in Nat : m = rows[j][1] /\ n = rows[k][1]
      BY <2>3
    <3>2. rows[j][2] = commitBytes(m, sig) /\ rows[k][2] = commitBytes(n, sig)
      BY <2>3, <3>1
    <3>3. PICK x, y : x = rows[j][2] /\ y = rows[k][2]
      OBVIOUS
    <3>4. x = shared + m * each /\ y = shared + n * each /\ y > n * sig
      BY <2>5, <3>2, <3>3
    <3>5. x - shared = m * each /\ y - shared = n * each
      <4>1. m * each \in Int /\ n * each \in Int
        BY <2>5
      <4> QED BY <2>5, <3>4, <4>1
    <3>6. (m * each) * n = (n * each) * m
      BY <2>5
    <3>7. (x - shared) * n = (y - shared) * m
      BY <3>5, <3>6
    <3> QED BY <3>1, <3>3, <3>4, <3>7
  <2>7. Len(column) = Len(flags.counts)
        /\ \A n : Count({n}, column) = Count({n}, flags.counts)
    BY <2>2 DEF SameCounts
  <2>8. SchemeOf(t).sigBytes = sig
    BY DEF sig, SigOf
  <2>9. ASSUME NEW n
        PROVE  Cardinality({k \in DOMAIN column : column[k] = n})
                 = Cardinality({k \in DOMAIN flags.counts : flags.counts[k] = n})
    <3>1. \A r : {k \in DOMAIN r : r[k] \in {n}} = {k \in DOMAIN r : r[k] = n}
      OBVIOUS
    <3>2. Count({n}, column) = Count({n}, flags.counts)
      BY <2>7
    <3> QED BY <3>1, <3>2 DEF Count
  <2> QED BY <2>2, <2>3, <2>6, <2>7, <2>8, <2>9 DEF column, shared
<1> QED BY <1>1, TypeCorrect, SectionInvariant, PTL

(***************************************************************************)
(* The parts of every breakdown add up to the precommit of the vote table  *)
(* above it, and each part is what it is called (breakdown.go, 27-76).     *)
(***************************************************************************)
THEOREM BreakdownsMatchTheVotes == Spec => []BreakdownMatchesVoteTable
<1>1. SectionInv => BreakdownMatchesVoteTable
  <2> SUFFICES ASSUME SectionInv, NEW t \in Turns, NEW parts \in Printed("breakdown", t),
                      NEW votes \in Printed("votes", t)
               PROVE  /\ parts.total = votes.precommitBlock
                      /\ parts.signature + parts.blockID + parts.address + parts.rest = parts.total
                      /\ parts.signature - SchemeOf(t).sigBytes \in 1 .. 5
                      /\ parts.blockID = votes.precommitBlock - votes.precommitNil
                      /\ parts.address > AddressWidth
                      /\ parts.rest > 0
    BY DEF BreakdownMatchesVoteTable
  <2>1. flags.schemes[t] \in SchemeNames /\ parts = Breakdown(SchemeOf(t))
    BY PrintedIsRight DEF Right
  <2>2. votes = MeasureSizes(SchemeOf(t), flags.counts)
    BY PrintedIsRight DEF Right
  <2> QED BY <2>1, <2>2, BreakdownParts DEF SchemeOf
<1> QED BY <1>1, SectionInvariant, PTL

(***************************************************************************)
(* The storage line is about a row of the commit table of the same report, *)
(* and it is there exactly when there is such a row (main.go, 178-182).    *)
(***************************************************************************)
THEOREM StorageIsOfTheTable == Spec => []StorageMatchesCommitTable
<1>1. SectionInv => StorageMatchesCommitTable
  <2> SUFFICES ASSUME SectionInv, NEW t \in Turns, NEW rows \in Printed("commits", t)
               PROVE  /\ \A line \in Printed("storage", t) :
                           \E k \in DOMAIN rows : line = <<rows[k][1], BytesPerYear(rows[k][2])>>
                      /\ Printed("ceilings", t) # {} =>
                           (Printed("storage", t) # {} <=>
                              \E k \in DOMAIN rows : rows[k][1] = flags.storageVals)
    BY DEF StorageMatchesCommitTable
  <2>1. flags.schemes[t] \in SchemeNames /\ CommitsOf(t, rows)
    BY PrintedIsRight DEF Right
  <2>2. /\ \A k \in DOMAIN rows : rows[k] = <<rows[k][1], commitBytes(rows[k][1], SigOf(t))>>
        /\ \A n : n \in Range(flags.counts) <=> \E k \in DOMAIN rows : rows[k][1] = n
    BY <2>1, CommitRowsOf
  <2>3. Projected <=> \E k \in DOMAIN rows : rows[k][1] = flags.storageVals
    BY <2>2 DEF Projected
  <2>4. ASSUME NEW line \in Printed("storage", t)
        PROVE  \E k \in DOMAIN rows : line = <<rows[k][1], BytesPerYear(rows[k][2])>>
    <3>1. /\ Projected
          /\ line = <<flags.storageVals, BytesPerYear(commitBytes(flags.storageVals, SigOf(t)))>>
      BY PrintedIsRight DEF Right
    <3>2. PICK k \in DOMAIN rows : rows[k][1] = flags.storageVals
      BY <2>3, <3>1
    <3>3. rows[k][2] = commitBytes(flags.storageVals, SigOf(t))
      BY <2>2, <3>2
    <3> QED BY <3>1, <3>2, <3>3
  <2>5. Printed("ceilings", t) # {} => (Printed("storage", t) # {} <=> Projected)
    BY DEF SectionInv, StorageSettled
  <2> QED BY <2>3, <2>4, <2>5
<1> QED BY <1>1, SectionInvariant, PTL

-----------------------------------------------------------------------------
(***************************************************************************)
(* The refinement.  What the promise computes with is what Report computes *)
(* with, under other names.                                                *)
(***************************************************************************)
LEMMA SameArithmetic ==
  /\ \A x : Promise!Wrap(x) = Wrap(x)
  /\ \A a, b : Promise!Quo(a, b) = Quo(a, b)
  /\ \A arch, f : Promise!FloatToInt(arch, f) = FloatToInt(arch, f)
<1>1. \A x : Promise!Wrap(x) = Wrap(x)
  BY DEF Promise!Wrap, Wrap
<1>2. \A a, b : Promise!Quo(a, b) = Quo(a, b)
  BY DEF Promise!Quo, Quo, Promise!AbsVal, AbsVal
<1>3. \A arch, f : Promise!FloatToInt(arch, f) = FloatToInt(arch, f)
  BY <1>2 DEF Promise!FloatToInt, FloatToInt, Promise!NaNToInt, NaNToInt, Promise!OutOfRange,
     OutOfRange, Promise!Int64, Int64, Promise!MinInt, MinInt
<1> QED BY <1>1, <1>2, <1>3

(* Its sets are as large.                                                  *)
LEMMA SameCardinality == \A S : Promise!Cardinality(S) = Cardinality(S)
BY DEF Promise!Cardinality, Cardinality, Promise!IsFiniteSet, IsFiniteSet

(* Its ceilings are derived in the same way.                               *)
LEMMA SameCeilings ==
  \A arch, cost, b : Promise!DeriveCeiling(arch, cost, b) = DeriveCeiling(arch, cost, b)
BY SameArithmetic DEF Promise!DeriveCeiling, DeriveCeiling, Promise!perValidator, perValidator, Promise!BudgetBytes,
  BudgetBytes, Promise!Quotient, Quotient, Promise!ClampToSearch, ClampToSearch, Promise!BeyondSearch, BeyondSearch

(* Its votes, commits and parts of a vote are the same.                    *)
LEMMA SameMeasures ==
  /\ Promise!SchemeNames = SchemeNames /\ \A name : Promise!lookupScheme(name) = lookupScheme(name)
  /\ \A s : Promise!Range(s) = Range(s)
  /\ \A n, sig : Promise!commitBytes(n, sig) = commitBytes(n, sig)
  /\ \A s, ns : Promise!MeasureSizes(s, ns) = MeasureSizes(s, ns)
  /\ \A m : Promise!RoundTripBytes(m) = RoundTripBytes(m)
  /\ \A s : Promise!Breakdown(s) = Breakdown(s)
<1>1. Promise!schemes = schemes
  BY DEF Promise!schemes, schemes, Promise!Scheme, Scheme
<1>2. Promise!SchemeNames = SchemeNames
  BY <1>1 DEF Promise!SchemeNames, SchemeNames
<1>3. \A name : Promise!lookupScheme(name) = lookupScheme(name)
  BY <1>1 DEF Promise!lookupScheme, lookupScheme
<1>4. \A s : Promise!Range(s) = Range(s)
  BY DEF Promise!Range, Range
<1>5. \A n : Promise!varintLen(n) = varintLen(n)
  BY SameCardinality DEF Promise!varintLen, varintLen, Promise!varintSteps, varintSteps
<1>6. /\ \A n : Promise!VarintField(n) = VarintField(n)
      /\ \A n : Promise!BytesField(n) = BytesField(n)
      /\ \A n : Promise!MessageField(n) = MessageField(n)
  BY <1>5 DEF Promise!VarintField, VarintField, Promise!BytesField, BytesField,
     Promise!MessageField, MessageField
<1>7. /\ Promise!fixedTimestamp = fixedTimestamp
      /\ Promise!sampleBlockID = sampleBlockID /\ Promise!emptyBlockID = emptyBlockID
  BY <1>6 DEF Promise!fixedTimestamp, fixedTimestamp, Promise!sampleBlockID, sampleBlockID,
     Promise!emptyBlockID, emptyBlockID, Promise!BlockID, BlockID,
     Promise!PartSetHeader, PartSetHeader, Promise!DigestBytes, DigestBytes
<1>8. \A type, id, address, sig : Promise!Vote(type, id, address, sig) = Vote(type, id, address, sig)
  BY <1>6, <1>7 DEF Promise!Vote, Vote, Promise!Height, Height
<1>9. \A type, block, sig : Promise!voteBytes(type, block, sig) = voteBytes(type, block, sig)
  BY <1>7, <1>8 DEF Promise!voteBytes, voteBytes, Promise!AddressWidth, AddressWidth
<1>10. \A n, sig : Promise!commitBytes(n, sig) = commitBytes(n, sig)
  BY <1>6, <1>7 DEF Promise!commitBytes, commitBytes, Promise!CommitSig, CommitSig,
     Promise!Height, Height, Promise!AddressWidth, AddressWidth
<1>11. \A s, ns : Promise!MeasureSizes(s, ns) = MeasureSizes(s, ns)
  <2> TAKE s, ns
  <2>1. [n \in Promise!Range(ns) |-> Promise!commitBytes(n, s.sigBytes)]
          = [n \in Range(ns) |-> commitBytes(n, s.sigBytes)]
    BY <1>4, <1>10
  <2> QED BY <1>9, <2>1 DEF Promise!MeasureSizes, MeasureSizes, Promise!PrevoteType, PrevoteType,
     Promise!PrecommitType, PrecommitType
<1>12. \A m : Promise!RoundTripBytes(m) = RoundTripBytes(m)
  BY DEF Promise!RoundTripBytes, RoundTripBytes
<1>13. \A s : Promise!Breakdown(s) = Breakdown(s)
  BY <1>7, <1>8 DEF Promise!Breakdown, Breakdown, Promise!Build, Build,
     Promise!PrecommitType, PrecommitType, Promise!AddressWidth, AddressWidth
<1> QED BY <1>2, <1>3, <1>4, <1>10, <1>11, <1>12, <1>13

-----------------------------------------------------------------------------
(* Dividing by one factor after the other is dividing by the product.      *)
LEMMA DivideTwice ==
  ASSUME NEW m \in Int, NEW R \in Nat \ {0}, NEW P \in Nat \ {0}
  PROVE  m \div (R * P) = (m \div P) \div R
<1> DEFINE d == R * P
           q == m \div P
           a == m \div d
           b == q \div R
<1>1. d \in Nat \ {0} /\ q \in Int
  BY DivBounds
<1>2. a \in Int /\ b \in Int
  <2> HIDE DEF d, q
  <2> QED BY <1>1, DivBounds
<1>3. ASSUME NEW n \in Int PROVE n <= a <=> n <= b
  <2>1. n * d = (n * R) * P /\ n * R \in Int
    OBVIOUS
  <2>2. n <= a <=> n * d <= m
    <3> HIDE DEF d
    <3> QED BY <1>1, DivisionInverts
  <2>3. (n * R) <= q <=> (n * R) * P <= m
    BY <2>1, DivisionInverts
  <2>4. n <= b <=> n * R <= q
    <3> HIDE DEF q
    <3> QED BY <1>1, DivisionInverts
  <2> QED BY <2>1, <2>2, <2>3, <2>4
<1> HIDE DEF a, b
<1>4. a <= b /\ b <= a
  BY <1>2, <1>3
<1>5. a = b
  BY <1>2, <1>4
<1> QED BY <1>5 DEF a, b, d, q

(* The combination of a row: peers vary fastest and links slowest.         *)
CellOfRow(k) ==
  LET p == Len(flags.peers)
      r == Len(flags.rounds)
  IN  <<(k - 1) \div (r * p) + 1, (((k - 1) \div p) % r) + 1, ((k - 1) % p) + 1>>

LEMMA RowsHaveCells ==
  ASSUME flags \in Flags,
         NEW k \in 1 .. Len(flags.links) * Len(flags.rounds) * Len(flags.peers)
  PROVE  CellOfRow(k) \in Cells /\ Row(CellOfRow(k)) = k
<1> DEFINE L == Len(flags.links)  R == Len(flags.rounds)  P == Len(flags.peers)
           m == k - 1
           q == m \div P
           a == m \div (R * P)
           b == q % R
           d == m % P
<1>1. L \in Nat \ {0} /\ R \in Nat \ {0} /\ P \in Nat \ {0}
      /\ Cells = (1 .. L) \X (1 .. R) \X (1 .. P)
  BY GridShape
<1>2. CellOfRow(k) = <<a + 1, b + 1, d + 1>>
  BY DEF CellOfRow
<1>3. k \in 1 .. (L * R) * P
  OBVIOUS
<1>4. \A x, y, z : Row(<<x, y, z>>) = ((x - 1) * R + y - 1) * P + z
  BY DEF Row
<1> HIDE DEF L, R, P
<1>5. L * R \in Nat /\ (L * R) * P \in Nat
  <2>1. L * R \in Nat
    BY <1>1
  <2> DEFINE LR == L * R
  <2> HIDE DEF LR
  <2>2. LR \in Nat
    BY <2>1 DEF LR
  <2>3. LR * P \in Nat
    BY <1>1, <2>2
  <2> QED BY <2>1, <2>3 DEF LR
<1>6. m \in Nat /\ m < (L * R) * P /\ k \in Int
  BY <1>3, <1>5
<1> HIDE DEF m
<1>7. q \in Int /\ d \in 0 .. P - 1 /\ m = q * P + d
  BY <1>1, <1>6, DivBounds, ModBounds
<1>8. a = q \div R
  <2>1. m \in Int
    BY <1>6
  <2>2. m \div (R * P) = (m \div P) \div R
    BY <1>1, <2>1, DivideTwice, Zenon
  <2> QED BY <2>2 DEF q
<1> HIDE DEF q, d
<1>9. b \in 0 .. R - 1 /\ q \div R \in Int /\ q = (q \div R) * R + b
  BY <1>1, <1>7, DivBounds, ModBounds
<1> HIDE DEF a, b
<1>10. a \in Int /\ q = a * R + b
  BY <1>8, <1>9
<1>11. 0 <= q /\ 0 <= a
  <2>1. 0 <= q
    <3>1. 0 * P <= m
      BY <1>1, <1>6
    <3> QED BY <1>1, <1>6, <3>1, DivisionInverts DEF q
  <2>2. 0 * R <= q
    BY <1>1, <2>1
  <2> QED BY <1>1, <1>7, <1>8, <2>1, <2>2, DivisionInverts
<1>12. a < L
  <2> SUFFICES ASSUME L <= a PROVE FALSE
    BY <1>1, <1>10
  <2>1. L * R <= q
    BY <1>1, <1>7, <1>8, DivisionInverts
  <2>2. (L * R) * P <= m
    BY <1>1, <1>5, <1>6, <2>1, DivisionInverts DEF q
  <2> QED BY <1>5, <1>6, <2>2
<1>13. <<a + 1, b + 1, d + 1>> \in Cells
  BY <1>1, <1>7, <1>9, <1>10, <1>11, <1>12
<1>14. Row(<<a + 1, b + 1, d + 1>>) = k
  <2>1. a + 1 - 1 = a
    BY <1>10
  <2>2. a * R + (b + 1) - 1 = q
    <3>1. a * R \in Int /\ b \in Int
      BY <1>1, <1>9, <1>10
    <3> QED BY <1>10, <3>1
  <2>3. Row(<<a + 1, b + 1, d + 1>>) = q * P + (d + 1)
    <3>1. PICK x, y, z : x = a + 1 /\ y = b + 1 /\ z = d + 1
      OBVIOUS
    <3>2. Row(<<x, y, z>>) = ((x - 1) * R + y - 1) * P + z
      BY <1>4, ZenonT(40)
    <3>3. <<x, y, z>> = <<a + 1, b + 1, d + 1>> /\ x - 1 = a
      BY <1>10, <2>1, <3>1, SMTT(30)
    <3>4. (x - 1) * R + y - 1 = q
      <4>1. y - 1 = b /\ y = b + 1
        BY <1>9, <3>1
      <4> QED BY <2>2, <3>3, <4>1
    <3> QED BY <3>1, <3>2, <3>3, <3>4
  <2>4. q * P \in Int /\ d \in Int
    BY <1>1, <1>7
  <2>5. q * P + (d + 1) = m + 1
    BY <1>7, <2>4
  <2> QED BY <1>6, <2>3, <2>5 DEF m
<1> QED BY <1>2, <1>13, <1>14

(* The nested loops go through the rows the promise counts.                *)
LEMMA GridAsPromised ==
  ASSUME flags \in Flags, NEW t, NEW rows, GridOf(t, rows)
  PROVE  rows = Promise!CeilingTable(SchemeOf(t))
<1> DEFINE L == Len(flags.links)  R == Len(flags.rounds)  P == Len(flags.peers)
           N == L * R * P
<1>1. /\ rows \in Seq(CeilingSet) /\ Len(rows) = Cardinality(Cells)
      /\ \A c \in Cells : rows[Row(c)] = RowOf(t, c)
  BY DEF GridOf
<1>2. Cardinality(Cells) = N
  BY GridCardinality
<1>3. rows = [k \in 1 .. N |-> rows[k]]
  BY <1>1, <1>2, LenProperties
<1>4. ASSUME NEW k \in 1 .. N
      PROVE  rows[k] = Promise!DeriveCeiling(flags.arch,
               Promise!RoundTripBytes(Promise!MeasureSizes(SchemeOf(t), <<>>)), Promise!BudgetOfRow(k))
  <2>1. CellOfRow(k) \in Cells /\ Row(CellOfRow(k)) = k
    BY RowsHaveCells
  <2>2. rows[k] = RowOf(t, CellOfRow(k))
    BY <1>1, <2>1
  <2>3. BudgetAt(CellOfRow(k)) = Promise!BudgetOfRow(k)
    BY DEF BudgetAt, CellOfRow, Promise!BudgetOfRow
  <2> QED BY <2>2, <2>3, SameCeilings, SameMeasures DEF RowOf, Cost, SchemeOf
<1> QED BY <1>3, <1>4 DEF Promise!CeilingTable

-----------------------------------------------------------------------------
Below(n)  == {x \in Nat : x < n}
AtMost(n) == {x \in Nat : x <= n}

(* The value n stands at the k-th place of an ascending rearrangement.     *)
HasRank(s, n, k) == Count(Below(n), s) < k /\ k <= Count(AtMost(n), s)

(* Some value stands at each place of a sorted column: the one there.      *)
LEMMA RankInColumn ==
  ASSUME NEW s \in Seq(Nat), Ascending(s), NEW k \in DOMAIN s
  PROVE  HasRank(s, s[k], k)
<1>1. DOMAIN s = 1 .. Len(s) /\ Len(s) \in Nat /\ k \in Nat \ {0}
  BY LenProperties
<1>2. \A j \in DOMAIN s : s[j] \in Nat /\ j \in Int
  BY <1>1, ElementOfSeq
<1> DEFINE A == {j \in DOMAIN s : s[j] \in Below(s[k])}
           B == {j \in DOMAIN s : s[j] \in AtMost(s[k])}
<1>3. A \subseteq 1 .. k - 1
  <2>1. ASSUME NEW j \in A, k <= j PROVE FALSE
    <3>1. s[k] <= s[j] /\ s[j] < s[k]
      BY <2>1 DEF Ascending, Below
    <3> QED BY <1>2, <3>1
  <2> QED BY <1>1, <1>2, <2>1
<1>4. 1 .. k \subseteq B
  <2>1. ASSUME NEW j \in 1 .. k PROVE j \in B
    <3>1. j \in DOMAIN s /\ j <= k
      BY <1>1
    <3>2. s[j] <= s[k]
      BY <3>1 DEF Ascending
    <3> QED BY <1>2, <3>1, <3>2 DEF AtMost
  <2> QED BY <2>1
<1>5. IsFiniteSet(B) /\ Cardinality(A) \in Nat /\ Cardinality(B) \in Nat
  <2>1. A \in SUBSET DOMAIN s /\ B \in SUBSET DOMAIN s
    OBVIOUS
  <2> HIDE DEF A, B
  <2> QED BY <2>1, PlacesFinite
<1>6. Cardinality(A) <= k - 1
  <2>1. IsFiniteSet(1 .. k - 1) /\ Cardinality(1 .. k - 1) = k - 1
    <3>1. 1 \in Int /\ k - 1 \in Int /\ (k - 1) - 1 + 1 = k - 1
      BY <1>1
    <3>2. IsFiniteSet(1 .. k - 1)
          /\ Cardinality(1 .. k - 1) = IF 1 > k - 1 THEN 0 ELSE k - 1 - 1 + 1
      BY <3>1, FS_Interval
    <3> QED BY <1>1, <3>2
  <2> HIDE DEF A
  <2> QED BY <1>3, <2>1, FS_Subset, ZenonT(30)
<1>7. k <= Cardinality(B)
  <2>1. Cardinality(1 .. k) = k
    <3>1. 1 \in Int /\ k \in Int
      BY <1>1
    <3>2. Cardinality(1 .. k) = IF 1 > k THEN 0 ELSE k - 1 + 1
      BY <3>1, FS_Interval
    <3> QED BY <1>1, <3>2
  <2> HIDE DEF B
  <2> QED BY <1>4, <1>5, <2>1, FS_Subset
<1>8. Count(Below(s[k]), s) = Cardinality(A) /\ Count(AtMost(s[k]), s) = Cardinality(B)
  BY DEF Count
<1> HIDE DEF A, B
<1>9. Cardinality(A) < k
  BY <1>1, <1>5, <1>6
<1> QED BY <1>7, <1>8, <1>9 DEF HasRank

(* No place has two values.                                                *)
LEMMA RankIsUnique ==
  ASSUME NEW s \in Seq(Nat), NEW k \in Int, NEW n \in Nat, NEW m \in Nat,
         HasRank(s, n, k), HasRank(s, m, k)
  PROVE  n = m
<1>1. ASSUME NEW x \in Nat, NEW y \in Nat, HasRank(s, x, k), HasRank(s, y, k), x < y
      PROVE  FALSE
  <2> DEFINE A == {j \in DOMAIN s : s[j] \in AtMost(x)}
             B == {j \in DOMAIN s : s[j] \in Below(y)}
  <2>1. A \subseteq B
    <3>1. AtMost(x) \subseteq Below(y)
      BY <1>1 DEF AtMost, Below
    <3> QED BY <3>1
  <2>2. Count(AtMost(x), s) = Cardinality(A) /\ Count(Below(y), s) = Cardinality(B)
    BY DEF Count
  <2>3. A \in SUBSET DOMAIN s /\ B \in SUBSET DOMAIN s
    OBVIOUS
  <2> HIDE DEF A, B
  <2>4. IsFiniteSet(B) /\ Cardinality(A) \in Nat /\ Cardinality(B) \in Nat
    BY <2>3, PlacesFinite
  <2>5. Cardinality(A) <= Cardinality(B)
    BY <2>1, <2>4, FS_Subset
  <2>6. k <= Cardinality(A) /\ Cardinality(B) < k
    BY <1>1, <2>2 DEF HasRank
  <2> QED BY <2>4, <2>5, <2>6
<1>2. ~(n < m) /\ ~(m < n)
  BY <1>1
<1> QED BY <1>2

(* The promise's k-th smallest count is the one sorting puts at place k.   *)
LEMMA RankedInColumn ==
  ASSUME flags \in Flags, NEW ns, SameCounts(ns), Ascending(ns), NEW k \in DOMAIN ns
  PROVE  Promise!Ranked(flags.counts, k) = ns[k]
<1> DEFINE s == flags.counts
           Q(n) == /\ Promise!Cardinality({j \in DOMAIN s : s[j] < n}) < k
                   /\ k <= Promise!Cardinality({j \in DOMAIN s : s[j] <= n})
<1>1. s \in Seq(Nat) /\ ns \in Seq(Nat)
  <2>1. s \in Seq(Nat \ {0}) /\ ns \in Seq(Nat \ {0})
    BY FlagsAssumption DEF FlagSet, SameCounts
  <2> HIDE DEF s
  <2> QED BY <2>1
<1>2. k \in Int /\ ns[k] \in Nat
  BY <1>1, LenProperties, ElementOfSeq
<1>3. \A j \in DOMAIN s : s[j] \in Nat
  BY <1>1, LenProperties, ElementOfSeq
<1>4. Range(s) \subseteq Nat
  BY <1>3 DEF Range
<1>5. ns[k] \in Range(s)
  <2>1. ns[k] \in Range(ns)
    BY DEF Range
  <2> QED BY <2>1 DEF SameCounts
<1> HIDE DEF s
<1>6. ASSUME NEW n \in Nat PROVE Q(n) <=> HasRank(s, n, k)
  <2>1. {j \in DOMAIN s : s[j] < n} = {j \in DOMAIN s : s[j] \in Below(n)}
    BY <1>3 DEF Below
  <2>2. {j \in DOMAIN s : s[j] <= n} = {j \in DOMAIN s : s[j] \in AtMost(n)}
    BY <1>3 DEF AtMost
  <2> QED BY <2>1, <2>2, SameCardinality DEF HasRank, Count
<1>7. Promise!Ranked(s, k) = CHOOSE n \in Range(s) : Q(n)
  BY SameMeasures DEF Promise!Ranked
<1> HIDE DEF Q
<1>8. HasRank(s, ns[k], k)
  <2>1. HasRank(ns, ns[k], k)
    BY <1>1, RankInColumn
  <2> QED BY <2>1 DEF SameCounts, HasRank, s
<1>9. Q(ns[k])
  BY <1>2, <1>6, <1>8
<1> DEFINE v == CHOOSE n \in Range(s) : Q(n)
<1>10. v \in Range(s) /\ Q(v)
  BY <1>5, <1>9
<1> HIDE DEF v
<1>11. v \in Nat /\ HasRank(s, v, k)
  BY <1>4, <1>6, <1>10
<1>12. v = ns[k]
  BY <1>1, <1>2, <1>8, <1>11, RankIsUnique
<1> QED BY <1>7, <1>12 DEF v, s

(* Sorting in place gives the commit table the promise counts out.         *)
LEMMA CommitsAsPromised ==
  ASSUME flags \in Flags, NEW t, NEW rows, CommitsOf(t, rows)
  PROVE  rows = Promise!CommitTable(SchemeOf(t))
<1> DEFINE column == [k \in DOMAIN rows |-> rows[k][1]]
<1>1. /\ SameCounts(column) /\ Ascending(column)
      /\ rows = [k \in DOMAIN column |-> <<column[k], commitBytes(column[k], SigOf(t))>>]
  BY DEF CommitsOf
<1> HIDE DEF column
<1>2. DOMAIN column = DOMAIN flags.counts
  BY <1>1, FlagsAssumption, LenProperties DEF FlagSet, SameCounts
<1>3. ASSUME NEW k \in DOMAIN column
      PROVE  <<column[k], commitBytes(column[k], SigOf(t))>>
             = LET n == Promise!Ranked(flags.counts, k)
               IN  <<n, Promise!commitBytes(n, SchemeOf(t).sigBytes)>>
  <2>1. Promise!Ranked(flags.counts, k) = column[k]
    BY <1>1, RankedInColumn
  <2> QED BY <2>1, SameMeasures DEF SigOf
<1> QED BY <1>1, <1>2, <1>3 DEF Promise!CommitTable

(* The scan ends at the row the promise calls binding.                     *)
LEMMA BindingAsPromised ==
  ASSUME NEW rows \in Seq(CeilingSet), NEW bound, FirstOfFewest(rows, bound)
  PROVE  bound = rows[Promise!Binding(rows)]
<1> DEFINE Fewest(k) == \A j \in DOMAIN rows : rows[k].maxValidators <= rows[j].maxValidators
           First(k)  == Fewest(k) /\ \A j \in 1 .. k - 1 : ~Fewest(j)
<1>1. PICK k \in DOMAIN rows :
        /\ rows[k] = bound
        /\ \A j \in DOMAIN rows : bound.maxValidators <= rows[j].maxValidators
        /\ \A j \in 1 .. k - 1 : rows[j].maxValidators > bound.maxValidators
  BY DEF FirstOfFewest
<1>2. DOMAIN rows = 1 .. Len(rows) /\ Len(rows) \in Nat
  BY LenProperties
<1>3. \A j \in DOMAIN rows : j \in Nat \ {0} /\ rows[j].maxValidators \in Nat
  <2>1. \A j \in DOMAIN rows : rows[j] \in CeilingSet
    BY <1>2, ElementOfSeq
  <2>2. 0 .. searchMax \subseteq Nat
    BY searchMaxAssumption, MaxIntAssumption
  <2> QED BY <1>2, <2>1, <2>2, SMTT(30) DEF CeilingSet
<1>4. First(k)
  <2>1. \A j \in 1 .. k - 1 : j \in DOMAIN rows
    BY <1>2
  <2> QED BY <1>1, <1>3, <2>1
<1>5. ASSUME NEW m \in DOMAIN rows, First(m) PROVE m = k
  <2>1. Fewest(k) /\ Fewest(m)
    BY <1>4, <1>5
  <2>2. k \notin 1 .. m - 1 /\ m \notin 1 .. k - 1
    BY <1>4, <1>5, <2>1
  <2> QED BY <1>3, <2>2
<1>6. Promise!Binding(rows) = CHOOSE m \in DOMAIN rows : First(m)
  BY DEF Promise!Binding
<1> HIDE DEF First
<1>7. (CHOOSE m \in DOMAIN rows : First(m)) = k
  BY <1>4, <1>5
<1> QED BY <1>1, <1>6, <1>7

PromisedReport(t) == Promise!Report(SchemeOf(t), Promise!CeilingTable(SchemeOf(t)))

(* One section of a kind is all that was printed under it.                 *)
LEMMA PrintedOnce ==
  ASSUME SectionInv, NEW t, HasExactly(t, Fixed), NEW kind \in Fixed
  PROVE  \E d : Printed(kind, t) = {d} /\ Right(kind, t, d)
<1>1. PICK d \in Printed(kind, t) : Printed(kind, t) = {d}
  BY DEF HasExactly, Single
<1> QED BY <1>1, PrintedIsRight

(* The storage line is there exactly when the promise has one.             *)
LEMMA StorageAsPromised ==
  ASSUME SectionInv, NEW t \in Turns, HasExactly(t, Fixed)
  PROVE  Printed("storage", t) = Promise!StorageLines(SchemeOf(t))
<1> DEFINE line == <<flags.storageVals, BytesPerYear(commitBytes(flags.storageVals, SigOf(t)))>>
           now  == Printed("storage", t)
<1>1. Promise!StorageLines(SchemeOf(t)) = IF Projected THEN {line} ELSE {}
  BY SameArithmetic, SameMeasures DEF Promise!StorageLines, BytesPerYear, SigOf, Projected
<1>2. now # {} <=> Projected
  <2>1. Printed("ceilings", t) # {}
    <3>1. "ceilings" \in Fixed
      BY DEF Fixed, Kinds
    <3> QED BY <3>1, PrintedOnce
  <2> QED BY <2>1 DEF SectionInv, StorageSettled
<1>3. \A d \in now : d = line
  BY PrintedIsRight DEF Right
<1> HIDE DEF line, now
<1>4. now = IF Projected THEN {line} ELSE {}
  BY <1>2, <1>3
<1> QED BY <1>1, <1>4 DEF now

(* A whole report is the one promised for its name.                        *)
LEMMA CollectedAsPromised ==
  ASSUME IInv, SectionInv, NEW t \in Turns, HasExactly(t, Fixed)
  PROVE  flags.schemes[t] \in SchemeNames /\ Collected(t) = PromisedReport(t)
<1> DEFINE s == SchemeOf(t)
           table == Promise!CeilingTable(s)
<1>1. flags \in Flags
  BY DEF IInv, TypeOK
<1>2. {"header", "votes", "commits", "breakdown", "ceilings", "binding", "cost"} \subseteq Fixed
  BY DEF Fixed, Kinds
<1>3. flags.schemes[t] \in SchemeNames
  <2>1. \E d : Right("votes", t, d)
    BY <1>2, PrintedOnce
  <2> QED BY <2>1 DEF Right
<1>4. Printed("votes", t) = {Promise!MeasureSizes(s, flags.counts)}
  <2>1. PICK d : Printed("votes", t) = {d} /\ Right("votes", t, d)
    BY <1>2, PrintedOnce
  <2> QED BY <2>1, SameMeasures DEF Right
<1>5. Printed("commits", t) = {Promise!CommitTable(s)}
  <2>1. PICK d : Printed("commits", t) = {d} /\ Right("commits", t, d)
    BY <1>2, PrintedOnce
  <2>2. CommitsOf(t, d)
    BY <2>1 DEF Right
  <2> QED BY <1>1, <2>1, <2>2, CommitsAsPromised
<1>6. Printed("breakdown", t) = {Promise!Breakdown(s)}
  <2>1. PICK d : Printed("breakdown", t) = {d} /\ Right("breakdown", t, d)
    BY <1>2, PrintedOnce
  <2> QED BY <2>1, SameMeasures DEF Right
<1>7. Printed("storage", t) = Promise!StorageLines(s)
  BY StorageAsPromised
<1>8. Printed("ceilings", t) = {table}
  <2>1. PICK d : Printed("ceilings", t) = {d} /\ Right("ceilings", t, d)
    BY <1>2, PrintedOnce
  <2>2. GridOf(t, d)
    BY <2>1 DEF Right
  <2> QED BY <1>1, <2>1, <2>2, GridAsPromised
<1>9. Printed("binding", t) = {table[Promise!Binding(table)]}
  <2>1. PICK d : Printed("binding", t) = {d} /\ Right("binding", t, d)
    BY <1>2, PrintedOnce
  <2>2. PICK rows : GridOf(t, rows) /\ FirstOfFewest(rows, d)
    BY <2>1 DEF Right
  <2>3. rows = table
    BY <1>1, <2>2, GridAsPromised
  <2>4. rows \in Seq(CeilingSet)
    BY <2>2 DEF GridOf
  <2>5. d = rows[Promise!Binding(rows)]
    BY <2>2, <2>4, BindingAsPromised
  <2> QED BY <2>1, <2>3, <2>5
<1>10. Printed("cost", t) = {Promise!RoundTripBytes(Promise!MeasureSizes(s, <<>>))}
  <2>1. PICK d : Printed("cost", t) = {d} /\ Right("cost", t, d)
    BY <1>2, PrintedOnce
  <2>2. d = Cost(flags.schemes[t])
    BY <2>1 DEF Right
  <2> QED BY <2>1, <2>2, SameMeasures DEF Cost, SchemeOf
<1> HIDE DEF s, table
<1>11. Collected(t) =
         [votes     |-> Printed("votes", t), commits  |-> Printed("commits", t),
          breakdown |-> Printed("breakdown", t), storage |-> Printed("storage", t),
          ceilings  |-> Printed("ceilings", t), binding |-> Printed("binding", t),
          cost      |-> Printed("cost", t)]
  BY DEF Collected, Kinds
<1>12. PromisedReport(t) = Promise!Report(s, table)
  BY DEF PromisedReport, s, table
<1> QED BY <1>3, <1>4, <1>5, <1>6, <1>7, <1>8, <1>9, <1>10, <1>11, <1>12 DEF Promise!Report

-----------------------------------------------------------------------------
ReportsNow == [t \in 1 .. Delivered |-> Collected(t)]
StatusNow  == IF Ended THEN pc ELSE "running"

(* The reports delivered are those promised for their names.               *)
AsPromised ==
  /\ Delivered \in Nat /\ Delivered <= Len(flags.schemes)
  /\ \A t \in 1 .. Delivered : flags.schemes[t] \in SchemeNames
  /\ ReportsNow = [t \in 1 .. Delivered |-> PromisedReport(t)]

(* This follows from what the sections say and how many there are.         *)
LEMMA DeliveredAsPromised == IInv /\ SectionInv => AsPromised
<1> SUFFICES ASSUME IInv, SectionInv PROVE AsPromised
  OBVIOUS
<1> DEFINE N    == Len(flags.schemes)
           Done == pc = "exit 0"
<1>1. turn \in Int /\ 1 <= turn /\ turn <= N /\ N \in Int /\ Turns = 1 .. N
  BY SectionState, FlagsShape, LenProperties DEF Turns
<1>2. (Done /\ Delivered = turn) \/ Delivered = turn - 1
  BY DEF Delivered
<1> HIDE DEF N, Done
<1>3. Delivered \in Nat /\ Delivered <= N
  <2>1. Delivered = turn \/ Delivered = turn - 1
    BY <1>2
  <2> QED BY <1>1, <2>1
<1>4. ASSUME NEW t \in 1 .. Delivered
      PROVE  flags.schemes[t] \in SchemeNames /\ Collected(t) = PromisedReport(t)
  <2>1. t \in Turns
    BY <1>1, <1>3
  <2>2. \A u \in 1 .. turn - 1 : HasExactly(u, Fixed)
    BY DEF SectionInv, Progress
  <2>3. Done => HasExactly(turn, Fixed)
    BY DEF SectionInv, Progress, Done
  <2>4. t \in Int /\ 1 <= t /\ t <= Delivered
    BY <1>3
  <2>5. HasExactly(t, Fixed)
    <3>1. CASE Delivered = turn - 1
      BY <1>1, <2>2, <2>4, <3>1
    <3>2. CASE Done /\ Delivered = turn
      <4>1. ASSUME Delivered = turn PROVE t \in 1 .. turn - 1 \/ t = turn
        BY <1>1, <2>4, <4>1
      <4> QED BY <2>2, <2>3, <3>2, <4>1
    <3> QED BY <1>2, <3>1, <3>2
  <2> QED BY <2>1, <2>5, CollectedAsPromised
<1>5. ReportsNow = [t \in 1 .. Delivered |-> PromisedReport(t)]
  BY <1>4 DEF ReportsNow
<1> QED BY <1>3, <1>4, <1>5 DEF AsPromised, N

(* What is promised for a name depends on the command line alone.          *)
LEMMA PromiseFixed ==
  ASSUME flags' = flags, NEW t
  PROVE  PromisedReport(t)' = PromisedReport(t)
<1>1. SchemeOf(t)' = SchemeOf(t)
  BY DEF SchemeOf
<1>2. \A s : Promise!CommitTable(s)' = Promise!CommitTable(s)
  BY DEF Promise!CommitTable
<1>3. \A s : Promise!StorageLines(s)' = Promise!StorageLines(s)
  BY DEF Promise!StorageLines
<1>4. \A k : Promise!BudgetOfRow(k)' = Promise!BudgetOfRow(k)
  BY DEF Promise!BudgetOfRow
<1>5. \A s : Promise!CeilingTable(s)' = Promise!CeilingTable(s)
  BY <1>4 DEF Promise!CeilingTable
<1>6. \A s, table : Promise!Report(s, table)' = Promise!Report(s, table)
  BY <1>2, <1>3 DEF Promise!Report
<1> QED BY <1>1, <1>5, <1>6 DEF PromisedReport

(* A table extended by one row is the table with the row appended.         *)
LEMMA OneMore ==
  ASSUME NEW n \in Nat, NEW f, NEW g, f = [t \in 1 .. n |-> f[t]],
         g = [t \in 1 .. n + 1 |-> g[t]], \A t \in 1 .. n : f[t] = g[t]
  PROVE  Len(f) = n /\ Len(g) = n + 1 /\ g = Append(f, g[n + 1])
<1> DEFINE S == {g[t] : t \in 1 .. n + 1}
<1>1. f \in Seq(S) /\ Len(f) = n
  <2>1. \A t \in 1 .. n : f[t] \in S
    OBVIOUS
  <2> HIDE DEF S
  <2> QED BY <2>1
<1>2. g \in Seq(S) /\ Len(g) = n + 1 /\ g[n + 1] \in S
  <2>1. \A t \in 1 .. n + 1 : g[t] \in S
    OBVIOUS
  <2> HIDE DEF S
  <2> QED BY <2>1
<1> HIDE DEF S
<1>3. g = Append(f, g[n + 1])
  <2> DEFINE h == Append(f, g[n + 1])
  <2>1. /\ h \in Seq(S) /\ Len(h) = n + 1
        /\ \A t \in 1 .. n : h[t] = f[t]
        /\ h[n + 1] = g[n + 1]
    BY <1>1, <1>2, AppendProperties
  <2>2. \A t \in 1 .. n + 1 : h[t] = g[t]
    <3>1. \A t \in 1 .. n + 1 : t \in 1 .. n \/ t = n + 1
      OBVIOUS
    <3> HIDE DEF h
    <3> QED BY <2>1, <3>1
  <2> HIDE DEF h
  <2>3. h = g
    BY <1>2, <2>1, <2>2, SeqEqual
  <2> QED BY <2>3 DEF h
<1> QED BY <1>1, <1>2, <1>3

(* The program goes on, unless the report was the last.                    *)
Continues ==
  /\ StatusNow = "running"
  /\ StatusNow' = IF Delivered' = Len(flags.schemes) THEN "exit 0" ELSE "running"

(* The last line of a report delivers it.                                  *)
LEMMA StepDelivers ==
  ASSUME AsPromised, AsPromised', flags' = flags, Delivered' = Delivered + 1,
         Continues
  PROVE  Promise!Deliver
<1> DEFINE D == Delivered
           E == Delivered'
           now  == ReportsNow
           next == ReportsNow'
           F(t) == PromisedReport(t)
<1>1. D \in Nat /\ now = [t \in 1 .. D |-> F(t)]
  BY DEF AsPromised
<1>2. E = D + 1 /\ next = [t \in 1 .. E |-> F(t)] /\ flags.schemes[E] \in SchemeNames
  <2>1. /\ ReportsNow' = [t \in 1 .. Delivered' |-> PromisedReport(t)']
        /\ Delivered' \in Nat
        /\ \A t \in 1 .. Delivered' : flags'.schemes[t] \in SchemeNames
    BY DEF AsPromised
  <2>2. E = D + 1 /\ D \in Nat
    BY <1>1
  <2>3. next = [t \in 1 .. E |-> F(t)]
    BY <2>1, PromiseFixed
  <2>4. \A t \in 1 .. E : flags.schemes[t] \in SchemeNames
    BY <2>1
  <2> HIDE DEF D, E, next, F
  <2>5. E \in 1 .. E
    BY <2>2
  <2> QED BY <2>2, <2>3, <2>4, <2>5
<1>3. Promise!Report(SchemeOf(E), Promise!CeilingTable(SchemeOf(E))) = F(E)
  BY DEF PromisedReport
<1> HIDE DEF D, E, now, next, F
<1>4. Len(now) = D /\ Len(next) = D + 1 /\ next = Append(now, F(E))
  <2>1. \A t \in 1 .. D : t \in 1 .. D + 1
    BY <1>1
  <2>2. D + 1 \in 1 .. D + 1
    BY <1>1
  <2>3. now = [t \in 1 .. D |-> now[t]] /\ \A t \in 1 .. D : now[t] = F(t)
    BY <1>1
  <2>4. next = [t \in 1 .. D + 1 |-> next[t]] /\ \A t \in 1 .. D + 1 : next[t] = F(t)
    BY <1>2
  <2>5. next[D + 1] = F(E)
    BY <1>2, <2>2, <2>4
  <2>6. \A t \in 1 .. D : now[t] = next[t]
    BY <2>1, <2>3, <2>4
  <2>7. Len(now) = D /\ Len(next) = D + 1 /\ next = Append(now, next[D + 1])
    BY <1>1, <2>3, <2>4, <2>6, OneMore
  <2> QED BY <2>5, <2>7
<1>5. /\ StatusNow = "running"
      /\ flags.schemes[Len(now) + 1] \in SchemeNames
      /\ Len(next) = Len(now) + 1
      /\ next = Append(now, F(E))
      /\ StatusNow' = IF Len(next) = Len(flags.schemes) THEN "exit 0" ELSE "running"
  BY <1>2, <1>4 DEF E, Continues
<1>6. SchemeOf(E) = Promise!lookupScheme(flags.schemes[Len(now) + 1])
  BY <1>2, <1>4, SameMeasures DEF SchemeOf
<1> QED BY <1>3, <1>5, <1>6, SameMeasures DEF Promise!Deliver, now, next, ReportsNow, StatusNow

(* A step that finishes no report shows none.                              *)
LEMMA NoReportMoves ==
  ASSUME AsPromised, AsPromised', flags' = flags, Delivered' = Delivered
  PROVE  ReportsNow' = ReportsNow
<1>1. ReportsNow = [t \in 1 .. Delivered |-> PromisedReport(t)]
  BY DEF AsPromised
<1>2. ReportsNow' = [t \in 1 .. Delivered' |-> PromisedReport(t)']
  BY DEF AsPromised
<1> QED BY <1>1, <1>2, PromiseFixed

Shows == <<flags, ReportsNow, StatusNow>>

(* Within a report, a step goes on or refuses the report.                  *)
LEMMA InnerStep ==
  ASSUME AsPromised, AsPromised', flags' = flags, turn' = turn, ~Ended,
         pc' = "exit 1" \/ ~Ended'
  PROVE  Promise!Refuse \/ UNCHANGED Shows
<1>1. ReportsNow' = ReportsNow
  <2>1. Delivered' = Delivered
    BY DEF Delivered, Ended
  <2> QED BY <2>1, NoReportMoves
<1>2. StatusNow = "running"
  BY DEF StatusNow
<1>3. CASE pc' = "exit 1"
  <2>1. StatusNow' = "exit 1"
    BY <1>3 DEF StatusNow, Ended
  <2> QED BY <1>1, <1>2, <2>1 DEF Promise!Refuse, ReportsNow, StatusNow
<1>4. CASE ~Ended'
  <2>1. StatusNow' = "running"
    BY <1>4 DEF StatusNow
  <2> QED BY <1>1, <1>2, <2>1 DEF Shows
<1> QED BY <1>3, <1>4

(* The closing lines deliver the report.                                   *)
LEMMA ClosingDelivers ==
  ASSUME IInv, AsPromised, AsPromised', PrintBinding
  PROVE  Promise!Deliver
<1>1. /\ pc = "tightest" /\ flags' = flags
      /\ IF turn < Len(flags.schemes)
         THEN turn' = turn + 1 /\ pc' = "lookup" ELSE turn' = turn /\ pc' = "exit 0"
  BY DEF PrintBinding, Goto
<1> DEFINE N    == Len(flags.schemes)
           More == turn' = turn + 1 /\ pc' = "lookup"
           Last == turn' = turn /\ pc' = "exit 0"
<1>2. turn \in Int /\ turn <= N /\ N \in Int
  BY SectionState, FlagsShape
<1>3. Delivered = turn - 1 /\ StatusNow = "running"
  BY <1>1 DEF Delivered, StatusNow, Ended
<1>4. IF turn < N THEN More ELSE Last
  BY <1>1
<1>5. /\ More => Delivered' = turn' - 1 /\ turn' = turn + 1 /\ StatusNow' = "running"
      /\ Last => Delivered' = turn /\ StatusNow' = "exit 0"
  BY DEF Delivered, StatusNow, Ended
<1> DEFINE Runs  == StatusNow' = "running"
           Exits == StatusNow' = "exit 0"
<1>6. /\ More => Delivered' = turn' - 1 /\ turn' = turn + 1 /\ Runs
      /\ Last => Delivered' = turn /\ Exits
  BY <1>5
<1>7. Delivered = turn - 1
  BY <1>3
<1> HIDE DEF N, More, Last, Runs, Exits
<1>8. Delivered' = Delivered + 1 /\ IF Delivered' = N THEN Exits ELSE Runs
  BY <1>2, <1>4, <1>6, <1>7
<1>9. Continues
  BY <1>3, <1>8 DEF Continues, Runs, Exits, N
<1> QED BY <1>1, <1>8, <1>9, StepDelivers

(* Each step delivers, refuses or shows nothing.                           *)
LEMMA PromisedStep ==
  ASSUME IInv, AsPromised, AsPromised', [Next]_vars
  PROVE  Promise!Deliver \/ Promise!Refuse \/ UNCHANGED Shows
<1>1. CASE Lookup
  BY <1>1, InnerStep DEF Lookup, Ended, Goto, Fail
<1>2. CASE MeasureScheme
  BY <1>2, InnerStep DEF MeasureScheme, Ended, Goto, Fail
<1>3. CASE PrintSizes
  BY <1>3, InnerStep DEF PrintSizes, Ended, Goto
<1>4. CASE PrintBreakdown
  BY <1>4, InnerStep DEF PrintBreakdown, Ended, Goto, Fail
<1>5. CASE PrintStorage
  BY <1>5, InnerStep DEF PrintStorage, Ended, Goto
<1>6. CASE DeriveCell
  BY <1>6, InnerStep DEF DeriveCell, Ended
<1>7. CASE PrintCeilings
  BY <1>7, InnerStep DEF PrintCeilings, Ended, Goto
<1>8. CASE Compare
  BY <1>8, InnerStep DEF Compare, Ended
<1>9. CASE PrintBinding
  BY <1>9, ClosingDelivers
<1>10. CASE UNCHANGED vars
  <2>1. flags' = flags /\ Delivered' = Delivered /\ StatusNow' = StatusNow
    BY <1>10 DEF vars, Delivered, StatusNow, Ended
  <2> QED BY <2>1, NoReportMoves DEF Shows
<1> QED BY <1>1, <1>2, <1>3, <1>4, <1>5, <1>6, <1>7, <1>8, <1>9, <1>10 DEF Next

(* Nothing is delivered at the start.                                      *)
LEMMA PromisedInit == Init => Promise!Init
<1> SUFFICES ASSUME Init PROVE Promise!Init
  OBVIOUS
<1>1. turn = 1 /\ pc = "lookup"
  BY DEF Init
<1>2. Delivered = turn - 1 /\ StatusNow = "running"
  BY <1>1 DEF Delivered, StatusNow, Ended
<1>3. Delivered = 0
  <2>1. turn = 1 /\ Delivered = turn - 1
    BY <1>1, <1>2
  <2> QED BY <2>1
<1>4. ReportsNow = <<>>
  BY <1>3 DEF ReportsNow
<1> QED BY <1>2, <1>4 DEF Promise!Init, ReportsNow, StatusNow

(***************************************************************************)
(* The default mode delivers what Reports promises, name by name and in    *)
(* order, or stops with a failure: for any list of names, any budget grid  *)
(* and any counts, whatever fails to marshal (main.go, 110-215).           *)
(***************************************************************************)
THEOREM ReportsAreImplemented == Spec => ImplementsReports
<1>1. Init => Promise!Init
  BY PromisedInit
<1>2. IInv /\ SectionInv => AsPromised
  BY DeliveredAsPromised
<1>3. IInv /\ AsPromised /\ AsPromised' /\ [Next]_vars
        => [Promise!Deliver \/ Promise!Refuse]_<<flags, [t \in 1 .. Delivered |-> Collected(t)],
                                                 IF Ended THEN pc ELSE "running">>
  BY PromisedStep DEF Shows, ReportsNow, StatusNow
<1> QED BY <1>1, <1>2, <1>3, ReportInvariant, SectionInvariant, PTL
     DEF Spec, ImplementsReports, Promise!Safety
=============================================================================
