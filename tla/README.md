# pq-consensus-bandwidth: specifications, model checking and proofs

`pq-consensus-bandwidth` is a Go command-line tool that measures what a
post-quantum signature scheme costs a CometBFT network in bytes. It marshals
votes and commits, derives the largest validator set a link and round time
admit, inverts that model for given set sizes, compares peer handshakes, and
puts figures on a migration. A Python script beside it keeps two document indexes.
This directory holds TLA+ modules that model it, the TLC configurations that
check them and TLAPS proofs of what they check.

Source references are to the files of the repository root.

## 1. The system

The tool is one process with one thread, shares no memory with anything else and
persists nothing. What makes it hard to get right is not concurrency but

* **arithmetic**: `int64` products that wrap, float-to-integer conversions whose
  out-of-range result differs between amd64 and arm64, two modes that compute
  the same boundary by different truncating divisions, sizes obtained by
  adjusting or subtracting other sizes;
* **partial failure**: sections are printed before later ones are computed,
  names are looked up as the loop reaches them, every marshaling can fail;
* **shared and reused data**: one slice of validator counts that each report
  sorts in place, tables collected in one loop and printed in another, rows that
  wait in a tab writer while headings go straight to standard output;
* **validation at a distance**: what the models need of a list is checked where it
  is parsed, by three parsers with different ideas of a number.

The index generator is the part that persists something and the one that is not
alone: people edit documents while it runs, git can fail, and it can be killed
between two writes.

### Components

| Component | State | Operations | Interacts with | What makes it correct |
|---|---|---|---|---|
| Scheme table (`schemes.go`) | constant table | `lookupScheme` | every mode | the name found is the name asked for; an unknown one is an error |
| Measurement (`measure.go`) | `Sizes` | `voteBytes`, `commitBytes`, `Measure` | CometBFT types and protobuf code | the size is that of the message a node would send |
| Breakdown, storage (`breakdown.go`) | none | `Breakdown`, `ProjectStorage` | measurement | every byte is attributed once; the projection is about a commit that was measured |
| Ceiling model (`ceiling.go`, `solve.go` `Require`/`Assess`) | none | `DeriveCeiling`, `Tightest`, `Require`, `Assess` | both modes below | the largest set that fits; the two directions are inverses; no overflow claims more than the budget |
| Default report (`main.go` `main`, `report`) | shared counts slice, sizes, loop indices, ceilings, output so far | the loop over names, eight sections per name | all of the above | sections agree with each other and belong to their scheme; a failed run leaves whole reports |
| Solve (`solve.go` `SolveReport`) | report string, loop indices | requirement loop, scheme loop, target loop | ceiling model, measurement | agrees with the default mode; printed whole or not at all |
| Handshake (`handshake.go`, `main.go` `reportHandshake`) | profiles so far | three profile constructors, tables | scheme table, CometBFT protobuf | totals are the messages' sizes; safety columns follow the legs |
| Migration (`migration.go`, `main.go` `reportMigration`) | rows waiting in the tab writer, verification times by name, output so far | five sections, each a loop over the names | CPU sampling, measurement | tables are whole or absent; figures rest on the right samples and stay within their bounds |
| CPU sampling (`cputime.go`) | samples per key | `MeasureCPU`, `keyRounds`, `profileFrom`, `AssessRound` | migration, the clock, CometBFT's crypto | percentiles are those of all keys; a verdict is that of exact arithmetic |
| Command line (`main.go` `main`, parsers) | parsed lists | dispatch, three list parsers, `--list-schemes` | starts a mode | a mode is called only with what it can cope with; a refusal comes before any output |
| Document index (`scripts/build_doc_indexes.py`) | `INDEX.md` and `docs/INDEX.md` on disk | rebuild, `--check` | git, the documents, their authors | every tracked document whose name has no white space is listed; `--check` is truthful; any damage is repaired by running it again |

The modes exclude each other; `main` calls exactly one. The default report and
`--solve` meet in the ceiling model, and must not contradict each other. The
default report and `--migration` meet in the commit size.

## 2. Modules

```
GoArith ── Ceiling ──┬── CeilingSearch ── MCCeilingSearch
Wire ─┐              ├── Report ── ReportRefinement ── MCReport
      ├── Measure ───┤              └ Reports (instance)
Schemes              ├── Solve ── MCSolve
                     └── Cli ── MCCli    (instances: Report, Solve,
Wire, Schemes ── Handshake ── MCHandshake            Handshake, Migration)
GoArith ── Floats, CpuTime, Measure ── Migration ── MCMigration
DocIndexes ── MCDocIndexes

FormulaProofs (Ceiling, Measure) ──┬── CeilingSearchProofs
                                   ├── ReportProofs (with ReportRefinement)
                                   ├── SolveProofs
                                   ├── HandshakeProofs
                                   ├── MigrationProofs
                                   └── CliProofs   (instances of the four
DocIndexesProofs                                    modes' proof modules)
```

| Module | Models | Correspondence |
|---|---|---|
| `GoArith` | Go's `int64` and `int64(float64)` | `Wrap` is two's complement, `Quo` truncates toward zero, `FloatToInt` takes an exact rational, an infinity or NaN and answers as the platform (`arch`) does |
| `Floats` | `float64` and its rounding | a float64 is an exact fraction; `Rounded` is the float64 nearest to an integer, ties to even, for any even `Precision` in the place of 2^53 |
| `Wire` | the size of protobuf messages, `varintLen`, `varintGrowth` | zero scalars and empty byte fields are left out, embedded messages never are. `varintLen` is a closed form; `shiftLoop` is the loop of the code and `VarintsCountShifts` compares them |
| `Schemes` | `schemes.go` | a record per scheme with its lengths; a name outside `SchemeNames` is the lookup's error |
| `Measure` | `measure.go`, `Breakdown` | a message is known by its fields' lengths, so the marshaled size is a function |
| `Ceiling` | `DeriveCeiling`, `Require`, `Assess` | every intermediate of the code has its operator, with the wrap where the code has `int64` |
| `CeilingSearch` | the reference for the ceiling model | see below |
| `Report` | `main`'s loop, `report`, `ProjectStorage`, `Tightest` | `pc` is the place in `report`; one action per stretch between two loops and one per loop round; an `error` return is a disjunct; `stdout` is the sequence of printed sections |
| `Solve` | `SolveReport` and its caller | `demands` and `rows` are the string built so far; one action per loop round; the zero divisor ends in `"panic"` |
| `Handshake` | `handshake.go`, `reportHandshake` | `profiles` is the slice; the `continue` on ed25519 is an action of its own |
| `Reports` | what the default mode promises | a report is a function of the command line and a name; two actions, deliver the next one or refuse it |
| `ReportRefinement` | `Report` implements `Reports` | a report is delivered when its last line is printed |
| `CpuTime` | `cputime.go` without the timing | the integers percentiles and verdicts are computed in |
| `Migration` | `reportMigration`, `MeasureCPU`, `migration.go` | `rows` is what waits in the tab writer; one action per name, per key sampled and per flush; a duration is any value of `Durations` |
| `Cli` | `main` and the parsers, composed with the modes | a list is a sequence of tokens; `Decide`, one `Parse` per list, one `Enter` per mode, and the `Next` of the mode entered |
| `DocIndexes` | `build_doc_indexes.py` with git, authors and crashes | one action per statement of `main` that reads or writes: the list, the two texts, each comparison, the two halves of `write_text` |

**The abstract specifications.** `ceiling.go` names its bound "the validator-set
search", but there is no search in the code: it divides. `CeilingSearch` is such a
search, in exact arithmetic: a set grows by one while the bytes of a round fit. It
translates no line of the code and is there to be compared with: its properties say
that the closed forms of *both* directions, which are translations, agree with it.

`Reports` says what the default mode is for, in two actions: deliver a whole report
for the next name, or refuse and end. It has no slice that is sorted (a row is the
k-th smallest count), no nested loops (a row's budget is computed from its place),
no scan (the binding row is the first of the least) and no memory of earlier
reports. `ReportRefinement` maps the printed sections of the finished reports to
`reports` and shows `Report` to implement it: `ImplementsReports` is the safety of it,
`EndsAsPromised` the liveness. All other steps of `Report` are stutters between
two deliveries.

**The composition.** `Cli` gives the modes' modules the variables `flags`, `pc`,
`turn`, `stdout` and `rows` in common and lets `main` fill in `flags`. That the
modes start only from command lines their modules assume
(`FlagsAssumption`, `MigrationAssumption`, `NameListsAssumption`) is then a property of
the program instead of an assumption about it, and what the modes promise of
what they print is a property of the program, `KeepsItsWord`, proved in section 5.

**What is abstracted.** Texts, column layout, percentages and `humanBytes` /
`humanBits`; the bytes of names, keys and signatures (only lengths matter to
protobuf); the rounding of float64 arithmetic everywhere but in the modelled gossip
(a budget or a round is the exact quotient, and only its conversion to an integer is
modelled; the gossip figure, which goes through float64 from an integer and back, is
modelled with the rounding of the conversion, of the difference and of the product);
the constant text of the
approach table and of the closing paragraphs; in the document indexes the order of
lines, which the paths alone determine. Marshaling and encoding errors are
kept as nondeterministic outcomes of the actions that can return them, although
CometBFT's generated code is not known to fail on these messages.

**Inputs.** A behaviour of a single mode starts with a parsed command line in `flags` (in
`Handshake`, `names`). They are values the parsers really let through: unknown
and repeated names, an empty name, repeated and unsorted counts, a link of 0
(`--links 0.5`), an overflowed link, rounds that are infinite or NaN, and a block
time that is negative, zero or NaN (`--block-seconds` is not validated).

Definitions introduced by a comment starting with "Mutant" are no part of the
model. They are plausible mistakes in the definition that follows them; for each
property of a passing run `PROJECT.json` names the one that breaks it, and shows
so that the property can fail.

## 3. Properties and runs

`tlc -config X.cfg M` for the pairs below. The passing runs of the tool set
`CHECK_DEADLOCK FALSE`: the program ends, so the last state has no successor; that
an end is reached is a property, and `TypeOK` lists the ways to end. `doc_indexes`
checks deadlock: the script can always be run again.

| Run (`cfg`) | States | What it shows |
|---|---|---|
| `ceiling_search` (`MCCeilingSearch.cfg`) | 29,012 | every cost and budget by way of the reference search. `CeilingIsTheLargestFit`: the search stops exactly at the ceiling, and the search-limit flag is set exactly when one more than `searchMax` still fits. `RequirementInverts`: `--solve` and the default mode agree at every size. `UseStaysWithinBudget`: with no condition on overflow, the bytes at the ceiling never exceed the budget |
| `report_small` (`MCReportSmall.cfg`) | 31,042 | the default mode end to end: `BindingAdmitsFewest`, `BindingFitsEveryBudget`, `FiguresOfOwnScheme`, `CommitTableGrowsWithTheSet`, `BreakdownMatchesVoteTable`, `StorageMatchesCommitTable`, `WholeReportsUpToFailure`, `ImplementsReports`, the refinement, and `EndsAsPromised`, that a run delivers its last report or refuses one |
| `solve` (`MCSolve.cfg`) | 12,080 | `CellsMatchTheCeiling`, `TableIsMonotone`, `ReportIsWholeOrAbsent`, `Terminates` |
| `handshake` (`MCHandshake.cfg`) | 6,200 | `TableIsWholeOrAbsent`, `SafetyColumnsFollowTheLegs`, `UpgradesCostTheirLegs`, `VarintsCountShifts` |
| `migration` (`MCMigration.cfg`) | 43,144 | `TablesAreWholeOrAbsent`: no row is lost or printed under another heading, whatever fails. `PercentilesRankAllKeys`, `RoundsRestOnTheTail`: every line rests on the samples it claims to. `VerdictsAreExact`: truncation and cores that are not validated do not turn a verdict round, where the work and the round are within the word. `GossipWithinBound`: neither does rounding, truncation or a suppression that is not validated take the modelled gossip out of its bound, or above the float64 nearest to it, where the bound is within the word. Of figures beyond the word both say nothing: see section 4. `MitigationsFollowTheVotes` |
| `program` (`MCCli.cfg`) | 4,106 | `ModesStartOnWhatTheyAssume`; `KeepsItsWord`, `AlwaysEnds`: from any argv the program ends, and what it has printed then is what the mode it chose promises. `PublishedFigures`: votes, commits, breakdown, ceilings, client updates, mitigations and handshakes of `docs/RESULTS_20260906.md` come out of the three modes |
| `doc_indexes` (`MCDocIndexes.cfg`) | 149,020 | `EveryDocumentListed` (the documents without white space in their names; for the others see section 4), `CheckTellsTheTruth`, `TwoRebuildsSettle`, `RebuildsSettle`: under two arbitrary disturbances |
| `handshake_auth`, `gossip_rounded`, `solve_slow_link`, `binding_clamped`, `doc_idempotent` | | five disagreements between the code and what it says of itself: section 4 |

### Bounds, and why they are enough

* **Word size.** `MaxInt` is 2^15 - 1 in `ceiling_search`, `report_small` and
  `migration`, and 2^17 - 1 in `solve`. With a small word the inputs reach every wrap-around:
  products that turn negative, turn 0 and come back positive. The real 64-bit
  word is outside TLC's integers; the proofs cover every word size.
  `binding_clamped` takes 2^17 - 1, so that two links exceed the search bound, and
  `gossip_rounded` 2^16 - 1, so that 181 validators' votes for one peer do not overflow.
  `program` and `solve_slow_link` need real figures and take 2^29 - 1, the
  largest word whose products TLC can evaluate. The published command lines
  overflow nothing in it, with 500 Mbit in the place of the default 1 Gbit link;
  1 Gbit is the value that overflows.
* **`Precision`** is 2^10 in `migration`, the place of 2^53 in a 64-bit word: the
  bounds of its tables lie below it, above it and beyond the word. In `program` it is
  2^26, so that the published figures are not rounded, as in the real build.
* **`searchMax`** is 40, 10 and 1000 instead of 100000, so that inputs lie below,
  on and above it (for a cost of 4 and one peer, links of 1280 and 1311 bits per
  second have the ceiling 40 and one of 1312 would have 41).
* **`YearSeconds`** is 3600 instead of 31536000 so that blocks times commit both
  fits and overflows the small word.
* **Command lines.** `TablesFlags` combines lists of one, two and three names,
  one of them with an unknown name in the middle, with counts that are single,
  repeated and unsorted, three storage counts (two of them measured in some
  lists and one never) and five block times. `GridFlags` varies the budget grid
  up to three links, two rounds and three peer counts. Three names are the least
  at which a report has both a predecessor and a successor; three entries on an
  axis the least with a middle one.
* **Handshake lists** are all lists of up to four of five names, one unknown, so
  that ed25519 occurs first, last, repeated and alone. A list consists of
  trimmed names, as the lookup compares them.

* **Migration.** Two durations (a tail and a body), ten nanoseconds to a second and
  four timings of an operation, over two keys of two samples each: enough for
  the keys to disagree and for the percentiles to differ from each other.
  `FigureFlags` has every class of `--gossip-suppression` (negative, 0, within,
  one whose complement is rounded, 1, above, infinite, NaN), `TimedFlags` cores from -1 to 3, names that are
  repeated, not implemented and unknown.
* **Argvs.** One list at a time is blank, empty, zero, negative, fractional,
  infinite, NaN, has a unit or is no number, in each of the five modes; all sixteen
  combinations of mode flags; and the published command line for every scheme in
  every mode. In these runs one duration stands for the timings, which `migration`
  varies.
* **Documents.** Six files, one for each way the script treats a path; two
  disturbances, each an edit, a change of what is tracked, a failing git or a kill
  at any step. Two are the least at which a kill meets an edit, and at which the
  remains of one kill meet another. `calm` counts whole rebuilds up to 2. One
  heading suffices, since a file may also be empty and then has its name for a
  title.

### Fairness

`Spec` of `Report`, `Solve`, `Handshake`, `Migration` and `Cli` assumes `WF_vars(Next)`: the program
is a single thread that never waits for anything, so it takes its next step as
long as it has one. No fairness is assumed between alternatives: an error may
occur at the first call that can return it or never. `CeilingSearch` states only
safety and has no fairness.

`DocIndexes` assumes `WF_vars(Run)`: a run that is not killed goes on. Nothing makes
anybody start one, so `RebuildsSettle` is conditional: *if* the script is run
without `--check` again and again, the indexes become right and stay right. That the
disturbances end is the bound `MaxDisturbances`, not a fairness assumption.

## 4. Where the code and its words differ

1. **`handshake_auth`** (bug, `handshake.go:130`). The authentication leg of a
   scheme other than Ed25519 is derived from an Ed25519 message plus "the key
   bytes plus any growth in the length prefix". Two length prefixes enclose the
   key, since the key is a field of an embedded message; only one is counted. For
   every scheme with a key of 126 bytes or more the figure is one byte too small
   (ML-DSA-65: 5269 instead of 5270).
2. **`gossip_rounded`** (bug, `migration.go:108`, `measure_test.go:369-379`). The
   suppression model must not produce "a figure above the broadcast bound, which
   would be incoherent", nor "negative traffic". `float64(upper)` may be above
   `upper`: with suppression 0, one ed25519 validator and 49764000000003 peers the
   figure is 18014568000001088 under a bound of 18014568000001086, and next to 2^63
   it is negative on amd64. Nothing overflows in either case. The property of the run,
   `GossipIsCoherent`, fails as well when the bound itself wraps (`migration.go:102`):
   with the run's word replaced by that of `migration`, two ed25519 validators with 50
   peers print a negative bound, and more of them one that is positive and too small.
3. **`solve_slow_link`** (`solve.go:70`, text at `solve.go:201-202`). "A number is
   the factor by which the per-validator round cost must fall": when the
   requirement is truncated to 0 bytes the number is 0.0x. The cell that is
   hardest to reach has the smallest factor.
4. **`binding_clamped`** (`ceiling.go:85`, comment at 77-78). Rows cut by the
   search bound to the same number tie; the first of them is printed as the binding
   constraint even when another budget runs out earlier. In the run the bound is 10
   and two links would admit 22 and 11 validators; the binding line names the first.
5. **`doc_idempotent`** (`build_doc_indexes.py:117`, docstring at line 8).
   "Idempotent": a second rebuild changes nothing. `INDEX.md` lists `docs/INDEX.md`
   under the heading that file has when the texts are computed, before it is
   rewritten. If it was missing, emptied or had lost its heading, a second rebuild
   changes `INDEX.md` again, and `--check` after the first one fails.

`BindingFitsEveryBudget` and `CellsMatchTheCeiling` are stated so that they hold
beside findings 4 and 3: the *number* on the binding line is right unless it is
the search bound, and the *verdict* of a cell is right also when its factor is 0.
`TwoRebuildsSettle` says what is true beside finding 5: one rebuild repairs all but
that one title, and two repair everything. `GossipWithinBound` stands beside finding
2: where neither the bound nor the float64 nearest to it leaves the word, the figure is
at most that float64, and at most the bound itself up to 2^53.

Three more differences have no run of their own. The passing properties state what
holds beside them, and exempt them by name:

* **Documents with white space in their names.** "Every tracked Markdown document in the
  repository" (`build_doc_indexes.py:5-6`): git's answer is split at any white space
  (line 31), so such a document is in neither index, and the pieces of its name are, as
  paths that need not exist. `EveryDocumentListed` is about the other documents
  (`Pieces[f] = {f}`) outside skipped folders, and its theorem too.
* **A ceiling beyond the word.** "The largest validator count n whose per-node outbound
  vote traffic for one round fits in the budget" (`ceiling.go:28-29`): cost x peers
  wraps (`ceiling.go:46`), possibly to a small positive number, and the count returned
  does then not fit; 50957856557208707 peers make 362 bytes count as 318.
  `CeilingIsTheLargestFit` assumes `ExactCeiling`. `UseStaysWithinBudget`, which does
  not, says that the line stays consistent in itself, not that it is right.
* **The storage projection.** `docs/CLI.md:20` lists it per scheme; `main.go:178` prints
  it only for a count that was measured, and the default of 100 is not among the default
  counts 32, 64 and 128. `StorageMatchesCommitTable` states exactly when it is there.

## 5. Proofs

`tlapm M.tla` for `FormulaProofs`, `CeilingSearchProofs`, `ReportProofs`,
`SolveProofs`, `HandshakeProofs`, `MigrationProofs`, `CliProofs` and
`DocIndexesProofs`. Every safety invariant of the passing runs but one is a
theorem of its specification, and so is the refinement of `Reports`. The one is
`PublishedFigures`, a statement about particular numbers.

The assumptions are those the modules declare: a positive `MaxInt`, `searchMax` in
`1 .. MaxInt`, an even positive `Precision` (`PrecisionAssumption`), positive `YearSeconds`, command lines as the parsers return them,
with a suppression that is a float64 (`FlagsAssumption`, `NameListsAssumption`, `MigrationAssumption`), timings that are
natural numbers (`CpuTimeAssumption`), an argv of tokens as `flag.Parse` leaves it
(`ArgvsAssumption`, which says nothing of what the tokens are), the same positivity
of the constants in the whole program (`ModesAssumption`), and a set of documents
that are paths, `INDEX.md` and `docs/INDEX.md` among them. They hold for every word size, search
bound, float64 precision, command line, platform and number of keys, samples and disturbances.
`HandshakeProofs` and `MigrationProofs` inherit the constants of `Ceiling` with the
lemmas of `FormulaProofs` and use neither of them.

**The shape of the arguments.** Nearly every property here speaks of what *was*
printed, in this report or in an earlier one, and of nothing else: a program that
has printed the right thing can be in a state from which it prints the wrong
thing next. So none is inductive, and each invariant adds two things: what the
data the next line is printed from says while the loops run, and that a printed
line does not change its meaning when the program goes on. Where a property
counts lines (whole or absent), the invariant says which lines there are for
each place of `pc`, and the count follows from it.

**Formulas** (`FormulaProofs`). The lemmas on division (`DivisionInverts`:
`n * d <= w` iff `n <= w \div d`) carry both directions: `QuotientIsCapacity` puts
the code's quotient in place of `w \div d` where no product leaves the word, and
`CeilingIsCapacity` adds the clamp. `RequirementIsInverse` uses the same lemma
with the other factor as divisor, which is why two different truncations cannot
disagree. `UseIsWithinBudget` has no such condition: it only needs that
`Quo(w, d) * d` lies between 0 and `w` for `w >= 0 < d`, so the product that
would have to overflow cannot. The second half bounds varints, votes and commits:
a commit grows with every signature.

**Loops** (`FormulaProofs`, end). Two loops of the code are recursive functions here,
the shifts of `varintLen` (`handshake.go`) and the walk over a list's tokens
(`parseInts` and its like, `main.go`), and so is the spacing of float64 values. A recursive function is a `CHOOSE`, of which
nothing is known until one is shown to exist. The library's theorems for that take
an operator as a parameter, which the provers cannot instantiate; their
counterparts here take sets and functions instead. `LeastNumber` gets the least
element of a set of numbers from the well-foundedness of `<`, `Induction` is its
contrapositive for sets, `RecursionAgrees` and `RecursionExists` build the function
up to every number and join the pieces. `VarintIsShiftLoop` uses them with the
number divided by 128 as the predecessor, so the closed form with its thresholds and
the loop agree for every size below 2^35.

**Search** (`CeilingSearchProofs`). The properties of `CeilingSearch` are not
inductive: that the search *has stopped* at the ceiling says nothing of a state
before it. `IInv` adds that every size reached fits (`ReachedSizesFit`); with
`CeilingIsCapacity` the properties follow in each state.

**Default report** (`ReportProofs`, first part). `TypeOK` alone does not carry
through the grid loops: nothing in it says that `ceilings` is non-empty when
`Tightest` takes its first element. `IInv` adds `GridStarted` (once the loops are
past the first combination there is a ceiling) and `NameKnown` (past the lookup,
the name is in the table). Sections printed are handled once, by `EmitOne`,
`EmitTwo` and `EmitThree`.

**Binding line** (`ReportProofs`, second part). `BindingAdmitsFewest` speaks of what
was printed in any earlier report; `BindingFitsEveryBudget` of combinations of
flags and of exact arithmetic. The inductive invariant follows the data from one to the
other: `OwnCost` (the sizes are this scheme's), `GridDerived` (every combination
the nested loops have passed has its row, and there are no other rows),
`BestSoFar` (the best is the smallest of the rows compared, and `BestIsFirst`, the
first of the smallest), `TablesPrinted` (the tables of earlier reports stay complete). `BindingIsTheCapacity` then applies
`CeilingIsCapacity` to the row on the binding line and to every other.

**Sections of the default report** (`ReportProofs`, third part). `SectionsRight` says of each
section printed, whichever report it is in, that it is right for its own name;
`Progress` gives the kinds of section the report under way has, one of each, as a
function of `pc`, `StorageSettled` whether it has a projection, which depends on
whether its count was measured. `SameCounts` (sorting permutes the flag's
counts), `OwnSizes` (what was measured was this scheme, at the flag's counts) and
`GridInOrder` (the rows are those of the nested loops, in order)
carry the data. That the commit table grows rests on `CommitIsProportional`, that
the breakdown adds up to the vote on `BreakdownParts`, which splits a vote at the
signature.

**Refinement** (`ReportProofs`, last part). `ReportsAreImplemented` says that the
default mode implements `Reports!Safety`, for any names, grid and counts. The two
halves of the sections' invariant give `AsPromised`: every report delivered is the
function of its name and the flags that `Reports` states without loops. That takes
a proof for each construct the code has instead: `RankedInColumn` (sorting puts at
place k the count that `Ranked` picks by counting smaller ones), `GridAsPromised`
(row k of the nested loops has the indices that `BudgetOfRow` computes by two
divisions, which `DivideTwice` joins to one), `BindingAsPromised` (the scan keeps
the first of the smallest) and `StorageAsPromised`. A step then either finishes a
report (`ClosingDelivers`), refuses one, or changes nothing of what `Reports` sees
(`InnerStep`). `SameArithmetic`, `SameCeilings` and `SameMeasures` say that the
operators of the instance are those of `Report`.

**Solve** (`SolveProofs`). `RowsAreRight` relates each finished row to its scheme and
`DemandsDivide` each demand to its budget; a cell's verdict then agrees with the
default mode's ceiling by `RequirementIsInverse` and `CeilingIsCapacity`, which is
what `CellsMatchTheCeiling` asks. `TablesGrow` says how far both tables are at each
step, `OnlyWholeReports` ties what is on standard output to how the loops ended.

**Handshake** (`HandshakeProofs`). `ProfilesAreKnown` says that each profile was made
by one of the three constructors for a scheme of the table; `NamesHaveProfiles`
gives the place of each name's profiles by its rank among the names that are not
ed25519, since the `continue` of the loop leaves that one out. `PrintedLast`: the
table is printed once, when all profiles are there. That an upgrade costs its
legs needs a bound from below on the authentication leg, which follows from the
varint of a length being at least one byte. `ClosedFormIsTheLoop` bounds every length
and size a profile is computed from (`SizeLimits`) and applies `VarintIsShiftLoop`.

**Migration** (`MigrationProofs`). `NamesLookedUp` (which names have passed the lookup and have a verification time),
`SamplesTaken` (a name being sampled lacks a key, and the row of one that was is
made from all its samples), `RowsWait` (the tab writer holds the rows of the
names before `turn`, as many as the section gives each) and `LinesPrinted` (the place of a printed line determines its
section, name and row). A percentile's rank in the pooled samples is shown for
the function the code sorts with, by taking the least and the greatest element
with a given count instead of an induction over the list. Verdicts are those
of exact arithmetic by `DivisionInverts`.

**Rounding** (`MigrationProofs`, before and after the rows of the gossip table).
`GossipStaysWithinItsBound` needs three facts of float64: rounding keeps the order of
numbers of any magnitude (`RoundedGrows`, from `SpacingGrows` within and across
binades), what was rounded is not changed by rounding again (`RoundedIsHeld`), and a
float64 times a power of two is one (`ScaledIsHeld`). The clamped fraction kept is
at most 1 after rounding, since its denominator is a power of two (`KeepWithinWhole`);
so the product is rounded to at most the float64 bound scaled by that denominator,
and truncation does the rest (`ModelledWithin`, `ModelledGrows`). The theorem claims
the bound itself only up to `Precision`; beyond, it is the float64 nearest to it, and
finding 2 shows that no more is true.

**Command line** (`CliProofs`). `ParsedAs` is the contract the three parsers have in
common: either one value of the flag's kind for each token that is not blank, or nothing
and a token to blame. `ParseIsRight` shows it for tokens of any value and unit, so also
for fractions, infinities, NaN and numbers beyond the word. The invariant adds that
the mode was decided once (`Decided`), that the lists before `next` are those of their
parsers (`ListsParsed`), that nothing is printed or refused while lists are missing
(`SilentSoFar`), and what a mode was called with (`Called`) or why not
(`RefusedOne`). A step of a mode keeps it, since the modes share `pc` and
`stdout` with `main` but change neither the flags nor, beyond their order, the
counts (`ModeStep`, `SortedCounts`). The attempt to prove this found an error of the
model: its `parseInts` took integers of any size, where `Atoi` refuses those beyond
the word, and the modes' assumptions are about words.

**The whole program** (end of `CliProofs`). The proofs of the four modes are
instanced for the command lines `main` makes: `SolveFlags`, `ReportFlags` and
`MigrationFlags` are *all* those whose lists are of the right kind and not empty, which is
what the modes' own theorems assume of `Flags`. `Cli` itself takes the modes'
modules with an empty `Flags`, as it never uses their `Init`; `SameSolve` and its
likes show, definition by definition, that the steps and promises of the two
instances are the same. `SolveEntered` and its likes show that `main` calls
a mode in a state which satisfies that mode's `Init`: `NoneEmpty` for the lists, and
`Untouched` for the variables no one has written while `main` was parsing. From
there the mode's inductive invariant is preserved by its own steps, and other modes
take none (`RunsOnlyWhenCalled`). So `ModesInv` carries the invariant of whatever mode
was called into the program, and `ProgramKeepsItsWord` follows: what the program
has printed when it ends is whole, or absent, as that mode promises.

**Document indexes** (`DocIndexesProofs`). `RebuildsListEveryDocument` is about
tracked documents that are not skipped and have no white space in their names; the
others are dropped by the code (section 4). `RunIsCurrent` says what a run holds in its
variables compared with the disk: the list of documents and the two texts are those
of the time they were read unless somebody disturbed since. `CheckCounts` ties
the exit code of `--check` to its comparisons, `RebuildWrote` says what a
finished half of a rebuild has left behind, `CalmSettles` what holds after one and
after two undisturbed rebuilds. The proof needs that `docs` itself is not a
document, since `docs/INDEX.md` is found below it.

**Only model-checked.** Liveness: `Terminates`, `RebuildsSettle`, `AlwaysEnds`
and `EndsAsPromised`, the liveness of the refinement, which are out of the proof
system's reach. `MCCli.PublishedFigures`, a statement about particular numbers.

## 6. Plan

1. *Done*: ceiling model with its reference search; default report, refined from
   `Reports`; solve; handshake; migration with the CPU sampling; the command line
   composed with the modes; the document indexes.
2. *Done*: proofs of the ceiling model, the default report, solve, handshake,
   migration and the document indexes, as section 5 lists them.
3. *Done*: the safety of the refinement, on top of the sections' invariant.
4. *Done*: the proofs of `ModesStartOnWhatTheyAssume`, by a case for each parser, and of
   `VarintsCountShifts`, by an induction of its own.
5. *Done*: the composition, `ProgramKeepsItsWord`, from the proofs of the modes.

**Not modelled, and why.** CometBFT, protobuf, its crypto and git: outside the
repository; their size rules are in `Wire`, their errors and answers are choices.
How long an operation really takes. Memory: a huge `--validators` allocates
accordingly, which no property here speaks of. Formatting, percentages among it
(and with them `--block-bytes`, whose only use is a percentage): no claim of the
project depends on it. The tests: read for the figures and claims they assert.
`main` with `--help` or a malformed flag ends inside the flag package.

Hazards of the code, each at its line and with the properties that would notice
it going wrong, are listed in `PROJECT.json`.
