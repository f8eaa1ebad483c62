----------------------------- MODULE Migration -----------------------------
(***************************************************************************)
(* The --migration mode: reportMigration and the figures of migration.go.  *)
(* Signing and verifying are timed for the schemes CometBFT implements,    *)
(* key by key; then every name is held against the round time, and its     *)
(* client update, gossip and mitigations are computed.                     *)
(*                                                                         *)
(* The rows of a table wait in a tab writer until it is flushed; headings  *)
(* and closing lines go straight to standard output.  An error returns at  *)
(* once, with whatever rows are waiting lost.  The name loops take one     *)
(* action per name, and the sampling one per key.  Closing sentences,      *)
(* units and percentages are not modelled.                                 *)
(***************************************************************************)
EXTENDS CpuTime, Measure, Floats, FiniteSets

CONSTANTS
  Flags,       (* the parsed command lines a behaviour may start from *)
  Durations,   (* what the clock may measure for one operation *)
  Iterations   (* how often an operation is timed: 2000 *)

FlagSet ==
  [schemes     : Seq(STRING),
   counts      : Seq(Nat \ {0}),
   rounds      : Seq({r \in Nat \X Nat : r[2] = 0 => r[1] \in {0, 1}} \ {<<0, 1>>}),
   peers       : Seq(1 .. MaxInt),
   cores       : Int64,       (* --cores, which is not validated *)
   suppression : Float64s,    (* --gossip-suppression, which is not validated *)
   arch        : Archs]

ASSUME MigrationAssumption ==
  /\ Flags \subseteq FlagSet
  /\ \A f \in Flags : <<>> \notin {f.schemes, f.counts, f.rounds, f.peers}
  /\ Durations \subseteq Nat
  /\ Iterations \in Nat \ {0}

VARIABLES
  flags,      (* the command line: never changes *)
  pc,         (* the section reportMigration is in, or how the program ended *)
  turn,       (* the name the section's loop has reached *)
  keys,       (* the keys that are still to be sampled *)
  signs,      (* the signing times of the keys so far *)
  verifies,   (* the verification times of the keys so far *)
  verifyFor,  (* the verification time a round is sized on, by scheme name *)
  rows,       (* what waits in the tab writer *)
  stdout      (* headings and tables printed *)

vars == <<flags, pc, turn, keys, signs, verifies, verifyFor, rows, stdout>>

name     == flags.schemes[turn]
scheme   == lookupScheme(name)
MoreNames == turn <= Len(flags.schemes)

(* The schemes CometBFT ships an implementation of.                        *)
Implemented == {"ed25519", "ml-dsa-65", "composite-ed25519-ml-dsa-65"}

Goto(label) == pc' = label

(* Mutant: an error that does not show in the exit code.                   *)
Ignore == Goto("exit 0")

Fail == Goto("exit 1")

Heading(section)     == [kind |-> "heading", of |-> section]
Table(section, data) == [kind |-> section, rows |-> data]

-----------------------------------------------------------------------------
(* The bytes of a client update: the commit, and the validator set with a  *)
(* key per validator and their total power, an int64 product that may      *)
(* wrap.  ProposerPriority is 0.                                           *)
VotingPower == 1000000

Validator(pubKey) ==
  BytesField(AddressWidth) + MessageField(BytesField(pubKey)) + VarintField(VotingPower)

MeasureClientUpdate(s, validators) ==
  LET commit == commitBytes(validators, s.sigBytes)
      set    == validators * MessageField(Validator(s.pubKeyBytes))
                  + Int64Field(Wrap(validators * VotingPower))
  IN  [scheme |-> s.name, validators |-> validators, commit |-> commit,
       validatorSet |-> set, total |-> commit + set]

(* Mutant: only negative fractions are corrected.                          *)
ClampBelow(s) == IF s[1] < 0 THEN <<0, 1>> ELSE s

(* The two comparisons are false for NaN, which passes.                    *)
ClampFraction(s) ==
  IF s[1] < 0 THEN <<0, 1>> ELSE IF s[1] > s[2] THEN <<1, 1>> ELSE s

(* int64(float64(upper) * (1 - suppression)): upper wraps, and each of the *)
(* conversion, the difference and the product is rounded to a float64.     *)
Modelled(upper) ==
  LET s     == ClampFraction(flags.suppression)
      share == Rounded(s[2] - s[1])
  IN  FloatToInt(flags.arch, <<Rounded(Rounded(upper) * share), s[2]>>)

EstimateGossip(cost, validators, peers) ==
  LET upper == Wrap(validators * cost * peers)
  IN  [scheme |-> scheme.name, validators |-> validators, peers |-> peers,
       upper |-> upper, modelled |-> Modelled(upper)]

(* Mutant: one BlockID is taken off for two votes.                         *)
compactOnce(sizes) ==
  RoundTripBytes(sizes) - (sizes.prevoteBlock - sizes.prevoteNil) + 2 * 4

(* A four-byte reference in the place of both BlockIDs.                    *)
compact(sizes) ==
  RoundTripBytes(sizes) - 2 * (sizes.prevoteBlock - sizes.prevoteNil) + 2 * 4

Change(title, cost, applicable) ==
  [change |-> title, cost |-> cost, applicable |-> applicable]

Mitigations(sizes) ==
  << Change("none", RoundTripBytes(sizes), TRUE),
     Change("compact votes", compact(sizes), TRUE),
     Change("aggregation", RoundTripBytes(sizes), FALSE),
     Change("committee", RoundTripBytes(sizes), TRUE) >>

-----------------------------------------------------------------------------
Init ==
  /\ flags \in Flags
  /\ pc = "cpu"
  /\ turn = 1
  /\ keys = 0
  /\ signs = <<>>
  /\ verifies = <<>>
  /\ verifyFor = <<>>
  /\ rows = <<>>
  /\ stdout = <<Heading("cpu")>>

(* The lookup; a scheme without an implementation gets a row of dashes.    *)
StartScheme ==
  /\ pc = "cpu"
  /\ MoreNames
  /\ signs' = <<>>
  /\ verifies' = <<>>
  /\ IF name \in Implemented
     THEN /\ keys' = IF name = "ed25519" THEN 1 ELSE keyRounds(Iterations)
          /\ Goto("sample")
          /\ UNCHANGED <<turn, rows>>
     ELSE /\ UNCHANGED keys
          /\ IF name \in SchemeNames
             THEN /\ rows' = Append(rows, [scheme |-> name])
                  /\ turn' = turn + 1
                  /\ UNCHANGED pc
             ELSE Fail /\ UNCHANGED <<turn, rows>>
  /\ UNCHANGED <<flags, verifyFor, stdout>>

(* What one call of sample returns: it times, and sorts what it timed.     *)
PerKey ==
  IF name = "ed25519" THEN Iterations ELSE Iterations \div keyRounds(Iterations)

Sample ==
  {s \in [1 .. PerKey -> Durations] : \A j, k \in DOMAIN s : j <= k => s[j] <= s[k]}

(* One key: generating it or signing with it can fail.                     *)
SampleKey ==
  /\ pc = "sample"
  /\ keys > 0
  /\ \/ /\ \E s, v \in Sample : signs' = signs \o s /\ verifies' = verifies \o v
        /\ keys' = keys - 1
        /\ UNCHANGED pc
     \/ Fail /\ UNCHANGED <<keys, signs, verifies>>
  /\ UNCHANGED <<flags, turn, verifyFor, rows, stdout>>

Profile == profileFrom(name, sortDurations(signs), sortDurations(verifies))

(* Mutant: the round is sized on the median.                               *)
SizedOnMedian == Profile.verifyP50

SizedOn == Profile.verifyP95

FinishScheme ==
  /\ pc = "sample"
  /\ keys = 0
  /\ IF ProfilePanics(signs)
     THEN Goto("panic") /\ UNCHANGED <<turn, verifyFor, rows>>
     ELSE /\ verifyFor' = [n \in DOMAIN verifyFor \cup {name} |->
                             IF n = name THEN SizedOn ELSE verifyFor[n]]
          /\ rows' = Append(rows, Profile)
          /\ turn' = turn + 1
          /\ Goto("cpu")
  /\ UNCHANGED <<flags, keys, signs, verifies, stdout>>

(* Mutant: the waiting rows are not flushed and stay for the next table.   *)
FlushLate(section, next) ==
  /\ pc = section
  /\ ~MoreNames
  /\ stdout' = stdout \o <<Table(section, SubSeq(rows, 1, Len(rows) - 1)), Heading(next)>>
  /\ rows' = SubSeq(rows, Len(rows), Len(rows))
  /\ turn' = 1
  /\ Goto(next)

(* The end of a section's loop: the table is flushed and the next section  *)
(* begins with its heading.                                                *)
Flush(section, next) ==
  /\ pc = section
  /\ ~MoreNames
  /\ stdout' = stdout \o <<Table(section, rows), Heading(next)>>
  /\ rows' = <<>>
  /\ turn' = 1
  /\ Goto(next)

FlushScheme ==
  /\ Flush("cpu", "round")
  /\ signs' = <<>>
  /\ verifies' = <<>>
  /\ UNCHANGED <<flags, keys, verifyFor>>

(* A nested loop over two lists, the second innermost, a row for each pair. *)
Pairs(s, t, Row(_, _)) ==
  [k \in 1 .. Len(s) * Len(t) |->
     Row(s[(k - 1) \div Len(t) + 1], t[((k - 1) % Len(t)) + 1])]

AddRows(section, new) ==
  /\ pc = section
  /\ MoreNames
  /\ rows' = rows \o new
  /\ turn' = turn + 1
  /\ UNCHANGED <<flags, pc, keys, signs, verifies, verifyFor, stdout>>

(* Mutant: an error ends the name and not the program.                     *)
SkipIn(section) ==
  /\ pc = section
  /\ MoreNames
  /\ turn' = turn + 1
  /\ UNCHANGED <<flags, pc, keys, signs, verifies, verifyFor, rows, stdout>>

FailIn(section) ==
  /\ pc = section
  /\ MoreNames
  /\ Fail
  /\ UNCHANGED <<flags, turn, keys, signs, verifies, verifyFor, rows, stdout>>

RoundRow(validators, round) ==
  [scheme  |-> name,
   verdict |-> AssessRound(flags.arch, validators, round, verifyFor[name], flags.cores)]

(* A name that was not timed is passed over.  From here on every name is   *)
(* known: the first loop has looked all of them up.                        *)
AssessRounds ==
  AddRows("round",
    IF name \in DOMAIN verifyFor THEN Pairs(flags.counts, flags.rounds, RoundRow) ELSE <<>>)

FlushRounds ==
  Flush("round", "ibc") /\ UNCHANGED <<flags, keys, signs, verifies, verifyFor>>

MeasureUpdates ==
  AddRows("ibc",
    [k \in DOMAIN flags.counts |-> MeasureClientUpdate(scheme, flags.counts[k])])

FailUpdate == FailIn("ibc")

FlushUpdates ==
  Flush("ibc", "gossip") /\ UNCHANGED <<flags, keys, signs, verifies, verifyFor>>

EstimateAll ==
  AddRows("gossip",
    Pairs(flags.counts, flags.peers,
      LAMBDA n, p : EstimateGossip(RoundTripBytes(MeasureSizes(scheme, flags.counts)), n, p)))

FailGossip == FailIn("gossip")

FlushGossip ==
  Flush("gossip", "mitigations") /\ UNCHANGED <<flags, keys, signs, verifies, verifyFor>>

(* Each name's mitigations have a tab writer of their own.                 *)
PrintMitigations ==
  /\ pc = "mitigations"
  /\ MoreNames
  /\ stdout' = Append(stdout, Table("mitigations", Mitigations(MeasureSizes(scheme, <<100>>))))
  /\ turn' = turn + 1
  /\ UNCHANGED <<flags, pc, keys, signs, verifies, verifyFor, rows>>

FailMitigations == FailIn("mitigations")

Close ==
  /\ pc = "mitigations"
  /\ ~MoreNames
  /\ stdout' = Append(stdout, [kind |-> "closing"])
  /\ Goto("exit 0")
  /\ UNCHANGED <<flags, turn, keys, signs, verifies, verifyFor, rows>>

Next ==
  \/ StartScheme \/ SampleKey \/ FinishScheme \/ FlushScheme
  \/ AssessRounds \/ FlushRounds
  \/ MeasureUpdates \/ FailUpdate \/ FlushUpdates
  \/ EstimateAll \/ FailGossip \/ FlushGossip
  \/ PrintMitigations \/ FailMitigations \/ Close

(* One thread runs the program, and nothing in it waits.                   *)
Spec == Init /\ [][Next]_vars /\ WF_vars(Next)

-----------------------------------------------------------------------------
Sections == <<"cpu", "round", "ibc", "gossip", "mitigations">>

CpuRows == [scheme : SchemeNames]
  \cup [scheme : Implemented, signP50 : Durations, signP95 : Durations, signMin : Durations,
        signMax : Durations, verifyP50 : Durations, verifyP95 : Durations]

RoundRows == [scheme : Implemented,
  verdict : [validators : Range(flags.counts), round : Range(flags.rounds), verify : Durations,
             withCores : Int64, share : Int64 \X Int64, fits : BOOLEAN]]

UpdateRows == [scheme : SchemeNames, validators : Range(flags.counts),
               commit : Nat, validatorSet : Nat, total : Nat]

GossipRows == [scheme : SchemeNames, validators : Range(flags.counts),
               peers : Range(flags.peers), upper : Int64, modelled : Int64]

Changes == {"none", "compact votes", "aggregation", "committee"}

(* What may wait in the tab writer, section by section.                    *)
RowsWaiting(section) ==
  CASE section \in {"cpu", "sample"} -> CpuRows
    [] section = "round"  -> RoundRows
    [] section = "ibc"    -> UpdateRows
    [] section = "gossip" -> GossipRows
    [] OTHER              -> CpuRows \cup RoundRows \cup UpdateRows \cup GossipRows

TablesOf(section) == [kind : {section}, rows : Seq(RowsWaiting(section))]

Lines ==
  [kind : {"heading"}, of : Range(Sections)] \cup [kind : {"closing"}]
    \cup TablesOf("cpu") \cup TablesOf("round") \cup TablesOf("ibc") \cup TablesOf("gossip")
    \cup [kind : {"mitigations"},
          rows : Seq([change : Changes, cost : Nat, applicable : BOOLEAN])]

TypeOK ==
  /\ flags \in Flags
  /\ pc \in Range(Sections) \cup {"sample", "exit 0", "exit 1", "panic"}
  /\ turn \in 1 .. Len(flags.schemes) + 1
  /\ keys \in 0 .. MostKeys
  /\ signs \in Seq(Durations) /\ verifies \in Seq(Durations)
  /\ verifyFor \in [DOMAIN verifyFor -> Durations] /\ DOMAIN verifyFor \subseteq Implemented
  /\ rows \in Seq(RowsWaiting(pc))
  /\ stdout \in Seq(Lines)

Ended == pc \in {"exit 0", "exit 1", "panic"}

Printed(section) == {t.rows : t \in {x \in Range(stdout) : x.kind = section}}

(* The places in a table of the rows that are about one scheme.            *)
RowsOf(table, n) == {k \in DOMAIN table : table[k].scheme = n}

(* The places of the mitigation tables on standard output.                 *)
MitigationTables == {k \in DOMAIN stdout : stdout[k].kind = "mitigations"}

Times(n) == Cardinality({t \in DOMAIN flags.schemes : flags.schemes[t] = n})

(***************************************************************************)
(* A table is on standard output with every row it should have, names that *)
(* are repeated or cannot be timed included, or it is not there at all: no *)
(* row is lost between two tables or printed under the next heading.  A    *)
(* run that ends early has the tables of the sections before and nothing   *)
(* after, a name that is not known leaves no table whatever its place, and *)
(* a run that ends well has them all.                                      *)
(***************************************************************************)
Size(section, n) ==
  CASE section = "cpu"    -> 1
    [] section = "round"  -> IF n \in Implemented THEN Len(flags.counts) * Len(flags.rounds) ELSE 0
    [] section = "ibc"    -> Len(flags.counts)
    [] section = "gossip" -> Len(flags.counts) * Len(flags.peers)

TablesAreWholeOrAbsent ==
  /\ \A section \in Range(Sections) \ {"mitigations"} : \A table \in Printed(section) :
       /\ \A n \in Range(flags.schemes) :
            Cardinality(RowsOf(table, n)) = Times(n) * Size(section, n)
       /\ \A k \in DOMAIN table : table[k].scheme \in Range(flags.schemes)
  /\ \A k \in 1 .. 4 : Printed(Sections[k]) = {} => Printed(Sections[k + 1]) = {}
  /\ Range(flags.schemes) \subseteq SchemeNames \/ Printed("cpu") = {}
  /\ pc = "exit 0" =>
       /\ \A section \in Range(Sections) : Printed(section) # {}
       /\ Cardinality(MitigationTables) = Len(flags.schemes)
  /\ pc = "panic" => Iterations < MostKeys

(***************************************************************************)
(* Percentiles are of all the keys' samples together: as many samples as   *)
(* the rank says are up to the figure printed, and the rest are not below  *)
(* it.  The spread is therefore at least one where the clock saw anything. *)
(***************************************************************************)
AtRank(samples, d, p) ==
  LET before == ((Len(samples) - 1) * p[1]) \div p[2]
  IN  Below(samples, d) <= before /\ before < Within(samples, d)

PercentilesRankAllKeys ==
  pc = "cpu" /\ signs # <<>> =>
    LET row == rows[Len(rows)]
    IN  /\ AtRank(signs, row.signP50, Median) /\ AtRank(signs, row.signP95, Tail95)
        /\ AtRank(verifies, row.verifyP50, Median) /\ AtRank(verifies, row.verifyP95, Tail95)
        /\ \A k \in DOMAIN signs : signs[k] \in row.signMin .. row.signMax
        /\ row.signP50 > 0 => SignSpread(row)[1] >= SignSpread(row)[2]

(***************************************************************************)
(* "Size the round on the tail, not the median": every line of the round   *)
(* table rests on the 95th percentile of a line printed for the same       *)
(* scheme in the first table, the last one when the name is repeated, and  *)
(* not on a time left over from another name.                              *)
(***************************************************************************)
RoundsRestOnTheTail ==
  \A timed \in Printed("cpu") : \A table \in Printed("round") : \A k \in DOMAIN table :
    LET own == RowsOf(timed, table[k].scheme)
    IN  \E last \in own :
          /\ \A j \in own : j <= last
          /\ table[k].verdict.verify = timed[last].verifyP95

(***************************************************************************)
(* The verdict is that of exact arithmetic, 2(n - 1) verifications on the  *)
(* cores in less than the round, although the time was truncated when it   *)
(* was divided, as long as the product and the round fit the word; it does *)
(* not contradict the share printed beside it.                             *)
(***************************************************************************)
VerdictsAreExact ==
  \A table \in Printed("round") : \A k \in DOMAIN table :
    LET v     == table[k].verdict
        work  == 2 * (v.validators - 1) * v.verify
        round == (v.round[1] * Second) \div v.round[2]
    IN  v.round[2] > 0 /\ work <= MaxInt /\ round <= MaxInt =>
          /\ v.fits <=> work < round * AtLeastOne(flags.cores)
          /\ round > 0 => (v.fits <=> v.share[1] < v.share[2])

(***************************************************************************)
(* Unless the bound or its float64 overflows, or the fraction is not a     *)
(* number: what is modelled lies between 0 and the bound, whatever         *)
(* --gossip-suppression says, from 2^53 on between 0 and the float64       *)
(* nearest to the bound, and no line of a larger set or of more peers      *)
(* shows less than a smaller one.                                          *)
(***************************************************************************)
Traffic(g) ==
  g.validators * RoundTripBytes(MeasureSizes(lookupScheme(g.scheme), <<>>)) * g.peers

ExactGossip(g) == Traffic(g) <= MaxInt /\ Rounded(Traffic(g)) <= MaxInt

GossipWithinBound ==
  flags.suppression # <<0, 0>> =>
    \A table \in Printed("gossip") : \A j, k \in DOMAIN table :
      LET g == table[j]  h == table[k]
      IN  ExactGossip(g) /\ ExactGossip(h) =>
            /\ g.upper = Traffic(g)
            /\ g.modelled \in 0 .. Rounded(g.upper)
            /\ g.upper <= Precision => g.modelled <= g.upper
            /\ g.scheme = h.scheme /\ g.validators <= h.validators /\ g.peers <= h.peers
                 => g.upper <= h.upper /\ g.modelled <= h.modelled

(***************************************************************************)
(* A figure "above the broadcast bound ... would be incoherent", and so is *)
(* a negative one (measure_test.go:369-380), and the bound "overstates     *)
(* real traffic" (migration.go:79-80): the modelled figure is between 0    *)
(* and the bound beside it, and the bound is not below what forwarding     *)
(* every vote to every peer would send.  Refuted by the rounding of        *)
(* float64 and, with more validators and peers, by a bound that wraps.     *)
(***************************************************************************)
GossipIsCoherent ==
  \A table \in Printed("gossip") : \A k \in DOMAIN table :
    /\ table[k].modelled \in 0 .. table[k].upper
    /\ Traffic(table[k]) <= table[k].upper

(***************************************************************************)
(* The changes are about the votes of the same scheme: the compact vote    *)
(* costs what two votes for no block would, with a reference in each, and  *)
(* so less than as shipped; and aggregation is never offered, although its *)
(* line is there ("the Applicable column").                                *)
(***************************************************************************)
MitigationsFollowTheVotes ==
  \A k \in MitigationTables :
    LET turns == Cardinality({j \in MitigationTables : j <= k})
        sizes == MeasureSizes(lookupScheme(flags.schemes[turns]), <<>>)
        cost  == [change \in Changes |-> CASE
                    change = "compact votes" -> sizes.prevoteNil + sizes.precommitNil + 2 * 4
                    [] OTHER                 -> RoundTripBytes(sizes)]
    IN  /\ \A change \in Changes : \E row \in Range(stdout[k].rows) : row.change = change
        /\ \A row \in Range(stdout[k].rows) :
             /\ row.cost = cost[row.change]
             /\ row.change = "aggregation" => ~row.applicable
        /\ cost["compact votes"] < cost["none"]
=============================================================================
