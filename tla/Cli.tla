-------------------------------- MODULE Cli --------------------------------
(***************************************************************************)
(* The program: main decides on one mode, parses the lists that mode uses, *)
(* stops at the first it cannot parse, and hands the rest to the mode.     *)
(* The modes are the modules Report, Solve, Handshake and Migration; they  *)
(* share the command line, the program counter, the name they have reached *)
(* and standard output, and each leaves the variables of the others alone. *)
(*                                                                         *)
(* A list is a sequence of tokens, split at the commas and trimmed.        *)
(***************************************************************************)
EXTENDS Ceiling, Measure, Floats

CONSTANTS
  YearSeconds, Second, KeyStep, LeastKeys, MostKeys, Durations, Iterations,
  Argvs   (* the command lines, as flag.Parse leaves them *)

VARIABLES
  argv,      (* never changes *)
  mode,      (* the mode main has decided on *)
  parsed,    (* the lists parsed so far, by flag *)
  next,      (* the next of the mode's lists *)
  refused,   (* the flag named in the error message *)
  flags,     (* what the mode is called with *)
  pc,
  turn,
  stdout,
  counts, sizes, cell, ceilings, scan, best,   (* Report *)
  target, demands,                             (* Solve *)
  profiles,                                    (* Handshake *)
  keys, signs, verifies, verifyFor,            (* Migration *)
  rows                                         (* Solve and Migration *)

cli       == <<argv, mode, parsed, next, refused>>
report    == <<counts, sizes, cell, ceilings, scan, best>>
solve     == <<target, demands>>
migration == <<keys, signs, verifies, verifyFor>>
vars      == <<cli, flags, pc, turn, stdout, report, solve, profiles, migration, rows>>

(* The modes' command lines are not drawn from a set here, they are made.  *)
R == INSTANCE Report WITH Flags <- {}
S == INSTANCE Solve WITH Flags <- {}
H == INSTANCE Handshake WITH NameLists <- {}, names <- flags.schemes
M == INSTANCE Migration WITH Flags <- {}

-----------------------------------------------------------------------------
(* A token is blank, not a number, or a number with one of the units.      *)
Blank               == [kind |-> "blank"]
Junk                == [kind |-> "junk"]
Number(value, unit) == [kind |-> "number", value |-> value, unit |-> unit]

Units == [none |-> 1, kbit |-> 1000, mbit |-> 1000000, gbit |-> 1000000000]

Tokens == {Blank, Junk} \cup [kind : {"number"}, value : Fractions, unit : DOMAIN Units]

ArgvSet ==
  [list_schemes : BOOLEAN, solve : BOOLEAN, migration : BOOLEAN, handshake : BOOLEAN,
   schemes     : Seq(STRING) \ {<<>>},
   validators  : Seq(Tokens), links : Seq(Tokens), rounds : Seq(Tokens), peers : Seq(Tokens),
   storageVals : Int64, blockSecs : Int \X Nat, cores : Int64, suppression : Float64s,
   arch        : Archs]

ASSUME ArgvsAssumption == Argvs \subseteq ArgvSet

(* What the modes assume of the constants that are not given by argv.      *)
ASSUME ModesAssumption ==
  /\ {YearSeconds, Second, KeyStep, LeastKeys, MostKeys, Iterations} \subseteq Nat \ {0}
  /\ LeastKeys <= MostKeys
  /\ Durations \subseteq Nat

(* v <= 0, which is false for NaN.                                         *)
NotPositive(v) == v[1] < 0 \/ (v[1] = 0 /\ v[2] > 0)

(* The tokens up to each place that are not blank.                         *)
Given(tokens) ==
  LET given[k \in 0 .. Len(tokens)] ==
        IF k = 0 THEN <<>>
        ELSE IF tokens[k].kind = "blank" THEN given[k - 1]
        ELSE Append(given[k - 1], tokens[k])
  IN  given[Len(tokens)]

(* One bad token, or none that is not blank, is an error, for which <<>>   *)
(* stands.                                                                 *)
parseList(tokens, Accepts(_), Value(_)) ==
  LET given == Given(tokens)
  IN  IF \A t \in Range(given) : t.kind = "number" /\ Accepts(t)
      THEN [k \in DOMAIN given |-> Value(given[k])]
      ELSE <<>>

(* Mutant: only negative numbers are refused.                              *)
parseIntsFromZero(tokens) ==
  parseList(tokens,
    LAMBDA t : t.unit = "none" /\ t.value[2] = 1 /\ t.value[1] \in 0 .. MaxInt,
    LAMBDA t : t.value[1])

(* Atoi refuses what does not fit the word.                                *)
parseInts(tokens) ==
  parseList(tokens,
    LAMBDA t : t.unit = "none" /\ t.value[2] = 1 /\ t.value[1] \in 1 .. MaxInt,
    LAMBDA t : t.value[1])

parseFloats(tokens) ==
  parseList(tokens,
    LAMBDA t : t.unit = "none" /\ ~NotPositive(t.value),
    LAMBDA t : t.value)

(* int64(v * mult): a fraction of a bit becomes 0, and what is too large   *)
(* for the word whatever the platform makes of it.                         *)
parseLinks(tokens) ==
  parseList(tokens,
    LAMBDA t : ~NotPositive(t.value),
    LAMBDA t : FloatToInt(argv.arch, <<t.value[1] * Units[t.unit], t.value[2]>>))

parse(flag) ==
  CASE flag = "validators" -> parseInts(argv.validators)
    [] flag = "links"      -> parseLinks(argv.links)
    [] flag = "rounds"     -> parseFloats(argv.rounds)
    [] flag = "peers"      -> parseInts(argv.peers)

(* The lists a mode parses, in its order.                                  *)
ListsOf ==
  [list      |-> <<>>,
   solve     |-> <<"links", "rounds", "peers">>,
   migration |-> <<"validators", "rounds", "peers">>,
   handshake |-> <<>>,
   default   |-> <<"validators", "links", "rounds", "peers">>]

-----------------------------------------------------------------------------
Init ==
  /\ argv \in Argvs
  /\ mode = "undecided"
  /\ parsed = [flag \in {"validators", "links", "rounds", "peers"} |-> <<>>]
  /\ next = 1
  /\ refused = "none"
  /\ flags = <<>>
  /\ pc = "main"
  /\ turn = 1
  /\ stdout = <<>>
  /\ counts = <<>> /\ sizes = <<>> /\ cell = <<1, 1, 1>>
  /\ ceilings = <<>> /\ scan = 1 /\ best = <<>>
  /\ target = 1 /\ demands = <<>>
  /\ profiles = <<>>
  /\ keys = 0 /\ signs = <<>> /\ verifies = <<>> /\ verifyFor = <<>>
  /\ rows = <<>>

(* The first of the mode flags wins.                                       *)
Decide ==
  /\ pc = "main"
  /\ mode' = IF argv.list_schemes THEN "list"
             ELSE IF argv.solve THEN "solve"
             ELSE IF argv.migration THEN "migration"
             ELSE IF argv.handshake THEN "handshake"
             ELSE "default"
  /\ pc' = "parse"
  /\ UNCHANGED <<argv, parsed, next, refused, flags, turn, stdout>>
  /\ UNCHANGED <<report, solve, profiles, migration, rows>>

Parse ==
  /\ pc = "parse"
  /\ next <= Len(ListsOf[mode])
  /\ LET flag == ListsOf[mode][next]
         list == parse(flag)
     IN  IF list = <<>>
         THEN /\ refused' = flag
              /\ pc' = "exit 1"
              /\ UNCHANGED <<parsed, next>>
         ELSE /\ parsed' = [parsed EXCEPT ![flag] = list]
              /\ next' = next + 1
              /\ UNCHANGED <<refused, pc>>
  /\ UNCHANGED <<argv, mode, flags, turn, stdout>>
  /\ UNCHANGED <<report, solve, profiles, migration, rows>>

(* main has all it needs and calls the mode, which begins at label.        *)
Enter(m, label) ==
  /\ pc = "parse"
  /\ mode = m
  /\ next > Len(ListsOf[m])
  /\ pc' = label
  /\ UNCHANGED <<cli, turn, sizes, cell, ceilings, scan, best, solve, profiles, migration, rows>>

printSchemes ==
  /\ Enter("list", "exit 0")
  /\ stdout' = [k \in DOMAIN schemes |-> <<schemes[k].name, schemes[k].sigBytes, schemes[k].pubKeyBytes>>]
  /\ UNCHANGED <<flags, counts>>

EnterSolve ==
  /\ Enter("solve", "require")
  /\ flags' = [schemes |-> argv.schemes, links |-> parsed["links"], rounds |-> parsed["rounds"],
               peers |-> parsed["peers"], arch |-> argv.arch]
  /\ UNCHANGED <<stdout, counts>>

EnterMigration ==
  /\ Enter("migration", "cpu")
  /\ flags' = [schemes |-> argv.schemes, counts |-> parsed["validators"],
               rounds |-> parsed["rounds"], peers |-> parsed["peers"], cores |-> argv.cores,
               suppression |-> argv.suppression, arch |-> argv.arch]
  /\ stdout' = <<M!Heading("cpu")>>
  /\ UNCHANGED counts

EnterHandshake ==
  /\ Enter("handshake", "upstream")
  /\ flags' = [schemes |-> argv.schemes]
  /\ UNCHANGED <<stdout, counts>>

EnterReport ==
  /\ Enter("default", "lookup")
  /\ flags' = [schemes |-> argv.schemes, counts |-> parsed["validators"],
               links |-> parsed["links"], rounds |-> parsed["rounds"], peers |-> parsed["peers"],
               storageVals |-> argv.storageVals, blockSecs |-> argv.blockSecs,
               arch |-> argv.arch]
  /\ counts' = parsed["validators"]
  /\ UNCHANGED stdout

RunReport ==
  /\ mode = "default"
  /\ R!Next
  /\ UNCHANGED <<cli, solve, profiles, migration, rows>>

RunSolve ==
  /\ mode = "solve"
  /\ S!Next
  /\ UNCHANGED <<cli, report, profiles, migration>>

RunHandshake ==
  /\ mode = "handshake"
  /\ UNCHANGED flags
  /\ H!Next
  /\ UNCHANGED <<cli, report, solve, migration, rows>>

RunMigration ==
  /\ mode = "migration"
  /\ M!Next
  /\ UNCHANGED <<cli, report, solve, profiles>>

Next ==
  \/ Decide
  \/ Parse
  \/ printSchemes
  \/ EnterSolve \/ EnterMigration \/ EnterHandshake \/ EnterReport
  \/ RunSolve \/ RunMigration \/ RunHandshake \/ RunReport

(* One thread runs the program, and nothing in it waits.                   *)
Spec == Init /\ [][Next]_vars /\ WF_vars(Next)

-----------------------------------------------------------------------------
Ended == pc \in {"exit 0", "exit 1", "panic"}

Entered == pc \notin {"main", "parse"} /\ refused = "none"

(* The lists a mode was called with, for all that main knows of it.        *)
Accepted ==
  CASE mode = "list"      -> TRUE
    [] mode = "solve"     -> flags \in S!FlagSet
    [] mode = "migration" -> flags \in M!FlagSet
    [] mode = "handshake" -> flags.schemes \in Seq(STRING)
    [] mode = "default"   -> flags \in R!FlagSet /\ Range(counts) = Range(flags.counts)

(* What no list of the flag may hold; counts have neither unit nor         *)
(* fraction and fit the word.                                              *)
Bad(flag, t) ==
  \/ t.kind # "number"
  \/ t.value[1] < 0 \/ (t.value[1] = 0 /\ t.value[2] # 0)
  \/ flag # "links" /\ t.unit # "none"
  \/ flag \in {"validators", "peers"} /\ (t.value[2] # 1 \/ t.value[1] > MaxInt)

(***************************************************************************)
(* A mode is called only with lists of the kind its own module assumes:    *)
(* not empty, counts and peers positive, links in the word and rounds      *)
(* positive, infinite or not a number, one entry for every token that is   *)
(* not blank.  If one of the lists it uses is not of that kind, nothing    *)
(* has been printed and that flag is named; the other lists, and those it  *)
(* does not use, are never refused.                                        *)
(***************************************************************************)
ModesStartOnWhatTheyAssume ==
  /\ Entered =>
       /\ Accepted
       /\ \A flag \in Range(ListsOf[mode]) :
            parsed[flag] # <<>> /\ Len(parsed[flag]) = Len(Given(argv[flag]))
  /\ refused # "none" =>
       /\ stdout = <<>> /\ pc = "exit 1"
       /\ refused \in Range(ListsOf[mode])
       /\ LET given == Given(argv[refused])
          IN  given = <<>> \/ \E t \in Range(given) : Bad(refused, t)

(* What each mode promises of a run that has ended.                        *)
Kept ==
  CASE mode = "list"      -> Len(stdout) = Len(schemes)
    [] mode = "solve"     -> S!ReportIsWholeOrAbsent
    [] mode = "migration" -> M!TablesAreWholeOrAbsent
    [] mode = "handshake" -> H!TableIsWholeOrAbsent
    [] mode = "default"   -> R!WholeReportsUpToFailure

(***************************************************************************)
(* Whatever the command line, what the program has printed when it ends is *)
(* what its mode promises: all of it with exit code 0, and with another    *)
(* end nothing, or the reports and tables up to the failure.               *)
(***************************************************************************)
KeepsItsWord == Ended /\ refused = "none" => Kept

(* No command line keeps the program from its end.                         *)
AlwaysEnds == <>Ended
=============================================================================
